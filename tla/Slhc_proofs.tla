----------------------------- MODULE Slhc_proofs -----------------------------
(***************************************************************************)
(* Proofs about header compression (Slhc).  The list of transmit slots is  *)
(* a ring whose order is that of the last use; every frame on the line     *)
(* makes of the header before it, in its slot, the header that was sent;   *)
(* and without faults a frame without a slot number follows one for its    *)
(* slot.                                                                   *)
(***************************************************************************)
EXTENDS Slhc, TLAPS, SequenceTheorems, WellFoundedInduction

(***************************************************************************)
(* The inductive invariant.                                                *)
(***************************************************************************)

Bits   == {"U", "W", "A", "S", "I"}
Deltas == [U : 0 .. Short - 1, W : 0 .. Short - 1, A : 0 .. Long - 1, S : 0 .. Long - 1,
           I : 0 .. Short - 1]

\* What is on the line.
Frames ==
  [kind : {"ip"}]
    \cup [kind : {"full"}, slot : Nat, for : Slot, sent : Header]
    \cup [kind : {"compressed"}, slot : Nat, mask : SUBSET Bits, delta : Deltas,
          psh : BOOLEAN, len : 0 .. Short - 1, for : Slot, sent : Header]

\* Types, and that only a slot with a header in it is ever trusted.
SenderTypes ==
  /\ tstate \in [Slot -> Header \cup {ZeroHeader}]
  /\ next \in [Slot -> Slot] /\ xmit_oldest \in Slot /\ xmit_current \in Slot \cup {NoSlot}
ReceiverTypes ==
  /\ rstate \in [Slot -> Header \cup {ZeroHeader}]
  /\ initialized \subseteq Slot /\ hurt \subseteq Slot /\ misled \subseteq Slot
  /\ \A s \in initialized : rstate[s] \in Header
  /\ recv_current \in Slot \cup {NoSlot} /\ toss \in BOOLEAN /\ adaptive \in BOOLEAN
  /\ ~toss => recv_current \in initialized
LineTypes == line \in Seq(Frames) /\ Len(line) <= MaxOnLine
StackTypes ==
  /\ pos \in [Conns -> Nat] /\ done \in [Conns -> BOOLEAN] /\ faults \in Nat
  /\ \A c \in Conns : pos[c] <= Len(Stream[c]) /\ (~done[c] => pos[c] # 0)
TypeInv == SenderTypes /\ ReceiverTypes /\ LineTypes /\ StackTypes

\* The list of slots is a ring, in the order of lru, whose end is xmit_oldest.
Ring ==
  /\ lru \in Seq(Slot) /\ Len(lru) = Slots
  /\ \A i, j \in 1 .. Slots : lru[i] = lru[j] => i = j
  /\ \A s \in Slot : \E i \in 1 .. Slots : lru[i] = s
  /\ lru[Slots] = xmit_oldest /\ next[xmit_oldest] = lru[1]
  /\ \A i \in 1 .. Slots - 1 : next[lru[i]] = lru[i + 1]

\* Frame i is for slot s, and the frames before a place on the line.
Tcp(i)    == line[i].kind # "ip"
For(i, s) == Tcp(i) /\ line[i].for = s

LatestFor(j, i, s) == j \in 1 .. i - 1 /\ For(j, s) /\ \A k \in j + 1 .. i - 1 : ~For(k, s)
NoneFor(i, s)      == \A j \in 1 .. i - 1 : ~For(j, s)
LatestTcp(j, i)    == j \in 1 .. i - 1 /\ Tcp(j) /\ \A k \in j + 1 .. i - 1 : ~Tcp(k)
NoTcp(i)           == \A j \in 1 .. i - 1 : ~Tcp(j)

\* A frame makes the header that was sent of cs, or a special case misleads.
Yields(cs, f) == Misleads(cs, f) \/ Rebuilt(cs, f) = f.sent

\* The slots that may not hold what the sender thinks.
Off == hurt \cup misled

\* Slot s will hold h when frame i arrives, unless a fault has touched the slot by then.
Expects(i, s, h) ==
  /\ \A j \in 1 .. i - 1 : LatestFor(j, i, s) => line[j].sent = h
  /\ NoneFor(i, s) /\ s \notin Off => rstate[s] = h

\* Frame i makes the header that was sent of the one its slot will hold.
Follows(i) ==
  LET f == line[i] IN
  /\ \A j \in 1 .. i - 1 : LatestFor(j, i, f.for) => Yields(line[j].sent, f)
  /\ NoneFor(i, f.for) /\ f.for \notin Off => Yields(rstate[f.for], f)

\* Every compressed frame does so, and the sender knows what its slots will hold.
Chain ==
  /\ \A i \in 1 .. Len(line) : line[i].kind = "compressed" => Follows(i)
  /\ \A s \in Slot : tstate[s].conn \in Conns => Expects(Len(line) + 1, s, tstate[s])

\* When frame i arrives the current slot of the receiver is s, and slot s holds a header.
Points(i, s) ==
  /\ \A j \in 1 .. i - 1 : LatestTcp(j, i) => line[j].for = s
  /\ NoTcp(i) => recv_current = s
Filled(i, s) ==
  s \in initialized \/ \E j \in 1 .. i - 1 : line[j].kind = "full" /\ line[j].for = s

\* Frame i will go to the slot it is for, and find a header there.
SlotsRight(i) ==
  /\ line[i].kind = "full" => line[i].slot = line[i].for
  /\ line[i].kind = "compressed" =>
       /\ Filled(i, line[i].for)
       /\ line[i].slot = line[i].for \/ (line[i].slot = NoSlot /\ Points(i, line[i].for))

\* Both ends agree on the current slot and on the slots in use.
Synced ==
  /\ hurt = {}
  /\ adaptive \/ toss => initialized = {}
  /\ \A i \in 1 .. Len(line) : SlotsRight(i)
  /\ Points(Len(line) + 1, xmit_current)
  /\ \A s \in Slot : tstate[s].conn \in Conns => Filled(Len(line) + 1, s)

SlhcInv == TypeInv /\ Ring /\ OneSlotEach /\ Chain /\ (faults = 0 => Synced)

(***************************************************************************)
(* Numbers and sets.                                                       *)
(***************************************************************************)

\* A difference modulo n, added again modulo n.
LEMMA ModAddBack ==
  ASSUME NEW n \in Nat \ {0}, NEW a \in 0 .. n - 1, NEW b \in 0 .. n - 1
  PROVE  (b + ((a - b) % n)) % n = a
<1>1. \A x \in 0 .. n - 1 : x % n = x
  OBVIOUS
<1>2. \A x \in Int : -n <= x /\ x < 0 => x % n = x + n
  OBVIOUS
<1>3. \A x \in n .. 2 * n - 1 : x % n = x - n
  OBVIOUS
<1>4. CASE b <= a
  <2>1. (a - b) % n = a - b
    BY <1>1, <1>4
  <2> QED
    BY <1>1, <2>1
<1>5. CASE a < b
  <2>1. (a - b) % n = a - b + n
    BY <1>2, <1>5
  <2>2. b + (a - b + n) = a + n
    OBVIOUS
  <2>3. (a + n) % n = a
    BY <1>3
  <2> QED
    BY <2>1, <2>2, <2>3
<1> QED
  BY <1>4, <1>5

\* A number in range is its own remainder, and a remainder is in range.
LEMMA ModInRange ==
  ASSUME NEW n \in Nat \ {0}
  PROVE  /\ \A x \in Int : x % n \in 0 .. n - 1
         /\ \A x \in 0 .. n - 1 : x % n = x
OBVIOUS

\* A set of natural numbers with a member has a least one.
LEMMA LeastMember ==
  ASSUME NEW T \in SUBSET Nat, T # {}
  PROVE  \E x \in T : \A y \in T : x <= y
<1>1. IsWellFoundedOn(OpToRel(<, Nat), Nat)
  BY NatLessThanWellFounded
<1>2. PICK x \in T : \A y \in T : ~(<<y, x>> \in OpToRel(<, Nat))
  BY <1>1, WFMin
<1>3. \A y \in T : ~(y < x)
  BY <1>2 DEF OpToRel
<1> QED
  BY <1>3

\* What the assumptions say of the numbers.
LEMMA Numbers ==
  /\ Slots \in 1 .. 255 /\ Short \in Nat \ {0} /\ Long \in Nat \ {0} /\ Short < Long
  /\ Slot = 0 .. Slots - 1 /\ NoSlot \notin Slot /\ NoSlot \in Nat /\ Slot \subseteq Nat
BY SlhcAssumption DEF Slot, NoSlot

(***************************************************************************)
(* Compression and decompression.                                          *)
(***************************************************************************)

\* The fields of a header.
LEMMA HeaderFields ==
  ASSUME NEW h \in Header
  PROVE  /\ h.conn \in Conns /\ h.fixed \in Nat
         /\ h.seq \in 0 .. Long - 1 /\ h.ack \in 0 .. Long - 1
         /\ h.win \in 0 .. Short - 1 /\ h.id \in 0 .. Short - 1
         /\ h.urg \in BOOLEAN /\ h.urp \in 0 .. Short - 1
         /\ h.psh \in BOOLEAN /\ h.len \in 0 .. Short - 1
         /\ h = [conn |-> h.conn, fixed |-> h.fixed, seq |-> h.seq, ack |-> h.ack,
                 win |-> h.win, id |-> h.id, urg |-> h.urg, urp |-> h.urp, psh |-> h.psh,
                 len |-> h.len]
BY DEF Header

\* slhc_uncompress undoes slhc_compress: a frame that holds the changes from one header of a
\* connection to the next, applied to the former, gives the latter, but where a special case
\* misleads.
LEMMA UncompressCompress ==
  ASSUME NEW h \in Header, NEW old \in Header, h.conn = old.conn, ~Uncompressible(h, old),
         NEW f, f.mask = Mask(h, old), f.delta = Delta(h, old), f.psh = h.psh, f.len = h.len
  PROVE  Misleads(old, f) \/ Rebuilt(old, f) = h
<1> SUFFICES ASSUME ~Misleads(old, f) PROVE Rebuilt(old, f) = h
  OBVIOUS
<1>1. h \in Header /\ old \in Header
  OBVIOUS
<1> DEFINE changes == Changes(h, old)
           delta == Delta(h, old)
           mask == Mask(h, old) \ {"I"}
           byId == IF h.id - old.id # 1 THEN delta.I ELSE 1
<1>2. /\ ("U" \in changes) = h.urg
      /\ ("W" \in changes) = (h.win # old.win)
      /\ ("A" \in changes) = (h.ack # old.ack)
      /\ ("S" \in changes) = (h.seq # old.seq)
      /\ changes \subseteq {"U", "W", "A", "S"}
  BY <1>1, HeaderFields DEF Changes
<1>3. /\ delta.U = h.urp /\ delta.W = (h.win - old.win) % Short
      /\ delta.A = (h.ack - old.ack) % Long /\ delta.S = (h.seq - old.seq) % Long
      /\ delta.I = (h.id - old.id) % Short
  BY DEF Delta
<1>4. /\ (old.win + delta.W) % Short = h.win
      /\ (old.ack + delta.A) % Long = h.ack
      /\ (old.seq + delta.S) % Long = h.seq
  <2>1. (old.win + ((h.win - old.win) % Short)) % Short = h.win
    <3>1. h.win \in 0 .. Short - 1 /\ old.win \in 0 .. Short - 1
      BY <1>1, HeaderFields
    <3> QED
      BY <3>1, ModAddBack, Numbers
  <2>2. (old.ack + ((h.ack - old.ack) % Long)) % Long = h.ack
    <3>1. h.ack \in 0 .. Long - 1 /\ old.ack \in 0 .. Long - 1
      BY <1>1, HeaderFields
    <3> QED
      BY <3>1, ModAddBack, Numbers
  <2>3. (old.seq + ((h.seq - old.seq) % Long)) % Long = h.seq
    <3>1. h.seq \in 0 .. Long - 1 /\ old.seq \in 0 .. Long - 1
      BY <1>1, HeaderFields
    <3> QED
      BY <3>1, ModAddBack, Numbers
  <2> QED
    BY <1>3, <2>1, <2>2, <2>3
<1>5. (old.id + byId) % Short = h.id
  <2>1. CASE h.id - old.id # 1
    BY <1>1, <1>3, <2>1, HeaderFields, ModAddBack, Numbers
  <2>2. CASE h.id - old.id = 1
    <3>1. old.id + 1 = h.id
      BY <1>1, <2>2, HeaderFields
    <3>2. h.id % Short = h.id
      BY <1>1, HeaderFields, ModInRange, Numbers
    <3> QED
      BY <2>2, <3>1, <3>2
  <2> QED
    BY <2>1, <2>2
<1>6. /\ (old.win + 0) % Short = old.win /\ (old.ack + 0) % Long = old.ack
      /\ (old.seq + 0) % Long = old.seq
  <2>1. \A n \in Nat \ {0} : \A x \in 0 .. n - 1 : (x + 0) % n = x
    BY ModInRange
  <2> QED
    BY <1>1, <2>1, HeaderFields, Numbers
<1>7. /\ h.fixed = old.fixed /\ (~h.urg => h.urp = old.urp)
      /\ changes # SPECIAL_I /\ changes # SPECIAL_D
  BY DEF Uncompressible, Ambiguous
<1>8. ("I" \in f.mask) = (h.id - old.id # 1)
  BY <1>2 DEF Mask, SPECIAL_I, SPECIAL_D
<1>9. /\ f.delta = delta /\ f.mask \ {"I"} = mask
      /\ (IF "I" \in f.mask THEN f.delta.I ELSE 1) = byId
  BY <1>8
<1>10. /\ mask \in {SPECIAL_I, SPECIAL_D} => ~old.urg
       /\ mask = SPECIAL_I => AsSigned(old.len) = old.len
  <2>1. /\ mask \in {SPECIAL_I, SPECIAL_D} => ~old.urg
        /\ mask = SPECIAL_I => ~(2 * old.len >= Short)
    BY <1>9 DEF Misleads
  <2>2. old.len \in Nat /\ Short \in Nat
    BY <1>1, HeaderFields, Numbers
  <2> QED
    BY <2>1, <2>2 DEF AsSigned
<1>11. CASE changes = {"S", "A"} /\ delta.S = delta.A /\ delta.S = old.len
  <2>1. mask = SPECIAL_I
    BY <1>11 DEF Mask, SPECIAL_I
  <2>2. h.win = old.win /\ ~h.urg
    BY <1>2, <1>11
  <2>3. h.urp = old.urp /\ h.urg = old.urg
    BY <1>1, <1>7, <1>10, <2>1, <2>2, HeaderFields
  <2>4. (old.ack + AsSigned(old.len)) % Long = h.ack /\ (old.seq + AsSigned(old.len)) % Long = h.seq
    BY <1>4, <1>10, <1>11, <2>1
  <2>5. Rebuilt(old, f) = [old EXCEPT !.ack = h.ack, !.seq = h.seq, !.psh = h.psh,
                                      !.len = h.len, !.id = h.id]
    BY <1>1, <1>5, <1>9, <2>1, <2>4, HeaderFields DEF Rebuilt, Advance
  <2> QED
    BY <1>1, <1>7, <2>2, <2>3, <2>5, HeaderFields
<1>12. CASE changes = {"S"} /\ delta.S = old.len
  <2>1. mask = SPECIAL_D /\ mask # SPECIAL_I
    BY <1>12 DEF Mask, SPECIAL_D, SPECIAL_I
  <2>2. h.win = old.win /\ h.ack = old.ack /\ ~h.urg
    BY <1>2, <1>12
  <2>3. h.urp = old.urp /\ h.urg = old.urg
    BY <1>1, <1>7, <1>10, <2>1, <2>2, HeaderFields
  <2>4. (old.seq + old.len) % Long = h.seq
    BY <1>4, <1>12
  <2>5. Rebuilt(old, f) = [old EXCEPT !.seq = h.seq, !.psh = h.psh, !.len = h.len, !.id = h.id]
    BY <1>1, <1>5, <1>9, <2>1, <2>4, HeaderFields DEF Rebuilt, Advance
  <2> QED
    BY <1>1, <1>7, <2>2, <2>3, <2>5, HeaderFields
<1>13. CASE /\ ~(changes = {"S", "A"} /\ delta.S = delta.A /\ delta.S = old.len)
            /\ ~(changes = {"S"} /\ delta.S = old.len)
  <2>1. mask = changes /\ mask \notin {SPECIAL_I, SPECIAL_D}
    BY <1>2, <1>7, <1>13 DEF Mask
  <2>2. /\ (old.win + (IF "W" \in f.mask THEN delta.W ELSE 0)) % Short = h.win
        /\ (old.ack + (IF "A" \in f.mask THEN delta.A ELSE 0)) % Long = h.ack
        /\ (old.seq + (IF "S" \in f.mask THEN delta.S ELSE 0)) % Long = h.seq
    BY <1>2, <1>4, <1>6, <1>9, <2>1
  <2>3. /\ ("U" \in f.mask) = h.urg
        /\ (IF "U" \in f.mask THEN delta.U ELSE old.urp) = h.urp
    BY <1>1, <1>2, <1>3, <1>7, <1>9, <2>1, HeaderFields
  <2>4. Add(old, f) = [old EXCEPT !.urg = h.urg, !.urp = h.urp, !.win = h.win, !.ack = h.ack,
                                  !.seq = h.seq]
    BY <1>1, <1>9, <2>2, <2>3, HeaderFields DEF Add
  <2>5. Rebuilt(old, f) = [Add(old, f) EXCEPT !.psh = h.psh, !.len = h.len,
                                              !.id = (@ + byId) % Short]
    BY <1>9, <2>1 DEF Rebuilt
  <2>6. Rebuilt(old, f) = [old EXCEPT !.urg = h.urg, !.urp = h.urp, !.win = h.win,
                                      !.ack = h.ack, !.seq = h.seq, !.psh = h.psh,
                                      !.len = h.len, !.id = h.id]
    BY <1>1, <1>5, <2>4, <2>5, HeaderFields
  <2> QED
    BY <1>1, <1>7, <2>6, HeaderFields
<1> QED
  BY <1>11, <1>12, <1>13

(***************************************************************************)
(* The ring of transmit slots.                                             *)
(***************************************************************************)

\* slhc_compress searches the slots in the order of their last use.
LEMMA OrderIsLru ==
  ASSUME Ring
  PROVE  \A i \in 1 .. Slots : Order[i] = lru[i]
<1> DEFINE Searched(f) ==
             f = [i \in 1 .. Slots |-> IF i = 1 THEN next[xmit_oldest] ELSE next[f[i - 1]]]
<1>1. Slots \in Nat \ {0}
  BY Numbers
<1>2. lru = [i \in 1 .. Slots |-> IF i = 1 THEN next[xmit_oldest] ELSE next[lru[i - 1]]]
  <2>1. lru = [i \in 1 .. Slots |-> lru[i]]
    BY <1>1 DEF Ring
  <2>2. ASSUME NEW i \in 1 .. Slots, i # 1 PROVE lru[i] = next[lru[i - 1]]
    <3>1. i - 1 \in 1 .. Slots - 1 /\ (i - 1) + 1 = i
      BY <1>1, <2>2
    <3> QED
      BY <3>1 DEF Ring
  <2>3. lru[1] = next[xmit_oldest]
    BY DEF Ring
  <2> QED
    BY <2>1, <2>2, <2>3
<1>3. Order = CHOOSE f : Searched(f)
  BY DEF Order
<1>4. Searched(Order)
  <2>1. Searched(lru)
    BY <1>2
  <2> HIDE DEF Searched
  <2> QED
    BY <1>3, <2>1
<1> DEFINE Differ == {i \in 1 .. Slots : Order[i] # lru[i]}
<1>5. SUFFICES ASSUME Differ # {} PROVE FALSE
  OBVIOUS
<1>6. PICK i \in Differ : \A j \in Differ : i <= j
  <2>1. Differ \in SUBSET Nat
    BY <1>1
  <2> HIDE DEF Differ
  <2> QED
    BY <1>5, <2>1, LeastMember
<1>7. i \in 1 .. Slots /\ Order[i] # lru[i]
  OBVIOUS
<1>8. CASE i = 1
  BY <1>2, <1>4, <1>7, <1>8
<1>9. CASE i # 1
  <2>1. i - 1 \in 1 .. Slots /\ ~(i <= i - 1)
    BY <1>1, <1>7, <1>9
  <2>2. Order[i - 1] = lru[i - 1]
    BY <1>6, <2>1
  <2>3. Order[i] = next[Order[i - 1]] /\ lru[i] = next[lru[i - 1]]
    BY <1>2, <1>4, <1>7, <1>9
  <2> QED
    BY <1>7, <2>2, <2>3
<1> QED
  BY <1>8, <1>9

\* The search stops at the slot of the connection, or else at the one used longest ago.
LEMMA SearchStops ==
  ASSUME Ring, NEW c
  PROVE  /\ Stop(c) \in 1 .. Slots /\ Found(c) = lru[Stop(c)] /\ Found(c) \in Slot
         /\ Stop(c) # 1 => Stop(c) - 1 \in 1 .. Slots - 1 /\ Before(c) = lru[Stop(c) - 1]
         /\ \/ tstate[Found(c)].conn = c
            \/ \A s \in Slot : tstate[s].conn # c
<1>1. \A i \in 1 .. Slots : Order[i] = lru[i]
  BY OrderIsLru
<1>2. CASE Matches(c) = {}
  <2>1. Stop(c) = Slots
    BY <1>2 DEF Stop
  <2>2. \A s \in Slot : tstate[s].conn # c
    BY <1>1, <1>2 DEF Matches, Ring
  <2>3. Slots \in 1 .. Slots /\ (Slots # 1 => Slots - 1 \in 1 .. Slots - 1)
    BY Numbers
  <2>4. lru[Slots] \in Slot
    BY <2>3 DEF Ring
  <2> QED
    BY <1>1, <2>1, <2>2, <2>3, <2>4, Numbers DEF Found, Before
<1>3. CASE Matches(c) # {}
  <2>1. Matches(c) \in SUBSET Nat
    BY Numbers DEF Matches
  <2>2. PICK k \in Matches(c) : \A j \in Matches(c) : k <= j
    BY <1>3, <2>1, LeastMember
  <2>3. Stop(c) \in Matches(c)
    BY <1>3, <2>2 DEF Stop
  <2>4. Stop(c) \in 1 .. Slots /\ tstate[Order[Stop(c)]].conn = c
    BY <2>3 DEF Matches
  <2>5. lru[Stop(c)] \in Slot
    BY <2>4 DEF Ring
  <2>6. Stop(c) # 1 => Stop(c) - 1 \in 1 .. Slots - 1 /\ Stop(c) - 1 \in 1 .. Slots
    <3>1. \A n \in Nat : \A m \in 1 .. n : m # 1 => m - 1 \in 1 .. n - 1 /\ m - 1 \in 1 .. n
      OBVIOUS
    <3>2. Slots \in Nat
      BY Numbers
    <3> QED
      BY <2>4, <3>1, <3>2, Zenon
  <2> QED
    BY <1>1, <2>4, <2>5, <2>6 DEF Found, Before
<1> QED
  BY <1>2, <1>3

\* The order of use once slot k of it has been used.
Moved(k) == <<lru[k]>> \o RemoveAt(lru, k)

\* What the new order of use looks like.
LEMMA MoveToFront ==
  ASSUME Ring, NEW k \in 1 .. Slots, NEW l, l = Moved(k)
  PROVE  /\ l \in Seq(Slot) /\ Len(l) = Slots
         /\ l[1] = lru[k]
         /\ \A i \in 2 .. k : l[i] = lru[i - 1]
         /\ \A i \in k + 1 .. Slots : l[i] = lru[i]
<1>1. /\ Slots \in Nat \ {0} /\ lru \in Seq(Slot) /\ Len(lru) = Slots /\ k \in Nat
      /\ lru[k] \in Slot
  <2>1. Slots \in Nat \ {0} /\ k \in Nat
    BY Numbers
  <2>2. lru \in Seq(Slot) /\ Len(lru) = Slots
    BY DEF Ring
  <2> QED
    BY <2>1, <2>2
<1>2. PICK a : a = SubSeq(lru, 1, k - 1)
  OBVIOUS
<1>3. PICK b : b = SubSeq(lru, k + 1, Slots)
  OBVIOUS
<1>4. a \in Seq(Slot) /\ Len(a) = k - 1 /\ \A i \in 1 .. k - 1 : a[i] = lru[i]
  <2>1. \A i \in 1 .. k - 1 : i \in 1 .. Len(lru)
    BY <1>1
  <2>2. (IF 1 <= k - 1 THEN (k - 1) - 1 + 1 ELSE 0) = k - 1
    BY <1>1
  <2>3. (k - 1) - 1 + 1 = k - 1 /\ \A i \in 1 .. k - 1 : 1 + i - 1 = i
    BY <1>1
  <2> QED
    BY <1>1, <1>2, <2>1, <2>2, <2>3, SubSeqProperties
<1>5. /\ b \in Seq(Slot) /\ Len(b) = Slots - k
      /\ \A i \in 1 .. Slots - k : b[i] = lru[k + i]
  <2>1. \A i \in k + 1 .. Slots : i \in 1 .. Len(lru)
    BY <1>1
  <2>2. (IF k + 1 <= Slots THEN Slots - (k + 1) + 1 ELSE 0) = Slots - k
    BY <1>1
  <2>3. Slots - (k + 1) + 1 = Slots - k /\ \A i \in 1 .. Slots - k : (k + 1) + i - 1 = k + i
    BY <1>1
  <2> QED
    BY <1>1, <1>3, <2>1, <2>2, <2>3, SubSeqProperties
<1>6. PICK d : d = a \o b
  OBVIOUS
<1>7. /\ d \in Seq(Slot) /\ Len(d) = Slots - 1
      /\ \A i \in 1 .. k - 1 : d[i] = lru[i]
      /\ \A i \in k .. Slots - 1 : d[i] = lru[i + 1]
  <2>1. /\ d \in Seq(Slot) /\ Len(d) = Len(a) + Len(b)
        /\ \A i \in 1 .. Len(a) + Len(b) : d[i] = IF i <= Len(a) THEN a[i] ELSE b[i - Len(a)]
    BY <1>4, <1>5, <1>6, ConcatProperties
  <2>3. /\ d \in Seq(Slot) /\ Len(d) = Slots - 1
        /\ \A i \in 1 .. Slots - 1 : d[i] = IF i <= k - 1 THEN a[i] ELSE b[i - (k - 1)]
    <3>1. (k - 1) + (Slots - k) = Slots - 1
      BY <1>1
    <3> QED
      BY <1>4, <1>5, <2>1, <3>1
  <2>2. /\ (k - 1) + (Slots - k) = Slots - 1
        /\ \A i \in 1 .. k - 1 : i \in 1 .. Slots - 1 /\ i <= k - 1
        /\ \A i \in k .. Slots - 1 : /\ i \in 1 .. Slots - 1 /\ ~(i <= k - 1)
                                     /\ i - (k - 1) \in 1 .. Slots - k /\ k + (i - (k - 1)) = i + 1
    BY <1>1
  <2> QED
    <3>1. ASSUME NEW i \in 1 .. k - 1 PROVE d[i] = lru[i]
      BY <1>4, <2>2, <2>3
    <3>2. ASSUME NEW i \in k .. Slots - 1 PROVE d[i] = lru[i + 1]
      <4>1. d[i] = b[i - (k - 1)]
        BY <2>2, <2>3
      <4>2. b[i - (k - 1)] = lru[k + (i - (k - 1))]
        BY <1>5, <2>2
      <4> QED
        BY <2>2, <4>1, <4>2
    <3> QED
      BY <2>3, <3>1, <3>2
<1>8. l = <<lru[k]>> \o d
  BY <1>1, <1>2, <1>3, <1>6 DEF Moved, RemoveAt
<1>9. PICK e : e = <<lru[k]>>
  OBVIOUS
<1>10. e \in Seq(Slot) /\ Len(e) = 1 /\ e[1] = lru[k]
  BY <1>1, <1>9
<1>11. /\ l \in Seq(Slot) /\ Len(l) = Slots
       /\ \A i \in 1 .. Slots : l[i] = IF i <= 1 THEN e[i] ELSE d[i - 1]
  <2>1. 1 + (Slots - 1) = Slots
    BY <1>1
  <2>2. /\ l \in Seq(Slot) /\ Len(l) = Len(e) + Len(d)
        /\ \A i \in 1 .. Len(e) + Len(d) : l[i] = IF i <= Len(e) THEN e[i] ELSE d[i - Len(e)]
    <3>1. l = e \o d
      BY <1>8, <1>9
    <3>2. e \in Seq(Slot) /\ d \in Seq(Slot)
      BY <1>7, <1>10
    <3> QED
      BY <3>1, <3>2, ConcatProperties
  <2>3. Len(e) + Len(d) = Slots
    BY <1>7, <1>10, <2>1
  <2> QED
    BY <1>10, <2>2, <2>3
<1>12. l[1] = lru[k]
  BY <1>1, <1>10, <1>11
<1>13. \A i \in 2 .. Slots : i \in 1 .. Slots /\ l[i] = d[i - 1]
  BY <1>1, <1>11
<1>14. ASSUME NEW i \in 2 .. k PROVE l[i] = lru[i - 1]
  <2>1. i \in 2 .. Slots /\ i - 1 \in 1 .. k - 1
    BY <1>1
  <2> QED
    BY <1>7, <1>13, <2>1
<1>15. ASSUME NEW i \in k + 1 .. Slots PROVE l[i] = lru[i]
  <2>1. i \in 2 .. Slots /\ i - 1 \in k .. Slots - 1 /\ (i - 1) + 1 = i
    BY <1>1
  <2> QED
    BY <1>7, <1>13, <2>1
<1> QED
  BY <1>11, <1>12, <1>14, <1>15

\* The slot of a header sent becomes the newest one of the ring.
LEMMA TouchKeepsRing ==
  ASSUME TypeInv, Ring, NEW c, Touch(c)
  PROVE  Ring'
<1>1. PICK k \in 1 .. Slots : k = Stop(c)
  BY SearchStops
<1>2. Found(c) = lru[k] /\ (k # 1 => k - 1 \in 1 .. Slots - 1 /\ Before(c) = lru[k - 1])
  BY <1>1, SearchStops
<1>3. Slots \in Nat \ {0} /\ k \in Nat
  BY Numbers
<1>4. PICK l : l = Moved(k)
  OBVIOUS
<1>5. lru' = l
  <2>1. DOMAIN lru = 1 .. Slots
    BY DEF Ring
  <2>2. (CHOOSE i \in DOMAIN lru : lru[i] = Found(c)) = k
    BY <1>2, <2>1 DEF Ring
  <2> QED
    BY <1>2, <1>4, <2>2 DEF Touch, Moved
<1>6. /\ l \in Seq(Slot) /\ Len(l) = Slots
      /\ l[1] = lru[k]
      /\ \A i \in 2 .. k : l[i] = lru[i - 1]
      /\ \A i \in k + 1 .. Slots : l[i] = lru[i]
  BY <1>4, MoveToFront
<1>7. \A i, j \in 1 .. Slots : lru[i] = lru[j] => i = j
  BY DEF Ring
<1>8. \A i \in 1 .. Slots : lru[i] \in Slot
  BY DEF Ring
\* Places of the new order come from places of the old one, each from another.
<1> DEFINE from(i) == IF i = 1 THEN k ELSE IF i <= k THEN i - 1 ELSE i
<1>9. \A i \in 1 .. Slots : from(i) \in 1 .. Slots /\ l[i] = lru[from(i)]
  <2>1. ASSUME NEW i \in 1 .. Slots PROVE from(i) \in 1 .. Slots /\ l[i] = lru[from(i)]
    <3>1. CASE i = 1
      BY <1>6, <3>1
    <3>2. CASE i # 1 /\ i <= k
      <4>1. i \in 2 .. k /\ i - 1 \in 1 .. Slots /\ from(i) = i - 1
        BY <1>3, <3>2
      <4> QED
        BY <1>6, <4>1
    <3>3. CASE i # 1 /\ ~(i <= k)
      <4>1. i \in k + 1 .. Slots /\ from(i) = i
        BY <1>3, <3>3
      <4> QED
        BY <1>6, <4>1
    <3> QED
      BY <3>1, <3>2, <3>3
  <2> QED
    BY <2>1
<1>10. \A i, j \in 1 .. Slots : from(i) = from(j) => i = j
  BY <1>3
<1>11. \A m \in 1 .. Slots : \E i \in 1 .. Slots : from(i) = m
  <2>1. ASSUME NEW m \in 1 .. Slots PROVE \E i \in 1 .. Slots : from(i) = m
    <3>1. CASE m = k
      BY <1>3, <3>1
    <3>2. CASE m < k
      <4>1. m + 1 \in 1 .. Slots /\ from(m + 1) = m
        BY <1>3, <3>2
      <4> QED
        BY <4>1
    <3>3. CASE k < m
      <4>1. from(m) = m
        BY <1>3, <3>3
      <4> QED
        BY <4>1
    <3> QED
      BY <1>3, <3>1, <3>2, <3>3
  <2> QED
    BY <2>1
<1> HIDE DEF from
<1>12. \A i, j \in 1 .. Slots : l[i] = l[j] => i = j
  BY <1>7, <1>9, <1>10
<1>13. \A s \in Slot : \E i \in 1 .. Slots : l[i] = s
  <2>1. ASSUME NEW s \in Slot PROVE \E i \in 1 .. Slots : l[i] = s
    <3>1. PICK m \in 1 .. Slots : lru[m] = s
      BY DEF Ring
    <3>2. PICK i \in 1 .. Slots : from(i) = m
      BY <1>11
    <3> QED
      BY <1>9, <3>1, <3>2
  <2> QED
    BY <2>1
<1> USE DEF from
<1>14. /\ l[Slots] = xmit_oldest' /\ next'[l[Slots]] = l[1]
       /\ \A i \in 1 .. Slots - 1 : next'[l[i]] = l[i + 1]
  <2>1. CASE k = 1
    <3>1. UNCHANGED <<next, xmit_oldest>>
      BY <1>1, <2>1 DEF Touch
    <3>2. \A i \in 1 .. Slots : l[i] = lru[i]
      BY <1>9, <2>1
    <3>3. \A i \in 1 .. Slots - 1 : i \in 1 .. Slots /\ i + 1 \in 1 .. Slots
      BY <1>3
    <3>4. 1 \in 1 .. Slots /\ Slots \in 1 .. Slots
      BY <1>3
    <3> QED
      BY <3>1, <3>2, <3>3, <3>4 DEF Ring
  <2>2. CASE k # 1 /\ k = Slots
    <3>1. Found(c) = xmit_oldest
      BY <1>2, <2>2 DEF Ring
    <3>2. xmit_oldest' = lru[k - 1] /\ next' = next
      BY <1>1, <1>2, <2>2, <3>1 DEF Touch
    <3>3. l[Slots] = lru[k - 1] /\ k - 1 \in 1 .. Slots - 1
      BY <1>3, <1>9, <2>2
    <3>4. next[lru[k - 1]] = lru[k]
      <4>1. (k - 1) + 1 = k
        BY <1>3
      <4> QED
        BY <3>3, <4>1 DEF Ring
    <3>5. ASSUME NEW i \in 1 .. Slots - 1 PROVE next[l[i]] = l[i + 1]
      <4>1. CASE i = 1
        <5>1. l[1] = lru[Slots] /\ l[2] = lru[1]
          BY <1>3, <1>6, <2>2, <4>1
        <5> QED
          BY <4>1, <5>1 DEF Ring
      <4>2. CASE i # 1
        <5>1. i - 1 \in 1 .. Slots - 1 /\ (i - 1) + 1 = i /\ l[i] = lru[i - 1]
          BY <1>3, <1>6, <2>2, <4>2
        <5>2. i + 1 \in 2 .. k /\ (i + 1) - 1 = i
          BY <1>3, <2>2
        <5>3. l[i + 1] = lru[i]
          BY <1>6, <5>2
        <5>4. next[lru[i - 1]] = lru[(i - 1) + 1]
          BY <5>1 DEF Ring
        <5> QED
          BY <5>1, <5>3, <5>4
      <4> QED
        BY <4>1, <4>2
    <3> QED
      BY <1>6, <3>2, <3>3, <3>4, <3>5
  <2>3. CASE k # 1 /\ k # Slots
    <3>1. k \in 2 .. Slots - 1 /\ k - 1 \in 1 .. Slots - 1 /\ (k - 1) + 1 = k
      BY <1>3, <2>3
    <3>2. xmit_oldest = lru[Slots] /\ lru[k] # lru[Slots] /\ lru[k - 1] # lru[Slots]
          /\ lru[k - 1] # lru[k]
      <4>1. k - 1 \in 1 .. Slots /\ Slots \in 1 .. Slots /\ k - 1 # Slots /\ k - 1 # k
        BY <1>3, <2>3
      <4> QED
        BY <1>7, <2>3, <4>1 DEF Ring
    <3>3. next' = Relink(c) /\ xmit_oldest' = xmit_oldest
      BY <1>1, <1>2, <2>3, <3>2 DEF Touch
    <3>4. PICK b \in Slot, f \in Slot, o \in Slot : b = lru[k - 1] /\ f = lru[k] /\ o = lru[Slots]
      <4>1. k - 1 \in 1 .. Slots /\ Slots \in 1 .. Slots
        BY <1>3, <3>1
      <4> QED
        BY <1>8, <4>1
    <3>5. next[f] = lru[k + 1] /\ next[o] = lru[1]
      BY <3>1, <3>2, <3>4 DEF Ring
    <3>6. next' = [next EXCEPT ![b] = lru[k + 1], ![f] = lru[1], ![o] = f]
      BY <1>2, <2>3, <3>2, <3>3, <3>4, <3>5 DEF Relink
    <3>7. next \in [Slot -> Slot] /\ b # f /\ b # o /\ f # o
      BY <3>2, <3>4 DEF TypeInv, SenderTypes
    <3>8. /\ next'[b] = lru[k + 1] /\ next'[f] = lru[1] /\ next'[o] = f
          /\ \A s \in Slot \ {b, f, o} : next'[s] = next[s]
      BY <3>4, <3>6, <3>7
    <3>9. l[Slots] = o
      BY <1>3, <1>9, <3>1, <3>4
    <3>10. l[1] = f
      BY <1>6, <3>4
    <3>11. ASSUME NEW i \in 1 .. Slots - 1 PROVE next'[l[i]] = l[i + 1]
      <4>1. CASE i = 1
        <5>1. l[2] = lru[1]
          BY <1>3, <1>6, <3>1
        <5> QED
          BY <3>8, <3>10, <4>1, <5>1
      <4>2. CASE i = k
        <5>1. k \in 2 .. k /\ k + 1 \in k + 1 .. Slots
          BY <1>3, <3>1
        <5>2. l[k] = lru[k - 1] /\ l[k + 1] = lru[k + 1]
          BY <1>6, <5>1
        <5> QED
          BY <3>4, <3>8, <4>2, <5>2
      <4>3. CASE i # 1 /\ i < k
        <5>1. i - 1 \in 1 .. Slots - 1 /\ (i - 1) + 1 = i /\ i \in 2 .. k /\ i + 1 \in 2 .. k
              /\ (i + 1) - 1 = i
          BY <1>3, <3>1, <4>3
        <5>2. l[i] = lru[i - 1] /\ l[i + 1] = lru[i]
          BY <1>6, <5>1
        <5>3. lru[i - 1] \in Slot \ {b, f, o}
          <6>1. i - 1 \in 1 .. Slots /\ k - 1 \in 1 .. Slots /\ Slots \in 1 .. Slots
                /\ i - 1 # k - 1 /\ i - 1 # k /\ i - 1 # Slots
            BY <1>3, <3>1, <4>3
          <6> QED
            BY <1>7, <1>8, <3>4, <6>1
        <5>4. next[lru[i - 1]] = lru[(i - 1) + 1]
          BY <5>1 DEF Ring
        <5> QED
          BY <3>8, <5>1, <5>2, <5>3, <5>4
      <4>4. CASE k < i
        <5>1. i \in k + 1 .. Slots /\ i + 1 \in k + 1 .. Slots
          BY <1>3, <4>4
        <5>2. l[i] = lru[i] /\ l[i + 1] = lru[i + 1]
          BY <1>6, <5>1
        <5>3. lru[i] \in Slot \ {b, f, o}
          <6>1. i \in 1 .. Slots /\ k - 1 \in 1 .. Slots /\ Slots \in 1 .. Slots
                /\ i # k - 1 /\ i # k /\ i # Slots
            BY <1>3, <3>1, <4>4
          <6> QED
            BY <1>7, <1>8, <3>4, <6>1
        <5>4. next[lru[i]] = lru[i + 1]
          BY DEF Ring
        <5> QED
          BY <3>8, <5>2, <5>3, <5>4
      <4> QED
        BY <1>3, <4>1, <4>2, <4>3, <4>4
    <3> QED
      BY <3>2, <3>3, <3>4, <3>8, <3>9, <3>10, <3>11
  <2> QED
    BY <2>1, <2>2, <2>3
<1> QED
  BY <1>5, <1>6, <1>12, <1>13, <1>14 DEF Ring

\* A new table is a ring.
LEMMA FirstRing ==
  ASSUME NEW l, l = SenderInit.lru
  PROVE  /\ l \in Seq(Slot) /\ Len(l) = Slots
         /\ \A i, j \in 1 .. Slots : l[i] = l[j] => i = j
         /\ \A s \in Slot : \E i \in 1 .. Slots : l[i] = s
         /\ l[Slots] = 0 /\ SenderInit.next[0] = l[1]
         /\ \A i \in 1 .. Slots - 1 : SenderInit.next[l[i]] = l[i + 1]
         /\ SenderInit.next \in [Slot -> Slot]
<1>1. Slots \in Nat \ {0} /\ Slot = 0 .. Slots - 1
  BY Numbers
<1>2. l = [i \in 1 .. Slots |-> Slots - i]
  BY DEF SenderInit
<1>3. l \in Seq(Slot) /\ Len(l) = Slots
  <2>1. \A i \in 1 .. Slots : Slots - i \in Slot
    BY <1>1
  <2> QED
    BY <1>1, <1>2, <2>1
<1>4. \A i \in 1 .. Slots : l[i] = Slots - i
  BY <1>2
<1>5. \A i, j \in 1 .. Slots : l[i] = l[j] => i = j
  BY <1>1, <1>4
<1>6. ASSUME NEW s \in Slot PROVE \E i \in 1 .. Slots : l[i] = s
  <2>1. Slots - s \in 1 .. Slots /\ Slots - (Slots - s) = s
    BY <1>1
  <2> QED
    BY <1>4, <2>1
<1>7. SenderInit.next = [s \in Slot |-> IF s = 0 THEN Slots - 1 ELSE s - 1]
  BY DEF SenderInit
<1>8. l[Slots] = 0 /\ SenderInit.next[0] = l[1]
  BY <1>1, <1>4, <1>7
<1>9. ASSUME NEW i \in 1 .. Slots - 1 PROVE SenderInit.next[l[i]] = l[i + 1]
  <2>1. i \in 1 .. Slots /\ i + 1 \in 1 .. Slots /\ Slots - i \in Slot /\ Slots - i # 0
        /\ (Slots - i) - 1 = Slots - (i + 1)
    BY <1>1
  <2> QED
    BY <1>4, <1>7, <2>1
<1>10. SenderInit.next \in [Slot -> Slot]
  BY <1>1, <1>7
<1> QED
  BY <1>3, <1>5, <1>6, <1>8, <1>9, <1>10

(***************************************************************************)
(* A frame is sent.                                                        *)
(***************************************************************************)

\* slhc_compress puts header h in slot s and frame f at the end of the line.
Sends(h, s, f) ==
  /\ tstate' = [tstate EXCEPT ![s] = h] /\ xmit_current' = s /\ line' = Append(line, f)
  /\ f \in Frames /\ f.kind \in {"full", "compressed"} /\ f.for = s /\ f.sent = h
  /\ f.kind = "full" => f.slot = s
  /\ f.kind = "compressed" =>
       /\ tstate[s].conn \in Conns /\ Yields(tstate[s], f)
       /\ f.slot = IF xmit_current = s THEN NoSlot ELSE s
  /\ \/ tstate[s].conn = h.conn
     \/ \A t \in Slot : tstate[t].conn # h.conn

\* Whatever slhc_compress does, it sends a frame for the slot it settles on.
LEMMA FrameSent ==
  ASSUME TypeInv, Ring, NEW h \in Header, Compress(h)
  PROVE  \E s \in Slot, f \in Frames : Sends(h, s, f)
<1>1. PICK s \in Slot : s = Found(h.conn)
  BY SearchStops
<1>2. \/ tstate[s].conn = h.conn
      \/ \A t \in Slot : tstate[t].conn # h.conn
  BY <1>1, SearchStops
<1>3. PICK old \in Header \cup {ZeroHeader} : old = tstate[s]
  BY DEF TypeInv, SenderTypes
<1>4. /\ tstate' = [tstate EXCEPT ![s] = h] /\ xmit_current' = s
      /\ line' = Append(line, IF old.conn # h.conn \/ Uncompressible(h, old)
                                THEN Full(h, s) ELSE Compressed(h, old, s))
  BY <1>1, <1>3 DEF Compress
<1>5. h \in Header /\ h.conn \in Conns
  BY HeaderFields
<1>6. s \in Nat /\ NoSlot \in Nat
  BY Numbers
<1>7. CASE old.conn # h.conn \/ Uncompressible(h, old)
  <2>1. PICK f : f = Full(h, s)
    OBVIOUS
  <2>2. f \in Frames
    BY <1>5, <1>6, <2>1 DEF Full, Frames
  <2>3. f.kind = "full" /\ f.for = s /\ f.sent = h /\ f.slot = s
    BY <2>1 DEF Full
  <2>4. line' = Append(line, f)
    BY <1>4, <1>7, <2>1
  <2> QED
    BY <1>2, <1>4, <2>2, <2>3, <2>4 DEF Sends
<1>8. CASE old.conn = h.conn /\ ~Uncompressible(h, old)
  <2>1. old \in Header
    BY <1>5, <1>8, SlhcAssumption DEF ZeroHeader
  <2>2. PICK f : f = Compressed(h, old, s)
    OBVIOUS
  <2>3. /\ f.kind = "compressed" /\ f.for = s /\ f.sent = h
        /\ f.mask = Mask(h, old) /\ f.delta = Delta(h, old) /\ f.psh = h.psh /\ f.len = h.len
        /\ f.slot = IF xmit_current = s THEN NoSlot ELSE s
    BY <2>2 DEF Compressed, Explicit
  <2>4. Yields(old, f)
    BY <1>8, <2>1, <2>3, UncompressCompress DEF Yields
  <2>5. Mask(h, old) \in SUBSET Bits
    <3>1. Changes(h, old) \subseteq Bits
      BY DEF Changes, Bits
    <3> QED
      BY <3>1 DEF Mask, Bits, SPECIAL_I, SPECIAL_D
  <2>6. Delta(h, old) \in Deltas
    <3>1. /\ h.urp \in 0 .. Short - 1
          /\ h.win - old.win \in Int /\ h.id - old.id \in Int
          /\ h.ack - old.ack \in Int /\ h.seq - old.seq \in Int
      BY <1>5, <2>1, HeaderFields
    <3>2. /\ (h.win - old.win) % Short \in 0 .. Short - 1
          /\ (h.id - old.id) % Short \in 0 .. Short - 1
          /\ (h.ack - old.ack) % Long \in 0 .. Long - 1
          /\ (h.seq - old.seq) % Long \in 0 .. Long - 1
      <4>1. Short \in Nat \ {0} /\ Long \in Nat \ {0}
        BY Numbers, Zenon
      <4>2. /\ \A x \in Int : x % Short \in 0 .. Short - 1
            /\ \A x \in Int : x % Long \in 0 .. Long - 1
        BY <4>1, ModInRange, Zenon
      <4> QED
        BY <3>1, <4>2, Zenon
    <3> QED
      BY <3>1, <3>2 DEF Delta, Deltas
  <2>7. f \in Frames
    <3>1. h.psh \in BOOLEAN /\ h.len \in 0 .. Short - 1
      BY <1>5, HeaderFields
    <3>2. (IF Explicit(s) THEN s ELSE NoSlot) \in Nat
      BY <1>6
    <3> QED
      BY <1>5, <2>2, <2>5, <2>6, <3>1, <3>2 DEF Compressed, Frames
  <2>8. line' = Append(line, f)
    BY <1>4, <1>8, <2>2
  <2> QED
    BY <1>2, <1>3, <1>4, <1>5, <1>8, <2>3, <2>4, <2>7, <2>8 DEF Sends
<1> QED
  BY <1>7, <1>8

\* A connection keeps its one slot.
LEMMA SendKeepsOneSlot ==
  ASSUME TypeInv, OneSlotEach, NEW h \in Header, NEW s \in Slot, NEW f, Sends(h, s, f)
  PROVE  OneSlotEach'
<1>1. PICK u \in [Slot -> Header \cup {ZeroHeader}] : u = tstate
  BY DEF TypeInv, SenderTypes
<1>2. PICK v : v = [u EXCEPT ![s] = h]
  OBVIOUS
<1>3. v[s] = h /\ \A t \in Slot \ {s} : v[t] = u[t]
  BY <1>1, <1>2
<1>4. tstate' = v
  BY <1>1, <1>2 DEF Sends
<1>5. \A a, b \in Slot : u[a].conn = u[b].conn /\ u[a].conn \in Conns => a = b
  BY <1>1 DEF OneSlotEach
<1>6. h.conn \in Conns
  BY HeaderFields
<1>7. u[s].conn = h.conn \/ \A t \in Slot : u[t].conn # h.conn
  BY <1>1 DEF Sends
<1>8. ASSUME NEW a \in Slot, NEW b \in Slot, v[a].conn = v[b].conn, v[a].conn \in Conns
      PROVE  a = b
  <2>1. CASE a # s /\ b # s
    BY <1>3, <1>5, <1>8, <2>1
  <2>2. CASE a = s /\ b # s
    <3>1. u[b].conn = h.conn
      BY <1>3, <1>8, <2>2
    <3>2. u[s].conn = h.conn
      BY <1>7, <3>1
    <3>3. s = b
      BY <1>5, <1>6, <3>1, <3>2
    <3> QED
      BY <2>2, <3>3
  <2>3. CASE a # s /\ b = s
    <3>1. u[a].conn = h.conn
      BY <1>3, <1>8, <2>3
    <3>2. u[s].conn = h.conn
      BY <1>7, <3>1
    <3>3. s = a
      BY <1>5, <1>6, <3>1, <3>2
    <3> QED
      BY <2>3, <3>3
  <2> QED
    BY <2>1, <2>2, <2>3
<1> QED
  BY <1>4, <1>8 DEF OneSlotEach

(***************************************************************************)
(* Places on the line.                                                     *)
(***************************************************************************)

\* A frame appended changes nothing in front of it.
LEMMA Appended ==
  ASSUME LineTypes, NEW f \in Frames, line' = Append(line, f)
  PROVE  /\ Len(line) \in Nat /\ Len(line') = Len(line) + 1 /\ line' \in Seq(Frames)
         /\ \A i \in 1 .. Len(line) : line'[i] = line[i]
         /\ line'[Len(line) + 1] = f
         /\ \A i \in 1 .. Len(line) : Tcp(i)' = Tcp(i) /\ \A s : For(i, s)' = For(i, s)
<1>1. line \in Seq(Frames)
  BY DEF LineTypes
<1>2. /\ Len(line) \in Nat /\ Len(line') = Len(line) + 1 /\ line' \in Seq(Frames)
      /\ \A i \in 1 .. Len(line) : line'[i] = line[i]
      /\ line'[Len(line) + 1] = f
  BY <1>1, AppendProperties
<1> QED
  BY <1>2 DEF Tcp, For

\* A frame put at the end says nothing of the places before it.
LEMMA AppendedBefore ==
  ASSUME LineTypes, NEW f \in Frames, line' = Append(line, f), NEW i \in 1 .. Len(line) + 1
  PROVE  /\ \A s : NoneFor(i, s)' = NoneFor(i, s)
         /\ \A s, j : LatestFor(j, i, s)' = LatestFor(j, i, s)
         /\ NoTcp(i)' = NoTcp(i)
         /\ \A j : LatestTcp(j, i)' = LatestTcp(j, i)
<1>1. Len(line) \in Nat /\ i \in Nat
  BY Appended
<1>2. \A j \in 1 .. i - 1 : j \in 1 .. Len(line) /\ \A k \in j + 1 .. i - 1 : k \in 1 .. Len(line)
  BY <1>1
<1>3. \A k \in 1 .. Len(line) : Tcp(k)' = Tcp(k) /\ \A s : For(k, s)' = For(k, s)
  BY Appended
<1>4. ASSUME NEW s PROVE NoneFor(i, s)' = NoneFor(i, s)
  BY <1>2, <1>3 DEF NoneFor
<1>5. ASSUME NEW s, NEW j PROVE LatestFor(j, i, s)' = LatestFor(j, i, s)
  BY <1>2, <1>3 DEF LatestFor
<1>6. NoTcp(i)' = NoTcp(i)
  BY <1>2, <1>3 DEF NoTcp
<1>7. ASSUME NEW j PROVE LatestTcp(j, i)' = LatestTcp(j, i)
  BY <1>2, <1>3 DEF LatestTcp
<1> QED
  BY <1>4, <1>5, <1>6, <1>7

\* Without its first frame the line moves up by one place.
LEMMA Removed ==
  ASSUME LineTypes, line # << >>, line' = Tail(line)
  PROVE  /\ Len(line) \in Nat \ {0} /\ Len(line') = Len(line) - 1 /\ line' \in Seq(Frames)
         /\ line[1] \in Frames /\ Frame = line[1]
         /\ \A i \in 1 .. Len(line) - 1 : line'[i] = line[i + 1]
         /\ \A i \in 1 .. Len(line) - 1 :
              Tcp(i)' = Tcp(i + 1) /\ \A s : For(i, s)' = For(i + 1, s)
<1>1. line \in Seq(Frames)
  BY DEF LineTypes
<1>2. /\ Len(line) \in Nat \ {0} /\ Len(line') = Len(line) - 1 /\ line' \in Seq(Frames)
      /\ \A i \in 1 .. Len(line) - 1 : line'[i] = line[i + 1]
  BY <1>1, HeadTailProperties, EmptySeq
<1>3. line[1] \in Frames /\ Frame = line[1]
  BY <1>1, <1>2 DEF Frame
<1> QED
  BY <1>2, <1>3 DEF Tcp, For

\* What was in front of a place when the first frame has gone tells what was before.
LEMMA RemovedBefore ==
  ASSUME LineTypes, line # << >>, line' = Tail(line), NEW i \in 1 .. Len(line)
  PROVE  /\ i + 1 \in 2 .. Len(line) + 1
         /\ \A s : NoneFor(i, s)' /\ ~For(1, s) => NoneFor(i + 1, s)
         /\ \A s : NoneFor(i, s)' /\ For(1, s) => LatestFor(1, i + 1, s)
         /\ \A s, j : LatestFor(j, i, s)' => LatestFor(j + 1, i + 1, s)
         /\ NoTcp(i)' /\ ~Tcp(1) => NoTcp(i + 1)
         /\ NoTcp(i)' /\ Tcp(1) => LatestTcp(1, i + 1)
         /\ \A j : LatestTcp(j, i)' => LatestTcp(j + 1, i + 1)
<1>1. Len(line) \in Nat \ {0} /\ i \in Nat /\ i + 1 \in 2 .. Len(line) + 1 /\ (i + 1) - 1 = i
  BY Removed
<1>2. \A k \in 1 .. Len(line) - 1 : Tcp(k)' = Tcp(k + 1) /\ \A s : For(k, s)' = For(k + 1, s)
  BY Removed
<1>3. \A k \in 2 .. i : /\ k - 1 \in 1 .. i - 1 /\ k - 1 \in 1 .. Len(line) - 1
                        /\ (k - 1) + 1 = k
  BY <1>1
<1>4. \A k \in 2 .. i : /\ Tcp(k) = Tcp(k - 1)'
                        /\ \A s : For(k, s) = For(k - 1, s)'
  <2>1. ASSUME NEW k \in 2 .. i
        PROVE  Tcp(k) = Tcp(k - 1)' /\ \A s : For(k, s) = For(k - 1, s)'
    <3>1. PICK m : m = k - 1
      OBVIOUS
    <3>2. m \in 1 .. Len(line) - 1 /\ m + 1 = k
      BY <1>3, <3>1
    <3>3. Tcp(m)' = Tcp(m + 1) /\ \A s : For(m, s)' = For(m + 1, s)
      BY <1>2, <3>2
    <3> QED
      BY <3>1, <3>2, <3>3
  <2> QED
    BY <2>1
<1>5. ASSUME NEW s, NoneFor(i, s)'
      PROVE  /\ ~For(1, s) => NoneFor(i + 1, s)
             /\ For(1, s) => LatestFor(1, i + 1, s)
  <2>1. \A k \in 2 .. i : ~For(k, s)
    BY <1>3, <1>4, <1>5 DEF NoneFor
  <2>2. \A k \in 1 .. i : k = 1 \/ k \in 2 .. i
    BY <1>1
  <2>3. 1 \in 1 .. i /\ 1 + 1 = 2
    BY <1>1
  <2> QED
    BY <1>1, <2>1, <2>2, <2>3 DEF NoneFor, LatestFor
<1>6. ASSUME NEW s, NEW j, LatestFor(j, i, s)' PROVE LatestFor(j + 1, i + 1, s)
  <2>1. /\ j \in 1 .. i - 1 /\ For(j, s)'
        /\ \A k \in j + 1 .. i - 1 : ~For(k, s)'
    BY <1>6 DEF LatestFor
  <2>2. j + 1 \in 1 .. i /\ j + 1 \in 2 .. i /\ (j + 1) - 1 = j
    BY <1>1, <2>1
  <2>3. \A k \in (j + 1) + 1 .. i : k \in 2 .. i /\ k - 1 \in j + 1 .. i - 1
    BY <1>1, <2>1
  <2>4. For(j + 1, s)
    BY <1>4, <2>1, <2>2
  <2>5. \A k \in (j + 1) + 1 .. i : ~For(k, s)
    BY <1>4, <2>1, <2>3
  <2> QED
    BY <1>1, <2>2, <2>4, <2>5 DEF LatestFor
<1>7. ASSUME NoTcp(i)'
      PROVE  (~Tcp(1) => NoTcp(i + 1)) /\ (Tcp(1) => LatestTcp(1, i + 1))
  <2>1. \A k \in 2 .. i : ~Tcp(k)
    BY <1>3, <1>4, <1>7 DEF NoTcp
  <2>2. \A k \in 1 .. i : k = 1 \/ k \in 2 .. i
    BY <1>1
  <2>3. 1 \in 1 .. i /\ 1 + 1 = 2
    BY <1>1
  <2> QED
    BY <1>1, <2>1, <2>2, <2>3 DEF NoTcp, LatestTcp
<1>8. ASSUME NEW j, LatestTcp(j, i)' PROVE LatestTcp(j + 1, i + 1)
  <2>1. j \in 1 .. i - 1 /\ Tcp(j)' /\ \A k \in j + 1 .. i - 1 : ~Tcp(k)'
    BY <1>8 DEF LatestTcp
  <2>2. j + 1 \in 1 .. i /\ j + 1 \in 2 .. i /\ (j + 1) - 1 = j
    BY <1>1, <2>1
  <2>3. \A k \in (j + 1) + 1 .. i : k \in 2 .. i /\ k - 1 \in j + 1 .. i - 1
    BY <1>1, <2>1
  <2>4. Tcp(j + 1)
    BY <1>4, <2>1, <2>2
  <2>5. \A k \in (j + 1) + 1 .. i : ~Tcp(k)
    BY <1>4, <2>1, <2>3
  <2> QED
    BY <1>1, <2>2, <2>4, <2>5 DEF LatestTcp
<1> QED
  BY <1>1, <1>5, <1>6, <1>7, <1>8

(***************************************************************************)
(* Sending keeps the ends in agreement.                                    *)
(***************************************************************************)

\* A frame keeps what it builds on when another is appended.
LEMMA FollowsKept ==
  ASSUME LineTypes, NEW f \in Frames, line' = Append(line, f), UNCHANGED receiver,
         NEW i \in 1 .. Len(line), Follows(i)
  PROVE  Follows(i)'
<1>1. Len(line) \in Nat /\ line'[i] = line[i] /\ i \in 1 .. Len(line) + 1
  BY Appended
<1>2. PICK g : g = line[i] /\ g = line'[i]
  BY <1>1
<1>3. \A j \in 1 .. i - 1 : j \in 1 .. Len(line)
  BY <1>1
<1>4. ASSUME NEW j \in 1 .. i - 1, LatestFor(j, i, g.for)' PROVE Yields(line'[j].sent, g)
  <2>1. LatestFor(j, i, g.for)
    BY <1>1, <1>4, AppendedBefore
  <2>2. Yields(line[j].sent, g)
    BY <1>2, <2>1 DEF Follows
  <2>3. line'[j] = line[j]
    BY <1>3, Appended
  <2> QED
    BY <2>2, <2>3
<1>5. ASSUME NoneFor(i, g.for)', g.for \notin Off' PROVE Yields(rstate'[g.for], g)
  <2>1. NoneFor(i, g.for)
    BY <1>1, <1>5, AppendedBefore
  <2> QED
    BY <1>2, <1>5, <2>1 DEF Follows, Off, receiver
<1> QED
  BY <1>2, <1>4, <1>5 DEF Follows

\* A frame for another slot leaves open what a slot will hold.
LEMMA ExpectsPast ==
  ASSUME LineTypes, NEW f \in Frames, line' = Append(line, f), UNCHANGED receiver,
         NEW z, f.kind = "ip" \/ f.for # z, NEW u, Expects(Len(line) + 1, z, u)
  PROVE  Expects(Len(line) + 1, z, u)'
<1>1. PICK n \in Nat, m \in Nat, q \in Nat : n = Len(line) /\ m = n + 1 /\ q = m + 1
  BY Appended
<1>2. /\ Len(line') + 1 = q /\ line'[m] = f /\ m \in 1 .. n + 1 /\ m - 1 = n
      /\ \A i \in 1 .. n : line'[i] = line[i]
  BY <1>1, Appended
<1>3. Expects(m, z, u)
  BY <1>1
<1>4. ~For(m, z)'
  BY <1>2 DEF For, Tcp
<1>5. ASSUME NEW j \in 1 .. q - 1, LatestFor(j, q, z)' PROVE line'[j].sent = u
  <2>1. j # m
    BY <1>4, <1>5 DEF LatestFor
  <2>2. j \in 1 .. m - 1 /\ j \in 1 .. n /\ \A k \in j + 1 .. m - 1 : k \in j + 1 .. q - 1
    BY <1>1, <2>1
  <2>3. LatestFor(j, m, z)'
    BY <1>5, <2>2 DEF LatestFor
  <2>4. LatestFor(j, m, z)
    BY <1>1, <1>2, <2>3, AppendedBefore
  <2> QED
    BY <1>2, <1>3, <2>2, <2>4 DEF Expects
<1>6. ASSUME NoneFor(q, z)', z \notin Off' PROVE rstate'[z] = u
  <2>1. \A k \in 1 .. m - 1 : k \in 1 .. q - 1
    BY <1>1
  <2>2. NoneFor(m, z)'
    BY <1>6, <2>1 DEF NoneFor
  <2>3. NoneFor(m, z)
    BY <1>1, <1>2, <2>2, AppendedBefore
  <2> QED
    BY <1>3, <1>6, <2>3 DEF Expects, Off, receiver
<1>7. Expects(q, z, u)'
  BY <1>5, <1>6 DEF Expects
<1> QED
  BY <1>2, <1>7 DEF Expects, LatestFor, NoneFor

\* The frame sent builds on the header the sender knows its slot to hold by then.
LEMMA SendKeepsChain ==
  ASSUME TypeInv, Chain, NEW h \in Header, NEW s \in Slot, NEW f \in Frames, Sends(h, s, f),
         UNCHANGED receiver
  PROVE  Chain'
<1>1. LineTypes /\ line' = Append(line, f) /\ Off' = Off /\ rstate' = rstate
  BY DEF TypeInv, Sends, Off, receiver
<1>2. PICK n \in Nat, m \in Nat, q \in Nat : n = Len(line) /\ m = n + 1 /\ q = m + 1
  BY <1>1, Appended
<1>3. /\ Len(line') = m /\ Len(line') + 1 = q /\ line'[m] = f /\ m \in 1 .. n + 1 /\ m - 1 = n
      /\ m \in 1 .. q - 1
      /\ \A i \in 1 .. n : line'[i] = line[i]
  BY <1>1, <1>2, Appended
<1>4. /\ f.for = s /\ f.sent = h /\ f.kind # "ip"
      /\ f.kind = "compressed" => tstate[s].conn \in Conns /\ Yields(tstate[s], f)
  BY DEF Sends
<1>5. ASSUME NEW i \in 1 .. n, line'[i].kind = "compressed" PROVE Follows(i)'
  <2>1. Follows(i)
    BY <1>2, <1>3, <1>5 DEF Chain
  <2> QED
    BY <1>1, <1>2, <2>1, FollowsKept
<1>6. ASSUME f.kind = "compressed" PROVE Follows(m)'
  <2>1. Expects(m, s, tstate[s])
    BY <1>2, <1>4, <1>6 DEF Chain
  <2>2. ASSUME NEW j \in 1 .. m - 1, LatestFor(j, m, s)' PROVE Yields(line'[j].sent, f)
    <3>1. LatestFor(j, m, s)
      BY <1>1, <1>2, <1>3, <2>2, AppendedBefore
    <3>2. line[j].sent = tstate[s]
      BY <2>1, <3>1 DEF Expects
    <3> QED
      BY <1>3, <1>4, <1>6, <3>2
  <2>3. ASSUME NoneFor(m, s)', s \notin Off' PROVE Yields(rstate'[s], f)
    <3>1. NoneFor(m, s)
      BY <1>1, <1>2, <1>3, <2>3, AppendedBefore
    <3>2. rstate[s] = tstate[s]
      BY <1>1, <2>1, <2>3, <3>1 DEF Expects
    <3> QED
      BY <1>1, <1>4, <1>6, <3>2
  <2> QED
    BY <1>3, <1>4, <2>2, <2>3 DEF Follows
<1>7. ASSUME NEW i \in 1 .. Len(line'), line'[i].kind = "compressed" PROVE Follows(i)'
  <2>1. i \in 1 .. n \/ i = m
    BY <1>2, <1>3
  <2> QED
    BY <1>3, <1>5, <1>6, <1>7, <2>1
<1>8. ASSUME NEW z \in Slot, tstate'[z].conn \in Conns
      PROVE  Expects(Len(line) + 1, z, tstate[z])'
  <2>1. PICK u : u = tstate'[z]
    OBVIOUS
  <2>2. u = IF z = s THEN h ELSE tstate[z]
    BY <2>1 DEF Sends, TypeInv, SenderTypes
  <2>3. CASE z = s
    <3>1. For(m, z)'
      BY <1>3, <1>4, <2>3 DEF For, Tcp
    <3>2. ~NoneFor(q, z)'
      BY <1>3, <3>1 DEF NoneFor
    <3>3. ASSUME NEW j \in 1 .. q - 1, LatestFor(j, q, z)' PROVE j = m
      <4>1. j # m => m \in j + 1 .. q - 1
        BY <1>2
      <4> QED
        BY <3>1, <3>3, <4>1 DEF LatestFor
    <3>4. line'[m].sent = u
      BY <1>3, <1>4, <2>2, <2>3
    <3>5. Expects(q, z, u)'
      BY <3>2, <3>3, <3>4 DEF Expects
    <3> QED
      BY <1>3, <2>1, <3>5 DEF Expects, LatestFor, NoneFor
  <2>4. CASE z # s
    <3>1. Expects(Len(line) + 1, z, u)
      BY <1>8, <2>1, <2>2, <2>4 DEF Chain
    <3>2. Expects(Len(line) + 1, z, u)'
      BY <1>1, <1>4, <2>4, <3>1, ExpectsPast
    <3> QED
      BY <2>1, <3>2 DEF Expects, LatestFor, NoneFor
  <2> QED
    BY <2>3, <2>4
<1> QED
  BY <1>7, <1>8 DEF Chain

\* A packet that is not compressed builds on nothing.
LEMMA PlainKeepsChain ==
  ASSUME TypeInv, Chain, line' = Append(line, Plain), UNCHANGED <<receiver, tstate>>
  PROVE  Chain'
<1>1. LineTypes /\ Plain \in Frames /\ Plain.kind = "ip"
  BY DEF TypeInv, Plain, Frames
<1>2. PICK n \in Nat, m \in Nat : n = Len(line) /\ m = n + 1
  BY <1>1, Appended
<1>3. Len(line') = m /\ line'[m] = Plain /\ \A i \in 1 .. n : line'[i] = line[i]
  BY <1>1, <1>2, Appended
<1>4. ASSUME NEW i \in 1 .. Len(line'), line'[i].kind = "compressed" PROVE Follows(i)'
  <2>1. i \in 1 .. n
    BY <1>1, <1>2, <1>3, <1>4
  <2>2. Follows(i)
    BY <1>2, <1>3, <1>4, <2>1 DEF Chain
  <2> QED
    BY <1>1, <1>2, <2>1, <2>2, FollowsKept
<1>5. ASSUME NEW z \in Slot, tstate'[z].conn \in Conns
      PROVE  Expects(Len(line) + 1, z, tstate[z])'
  <2>1. PICK u : u = tstate[z] /\ u = tstate'[z]
    OBVIOUS
  <2>2. Expects(Len(line) + 1, z, u)
    BY <1>5, <2>1 DEF Chain
  <2>3. Expects(Len(line) + 1, z, u)'
    BY <1>1, <2>2, ExpectsPast
  <2> QED
    BY <2>1, <2>3 DEF Expects, LatestFor, NoneFor
<1> QED
  BY <1>4, <1>5 DEF Chain

\* What the receiver will know of a slot it keeps knowing.
LEMMA FilledKept ==
  ASSUME LineTypes, NEW f \in Frames, line' = Append(line, f), UNCHANGED receiver, NEW s,
         NEW i \in 1 .. Len(line) + 1, NEW q \in i .. Len(line) + 2, Filled(i, s)
  PROVE  Filled(q, s)'
<1>1. Len(line) \in Nat /\ \A j \in 1 .. Len(line) : line'[j] = line[j]
  BY Appended
<1>2. CASE s \in initialized
  BY <1>2 DEF Filled, receiver
<1>3. CASE s \notin initialized
  <2>1. PICK j \in 1 .. i - 1 : line[j].kind = "full" /\ line[j].for = s
    BY <1>3 DEF Filled
  <2>2. j \in 1 .. Len(line) /\ j \in 1 .. q - 1
    BY <1>1, <2>1
  <2> QED
    BY <1>1, <2>1, <2>2 DEF Filled
<1> QED
  BY <1>2, <1>3

\* A frame put at the end leaves what the receiver works with at an earlier place.
LEMMA PointsKept ==
  ASSUME LineTypes, NEW f \in Frames, line' = Append(line, f), UNCHANGED receiver, NEW s,
         NEW i \in 1 .. Len(line) + 1, Points(i, s)
  PROVE  Points(i, s)'
<1>1. Len(line) \in Nat /\ \A j \in 1 .. Len(line) : line'[j] = line[j]
  BY Appended
<1>2. \A j \in 1 .. i - 1 : j \in 1 .. Len(line)
  BY <1>1
<1>3. ASSUME NEW j \in 1 .. i - 1, LatestTcp(j, i)' PROVE line'[j].for = s
  <2>1. LatestTcp(j, i)
    BY <1>3, AppendedBefore
  <2> QED
    BY <1>1, <1>2, <2>1 DEF Points
<1>4. ASSUME NoTcp(i)' PROVE recv_current' = s
  <2>1. NoTcp(i)
    BY <1>4, AppendedBefore
  <2> QED
    BY <2>1 DEF Points, receiver
<1> QED
  BY <1>3, <1>4 DEF Points

\* A frame sent for the right slot still is.
LEMMA SlotsRightKept ==
  ASSUME LineTypes, NEW f \in Frames, line' = Append(line, f), UNCHANGED receiver,
         NEW i \in 1 .. Len(line), SlotsRight(i)
  PROVE  SlotsRight(i)'
<1>1. /\ Len(line) \in Nat /\ line'[i] = line[i] /\ i \in 1 .. Len(line) + 1
      /\ i \in i .. Len(line) + 2
  BY Appended
<1>2. PICK g : g = line[i] /\ g = line'[i]
  BY <1>1
<1>3. Filled(i, g.for) => Filled(i, g.for)'
  BY <1>1, FilledKept
<1>4. Points(i, g.for) => Points(i, g.for)'
  BY <1>1, PointsKept
<1> QED
  BY <1>2, <1>3, <1>4 DEF SlotsRight

\* A frame without a slot number is sent for the slot of the frame before it.
LEMMA SendKeepsSync ==
  ASSUME TypeInv, Synced, NEW h \in Header, NEW s \in Slot, NEW f \in Frames, Sends(h, s, f),
         UNCHANGED receiver
  PROVE  Synced'
<1>1. /\ LineTypes /\ line' = Append(line, f) /\ xmit_current' = s
      /\ f.kind \in {"full", "compressed"} /\ f.for = s
  BY DEF TypeInv, Sends
<1>2. PICK n \in Nat, m \in Nat, q \in Nat : n = Len(line) /\ m = n + 1 /\ q = m + 1
  BY <1>1, Appended
<1>3. /\ Len(line') = m /\ Len(line') + 1 = q /\ line'[m] = f /\ m \in 1 .. n + 1 /\ m - 1 = n
      /\ m \in 1 .. q - 1 /\ q \in m .. n + 2 /\ m \in m .. n + 2 /\ q - 1 = m
  BY <1>1, <1>2, Appended
<1>4. ASSUME NEW i \in 1 .. n PROVE SlotsRight(i)'
  <2>1. SlotsRight(i)
    BY <1>2 DEF Synced
  <2> QED
    BY <1>1, <1>2, <2>1, SlotsRightKept
<1>5. SlotsRight(m)'
  <2>1. CASE f.kind = "full"
    BY <1>3, <2>1 DEF Sends, SlotsRight
  <2>2. CASE f.kind = "compressed"
    <3>1. Filled(m, s)
      BY <1>2, <2>2 DEF Sends, Synced
    <3>2. Filled(m, s)'
      BY <1>1, <1>2, <1>3, <3>1, FilledKept
    <3>3. CASE xmit_current = s
      <4>1. Points(m, s)
        BY <1>2, <3>3 DEF Synced
      <4>2. Points(m, s)'
        BY <1>1, <1>2, <1>3, <4>1, PointsKept
      <4> QED
        BY <1>1, <1>3, <2>2, <3>2, <3>3, <4>2 DEF Sends, SlotsRight
    <3>4. CASE xmit_current # s
      BY <1>1, <1>3, <2>2, <3>2, <3>4 DEF Sends, SlotsRight
    <3> QED
      BY <3>3, <3>4
  <2> QED
    BY <1>1, <2>1, <2>2
<1>6. \A i \in 1 .. Len(line') : SlotsRight(i)'
  <2>1. \A i \in 1 .. Len(line') : i \in 1 .. n \/ i = m
    BY <1>2, <1>3
  <2> QED
    BY <1>4, <1>5, <2>1
<1>7. Points(q, s)'
  <2>1. Tcp(m)'
    BY <1>1, <1>3 DEF Tcp
  <2>2. ~NoTcp(q)'
    BY <1>3, <2>1 DEF NoTcp
  <2>3. ASSUME NEW j \in 1 .. q - 1, LatestTcp(j, q)' PROVE j = m
    <3>1. j # m => m \in j + 1 .. q - 1
      BY <1>2
    <3> QED
      BY <2>1, <2>3, <3>1 DEF LatestTcp
  <2> QED
    BY <1>1, <1>3, <2>2, <2>3 DEF Points
<1>8. ASSUME NEW z \in Slot, tstate'[z].conn \in Conns PROVE Filled(q, z)'
  <2>1. CASE z # s
    <3>1. Filled(m, z)
      BY <1>2, <1>8, <2>1 DEF Synced, Sends, TypeInv, SenderTypes
    <3> QED
      BY <1>1, <1>2, <1>3, <3>1, FilledKept
  <2>2. CASE z = s /\ f.kind = "full"
    BY <1>1, <1>3, <2>2 DEF Filled
  <2>3. CASE z = s /\ f.kind = "compressed"
    <3>1. Filled(m, z)
      BY <1>2, <2>3 DEF Sends, Synced
    <3> QED
      BY <1>1, <1>2, <1>3, <3>1, FilledKept
  <2> QED
    BY <1>1, <2>1, <2>2, <2>3
<1>9. hurt' = {} /\ (adaptive' \/ toss' => initialized' = {})
  BY DEF Synced, receiver
<1>10. Points(Len(line) + 1, xmit_current)'
  BY <1>1, <1>3, <1>7 DEF Points, LatestTcp, NoTcp
<1>11. ASSUME NEW z \in Slot, tstate'[z].conn \in Conns PROVE Filled(Len(line) + 1, z)'
  <2>1. Filled(q, z)'
    BY <1>8, <1>11
  <2> QED
    BY <1>3, <2>1 DEF Filled
<1> QED
  BY <1>6, <1>9, <1>10, <1>11 DEF Synced

\* A frame that is not TCP does not disturb the receiver's current slot.
LEMMA PlainKeepsSync ==
  ASSUME TypeInv, Synced, line' = Append(line, Plain), UNCHANGED <<receiver, tstate, xmit_current>>
  PROVE  Synced'
<1>1. LineTypes /\ Plain \in Frames /\ Plain.kind = "ip"
  BY DEF TypeInv, Plain, Frames
<1>2. PICK n \in Nat, m \in Nat, q \in Nat : n = Len(line) /\ m = n + 1 /\ q = m + 1
  BY <1>1, Appended
<1>3. /\ Len(line') = m /\ Len(line') + 1 = q /\ line'[m] = Plain /\ m \in 1 .. n + 1
      /\ m - 1 = n /\ q \in m .. n + 2 /\ q - 1 = m
      /\ \A i \in 1 .. n : line'[i] = line[i]
  BY <1>1, <1>2, Appended
<1>4. ASSUME NEW i \in 1 .. Len(line') PROVE SlotsRight(i)'
  <2>1. CASE i \in 1 .. n
    <3>1. SlotsRight(i)
      BY <1>2, <2>1 DEF Synced
    <3> QED
      BY <1>1, <1>2, <2>1, <3>1, SlotsRightKept
  <2>2. CASE i = m
    BY <1>1, <1>3, <2>2 DEF SlotsRight
  <2> QED
    BY <1>2, <1>3, <2>1, <2>2
<1>5. Points(q, xmit_current)'
  <2>1. PICK s : s = xmit_current /\ s = xmit_current'
    OBVIOUS
  <2>2. Points(m, s)
    BY <1>2, <2>1 DEF Synced
  <2>3. Points(m, s)'
    BY <1>1, <1>2, <1>3, <2>2, PointsKept
  <2>4. ~Tcp(m)'
    BY <1>1, <1>3 DEF Tcp
  <2>5. ASSUME NEW j \in 1 .. q - 1, LatestTcp(j, q)' PROVE line'[j].for = s
    <3>1. j # m
      BY <2>4, <2>5 DEF LatestTcp
    <3>2. j \in 1 .. m - 1 /\ \A k \in j + 1 .. m - 1 : k \in j + 1 .. q - 1
      BY <1>2, <3>1
    <3>3. LatestTcp(j, m)'
      BY <2>5, <3>2 DEF LatestTcp
    <3> QED
      BY <2>3, <3>2, <3>3 DEF Points
  <2>6. ASSUME NoTcp(q)' PROVE recv_current' = s
    <3>1. \A k \in 1 .. m - 1 : k \in 1 .. q - 1
      BY <1>2
    <3>2. NoTcp(m)'
      BY <2>6, <3>1 DEF NoTcp
    <3> QED
      BY <2>3, <3>2 DEF Points
  <2> QED
    BY <2>1, <2>5, <2>6 DEF Points
<1>6. ASSUME NEW z \in Slot, tstate'[z].conn \in Conns PROVE Filled(Len(line) + 1, z)'
  <2>1. Filled(m, z)
    BY <1>2, <1>6 DEF Synced
  <2>2. Filled(q, z)'
    BY <1>1, <1>2, <1>3, <2>1, FilledKept
  <2> QED
    BY <1>3, <2>2 DEF Filled
<1>7. hurt' = {} /\ (adaptive' \/ toss' => initialized' = {})
  BY DEF Synced, receiver
<1>8. Points(Len(line) + 1, xmit_current)'
  BY <1>3, <1>5 DEF Points, LatestTcp, NoTcp
<1> QED
  BY <1>4, <1>6, <1>7, <1>8 DEF Synced

(***************************************************************************)
(* A frame arrives, or is lost.                                            *)
(***************************************************************************)

\* The first frame leaves the line.  A slot is afterwards as it was, or holds the header
\* that was sent, or is marked as hurt or misled; and without faults none is hurt.
Arrives ==
  /\ line # << >> /\ line' = Tail(line) /\ UNCHANGED <<sender, pos>>
  /\ ReceiverTypes' /\ StackTypes' /\ faults \in 0 .. faults'
  /\ \A s \in Slot :
       s \notin Off' => IF For(1, s) THEN rstate'[s] = line[1].sent
                        ELSE s \notin Off /\ rstate'[s] = rstate[s]
  /\ faults' = 0 /\ Synced =>
       /\ hurt' = {} /\ (adaptive' \/ toss' => initialized' = {})
       /\ recv_current' = IF Tcp(1) THEN line[1].for ELSE recv_current
       /\ initialized \subseteq initialized'
       /\ line[1].kind = "full" => line[1].for \in initialized'

\* An arrival leaves each slot's last frame to be the one the sender works from.
LEMMA ArrivalKeepsChain ==
  ASSUME TypeInv, Chain, Arrives
  PROVE  Chain'
<1>1. LineTypes /\ line # << >> /\ line' = Tail(line) /\ tstate' = tstate
  BY DEF TypeInv, Arrives, sender
<1>2. PICK n \in Nat, m \in Nat : n = Len(line') /\ m = n + 1 /\ m = Len(line)
  <2>1. PICK k \in Nat \ {0} : k = Len(line) /\ Len(line') = k - 1
    BY <1>1, Removed
  <2>2. k - 1 \in Nat /\ k = (k - 1) + 1
    OBVIOUS
  <2> QED
    BY <2>1, <2>2
<1>3. \A i \in 1 .. n : line'[i] = line[i + 1]
  BY <1>1, <1>2, Removed
<1>4. \A s \in Slot :
        s \notin Off' => IF For(1, s) THEN rstate'[s] = line[1].sent
                         ELSE s \notin Off /\ rstate'[s] = rstate[s]
  BY DEF Arrives
<1>5. ASSUME NEW i \in 1 .. n, line'[i].kind = "compressed" PROVE Follows(i)'
  <2>1. PICK p \in 1 .. m : p = i + 1
    BY <1>2
  <2>2. PICK g \in Frames : g = line[p] /\ g = line'[i]
    BY <1>1, <1>2, <1>3, <2>1 DEF LineTypes
  <2>3. g.kind = "compressed" /\ g.for \in Slot
    BY <1>5, <2>2 DEF Frames
  <2>4. Follows(p)
    BY <1>2, <2>2, <2>3 DEF Chain
  <2>5. i \in 1 .. Len(line) /\ \A j \in 1 .. i - 1 : j \in 1 .. n /\ j + 1 \in 1 .. p - 1
    BY <1>2, <2>1
  <2>6. ASSUME NEW j \in 1 .. i - 1, LatestFor(j, i, g.for)'
        PROVE  Yields(line'[j].sent, g)
    <3>1. LatestFor(j + 1, p, g.for)
      BY <1>1, <2>1, <2>5, <2>6, RemovedBefore
    <3>2. Yields(line[j + 1].sent, g)
      BY <2>2, <2>4, <2>5, <3>1 DEF Follows
    <3> QED
      BY <1>3, <2>5, <3>2
  <2>7. ASSUME NoneFor(i, g.for)', g.for \notin Off' PROVE Yields(rstate'[g.for], g)
    <3>1. CASE For(1, g.for)
      <4>1. LatestFor(1, p, g.for)
        BY <1>1, <2>1, <2>5, <2>7, <3>1, RemovedBefore
      <4>2. Yields(line[1].sent, g)
        BY <2>2, <2>4, <4>1 DEF Follows, LatestFor
      <4> QED
        BY <1>4, <2>3, <2>7, <3>1, <4>2
    <3>2. CASE ~For(1, g.for)
      <4>1. NoneFor(p, g.for)
        BY <1>1, <2>1, <2>5, <2>7, <3>2, RemovedBefore
      <4>2. g.for \notin Off /\ rstate'[g.for] = rstate[g.for]
        BY <1>4, <2>3, <2>7, <3>2
      <4> QED
        BY <2>2, <2>4, <4>1, <4>2 DEF Follows
    <3> QED
      BY <3>1, <3>2
  <2> QED
    BY <2>2, <2>6, <2>7 DEF Follows
<1>6. ASSUME NEW z \in Slot, tstate'[z].conn \in Conns
      PROVE  Expects(Len(line) + 1, z, tstate[z])'
  <2>1. PICK u : u = tstate[z] /\ u = tstate'[z]
    BY <1>1
  <2>2. PICK p \in Nat : p = m + 1 /\ Len(line') + 1 = m /\ m \in 1 .. Len(line)
    BY <1>2
  <2>3. Expects(p, z, u)
    BY <1>2, <1>6, <2>1, <2>2 DEF Chain
  <2>4. ASSUME NEW j \in 1 .. m - 1, LatestFor(j, m, z)' PROVE line'[j].sent = u
    <3>1. LatestFor(j + 1, p, z)
      BY <1>1, <2>2, <2>4, RemovedBefore
    <3>2. j \in 1 .. n /\ j + 1 \in 1 .. p - 1
      BY <1>2, <2>2
    <3> QED
      BY <1>3, <2>3, <3>1, <3>2 DEF Expects
  <2>5. ASSUME NoneFor(m, z)', z \notin Off' PROVE rstate'[z] = u
    <3>1. CASE For(1, z)
      <4>1. LatestFor(1, p, z)
        BY <1>1, <2>2, <2>5, <3>1, RemovedBefore
      <4> QED
        BY <1>4, <2>3, <2>5, <3>1, <4>1 DEF Expects, LatestFor
    <3>2. CASE ~For(1, z)
      <4>1. NoneFor(p, z)
        BY <1>1, <2>2, <2>5, <3>2, RemovedBefore
      <4> QED
        BY <1>4, <2>3, <2>5, <3>2, <4>1 DEF Expects
    <3> QED
      BY <3>1, <3>2
  <2>6. Expects(m, z, u)'
    BY <2>4, <2>5 DEF Expects
  <2> QED
    BY <2>1, <2>2, <2>6 DEF Expects, LatestFor, NoneFor
<1> QED
  BY <1>2, <1>5, <1>6 DEF Chain

\* A clean arrival leaves the receiver's current slot where the sender takes it to be.
LEMMA ArrivalKeepsSync ==
  ASSUME TypeInv, Synced, Arrives, faults' = 0
  PROVE  Synced'
<1>1. /\ LineTypes /\ line # << >> /\ line' = Tail(line)
      /\ tstate' = tstate /\ xmit_current' = xmit_current
  BY DEF TypeInv, Arrives, sender
<1>2. PICK n \in Nat, m \in Nat : n = Len(line') /\ m = n + 1 /\ m = Len(line)
  <2>1. PICK k \in Nat \ {0} : k = Len(line) /\ Len(line') = k - 1
    BY <1>1, Removed
  <2>2. k - 1 \in Nat /\ k = (k - 1) + 1
    OBVIOUS
  <2> QED
    BY <2>1, <2>2
<1>3. \A i \in 1 .. n : line'[i] = line[i + 1]
  BY <1>1, <1>2, Removed
<1>4. /\ hurt' = {} /\ (adaptive' \/ toss' => initialized' = {})
      /\ recv_current' = IF Tcp(1) THEN line[1].for ELSE recv_current
      /\ initialized \subseteq initialized'
      /\ line[1].kind = "full" => line[1].for \in initialized'
  BY DEF Arrives
<1>5. ASSUME NEW i \in 1 .. m, NEW s, Points(i + 1, s) PROVE Points(i, s)'
  <2>1. i \in 1 .. Len(line) /\ \A j \in 1 .. i - 1 : j \in 1 .. n /\ j + 1 \in 1 .. (i + 1) - 1
    BY <1>2
  <2>2. ASSUME NEW j \in 1 .. i - 1, LatestTcp(j, i)' PROVE line'[j].for = s
    <3>1. LatestTcp(j + 1, i + 1)
      BY <1>1, <2>1, <2>2, RemovedBefore
    <3> QED
      BY <1>3, <1>5, <2>1, <3>1 DEF Points
  <2>3. ASSUME NoTcp(i)' PROVE recv_current' = s
    <3>1. CASE Tcp(1)
      <4>1. LatestTcp(1, i + 1)
        BY <1>1, <2>1, <2>3, <3>1, RemovedBefore
      <4> QED
        BY <1>4, <1>5, <3>1, <4>1 DEF Points, LatestTcp
    <3>2. CASE ~Tcp(1)
      <4>1. NoTcp(i + 1)
        BY <1>1, <2>1, <2>3, <3>2, RemovedBefore
      <4> QED
        BY <1>4, <1>5, <3>2, <4>1 DEF Points
    <3> QED
      BY <3>1, <3>2
  <2> QED
    BY <2>2, <2>3 DEF Points
<1>6. ASSUME NEW i \in 1 .. m, NEW s, Filled(i + 1, s) PROVE Filled(i, s)'
  <2>1. CASE s \in initialized'
    BY <2>1 DEF Filled
  <2>2. CASE s \notin initialized'
    <3>1. PICK j \in 1 .. (i + 1) - 1 : line[j].kind = "full" /\ line[j].for = s
      BY <1>4, <1>6, <2>2 DEF Filled
    <3>2. j # 1
      BY <1>4, <2>2, <3>1
    <3>3. PICK k : k = j - 1
      OBVIOUS
    <3>4. k \in 1 .. i - 1 /\ k \in 1 .. n /\ k + 1 = j
      BY <1>2, <3>1, <3>2, <3>3
    <3>5. line'[k] = line[j]
      BY <1>3, <3>4
    <3> QED
      BY <3>1, <3>4, <3>5 DEF Filled
  <2> QED
    BY <2>1, <2>2
<1>7. ASSUME NEW i \in 1 .. Len(line') PROVE SlotsRight(i)'
  <2>1. i \in 1 .. n /\ i \in 1 .. m /\ i + 1 \in 1 .. m
    BY <1>2
  <2>2. PICK p : p = i + 1
    OBVIOUS
  <2>3. PICK g : g = line[p] /\ g = line'[i]
    BY <1>3, <2>1, <2>2
  <2>4. SlotsRight(p)
    BY <1>2, <2>1, <2>2 DEF Synced
  <2>5. Filled(p, g.for) => Filled(i, g.for)'
    BY <1>6, <2>1, <2>2
  <2>6. Points(p, g.for) => Points(i, g.for)'
    BY <1>5, <2>1, <2>2
  <2> QED
    BY <2>3, <2>4, <2>5, <2>6 DEF SlotsRight
<1>8. m \in 1 .. m /\ Len(line') + 1 = m /\ Len(line) + 1 = m + 1
  BY <1>2
<1>9. Points(Len(line) + 1, xmit_current)'
  <2>1. PICK s : s = xmit_current /\ s = xmit_current'
    BY <1>1
  <2>2. Points(m + 1, s)
    BY <1>8, <2>1 DEF Synced
  <2>3. Points(m, s)'
    BY <1>5, <1>8, <2>2
  <2> QED
    BY <1>8, <2>1, <2>3 DEF Points, LatestTcp, NoTcp
<1>10. ASSUME NEW z \in Slot, tstate'[z].conn \in Conns PROVE Filled(Len(line) + 1, z)'
  <2>1. Filled(m + 1, z)
    BY <1>1, <1>8, <1>10 DEF Synced
  <2>2. Filled(m, z)'
    BY <1>6, <1>8, <2>1
  <2> QED
    BY <1>8, <2>2 DEF Filled
<1> QED
  BY <1>4, <1>7, <1>9, <1>10 DEF Synced

\* A compressed frame makes a header of a header, whatever the frame says.
LEMMA RebuiltIsHeader ==
  ASSUME NEW cs \in Header, NEW f \in Frames, f.kind = "compressed"
  PROVE  Rebuilt(cs, f) \in Header
<1>1. /\ f.mask \in SUBSET Bits /\ f.delta \in Deltas /\ f.psh \in BOOLEAN
      /\ f.len \in 0 .. Short - 1
  BY DEF Frames
<1>2. /\ f.delta.U \in 0 .. Short - 1 /\ f.delta.W \in Int /\ f.delta.A \in Int
      /\ f.delta.S \in Int /\ f.delta.I \in Int
  BY <1>1, Numbers DEF Deltas
<1>3. /\ \A x \in Int : x % Short \in 0 .. Short - 1
      /\ \A x \in Int : x % Long \in 0 .. Long - 1
  BY ModInRange, Numbers
<1>4. /\ cs.win \in Int /\ cs.ack \in Int /\ cs.seq \in Int /\ cs.id \in Int /\ cs.len \in Int
      /\ AsSigned(cs.len) \in Int
  BY HeaderFields, Numbers DEF AsSigned
<1>5. \A mask : Advance(cs, mask) \in Header
  <2>1. /\ (cs.ack + AsSigned(cs.len)) % Long \in 0 .. Long - 1
        /\ (cs.seq + AsSigned(cs.len)) % Long \in 0 .. Long - 1
        /\ (cs.seq + cs.len) % Long \in 0 .. Long - 1
    BY <1>3, <1>4
  <2> QED
    BY <2>1 DEF Advance, Header
<1>6. Add(cs, f) \in Header
  <2>1. \A x \in {"W", "A", "S"} : (IF x \in f.mask THEN f.delta[x] ELSE 0) \in Int
    BY <1>2
  <2>2. /\ (cs.win + (IF "W" \in f.mask THEN f.delta["W"] ELSE 0)) % Short \in 0 .. Short - 1
        /\ (cs.ack + (IF "A" \in f.mask THEN f.delta["A"] ELSE 0)) % Long \in 0 .. Long - 1
        /\ (cs.seq + (IF "S" \in f.mask THEN f.delta["S"] ELSE 0)) % Long \in 0 .. Long - 1
    BY <1>3, <1>4, <2>1
  <2>3. (IF "U" \in f.mask THEN f.delta.U ELSE cs.urp) \in 0 .. Short - 1
    BY <1>2, HeaderFields
  <2>4. PICK w \in 0 .. Short - 1, a \in 0 .. Long - 1, q \in 0 .. Long - 1, u \in 0 .. Short - 1 :
          /\ w = (cs.win + (IF "W" \in f.mask THEN f.delta["W"] ELSE 0)) % Short
          /\ a = (cs.ack + (IF "A" \in f.mask THEN f.delta["A"] ELSE 0)) % Long
          /\ q = (cs.seq + (IF "S" \in f.mask THEN f.delta["S"] ELSE 0)) % Long
          /\ u = (IF "U" \in f.mask THEN f.delta.U ELSE cs.urp)
    BY <2>2, <2>3
  <2>5. PICK b \in BOOLEAN : b <=> "U" \in f.mask
    <3>1. CASE "U" \in f.mask
      BY <3>1
    <3>2. CASE "U" \notin f.mask
      BY <3>2
    <3> QED
      BY <3>1, <3>2
  <2>6. Add(cs, f) = [cs EXCEPT !.urg = b, !.urp = u, !.win = w, !.ack = a, !.seq = q]
    BY <2>4, <2>5, HeaderFields DEF Add
  <2> QED
    BY <2>6 DEF Header
<1>7. PICK tcp \in Header :
        Rebuilt(cs, f) = [tcp EXCEPT !.psh = f.psh, !.len = f.len,
                                     !.id = (@ + (IF "I" \in f.mask THEN f.delta.I ELSE 1)) % Short]
  BY <1>5, <1>6 DEF Rebuilt
<1>8. (tcp.id + (IF "I" \in f.mask THEN f.delta.I ELSE 1)) % Short \in 0 .. Short - 1
  <2>1. tcp.id \in Int /\ (IF "I" \in f.mask THEN f.delta.I ELSE 1) \in Int
    BY <1>2, HeaderFields, Numbers
  <2> QED
    BY <1>3, <2>1
<1> QED
  BY <1>1, <1>7, <1>8 DEF Header

\* The stack takes a header, or does not.
LEMMA HandedUp ==
  ASSUME StackTypes, UNCHANGED pos, NEW h, HandUp(h)
  PROVE  StackTypes' /\ faults \in 0 .. faults'
<1>1. CASE UNCHANGED faults /\ done' = [c \in Conns |-> done[c] \/ h = Asked(c)]
  <2>1. done' \in [Conns -> BOOLEAN] /\ \A c \in Conns : ~done'[c] => ~done[c]
    BY <1>1 DEF StackTypes
  <2> QED
    BY <1>1, <2>1 DEF StackTypes
<1>2. CASE UNCHANGED done /\ faults' = faults + 1
  BY <1>2 DEF StackTypes
<1> QED
  BY <1>1, <1>2 DEF HandUp

\* One more fault.
LEMMA Faulted ==
  ASSUME StackTypes, faults' = faults + 1
  PROVE  faults \in 0 .. faults' /\ faults' # 0 /\ faults' \in Nat
BY DEF StackTypes

\* The first frame, and what agreement says of it.
LEMMA FirstFrame ==
  ASSUME TypeInv, line # << >>
  PROVE  /\ Frame = line[1] /\ line[1] \in Frames
         /\ Synced => SlotsRight(1)
         /\ Filled(1, line[1].for) => line[1].for \in initialized
         /\ Points(1, line[1].for) => recv_current = line[1].for
<1>1. line \in Seq(Frames)
  BY DEF TypeInv, LineTypes
<1>2. Len(line) \in Nat \ {0}
  BY <1>1, EmptySeq
<1>3. 1 \in 1 .. Len(line)
  BY <1>2
<1>4. Frame = line[1] /\ line[1] \in Frames
  BY <1>1, <1>3 DEF Frame
<1>5. 1 .. 1 - 1 = {}
  OBVIOUS
<1> QED
  BY <1>3, <1>4, <1>5 DEF Synced, Filled, Points, NoTcp

\* A frame that is not TCP arrives.
LEMMA PlainArrives ==
  ASSUME TypeInv, ReceivePlain
  PROVE  Arrives
<1>1. /\ line # << >> /\ line' = Tail(line) /\ UNCHANGED <<sender, receiver, pos, done, faults>>
      /\ line[1].kind = "ip"
  BY FirstFrame DEF ReceivePlain
<1>2. ReceiverTypes' /\ StackTypes' /\ faults \in 0 .. faults'
  BY <1>1 DEF TypeInv, ReceiverTypes, StackTypes, receiver
<1> QED
  BY <1>1, <1>2 DEF Arrives, For, Tcp, Off, receiver, Synced

\* slhc_remember takes a full header.
LEMMA FullArrives ==
  ASSUME TypeInv, ReceiveFull
  PROVE  Arrives
<1>1. PICK f \in Frames : f = line[1] /\ f = Frame
  BY FirstFrame DEF ReceiveFull
<1>2. /\ line # << >> /\ f.kind = "full" /\ line' = Tail(line) /\ adaptive' = FALSE
      /\ UNCHANGED <<sender, pos>>
  BY <1>1 DEF ReceiveFull
<1>3. f.for \in Slot /\ f.sent \in Header /\ Tcp(1) /\ \A s : For(1, s) = (s = f.for)
  BY <1>1, <1>2 DEF Frames, For, Tcp
<1>4. Synced => f.slot = f.for
  BY <1>1, <1>2, FirstFrame DEF SlotsRight
<1>5. StackTypes /\ ReceiverTypes
  BY DEF TypeInv
<1>6. CASE f.slot \notin Slot
  <2>1. Toss(f) /\ UNCHANGED <<done, faults>>
    BY <1>1, <1>6 DEF ReceiveFull
  <2>2. ReceiverTypes' /\ StackTypes' /\ faults \in 0 .. faults'
    <3>1. /\ UNCHANGED <<rstate, initialized, recv_current, misled, pos, done, faults>>
          /\ toss' = TRUE /\ adaptive' = FALSE /\ hurt' = hurt \cup {f.for}
      BY <1>2, <2>1 DEF Toss
    <3>2. ReceiverTypes'
      BY <1>3, <1>5, <3>1 DEF ReceiverTypes
    <3>3. StackTypes' /\ faults \in 0 .. faults'
      BY <1>5, <3>1 DEF StackTypes
    <3> QED
      BY <3>2, <3>3
  <2>3. ~Synced
    BY <1>3, <1>4, <1>6
  <2>4. ASSUME NEW s \in Slot, s \notin Off'
        PROVE  ~For(1, s) /\ s \notin Off /\ rstate'[s] = rstate[s]
    BY <1>3, <2>1, <2>4 DEF Toss, Off
  <2> QED
    BY <1>2, <2>2, <2>3, <2>4 DEF Arrives
<1>7. CASE f.slot \in Slot
  <2>1. /\ recv_current' = f.slot /\ toss' = FALSE
        /\ rstate' = [rstate EXCEPT ![f.slot] = f.sent]
        /\ initialized' = initialized \cup {f.slot}
        /\ hurt' = IF f.slot = f.for THEN hurt \ {f.for} ELSE hurt \cup {f.slot, f.for}
        /\ misled' = misled \ {f.slot}
        /\ HandUp(f.sent)
    BY <1>1, <1>7 DEF ReceiveFull
  <2>2. StackTypes' /\ faults \in 0 .. faults'
    BY <1>2, <1>5, <2>1, HandedUp
  <2>3. ReceiverTypes'
    BY <1>2, <1>3, <1>5, <1>7, <2>1 DEF ReceiverTypes
  <2>4. \A s \in Slot : rstate'[s] = IF s = f.slot THEN f.sent ELSE rstate[s]
    BY <1>5, <2>1 DEF ReceiverTypes
  <2>5. ASSUME NEW s \in Slot, s \notin Off'
        PROVE  IF For(1, s) THEN rstate'[s] = line[1].sent
                            ELSE s \notin Off /\ rstate'[s] = rstate[s]
    BY <1>1, <1>3, <2>1, <2>4, <2>5 DEF Off
  <2>6. ASSUME Synced
        PROVE  /\ hurt' = {} /\ adaptive' = FALSE /\ toss' = FALSE
               /\ recv_current' = f.for /\ f.for \in initialized'
               /\ initialized \subseteq initialized'
    BY <1>2, <1>4, <2>1, <2>6 DEF Synced
  <2> QED
    BY <1>1, <1>2, <1>3, <2>2, <2>3, <2>5, <2>6 DEF Arrives
<1> QED
  BY <1>6, <1>7

\* A frame that is not used marks its slot.
LEMMA UnusedArrives ==
  ASSUME TypeInv, line # << >>, line' = Tail(line), UNCHANGED <<sender, pos>>,
         UNCHANGED <<rstate, initialized, recv_current, misled>>,
         toss' \in {toss, TRUE}, adaptive' \in {adaptive, FALSE}, line[1].kind # "ip",
         hurt' = hurt \cup {line[1].for}, StackTypes', faults \in 0 .. faults',
         faults' = 0 => ~Synced
  PROVE  Arrives
<1>1. line[1] \in Frames
  BY FirstFrame
<1>2. line[1].for \in Slot
  BY <1>1 DEF Frames
<1>3. ReceiverTypes'
  <2>1. toss' \in BOOLEAN /\ adaptive' \in BOOLEAN /\ (~toss' => ~toss)
    BY DEF TypeInv, ReceiverTypes
  <2> QED
    BY <1>2, <2>1 DEF TypeInv, ReceiverTypes
<1>4. \A s \in Slot : s \notin Off' => ~For(1, s) /\ s \notin Off /\ rstate'[s] = rstate[s]
  BY DEF For, Off
<1> QED
  BY <1>3, <1>4 DEF Arrives

\* A full header with a bad checksum is tossed.
LEMMA BadCheckArrives ==
  ASSUME TypeInv, BadCheck
  PROVE  Arrives
<1>1. /\ line # << >> /\ line' = Tail(line) /\ UNCHANGED <<sender, pos, done>>
      /\ Toss(Frame) /\ adaptive' = FALSE /\ faults' = faults + 1 /\ Frame.kind = "full"
  BY DEF BadCheck
<1>2. Frame = line[1] /\ line[1].kind # "ip"
  BY <1>1, FirstFrame
<1>3. StackTypes' /\ faults \in 0 .. faults' /\ faults' # 0
  BY <1>1, Faulted DEF TypeInv, StackTypes
<1> QED
  BY <1>1, <1>2, <1>3, UnusedArrives DEF Toss

\* A lost frame is an arrival that only damages its slot.
LEMMA LossArrives ==
  ASSUME TypeInv, Lose
  PROVE  Arrives
<1>1. /\ line # << >> /\ line' = Tail(line) /\ UNCHANGED <<sender, pos, done>>
      /\ UNCHANGED <<rstate, initialized, recv_current, misled, toss, adaptive>>
      /\ hurt' = hurt \cup {Frame.for} /\ faults' = faults + 1 /\ Frame.kind # "ip"
  BY DEF Lose
<1>2. Frame = line[1] /\ line[1].kind # "ip"
  BY <1>1, FirstFrame
<1>3. StackTypes' /\ faults \in 0 .. faults' /\ faults' # 0
  BY <1>1, Faulted DEF TypeInv, StackTypes
<1> QED
  BY <1>1, <1>2, <1>3, UnusedArrives

\* While the ends agree no compressed frame is ignored ...
LEMMA IgnoredArrives ==
  ASSUME TypeInv, IgnoreCompressed
  PROVE  Arrives
<1>1. /\ line # << >> /\ line' = Tail(line) /\ UNCHANGED <<sender, pos, done, faults>>
      /\ UNCHANGED <<rstate, initialized, recv_current, misled, toss, adaptive>> /\ adaptive
      /\ hurt' = hurt \cup {Frame.for} /\ Frame.kind = "compressed"
  BY DEF IgnoreCompressed
<1>2. Frame = line[1] /\ line[1].kind = "compressed"
  BY <1>1, FirstFrame
<1>3. StackTypes' /\ faults \in 0 .. faults'
  BY <1>1 DEF TypeInv, StackTypes
<1>4. ~Synced
  <2>1. SUFFICES ASSUME Synced PROVE FALSE
    OBVIOUS
  <2>2. line[1].for \in initialized
    BY <1>1, <1>2, <2>1, FirstFrame DEF SlotsRight
  <2> QED
    BY <1>1, <2>1, <2>2 DEF Synced
<1> QED
  BY <1>1, <1>2, <1>3, <1>4, UnusedArrives

\* ... or rejected.
LEMMA RejectedArrives ==
  ASSUME TypeInv, RejectCompressed
  PROVE  Arrives
<1>1. /\ line # << >> /\ line' = Tail(line) /\ UNCHANGED <<sender, pos, done, faults>>
      /\ Toss(Frame) /\ UNCHANGED adaptive /\ Frame.kind = "compressed"
      /\ IF Frame.slot = NoSlot THEN toss ELSE ~Usable(Frame.slot)
  BY DEF RejectCompressed
<1>2. Frame = line[1] /\ line[1].kind = "compressed" /\ line[1].for \in Slot
  BY <1>1, FirstFrame DEF Frames
<1>3. StackTypes' /\ faults \in 0 .. faults'
  BY <1>1 DEF TypeInv, StackTypes
<1>4. ~Synced
  <2>1. SUFFICES ASSUME Synced PROVE FALSE
    OBVIOUS
  <2>2. line[1].for \in initialized /\ line[1].slot \in {line[1].for, NoSlot}
    BY <1>1, <1>2, <2>1, FirstFrame DEF SlotsRight
  <2>3. ~toss
    BY <2>1, <2>2 DEF Synced, TypeInv, ReceiverTypes
  <2> QED
    BY <1>1, <1>2, <2>2, <2>3 DEF Usable
<1> QED
  BY <1>1, <1>2, <1>3, <1>4, UnusedArrives DEF Toss

\* A compressed frame that is used makes the header that was sent, in the right slot or in
\* one that is marked.
LEMMA CompressedArrives ==
  ASSUME TypeInv, Chain, ReceiveCompressed
  PROVE  Arrives
<1>1. PICK f \in Frames : f = line[1] /\ f = Frame
  BY FirstFrame DEF ReceiveCompressed
<1>2. PICK s : s = Lands(f)
  OBVIOUS
<1>3. /\ line # << >> /\ f.kind = "compressed" /\ line' = Tail(line) /\ ~adaptive
      /\ (IF f.slot = NoSlot THEN ~toss ELSE Usable(f.slot))
      /\ recv_current' = s /\ toss' = FALSE
      /\ hurt' = (IF s = f.for THEN hurt ELSE hurt \cup {s, f.for})
      /\ UNCHANGED <<sender, initialized, adaptive, pos>>
  BY <1>1, <1>2 DEF ReceiveCompressed, Current
<1>4. StackTypes /\ ReceiverTypes
  BY DEF TypeInv
<1>5. s \in initialized /\ s \in Slot
  BY <1>2, <1>3, <1>4 DEF Lands, Usable, ReceiverTypes
<1>6. PICK cs \in Header : cs = rstate[s]
  BY <1>4, <1>5 DEF ReceiverTypes
<1>7. PICK h \in Header : h = Rebuilt(cs, f)
  BY <1>3, RebuiltIsHeader
<1>8. /\ rstate' = [rstate EXCEPT ![s] = h] /\ HandUp(h)
      /\ misled' = IF Misleads(cs, f) THEN misled \cup {s} ELSE misled
  BY <1>1, <1>2, <1>6, <1>7 DEF ReceiveCompressed
<1>9. f.for \in Slot /\ Tcp(1) /\ \A z : For(1, z) = (z = f.for)
  BY <1>1, <1>3 DEF Frames, For, Tcp
<1>10. StackTypes' /\ faults \in 0 .. faults'
  BY <1>3, <1>4, <1>8, HandedUp
<1>11. ReceiverTypes'
  BY <1>3, <1>4, <1>5, <1>8, <1>9 DEF ReceiverTypes
<1>12. \A z \in Slot : rstate'[z] = IF z = s THEN h ELSE rstate[z]
  BY <1>4, <1>8 DEF ReceiverTypes
<1>13. s = f.for /\ s \notin Off' => s \notin Off /\ h = f.sent
  <2>1. 1 \in 1 .. Len(line) /\ 1 .. 1 - 1 = {}
    BY <1>3, EmptySeq DEF TypeInv, LineTypes
  <2>2. Follows(1)
    BY <1>1, <1>3, <2>1 DEF Chain
  <2>3. NoneFor(1, f.for)
    BY <2>1 DEF NoneFor
  <2> QED
    BY <1>1, <1>3, <1>6, <1>7, <1>8, <2>2, <2>3 DEF Follows, Off, Yields
<1>14. ASSUME NEW z \in Slot, z \notin Off'
       PROVE  IF For(1, z) THEN rstate'[z] = line[1].sent
                           ELSE z \notin Off /\ rstate'[z] = rstate[z]
  <2>1. CASE s = f.for
    BY <1>1, <1>3, <1>8, <1>9, <1>12, <1>13, <1>14, <2>1 DEF Off
  <2>2. CASE s # f.for
    BY <1>1, <1>3, <1>8, <1>9, <1>12, <1>14, <2>2 DEF Off
  <2> QED
    BY <2>1, <2>2
<1>15. ASSUME Synced PROVE s = f.for
  <2>1. SlotsRight(1) /\ NoSlot \notin Slot
    BY <1>3, <1>15, FirstFrame, Numbers
  <2>2. CASE f.slot = f.for
    BY <1>2, <1>9, <2>1, <2>2 DEF Lands
  <2>3. CASE f.slot # f.for
    <3>1. f.slot = NoSlot /\ Points(1, f.for)
      BY <1>1, <1>3, <2>1, <2>3 DEF SlotsRight
    <3>2. recv_current = f.for
      BY <1>1, <1>3, <3>1, FirstFrame
    <3> QED
      BY <1>2, <3>1, <3>2 DEF Lands
  <2> QED
    BY <2>2, <2>3
<1>16. ASSUME Synced
       PROVE  /\ hurt' = {} /\ adaptive' = FALSE /\ toss' = FALSE
              /\ recv_current' = f.for /\ initialized \subseteq initialized'
  <2>1. adaptive \in BOOLEAN
    BY <1>4 DEF ReceiverTypes
  <2> QED
    BY <1>3, <1>15, <1>16, <2>1 DEF Synced
<1> QED
  BY <1>1, <1>3, <1>9, <1>10, <1>11, <1>14, <1>16 DEF Arrives

(***************************************************************************)
(* The invariant.                                                          *)
(***************************************************************************)

\* The headers that a connection sends.
LEMMA StreamHeaders ==
  ASSUME NEW c \in Conns, NEW i \in 1 .. Len(Stream[c])
  PROVE  Stream[c][i] \in Header
<1>1. Stream[c] \in Seq(Header)
  BY SlhcAssumption
<1> QED
  BY <1>1

\* A header is compressed and sent.
LEMMA CompressKeeps ==
  ASSUME SlhcInv, NEW h \in Header, Compress(h), UNCHANGED <<receiver, faults>>, StackTypes',
         Len(line) < MaxOnLine
  PROVE  SlhcInv'
<1>1. TypeInv /\ Ring /\ OneSlotEach /\ Chain /\ (faults = 0 => Synced)
  BY DEF SlhcInv
<1>2. PICK s \in Slot, f \in Frames : Sends(h, s, f)
  BY <1>1, FrameSent
<1>3. Ring'
  BY <1>1, TouchKeepsRing DEF Compress
<1>4. OneSlotEach'
  BY <1>1, <1>2, SendKeepsOneSlot
<1>5. Chain'
  BY <1>1, <1>2, SendKeepsChain
<1>6. faults' = 0 => Synced'
  BY <1>1, <1>2, SendKeepsSync
<1>7. SenderTypes'
  <2>1. PICK k \in Slot : k = Found(h.conn)
    BY <1>1, SearchStops
  <2>2. xmit_oldest' \in Slot /\ next' \in [Slot -> Slot]
    <3>1. SenderTypes
      BY <1>1 DEF TypeInv
    <3>2. CASE Stop(h.conn) = 1
      BY <3>1, <3>2 DEF Compress, Touch, SenderTypes
    <3>3. CASE Stop(h.conn) # 1
      <4>1. Before(h.conn) = lru[Stop(h.conn) - 1] /\ Stop(h.conn) - 1 \in 1 .. Slots - 1
        BY <1>1, <3>3, SearchStops
      <4>2. Stop(h.conn) - 1 \in 1 .. Slots
        BY <4>1, Numbers
      <4>3. Before(h.conn) \in Slot
        BY <1>1, <4>1, <4>2 DEF Ring
      <4>4. CASE Found(h.conn) = xmit_oldest
        BY <3>1, <3>3, <4>3, <4>4 DEF Compress, Touch, SenderTypes
      <4>5. CASE Found(h.conn) # xmit_oldest
        <5>1. next' = Relink(h.conn) /\ xmit_oldest' = xmit_oldest
          BY <3>3, <4>5 DEF Compress, Touch
        <5>2. next \in [Slot -> Slot] /\ xmit_oldest \in Slot
          BY <3>1 DEF SenderTypes
        <5> QED
          BY <2>1, <4>3, <5>1, <5>2 DEF Relink
      <4> QED
        BY <4>4, <4>5
    <3> QED
      BY <3>2, <3>3
  <2> QED
    BY <1>1, <1>2, <2>2 DEF TypeInv, SenderTypes, Sends
<1>8. ReceiverTypes'
  BY <1>1 DEF TypeInv, ReceiverTypes, receiver
<1>9. LineTypes'
  <2>1. LineTypes /\ line' = Append(line, f)
    BY <1>1, <1>2 DEF TypeInv, Sends
  <2>2. Len(line) \in Nat /\ Len(line') = Len(line) + 1 /\ line' \in Seq(Frames)
    BY <2>1, Appended
  <2>3. Len(line') <= MaxOnLine
    BY <2>2, SlhcAssumption
  <2> QED
    BY <2>2, <2>3 DEF LineTypes
<1> QED
  BY <1>3, <1>4, <1>5, <1>6, <1>7, <1>8, <1>9 DEF SlhcInv, TypeInv

\* A new segment keeps the invariant.
LEMMA SendKeeps ==
  ASSUME SlhcInv, NEW c \in Conns, Send(c)
  PROVE  SlhcInv'
<1>1. pos \in [Conns -> Nat] /\ Len(Stream[c]) \in Nat
  BY SlhcAssumption DEF SlhcInv, TypeInv, StackTypes
<1>2. PICK n \in Nat : n = pos[c] + 1 /\ n \in 1 .. Len(Stream[c])
  BY <1>1 DEF Send
<1>3. /\ pos' = [pos EXCEPT ![c] = n] /\ done' = [done EXCEPT ![c] = FALSE]
      /\ UNCHANGED <<receiver, faults>> /\ Len(line) < MaxOnLine
  BY <1>2 DEF Send
<1>4. pos'[c] = n
  BY <1>1, <1>3
<1>5. PICK h : h = Stream[c][n]
  OBVIOUS
<1>6. h \in Header /\ Compress(h)
  BY <1>2, <1>4, <1>5, StreamHeaders DEF Send
<1>7. StackTypes'
  BY <1>2, <1>3 DEF SlhcInv, TypeInv, StackTypes
<1> QED
  BY <1>3, <1>6, <1>7, CompressKeeps

\* A segment sent again keeps it.
LEMMA RetransmitKeeps ==
  ASSUME SlhcInv, NEW c \in Conns, Retransmit(c)
  PROVE  SlhcInv'
<1>1. /\ UNCHANGED <<receiver, pos, done, faults>> /\ Len(line) < MaxOnLine
      /\ ~done[c] /\ Compress(Asked(c))
  BY DEF Retransmit
<1>2. pos[c] \in 1 .. Len(Stream[c])
  <2>1. pos[c] \in Nat /\ pos[c] # 0 /\ pos[c] <= Len(Stream[c]) /\ Len(Stream[c]) \in Nat
    BY <1>1, SlhcAssumption DEF SlhcInv, TypeInv, StackTypes
  <2> QED
    BY <2>1
<1>3. Asked(c) \in Header
  BY <1>2, StreamHeaders DEF Asked
<1>4. StackTypes'
  BY <1>1 DEF SlhcInv, TypeInv, StackTypes
<1> QED
  BY <1>1, <1>3, <1>4, CompressKeeps

\* A packet that is not TCP keeps it.
LEMMA SendPlainKeeps ==
  ASSUME SlhcInv, SendPlain
  PROVE  SlhcInv'
<1>1. TypeInv /\ Ring /\ OneSlotEach /\ Chain /\ (faults = 0 => Synced)
  BY DEF SlhcInv
<1>2. /\ Len(line) < MaxOnLine /\ line' = Append(line, Plain)
      /\ UNCHANGED <<sender, receiver, pos, done, faults>>
  BY DEF SendPlain
<1>3. Chain' /\ (faults' = 0 => Synced')
  <2>1. UNCHANGED <<receiver, tstate, xmit_current>>
    BY <1>2 DEF sender
  <2> QED
    BY <1>1, <1>2, <2>1, PlainKeepsChain, PlainKeepsSync
<1>4. Ring' /\ OneSlotEach' /\ SenderTypes' /\ ReceiverTypes' /\ StackTypes'
  <2>1. Ring' /\ OneSlotEach'
    BY <1>1, <1>2 DEF Ring, OneSlotEach, sender
  <2>2. SenderTypes' /\ ReceiverTypes' /\ StackTypes'
    BY <1>1, <1>2 DEF TypeInv, SenderTypes, ReceiverTypes, StackTypes, sender, receiver
  <2> QED
    BY <2>1, <2>2
<1>5. LineTypes'
  <2>1. LineTypes /\ Plain \in Frames
    BY <1>1 DEF TypeInv, Plain, Frames
  <2>2. Len(line) \in Nat /\ Len(line') = Len(line) + 1 /\ line' \in Seq(Frames)
    BY <1>2, <2>1, Appended
  <2>3. Len(line') <= MaxOnLine
    BY <1>2, <2>2, SlhcAssumption
  <2> QED
    BY <2>2, <2>3 DEF LineTypes
<1> QED
  BY <1>3, <1>4, <1>5 DEF SlhcInv, TypeInv

\* Whatever arrives keeps it.
LEMMA ArrivalKeeps ==
  ASSUME SlhcInv, Arrives
  PROVE  SlhcInv'
<1>1. TypeInv /\ Ring /\ OneSlotEach /\ Chain /\ (faults = 0 => Synced)
  BY DEF SlhcInv
<1>2. line # << >> /\ line' = Tail(line) /\ UNCHANGED sender
  BY DEF Arrives
<1>3. Chain'
  BY <1>1, ArrivalKeepsChain
<1>4. ASSUME faults' = 0 PROVE Synced'
  <2>1. faults = 0
    BY <1>1, <1>4 DEF Arrives, TypeInv, StackTypes
  <2> QED
    BY <1>1, <1>4, <2>1, ArrivalKeepsSync
<1>5. Ring' /\ OneSlotEach' /\ SenderTypes'
  <2>1. Ring' /\ OneSlotEach'
    BY <1>1, <1>2 DEF Ring, OneSlotEach, sender
  <2>2. SenderTypes'
    BY <1>1, <1>2 DEF TypeInv, SenderTypes, sender
  <2> QED
    BY <2>1, <2>2
<1>6. LineTypes'
  <2>1. LineTypes
    BY <1>1 DEF TypeInv
  <2>2. Len(line) \in Nat \ {0} /\ Len(line') = Len(line) - 1 /\ line' \in Seq(Frames)
    BY <1>2, <2>1, Removed
  <2>3. Len(line) <= MaxOnLine /\ MaxOnLine \in Nat
    BY <2>1, SlhcAssumption DEF LineTypes
  <2>4. Len(line') <= MaxOnLine
    BY <2>2, <2>3
  <2> QED
    BY <2>2, <2>4 DEF LineTypes
<1> QED
  BY <1>3, <1>4, <1>5, <1>6 DEF SlhcInv, TypeInv, Arrives

\* Only the slot number of a frame can be hit: it does not say what the frame makes of a header.
LEMMA GarbleKeeps ==
  ASSUME SlhcInv, NEW s \in 0 .. Slots, Garble(s)
  PROVE  SlhcInv'
<1>1. TypeInv /\ Ring /\ OneSlotEach /\ Chain
  BY DEF SlhcInv
<1>2. /\ line # << >> /\ line[1].kind # "ip" /\ line' = [line EXCEPT ![1].slot = s]
      /\ UNCHANGED <<sender, receiver, pos, done>> /\ faults' = faults + 1
  BY <1>1, FirstFrame DEF Garble
<1>3. faults' # 0 /\ faults' \in Nat
  BY <1>1, <1>2, Faulted DEF TypeInv
<1>4. line \in Seq(Frames) /\ Len(line) <= MaxOnLine
  BY <1>1 DEF TypeInv, LineTypes
<1>5. 1 \in 1 .. Len(line)
  BY <1>2, <1>4, EmptySeq
<1>6. PICK f \in Frames : f = line[1] /\ f.kind # "ip"
  BY <1>2, <1>4, <1>5
<1>7. PICK g : g = [f EXCEPT !.slot = s]
  OBVIOUS
<1>8. /\ g \in Frames /\ g.kind = f.kind /\ g.for = f.for /\ g.sent = f.sent
      /\ (f.kind = "compressed" =>
            g.mask = f.mask /\ g.delta = f.delta /\ g.psh = f.psh /\ g.len = f.len)
  <2>1. s \in Nat
    BY Numbers
  <2>2. CASE f.kind = "full"
    BY <1>6, <1>7, <2>1, <2>2 DEF Frames
  <2>3. CASE f.kind = "compressed"
    BY <1>6, <1>7, <2>1, <2>3 DEF Frames
  <2> QED
    BY <1>6, <2>2, <2>3 DEF Frames
<1>9. line' = [line EXCEPT ![1] = g]
  BY <1>2, <1>5, <1>6, <1>7
<1>10. /\ line' \in Seq(Frames) /\ Len(line') = Len(line)
       /\ line'[1] = g /\ \A i \in 1 .. Len(line) : i # 1 => line'[i] = line[i]
  <2>1. line' \in Seq(Frames) /\ Len(line') = Len(line)
    BY <1>4, <1>5, <1>8, <1>9, ExceptSeq
  <2>2. line'[1] = g /\ \A i \in 1 .. Len(line) : i # 1 => line'[i] = line[i]
    BY <1>4, <1>5, <1>9
  <2> QED
    BY <2>1, <2>2
<1>11. \A i \in 1 .. Len(line) : /\ line'[i].kind = line[i].kind
                                 /\ (line[i].kind # "ip" => line'[i].for = line[i].for
                                                           /\ line'[i].sent = line[i].sent)
  BY <1>6, <1>8, <1>10
<1>12. \A i \in 1 .. Len(line) : \A z : For(i, z)' = For(i, z)
  BY <1>11 DEF For, Tcp
<1>13. PICK n \in Nat : n = Len(line) /\ n = Len(line')
  BY <1>4, <1>10
<1>14. ASSUME NEW i \in 1 .. n + 1, NEW z
       PROVE  /\ NoneFor(i, z)' = NoneFor(i, z)
              /\ \A j : LatestFor(j, i, z)' = LatestFor(j, i, z)
  <2>1. \A j \in 1 .. i - 1 : j \in 1 .. n /\ \A k \in j + 1 .. i - 1 : k \in 1 .. n
    BY <1>13
  <2>2. NoneFor(i, z)' = NoneFor(i, z)
    BY <1>12, <1>13, <2>1 DEF NoneFor
  <2>3. ASSUME NEW j PROVE LatestFor(j, i, z)' = LatestFor(j, i, z)
    BY <1>12, <1>13, <2>1 DEF LatestFor
  <2> QED
    BY <2>2, <2>3
<1>15. ASSUME NEW i \in 1 .. n, line'[i].kind = "compressed", NEW cs
       PROVE  Yields(cs, line'[i]) = Yields(cs, line[i])
  <2>1. CASE i = 1
    <3>1. /\ line'[i].mask = line[i].mask /\ line'[i].delta = line[i].delta
          /\ line'[i].psh = line[i].psh /\ line'[i].len = line[i].len
          /\ line'[i].sent = line[i].sent
      BY <1>6, <1>8, <1>10, <1>15, <2>1
    <3> QED
      BY <3>1 DEF Yields, Misleads, Rebuilt, Add
  <2>2. CASE i # 1
    BY <1>10, <1>13, <2>2
  <2> QED
    BY <2>1, <2>2
<1>16. \A i \in 1 .. n : \A j \in 1 .. i - 1 : j \in 1 .. n
  BY <1>13
<1>17. ASSUME NEW i \in 1 .. n, line'[i].kind = "compressed" PROVE Follows(i)'
  <2>1. Follows(i) /\ line[i].kind # "ip" /\ i \in 1 .. n + 1
    BY <1>1, <1>11, <1>13, <1>17 DEF Chain
  <2>2. line'[i].for = line[i].for /\ line'[i].sent = line[i].sent
    BY <1>11, <1>13, <2>1
  <2>3. PICK z : z = line[i].for
    OBVIOUS
  <2>4. ASSUME NEW j \in 1 .. i - 1, LatestFor(j, i, z)'
        PROVE  Yields(line'[j].sent, line'[i])
    <3>1. LatestFor(j, i, z)
      BY <1>14, <2>1, <2>4
    <3>2. Yields(line[j].sent, line[i])
      BY <2>1, <2>3, <3>1 DEF Follows
    <3>3. line[j].kind # "ip"
      BY <3>1 DEF LatestFor, For, Tcp
    <3>4. line'[j].sent = line[j].sent
      BY <1>11, <1>13, <1>16, <3>3
    <3> QED
      BY <1>15, <1>17, <2>2, <3>2, <3>4
  <2>5. ASSUME NoneFor(i, z)', z \notin Off'
        PROVE  Yields(rstate'[z], line'[i])
    <3>1. NoneFor(i, z)
      BY <1>14, <2>1, <2>5
    <3>2. Yields(rstate[z], line[i])
      BY <1>2, <2>1, <2>3, <2>5, <3>1 DEF Follows, Off, receiver
    <3> QED
      BY <1>2, <1>15, <1>17, <3>2 DEF receiver
  <2> QED
    BY <2>2, <2>3, <2>4, <2>5 DEF Follows
<1>18. ASSUME NEW z \in Slot, tstate'[z].conn \in Conns
       PROVE  Expects(Len(line) + 1, z, tstate[z])'
  <2>1. PICK u : u = tstate[z] /\ u = tstate'[z]
    BY <1>2 DEF sender
  <2>2. PICK m : m = n + 1 /\ m \in 1 .. n + 1 /\ m - 1 = n
    BY <1>13
  <2>3. Expects(m, z, u)
    BY <1>1, <1>13, <1>18, <2>1, <2>2 DEF Chain
  <2>4. ASSUME NEW j \in 1 .. m - 1, LatestFor(j, m, z)' PROVE line'[j].sent = u
    <3>1. LatestFor(j, m, z)
      BY <1>14, <2>2, <2>4
    <3>2. line[j].kind # "ip" /\ line[j].sent = u
      BY <2>3, <3>1 DEF LatestFor, For, Tcp, Expects
    <3> QED
      BY <1>11, <1>13, <2>2, <3>2
  <2>5. ASSUME NoneFor(m, z)', z \notin Off' PROVE rstate'[z] = u
    <3>1. NoneFor(m, z)
      BY <1>14, <2>2, <2>5
    <3> QED
      BY <1>2, <2>3, <2>5, <3>1 DEF Expects, Off, receiver
  <2>6. Expects(m, z, u)'
    BY <2>4, <2>5 DEF Expects
  <2> QED
    BY <1>13, <2>1, <2>2, <2>6 DEF Expects, LatestFor, NoneFor
<1>19. Chain'
  BY <1>13, <1>17, <1>18 DEF Chain
<1>20. Ring' /\ OneSlotEach'
  BY <1>1, <1>2 DEF Ring, OneSlotEach, sender
<1>21. SenderTypes' /\ ReceiverTypes'
  BY <1>1, <1>2 DEF TypeInv, SenderTypes, ReceiverTypes, sender, receiver
<1>22. StackTypes' /\ LineTypes'
  BY <1>1, <1>2, <1>3, <1>4, <1>10 DEF TypeInv, StackTypes, LineTypes
<1> QED
  BY <1>3, <1>19, <1>20, <1>21, <1>22 DEF SlhcInv, TypeInv

\* A table that is set up anew.
LEMMA RestartSenderKeeps ==
  ASSUME SlhcInv, RestartSender
  PROVE  SlhcInv'
<1>1. TypeInv /\ Chain
  BY DEF SlhcInv
<1>2. /\ tstate' = [z \in Slot |-> ZeroHeader] /\ next' = SenderInit.next
      /\ lru' = SenderInit.lru /\ xmit_oldest' = 0 /\ xmit_current' = NoSlot
      /\ UNCHANGED <<receiver, line, pos, done>> /\ faults' = faults + 1
  BY DEF RestartSender, SenderInit
<1>3. faults' # 0 /\ faults' \in Nat
  BY <1>1, <1>2, Faulted DEF TypeInv
<1>4. \A z \in Slot : tstate'[z].conn \notin Conns
  BY <1>2, SlhcAssumption DEF ZeroHeader
<1>5. Chain'
  <2>1. ASSUME NEW i \in 1 .. Len(line'), line'[i].kind = "compressed" PROVE Follows(i)'
    <3>1. Follows(i)
      BY <1>1, <1>2, <2>1 DEF Chain
    <3> QED
      BY <1>2, <3>1 DEF Follows, LatestFor, NoneFor, For, Tcp, Off, receiver
  <2> QED
    BY <1>4, <2>1 DEF Chain
<1>6. OneSlotEach'
  BY <1>4 DEF OneSlotEach
<1>7. Ring'
  BY <1>2, FirstRing DEF Ring
<1>8. SenderTypes'
  <2>1. 0 \in Slot
    BY Numbers
  <2> QED
    BY <1>2, <2>1, FirstRing DEF SenderTypes
<1>9. ReceiverTypes' /\ StackTypes' /\ LineTypes'
  BY <1>1, <1>2, <1>3 DEF TypeInv, ReceiverTypes, StackTypes, LineTypes, receiver
<1> QED
  BY <1>3, <1>5, <1>6, <1>7, <1>8, <1>9 DEF SlhcInv, TypeInv

\* A receiver that starts over keeps it: every slot counts as damaged.
LEMMA RestartReceiverKeeps ==
  ASSUME SlhcInv, RestartReceiver
  PROVE  SlhcInv'
<1>1. TypeInv /\ Chain /\ Ring /\ OneSlotEach
  BY DEF SlhcInv
<1>2. /\ rstate' = [s \in Slot |-> ZeroHeader] /\ initialized' = {}
      /\ recv_current' = NoSlot /\ toss' = TRUE /\ adaptive' \in BOOLEAN /\ hurt' = Slot
      /\ misled' = {}
      /\ UNCHANGED <<sender, line, pos, done>> /\ faults' = faults + 1
  BY DEF RestartReceiver
<1>3. faults' # 0 /\ faults' \in Nat
  BY <1>1, <1>2, Faulted DEF TypeInv
<1>4. ASSUME NEW i \in 1 .. Len(line'), line'[i].kind = "compressed" PROVE Follows(i)'
  <2>1. PICK g \in Frames : g = line[i] /\ g = line'[i]
    BY <1>1, <1>2 DEF TypeInv, LineTypes
  <2>2. g.for \in Off'
    BY <1>2, <1>4, <2>1 DEF Frames, Off
  <2>3. Follows(i)
    BY <1>1, <1>2, <1>4 DEF Chain
  <2> QED
    BY <1>2, <2>1, <2>2, <2>3 DEF Follows, LatestFor, For, Tcp
<1>5. ASSUME NEW z \in Slot, tstate'[z].conn \in Conns
      PROVE  Expects(Len(line) + 1, z, tstate[z])'
  <2>1. Expects(Len(line) + 1, z, tstate[z])
    BY <1>1, <1>2, <1>5 DEF Chain, sender
  <2>2. z \in Off'
    BY <1>2 DEF Off
  <2> QED
    BY <1>2, <2>1, <2>2 DEF Expects, LatestFor, For, Tcp, sender
<1>6. Chain'
  BY <1>4, <1>5 DEF Chain
<1>7. Ring' /\ OneSlotEach'
  BY <1>1, <1>2 DEF Ring, OneSlotEach, sender
<1>8. SenderTypes' /\ StackTypes' /\ LineTypes'
  BY <1>1, <1>2, <1>3 DEF TypeInv, SenderTypes, StackTypes, LineTypes, sender
<1>9. ReceiverTypes'
  BY <1>2 DEF ReceiverTypes
<1> QED
  BY <1>3, <1>6, <1>7, <1>8, <1>9 DEF SlhcInv, TypeInv

\* New tables on both sides.
LEMMA InitInv == Init => SlhcInv
<1> SUFFICES ASSUME Init PROVE SlhcInv
  OBVIOUS
<1>1. /\ tstate = [z \in Slot |-> ZeroHeader] /\ next = SenderInit.next /\ lru = SenderInit.lru
      /\ xmit_oldest = 0 /\ xmit_current = NoSlot
  BY DEF Init, SenderInit
<1>2. /\ rstate = [s \in Slot |-> ZeroHeader] /\ initialized = {} /\ recv_current = NoSlot
      /\ toss = TRUE /\ adaptive \in BOOLEAN /\ line = << >> /\ hurt = {} /\ misled = {}
      /\ faults = 0
      /\ pos = [c \in Conns |-> 0] /\ done = [c \in Conns |-> TRUE]
  BY DEF Init
<1>3. \A z \in Slot : tstate[z].conn \notin Conns
  BY <1>1, SlhcAssumption DEF ZeroHeader
<1>4. Len(line) = 0 /\ 1 .. 0 = {} /\ 0 + 1 = 1 /\ 1 - 1 = 0
  BY <1>2
<1>5. SenderTypes
  <2>1. 0 \in Slot
    BY Numbers
  <2> QED
    BY <1>1, <2>1, FirstRing DEF SenderTypes
<1>6. ReceiverTypes
  BY <1>2 DEF ReceiverTypes
<1>7. LineTypes
  BY <1>2, <1>4, SlhcAssumption DEF LineTypes
<1>8. StackTypes
  <2>1. \A c \in Conns : Len(Stream[c]) \in Nat
    BY SlhcAssumption
  <2> QED
    BY <1>2, <2>1 DEF StackTypes
<1>9. Ring
  BY <1>1, FirstRing DEF Ring
<1>10. OneSlotEach /\ Chain
  BY <1>3, <1>4 DEF OneSlotEach, Chain
<1>11. Synced
  <2>1. Points(1, xmit_current)
    BY <1>1, <1>2, <1>4 DEF Points
  <2> QED
    BY <1>2, <1>3, <1>4, <2>1 DEF Synced
<1> QED
  BY <1>5, <1>6, <1>7, <1>8, <1>9, <1>10, <1>11 DEF SlhcInv, TypeInv

\* Every step keeps the invariant.
LEMMA StepInv == SlhcInv /\ [Next]_vars => SlhcInv'
<1> SUFFICES ASSUME SlhcInv, [Next]_vars PROVE SlhcInv'
  OBVIOUS
<1>1. TypeInv /\ Chain
  BY DEF SlhcInv
<1>2. ASSUME NEW c \in Conns, Send(c) \/ Retransmit(c) PROVE SlhcInv'
  BY <1>2, SendKeeps, RetransmitKeeps
<1>3. CASE SendPlain
  BY <1>3, SendPlainKeeps
<1>4. CASE Receive
  <2>1. Arrives
    BY <1>1, <1>4, PlainArrives, FullArrives, IgnoredArrives, RejectedArrives, CompressedArrives
       DEF Receive
  <2> QED
    BY <2>1, ArrivalKeeps
<1>5. CASE Lose \/ BadCheck
  <2>1. Arrives
    BY <1>1, <1>5, LossArrives, BadCheckArrives
  <2> QED
    BY <2>1, ArrivalKeeps
<1>6. ASSUME NEW s \in 0 .. Slots, Garble(s) PROVE SlhcInv'
  BY <1>6, GarbleKeeps
<1>7. CASE RestartSender \/ RestartReceiver
  BY <1>7, RestartSenderKeeps, RestartReceiverKeeps
<1>8. CASE UNCHANGED vars
  <2>1. UNCHANGED <<sender, receiver, line, pos, done, faults>>
    BY <1>8 DEF vars
  <2>2. SenderTypes' /\ ReceiverTypes' /\ LineTypes' /\ StackTypes'
    BY <1>1, <2>1 DEF TypeInv, SenderTypes, ReceiverTypes, LineTypes, StackTypes, sender, receiver
  <2>3. Ring' /\ OneSlotEach'
    BY <2>1 DEF SlhcInv, Ring, OneSlotEach, sender
  <2>4. Chain'
    BY <1>1, <2>1 DEF Chain, Follows, Expects, LatestFor, NoneFor, For, Tcp, Off, sender, receiver
  <2>5. Synced' = Synced
    BY <2>1 DEF Synced, SlotsRight, Filled, Points, LatestTcp, NoTcp, Tcp, sender, receiver
  <2> QED
    BY <2>1, <2>2, <2>3, <2>4, <2>5 DEF SlhcInv, TypeInv
<1> QED
  BY <1>2, <1>3, <1>4, <1>5, <1>6, <1>7, <1>8 DEF Next

\* The invariant holds in every reachable state.
LEMMA SlhcInvariance == Spec => []SlhcInv
BY InitInv, StepInv, PTL DEF Spec

(***************************************************************************)
(* The theorems.                                                           *)
(***************************************************************************)

\* Both tables and the line keep their types, and a frame without a slot number is only
\* applied to a slot with a header in it (slip/slhc.c).
THEOREM SlhcTypeCorrect == Spec => []TypeOK
<1>1. SlhcInv => TypeOK
  <2> SUFFICES ASSUME SlhcInv PROVE TypeOK
    OBVIOUS
  <2>1. SenderTypes /\ ReceiverTypes /\ LineTypes /\ StackTypes
    BY DEF SlhcInv, TypeInv
  <2>2. tstate \in [Slot -> Header \cup {ZeroHeader}]
    BY <2>1 DEF SenderTypes
  <2>3. \A c \in Conns : pos[c] \in 0 .. Len(Stream[c]) /\ done[c] \in BOOLEAN
    <3>1. \A c \in Conns : Len(Stream[c]) \in Nat
      BY SlhcAssumption
    <3>2. \A c \in Conns : pos[c] \in Nat /\ pos[c] <= Len(Stream[c]) /\ done[c] \in BOOLEAN
      BY <2>1 DEF StackTypes
    <3> QED
      BY <3>1, <3>2
  <2> QED
    BY <2>1, <2>2, <2>3 DEF TypeOK, SenderTypes, ReceiverTypes, LineTypes
<1> QED
  BY <1>1, SlhcInvariance, PTL

\* The search of slhc_compress goes through every slot once, the one used last first.
THEOREM SearchInOrderOfUse == Spec => []LruOrder
<1>1. SlhcInv => LruOrder
  BY OrderIsLru DEF SlhcInv, LruOrder
<1> QED
  BY <1>1, SlhcInvariance, PTL

\* A connection never has two transmit slots.
THEOREM NeverTwoSlots == Spec => []OneSlotEach
<1>1. SlhcInv => OneSlotEach
  BY DEF SlhcInv
<1> QED
  BY <1>1, SlhcInvariance, PTL

\* On a line without faults no frame goes to a slot it is not meant for, although most
\* frames leave the slot number out.
THEOREM EndsInStep == Spec => []InStep
<1>1. SlhcInv => InStep
  BY DEF SlhcInv, Synced, InStep
<1> QED
  BY <1>1, SlhcInvariance, PTL

\* Whatever the stack sends and whatever is lost, hit or restarted, a header is rebuilt as it
\* was sent, but on a slot that a fault has touched, or where a special case misleads, since
\* the slot's last uncompressed frame (slhc_compress, slhc_uncompress).
THEOREM RebuiltFaithfully == Spec => []Faithful
<1>1. SlhcInv => Faithful
  <2> SUFFICES ASSUME SlhcInv, Arriving, Frame.for \notin Off,
                      ~Misleads(rstate[Frame.for], Frame)
               PROVE  Rebuilt(rstate[Frame.for], Frame) = Frame.sent
    BY DEF Faithful, Off
  <2>1. TypeInv /\ Chain /\ line # << >> /\ Frame.kind = "compressed"
    BY DEF SlhcInv, Arriving
  <2>2. Frame = line[1]
    BY <2>1, FirstFrame
  <2>3. 1 \in 1 .. Len(line) /\ 1 .. 1 - 1 = {}
    BY <2>1, EmptySeq DEF TypeInv, LineTypes
  <2>4. Follows(1)
    BY <2>1, <2>2, <2>3 DEF Chain
  <2>5. NoneFor(1, Frame.for)
    BY <2>3 DEF NoneFor
  <2> QED
    BY <2>2, <2>4, <2>5 DEF Follows, Yields
<1> QED
  BY <1>1, SlhcInvariance, PTL

=============================================================================
