-------------------------------- MODULE Slhc --------------------------------
(***************************************************************************)
(* Van Jacobson header compression (slip/slhc.c) between two SLIP channels *)
(* in CSLIP mode: slhc_compress, called by sl_encaps, a line that loses    *)
(* frames or hits the byte that holds a slot number, and slhc_uncompress   *)
(* and slhc_remember, called by sl_bump.  Each side keeps a table of       *)
(* headers, one slot for each connection, and a compressed header holds    *)
(* only what differs from the header in its slot.                          *)
(***************************************************************************)
EXTENDS Integers, SequencesExt

CONSTANTS
  Conns,       \* TCP connections: addresses and ports
  Stream,      \* for each connection, the headers the stack sends
  Slots,       \* slots of each table: 16 in sl_alloc_bufs
  Short, Long, \* 16-bit and 32-bit fields count modulo these
  MaxOnLine, MaxFaults   \* bounds: frames on the line; faults, restarts of an end included

\* All that is not expected to change (version, header lengths, tos, DF, ttl, options) is
\* `fixed'; `len' is the amount of data, which is tot_len less the length of both headers.
Header ==
  [conn : Conns, fixed : Nat, seq : 0 .. Long - 1, ack : 0 .. Long - 1, win : 0 .. Short - 1,
   id : 0 .. Short - 1, urg : BOOLEAN, urp : 0 .. Short - 1, psh : BOOLEAN, len : 0 .. Short - 1]

\* Any header may follow any other.  No connection has the zero addresses and ports of a new
\* slot.
ASSUME SlhcAssumption ==
  /\ Slots \in 1 .. 255
  /\ Short \in Nat \ {0} /\ Long \in Nat /\ Long > Short
  /\ "none" \notin Conns
  /\ Stream \in [Conns -> Seq(Header)]
  /\ \A c \in Conns : \A i \in DOMAIN Stream[c] : Stream[c][i].conn = c
  /\ {MaxOnLine, MaxFaults} \subseteq Nat

Slot == 0 .. Slots - 1
NoSlot == 255        \* xmit_current and recv_current of a new table
ZeroHeader ==        \* what kzalloc leaves in a slot
  [conn |-> "none", fixed |-> 0, seq |-> 0, ack |-> 0, win |-> 0, id |-> 0, urg |-> FALSE,
   urp |-> 0, psh |-> FALSE, len |-> 0]

VARIABLES
  tstate, next, xmit_oldest, xmit_current,   \* transmit table, a circular list
  rstate, initialized, recv_current, toss,   \* receive table, SLF_TOSS
  adaptive,        \* the receiver is in SL_MODE_ADAPTIVE, not yet in SL_MODE_CSLIP
  line,            \* frames on the way
  pos, done,       \* for each connection, the header sent last, and whether it has arrived
  lru,             \* history: the transmit slots, the one used last in front
  hurt,            \* history: receive slots that may differ from what the sender thinks
  misled,          \* history: receive slots in which a special case has gone wrong since their
                   \* last uncompressed frame
  faults           \* counted against the bound

sender   == <<tstate, next, xmit_oldest, xmit_current, lru>>
receiver == <<rstate, initialized, recv_current, toss, adaptive, hurt, misled>>
vars     == <<sender, receiver, line, pos, done, faults>>

\* slhc_init for either side.
SenderInit ==
  [tstate |-> [s \in Slot |-> ZeroHeader],
   next |-> [s \in Slot |-> IF s = 0 THEN Slots - 1 ELSE s - 1],
   lru |-> [i \in 1 .. Slots |-> Slots - i]]

Init ==
  /\ tstate = SenderInit.tstate /\ next = SenderInit.next /\ lru = SenderInit.lru
  /\ xmit_oldest = 0 /\ xmit_current = NoSlot
  /\ rstate = [s \in Slot |-> ZeroHeader] /\ initialized = {}
  /\ recv_current = NoSlot /\ toss = TRUE /\ adaptive \in BOOLEAN
  /\ line = << >>
  /\ pos = [c \in Conns |-> 0] /\ done = [c \in Conns |-> TRUE]
  /\ hurt = {} /\ misled = {}
  /\ faults = 0

-----------------------------------------------------------------------------
(* The sender.                                                             *)

\* The slots in the order of the search, which ends at xmit_oldest.
Order == LET order[i \in 1 .. Slots] ==
               IF i = 1 THEN next[xmit_oldest] ELSE next[order[i - 1]]
         IN order

\* Where the search for a connection stops.
Matches(c) == {i \in 1 .. Slots : tstate[Order[i]].conn = c}
Stop(c) == IF Matches(c) = {} THEN Slots ELSE CHOOSE i \in Matches(c) : \A j \in Matches(c) : i <= j
Found(c) == Order[Stop(c)]
Before(c) == IF Stop(c) = 1 THEN xmit_oldest ELSE Order[Stop(c) - 1]

\* Mutation of Relink: the new head does not point to the old one.
RelinkDrops(c) ==
  [next EXCEPT ![Before(c)] = next[Found(c)], ![xmit_oldest] = Found(c)]

\* A slot in the middle of the list moves to its head.
Relink(c) ==
  [next EXCEPT ![Before(c)] = next[Found(c)], ![Found(c)] = next[xmit_oldest],
               ![xmit_oldest] = Found(c)]

\* The slot found, or the oldest one for a connection without a slot, becomes the newest.
Touch(c) ==
  /\ IF Stop(c) = 1
       THEN UNCHANGED <<next, xmit_oldest>>
       ELSE IF Found(c) = xmit_oldest
         THEN xmit_oldest' = Before(c) /\ UNCHANGED next
         ELSE next' = Relink(c) /\ UNCHANGED xmit_oldest
  /\ lru' = <<Found(c)>> \o RemoveAt(lru, CHOOSE i \in DOMAIN lru : lru[i] = Found(c))

SPECIAL_I == {"S", "W", "U"}        \* NEW_S|NEW_W|NEW_U: echoed terminal traffic
SPECIAL_D == {"S", "A", "W", "U"}   \* all four: unidirectional data

\* The fields that changed, and by how much.
Changes(h, old) ==
  (IF h.urg THEN {"U"} ELSE {}) \cup (IF h.win # old.win THEN {"W"} ELSE {})
    \cup (IF h.ack # old.ack THEN {"A"} ELSE {}) \cup (IF h.seq # old.seq THEN {"S"} ELSE {})
Delta(h, old) ==
  [U |-> h.urp, W |-> (h.win - old.win) % Short, A |-> (h.ack - old.ack) % Long,
   S |-> (h.seq - old.seq) % Long, I |-> (h.id - old.id) % Short]

\* Mutation of Repeats: an unchanged header is always compressed.
RepeatsNot(h, old) == FALSE

\* Nothing changed, and this is not data following an ack: probably a retransmission, to be
\* sent whole in case the other side missed the compressed version.
Repeats(h, old) == Changes(h, old) = {} /\ ~(h.len # old.len /\ old.len = 0)

\* Mutation of Ambiguous: real changes are sent under the code of a special case.
AmbiguousNot(h, old) == FALSE

\* Actual changes match one of the special case encodings.
Ambiguous(h, old) == Changes(h, old) \in {SPECIAL_I, SPECIAL_D}

Uncompressible(h, old) ==
  \/ h.fixed # old.fixed
  \/ ~h.urg /\ h.urp # old.urp
  \/ Delta(h, old).A >= Short \/ Delta(h, old).S >= Short
  \/ Repeats(h, old) \/ Ambiguous(h, old)

\* The change mask but for NEW_C and TCP_PUSH_BIT.
Mask(h, old) ==
  LET changes == Changes(h, old)
      delta == Delta(h, old)
  IN  (IF changes = {"S", "A"} /\ delta.S = delta.A /\ delta.S = old.len THEN SPECIAL_I
       ELSE IF changes = {"S"} /\ delta.S = old.len THEN SPECIAL_D
       ELSE changes) \cup (IF h.id - old.id # 1 THEN {"I"} ELSE {})

\* The slot number is sent when it is not that of the last frame.
Explicit(s) == xmit_current # s

\* A frame; `for' and `sent' are history: the slot the sender means and the whole header.
Plain == [kind |-> "ip"]
Full(h, s) == [kind |-> "full", slot |-> s, for |-> s, sent |-> h]
Compressed(h, old, s) ==
  [kind |-> "compressed", slot |-> IF Explicit(s) THEN s ELSE NoSlot, mask |-> Mask(h, old),
   delta |-> Delta(h, old), psh |-> h.psh, len |-> h.len, for |-> s, sent |-> h]

\* The header sent last.
Asked(c) == Stream[c][pos[c]]

\* slhc_compress for header h.
Compress(h) ==
  LET s == Found(h.conn)
      old == tstate[s]
  IN  /\ Touch(h.conn)
      /\ tstate' = [tstate EXCEPT ![s] = h]
      /\ xmit_current' = s
      /\ line' = Append(line, IF old.conn # h.conn \/ Uncompressible(h, old)
                                THEN Full(h, s) ELSE Compressed(h, old, s))

\* The stack sends the next header of a connection ...
Send(c) ==
  /\ Len(line) < MaxOnLine
  /\ pos[c] < Len(Stream[c]) /\ pos' = [pos EXCEPT ![c] = @ + 1]
  /\ Compress(Stream[c][pos'[c]])
  /\ done' = [done EXCEPT ![c] = FALSE]
  /\ UNCHANGED <<receiver, faults>>

\* ... or once more the one that has not arrived ...
Retransmit(c) ==
  /\ Len(line) < MaxOnLine /\ ~done[c]
  /\ Compress(Asked(c))
  /\ UNCHANGED <<receiver, pos, done, faults>>

\* ... or a packet that is not TCP, a fragment, or has SYN, FIN or RST set or ACK clear.
SendPlain ==
  /\ Len(line) < MaxOnLine
  /\ line' = Append(line, Plain)
  /\ UNCHANGED <<sender, receiver, pos, done, faults>>

-----------------------------------------------------------------------------
(* The receiver.                                                           *)

Frame == Head(line)

\* slhc_toss
Toss(f) ==
  /\ toss' = TRUE /\ hurt' = hurt \cup {f.for}
  /\ UNCHANGED <<rstate, initialized, recv_current, misled>>

\* The slot a compressed frame is applied to.
Lands(f) == IF f.slot = NoSlot THEN recv_current ELSE f.slot

\* Mutation of Usable: a slot that holds no header is accepted.
UsableInRange(s) == s \in Slot

\* The slot number is in range and the slot holds a header.
Usable(s) == s \in Slot /\ s \in initialized

AsSigned(n) == IF 2 * n < Short THEN n ELSE n - Short

\* The special cases advance by the amount of data in the last packet of the slot.
Advance(cs, mask) ==
  IF mask = SPECIAL_I THEN [cs EXCEPT !.ack = (@ + AsSigned(cs.len)) % Long,
                                      !.seq = (@ + AsSigned(cs.len)) % Long]
                      ELSE [cs EXCEPT !.seq = (@ + cs.len) % Long]

\* The other cases add what the frame holds for each bit of the mask.
Add(cs, f) ==
  LET by(x) == IF x \in f.mask THEN f.delta[x] ELSE 0 IN
  [cs EXCEPT !.urg = "U" \in f.mask,
             !.urp = IF "U" \in f.mask THEN f.delta.U ELSE @,
             !.win = (@ + by("W")) % Short,
             !.ack = (@ + by("A")) % Long,
             !.seq = (@ + by("S")) % Long]

\* slhc_uncompress: the header that a frame makes of the header in a slot.
Rebuilt(cs, f) ==
  LET mask == f.mask \ {"I"}
      tcp == IF mask \in {SPECIAL_I, SPECIAL_D} THEN Advance(cs, mask) ELSE Add(cs, f)
  IN  [tcp EXCEPT !.psh = f.psh, !.len = f.len,
                  !.id = (@ + (IF "I" \in f.mask THEN f.delta.I ELSE 1)) % Short]

\* Where the special cases do not rebuild the header that was sent: they keep the URG flag of
\* the slot, although a packet without URG may follow one with it whose pointer it repeats,
\* and SPECIAL_I reads the amount of data as a signed number.
Misleads(cs, f) ==
  LET mask == f.mask \ {"I"}
  IN  /\ mask \in {SPECIAL_I, SPECIAL_D}
      /\ cs.urg \/ (mask = SPECIAL_I /\ 2 * cs.len >= Short)

\* The stack gets a header, unless there is no memory for an skb.
HandUp(h) ==
  \/ done' = [c \in Conns |-> done[c] \/ h = Asked(c)] /\ UNCHANGED faults
  \/ faults < MaxFaults /\ faults' = faults + 1 /\ UNCHANGED done

\* A packet that is not compressed.
ReceivePlain ==
  /\ line # << >> /\ Frame.kind = "ip"
  /\ line' = Tail(line)
  /\ UNCHANGED <<sender, receiver, pos, done, faults>>

\* slhc_remember
ReceiveFull ==
  LET f == Frame IN
  /\ line # << >> /\ f.kind = "full"
  /\ line' = Tail(line) /\ adaptive' = FALSE
  /\ IF f.slot \notin Slot
       THEN Toss(f) /\ UNCHANGED <<done, faults>>
       ELSE /\ recv_current' = f.slot /\ toss' = FALSE
            /\ rstate' = [rstate EXCEPT ![f.slot] = f.sent]
            /\ initialized' = initialized \cup {f.slot}
            /\ hurt' = IF f.slot = f.for THEN hurt \ {f.for} ELSE hurt \cup {f.slot, f.for}
            /\ misled' = misled \ {f.slot}
            /\ HandUp(f.sent)
  /\ UNCHANGED <<sender, pos>>

\* slhc_remember when noise has hit the IP header.
BadCheck ==
  /\ line # << >> /\ Frame.kind = "full"
  /\ faults < MaxFaults /\ faults' = faults + 1
  /\ line' = Tail(line) /\ adaptive' = FALSE /\ Toss(Frame)
  /\ UNCHANGED <<sender, pos, done>>

\* sl_bump ignores a compressed packet when CSLIP is off.
IgnoreCompressed ==
  /\ line # << >> /\ Frame.kind = "compressed" /\ adaptive
  /\ line' = Tail(line) /\ hurt' = hurt \cup {Frame.for}
  /\ UNCHANGED <<sender, rstate, initialized, recv_current, toss, adaptive, misled, pos, done,
                 faults>>

\* slhc_uncompress when the slot number is bad, or left out and not to be trusted.
RejectCompressed ==
  /\ line # << >> /\ Frame.kind = "compressed" /\ ~adaptive
  /\ IF Frame.slot = NoSlot THEN toss ELSE ~Usable(Frame.slot)
  /\ line' = Tail(line) /\ Toss(Frame)
  /\ UNCHANGED <<sender, adaptive, pos, done, faults>>

\* Mutation of Current: an explicit slot number is not kept.
CurrentKept(f) == recv_current

\* An explicit slot number becomes the current one.
Current(f) == Lands(f)

\* slhc_uncompress otherwise.
ReceiveCompressed ==
  LET f == Frame
      s == Lands(f)
      h == Rebuilt(rstate[s], f)
  IN
  /\ line # << >> /\ f.kind = "compressed" /\ ~adaptive
  /\ IF f.slot = NoSlot THEN ~toss ELSE Usable(f.slot)
  /\ line' = Tail(line)
  /\ recv_current' = Current(f) /\ toss' = FALSE
  /\ rstate' = [rstate EXCEPT ![s] = h]
  /\ hurt' = IF s = f.for THEN hurt ELSE hurt \cup {s, f.for}
  /\ misled' = IF Misleads(rstate[s], f) THEN misled \cup {s} ELSE misled
  /\ HandUp(h)
  /\ UNCHANGED <<sender, initialized, adaptive, pos>>

-----------------------------------------------------------------------------
(* What goes wrong outside.                                                *)

\* A frame is lost: noise that slip_unesc noticed, or a full buffer.  Nothing calls slhc_toss.
Lose ==
  /\ line # << >> /\ Frame.kind # "ip"
  /\ faults < MaxFaults /\ faults' = faults + 1
  /\ line' = Tail(line) /\ hurt' = hurt \cup {Frame.for}
  /\ UNCHANGED <<sender, rstate, initialized, recv_current, toss, adaptive, misled, pos, done>>

\* Noise hits the slot number, which no checksum covers.
Garble(s) ==
  /\ line # << >> /\ Frame.kind # "ip" /\ Frame.slot # NoSlot
  /\ faults < MaxFaults /\ faults' = faults + 1
  /\ line' = [line EXCEPT ![1].slot = s]
  /\ UNCHANGED <<sender, receiver, pos, done>>

\* An end hangs up and is attached again: sl_alloc_bufs sets up new tables.
RestartSender ==
  /\ faults < MaxFaults /\ faults' = faults + 1
  /\ tstate' = SenderInit.tstate /\ next' = SenderInit.next /\ lru' = SenderInit.lru
  /\ xmit_oldest' = 0 /\ xmit_current' = NoSlot
  /\ UNCHANGED <<receiver, line, pos, done>>

RestartReceiver ==
  /\ faults < MaxFaults /\ faults' = faults + 1
  /\ rstate' = [s \in Slot |-> ZeroHeader] /\ initialized' = {}
  /\ recv_current' = NoSlot /\ toss' = TRUE /\ adaptive' \in BOOLEAN
  /\ hurt' = Slot /\ misled' = {}
  /\ UNCHANGED <<sender, line, pos, done>>

-----------------------------------------------------------------------------
Receive == ReceivePlain \/ ReceiveFull \/ IgnoreCompressed \/ RejectCompressed \/ ReceiveCompressed

Next ==
  \/ \E c \in Conns : Send(c) \/ Retransmit(c)
  \/ SendPlain
  \/ Receive
  \/ Lose \/ BadCheck \/ \E s \in 0 .. Slots : Garble(s)
  \/ RestartSender \/ RestartReceiver

Spec == Init /\ [][Next]_vars

\* Frames arrive.  TCP retransmits, and the queue in front of sl_xmit is served in turn.
Fairness == WF_vars(Receive) /\ \A c \in Conns : SF_vars(Retransmit(c))

FairSpec == Spec /\ Fairness

-----------------------------------------------------------------------------
(* Properties.                                                             *)

\* Every variable keeps its type; the receiver has a current slot, with a header in it,
\* whenever a frame without a slot number would be applied to it (255 is out of range).
TypeOK ==
  /\ tstate \in [Slot -> Header \cup {ZeroHeader}] /\ rstate \in [Slot -> Header \cup {ZeroHeader}]
  /\ next \in [Slot -> Slot] /\ xmit_oldest \in Slot /\ xmit_current \in Slot \cup {NoSlot}
  /\ initialized \subseteq Slot /\ hurt \subseteq Slot /\ misled \subseteq Slot
  /\ recv_current \in Slot \cup {NoSlot} /\ {toss, adaptive} \subseteq BOOLEAN
  /\ ~toss => recv_current \in initialized
  /\ \A c \in Conns : pos[c] \in 0 .. Len(Stream[c]) /\ done[c] \in BOOLEAN
  /\ Len(line) <= MaxOnLine

\* The circular list goes through every slot once, the one used last first: slhc_compress
\* takes the slot away from the connection that has been silent longest.
LruOrder == \A i \in 1 .. Slots : Order[i] = lru[i]

\* A connection has at most one transmit slot, or the copy further back would go stale.
OneSlotEach ==
  \A s, t \in Slot : tstate[s].conn = tstate[t].conn /\ tstate[s].conn \in Conns => s = t

\* Without faults the ends stay in step: no frame is applied to a slot it is not meant for,
\* although most frames do not say which, and none is rejected.
InStep == faults = 0 => hurt = {}

\* A frame that reaches its own slot.
Arriving ==
  /\ line # << >> /\ Frame.kind = "compressed" /\ ~toss
  /\ Lands(Frame) = Frame.for /\ Frame.for \in initialized

\* A header is rebuilt as it was sent, but on a slot that a fault has touched since its
\* last uncompressed frame (a lost frame, or one that went to another slot), and but for the
\* two things that the special cases get wrong, and what follows them in that slot.
Faithful ==
  Arriving /\ Frame.for \notin hurt \cup misled /\ ~Misleads(rstate[Frame.for], Frame)
    => Rebuilt(rstate[Frame.for], Frame) = Frame.sent

\* Whatever was lost, retransmissions end the disagreement, for they are sent whole `in case
\* the other side missed the compressed version'.  Not so for an urgent packet: URG alone
\* counts as a change, so that slhc_compress never takes one for a retransmission.
RecoversNotUrgent == \A c \in Conns : <>[](done[c] \/ Asked(c).urg)

=============================================================================
