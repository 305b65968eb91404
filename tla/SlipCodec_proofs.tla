--------------------------- MODULE SlipCodec_proofs ---------------------------
(***************************************************************************)
(* What slip_esc and slip_esc6 send, slip_unesc and slip_unesc6 take apart *)
(* again: proved for every packet and whatever noise has left in the       *)
(* receiver.  The loops of the four functions are recursive functions; a   *)
(* fact about all their steps is proved by looking at the first step that  *)
(* would break it.                                                         *)
(***************************************************************************)
EXTENDS SlipCodecCheck, SequenceTheorems, FiniteSetTheorems, WellFoundedInduction, TLAPS

-----------------------------------------------------------------------------
(* Loops.                                                                  *)

\* A set of natural numbers with a member has a least one.
LEMMA LeastMember ==
  ASSUME NEW T \in SUBSET Nat, T # {}
  PROVE  \E x \in T : \A y \in T : x <= y
<1>1. IsWellFoundedOn(OpToRel(<, Nat), Nat)
  BY NatLessThanWellFounded
<1>2. PICK x \in T : \A y \in T : ~(<<y, x>> \in OpToRel(<, Nat))
  BY <1>1, WFMin
<1>3. \A y \in T : ~(y < x)
  BY <1>2 DEF OpToRel
<1> QED
  BY <1>3

\* What is true at the start of a loop and kept by each of its n steps is true all along.
LEMMA Along ==
  ASSUME NEW n \in Nat, NEW H \in SUBSET (0 .. n),
         0 \in H,
         \A k \in 1 .. n : k - 1 \in H => k \in H
  PROVE  H = 0 .. n
<1> DEFINE Broken == (0 .. n) \ H
<1> SUFFICES ASSUME Broken # {} PROVE FALSE
  OBVIOUS
<1>1. PICK x \in Broken : \A y \in Broken : x <= y
  <2>1. Broken \in SUBSET Nat
    OBVIOUS
  <2> HIDE DEF Broken
  <2> QED
    BY <2>1, LeastMember
<1>2. x \in 1 .. n
  OBVIOUS
<1>3. x - 1 \in 0 .. n /\ ~(x <= x - 1)
  BY <1>2
<1>4. x - 1 \in H
  BY <1>1, <1>3
<1> QED
  BY <1>2, <1>4

\* A run of a loop of n steps from base, each given by the function step.
Looped(S, base, n, step, f) ==
  f \in [0 .. n -> S] /\ f[0] = base /\ \A k \in 1 .. n : f[k] = step[<<f[k - 1], k>>]

\* Every loop has one.
LEMMA Recursion ==
  ASSUME NEW S, NEW base \in S, NEW n \in Nat, NEW step \in [S \X (1 .. n) -> S]
  PROVE  \E f : Looped(S, base, n, step, f)
<1> DEFINE Runs(f, m) == f[0] = base /\ \A k \in 1 .. m : f[k] = step[<<f[k - 1], k>>]
           H == {m \in 0 .. n : \E f \in [0 .. m -> S] : Runs(f, m)}
<1>1. 0 \in H
  <2>1. PICK f : f = [k \in 0 .. 0 |-> base]
    OBVIOUS
  <2>2. f \in [0 .. 0 -> S] /\ f[0] = base
    BY <2>1
  <2>3. 0 \in 0 .. n /\ \A k \in 1 .. 0 : f[k] = step[<<f[k - 1], k>>]
    OBVIOUS
  <2> QED
    BY <2>2, <2>3
<1>2. ASSUME NEW m \in 1 .. n, m - 1 \in H
      PROVE  m \in H
  <2>1. PICK f \in [0 .. m - 1 -> S] : Runs(f, m - 1)
    BY <1>2
  <2>2. PICK s : s = step[<<f[m - 1], m>>]
    OBVIOUS
  <2>3. f[m - 1] \in S
    OBVIOUS
  <2>4. s \in S
    BY <2>2, <2>3
  <2>5. PICK g : g = [k \in 0 .. m |-> IF k = m THEN s ELSE f[k]]
    OBVIOUS
  <2>6. g \in [0 .. m -> S]
    BY <2>4, <2>5
  <2>7. \A k \in 0 .. m - 1 : g[k] = f[k]
    BY <2>5
  <2>8. g[m] = s
    BY <2>5
  <2>9. ASSUME NEW k \in 1 .. m PROVE g[k] = step[<<g[k - 1], k>>]
    <3>1. k - 1 \in 0 .. m - 1
      OBVIOUS
    <3>2. CASE k = m
      BY <2>2, <2>7, <2>8, <3>1, <3>2
    <3>3. CASE k # m
      <4>1. k \in 0 .. m - 1 /\ k \in 1 .. m - 1
        BY <3>3
      <4>2. g[k] = f[k] /\ g[k - 1] = f[k - 1]
        BY <2>7, <3>1, <4>1
      <4> QED
        BY <2>1, <4>1, <4>2
    <3> QED
      BY <3>2, <3>3
  <2>10. g[0] = base
    <3>1. 0 \in 0 .. m - 1
      OBVIOUS
    <3> QED
      BY <2>1, <2>7, <3>1
  <2>11. m \in 0 .. n
    OBVIOUS
  <2> QED
    BY <2>6, <2>9, <2>10, <2>11
<1>3. H = 0 .. n
  <2>1. H \in SUBSET (0 .. n)
    OBVIOUS
  <2> HIDE DEF H
  <2> QED
    BY <1>1, <1>2, <2>1, Along
<1>4. n \in H
  <2>1. n \in 0 .. n
    OBVIOUS
  <2> HIDE DEF H
  <2> QED
    BY <1>3, <2>1
<1> QED
  BY <1>4 DEF Looped

-----------------------------------------------------------------------------
(* The receiver, byte by byte.                                             *)

Decoder  == [esc : BOOLEAN, xbits : {0, 2, 4, 6}, xdata : Nat]
Receiver == [dec : Decoder, buf : Seq(Byte), up : Seq(Seq(Byte))]

\* The shifts of the printable code.
LEMMA Shifts ==
  ASSUME NEW x \in Nat
  PROVE  /\ Shr(x, 0) = x /\ Shr(x, 2) = x \div 4 /\ Shr(x, 4) = x \div 16
         /\ Shr(x, 6) = x \div 64 /\ Shl(x, 2) = 4 * x /\ Shl(x, 4) = 16 * x
<1>1. 2 ^ 0 = 1 /\ 2 ^ 2 = 4 /\ 2 ^ 4 = 16 /\ 2 ^ 6 = 64
  OBVIOUS
<1> QED
  BY <1>1 DEF Shr, Shl

\* The delimiters and escapes are bytes.
LEMMA Codes ==
  /\ END \in Byte /\ ESC \in Byte /\ ESC_END \in Byte /\ ESC_ESC \in Byte /\ END6 \in Byte
  /\ END = 192 /\ ESC = 219 /\ ESC_END = 220 /\ ESC_ESC = 221 /\ END6 = 112 /\ BASE6 = 48
BY DEF END, ESC, ESC_END, ESC_ESC, END6, BASE6, Byte

\* slip_unesc leaves a decoder behind, and what it stores is a byte.
LEMMA UnescType ==
  ASSUME NEW d \in Decoder, NEW s \in Byte
  PROVE  /\ Unesc(d, s).kind \in {"end", "data", "none"}
         /\ Unesc(d, s).byte \in Byte
         /\ Unesc(d, s).dec \in Decoder
<1>1. [d EXCEPT !.esc = FALSE] \in Decoder /\ [d EXCEPT !.esc = TRUE] \in Decoder
  BY DEF Decoder
<1> QED
  BY <1>1, Codes DEF Unesc

\* So does slip_unesc6.
LEMMA Unesc6Type ==
  ASSUME NEW d \in Decoder, NEW s \in Byte
  PROVE  /\ Unesc6(d, s).kind \in {"end", "data", "none"}
         /\ Unesc6(d, s).byte \in Byte
         /\ Unesc6(d, s).dec \in Decoder
<1>1. CASE s = END6 \/ s \notin BASE6 .. END6 - 1
  <2>1. [d EXCEPT !.xbits = 0, !.xdata = 0] \in Decoder
    BY DEF Decoder
  <2> QED
    BY <1>1, <2>1 DEF Unesc6
<1>2. CASE s # END6 /\ s \in BASE6 .. END6 - 1
  <2>1. PICK x : x = (d.xdata * 64 + (s - BASE6)) % XdataSize
    OBVIOUS
  <2>2. d.xdata \in Nat /\ s - BASE6 \in Nat /\ d.xbits \in {0, 2, 4, 6}
    BY <1>2, Codes DEF Decoder, Byte
  <2>3. PICK y \in Nat : y = d.xdata * 64 + (s - BASE6)
    BY <2>2
  <2>4. x \in Nat
    <3>1. y % (64 * 256) \in Nat
      BY SMT
    <3>2. x = y % (64 * 256)
      BY <2>1, <2>3, Zenon DEF XdataSize
    <3> QED
      BY <3>1, <3>2, Zenon
  <2>5. PICK b : b = d.xbits + 6
    OBVIOUS
  <2>6. Unesc6(d, s) = Unesc6Char(d, s, x, b)
    BY <1>2, <2>1, <2>5 DEF Unesc6
  <2>7. CASE b < 8
    <3>1. b = 6
      BY <2>2, <2>5, <2>7
    <3>2. [d EXCEPT !.xbits = b, !.xdata = x] \in Decoder
      BY <2>4, <3>1 DEF Decoder
    <3> QED
      BY <2>6, <2>7, <3>2 DEF Unesc6Char
  <2>8. CASE ~(b < 8)
    <3>1. PICK k : k = b - 8
      OBVIOUS
    <3>2. k \in {0, 2, 4}
      BY <2>2, <2>5, <2>8, <3>1
    <3>3. PICK q \in Nat : q = Shr(x, k)
      <4>1. (k = 0 => Shr(x, k) = x) /\ (k = 2 => Shr(x, k) = x \div 4)
            /\ (k = 4 => Shr(x, k) = x \div 16)
        BY <2>4, Shifts
      <4>2. x \div 4 \in Nat /\ x \div 16 \in Nat
        BY <2>4
      <4> QED
        BY <2>4, <3>2, <4>1, <4>2
    <3>4. q % 256 \in Byte
      BY DEF Byte
    <3>5. [d EXCEPT !.xbits = k, !.xdata = x] \in Decoder
      BY <2>4, <3>2 DEF Decoder
    <3>6. Unesc6Char(d, s, x, b) = [kind |-> "data", byte |-> q % 256,
                                    dec |-> [d EXCEPT !.xbits = k, !.xdata = x]]
      BY <2>8, <3>1, <3>3 DEF Unesc6Char
    <3> QED
      BY <2>6, <3>4, <3>5, <3>6
  <2> QED
    BY <2>7, <2>8
<1> QED
  BY <1>1, <1>2

\* A byte leaves a receiver behind.
LEMMA HearType ==
  ASSUME NEW six \in BOOLEAN, NEW r \in Receiver, NEW s \in Byte
  PROVE  Hear(six, r, s) \in Receiver
<1>1. r.dec \in Decoder /\ r.buf \in Seq(Byte) /\ r.up \in Seq(Seq(Byte))
  BY DEF Receiver
<1>2. PICK m : m = Decode(six, r.dec, s)
  OBVIOUS
<1>3. m.kind \in {"end", "data", "none"} /\ m.byte \in Byte /\ m.dec \in Decoder
  BY <1>1, <1>2, UnescType, Unesc6Type DEF Decode
<1>4. Append(r.buf, m.byte) \in Seq(Byte) /\ Append(r.up, r.buf) \in Seq(Seq(Byte))
      /\ << >> \in Seq(Byte)
  BY <1>1, <1>3
<1>5. CASE m.kind = "end"
  <2>1. Hear(six, r, s) = [dec |-> m.dec, buf |-> << >>,
                           up |-> IF Deliverable(r.buf) THEN Append(r.up, r.buf) ELSE r.up]
    BY <1>2, <1>5 DEF Hear
  <2> QED
    BY <1>1, <1>3, <1>4, <2>1 DEF Receiver
<1>6. CASE m.kind = "data"
  <2>1. Hear(six, r, s) = [r EXCEPT !.dec = m.dec, !.buf = Append(r.buf, m.byte)]
    BY <1>2, <1>6 DEF Hear
  <2> QED
    BY <1>1, <1>3, <1>4, <2>1 DEF Receiver
<1>7. CASE m.kind = "none"
  <2>1. Hear(six, r, s) = [r EXCEPT !.dec = m.dec]
    BY <1>2, <1>7 DEF Hear
  <2> QED
    BY <1>3, <2>1 DEF Receiver
<1> QED
  BY <1>3, <1>5, <1>6, <1>7

\* A byte that ends the frame, one that completes a byte of the packet, and any other.
LEMMA HeardEnd ==
  ASSUME NEW six, NEW r \in Receiver, NEW s, NEW c, NEW d,
         Decode(six, r.dec, s) = [kind |-> "end", byte |-> c, dec |-> d]
  PROVE  Hear(six, r, s) = [dec |-> d, buf |-> << >>,
                            up |-> IF Deliverable(r.buf) THEN Append(r.up, r.buf) ELSE r.up]
BY DEF Hear

\* A byte of data is added to what was heard.
LEMMA HeardData ==
  ASSUME NEW six, NEW r \in Receiver, NEW s, NEW c, NEW d,
         Decode(six, r.dec, s) = [kind |-> "data", byte |-> c, dec |-> d]
  PROVE  Hear(six, r, s) = [dec |-> d, buf |-> Append(r.buf, c), up |-> r.up]
<1>1. Hear(six, r, s) = [r EXCEPT !.dec = d, !.buf = Append(r.buf, c)]
  BY DEF Hear
<1> QED
  BY <1>1 DEF Receiver

\* A byte that completes nothing changes the decoder alone.
LEMMA HeardNone ==
  ASSUME NEW six, NEW r \in Receiver, NEW s, NEW c, NEW d,
         Decode(six, r.dec, s) = [kind |-> "none", byte |-> c, dec |-> d]
  PROVE  Hear(six, r, s) = [dec |-> d, buf |-> r.buf, up |-> r.up]
<1>1. Hear(six, r, s) = [r EXCEPT !.dec = d]
  BY DEF Hear
<1> QED
  BY <1>1 DEF Receiver

\* A new receiver is one.
LEMMA NewType == NewReceiver \in Receiver
BY DEF NewReceiver, NewDecoder, Receiver, Decoder

\* slip_receive_buf meets the bytes of a line one after the other.
LEMMA ReceptionRuns ==
  ASSUME NEW six \in BOOLEAN, NEW line \in Seq(Byte)
  PROVE  /\ Reception(six, line) \in [0 .. Len(line) -> Receiver]
         /\ Reception(six, line)[0] = NewReceiver
         /\ \A k \in 1 .. Len(line) :
              Reception(six, line)[k] = Hear(six, Reception(six, line)[k - 1], line[k])
<1>1. PICK n \in Nat : n = Len(line)
  OBVIOUS
<1>14. \A k \in 1 .. n : line[k] \in Byte
  BY <1>1
<1>2. PICK step : step = [x \in Receiver \X (1 .. n) |-> Hear(six, x[1], line[x[2]])]
  OBVIOUS
<1>3. step \in [Receiver \X (1 .. n) -> Receiver]
  BY <1>14, <1>2, HearType
<1>4. PICK f \in [0 .. n -> Receiver] :
        f[0] = NewReceiver /\ \A k \in 1 .. n : f[k] = step[<<f[k - 1], k>>]
  <2>1. PICK f : Looped(Receiver, NewReceiver, n, step, f)
    BY <1>3, NewType, Recursion
  <2> QED
    BY <2>1 DEF Looped
<1>5. \A k \in 1 .. n : f[k] = Hear(six, f[k - 1], line[k])
  <2> TAKE k \in 1 .. n
  <2>1. k - 1 \in 0 .. n
    BY <1>1
  <2>2. f[k - 1] \in Receiver
    BY <2>1
  <2>3. step[<<f[k - 1], k>>] = Hear(six, f[k - 1], line[k])
    BY <1>2, <2>2
  <2> QED
    BY <1>4, <2>3
<1>6. f = [k \in 0 .. n |-> IF k = 0 THEN NewReceiver ELSE Hear(six, f[k - 1], line[k])]
  <2>1. \A k \in 0 .. n : k = 0 \/ k \in 1 .. n
    BY <1>1
  <2>2. f = [k \in 0 .. n |-> f[k]]
    OBVIOUS
  <2> QED
    BY <1>4, <1>5, <2>1, <2>2
<1>7. PICK R : R = Reception(six, line)
  OBVIOUS
<1>8. R = [k \in 0 .. n |-> IF k = 0 THEN NewReceiver ELSE Hear(six, R[k - 1], line[k])]
  BY <1>1, <1>6, <1>7 DEF Reception
<1>9. DOMAIN R = 0 .. n /\ R[0] = NewReceiver
  BY <1>1, <1>8
<1>10. \A k \in 1 .. n : R[k] = Hear(six, R[k - 1], line[k])
  <2> TAKE k \in 1 .. n
  <2>1. k \in 0 .. n /\ k # 0
    BY <1>1
  <2> QED
    BY <1>8, <2>1
<1>11. {k \in 0 .. n : R[k] \in Receiver} = 0 .. n
  <2> DEFINE H == {k \in 0 .. n : R[k] \in Receiver}
  <2>1. 0 \in H
    BY <1>1, <1>9, NewType
  <2>2. ASSUME NEW k \in 1 .. n, k - 1 \in H PROVE k \in H
    <3>1. R[k - 1] \in Receiver /\ line[k] \in Byte /\ k \in 0 .. n
      BY <1>14, <2>2
    <3> QED
      BY <1>10, <3>1, HearType
  <2>3. H \in SUBSET (0 .. n)
    OBVIOUS
  <2> HIDE DEF H
  <2>4. H = 0 .. n
    BY <1>1, <2>1, <2>2, <2>3, Along
  <2> QED
    BY <2>4 DEF H
<1>12. R \in [0 .. n -> Receiver]
  <2>1. \A k \in 0 .. n : R[k] \in Receiver
    BY <1>11
  <2>2. R = [k \in 0 .. n |-> R[k]]
    BY <1>8, <1>9
  <2> QED
    BY <2>1, <2>2
<1> QED
  BY <1>1, <1>7, <1>9, <1>10, <1>12

\* The receiver a line leaves behind.
Final(six, line) == Reception(six, line)[Len(line)]

\* Before the first byte, and with one byte more.
LEMMA FinalSteps ==
  ASSUME NEW six \in BOOLEAN, NEW line \in Seq(Byte)
  PROVE  /\ Final(six, line) \in Receiver
         /\ Final(six, << >>) = NewReceiver
         /\ \A c \in Byte : Final(six, Append(line, c)) = Hear(six, Final(six, line), c)
<1>1. Len(line) \in Nat /\ Len(line) \in 0 .. Len(line)
  OBVIOUS
<1>2. Final(six, line) \in Receiver
  BY <1>1, ReceptionRuns DEF Final
<1>3. Final(six, << >>) = NewReceiver
  <2>1. << >> \in Seq(Byte) /\ Len(<< >>) = 0
    OBVIOUS
  <2> QED
    BY <2>1, ReceptionRuns DEF Final
<1>4. ASSUME NEW c \in Byte
      PROVE  Final(six, Append(line, c)) = Hear(six, Final(six, line), c)
  <2>1. PICK more : more = Append(line, c)
    OBVIOUS
  <2>2. more \in Seq(Byte) /\ Len(more) = Len(line) + 1 /\ more[Len(line) + 1] = c
    BY <2>1
  <2>3. \A k \in 1 .. Len(line) : more[k] = line[k]
    BY <2>1
  <2>4. PICK n : n = Len(line)
    OBVIOUS
  <2>5. PICK R : R = Reception(six, line)
    OBVIOUS
  <2>6. PICK Q : Q = Reception(six, more)
    OBVIOUS
  <2>7. R[0] = NewReceiver /\ \A k \in 1 .. n : R[k] = Hear(six, R[k - 1], line[k])
    BY <2>4, <2>5, ReceptionRuns
  <2>8. Q[0] = NewReceiver /\ \A k \in 1 .. n + 1 : Q[k] = Hear(six, Q[k - 1], more[k])
    BY <2>2, <2>4, <2>6, ReceptionRuns
  <2>9. {k \in 0 .. n : Q[k] = R[k]} = 0 .. n
    <3> DEFINE H == {k \in 0 .. n : Q[k] = R[k]}
    <3>1. 0 \in H
      BY <1>1, <2>4, <2>7, <2>8
    <3>2. ASSUME NEW k \in 1 .. n, k - 1 \in H PROVE k \in H
      <4>1. k \in 1 .. n + 1 /\ k \in 0 .. n
        BY <1>1, <2>4
      <4>2. Q[k - 1] = R[k - 1] /\ more[k] = line[k]
        BY <2>3, <2>4, <3>2
      <4> QED
        BY <2>7, <2>8, <4>1, <4>2
    <3>3. H \in SUBSET (0 .. n) /\ n \in Nat
      BY <1>1, <2>4
    <3> HIDE DEF H
    <3>4. H = 0 .. n
      BY <3>1, <3>2, <3>3, Along
    <3> QED
      BY <3>4 DEF H
  <2>10. n \in 0 .. n /\ n + 1 \in 1 .. n + 1 /\ (n + 1) - 1 = n
    BY <1>1, <2>4
  <2>11. Q[n] = R[n] /\ Q[n + 1] = Hear(six, Q[n], more[n + 1])
    BY <2>8, <2>9, <2>10
  <2> QED
    BY <2>1, <2>2, <2>4, <2>5, <2>6, <2>11 DEF Final
<1> QED
  BY <1>2, <1>3, <1>4

\* One byte, or two, at the end of a sequence.
LEMMA Endings ==
  ASSUME NEW l \in Seq(Byte), NEW a \in Byte, NEW b \in Byte
  PROVE  /\ Append(l, a) \in Seq(Byte)
         /\ l \o <<a>> = Append(l, a)
         /\ l \o <<a, b>> = Append(Append(l, a), b)
<1>1. Append(l, a) \in Seq(Byte) /\ Append(Append(l, a), b) \in Seq(Byte)
  OBVIOUS
<1>2. l \o <<a>> = Append(l, a)
  OBVIOUS
<1>3. l \o <<a, b>> = Append(Append(l, a), b)
  OBVIOUS
<1> QED
  BY <1>1, <1>2, <1>3

-----------------------------------------------------------------------------
(* slip_esc and slip_unesc.                                                *)

\* What is sent for a byte: itself, or an escape and a code.
LEMMA StuffedCases ==
  ASSUME NEW c \in Byte
  PROVE  /\ Stuffed(c) \in Seq(Byte)
         /\ c = END => Stuffed(c) = <<ESC, ESC_END>>
         /\ c = ESC => Stuffed(c) = <<ESC, ESC_ESC>>
         /\ c \notin {END, ESC} => Stuffed(c) = <<c>>
         /\ Len(Stuffed(c)) = IF c \in {END, ESC} THEN 2 ELSE 1
<1>1. c = END => Stuffed(c) = <<ESC, ESC_END>>
  BY DEF Stuffed
<1>2. c = ESC => Stuffed(c) = <<ESC, ESC_ESC>>
  BY Codes DEF Stuffed
<1>3. c \notin {END, ESC} => Stuffed(c) = <<c>>
  BY DEF Stuffed
<1>4. /\ <<ESC, ESC_END>> \in Seq(Byte) /\ <<ESC, ESC_ESC>> \in Seq(Byte) /\ <<c>> \in Seq(Byte)
      /\ Len(<<ESC, ESC_END>>) = 2 /\ Len(<<ESC, ESC_ESC>>) = 2 /\ Len(<<c>>) = 1
  BY Codes
<1> QED
  BY <1>1, <1>2, <1>3, <1>4

\* The loop of slip_esc.
LEMMA EscRuns ==
  ASSUME NEW p \in Seq(Byte)
  PROVE  /\ EscLoop(p) \in [0 .. Len(p) -> Seq(Byte)]
         /\ EscLoop(p)[0] = <<END>>
         /\ \A k \in 1 .. Len(p) : EscLoop(p)[k] = EscLoop(p)[k - 1] \o Stuffed(p[k])
<1>1. PICK n \in Nat : n = Len(p)
  OBVIOUS
<1>2. \A k \in 1 .. n : Stuffed(p[k]) \in Seq(Byte)
  <2>1. \A k \in 1 .. n : p[k] \in Byte
    BY <1>1
  <2> QED
    BY <2>1, StuffedCases
<1>3. PICK step : step = [x \in Seq(Byte) \X (1 .. n) |-> x[1] \o Stuffed(p[x[2]])]
  OBVIOUS
<1>4. step \in [Seq(Byte) \X (1 .. n) -> Seq(Byte)]
  <2>1. \A s, t \in Seq(Byte) : s \o t \in Seq(Byte)
    OBVIOUS
  <2>2. \A x \in Seq(Byte) \X (1 .. n) : x[1] \in Seq(Byte) /\ x[2] \in 1 .. n
    OBVIOUS
  <2>3. \A x \in Seq(Byte) \X (1 .. n) : x[1] \o Stuffed(p[x[2]]) \in Seq(Byte)
    BY <1>2, <2>1, <2>2
  <2> QED
    BY <1>3, <2>3
<1>5. <<END>> \in Seq(Byte)
  BY Codes
<1>6. PICK f \in [0 .. n -> Seq(Byte)] :
        f[0] = <<END>> /\ \A k \in 1 .. n : f[k] = step[<<f[k - 1], k>>]
  <2>1. PICK f : Looped(Seq(Byte), <<END>>, n, step, f)
    BY <1>4, <1>5, Recursion
  <2> QED
    BY <2>1 DEF Looped
<1>7. \A k \in 1 .. n : f[k] = f[k - 1] \o Stuffed(p[k])
  <2> TAKE k \in 1 .. n
  <2>1. k - 1 \in 0 .. n
    BY <1>1
  <2>2. f[k - 1] \in Seq(Byte)
    BY <2>1
  <2>3. step[<<f[k - 1], k>>] = f[k - 1] \o Stuffed(p[k])
    BY <1>3, <2>2
  <2> QED
    BY <1>6, <2>3
<1>8. f = [k \in 0 .. n |-> IF k = 0 THEN <<END>> ELSE f[k - 1] \o Stuffed(p[k])]
  <2>1. \A k \in 0 .. n : k = 0 \/ k \in 1 .. n
    BY <1>1
  <2>2. f = [k \in 0 .. n |-> f[k]]
    OBVIOUS
  <2> QED
    BY <1>6, <1>7, <2>1, <2>2
<1>9. PICK R : R = EscLoop(p)
  OBVIOUS
<1>10. R = [k \in 0 .. n |-> IF k = 0 THEN <<END>> ELSE R[k - 1] \o Stuffed(p[k])]
  BY <1>1, <1>8, <1>9 DEF EscLoop
<1>11. DOMAIN R = 0 .. n /\ R[0] = <<END>>
  BY <1>1, <1>10
<1>12. \A k \in 1 .. n : R[k] = R[k - 1] \o Stuffed(p[k])
  <2> TAKE k \in 1 .. n
  <2>1. k \in 0 .. n /\ k # 0
    BY <1>1
  <2> QED
    BY <1>10, <2>1
<1>13. {k \in 0 .. n : R[k] \in Seq(Byte)} = 0 .. n
  <2> DEFINE H == {k \in 0 .. n : R[k] \in Seq(Byte)}
  <2>1. 0 \in H
    <3>1. 0 \in 0 .. n
      BY <1>1
    <3>2. R[0] \in Seq(Byte)
      BY <1>5, <1>11
    <3> QED
      BY <3>1, <3>2
  <2>2. ASSUME NEW k \in 1 .. n, k - 1 \in H PROVE k \in H
    <3>1. R[k - 1] \in Seq(Byte) /\ Stuffed(p[k]) \in Seq(Byte) /\ k \in 0 .. n
      BY <1>1, <1>2, <2>2
    <3>2. R[k - 1] \o Stuffed(p[k]) \in Seq(Byte)
      BY <3>1
    <3> QED
      BY <1>12, <3>1, <3>2
  <2>3. H \in SUBSET (0 .. n)
    OBVIOUS
  <2> HIDE DEF H
  <2>4. H = 0 .. n
    BY <1>1, <2>1, <2>2, <2>3, Along
  <2> QED
    BY <2>4 DEF H
<1>14. R \in [0 .. n -> Seq(Byte)]
  <2>1. \A k \in 0 .. n : R[k] \in Seq(Byte)
    BY <1>13
  <2>2. R = [k \in 0 .. n |-> R[k]]
    BY <1>10, <1>11
  <2> QED
    BY <2>1, <2>2
<1> QED
  BY <1>1, <1>9, <1>11, <1>12, <1>14

\* A receiver that is not in the middle of an escape takes what is sent for a byte for that
\* byte, and is not in the middle of an escape afterwards.
LEMMA StuffedHeard ==
  ASSUME NEW six \in BOOLEAN, ~six, NEW line \in Seq(Byte), NEW c \in Byte,
         Final(six, line).dec.esc = FALSE
  PROVE  Final(six, line \o Stuffed(c)) =
           [dec |-> Final(six, line).dec, buf |-> Append(Final(six, line).buf, c),
            up |-> Final(six, line).up]
<1>1. PICK r \in Receiver : r = Final(six, line)
  BY FinalSteps
<1> SUFFICES Final(six, line \o Stuffed(c)) =
               [dec |-> r.dec, buf |-> Append(r.buf, c), up |-> r.up]
  BY <1>1
<1>2. r.dec \in Decoder /\ r.dec = [r.dec EXCEPT !.esc = FALSE]
  BY <1>1 DEF Receiver, Decoder
<1>10. r.dec.esc = FALSE
  BY <1>1
<1>3. PICK e : e = [r.dec EXCEPT !.esc = TRUE]
  OBVIOUS
<1>4. e \in Decoder /\ e.esc = TRUE /\ [e EXCEPT !.esc = FALSE] = r.dec
  BY <1>2, <1>3 DEF Decoder
<1>5. \A l \in Seq(Byte), s \in Byte : Final(six, Append(l, s)) = Hear(six, Final(six, l), s)
  BY FinalSteps
<1>6. CASE c \notin {END, ESC}
  <2>1. line \o Stuffed(c) = Append(line, c)
    BY <1>6, StuffedCases, Endings
  <2>2. Decode(six, r.dec, c) = [kind |-> "data", byte |-> c, dec |-> r.dec]
    BY <1>10, <1>6 DEF Decode, Unesc
  <2>3. Hear(six, r, c) = [dec |-> r.dec, buf |-> Append(r.buf, c), up |-> r.up]
    BY <1>1, <2>2, HeardData
  <2> QED
    BY <1>1, <1>5, <2>1, <2>3
<1>7. ASSUME NEW code \in Byte, Stuffed(c) = <<ESC, code>>,
             Unesc(e, code) = [kind |-> "data", byte |-> c, dec |-> r.dec]
      PROVE  Final(six, line \o Stuffed(c)) =
               [dec |-> r.dec, buf |-> Append(r.buf, c), up |-> r.up]
  <2>1. ESC \in Byte
    BY Codes
  <2>2. Append(line, ESC) \in Seq(Byte)
        /\ line \o Stuffed(c) = Append(Append(line, ESC), code)
    BY <1>7, <2>1, Endings
  <2>3. PICK h : h = [dec |-> e, buf |-> r.buf, up |-> r.up]
    OBVIOUS
  <2>4. Decode(six, r.dec, ESC) = [kind |-> "none", byte |-> ESC, dec |-> e]
    BY <1>3, Codes DEF Decode, Unesc
  <2>5. Hear(six, r, ESC) = h
    BY <1>1, <2>3, <2>4, HeardNone
  <2>6. Final(six, Append(line, ESC)) = h
    BY <1>1, <1>5, <2>1, <2>5
  <2>7. Final(six, line \o Stuffed(c)) = Hear(six, h, code)
    BY <1>5, <2>2, <2>6
  <2>8. h \in Receiver
    BY <1>1, <1>4, <2>3 DEF Receiver
  <2>9. Decode(six, h.dec, code) = [kind |-> "data", byte |-> c, dec |-> r.dec]
    BY <1>7, <2>3 DEF Decode
  <2>10. Hear(six, h, code) = [dec |-> r.dec, buf |-> Append(h.buf, c), up |-> h.up]
    BY <2>8, <2>9, HeardData
  <2> QED
    BY <2>3, <2>7, <2>10
<1>8. CASE c = END
  <2>1. Stuffed(c) = <<ESC, ESC_END>>
    BY <1>8, StuffedCases
  <2>2. Unesc(e, ESC_END) = [kind |-> "data", byte |-> END, dec |-> [e EXCEPT !.esc = FALSE]]
    BY <1>4 DEF Unesc, END, ESC, ESC_END, ESC_ESC
  <2>3. Unesc(e, ESC_END) = [kind |-> "data", byte |-> c, dec |-> r.dec]
    BY <1>4, <1>8, <2>2
  <2>4. ESC_END \in Byte
    BY Codes
  <2> QED
    BY <1>7, <2>1, <2>3, <2>4
<1>9. CASE c = ESC
  <2>1. Stuffed(c) = <<ESC, ESC_ESC>>
    BY <1>9, StuffedCases
  <2>2. Unesc(e, ESC_ESC) = [kind |-> "data", byte |-> ESC, dec |-> [e EXCEPT !.esc = FALSE]]
    BY <1>4 DEF Unesc, END, ESC, ESC_END, ESC_ESC
  <2>3. Unesc(e, ESC_ESC) = [kind |-> "data", byte |-> c, dec |-> r.dec]
    BY <1>4, <1>9, <2>2
  <2>4. ESC_ESC \in Byte
    BY Codes
  <2> QED
    BY <1>7, <2>1, <2>3, <2>4
<1> QED
  BY <1>6, <1>8, <1>9

\* An END ends the frame, whatever the decoder had in hand.
LEMMA EndHeard ==
  ASSUME NEW six \in BOOLEAN, ~six, NEW r \in Receiver
  PROVE  Hear(six, r, END) =
           [dec |-> [r.dec EXCEPT !.esc = FALSE], buf |-> << >>,
            up |-> IF Deliverable(r.buf) THEN Append(r.up, r.buf) ELSE r.up]
<1>1. Decode(six, r.dec, END) =
        [kind |-> "end", byte |-> END, dec |-> [r.dec EXCEPT !.esc = FALSE]]
  BY DEF Decode, Unesc
<1> QED
  BY <1>1, HeardEnd

\* Beginnings of a packet.
LEMMA Beginnings ==
  ASSUME NEW p \in Seq(Byte)
  PROVE  /\ SubSeq(p, 1, 0) = << >>
         /\ SubSeq(p, 1, Len(p)) = p
         /\ \A k \in 1 .. Len(p) : /\ SubSeq(p, 1, k) \in Seq(Byte)
                                   /\ SubSeq(p, 1, k) = Append(SubSeq(p, 1, k - 1), p[k])
<1>1. SubSeq(p, 1, 0) = << >> /\ SubSeq(p, 1, Len(p)) = p
  OBVIOUS
<1>2. ASSUME NEW k \in 1 .. Len(p)
      PROVE  /\ SubSeq(p, 1, k) \in Seq(Byte)
             /\ SubSeq(p, 1, k) = Append(SubSeq(p, 1, k - 1), p[k])
  OBVIOUS
<1> QED
  BY <1>1, <1>2

\* What slip_esc writes for a packet, a receiver takes for that packet: it starts afresh at
\* the leading END, has the packet in its buffer before the last one, and hands it up then.
LEMMA EscHeard ==
  ASSUME NEW six \in BOOLEAN, ~six, NEW g \in Seq(Byte), NEW p \in Seq(Byte),
         NEW t, t = Hear(six, Final(six, g), END)
  PROVE  Received(six, g \o Esc(p)) = IF Deliverable(p) THEN Append(t.up, p) ELSE t.up
<1>1. PICK n \in Nat : n = Len(p)
  OBVIOUS
<1>2. PICK out : out = EscLoop(p)
  OBVIOUS
<1>3. out \in [0 .. n -> Seq(Byte)] /\ out[0] = <<END>>
      /\ \A k \in 1 .. n : out[k] = out[k - 1] \o Stuffed(p[k])
  BY <1>1, <1>2, EscRuns
<1>4. \A k \in 1 .. n : p[k] \in Byte /\ k \in 1 .. Len(p)
  BY <1>1
<1>5. END \in Byte /\ <<END>> \in Seq(Byte)
  BY Codes
<1>6. \A l \in Seq(Byte), s \in Byte : Final(six, Append(l, s)) = Hear(six, Final(six, l), s)
  BY FinalSteps
<1>7. t.dec.esc = FALSE /\ t = [dec |-> t.dec, buf |-> << >>, up |-> t.up]
  <2>1. PICK s : s = Final(six, g)
    OBVIOUS
  <2>2. s \in Receiver
    BY <2>1, FinalSteps
  <2>3. t = [dec |-> [s.dec EXCEPT !.esc = FALSE], buf |-> << >>,
             up |-> IF Deliverable(s.buf) THEN Append(s.up, s.buf) ELSE s.up]
    BY <2>1, <2>2, EndHeard
  <2>4. PICK d : d = [s.dec EXCEPT !.esc = FALSE]
    OBVIOUS
  <2>5. d.esc = FALSE
    BY <2>2, <2>4 DEF Receiver, Decoder
  <2>6. PICK u : u = IF Deliverable(s.buf) THEN Append(s.up, s.buf) ELSE s.up
    OBVIOUS
  <2>7. t = [dec |-> d, buf |-> << >>, up |-> u]
    BY <2>3, <2>4, <2>6
  <2>8. t.dec = d /\ t.up = u
    BY <2>7
  <2> QED
    BY <2>5, <2>7, <2>8
<1> DEFINE At(k) == [dec |-> t.dec, buf |-> SubSeq(p, 1, k), up |-> t.up]
           H == {k \in 0 .. n : Final(six, g \o out[k]) = At(k)}
<1>8. 0 \in H
  <2>1. g \o <<END>> = Append(g, END)
    BY <1>5, Endings
  <2>2. Final(six, Append(g, END)) = t
    BY <1>5, <1>6
  <2>3. Final(six, g \o out[0]) = t
    BY <1>3, <2>1, <2>2
  <2>4. At(0) = t
    BY <1>7, Beginnings
  <2>5. 0 \in 0 .. n
    OBVIOUS
  <2> HIDE DEF At
  <2> QED
    BY <2>3, <2>4, <2>5
<1>9. ASSUME NEW k \in 1 .. n, k - 1 \in H PROVE k \in H
  <2>1. k - 1 \in 0 .. n /\ k \in 0 .. n /\ k \in 1 .. Len(p) /\ p[k] \in Byte
    BY <1>4
  <2>2. PICK a : a = out[k - 1]
    OBVIOUS
  <2>3. PICK b : b = Stuffed(p[k])
    OBVIOUS
  <2>4. PICK l : l = g \o a
    OBVIOUS
  <2>5. a \in Seq(Byte) /\ b \in Seq(Byte)
    BY <1>3, <2>1, <2>2, <2>3, StuffedCases
  <2>6. l \in Seq(Byte)
    BY <2>4, <2>5
  <2>7. PICK r : r = Final(six, l)
    OBVIOUS
  <2>8. r = At(k - 1)
    BY <1>9, <2>2, <2>4, <2>7
  <2>9. g \o out[k] = l \o b
    <3>1. (g \o a) \o b = g \o (a \o b)
      BY <2>5, ConcatAssociative
    <3>2. out[k] = a \o b
      BY <1>3, <2>2, <2>3
    <3> QED
      BY <2>4, <3>1, <3>2
  <2>10. r.dec = t.dec /\ r.buf = SubSeq(p, 1, k - 1) /\ r.up = t.up
    BY <2>8
  <2>11. r.dec.esc = FALSE
    BY <1>7, <2>10
  <2>12. Final(six, l \o b) = [dec |-> r.dec, buf |-> Append(r.buf, p[k]), up |-> r.up]
    <3>1. Final(six, l).dec.esc = FALSE
      BY <2>7, <2>11
    <3>2. Final(six, l \o Stuffed(p[k])) =
            [dec |-> Final(six, l).dec, buf |-> Append(Final(six, l).buf, p[k]),
             up |-> Final(six, l).up]
      BY <2>1, <2>6, <3>1, StuffedHeard
    <3> QED
      BY <2>3, <2>7, <3>2
  <2>13. Append(r.buf, p[k]) = SubSeq(p, 1, k)
    BY <2>1, <2>10, Beginnings
  <2>14. Final(six, g \o out[k]) = At(k)
    BY <2>9, <2>10, <2>12, <2>13
  <2> HIDE DEF At
  <2> QED
    BY <2>1, <2>14
<1>10. H = 0 .. n
  <2>1. H \in SUBSET (0 .. n)
    OBVIOUS
  <2> HIDE DEF H
  <2> QED
    BY <1>8, <1>9, <2>1, Along
<1>11. PICK a : a = out[n]
  OBVIOUS
<1>12. a \in Seq(Byte)
  <2>1. n \in 0 .. n
    OBVIOUS
  <2> QED
    BY <1>3, <1>11, <2>1
<1>13. PICK l : l = g \o a
  OBVIOUS
<1>14. l \in Seq(Byte)
  BY <1>12, <1>13
<1>15. PICK r : r = Final(six, l)
  OBVIOUS
<1>16. r \in Receiver /\ r.buf = p /\ r.up = t.up
  <2>1. n \in 0 .. n
    OBVIOUS
  <2>2. Final(six, g \o out[n]) = At(n)
    BY <1>10, <2>1
  <2>3. r = At(n)
    BY <1>11, <1>13, <1>15, <2>2
  <2>4. r \in Receiver
    BY <1>14, <1>15, FinalSteps
  <2>5. SubSeq(p, 1, n) = p
    BY <1>1, Beginnings
  <2> QED
    BY <2>3, <2>4, <2>5
<1>17. g \o Esc(p) = Append(l, END)
  <2>1. (g \o a) \o <<END>> = g \o (a \o <<END>>)
    BY <1>5, <1>12, ConcatAssociative
  <2>2. l \o <<END>> = Append(l, END)
    BY <1>5, <1>14, Endings
  <2>3. Esc(p) = a \o <<END>>
    BY <1>1, <1>2, <1>11 DEF Esc
  <2> QED
    BY <1>13, <2>1, <2>2, <2>3
<1>18. PICK q : q = Hear(six, r, END)
  OBVIOUS
<1>19. Final(six, g \o Esc(p)) = q
  BY <1>5, <1>6, <1>14, <1>15, <1>17, <1>18
<1>20. q.up = IF Deliverable(p) THEN Append(t.up, p) ELSE t.up
  <2>1. q = [dec |-> [r.dec EXCEPT !.esc = FALSE], buf |-> << >>,
             up |-> IF Deliverable(r.buf) THEN Append(r.up, r.buf) ELSE r.up]
    BY <1>16, <1>18, EndHeard
  <2> QED
    BY <1>16, <2>1
<1> QED
  BY <1>19, <1>20 DEF Received, Final

-----------------------------------------------------------------------------
(* slip_esc6 and slip_unesc6.                                              *)

\* A number is its quotient and its remainder.
LEMMA By4 ==
  ASSUME NEW x \in Nat
  PROVE  \E q \in Nat, r \in 0 .. 3 : q = x \div 4 /\ r = x % 4 /\ x = 4 * q + r
<1>1. x \div 4 \in Nat /\ x % 4 \in 0 .. 3
  BY SMT
<1>2. x = 4 * (x \div 4) + (x % 4)
  BY SMT
<1> QED
  BY <1>1, <1>2, SMT

\* A number in parts of 4 bits,
LEMMA By16 ==
  ASSUME NEW x \in Nat
  PROVE  \E q \in Nat, r \in 0 .. 15 : q = x \div 16 /\ r = x % 16 /\ x = 16 * q + r
<1>1. x \div 16 \in Nat /\ x % 16 \in 0 .. 15
  BY SMT
<1>2. x = 16 * (x \div 16) + (x % 16)
  BY SMT
<1> QED
  BY <1>1, <1>2, SMT

\* in parts of 6 bits,
LEMMA By64 ==
  ASSUME NEW x \in Nat
  PROVE  \E q \in Nat, r \in 0 .. 63 : q = x \div 64 /\ r = x % 64 /\ x = 64 * q + r
<1>1. x \div 64 \in Nat /\ x % 64 \in 0 .. 63
  BY SMT
<1>2. x = 64 * (x \div 64) + (x % 64)
  BY SMT
<1> QED
  BY <1>1, <1>2, SMT

\* So it is with the numbers of values of v and xdata.
LEMMA ByShort ==
  ASSUME NEW x \in Nat
  PROVE  \E q \in Nat, r \in Nat : r = x % ShortSize /\ x = 256 * (256 * q) + r
<1>1. x \div (256 * 256) \in Nat /\ x % (256 * 256) \in Nat
  BY SMT
<1>2. x = 256 * (256 * (x \div (256 * 256))) + (x % (256 * 256))
  BY SMT
<1> QED
  BY <1>1, <1>2, SMT DEF ShortSize

\* and as xdata keeps it.
LEMMA ByXdata ==
  ASSUME NEW x \in Nat
  PROVE  \E q \in Nat, r \in Nat : r = x % XdataSize /\ x = 64 * (256 * q) + r
<1>1. x \div (64 * 256) \in Nat /\ x % (64 * 256) \in Nat
  BY SMT
<1>2. x = 64 * (256 * (x \div (64 * 256))) + (x % (64 * 256))
  BY SMT
<1> QED
  BY <1>1, <1>2, SMT DEF XdataSize

\* Nothing else is.
LEMMA Parted ==
  ASSUME NEW q \in Nat, NEW r \in Nat
  PROVE  /\ r < 4 => (4 * q + r) \div 4 = q /\ (4 * q + r) % 4 = r
         /\ r < 16 => (16 * q + r) \div 16 = q /\ (16 * q + r) % 16 = r
         /\ r < 64 => (64 * q + r) \div 64 = q /\ (64 * q + r) % 64 = r
         /\ r < 256 => (256 * q + r) % 256 = r
<1>1. r < 4 => (4 * q + r) \div 4 = q /\ (4 * q + r) % 4 = r
  OBVIOUS
<1>2. r < 16 => (16 * q + r) \div 16 = q /\ (16 * q + r) % 16 = r
  OBVIOUS
<1>3. r < 64 => (64 * q + r) \div 64 = q /\ (64 * q + r) % 64 = r
  OBVIOUS
<1>4. r < 256 => (256 * q + r) % 256 = r
  OBVIOUS
<1> QED
  BY <1>1, <1>2, <1>3, <1>4

\* The unsigned short v of slip_esc6 with a byte shifted in: what is left of the old v agrees
\* with it in the low bits.
LEMMA ShiftedIn ==
  ASSUME NEW v \in Nat, NEW c \in Byte, NEW w, w = (v * 256 + c) % ShortSize
  PROVE  w \in Nat /\ \E h \in Nat : w = 256 * h + c /\ h % 4 = v % 4 /\ h % 16 = v % 16
<1>1. c \in 0 .. 255 /\ v \in Nat
  BY DEF Byte
<1>2. PICK y \in Nat : y = v * 256 + c
  BY <1>1, SMT
<1>3. PICK q \in Nat, r \in Nat : r = y % ShortSize /\ y = 256 * (256 * q) + r
  BY ByShort, SMT
<1>4. w = r
  BY <1>2, <1>3, SMT
<1>5. PICK h \in Int : h = v - 256 * q
  BY <1>1, SMT
<1>6. w = 256 * h + c
  BY <1>1, <1>2, <1>3, <1>4, <1>5, SMT
<1>7. h \in Nat
  BY <1>1, <1>3, <1>4, <1>6, SMT
<1>8. h % 4 = v % 4
  <2>1. PICK m \in Nat, a \in 0 .. 3 : a = v % 4 /\ v = 4 * m + a
    BY <1>1, By4, SMT
  <2>2. PICK k \in Int : k = m - 64 * q
    BY SMT
  <2>3. h = 4 * k + a
    BY <1>5, <2>1, <2>2, SMT
  <2>4. k \in Nat
    BY <1>7, <2>1, <2>2, <2>3, SMT
  <2> QED
    BY <2>1, <2>3, <2>4, Parted, SMT
<1>9. h % 16 = v % 16
  <2>1. PICK m \in Nat, a \in 0 .. 15 : a = v % 16 /\ v = 16 * m + a
    BY <1>1, By16, SMT
  <2>2. PICK k \in Int : k = m - 16 * q
    BY SMT
  <2>3. h = 16 * k + a
    BY <1>5, <2>1, <2>2, SMT
  <2>4. k \in Nat
    BY <1>7, <2>1, <2>2, <2>3, SMT
  <2> QED
    BY <2>1, <2>3, <2>4, Parted, SMT
<1> QED
  BY <1>3, <1>4, <1>6, <1>7, <1>8, <1>9, SMT

\* v with a byte shifted in.
NextShort(v, c) == (v * 256 + c) % ShortSize

\* The bits slip_esc6 takes out of v, with none, two or four bits left from earlier bytes.
LEMMA TakenOut ==
  ASSUME NEW v \in Nat, NEW c \in Byte
  PROVE  /\ NextShort(v, c) \in Nat
         /\ (NextShort(v, c) \div 4) % 64 = c \div 4
         /\ NextShort(v, c) % 4 = c % 4
         /\ (NextShort(v, c) \div 16) % 64 = 16 * (v % 4) + (c \div 16)
         /\ NextShort(v, c) % 16 = c % 16
         /\ (NextShort(v, c) \div 64) % 64 = 4 * (v % 16) + (c \div 64)
         /\ NextShort(v, c) % 64 = c % 64
<1>7. PICK w : w = NextShort(v, c)
  OBVIOUS
<1>8. w = (v * 256 + c) % ShortSize
  BY <1>7 DEF NextShort
<1>1. PICK h \in Nat : w = 256 * h + c /\ h % 4 = v % 4 /\ h % 16 = v % 16
  BY <1>8, ShiftedIn, SMT
<1>2. w \in Nat
  BY <1>8, ShiftedIn, SMT
<1>3. c \in Nat /\ c < 256
  BY SMT DEF Byte
<1>4. (w \div 4) % 64 = c \div 4 /\ w % 4 = c % 4
  <2>1. PICK q \in Nat, r \in 0 .. 3 : q = c \div 4 /\ r = c % 4 /\ c = 4 * q + r
    BY <1>3, By4, SMT
  <2>2. PICK k \in Nat : k = 64 * h + q
    BY SMT
  <2>3. w = 4 * k + r /\ q < 64
    BY <1>1, <1>3, <2>1, <2>2, SMT
  <2>4. w \div 4 = k /\ w % 4 = r /\ k % 64 = q
    BY <2>2, <2>3, Parted, SMT
  <2> QED
    BY <2>1, <2>4, SMT
<1>5. (w \div 16) % 64 = 16 * (v % 4) + (c \div 16) /\ w % 16 = c % 16
  <2>1. PICK q \in Nat, r \in 0 .. 15 : q = c \div 16 /\ r = c % 16 /\ c = 16 * q + r
    BY <1>3, By16, SMT
  <2>2. PICK m \in Nat, a \in 0 .. 3 : a = h % 4 /\ h = 4 * m + a
    BY By4, SMT
  <2>3. PICK l \in Nat : l = 16 * a + q
    BY SMT
  <2>4. PICK k \in Nat : k = 64 * m + l
    BY SMT
  <2>5. w = 16 * k + r /\ l < 64
    BY <1>1, <1>3, <2>1, <2>2, <2>3, <2>4, SMT
  <2>6. w \div 16 = k /\ w % 16 = r /\ k % 64 = l
    BY <2>4, <2>5, Parted, SMT
  <2>7. (w \div 16) % 64 = l /\ w % 16 = c % 16
    BY <2>1, <2>6, Zenon
  <2>8. l = 16 * (v % 4) + (c \div 16)
    BY <1>1, <2>1, <2>2, <2>3, Zenon
  <2> QED
    BY <2>7, <2>8, Zenon
<1>6. (w \div 64) % 64 = 4 * (v % 16) + (c \div 64) /\ w % 64 = c % 64
  <2>1. PICK q \in Nat, r \in 0 .. 63 : q = c \div 64 /\ r = c % 64 /\ c = 64 * q + r
    BY <1>3, By64, SMT
  <2>2. PICK m \in Nat, a \in 0 .. 15 : a = h % 16 /\ h = 16 * m + a
    BY By16, SMT
  <2>3. PICK l \in Nat : l = 4 * a + q
    BY SMT
  <2>4. PICK k \in Nat : k = 64 * m + l
    BY SMT
  <2>5. w = 64 * k + r /\ l < 64
    BY <1>1, <1>3, <2>1, <2>2, <2>3, <2>4, SMT
  <2>6. w \div 64 = k /\ w % 64 = r /\ k % 64 = l
    BY <2>4, <2>5, Parted, SMT
  <2>7. (w \div 64) % 64 = l /\ w % 64 = c % 64
    BY <2>1, <2>6, Zenon
  <2>8. l = 4 * (v % 16) + (c \div 64)
    BY <1>1, <2>1, <2>2, <2>3, Zenon
  <2> QED
    BY <2>7, <2>8, Zenon
<1> QED
  BY <1>2, <1>4, <1>5, <1>6, <1>7, Zenon

\* xdata with the six bits of a character shifted in.
NextXdata(X, z) == (X * 64 + z) % XdataSize

\* The bits slip_unesc6 takes out of x, with six, four or two bits left from earlier
\* characters in X.
Joined(x, X, z) ==
  /\ x \in Nat /\ x % 64 = z
  /\ (x \div 16) % 256 = 4 * (X % 64) + (z \div 16)
  /\ x % 16 = z % 16
  /\ (x \div 4) % 256 = 16 * (X % 16) + (z \div 4)
  /\ x % 4 = z % 4
  /\ x % 256 = 64 * (X % 4) + z

\* They make a byte with what the character brings.
LEMMA PutTogether ==
  ASSUME NEW X \in Nat, NEW z \in 0 .. 63
  PROVE  Joined(NextXdata(X, z), X, z)
<1>11. PICK x : x = NextXdata(X, z)
  OBVIOUS
<1>12. x = (X * 64 + z) % XdataSize
  BY <1>11 DEF NextXdata
<1>1. PICK y \in Nat : y = X * 64 + z
  BY SMT
<1>2. PICK q \in Nat, r \in Nat : r = y % XdataSize /\ y = 64 * (256 * q) + r
  BY ByXdata, SMT
<1>3. x = r /\ x \in Nat
  BY <1>1, <1>2, <1>12, SMT
<1>4. PICK h \in Int : h = X - 256 * q
  BY SMT
<1>5. x = 64 * h + z
  BY <1>1, <1>2, <1>3, <1>4, SMT
<1>6. h \in Nat
  BY <1>2, <1>3, <1>5, SMT
<1>7. x % 64 = z
  BY <1>5, <1>6, Parted, SMT
<1>8. (x \div 16) % 256 = 4 * (X % 64) + (z \div 16) /\ x % 16 = z % 16
  <2>1. PICK k \in Nat, a \in 0 .. 63 : a = X % 64 /\ X = 64 * k + a
    BY By64, SMT
  <2>2. PICK s \in Nat, e \in 0 .. 15 : s = z \div 16 /\ e = z % 16 /\ z = 16 * s + e
    BY By16, SMT
  <2>3. PICK m \in Int : m = k - 4 * q
    BY SMT
  <2>4. h = 64 * m + a
    BY <1>4, <2>1, <2>3, SMT
  <2>5. m \in Nat
    BY <1>6, <2>1, <2>3, <2>4, SMT
  <2>6. PICK l \in Nat : l = 4 * a + s
    BY SMT
  <2>7. PICK n \in Nat : n = 256 * m + l
    BY <2>5, SMT
  <2>8. x = 16 * n + e /\ l < 256
    BY <1>5, <2>1, <2>2, <2>4, <2>6, <2>7, SMT
  <2>9. x \div 16 = n /\ x % 16 = e /\ n % 256 = l
    BY <2>5, <2>7, <2>8, Parted, SMT
  <2> QED
    BY <2>1, <2>2, <2>6, <2>9, SMT
<1>9. (x \div 4) % 256 = 16 * (X % 16) + (z \div 4) /\ x % 4 = z % 4
  <2>1. PICK k \in Nat, a \in 0 .. 15 : a = X % 16 /\ X = 16 * k + a
    BY By16, SMT
  <2>2. PICK s \in Nat, e \in 0 .. 3 : s = z \div 4 /\ e = z % 4 /\ z = 4 * s + e
    BY By4, SMT
  <2>3. PICK m \in Int : m = k - 16 * q
    BY SMT
  <2>4. h = 16 * m + a
    BY <1>4, <2>1, <2>3, SMT
  <2>5. m \in Nat
    BY <1>6, <2>1, <2>3, <2>4, SMT
  <2>6. PICK l \in Nat : l = 16 * a + s
    BY SMT
  <2>7. PICK n \in Nat : n = 256 * m + l
    BY <2>5, SMT
  <2>8. x = 4 * n + e /\ l < 256
    BY <1>5, <2>1, <2>2, <2>4, <2>6, <2>7, SMT
  <2>9. x \div 4 = n /\ x % 4 = e /\ n % 256 = l
    BY <2>5, <2>7, <2>8, Parted, SMT
  <2> QED
    BY <2>1, <2>2, <2>6, <2>9, SMT
<1>10. x % 256 = 64 * (X % 4) + z
  <2>1. PICK k \in Nat, a \in 0 .. 3 : a = X % 4 /\ X = 4 * k + a
    BY By4, SMT
  <2>2. PICK m \in Int : m = k - 64 * q
    BY SMT
  <2>3. h = 4 * m + a
    BY <1>4, <2>1, <2>2, SMT
  <2>4. m \in Nat
    BY <1>6, <2>1, <2>2, <2>3, SMT
  <2>5. PICK l \in Nat : l = 64 * a + z
    BY SMT
  <2>6. x = 256 * m + l /\ l < 256
    BY <1>5, <2>1, <2>3, <2>5, SMT
  <2>7. x % 256 = l
    BY <2>4, <2>6, Parted, SMT
  <2> QED
    BY <2>1, <2>5, <2>7, SMT
<1>13. Joined(x, X, z)
  BY <1>3, <1>7, <1>8, <1>9, <1>10 DEF Joined
<1> QED
  BY <1>11, <1>13, Zenon

\* Receiver r becomes t: it has b bits, and gives up a byte once there are eight of them.
Took(t, r, x, b) ==
  /\ b < 8 => t.dec.xbits = b /\ t.dec.xdata = x /\ t.buf = r.buf /\ t.up = r.up
  /\ ~(b < 8) => /\ t.dec.xbits = b - 8 /\ t.dec.xdata = x
                 /\ t.buf = Append(r.buf, Shr(x, b - 8) % 256) /\ t.up = r.up

\* What a character does to a receiver.
LEMMA CharStep ==
  ASSUME NEW six \in BOOLEAN, NEW r \in Receiver, NEW s, NEW x, NEW b,
         Decode(six, r.dec, s) = Unesc6Char(r.dec, s, x, b)
  PROVE  Took(Hear(six, r, s), r, x, b)
<1>1. PICK t : t = Hear(six, r, s)
  OBVIOUS
<1>2. PICK d : d = r.dec
  OBVIOUS
<1>3. d \in Decoder
  BY <1>2 DEF Receiver
<1>4. ASSUME b < 8
      PROVE  t.dec.xbits = b /\ t.dec.xdata = x /\ t.buf = r.buf /\ t.up = r.up
  <2>1. PICK e : e = [d EXCEPT !.xbits = b, !.xdata = x]
    OBVIOUS
  <2>2. Decode(six, r.dec, s) = [kind |-> "none", byte |-> s, dec |-> e]
    BY <1>2, <1>4, <2>1 DEF Unesc6Char
  <2>3. t = [dec |-> e, buf |-> r.buf, up |-> r.up]
    BY <1>1, <2>2, HeardNone
  <2>4. e.xbits = b /\ e.xdata = x
    BY <1>3, <2>1 DEF Decoder
  <2> QED
    BY <2>3, <2>4
<1>5. ASSUME ~(b < 8), NEW k, k = b - 8, NEW c, c = Shr(x, k) % 256
      PROVE  t.dec.xbits = k /\ t.dec.xdata = x /\ t.buf = Append(r.buf, c) /\ t.up = r.up
  <2>1. PICK e : e = [d EXCEPT !.xbits = k, !.xdata = x]
    OBVIOUS
  <2>2. Decode(six, r.dec, s) = [kind |-> "data", byte |-> c, dec |-> e]
    BY <1>2, <1>5, <2>1 DEF Unesc6Char
  <2>3. t = [dec |-> e, buf |-> Append(r.buf, c), up |-> r.up]
    BY <1>1, <2>2, HeardData
  <2>4. e.xbits = k /\ e.xdata = x
    BY <1>3, <2>1 DEF Decoder
  <2> QED
    BY <2>3, <2>4
<1>6. Took(t, r, x, b)
  BY <1>4, <1>5, Zenon DEF Took
<1> QED
  BY <1>1, <1>6, Zenon

\* A character of the printable code, z its six bits, makes receiver r into t, which keeps
\* them or makes a byte of them and those it has.
Took6(t, r, z) ==
  /\ t.up = r.up
  /\ r.dec.xbits = 0 => /\ t.dec.xbits = 6 /\ t.dec.xdata % 64 = z
                        /\ t.buf = r.buf
  /\ r.dec.xbits = 6 => /\ t.dec.xbits = 4 /\ t.dec.xdata % 16 = z % 16
                        /\ t.buf = Append(r.buf, 4 * (r.dec.xdata % 64) + (z \div 16))
  /\ r.dec.xbits = 4 => /\ t.dec.xbits = 2 /\ t.dec.xdata % 4 = z % 4
                        /\ t.buf = Append(r.buf, 16 * (r.dec.xdata % 16) + (z \div 4))
  /\ r.dec.xbits = 2 => /\ t.dec.xbits = 0
                        /\ t.buf = Append(r.buf, 64 * (r.dec.xdata % 4) + z)

\* So every character does.
LEMMA CharHeard ==
  ASSUME NEW six \in BOOLEAN, six, NEW r \in Receiver, NEW z \in 0 .. 63,
         NEW s, s = BASE6 + z
  PROVE  s \in Byte /\ Took6(Hear(six, r, s), r, z)
<1>1. s \in Byte /\ s # END6 /\ s \in BASE6 .. END6 - 1 /\ s - BASE6 = z
  BY Codes DEF Byte
<1>2. r.dec \in Decoder
  BY DEF Receiver
<1>3. PICK X \in Nat : X = r.dec.xdata
  BY <1>2 DEF Decoder
<1>4. PICK n \in {0, 2, 4, 6} : n = r.dec.xbits
  BY <1>2 DEF Decoder
<1>5. PICK x : x = NextXdata(X, z)
  OBVIOUS
<1>6. PICK b : b = n + 6
  OBVIOUS
<1>7. Decode(six, r.dec, s) = Unesc6Char(r.dec, s, x, b)
  <2>1. x = (r.dec.xdata * 64 + (s - BASE6)) % XdataSize
    BY <1>1, <1>3, <1>5 DEF NextXdata
  <2>2. b = r.dec.xbits + 6
    BY <1>4, <1>6
  <2>3. Decode(six, r.dec, s) = Unesc6(r.dec, s)
    BY DEF Decode
  <2>4. Unesc6(r.dec, s) =
          Unesc6Char(r.dec, s, (r.dec.xdata * 64 + (s - BASE6)) % XdataSize, r.dec.xbits + 6)
    BY <1>1 DEF Unesc6
  <2> QED
    BY <2>1, <2>2, <2>3, <2>4
<1>16. Joined(x, X, z)
  BY <1>3, <1>5, PutTogether, Zenon
<1>8. /\ x \in Nat /\ x % 64 = z
      /\ (x \div 16) % 256 = 4 * (X % 64) + (z \div 16)
      /\ x % 16 = z % 16
      /\ (x \div 4) % 256 = 16 * (X % 16) + (z \div 4)
      /\ x % 4 = z % 4
      /\ x % 256 = 64 * (X % 4) + z
  BY <1>16 DEF Joined
<1>9. PICK t : t = Hear(six, r, s)
  OBVIOUS
<1>10. /\ b < 8 => t.dec.xbits = b /\ t.dec.xdata = x /\ t.buf = r.buf /\ t.up = r.up
       /\ ~(b < 8) => /\ t.dec.xbits = b - 8 /\ t.dec.xdata = x
                      /\ t.buf = Append(r.buf, Shr(x, b - 8) % 256) /\ t.up = r.up
  <2>1. Took(Hear(six, r, s), r, x, b)
    BY <1>7, CharStep, Zenon
  <2> QED
    BY <1>9, <2>1, Zenon DEF Took
<1>11. t.up = r.up
  BY <1>10, Zenon
<1>12. ASSUME n = 0
       PROVE  t.dec.xbits = 6 /\ t.dec.xdata % 64 = z /\ t.buf = r.buf
  <2>1. b < 8 /\ b = 6
    BY <1>6, <1>12
  <2>2. x % 64 = z
    BY <1>8, Zenon
  <2> QED
    BY <1>10, <2>1, <2>2, Zenon
<1>13. ASSUME n = 6
       PROVE  /\ t.dec.xbits = 4 /\ t.dec.xdata % 16 = z % 16
              /\ t.buf = Append(r.buf, 4 * (X % 64) + (z \div 16))
  <2>1. ~(b < 8) /\ b - 8 = 4
    BY <1>6, <1>13
  <2>2. Shr(x, 4) = x \div 16
    BY <1>8, Shifts
  <2>3. (x \div 16) % 256 = 4 * (X % 64) + (z \div 16) /\ x % 16 = z % 16
    BY <1>8, Zenon
  <2> QED
    BY <1>10, <2>1, <2>2, <2>3, Zenon
<1>14. ASSUME n = 4
       PROVE  /\ t.dec.xbits = 2 /\ t.dec.xdata % 4 = z % 4
              /\ t.buf = Append(r.buf, 16 * (X % 16) + (z \div 4))
  <2>1. ~(b < 8) /\ b - 8 = 2
    BY <1>6, <1>14
  <2>2. Shr(x, 2) = x \div 4
    BY <1>8, Shifts
  <2>3. (x \div 4) % 256 = 16 * (X % 16) + (z \div 4) /\ x % 4 = z % 4
    BY <1>8, Zenon
  <2> QED
    BY <1>10, <2>1, <2>2, <2>3, Zenon
<1>15. ASSUME n = 2
       PROVE  t.dec.xbits = 0 /\ t.buf = Append(r.buf, 64 * (X % 4) + z)
  <2>1. ~(b < 8) /\ b - 8 = 0
    BY <1>6, <1>15
  <2>2. Shr(x, 0) = x
    BY <1>8, Shifts
  <2>3. x % 256 = 64 * (X % 4) + z
    BY <1>8, Zenon
  <2> QED
    BY <1>10, <2>1, <2>2, <2>3, Zenon
<1>17. Took6(t, r, z)
  BY <1>3, <1>4, <1>11, <1>12, <1>13, <1>14, <1>15, Zenon DEF Took6
<1> QED
  BY <1>1, <1>9, <1>17, Zenon

\* The accumulator of slip_esc6: v, the bits of it not sent yet, and what is sent.
Accumulator == [v : Nat, bits : {0, 2, 4}, out : Seq(Byte)]

\* The character for the j-th six of the bits of v.
Sextet(v, bits, j) == BASE6 + (Shr(v, bits - 6 * j) % 64)

\* What slip_esc6 makes of accumulator a and a byte c: t.
Spelt(t, a, c) ==
  /\ t = [v |-> t.v, bits |-> t.bits, out |-> t.out]
  /\ t.v \in Nat /\ t.v % 4 = c % 4 /\ t.v % 16 = c % 16
  /\ a.bits = 0 => t.bits = 2 /\ t.out = Append(a.out, BASE6 + (c \div 4))
  /\ a.bits = 2 => /\ t.bits = 4
                   /\ t.out = Append(a.out, BASE6 + (16 * (a.v % 4) + (c \div 16)))
  /\ a.bits = 4 => /\ t.bits = 0
                   /\ t.out = Append(Append(a.out, BASE6 + (4 * (a.v % 16) + (c \div 64))),
                                     BASE6 + (c % 64))

\* One character is written for the byte, or two.
LEMMA SextetsSpell ==
  ASSUME NEW a \in Accumulator, NEW c \in Byte
  PROVE  Spelt(Sextets(a, c), a, c)
<1>1. PICK v : v = NextShort(a.v, c)
  OBVIOUS
<1>2. PICK b : b = a.bits + 8
  OBVIOUS
<1>3. PICK o : o = [j \in 1 .. b \div 6 |-> Sextet(v, b, j)]
  OBVIOUS
<1>4. PICK t : t = Sextets(a, c)
  OBVIOUS
<1>5. t = [v |-> v, bits |-> b % 6, out |-> a.out \o o]
  BY <1>1, <1>2, <1>3, <1>4 DEF Sextets, NextShort, Sextet
<1>6. a.v \in Nat /\ a.bits \in {0, 2, 4} /\ a.out \in Seq(Byte)
  BY DEF Accumulator
<1>7. /\ v \in Nat
      /\ (v \div 4) % 64 = c \div 4 /\ v % 4 = c % 4
      /\ (v \div 16) % 64 = 16 * (a.v % 4) + (c \div 16) /\ v % 16 = c % 16
      /\ (v \div 64) % 64 = 4 * (a.v % 16) + (c \div 64) /\ v % 64 = c % 64
  BY <1>1, <1>6, TakenOut
<1>8. Shr(v, 2) = v \div 4 /\ Shr(v, 4) = v \div 16 /\ Shr(v, 6) = v \div 64 /\ Shr(v, 0) = v
  BY <1>7, Shifts
<1>9. t = [v |-> t.v, bits |-> t.bits, out |-> t.out] /\ t.v = v /\ t.bits = b % 6
      /\ t.out = a.out \o o
  BY <1>5
<1>10. \A x : a.out \o <<x>> = Append(a.out, x)
  BY <1>6
<1>11. \A x, y : a.out \o <<x, y>> = Append(Append(a.out, x), y)
  BY <1>6
<1>12. ASSUME a.bits = 0
       PROVE  t.bits = 2 /\ t.out = Append(a.out, BASE6 + (c \div 4))
  <2>1. b = 8 /\ b % 6 = 2 /\ b \div 6 = 1 /\ 8 - 6 * 1 = 2
    BY <1>2, <1>12
  <2>2. o = <<Sextet(v, b, 1)>>
    BY <1>3, <2>1
  <2>3. Sextet(v, b, 1) = BASE6 + (c \div 4)
    BY <1>7, <1>8, <2>1 DEF Sextet
  <2> QED
    BY <1>9, <1>10, <2>1, <2>2, <2>3, Zenon
<1>13. ASSUME a.bits = 2
       PROVE  t.bits = 4 /\ t.out = Append(a.out, BASE6 + (16 * (a.v % 4) + (c \div 16)))
  <2>1. b = 10 /\ b % 6 = 4 /\ b \div 6 = 1 /\ 10 - 6 * 1 = 4
    BY <1>2, <1>13
  <2>2. o = <<Sextet(v, b, 1)>>
    BY <1>3, <2>1
  <2>3. Sextet(v, b, 1) = BASE6 + (16 * (a.v % 4) + (c \div 16))
    BY <1>7, <1>8, <2>1 DEF Sextet
  <2> QED
    BY <1>9, <1>10, <2>1, <2>2, <2>3, Zenon
<1>14. ASSUME a.bits = 4
       PROVE  /\ t.bits = 0
              /\ t.out = Append(Append(a.out, BASE6 + (4 * (a.v % 16) + (c \div 64))),
                                BASE6 + (c % 64))
  <2>1. b = 12 /\ b % 6 = 0 /\ b \div 6 = 2 /\ 12 - 6 * 1 = 6 /\ 12 - 6 * 2 = 0
    BY <1>2, <1>14
  <2>2. o = <<Sextet(v, b, 1), Sextet(v, b, 2)>>
    BY <1>3, <2>1
  <2>3. Sextet(v, b, 1) = BASE6 + (4 * (a.v % 16) + (c \div 64))
    BY <1>7, <1>8, <2>1 DEF Sextet
  <2>4. Sextet(v, b, 2) = BASE6 + (c % 64)
    BY <1>7, <1>8, <2>1 DEF Sextet
  <2> QED
    <3>1. t.bits = 0
      BY <1>9, <2>1, Zenon
    <3>2. t.out = a.out \o <<Sextet(v, b, 1), Sextet(v, b, 2)>>
      BY <1>9, <2>2, Zenon
    <3>3. t.out = Append(Append(a.out, Sextet(v, b, 1)), Sextet(v, b, 2))
      BY <1>11, <3>2
    <3> QED
      BY <2>3, <2>4, <3>1, <3>3, Zenon
<1>15. Spelt(t, a, c)
  BY <1>7, <1>9, <1>12, <1>13, <1>14, Zenon DEF Spelt
<1> QED
  BY <1>4, <1>15, Zenon

\* The accumulator stays one, and the characters written are bytes; after k bytes of the
\* packet, eight bits for each of them are in the characters or still in v.
LEMMA SextetsType ==
  ASSUME NEW a \in Accumulator, NEW c \in Byte
  PROVE  /\ Sextets(a, c) \in Accumulator
         /\ 6 * Len(Sextets(a, c).out) + Sextets(a, c).bits = 6 * Len(a.out) + a.bits + 8
<1>1. PICK t : t = Sextets(a, c)
  OBVIOUS
<1>2. Spelt(t, a, c)
  BY <1>1, SextetsSpell, Zenon
<1>3. a.v \in Nat /\ a.bits \in {0, 2, 4} /\ a.out \in Seq(Byte)
  BY DEF Accumulator
<1>4. c \in 0 .. 255
  BY DEF Byte
<1>5. a.v % 4 \in 0 .. 3 /\ a.v % 16 \in 0 .. 15
  <2>1. PICK v \in Nat : v = a.v
    BY <1>3, Zenon
  <2>2. v % 4 \in 0 .. 3 /\ v % 16 \in 0 .. 15
    BY SMT
  <2> QED
    BY <2>1, <2>2, Zenon
<1>6. c \div 4 \in 0 .. 63 /\ c \div 16 \in 0 .. 15 /\ c \div 64 \in 0 .. 3 /\ c % 64 \in 0 .. 63
  BY <1>4
<1>7. \A z \in 0 .. 63 : BASE6 + z \in Byte
  BY Codes DEF Byte
<1>8. /\ BASE6 + (c \div 4) \in Byte /\ BASE6 + (c % 64) \in Byte
      /\ BASE6 + (16 * (a.v % 4) + (c \div 16)) \in Byte
      /\ BASE6 + (4 * (a.v % 16) + (c \div 64)) \in Byte
  <2>1. 16 * (a.v % 4) + (c \div 16) \in 0 .. 63 /\ 4 * (a.v % 16) + (c \div 64) \in 0 .. 63
    BY <1>5, <1>6
  <2> QED
    BY <1>6, <1>7, <2>1, Zenon
<1>9. t = [v |-> t.v, bits |-> t.bits, out |-> t.out] /\ t.v \in Nat
  BY <1>2, Zenon DEF Spelt
<1>10. \A x \in Byte : Append(a.out, x) \in Seq(Byte) /\ Len(Append(a.out, x)) = Len(a.out) + 1
  BY <1>3
<1>11. \A x, y \in Byte : /\ Append(Append(a.out, x), y) \in Seq(Byte)
                          /\ Len(Append(Append(a.out, x), y)) = Len(a.out) + 2
  BY <1>3
<1>12. Len(a.out) \in Nat
  BY <1>3
<1>13. CASE a.bits = 0
  <2>1. t.bits = 2 /\ t.out = Append(a.out, BASE6 + (c \div 4))
    BY <1>2, <1>13, Zenon DEF Spelt
  <2>2. t.out \in Seq(Byte) /\ Len(t.out) = Len(a.out) + 1
    BY <1>8, <1>10, <2>1, Zenon
  <2>3. t \in Accumulator
    BY <1>9, <2>1, <2>2 DEF Accumulator
  <2>4. 6 * Len(t.out) + t.bits = 6 * Len(a.out) + a.bits + 8
    BY <1>12, <1>13, <2>1, <2>2
  <2> QED
    BY <1>1, <2>3, <2>4, Zenon
<1>14. CASE a.bits = 2
  <2>1. t.bits = 4 /\ t.out = Append(a.out, BASE6 + (16 * (a.v % 4) + (c \div 16)))
    BY <1>2, <1>14, Zenon DEF Spelt
  <2>2. t.out \in Seq(Byte) /\ Len(t.out) = Len(a.out) + 1
    BY <1>8, <1>10, <2>1, Zenon
  <2>3. t \in Accumulator
    BY <1>9, <2>1, <2>2 DEF Accumulator
  <2>4. 6 * Len(t.out) + t.bits = 6 * Len(a.out) + a.bits + 8
    BY <1>12, <1>14, <2>1, <2>2
  <2> QED
    BY <1>1, <2>3, <2>4, Zenon
<1>15. CASE a.bits = 4
  <2>1. /\ t.bits = 0
        /\ t.out = Append(Append(a.out, BASE6 + (4 * (a.v % 16) + (c \div 64))),
                          BASE6 + (c % 64))
    BY <1>2, <1>15, Zenon DEF Spelt
  <2>2. t.out \in Seq(Byte) /\ Len(t.out) = Len(a.out) + 2
    <3>1. PICK x : x = BASE6 + (4 * (a.v % 16) + (c \div 64))
      OBVIOUS
    <3>2. PICK y : y = BASE6 + (c % 64)
      OBVIOUS
    <3>3. x \in Byte /\ y \in Byte /\ t.out = Append(Append(a.out, x), y)
      BY <1>8, <2>1, <3>1, <3>2, Zenon
    <3> QED
      BY <1>11, <3>3
  <2>3. t \in Accumulator
    BY <1>9, <2>1, <2>2 DEF Accumulator
  <2>4. 6 * Len(t.out) + t.bits = 6 * Len(a.out) + a.bits + 8
    BY <1>12, <1>15, <2>1, <2>2
  <2> QED
    BY <1>1, <2>3, <2>4, Zenon
<1> QED
  BY <1>3, <1>13, <1>14, <1>15, Zenon

\* The accumulator before the first byte.
NoSextets == [v |-> 0, bits |-> 0, out |-> <<END6>>]

\* The loop of slip_esc6.
LEMMA Esc6Runs ==
  ASSUME NEW p \in Seq(Byte)
  PROVE  /\ Esc6Loop(p) \in [0 .. Len(p) -> Accumulator]
         /\ Esc6Loop(p)[0] = NoSextets
         /\ \A k \in 1 .. Len(p) : Esc6Loop(p)[k] = Sextets(Esc6Loop(p)[k - 1], p[k])
<1>1. PICK n \in Nat : n = Len(p)
  OBVIOUS
<1>2. \A k \in 1 .. n : p[k] \in Byte
  BY <1>1
<1>3. PICK step : step = [x \in Accumulator \X (1 .. n) |-> Sextets(x[1], p[x[2]])]
  OBVIOUS
<1>4. step \in [Accumulator \X (1 .. n) -> Accumulator]
  <2>1. \A x \in Accumulator \X (1 .. n) : x[1] \in Accumulator /\ x[2] \in 1 .. n
    OBVIOUS
  <2>2. \A x \in Accumulator \X (1 .. n) : Sextets(x[1], p[x[2]]) \in Accumulator
    BY <1>2, <2>1, SextetsType, Zenon
  <2> QED
    BY <1>3, <2>2, Zenon
<1>5. NoSextets \in Accumulator
  <2>1. <<END6>> \in Seq(Byte)
    BY Codes
  <2> QED
    BY <2>1 DEF NoSextets, Accumulator
<1>6. PICK f \in [0 .. n -> Accumulator] :
        f[0] = NoSextets /\ \A k \in 1 .. n : f[k] = step[<<f[k - 1], k>>]
  <2>1. PICK f : Looped(Accumulator, NoSextets, n, step, f)
    BY <1>4, <1>5, Recursion
  <2> QED
    BY <2>1 DEF Looped
<1>7. \A k \in 1 .. n : f[k] = Sextets(f[k - 1], p[k])
  <2> TAKE k \in 1 .. n
  <2>1. k - 1 \in 0 .. n
    BY <1>1
  <2>2. f[k - 1] \in Accumulator
    BY <2>1
  <2>3. step[<<f[k - 1], k>>] = Sextets(f[k - 1], p[k])
    BY <1>3, <2>2
  <2> QED
    BY <1>6, <2>3
<1>8. f = [k \in 0 .. n |-> IF k = 0 THEN NoSextets ELSE Sextets(f[k - 1], p[k])]
  <2>1. \A k \in 0 .. n : k = 0 \/ k \in 1 .. n
    BY <1>1
  <2>2. f = [k \in 0 .. n |-> f[k]]
    OBVIOUS
  <2> QED
    BY <1>6, <1>7, <2>1, <2>2
<1>9. PICK R : R = Esc6Loop(p)
  OBVIOUS
<1>10. R = [k \in 0 .. n |-> IF k = 0 THEN NoSextets ELSE Sextets(R[k - 1], p[k])]
  BY <1>1, <1>8, <1>9 DEF Esc6Loop, NoSextets
<1>11. DOMAIN R = 0 .. n /\ R[0] = NoSextets
  BY <1>1, <1>10
<1>12. \A k \in 1 .. n : R[k] = Sextets(R[k - 1], p[k])
  <2> TAKE k \in 1 .. n
  <2>1. k \in 0 .. n /\ k # 0
    BY <1>1
  <2> QED
    BY <1>10, <2>1
<1>13. {k \in 0 .. n : R[k] \in Accumulator} = 0 .. n
  <2> DEFINE H == {k \in 0 .. n : R[k] \in Accumulator}
  <2>1. 0 \in H
    <3>1. 0 \in 0 .. n
      BY <1>1
    <3> QED
      BY <1>5, <1>11, <3>1
  <2>2. ASSUME NEW k \in 1 .. n, k - 1 \in H PROVE k \in H
    <3>1. R[k - 1] \in Accumulator /\ p[k] \in Byte /\ k \in 0 .. n
      BY <1>1, <1>2, <2>2
    <3>2. Sextets(R[k - 1], p[k]) \in Accumulator
      BY <3>1, SextetsType, Zenon
    <3> QED
      BY <1>12, <3>1, <3>2
  <2>3. H \in SUBSET (0 .. n)
    OBVIOUS
  <2> HIDE DEF H
  <2>4. H = 0 .. n
    BY <1>1, <2>1, <2>2, <2>3, Along
  <2> QED
    BY <2>4 DEF H
<1>14. R \in [0 .. n -> Accumulator]
  <2>1. \A k \in 0 .. n : R[k] \in Accumulator
    BY <1>13
  <2>2. R = [k \in 0 .. n |-> R[k]]
    BY <1>10, <1>11
  <2> QED
    BY <2>1, <2>2
<1> QED
  BY <1>1, <1>9, <1>11, <1>12, <1>14

\* The six bits of a character, from the byte b that is not all sent and the byte c after it,
\* and how b comes back.
Mended(b, c) ==
  /\ c \div 4 \in 0 .. 63 /\ c % 64 \in 0 .. 63
  /\ 16 * (b % 4) + (c \div 16) \in 0 .. 63
  /\ (16 * (b % 4) + (c \div 16)) \div 16 = b % 4
  /\ (16 * (b % 4) + (c \div 16)) % 16 = c \div 16
  /\ 4 * (b % 16) + (c \div 64) \in 0 .. 63
  /\ (4 * (b % 16) + (c \div 64)) \div 4 = b % 16
  /\ (4 * (b % 16) + (c \div 64)) % 4 = c \div 64
  /\ 4 * (b \div 4) + (b % 4) = b
  /\ 16 * (b \div 16) + (b % 16) = b
  /\ 64 * (c \div 64) + (c % 64) = c

\* All of that holds of any two bytes.
LEMMA Mending ==
  ASSUME NEW b \in Byte, NEW c \in Byte
  PROVE  Mended(b, c)
<1>1. b \in 0 .. 255 /\ c \in 0 .. 255 /\ b \in Nat /\ c \in Nat
  BY SMT DEF Byte
<1>2. PICK q4 \in Nat, r4 \in 0 .. 3 : q4 = b \div 4 /\ r4 = b % 4 /\ b = 4 * q4 + r4
  BY <1>1, By4, Zenon
<1>3. PICK q16 \in Nat, r16 \in 0 .. 15 : q16 = b \div 16 /\ r16 = b % 16 /\ b = 16 * q16 + r16
  BY <1>1, By16, Zenon
<1>4. PICK h4 \in Nat, l4 \in 0 .. 3 : h4 = c \div 4 /\ l4 = c % 4 /\ c = 4 * h4 + l4
  BY <1>1, By4, Zenon
<1>5. PICK h16 \in Nat, l16 \in 0 .. 15 : h16 = c \div 16 /\ l16 = c % 16 /\ c = 16 * h16 + l16
  BY <1>1, By16, Zenon
<1>6. PICK h64 \in Nat, l64 \in 0 .. 63 : h64 = c \div 64 /\ l64 = c % 64 /\ c = 64 * h64 + l64
  BY <1>1, By64, Zenon
<1>7. h4 <= 63 /\ h16 <= 15 /\ h64 <= 3
  BY <1>1, <1>4, <1>5, <1>6, SMT
<1>8. c \div 4 \in 0 .. 63 /\ c % 64 \in 0 .. 63 /\ 64 * (c \div 64) + (c % 64) = c
  BY <1>4, <1>6, <1>7, SMT
<1>9. 4 * (b \div 4) + (b % 4) = b /\ 16 * (b \div 16) + (b % 16) = b
  BY <1>2, <1>3, SMT
<1>10. PICK x \in Nat : x = 16 * r4 + h16
  BY SMT
<1>11. x \in 0 .. 63 /\ x \div 16 = r4 /\ x % 16 = h16
  BY <1>7, <1>10, Parted, SMT
<1>12. x = 16 * (b % 4) + (c \div 16)
  BY <1>2, <1>5, <1>10, Zenon
<1>13. PICK y \in Nat : y = 4 * r16 + h64
  BY SMT
<1>14. y \in 0 .. 63 /\ y \div 4 = r16 /\ y % 4 = h64
  BY <1>7, <1>13, Parted, SMT
<1>15. y = 4 * (b % 16) + (c \div 64)
  BY <1>3, <1>6, <1>13, Zenon
<1>16. /\ 16 * (b % 4) + (c \div 16) \in 0 .. 63
       /\ (16 * (b % 4) + (c \div 16)) \div 16 = b % 4
       /\ (16 * (b % 4) + (c \div 16)) % 16 = c \div 16
  BY <1>2, <1>5, <1>11, <1>12, Zenon
<1>17. /\ 4 * (b % 16) + (c \div 64) \in 0 .. 63
       /\ (4 * (b % 16) + (c \div 64)) \div 4 = b % 16
       /\ (4 * (b % 16) + (c \div 64)) % 4 = c \div 64
  BY <1>3, <1>6, <1>14, <1>15, Zenon
<1> QED
  BY <1>8, <1>9, <1>16, <1>17, Zenon DEF Mended

\* Accumulator a of slip_esc6 and receiver r that has heard what is written of the bytes
\* taken: what r lacks of the last byte, a still holds.  The packets r handed up are those
\* it had.
Coupled(a, r, taken, up) ==
  /\ r.up = up
  /\ a.bits = 0 => r.dec.xbits = 0 /\ r.buf = taken
  /\ a.bits = 2 => /\ r.dec.xbits = 6
                   /\ \E b \in Byte : /\ taken = Append(r.buf, b)
                                      /\ r.dec.xdata % 64 = b \div 4 /\ a.v % 4 = b % 4
  /\ a.bits = 4 => /\ r.dec.xbits = 4
                   /\ \E b \in Byte : /\ taken = Append(r.buf, b)
                                      /\ r.dec.xdata % 16 = b \div 16 /\ a.v % 16 = b % 16

\* One or two characters added to those of a make o, and the receiver that r becomes with
\* them is t.
Written(six, o, t, a, r) ==
  \/ \E s \in Byte : o = Append(a.out, s) /\ t = Hear(six, r, s)
  \/ \E s, u \in Byte : /\ o = Append(Append(a.out, s), u)
                        /\ t = Hear(six, Hear(six, r, s), u)

\* A byte more, written and heard.
LEMMA SextetsHeard ==
  ASSUME NEW six \in BOOLEAN, six, NEW r \in Receiver, NEW a \in Accumulator, NEW c \in Byte,
         NEW taken, NEW up, Coupled(a, r, taken, up)
  PROVE  \E t : /\ Written(six, Sextets(a, c).out, t, a, r)
                /\ Coupled(Sextets(a, c), t, Append(taken, c), up)
<1>1. PICK n : n = Sextets(a, c)
  OBVIOUS
<1>2. Spelt(n, a, c)
  BY <1>1, SextetsSpell, Zenon
<1>3. a.bits \in {0, 2, 4}
  BY DEF Accumulator
<1>4. r.up = up
  BY DEF Coupled
<1>5. \A z \in 0 .. 63 : BASE6 + z \in Byte /\ Took6(Hear(six, r, BASE6 + z), r, z)
  BY CharHeard, Zenon
<1>6. CASE a.bits = 0
  <2>1. PICK z : z = c \div 4
    OBVIOUS
  <2>2. z \in 0 .. 63
    BY <2>1, Mending, Zenon DEF Mended
  <2>3. PICK s : s = BASE6 + z
    OBVIOUS
  <2>4. PICK t : t = Hear(six, r, s)
    OBVIOUS
  <2>5. s \in Byte /\ Took6(t, r, z)
    BY <1>5, <2>2, <2>3, <2>4, Zenon
  <2>6. r.dec.xbits = 0 /\ r.buf = taken
    BY <1>6, Zenon DEF Coupled
  <2>7. t.up = up /\ t.dec.xbits = 6 /\ t.dec.xdata % 64 = c \div 4 /\ t.buf = taken
    BY <1>4, <2>1, <2>5, <2>6, Zenon DEF Took6
  <2>8. n.bits = 2 /\ n.v % 4 = c % 4 /\ n.out = Append(a.out, s)
    BY <1>2, <1>6, <2>1, <2>3, Zenon DEF Spelt
  <2>9. n.bits # 0 /\ n.bits # 4
    BY <2>8
  <2>10. Append(taken, c) = Append(t.buf, c)
    BY <2>7, Zenon
  <2>11. Coupled(n, t, Append(taken, c), up)
    BY <2>7, <2>8, <2>9, <2>10, Zenon DEF Coupled
  <2>12. Written(six, n.out, t, a, r)
    BY <2>4, <2>5, <2>8, Zenon DEF Written
  <2> QED
    BY <1>1, <2>11, <2>12, Zenon
<1>7. CASE a.bits = 2
  <2>1. PICK b \in Byte : /\ taken = Append(r.buf, b)
                          /\ r.dec.xdata % 64 = b \div 4 /\ a.v % 4 = b % 4
    BY <1>7, Zenon DEF Coupled
  <2>2. r.dec.xbits = 6
    BY <1>7, Zenon DEF Coupled
  <2>3. PICK z : z = 16 * (b % 4) + (c \div 16)
    OBVIOUS
  <2>4. Mended(b, c)
    BY Mending, Zenon
  <2>5. z \in 0 .. 63 /\ z \div 16 = b % 4 /\ z % 16 = c \div 16
    BY <2>3, <2>4, Zenon DEF Mended
  <2>6. PICK s : s = BASE6 + z
    OBVIOUS
  <2>7. PICK t : t = Hear(six, r, s)
    OBVIOUS
  <2>8. s \in Byte /\ Took6(t, r, z)
    BY <1>5, <2>5, <2>6, <2>7, Zenon
  <2>9. t.up = up /\ t.dec.xbits = 4 /\ t.dec.xdata % 16 = c \div 16
    BY <1>4, <2>2, <2>5, <2>8, Zenon DEF Took6
  <2>10. t.buf = taken
    <3>1. t.buf = Append(r.buf, 4 * (r.dec.xdata % 64) + (z \div 16))
      BY <2>2, <2>8, Zenon DEF Took6
    <3>2. 4 * (r.dec.xdata % 64) + (z \div 16) = b
      BY <2>1, <2>4, <2>5, Zenon DEF Mended
    <3> QED
      BY <2>1, <3>1, <3>2, Zenon
  <2>11. n.bits = 4 /\ n.v % 16 = c % 16 /\ n.out = Append(a.out, s)
    BY <1>2, <1>7, <2>1, <2>3, <2>6, Zenon DEF Spelt
  <2>12. n.bits # 0 /\ n.bits # 2
    BY <2>11
  <2>13. Append(taken, c) = Append(t.buf, c)
    BY <2>10, Zenon
  <2>14. Coupled(n, t, Append(taken, c), up)
    BY <2>9, <2>11, <2>12, <2>13, Zenon DEF Coupled
  <2>15. Written(six, n.out, t, a, r)
    BY <2>7, <2>8, <2>11, Zenon DEF Written
  <2> QED
    BY <1>1, <2>14, <2>15, Zenon
<1>8. CASE a.bits = 4
  <2>1. PICK b \in Byte : /\ taken = Append(r.buf, b)
                          /\ r.dec.xdata % 16 = b \div 16 /\ a.v % 16 = b % 16
    BY <1>8, Zenon DEF Coupled
  <2>2. r.dec.xbits = 4
    BY <1>8, Zenon DEF Coupled
  <2>3. PICK z : z = 4 * (b % 16) + (c \div 64)
    OBVIOUS
  <2>4. PICK y : y = c % 64
    OBVIOUS
  <2>5. Mended(b, c)
    BY Mending, Zenon
  <2>6. z \in 0 .. 63 /\ z \div 4 = b % 16 /\ z % 4 = c \div 64 /\ y \in 0 .. 63
    BY <2>3, <2>4, <2>5, Zenon DEF Mended
  <2>7. PICK s : s = BASE6 + z
    OBVIOUS
  <2>8. PICK q : q = Hear(six, r, s)
    OBVIOUS
  <2>9. s \in Byte /\ Took6(q, r, z)
    BY <1>5, <2>6, <2>7, <2>8, Zenon
  <2>10. q \in Receiver
    BY <2>8, <2>9, HearType, Zenon
  <2>11. q.up = up /\ q.dec.xbits = 2 /\ q.dec.xdata % 4 = c \div 64
    BY <1>4, <2>2, <2>6, <2>9, Zenon DEF Took6
  <2>12. q.buf = taken
    <3>1. q.buf = Append(r.buf, 16 * (r.dec.xdata % 16) + (z \div 4))
      BY <2>2, <2>9, Zenon DEF Took6
    <3>2. 16 * (r.dec.xdata % 16) + (z \div 4) = b
      BY <2>1, <2>5, <2>6, Zenon DEF Mended
    <3> QED
      BY <2>1, <3>1, <3>2, Zenon
  <2>13. PICK u : u = BASE6 + y
    OBVIOUS
  <2>14. PICK t : t = Hear(six, q, u)
    OBVIOUS
  <2>15. u \in Byte /\ Took6(t, q, y)
    BY <2>6, <2>10, <2>13, <2>14, CharHeard, Zenon
  <2>16. t.up = up /\ t.dec.xbits = 0
    BY <2>11, <2>15, Zenon DEF Took6
  <2>17. t.buf = Append(taken, c)
    <3>1. t.buf = Append(q.buf, 64 * (q.dec.xdata % 4) + y)
      BY <2>11, <2>15, Zenon DEF Took6
    <3>2. 64 * (q.dec.xdata % 4) + y = c
      BY <2>4, <2>5, <2>11, Zenon DEF Mended
    <3> QED
      BY <2>12, <3>1, <3>2, Zenon
  <2>18. n.bits = 0 /\ n.out = Append(Append(a.out, s), u)
    BY <1>2, <1>8, <2>1, <2>3, <2>4, <2>7, <2>13, Zenon DEF Spelt
  <2>19. n.bits # 2 /\ n.bits # 4
    BY <2>18
  <2>20. Coupled(n, t, Append(taken, c), up)
    BY <2>16, <2>17, <2>18, <2>19, Zenon DEF Coupled
  <2>21. Written(six, n.out, t, a, r)
    BY <2>8, <2>9, <2>14, <2>15, <2>18, Zenon DEF Written
  <2> QED
    BY <1>1, <2>20, <2>21, Zenon
<1> QED
  BY <1>3, <1>6, <1>7, <1>8, Zenon

\* The bits of v left over, with zeroes after them.
LEMMA LeftOver ==
  ASSUME NEW v \in Nat
  PROVE  /\ \E z \in 0 .. 63 : z = Shl(v, 4) % 64 /\ z \div 16 = v % 4
         /\ \E z \in 0 .. 63 : z = Shl(v, 2) % 64 /\ z \div 4 = v % 16
<1>1. Shl(v, 2) = 4 * v /\ Shl(v, 4) = 16 * v
  BY Shifts
<1>2. \E z \in 0 .. 63 : z = (16 * v) % 64 /\ z \div 16 = v % 4
  <2>1. PICK m \in Nat, r \in 0 .. 3 : m = v \div 4 /\ r = v % 4 /\ v = 4 * m + r
    BY By4, Zenon
  <2>2. PICK z \in Nat : z = 16 * r + 0
    BY SMT
  <2>3. z \in 0 .. 63 /\ z \div 16 = r /\ 16 * v = 64 * m + z
    BY <2>1, <2>2, Parted, SMT
  <2>4. (64 * m + z) % 64 = z
    BY <2>3, Parted, SMT
  <2> QED
    BY <2>1, <2>3, <2>4, Zenon
<1>3. \E z \in 0 .. 63 : z = (4 * v) % 64 /\ z \div 4 = v % 16
  <2>1. PICK m \in Nat, r \in 0 .. 15 : m = v \div 16 /\ r = v % 16 /\ v = 16 * m + r
    BY By16, Zenon
  <2>2. PICK z \in Nat : z = 4 * r + 0
    BY SMT
  <2>3. z \in 0 .. 63 /\ z \div 4 = r /\ 4 * v = 64 * m + z
    BY <2>1, <2>2, Parted, SMT
  <2>4. (64 * m + z) % 64 = z
    BY <2>3, Parted, SMT
  <2> QED
    BY <2>1, <2>3, <2>4, Zenon
<1> QED
  BY <1>1, <1>2, <1>3, Zenon

\* The character for the bits left over.
LastSextet(a) == BASE6 + (Shl(a.v, 6 - a.bits) % 64)

\* With it the receiver has every byte taken.
LEMMA TailHeard ==
  ASSUME NEW six \in BOOLEAN, six, NEW r \in Receiver, NEW a \in Accumulator, a.bits # 0,
         NEW taken, NEW up, Coupled(a, r, taken, up)
  PROVE  /\ LastSextet(a) \in Byte
         /\ Hear(six, r, LastSextet(a)).buf = taken
         /\ Hear(six, r, LastSextet(a)).up = up
<1>1. a.bits \in {0, 2, 4} /\ a.v \in Nat
  BY DEF Accumulator
<1>2. r.up = up
  BY DEF Coupled
<1>3. \A z \in 0 .. 63 : BASE6 + z \in Byte /\ Took6(Hear(six, r, BASE6 + z), r, z)
  BY CharHeard, Zenon
<1>4. PICK s : s = LastSextet(a)
  OBVIOUS
<1>5. PICK t : t = Hear(six, r, s)
  OBVIOUS
<1>6. CASE a.bits = 2
  <2>1. PICK b \in Byte : /\ taken = Append(r.buf, b)
                          /\ r.dec.xdata % 64 = b \div 4 /\ a.v % 4 = b % 4
    BY <1>6, Zenon DEF Coupled
  <2>2. r.dec.xbits = 6
    BY <1>6, Zenon DEF Coupled
  <2>3. PICK z \in 0 .. 63 : z = Shl(a.v, 4) % 64 /\ z \div 16 = a.v % 4
    BY <1>1, LeftOver, Zenon
  <2>4. 6 - a.bits = 4
    BY <1>6
  <2>5. s = BASE6 + z
    BY <1>4, <2>3, <2>4, Zenon DEF LastSextet
  <2>6. s \in Byte /\ Took6(t, r, z)
    BY <1>3, <1>5, <2>3, <2>5, Zenon
  <2>7. t.up = up /\ t.buf = Append(r.buf, 4 * (r.dec.xdata % 64) + (z \div 16))
    BY <1>2, <2>2, <2>6, Zenon DEF Took6
  <2>8. Mended(b, b)
    BY Mending, Zenon
  <2>9. 4 * (r.dec.xdata % 64) + (z \div 16) = b
    BY <2>1, <2>3, <2>8, Zenon DEF Mended
  <2> QED
    BY <1>4, <1>5, <2>1, <2>6, <2>7, <2>9, Zenon
<1>7. CASE a.bits = 4
  <2>1. PICK b \in Byte : /\ taken = Append(r.buf, b)
                          /\ r.dec.xdata % 16 = b \div 16 /\ a.v % 16 = b % 16
    BY <1>7, Zenon DEF Coupled
  <2>2. r.dec.xbits = 4
    BY <1>7, Zenon DEF Coupled
  <2>3. PICK z \in 0 .. 63 : z = Shl(a.v, 2) % 64 /\ z \div 4 = a.v % 16
    BY <1>1, LeftOver, Zenon
  <2>4. 6 - a.bits = 2
    BY <1>7
  <2>5. s = BASE6 + z
    BY <1>4, <2>3, <2>4, Zenon DEF LastSextet
  <2>6. s \in Byte /\ Took6(t, r, z)
    BY <1>3, <1>5, <2>3, <2>5, Zenon
  <2>7. t.up = up /\ t.buf = Append(r.buf, 16 * (r.dec.xdata % 16) + (z \div 4))
    BY <1>2, <2>2, <2>6, Zenon DEF Took6
  <2>8. Mended(b, b)
    BY Mending, Zenon
  <2>9. 16 * (r.dec.xdata % 16) + (z \div 4) = b
    BY <2>1, <2>3, <2>8, Zenon DEF Mended
  <2> QED
    BY <1>4, <1>5, <2>1, <2>6, <2>7, <2>9, Zenon
<1> QED
  BY <1>1, <1>6, <1>7, Zenon

\* Byte s ends the frame for a decoder, which becomes d.
EndsFor(six, dec, s, d) == Decode(six, dec, s) = [kind |-> "end", byte |-> s, dec |-> d]

\* Receiver r at the end of a frame, its decoder then d, becomes t.
Ended(t, r, d) ==
  /\ t.dec = d /\ t.buf = << >>
  /\ t.up = IF Deliverable(r.buf) THEN Append(r.up, r.buf) ELSE r.up

\* So it does when the byte comes.
LEMMA FrameEnds ==
  ASSUME NEW six \in BOOLEAN, NEW r \in Receiver, NEW s, NEW d, EndsFor(six, r.dec, s, d)
  PROVE  Ended(Hear(six, r, s), r, d)
<1>1. PICK u : u = IF Deliverable(r.buf) THEN Append(r.up, r.buf) ELSE r.up
  OBVIOUS
<1>2. PICK t : t = Hear(six, r, s)
  OBVIOUS
<1>3. t = [dec |-> d, buf |-> << >>, up |-> u]
  BY <1>1, <1>2, HeardEnd DEF EndsFor
<1>4. t.dec = d /\ t.buf = << >> /\ t.up = u
  BY <1>3
<1>5. Ended(t, r, d)
  BY <1>1, <1>4, Zenon DEF Ended
<1> QED
  BY <1>2, <1>5, Zenon

\* A 0x70 ends the frame, and leaves no bits behind.
LEMMA End6Heard ==
  ASSUME NEW six \in BOOLEAN, six, NEW r \in Receiver
  PROVE  \E d : d.xbits = 0 /\ Ended(Hear(six, r, END6), r, d)
<1>1. PICK d : d = [r.dec EXCEPT !.xbits = 0, !.xdata = 0]
  OBVIOUS
<1>2. EndsFor(six, r.dec, END6, d)
  BY <1>1 DEF EndsFor, Decode, Unesc6
<1>3. d.xbits = 0
  BY <1>1 DEF Receiver, Decoder
<1>4. Ended(Hear(six, r, END6), r, d)
  BY <1>2, FrameEnds, Zenon
<1> QED
  BY <1>3, <1>4, Zenon

\* A byte added after a noise and a beginning of a frame.
LEMMA AddedAfter ==
  ASSUME NEW g \in Seq(Byte), NEW l \in Seq(Byte), NEW s \in Byte
  PROVE  /\ g \o l \in Seq(Byte) /\ Append(l, s) \in Seq(Byte)
         /\ g \o Append(l, s) = Append(g \o l, s)
<1>1. g \o l \in Seq(Byte) /\ Append(l, s) \in Seq(Byte) /\ <<s>> \in Seq(Byte)
  OBVIOUS
<1>2. Append(l, s) = l \o <<s>> /\ Append(g \o l, s) = (g \o l) \o <<s>>
  BY <1>1, Endings
<1>3. (g \o l) \o <<s>> = g \o (l \o <<s>>)
  BY <1>1, ConcatAssociative
<1> QED
  BY <1>1, <1>2, <1>3, Zenon

\* What is written for a byte leaves the receiver of the bytes before it with the receiver of
\* all of them.
LEMMA WrittenFinal ==
  ASSUME NEW six \in BOOLEAN, NEW g \in Seq(Byte), NEW a \in Accumulator, NEW o, NEW t,
         Written(six, o, t, a, Final(six, g \o a.out))
  PROVE  t = Final(six, g \o o)
<1>1. PICK l : l = a.out
  OBVIOUS
<1>2. l \in Seq(Byte)
  BY <1>1 DEF Accumulator
<1>3. PICK r : r = Final(six, g \o l)
  OBVIOUS
<1>4. Written(six, o, t, a, r)
  BY <1>1, <1>3, Zenon
<1>5. ASSUME NEW k \in Seq(Byte), NEW s \in Byte
      PROVE  Append(k, s) \in Seq(Byte)
             /\ Final(six, g \o Append(k, s)) = Hear(six, Final(six, g \o k), s)
  <2>1. PICK m : m = g \o k
    OBVIOUS
  <2>2. m \in Seq(Byte) /\ Append(k, s) \in Seq(Byte) /\ g \o Append(k, s) = Append(m, s)
    BY <2>1, AddedAfter, Zenon
  <2>3. Final(six, Append(m, s)) = Hear(six, Final(six, m), s)
    BY <2>2, FinalSteps, Zenon
  <2> QED
    BY <2>1, <2>2, <2>3, Zenon
<1>6. ASSUME NEW s \in Byte, o = Append(l, s), t = Hear(six, r, s)
      PROVE  t = Final(six, g \o o)
  BY <1>2, <1>3, <1>5, <1>6, Zenon
<1>7. ASSUME NEW s \in Byte, NEW u \in Byte, o = Append(Append(l, s), u),
             t = Hear(six, Hear(six, r, s), u)
      PROVE  t = Final(six, g \o o)
  <2>1. PICK k : k = Append(l, s)
    OBVIOUS
  <2>2. k \in Seq(Byte) /\ Final(six, g \o k) = Hear(six, r, s)
    BY <1>2, <1>3, <1>5, <2>1, Zenon
  <2>3. Final(six, g \o Append(k, u)) = Hear(six, Final(six, g \o k), u)
    BY <1>5, <2>2, Zenon
  <2> QED
    BY <1>7, <2>1, <2>2, <2>3, Zenon
<1> QED
  BY <1>1, <1>4, <1>6, <1>7, Zenon DEF Written

\* Receiver t is what the packet and the delimiter after it make of a receiver that had
\* handed up the packets up.
HandsUp(t, p, up) == t.up = IF Deliverable(p) THEN Append(up, p) ELSE up

\* What slip_esc6 writes for a packet, a receiver takes for that packet.
LEMMA Esc6Heard ==
  ASSUME NEW six \in BOOLEAN, six, NEW g \in Seq(Byte), NEW p \in Seq(Byte)
  PROVE  HandsUp(Final(six, g \o Esc6(p)), p, Hear(six, Final(six, g), END6).up)
<1>1. PICK n \in Nat : n = Len(p)
  OBVIOUS
<1>2. PICK acc : acc = Esc6Loop(p)
  OBVIOUS
<1>3. acc \in [0 .. n -> Accumulator] /\ acc[0] = NoSextets
      /\ \A k \in 1 .. n : acc[k] = Sextets(acc[k - 1], p[k])
  BY <1>1, <1>2, Esc6Runs
<1>4. \A k \in 1 .. n : p[k] \in Byte /\ k \in 1 .. Len(p)
  BY <1>1
<1>5. END6 \in Byte /\ <<END6>> \in Seq(Byte)
  BY Codes
<1>6. \A l \in Seq(Byte) : Final(six, l) \in Receiver
                         /\ \A s \in Byte : Final(six, Append(l, s)) = Hear(six, Final(six, l), s)
  BY FinalSteps
<1>7. PICK t : t = Hear(six, Final(six, g), END6)
  OBVIOUS
<1>8. PICK up : up = t.up
  OBVIOUS
<1>9. t.dec.xbits = 0 /\ t.buf = << >>
  BY <1>6, <1>7, End6Heard, Zenon DEF Ended
<1> DEFINE H == {k \in 0 .. n : Coupled(acc[k], Final(six, g \o acc[k].out), SubSeq(p, 1, k), up)}
<1>10. 0 \in H
  <2>1. g \o <<END6>> = Append(g, END6)
    BY <1>5, Endings
  <2>2. Final(six, Append(g, END6)) = t
    BY <1>5, <1>6, <1>7, Zenon
  <2>3. NoSextets.out = <<END6>> /\ NoSextets.bits = 0 /\ NoSextets.bits # 2
        /\ NoSextets.bits # 4
    BY DEF NoSextets
  <2>4. SubSeq(p, 1, 0) = << >>
    BY Beginnings, Zenon
  <2>5. Coupled(acc[0], t, SubSeq(p, 1, 0), up)
    BY <1>3, <1>8, <1>9, <2>3, <2>4, Zenon DEF Coupled
  <2>6. Final(six, g \o acc[0].out) = t
    BY <1>3, <2>1, <2>2, <2>3, Zenon
  <2>7. 0 \in 0 .. n
    OBVIOUS
  <2> QED
    BY <2>5, <2>6, <2>7, Zenon
<1>11. ASSUME NEW k \in 1 .. n, k - 1 \in H PROVE k \in H
  <2>1. k - 1 \in 0 .. n /\ k \in 0 .. n /\ k \in 1 .. Len(p) /\ p[k] \in Byte
    BY <1>4
  <2>2. PICK a : a = acc[k - 1]
    OBVIOUS
  <2>3. a \in Accumulator
    BY <1>3, <2>1, <2>2
  <2>4. PICK taken : taken = SubSeq(p, 1, k - 1)
    OBVIOUS
  <2>5. PICK r : r = Final(six, g \o a.out)
    OBVIOUS
  <2>6. g \o a.out \in Seq(Byte)
    BY <2>3 DEF Accumulator
  <2>7. r \in Receiver
    BY <1>6, <2>5, <2>6, Zenon
  <2>8. Coupled(a, r, taken, up)
    BY <1>11, <2>2, <2>4, <2>5, Zenon
  <2>9. PICK u : /\ Written(six, Sextets(a, p[k]).out, u, a, r)
                 /\ Coupled(Sextets(a, p[k]), u, Append(taken, p[k]), up)
    BY <2>1, <2>3, <2>7, <2>8, SextetsHeard, Zenon
  <2>10. acc[k] = Sextets(a, p[k])
    BY <1>3, <2>2
  <2>11. Append(taken, p[k]) = SubSeq(p, 1, k)
    BY <2>1, <2>4, Beginnings, Zenon
  <2>12. u = Final(six, g \o acc[k].out)
    BY <2>3, <2>5, <2>9, <2>10, WrittenFinal, Zenon
  <2> QED
    BY <2>1, <2>9, <2>10, <2>11, <2>12, Zenon
<1>12. H = 0 .. n
  <2>1. H \in SUBSET (0 .. n)
    OBVIOUS
  <2> HIDE DEF H
  <2> QED
    BY <1>10, <1>11, <2>1, Along
<1>13. PICK a : a = acc[n]
  OBVIOUS
<1>14. n \in 0 .. n
  OBVIOUS
<1>15. a \in Accumulator
  BY <1>3, <1>13, <1>14
<1>16. PICK l : l = a.out
  OBVIOUS
<1>17. l \in Seq(Byte) /\ g \o l \in Seq(Byte)
  BY <1>15, <1>16 DEF Accumulator
<1>18. PICK r : r = Final(six, g \o l)
  OBVIOUS
<1>19. r \in Receiver
  BY <1>6, <1>17, <1>18, Zenon
<1>20. SubSeq(p, 1, n) = p
  BY <1>1, Beginnings, Zenon
<1>21. Coupled(a, r, p, up)
  BY <1>12, <1>13, <1>14, <1>16, <1>18, <1>20, Zenon
<1>22. PICK m \in Seq(Byte) :
         Esc6(p) = Append(m, END6) /\ Final(six, g \o m).buf = p /\ Final(six, g \o m).up = up
  <2>1. CASE a.bits = 0
    <3>1. Esc6(p) = (l \o << >>) \o <<END6>>
      BY <1>1, <1>2, <1>13, <1>16, <2>1, Zenon DEF Esc6
    <3>2. (l \o << >>) \o <<END6>> = Append(l, END6)
      BY <1>5, <1>17
    <3>3. r.buf = p /\ r.up = up
      BY <1>21, <2>1, Zenon DEF Coupled
    <3> QED
      BY <1>17, <1>18, <3>1, <3>2, <3>3, Zenon
  <2>2. CASE a.bits # 0
    <3>1. PICK s : s = LastSextet(a)
      OBVIOUS
    <3>2. s \in Byte /\ Hear(six, r, s).buf = p /\ Hear(six, r, s).up = up
      BY <1>15, <1>19, <1>21, <2>2, <3>1, TailHeard, Zenon
    <3>3. PICK m : m = Append(l, s)
      OBVIOUS
    <3>4. m \in Seq(Byte) /\ g \o m = Append(g \o l, s)
      <4>1. Append(l, s) \in Seq(Byte) /\ g \o Append(l, s) = Append(g \o l, s)
        <5>1. l \in Seq(Byte) /\ s \in Byte
          BY <1>17, <3>2, Zenon
        <5> QED
          BY <5>1, AddedAfter, Zenon
      <4> QED
        BY <3>3, <4>1, Zenon
    <3>5. Esc6(p) = (l \o <<s>>) \o <<END6>>
      BY <1>1, <1>2, <1>13, <1>16, <2>2, <3>1, Zenon DEF Esc6, LastSextet
    <3>6. l \o <<s>> = m /\ m \o <<END6>> = Append(m, END6)
      BY <1>5, <1>17, <3>2, <3>3, <3>4, Endings, Zenon
    <3>7. Final(six, g \o m) = Hear(six, r, s)
      BY <1>6, <1>17, <1>18, <3>2, <3>4, Zenon
    <3> QED
      BY <3>2, <3>4, <3>5, <3>6, <3>7, Zenon
  <2> QED
    BY <2>1, <2>2, Zenon
<1>23. PICK q : q = Final(six, g \o m)
  OBVIOUS
<1>24. g \o m \in Seq(Byte) /\ g \o Append(m, END6) = Append(g \o m, END6)
  BY <1>5, AddedAfter, Zenon
<1>25. q \in Receiver
  BY <1>6, <1>23, <1>24, Zenon
<1>26. PICK z : z = Final(six, g \o Esc6(p))
  OBVIOUS
<1>27. z = Hear(six, q, END6)
  <2>1. Final(six, Append(g \o m, END6)) = Hear(six, Final(six, g \o m), END6)
    BY <1>5, <1>6, <1>24, Zenon
  <2>2. Final(six, g \o Esc6(p)) = Final(six, Append(g \o m, END6))
    BY <1>22, <1>24, Zenon
  <2> QED
    BY <1>23, <1>26, <2>1, <2>2, Zenon
<1>28. z.up = IF Deliverable(q.buf) THEN Append(q.up, q.buf) ELSE q.up
  BY <1>25, <1>27, End6Heard, Zenon DEF Ended
<1>29. q.buf = p /\ q.up = up
  BY <1>22, <1>23, Zenon
<1>30. HandsUp(z, p, up)
  BY <1>28, <1>29, Zenon DEF HandsUp
<1> QED
  BY <1>7, <1>8, <1>26, <1>30, Zenon

-----------------------------------------------------------------------------
(* Frames.                                                                 *)

\* The bytes among the first k of p that are sent as two.
Specials(p, k) == {i \in 1 .. k : p[i] \in {END, ESC}}

\* There are as many of them with one byte more, or one more.
LEMMA SpecialsGrow ==
  ASSUME NEW p, NEW k \in Nat
  PROVE  /\ IsFiniteSet(Specials(p, k)) /\ Cardinality(Specials(p, k)) \in Nat
         /\ Cardinality(Specials(p, 0)) = 0
         /\ Cardinality(Specials(p, k + 1)) =
              Cardinality(Specials(p, k)) + (IF p[k + 1] \in {END, ESC} THEN 1 ELSE 0)
<1>1. IsFiniteSet(Specials(p, k)) /\ Cardinality(Specials(p, k)) \in Nat
  <2>1. IsFiniteSet(1 .. k)
    BY FS_Interval
  <2>2. Specials(p, k) \subseteq 1 .. k
    BY DEF Specials
  <2>3. IsFiniteSet(Specials(p, k))
    BY <2>1, <2>2, FS_Subset
  <2> QED
    BY <2>3, FS_CardinalityType
<1>2. Cardinality(Specials(p, 0)) = 0
  <2>1. Specials(p, 0) = {}
    BY DEF Specials
  <2> QED
    BY <2>1, FS_EmptySet
<1>3. CASE p[k + 1] \in {END, ESC}
  <2>1. Specials(p, k + 1) = Specials(p, k) \cup {k + 1} /\ k + 1 \notin Specials(p, k)
    BY <1>3 DEF Specials
  <2>2. Cardinality(Specials(p, k + 1)) = Cardinality(Specials(p, k)) + 1
    BY <1>1, <2>1, FS_AddElement
  <2> QED
    BY <1>1, <1>2, <1>3, <2>2
<1>4. CASE p[k + 1] \notin {END, ESC}
  <2>1. Specials(p, k + 1) = Specials(p, k)
    BY <1>4 DEF Specials
  <2> QED
    BY <1>1, <1>2, <1>4, <2>1
<1> QED
  BY <1>3, <1>4

\* slip_esc writes a byte for each byte of the packet, one more for the special ones, and two
\* delimiters.
LEMMA EscLength ==
  ASSUME NEW p \in Seq(Byte)
  PROVE  Esc(p) \in Seq(Byte) /\ Len(Esc(p)) = 2 + Len(p) + Cardinality(Specials(p, Len(p)))
<1>1. PICK n \in Nat : n = Len(p)
  OBVIOUS
<1>2. PICK out : out = EscLoop(p)
  OBVIOUS
<1>3. out \in [0 .. n -> Seq(Byte)] /\ out[0] = <<END>>
      /\ \A k \in 1 .. n : out[k] = out[k - 1] \o Stuffed(p[k])
  BY <1>1, <1>2, EscRuns
<1> DEFINE H == {k \in 0 .. n : Len(out[k]) = 1 + k + Cardinality(Specials(p, k))}
<1>4. 0 \in H
  <2>1. Len(out[0]) = 1 /\ 0 \in 0 .. n
    BY <1>3
  <2>2. Cardinality(Specials(p, 0)) = 0
    BY SpecialsGrow
  <2>3. Len(out[0]) = 1 + 0 + Cardinality(Specials(p, 0))
    BY <2>1, <2>2
  <2> QED
    BY <2>1, <2>3, Zenon
<1>5. ASSUME NEW k \in 1 .. n, k - 1 \in H PROVE k \in H
  <2>1. k - 1 \in Nat /\ k - 1 \in 0 .. n /\ k \in 0 .. n /\ (k - 1) + 1 = k
    OBVIOUS
  <2>2. PICK j \in Nat : j = k - 1 /\ j + 1 = k
    BY <2>1
  <2>3. p[k] \in Byte
    BY <1>1
  <2>4. PICK a : a = out[j]
    OBVIOUS
  <2>5. PICK b : b = Stuffed(p[k])
    OBVIOUS
  <2>6. a \in Seq(Byte) /\ b \in Seq(Byte) /\ out[k] = a \o b
    BY <1>3, <2>1, <2>2, <2>3, <2>4, <2>5, StuffedCases
  <2>7. Len(out[k]) = Len(a) + Len(b)
    BY <2>6
  <2>8. Len(b) = IF p[k] \in {END, ESC} THEN 2 ELSE 1
    BY <2>3, <2>5, StuffedCases
  <2>9. PICK s \in Nat : s = Cardinality(Specials(p, j))
    BY SpecialsGrow
  <2>10. Cardinality(Specials(p, k)) = s + (IF p[k] \in {END, ESC} THEN 1 ELSE 0)
    BY <2>2, <2>9, SpecialsGrow
  <2>11. Len(a) = 1 + j + s
    BY <1>5, <2>2, <2>4, <2>9
  <2>12. Len(out[k]) = 1 + k + Cardinality(Specials(p, k))
    BY <2>2, <2>7, <2>8, <2>10, <2>11
  <2> QED
    BY <2>1, <2>12
<1>6. H = 0 .. n
  <2>1. H \in SUBSET (0 .. n)
    OBVIOUS
  <2> HIDE DEF H
  <2> QED
    BY <1>4, <1>5, <2>1, Along
<1>7. n \in 0 .. n
  OBVIOUS
<1>8. PICK a : a = out[n]
  OBVIOUS
<1>9. a \in Seq(Byte) /\ Len(a) = 1 + n + Cardinality(Specials(p, n))
  BY <1>3, <1>6, <1>7, <1>8
<1>10. Esc(p) = a \o <<END>>
  BY <1>1, <1>2, <1>8 DEF Esc
<1>11. a \o <<END>> \in Seq(Byte) /\ Len(a \o <<END>>) = Len(a) + 1
  BY <1>9, Codes
<1>12. Cardinality(Specials(p, n)) \in Nat
  BY SpecialsGrow
<1> QED
  BY <1>1, <1>9, <1>10, <1>11, <1>12

\* slip_esc6 writes a character for each six bits of the packet, the last of them filled up,
\* and two delimiters.
LEMMA Esc6Length ==
  ASSUME NEW p \in Seq(Byte)
  PROVE  Esc6(p) \in Seq(Byte) /\ Len(Esc6(p)) = 2 + ((8 * Len(p) + 5) \div 6)
<1>1. PICK n \in Nat : n = Len(p)
  OBVIOUS
<1>2. PICK acc : acc = Esc6Loop(p)
  OBVIOUS
<1>3. acc \in [0 .. n -> Accumulator] /\ acc[0] = NoSextets
      /\ \A k \in 1 .. n : acc[k] = Sextets(acc[k - 1], p[k])
  BY <1>1, <1>2, Esc6Runs
<1> DEFINE H == {k \in 0 .. n : 6 * Len(acc[k].out) + acc[k].bits = 6 + 8 * k}
<1>4. 0 \in H
  <2>1. Len(acc[0].out) = 1 /\ acc[0].bits = 0 /\ 0 \in 0 .. n
    BY <1>3 DEF NoSextets
  <2>2. 6 * Len(acc[0].out) + acc[0].bits = 6 + 8 * 0
    BY <2>1
  <2> QED
    BY <2>1, <2>2, Zenon
<1>5. ASSUME NEW k \in 1 .. n, k - 1 \in H PROVE k \in H
  <2>1. k - 1 \in 0 .. n /\ k \in 0 .. n
    OBVIOUS
  <2>2. p[k] \in Byte
    BY <1>1
  <2>3. PICK a : a = acc[k - 1]
    OBVIOUS
  <2>4. PICK b : b = acc[k]
    OBVIOUS
  <2>5. a \in Accumulator /\ b = Sextets(a, p[k])
    BY <1>3, <2>1, <2>3, <2>4
  <2>6. 6 * Len(b.out) + b.bits = 6 * Len(a.out) + a.bits + 8
    BY <2>2, <2>5, SextetsType, Zenon
  <2>7. 6 * Len(a.out) + a.bits = 6 + 8 * (k - 1)
    BY <1>5, <2>3, Zenon
  <2>8. 6 * Len(b.out) + b.bits = (6 + 8 * (k - 1)) + 8
    BY <2>6, <2>7, Zenon
  <2>9. (6 + 8 * (k - 1)) + 8 = 6 + 8 * k
    OBVIOUS
  <2> QED
    BY <2>1, <2>4, <2>8, <2>9, Zenon
<1>6. H = 0 .. n
  <2>1. H \in SUBSET (0 .. n)
    OBVIOUS
  <2> HIDE DEF H
  <2> QED
    BY <1>4, <1>5, <2>1, Along
<1>7. n \in 0 .. n
  OBVIOUS
<1>8. PICK a : a = acc[n]
  OBVIOUS
<1>9. a \in Accumulator /\ 6 * Len(a.out) + a.bits = 6 + 8 * n
  BY <1>3, <1>6, <1>7, <1>8
<1>10. PICK l : l = a.out
  OBVIOUS
<1>11. l \in Seq(Byte) /\ a.bits \in {0, 2, 4}
  BY <1>9, <1>10 DEF Accumulator
<1>12. PICK m \in Nat : m = Len(l)
  BY <1>11
<1>13. 6 * m + a.bits = 6 + 8 * n
  BY <1>9, <1>10, <1>12, Zenon
<1>14. CASE a.bits = 0
  <2>1. Esc6(p) = (l \o << >>) \o <<END6>>
    BY <1>1, <1>2, <1>8, <1>10, <1>14, Zenon DEF Esc6
  <2>2. (l \o << >>) \o <<END6>> \in Seq(Byte) /\ Len((l \o << >>) \o <<END6>>) = m + 1
    BY <1>11, <1>12, Codes
  <2>3. m + 1 = 2 + ((8 * n + 5) \div 6)
    BY <1>13, <1>14
  <2> QED
    BY <1>1, <2>1, <2>2, <2>3, Zenon
<1>15. CASE a.bits # 0
  <2>1. PICK s : s = LastSextet(a)
    OBVIOUS
  <2>2. s \in Byte
    <3>1. a.v \in Nat
      BY <1>9 DEF Accumulator
    <3>2. PICK z \in 0 .. 63 : z = Shl(a.v, 6 - a.bits) % 64
      <4>1. a.bits = 2 => 6 - a.bits = 4
        OBVIOUS
      <4>2. a.bits = 4 => 6 - a.bits = 2
        OBVIOUS
      <4> QED
        BY <1>11, <1>15, <3>1, <4>1, <4>2, LeftOver, Zenon
    <3>3. s = BASE6 + z
      BY <2>1, <3>2, Zenon DEF LastSextet
    <3> QED
      BY <3>3, Codes DEF Byte
  <2>3. Esc6(p) = (l \o <<s>>) \o <<END6>>
    BY <1>1, <1>2, <1>8, <1>10, <1>15, <2>1, Zenon DEF Esc6, LastSextet
  <2>4. (l \o <<s>>) \o <<END6>> \in Seq(Byte) /\ Len((l \o <<s>>) \o <<END6>>) = m + 2
    BY <1>11, <1>12, <2>2, Codes
  <2>5. m + 2 = 2 + ((8 * n + 5) \div 6)
    BY <1>11, <1>13, <1>15
  <2> QED
    BY <1>1, <2>3, <2>4, <2>5, Zenon
<1> QED
  BY <1>14, <1>15

-----------------------------------------------------------------------------
(* Theorems.                                                               *)

\* What is written for a packet, whatever came before it, makes a receiver hand up that packet
\* after those it had, and none if it is too short.
LEMMA EncodeHeard ==
  ASSUME NEW six \in BOOLEAN, NEW g \in Seq(Byte), NEW p \in Seq(Byte)
  PROVE  \E up \in Seq(Seq(Byte)) : /\ HandsUp(Final(six, g \o Encode(six, p)), p, up)
                                    /\ g = << >> => up = << >>
<1>1. PICK r : r = Final(six, g)
  OBVIOUS
<1>2. r \in Receiver /\ (g = << >> => r = NewReceiver)
  BY <1>1, FinalSteps
<1>3. NewReceiver.buf = << >> /\ NewReceiver.up = << >> /\ ~Deliverable(<< >>)
  BY DEF NewReceiver, Deliverable
<1>4. END \in Byte /\ END6 \in Byte
  BY Codes
<1>5. ASSUME NEW t, t \in Receiver, t.up = IF Deliverable(r.buf) THEN Append(r.up, r.buf) ELSE r.up
      PROVE  t.up \in Seq(Seq(Byte)) /\ (g = << >> => t.up = << >>)
  <2>1. t.up \in Seq(Seq(Byte))
    BY <1>5 DEF Receiver
  <2>2. g = << >> => t.up = << >>
    BY <1>2, <1>3, <1>5, Zenon
  <2> QED
    BY <2>1, <2>2
<1>6. CASE six
  <2>1. PICK t : t = Hear(six, r, END6)
    OBVIOUS
  <2>2. t \in Receiver
    BY <1>2, <1>4, <2>1, HearType, Zenon
  <2>3. t.up = IF Deliverable(r.buf) THEN Append(r.up, r.buf) ELSE r.up
    BY <1>2, <1>6, <2>1, End6Heard, Zenon DEF Ended
  <2>4. HandsUp(Final(six, g \o Esc6(p)), p, t.up)
    BY <1>1, <1>6, <2>1, Esc6Heard, Zenon
  <2>5. Encode(six, p) = Esc6(p)
    BY <1>6, Zenon DEF Encode
  <2> QED
    BY <1>5, <2>2, <2>3, <2>4, <2>5, Zenon
<1>7. CASE ~six
  <2>1. PICK t : t = Hear(six, r, END)
    OBVIOUS
  <2>2. t \in Receiver
    BY <1>2, <1>4, <2>1, HearType, Zenon
  <2>3. t.up = IF Deliverable(r.buf) THEN Append(r.up, r.buf) ELSE r.up
    <3>1. PICK d : d = [r.dec EXCEPT !.esc = FALSE]
      OBVIOUS
    <3>2. PICK u : u = IF Deliverable(r.buf) THEN Append(r.up, r.buf) ELSE r.up
      OBVIOUS
    <3>3. t = [dec |-> d, buf |-> << >>, up |-> u]
      BY <1>2, <1>7, <2>1, <3>1, <3>2, EndHeard
    <3>4. t.up = u
      BY <3>3
    <3> QED
      BY <3>2, <3>4, Zenon
  <2>4. HandsUp(Final(six, g \o Esc(p)), p, t.up)
    <3>1. Received(six, g \o Esc(p)) = IF Deliverable(p) THEN Append(t.up, p) ELSE t.up
      BY <1>1, <1>7, <2>1, EscHeard, Zenon
    <3> QED
      BY <3>1, Zenon DEF HandsUp, Received, Final
  <2>5. Encode(six, p) = Esc(p)
    BY <1>7, Zenon DEF Encode
  <2> QED
    BY <1>5, <2>2, <2>3, <2>4, <2>5, Zenon
<1> QED
  BY <1>6, <1>7

\* The packet grows byte by byte, and stays one: what the other theorems rest on.
PacketInv == packet \in Seq(Byte) /\ printable \in BOOLEAN

\* The packet is a sequence of bytes for ever.
LEMMA CodecTyped == CheckSpec => []PacketInv
<1>1. CheckInit => PacketInv
  BY DEF CheckInit, PacketInv
<1>2. PacketInv /\ [CheckNext]_<<packet, printable>> => PacketInv'
  <2> SUFFICES ASSUME PacketInv, [CheckNext]_<<packet, printable>> PROVE PacketInv'
    OBVIOUS
  <2>1. CASE Full \/ UNCHANGED <<packet, printable>>
    BY <2>1 DEF PacketInv, Full
  <2>2. ASSUME NEW b \in Bytes, Grow(b) PROVE PacketInv'
    <3>1. b \in Byte
      BY CheckAssumption
    <3>2. packet' = Append(packet, b) /\ printable' = printable
      BY <2>2 DEF Grow
    <3> QED
      BY <3>1, <3>2 DEF PacketInv
  <2> QED
    BY <2>1, <2>2 DEF CheckNext
<1> QED
  BY <1>1, <1>2, PTL DEF CheckSpec

\* What slip_esc or slip_esc6 sends, slip_unesc or slip_unesc6 hands up unchanged: for packets
\* of every length, made of any bytes.
THEOREM RoundTripHolds == CheckSpec => []RoundTrip
<1>1. PacketInv => RoundTrip
  <2> SUFFICES ASSUME PacketInv PROVE RoundTrip
    OBVIOUS
  <2>1. packet \in Seq(Byte) /\ printable \in BOOLEAN /\ << >> \in Seq(Byte)
    BY DEF PacketInv
  <2>2. PICK e : e = Encode(printable, packet)
    OBVIOUS
  <2>3. e \in Seq(Byte)
    BY <2>1, <2>2, EscLength, Esc6Length, Zenon DEF Encode
  <2>4. << >> \o e = e
    BY <2>3
  <2>5. HandsUp(Final(printable, << >> \o e), packet, << >>)
    BY <2>1, <2>2, EncodeHeard, Zenon
  <2>6. Received(printable, e) = IF Deliverable(packet) THEN Append(<< >>, packet) ELSE << >>
    BY <2>4, <2>5, Zenon DEF HandsUp, Received, Final
  <2>7. Append(<< >>, packet) = <<packet>>
    OBVIOUS
  <2> QED
    BY <2>2, <2>6, <2>7, Zenon DEF RoundTrip
<1> QED
  BY <1>1, CodecTyped, PTL

\* The leading END protects a frame from what noise left in the receiver, whatever that is.
THEOREM FlushesHolds == CheckSpec => []Flushes
<1>1. PacketInv => Flushes
  <2> SUFFICES ASSUME PacketInv, Deliverable(packet), NEW g \in Garbage, NEW up,
                      up = Received(printable, g \o Encode(printable, packet))
               PROVE  up # << >> /\ Last(up) = packet
    BY DEF Flushes
  <2>1. packet \in Seq(Byte) /\ printable \in BOOLEAN /\ g \in Seq(Byte)
    BY CheckAssumption DEF PacketInv
  <2>2. PICK old \in Seq(Seq(Byte)) : HandsUp(Final(printable, g \o Encode(printable, packet)), packet, old)
    BY <2>1, EncodeHeard, Zenon
  <2>3. up = Append(old, packet)
    BY <2>2, Zenon DEF HandsUp, Received, Final
  <2>4. Len(up) = Len(old) + 1 /\ up[Len(old) + 1] = packet /\ Len(old) \in Nat
    BY <2>1, <2>3
  <2>5. up # << >>
    BY <2>4
  <2> QED
    BY <2>4, <2>5 DEF Last
<1> QED
  BY <1>1, CodecTyped, PTL

\* The length of a frame is what sl_alloc_bufs and module SlipTx take it to be.
THEOREM FrameLengthHolds == CheckSpec => []FrameLength
<1>1. PacketInv => FrameLength
  <2> SUFFICES ASSUME PacketInv PROVE FrameLength
    OBVIOUS
  <2>1. packet \in Seq(Byte) /\ printable \in BOOLEAN
    BY DEF PacketInv
  <2>2. {i \in DOMAIN packet : packet[i] \in {END, ESC}} = Specials(packet, Len(packet))
    BY <2>1 DEF Specials
  <2>3. PICK special : special = Cardinality(Specials(packet, Len(packet)))
    OBVIOUS
  <2>4. special \in Nat /\ Len(packet) \in Nat
    BY <2>1, <2>3, SpecialsGrow
  <2>5. CASE printable
    <3>1. Len(Encode(printable, packet)) = 2 + ((8 * Len(packet) + 5) \div 6)
      BY <2>1, <2>5, Esc6Length, Zenon DEF Encode
    <3> QED
      BY <2>5, <3>1, Zenon DEF FrameLength
  <2>6. CASE ~printable
    <3>1. Len(Encode(printable, packet)) = 2 + Len(packet) + special
      BY <2>1, <2>3, <2>6, EscLength, Zenon DEF Encode
    <3>2. 2 + Len(packet) + special = 2 + (Len(packet) + special)
      BY <2>4
    <3> QED
      BY <2>2, <2>3, <2>6, <3>1, <3>2, Zenon DEF FrameLength
  <2> QED
    BY <2>5, <2>6
<1> QED
  BY <1>1, CodecTyped, PTL

=============================================================================
