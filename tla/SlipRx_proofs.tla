---------------------------- MODULE SlipRx_proofs ----------------------------
(***************************************************************************)
(* The receive half of a channel keeps its bounds, and hands up every      *)
(* frame that nobody interferes with: proved for any packets, both         *)
(* encodings, any noise and any administration.                            *)
(***************************************************************************)
EXTENDS SlipRx, SlipCodec_proofs

-----------------------------------------------------------------------------
(* Frames and what a receiver makes of them.                               *)

\* The byte that ends a frame.
Delimiter(six) == IF six THEN END6 ELSE END

\* The decoder takes that byte, and no other, for the end.
LEMMA OnlyDelimiterEnds ==
  ASSUME NEW six \in BOOLEAN, NEW d, NEW s
  PROVE  Decode(six, d, s).kind = "end" <=> s = Delimiter(six)
<1>1. CASE ~six
  <2>1. Decode(six, d, s) = Unesc(d, s) /\ Delimiter(six) = END
    BY <1>1, Zenon DEF Decode, Delimiter
  <2> QED
    BY <2>1 DEF Unesc
<1>2. CASE six
  <2>1. Decode(six, d, s) = Unesc6(d, s) /\ Delimiter(six) = END6
    BY <1>2, Zenon DEF Decode, Delimiter
  <2>2. PICK x : x = (d.xdata * 64 + (s - BASE6)) % XdataSize
    OBVIOUS
  <2>3. PICK b : b = d.xbits + 6
    OBVIOUS
  <2>4. Unesc6Char(d, s, x, b).kind # "end"
    BY DEF Unesc6Char
  <2>5. CASE s = END6
    BY <2>1, <2>5 DEF Unesc6
  <2>6. CASE s # END6
    BY <2>1, <2>2, <2>3, <2>4, <2>6 DEF Unesc6
  <2> QED
    BY <2>5, <2>6
<1> QED
  BY <1>1, <1>2

\* What is written before the end of a frame: a delimiter, and then none.
Opened(six, l) ==
  /\ l \in Seq(Byte) /\ Len(l) >= 1
  /\ l[1] = Delimiter(six)
  /\ \A j \in 2 .. Len(l) : l[j] # Delimiter(six)

\* A frame: opened and closed.
Framed(six, l) ==
  /\ l \in Seq(Byte) /\ Len(l) >= 2
  /\ l[1] = Delimiter(six) /\ l[Len(l)] = Delimiter(six)
  /\ \A j \in 2 .. Len(l) - 1 : l[j] # Delimiter(six)

\* The delimiter is a byte.
LEMMA Delimiters ==
  ASSUME NEW six \in BOOLEAN
  PROVE  Delimiter(six) \in Byte
BY Codes DEF Delimiter

\* One more byte.
LEMMA OpenedFurther ==
  ASSUME NEW six \in BOOLEAN, NEW l, Opened(six, l), NEW s \in Byte, s # Delimiter(six)
  PROVE  Opened(six, Append(l, s))
<1>1. PICK m : m = Append(l, s)
  OBVIOUS
<1>2. l \in Seq(Byte) /\ Len(l) >= 1
  BY DEF Opened
<1>3. m \in Seq(Byte) /\ Len(m) = Len(l) + 1 /\ m[Len(l) + 1] = s
      /\ \A j \in 1 .. Len(l) : m[j] = l[j]
  BY <1>1, <1>2
<1>4. \A j \in 2 .. Len(m) : (j \in 2 .. Len(l)) \/ j = Len(l) + 1
  BY <1>2, <1>3
<1>5. \A j \in 2 .. Len(l) : j \in 1 .. Len(l)
  BY <1>2
<1>6. Len(m) >= 1 /\ 1 \in 1 .. Len(l)
  BY <1>2, <1>3
<1>7. \A j \in 2 .. Len(m) : m[j] # Delimiter(six)
  BY <1>3, <1>4, <1>5 DEF Opened
<1> QED
  BY <1>1, <1>3, <1>6, <1>7 DEF Opened

\* The last one.
LEMMA OpenedClosed ==
  ASSUME NEW six \in BOOLEAN, NEW l, Opened(six, l)
  PROVE  Framed(six, Append(l, Delimiter(six)))
<1>1. PICK m : m = Append(l, Delimiter(six))
  OBVIOUS
<1>2. l \in Seq(Byte) /\ Len(l) >= 1
  BY DEF Opened
<1>3. m \in Seq(Byte) /\ Len(m) = Len(l) + 1 /\ m[Len(l) + 1] = Delimiter(six)
      /\ \A j \in 1 .. Len(l) : m[j] = l[j]
  BY <1>1, <1>2, Delimiters
<1>4. \A j \in 2 .. Len(m) - 1 : j \in 2 .. Len(l) /\ j \in 1 .. Len(l)
  BY <1>2, <1>3
<1>5. Len(m) >= 2 /\ 1 \in 1 .. Len(l)
  BY <1>2, <1>3
<1>6. m[1] = Delimiter(six) /\ m[Len(m)] = Delimiter(six)
  BY <1>3, <1>5 DEF Opened
<1>7. \A j \in 2 .. Len(m) - 1 : m[j] # Delimiter(six)
  BY <1>3, <1>4 DEF Opened
<1> QED
  BY <1>1, <1>3, <1>5, <1>6, <1>7 DEF Framed

\* A frame opens with its delimiter.
LEMMA Beginning ==
  ASSUME NEW six \in BOOLEAN
  PROVE  Opened(six, <<Delimiter(six)>>)
<1>1. PICK l : l = <<Delimiter(six)>>
  OBVIOUS
<1>2. l \in Seq(Byte) /\ Len(l) = 1 /\ l[1] = Delimiter(six)
  BY <1>1, Delimiters
<1>3. \A j \in 2 .. Len(l) : l[j] # Delimiter(six)
  BY <1>2
<1> QED
  BY <1>1, <1>2, <1>3 DEF Opened

\* slip_esc writes a frame.
LEMMA EscFramed ==
  ASSUME NEW six \in BOOLEAN, ~six, NEW p \in Seq(Byte)
  PROVE  Framed(six, Esc(p))
<1>1. PICK n \in Nat : n = Len(p)
  OBVIOUS
<1>2. PICK out : out = EscLoop(p)
  OBVIOUS
<1>3. out \in [0 .. n -> Seq(Byte)] /\ out[0] = <<END>>
      /\ \A k \in 1 .. n : out[k] = out[k - 1] \o Stuffed(p[k])
  BY <1>1, <1>2, EscRuns
<1>4. Delimiter(six) = END
  BY Zenon DEF Delimiter
<1> DEFINE H == {k \in 0 .. n : Opened(six, out[k])}
<1>5. 0 \in H
  <2>1. Opened(six, out[0])
    BY <1>3, <1>4, Beginning, Zenon
  <2> QED
    BY <2>1
<1>6. ASSUME NEW k \in 1 .. n, k - 1 \in H PROVE k \in H
  <2>1. k - 1 \in 0 .. n /\ k \in 0 .. n /\ p[k] \in Byte
    BY <1>1
  <2>2. PICK a : a = out[k - 1]
    OBVIOUS
  <2>3. Opened(six, a) /\ a \in Seq(Byte)
    BY <1>6, <2>2 DEF Opened
  <2>4. ESC # END /\ ESC_END # END /\ ESC_ESC # END
    BY Codes
  <2>5. out[k] = a \o Stuffed(p[k])
    BY <1>3, <2>2
  <2>6. CASE p[k] \in {END, ESC}
    <3>1. PICK u \in {ESC_END, ESC_ESC} : Stuffed(p[k]) = <<ESC, u>>
      BY <2>1, <2>6, StuffedCases
    <3>2. ESC \in Byte /\ u \in Byte /\ u # END
      BY <2>4, Codes
    <3>3. out[k] = Append(Append(a, ESC), u)
      BY <2>3, <2>5, <3>1, <3>2, Endings
    <3>4. Opened(six, Append(a, ESC))
      BY <1>4, <2>3, <2>4, <3>2, OpenedFurther, Zenon
    <3>5. Opened(six, Append(Append(a, ESC), u))
      BY <1>4, <3>2, <3>4, OpenedFurther, Zenon
    <3> QED
      BY <2>1, <3>3, <3>5
  <2>7. CASE p[k] \notin {END, ESC}
    <3>1. Stuffed(p[k]) = <<p[k]>> /\ p[k] # END
      BY <2>1, <2>7, StuffedCases
    <3>2. out[k] = Append(a, p[k])
      BY <2>1, <2>3, <2>5, <3>1, Endings
    <3>3. Opened(six, Append(a, p[k]))
      BY <1>4, <2>1, <2>3, <3>1, OpenedFurther, Zenon
    <3> QED
      BY <2>1, <3>2, <3>3
  <2> QED
    BY <2>6, <2>7
<1>7. H = 0 .. n
  <2>1. H \in SUBSET (0 .. n)
    OBVIOUS
  <2> HIDE DEF H
  <2> QED
    BY <1>5, <1>6, <2>1, Along
<1>8. PICK a : a = out[n]
  OBVIOUS
<1>9. Opened(six, a) /\ a \in Seq(Byte)
  <2>1. n \in 0 .. n
    OBVIOUS
  <2> QED
    BY <1>7, <1>8, <2>1 DEF Opened
<1>10. Esc(p) = Append(a, END)
  <2>1. Esc(p) = a \o <<END>>
    BY <1>1, <1>2, <1>8 DEF Esc
  <2> QED
    BY <1>9, <2>1, Codes, Endings
<1> QED
  BY <1>4, <1>9, <1>10, OpenedClosed, Zenon

\* So does slip_esc6: its other characters are below the delimiter.
LEMMA Esc6Framed ==
  ASSUME NEW six \in BOOLEAN, six, NEW p \in Seq(Byte)
  PROVE  Framed(six, Esc6(p))
<1>1. PICK n \in Nat : n = Len(p)
  OBVIOUS
<1>2. PICK acc : acc = Esc6Loop(p)
  OBVIOUS
<1>3. acc \in [0 .. n -> Accumulator] /\ acc[0] = NoSextets
      /\ \A k \in 1 .. n : acc[k] = Sextets(acc[k - 1], p[k])
  BY <1>1, <1>2, Esc6Runs
<1>4. Delimiter(six) = END6
  BY Zenon DEF Delimiter
<1>5. ASSUME NEW z \in 0 .. 63
      PROVE  BASE6 + z \in Byte /\ BASE6 + z # Delimiter(six)
  <2>1. 48 + z \in 0 .. 255 /\ 48 + z # 112
    BY SMT
  <2>2. BASE6 = 48 /\ Delimiter(six) = 112
    BY <1>4, Codes, Zenon
  <2> QED
    BY <2>1, <2>2, Zenon DEF Byte
<1> DEFINE H == {k \in 0 .. n : Opened(six, acc[k].out)}
<1>6. 0 \in H
  <2>1. acc[0].out = <<END6>>
    BY <1>3 DEF NoSextets
  <2>2. Opened(six, acc[0].out)
    BY <1>4, <2>1, Beginning, Zenon
  <2>3. 0 \in 0 .. n
    OBVIOUS
  <2> QED
    BY <2>2, <2>3, Zenon
<1>7. ASSUME NEW k \in 1 .. n, k - 1 \in H PROVE k \in H
  <2>1. k - 1 \in 0 .. n /\ k \in 0 .. n /\ p[k] \in Byte
    BY <1>1
  <2>2. PICK a \in Accumulator : a = acc[k - 1]
    BY <1>3, <2>1
  <2>3. PICK c \in 0 .. 255 : c = p[k]
    BY <2>1 DEF Byte
  <2>4. PICK t : t = Sextets(a, c)
    OBVIOUS
  <2>5. Spelt(t, a, c)
    BY <2>1, <2>3, <2>4, SextetsSpell, Zenon
  <2>6. PICK l : l = a.out
    OBVIOUS
  <2>7. Opened(six, l)
    BY <1>7, <2>2, <2>6
  <2>8. a.bits \in {0, 2, 4} /\ a.v \in Nat
    BY DEF Accumulator
  <2>9. c \div 4 \in 0 .. 63 /\ c \div 16 \in 0 .. 15 /\ c \div 64 \in 0 .. 3 /\ c % 64 \in 0 .. 63
    BY SMT
  <2>10. a.v % 4 \in 0 .. 3 /\ a.v % 16 \in 0 .. 15
    <3>1. PICK v \in Nat : v = a.v
      BY <2>8, Zenon
    <3>2. v % 4 \in 0 .. 3 /\ v % 16 \in 0 .. 15
      BY SMT
    <3> QED
      BY <3>1, <3>2, Zenon
  <2>11. 16 * (a.v % 4) + (c \div 16) \in 0 .. 63 /\ 4 * (a.v % 16) + (c \div 64) \in 0 .. 63
    <3>1. PICK x \in 0 .. 3 : x = a.v % 4
      BY <2>10, Zenon
    <3>2. PICK y \in 0 .. 15 : y = a.v % 16
      BY <2>10, Zenon
    <3>3. PICK w \in 0 .. 15 : w = c \div 16
      BY <2>9, Zenon
    <3>4. PICK z \in 0 .. 3 : z = c \div 64
      BY <2>9, Zenon
    <3>5. 16 * x + w \in 0 .. 63 /\ 4 * y + z \in 0 .. 63
      BY SMT
    <3> QED
      BY <3>1, <3>2, <3>3, <3>4, <3>5, Zenon
  <2>12. CASE a.bits \in {0, 2}
    <3>1. PICK z \in 0 .. 63 : t.out = Append(l, BASE6 + z)
      <4>1. CASE a.bits = 0
        <5>1. t.out = Append(l, BASE6 + (c \div 4))
          BY <2>5, <2>6, <4>1, Zenon DEF Spelt
        <5> QED
          BY <2>9, <5>1, Zenon
      <4>2. CASE a.bits = 2
        <5>1. t.out = Append(l, BASE6 + (16 * (a.v % 4) + (c \div 16)))
          BY <2>5, <2>6, <4>2, Zenon DEF Spelt
        <5> QED
          BY <2>11, <5>1, Zenon
      <4> QED
        BY <2>12, <4>1, <4>2
    <3>2. Opened(six, t.out)
      BY <1>5, <2>7, <3>1, OpenedFurther, Zenon
    <3> QED
      BY <1>3, <2>1, <2>2, <2>3, <2>4, <3>2
  <2>13. CASE a.bits = 4
    <3>1. PICK y \in 0 .. 63 : y = 4 * (a.v % 16) + (c \div 64)
      BY <2>11, Zenon
    <3>2. PICK z \in 0 .. 63 : z = c % 64
      BY <2>9, Zenon
    <3>3. t.out = Append(Append(l, BASE6 + y), BASE6 + z)
      BY <2>5, <2>6, <2>13, <3>1, <3>2, Zenon DEF Spelt
    <3>4. Opened(six, Append(l, BASE6 + y))
      BY <1>5, <2>7, OpenedFurther, Zenon
    <3>5. Opened(six, t.out)
      BY <1>5, <3>3, <3>4, OpenedFurther, Zenon
    <3> QED
      BY <1>3, <2>1, <2>2, <2>3, <2>4, <3>5
  <2> QED
    BY <2>8, <2>12, <2>13
<1>8. H = 0 .. n
  <2>1. H \in SUBSET (0 .. n)
    OBVIOUS
  <2> HIDE DEF H
  <2> QED
    BY <1>6, <1>7, <2>1, Along
<1>9. n \in 0 .. n
  OBVIOUS
<1>10. PICK a \in Accumulator : a = acc[n]
  BY <1>3, <1>9
<1>11. PICK l : l = a.out
  OBVIOUS
<1>12. Opened(six, l) /\ l \in Seq(Byte)
  BY <1>8, <1>9, <1>10, <1>11 DEF Opened
<1>13. END6 \in Byte /\ <<END6>> \in Seq(Byte)
  BY Codes
<1>14. CASE a.bits = 0
  <2>1. Esc6(p) = (l \o << >>) \o <<END6>>
    BY <1>1, <1>2, <1>10, <1>11, <1>14, Zenon DEF Esc6
  <2>2. (l \o << >>) \o <<END6>> = Append(l, END6)
    BY <1>12, <1>13
  <2> QED
    BY <1>4, <1>12, <2>1, <2>2, OpenedClosed, Zenon
<1>15. CASE a.bits # 0
  <2>1. PICK x : x = Shl(a.v, 6 - a.bits) % 64
    OBVIOUS
  <2>2. x \in 0 .. 63
    <3>1. a.bits \in {2, 4} /\ a.v \in Nat
      BY <1>15 DEF Accumulator
    <3>2. PICK y \in Nat : y = Shl(a.v, 6 - a.bits)
      <4>1. 6 - a.bits \in {2, 4}
        BY <3>1
      <4>2. Shl(a.v, 2) = 4 * a.v /\ Shl(a.v, 4) = 16 * a.v
        BY <3>1, Shifts
      <4> QED
        BY <3>1, <4>1, <4>2
    <3>3. y % 64 \in 0 .. 63
      BY SMT
    <3> QED
      BY <2>1, <3>2, <3>3, Zenon
  <2>3. PICK s : s = BASE6 + x
    OBVIOUS
  <2>4. s \in Byte /\ s # Delimiter(six)
    BY <1>5, <2>2, <2>3, Zenon
  <2>5. PICK m : m = Append(l, s)
    OBVIOUS
  <2>6. Opened(six, m)
    BY <1>12, <2>4, <2>5, OpenedFurther, Zenon
  <2>7. m \in Seq(Byte)
    BY <2>6 DEF Opened
  <2>8. Esc6(p) = (l \o <<s>>) \o <<END6>>
    BY <1>1, <1>2, <1>10, <1>11, <1>15, <2>1, <2>3, Zenon DEF Esc6
  <2>9. l \o <<s>> = m /\ m \o <<END6>> = Append(m, END6)
    BY <1>12, <1>13, <2>4, <2>5, <2>7, Endings, Zenon
  <2> QED
    BY <1>4, <2>6, <2>8, <2>9, OpenedClosed, Zenon
<1> QED
  BY <1>14, <1>15

\* A packet is sent in a frame.
LEMMA EncodeFramed ==
  ASSUME NEW six \in BOOLEAN, NEW p \in Seq(Byte)
  PROVE  Framed(six, Encode(six, p))
BY EscFramed, Esc6Framed, Zenon DEF Encode

\* R[k] is what a receiver has made of the first k bytes of the frame of a packet p: nothing after
\* the leading delimiter, the packet before the last one, and never more than that.
Traced(six, p, R, n) ==
  /\ n \in Nat /\ n >= 2 /\ R \in [0 .. n -> Receiver]
  /\ R[0].buf = << >> /\ R[1].buf = << >> /\ R[n - 1].buf = p
  /\ \A k \in 0 .. n - 1 : Len(R[k].buf) <= Len(p)

\* A frame of a deliverable packet is heard that way.
LEMMA FrameTraced ==
  ASSUME NEW six \in BOOLEAN, NEW p \in Seq(Byte), Deliverable(p)
  PROVE  Traced(six, p, Reception(six, Encode(six, p)), Len(Encode(six, p)))
<1>1. PICK l : l = Encode(six, p)
  OBVIOUS
<1>2. Framed(six, l)
  BY <1>1, EncodeFramed, Zenon
<1>3. l \in Seq(Byte) /\ Len(l) >= 2
  BY <1>2 DEF Framed
<1>4. PICK n \in Nat : n = Len(l) /\ n >= 2
  BY <1>3
<1>5. PICK R : R = Reception(six, l)
  OBVIOUS
<1>6. R \in [0 .. n -> Receiver] /\ R[0] = NewReceiver
      /\ \A k \in 1 .. n : R[k] = Hear(six, R[k - 1], l[k])
  BY <1>3, <1>4, <1>5, ReceptionRuns
<1>7. R[0].buf = << >> /\ R[0].up = << >> /\ ~Deliverable(<< >>)
  BY <1>6 DEF NewReceiver, Deliverable
<1>8. ASSUME NEW k \in 1 .. n
      PROVE  k - 1 \in 0 .. n /\ k \in 0 .. n /\ R[k - 1] \in Receiver /\ R[k] \in Receiver
             /\ l[k] \in Byte /\ R[k] = Hear(six, R[k - 1], l[k])
  BY <1>3, <1>4, <1>6
\* A delimiter.
<1>9. ASSUME NEW k \in 1 .. n, l[k] = Delimiter(six)
      PROVE  /\ R[k].buf = << >>
             /\ R[k].up = IF Deliverable(R[k - 1].buf) THEN Append(R[k - 1].up, R[k - 1].buf)
                          ELSE R[k - 1].up
  <2>1. PICK r \in Receiver : r = R[k - 1]
    BY <1>8
  <2>2. PICK m : m = Decode(six, r.dec, l[k])
    OBVIOUS
  <2>3. m.kind = "end"
    BY <1>9, <2>2, OnlyDelimiterEnds, Zenon
  <2>4. R[k] = Hear(six, r, l[k])
    BY <1>8, <2>1, Zenon
  <2>5. PICK u : u = IF Deliverable(r.buf) THEN Append(r.up, r.buf) ELSE r.up
    OBVIOUS
  <2>6. Hear(six, r, l[k]) = [dec |-> m.dec, buf |-> << >>, up |-> u]
    BY <2>2, <2>3, <2>5 DEF Hear
  <2>7. R[k].buf = << >> /\ R[k].up = u
    BY <2>4, <2>6
  <2> QED
    BY <2>1, <2>5, <2>7, Zenon
\* Any other byte.
<1>10. ASSUME NEW k \in 1 .. n, l[k] # Delimiter(six)
       PROVE  R[k].up = R[k - 1].up /\ Len(R[k - 1].buf) <= Len(R[k].buf)
  <2>1. PICK r \in Receiver : r = R[k - 1]
    BY <1>8
  <2>2. PICK m : m = Decode(six, r.dec, l[k])
    OBVIOUS
  <2>3. m.kind # "end" /\ r.dec \in Decoder
    BY <1>10, <2>2, OnlyDelimiterEnds, Zenon DEF Receiver
  <2>4. m.kind \in {"end", "data", "none"} /\ m.byte \in Byte
    BY <1>8, <2>2, <2>3, UnescType, Unesc6Type DEF Decode, Receiver
  <2>5. R[k] = Hear(six, r, l[k])
    BY <1>8, <2>1, Zenon
  <2>6. r.buf \in Seq(Byte)
    BY DEF Receiver
  <2>7. CASE m.kind = "data"
    <3>1. Hear(six, r, l[k]) = [r EXCEPT !.dec = m.dec, !.buf = Append(r.buf, m.byte)]
      BY <2>2, <2>7 DEF Hear
    <3>2. R[k].up = r.up /\ R[k].buf = Append(r.buf, m.byte)
      BY <2>5, <3>1 DEF Receiver
    <3>3. Len(Append(r.buf, m.byte)) = Len(r.buf) + 1 /\ Len(r.buf) \in Nat
      BY <2>4, <2>6
    <3> QED
      BY <2>1, <3>2, <3>3
  <2>8. CASE m.kind = "none"
    <3>1. Hear(six, r, l[k]) = [r EXCEPT !.dec = m.dec]
      BY <2>2, <2>8 DEF Hear
    <3>2. R[k].up = r.up /\ R[k].buf = r.buf
      BY <2>5, <3>1 DEF Receiver
    <3>3. Len(r.buf) \in Nat
      BY <2>6
    <3> QED
      BY <2>1, <3>2, <3>3
  <2> QED
    BY <2>3, <2>4, <2>7, <2>8
<1>11. l[1] = Delimiter(six) /\ l[n] = Delimiter(six)
       /\ \A j \in 2 .. n - 1 : l[j] # Delimiter(six)
  BY <1>2, <1>4 DEF Framed
<1>12. 1 \in 1 .. n /\ n \in 1 .. n /\ n - 1 \in 1 .. n /\ 1 - 1 = 0
  BY <1>4
<1>13. R[1].buf = << >> /\ R[1].up = << >>
  <2>1. R[1].buf = << >> /\ R[1].up = IF Deliverable(R[0].buf) THEN Append(R[0].up, R[0].buf)
                                       ELSE R[0].up
    BY <1>9, <1>11, <1>12
  <2> QED
    BY <1>7, <2>1, Zenon
<1>14. PICK m \in Nat : m = n - 2
  BY <1>4
<1> DEFINE H == {i \in 0 .. m : R[i + 1].up = << >>}
           Grows(i) == \A j \in 0 .. i : Len(R[j + 1].buf) <= Len(R[i + 1].buf)
           G == {i \in 0 .. m : Grows(i)}
<1>15. ASSUME NEW i \in 1 .. m
       PROVE  /\ i + 1 \in 1 .. n /\ (i + 1) - 1 = i /\ (i - 1) + 1 = i /\ i \in 0 .. m
              /\ l[i + 1] # Delimiter(six)
  <2>1. i + 1 \in 2 .. n - 1 /\ i + 1 \in 1 .. n
    BY <1>4, <1>14
  <2>2. (i + 1) - 1 = i /\ (i - 1) + 1 = i /\ i \in 0 .. m
    BY <1>14
  <2> QED
    BY <1>11, <2>1, <2>2
<1>16. H = 0 .. m
  <2>1. 0 \in 0 .. m /\ 0 + 1 = 1
    BY <1>14
  <2>2. 0 \in H
    BY <1>13, <2>1
  <2>3. ASSUME NEW i \in 1 .. m, i - 1 \in H PROVE i \in H
    <3>1. R[i].up = << >>
      BY <1>15, <2>3
    <3>2. R[i + 1].up = R[i].up
      BY <1>10, <1>15
    <3> QED
      BY <1>15, <3>1, <3>2
  <2>4. H \in SUBSET (0 .. m)
    OBVIOUS
  <2> HIDE DEF H
  <2> QED
    BY <2>2, <2>3, <2>4, Along
<1>17. G = 0 .. m
  <2>1. \A j \in 0 .. n : Len(R[j].buf) \in Nat
    BY <1>6 DEF Receiver
  <2>2. 0 \in G
    <3>1. 0 \in 0 .. m /\ \A j \in 0 .. 0 : j = 0
      BY <1>14
    <3>2. Len(R[0 + 1].buf) \in Nat
      BY <1>4, <2>1
    <3> QED
      BY <3>1, <3>2
  <2>3. ASSUME NEW i \in 1 .. m, i - 1 \in G PROVE i \in G
    <3>1. \A j \in 0 .. i - 1 : Len(R[j + 1].buf) <= Len(R[i].buf)
      BY <1>15, <2>3
    <3>2. Len(R[i].buf) <= Len(R[i + 1].buf)
      BY <1>10, <1>15
    <3>3. \A j \in 0 .. i : j + 1 \in 0 .. n /\ (j \in 0 .. i - 1 \/ j = i)
      BY <1>4, <1>14
    <3>4. i \in 0 .. n /\ i + 1 \in 0 .. n
      BY <1>4, <1>14
    <3>5. \A j \in 0 .. i : Len(R[j + 1].buf) <= Len(R[i + 1].buf)
      <4> TAKE j \in 0 .. i
      <4>1. PICK x \in Nat : x = Len(R[j + 1].buf)
        BY <2>1, <3>3
      <4>2. PICK y \in Nat : y = Len(R[i].buf)
        BY <2>1, <3>4
      <4>3. PICK z \in Nat : z = Len(R[i + 1].buf)
        BY <2>1, <3>4
      <4>4. CASE j = i
        BY <4>1, <4>4
      <4>5. CASE j \in 0 .. i - 1
        <5>1. x <= y /\ y <= z
          BY <3>1, <3>2, <4>1, <4>2, <4>3, <4>5, Zenon
        <5> QED
          BY <4>1, <4>3, <5>1
      <4> QED
        BY <3>3, <4>4, <4>5, Zenon
    <3> QED
      BY <1>15, <3>5
  <2>4. G \in SUBSET (0 .. m)
    OBVIOUS
  <2> HIDE DEF G
  <2> QED
    BY <2>2, <2>3, <2>4, Along
<1>18. m \in 0 .. m /\ m + 1 = n - 1
  BY <1>4, <1>14
<1>19. R[n - 1].buf = p
  <2>1. R[n - 1].up = << >>
    BY <1>16, <1>18
  <2>2. PICK b : b = R[n - 1].buf
    OBVIOUS
  <2>3. R[n].up = IF Deliverable(b) THEN Append(<< >>, b) ELSE << >>
    BY <1>9, <1>11, <1>12, <2>1, <2>2
  <2>4. << >> \o l = l /\ << >> \in Seq(Byte)
    BY <1>3
  <2>5. HandsUp(Final(six, l), p, << >>)
    BY <1>1, <2>4, EncodeHeard, Zenon
  <2>6. R[n].up = Append(<< >>, p)
    BY <1>4, <1>5, <2>5, Zenon DEF HandsUp, Final
  <2>7. Append(<< >>, b) = <<b>> /\ Append(<< >>, p) = <<p>>
    OBVIOUS
  <2>8. <<b>> = <<p>>
    <3>1. <<p>> # << >>
      OBVIOUS
    <3> QED
      BY <2>3, <2>6, <2>7, <3>1, Zenon
  <2>9. b = p
    BY <2>8
  <2> QED
    BY <2>2, <2>9
<1>20. \A k \in 0 .. n - 1 : Len(R[k].buf) <= Len(p)
  <2>1. Len(p) \in Nat /\ Len(R[0].buf) = 0
    BY <1>7
  <2>2. Grows(m)
    BY <1>17, <1>18
  <2>3. ASSUME NEW k \in 1 .. n - 1 PROVE Len(R[k].buf) <= Len(p)
    <3>1. k - 1 \in 0 .. m /\ (k - 1) + 1 = k
      BY <1>4, <1>14
    <3>2. Len(R[(k - 1) + 1].buf) <= Len(R[m + 1].buf)
      BY <2>2, <3>1
    <3> QED
      BY <1>18, <1>19, <3>1, <3>2
  <2>4. \A k \in 0 .. n - 1 : k = 0 \/ k \in 1 .. n - 1
    BY <1>4
  <2> QED
    BY <2>1, <2>3, <2>4
<1>21. Traced(six, p, R, n)
  BY <1>4, <1>6, <1>7, <1>13, <1>19, <1>20, Zenon DEF Traced
<1> QED
  BY <1>1, <1>4, <1>5, <1>21, Zenon

\* Two decoders that go on alike: slip_unesc looks at the escape flag, slip_unesc6 at the bits.
Alike(six, d, e) == IF six THEN d.xbits = e.xbits /\ d.xdata = e.xdata ELSE d.esc = e.esc

\* They take a byte for the same thing, and go on alike after it.
SameMeeting(six, d, e, s) ==
  /\ Decode(six, d, s).kind = Decode(six, e, s).kind
  /\ Decode(six, d, s).byte = Decode(six, e, s).byte
  /\ Alike(six, Decode(six, d, s).dec, Decode(six, e, s).dec)

\* A delimiter, or any byte when they are alike before, does that to them.
LEMMA AlikeStep ==
  ASSUME NEW six \in BOOLEAN, NEW d \in Decoder, NEW e \in Decoder, NEW s \in Byte,
         Alike(six, d, e) \/ s = Delimiter(six)
  PROVE  SameMeeting(six, d, e, s)
<1>1. CASE ~six
  <2>1. Decode(six, d, s) = Unesc(d, s) /\ Decode(six, e, s) = Unesc(e, s)
        /\ (d.esc = e.esc \/ s = END)
    BY <1>1, Zenon DEF Decode, Delimiter, Alike
  <2>2. /\ [d EXCEPT !.esc = FALSE].esc = FALSE /\ [e EXCEPT !.esc = FALSE].esc = FALSE
        /\ [d EXCEPT !.esc = TRUE].esc = TRUE /\ [e EXCEPT !.esc = TRUE].esc = TRUE
    BY DEF Decoder
  <2>3. /\ Unesc(d, s).kind = Unesc(e, s).kind /\ Unesc(d, s).byte = Unesc(e, s).byte
        /\ Unesc(d, s).dec.esc = Unesc(e, s).dec.esc
    BY <2>1, <2>2 DEF Unesc
  <2> QED
    BY <1>1, <2>1, <2>3, Zenon DEF Alike, SameMeeting
<1>2. CASE six
  <2>1. Decode(six, d, s) = Unesc6(d, s) /\ Decode(six, e, s) = Unesc6(e, s)
        /\ ((d.xbits = e.xbits /\ d.xdata = e.xdata) \/ s = END6)
    BY <1>2, Zenon DEF Decode, Delimiter, Alike
  <2>2. \A x, b : LET a == [d EXCEPT !.xbits = b, !.xdata = x]
                      c == [e EXCEPT !.xbits = b, !.xdata = x]
                  IN  a.xbits = b /\ c.xbits = b /\ a.xdata = x /\ c.xdata = x
    BY DEF Decoder
  <2>3. \A x, b : /\ Unesc6Char(d, s, x, b).kind = Unesc6Char(e, s, x, b).kind
                  /\ Unesc6Char(d, s, x, b).byte = Unesc6Char(e, s, x, b).byte
                  /\ Unesc6Char(d, s, x, b).dec.xbits = Unesc6Char(e, s, x, b).dec.xbits
                  /\ Unesc6Char(d, s, x, b).dec.xdata = Unesc6Char(e, s, x, b).dec.xdata
    BY <2>2 DEF Unesc6Char
  <2>4. PICK x : x = (d.xdata * 64 + (s - BASE6)) % XdataSize
    OBVIOUS
  <2>5. PICK b : b = d.xbits + 6
    OBVIOUS
  <2>6. /\ Unesc6(d, s).kind = Unesc6(e, s).kind /\ Unesc6(d, s).byte = Unesc6(e, s).byte
        /\ Unesc6(d, s).dec.xbits = Unesc6(e, s).dec.xbits
        /\ Unesc6(d, s).dec.xdata = Unesc6(e, s).dec.xdata
    <3>1. CASE s = END6
      <4>1. PICK f : f = [d EXCEPT !.xbits = 0, !.xdata = 0]
        OBVIOUS
      <4>2. PICK g : g = [e EXCEPT !.xbits = 0, !.xdata = 0]
        OBVIOUS
      <4>3. f.xbits = 0 /\ f.xdata = 0 /\ g.xbits = 0 /\ g.xdata = 0
        BY <4>1, <4>2 DEF Decoder
      <4>4. /\ Unesc6(d, s) = [kind |-> "end", byte |-> s, dec |-> f]
            /\ Unesc6(e, s) = [kind |-> "end", byte |-> s, dec |-> g]
        BY <3>1, <4>1, <4>2, Zenon DEF Unesc6
      <4> QED
        BY <4>3, <4>4
    <3>2. CASE s # END6 /\ s \notin BASE6 .. END6 - 1
      <4>1. /\ Unesc6(d, s) = [kind |-> "none", byte |-> s, dec |-> d]
            /\ Unesc6(e, s) = [kind |-> "none", byte |-> s, dec |-> e]
        BY <3>2, Zenon DEF Unesc6
      <4>2. d.xbits = e.xbits /\ d.xdata = e.xdata
        BY <2>1, <3>2, Zenon
      <4> QED
        BY <4>1, <4>2
    <3>3. CASE s # END6 /\ s \in BASE6 .. END6 - 1
      <4>1. d.xbits = e.xbits /\ d.xdata = e.xdata
        BY <2>1, <3>3, Zenon
      <4>2. Unesc6(d, s) = Unesc6Char(d, s, x, b)
        BY <2>4, <2>5, <3>3, Zenon DEF Unesc6
      <4>3. Unesc6(e, s) = Unesc6Char(e, s, x, b)
        BY <2>4, <2>5, <3>3, <4>1, Zenon DEF Unesc6
      <4>4. /\ Unesc6Char(d, s, x, b).kind = Unesc6Char(e, s, x, b).kind
            /\ Unesc6Char(d, s, x, b).byte = Unesc6Char(e, s, x, b).byte
            /\ Unesc6Char(d, s, x, b).dec.xbits = Unesc6Char(e, s, x, b).dec.xbits
            /\ Unesc6Char(d, s, x, b).dec.xdata = Unesc6Char(e, s, x, b).dec.xdata
        BY <2>3, Zenon
      <4> QED
        BY <4>2, <4>3, <4>4, Zenon
    <3> QED
      BY <3>1, <3>2, <3>3, Zenon
  <2> QED
    BY <1>2, <2>1, <2>6, Zenon DEF Alike, SameMeeting
<1> QED
  BY <1>1, <1>2

-----------------------------------------------------------------------------
(* Types.                                                                  *)

\* The least and the greatest buffer.
LEMMA BufferBounds ==
  /\ Max(BufSizes) \in BufSizes /\ Min(BufSizes) \in BufSizes
  /\ BufSizes \subseteq Nat \ {0}
  /\ \A n \in BufSizes : Min(BufSizes) <= n /\ n <= Max(BufSizes)
<1>1. BufSizes \subseteq Nat \ {0} /\ BufSizes # {} /\ IsFiniteSet(BufSizes)
  BY RxAssumption
<1>2. PICK S \in SUBSET Nat : S = BufSizes
  BY <1>1
<1>3. PICK n \in Nat : n = Cardinality(S)
  BY <1>1, <1>2, FS_CardinalityType
<1>4. PICK f \in [1 .. n -> S] : \A s \in S : \E i \in 1 .. n : f[i] = s
  <2>1. ExistsBijection(1 .. n, S)
    BY <1>1, <1>2, <1>3, FS_CardinalityType
  <2> QED
    BY <2>1 DEF ExistsBijection, Bijection, Surjection
<1> DEFINE Bounds(b, k) == \A i \in 1 .. k : f[i] <= b
           H == {k \in 0 .. n : \E b \in Nat : Bounds(b, k)}
<1>5. 0 \in H
  <2>1. 0 \in 0 .. n /\ 0 \in Nat /\ Bounds(0, 0)
    OBVIOUS
  <2> QED
    BY <2>1
<1>6. ASSUME NEW k \in 1 .. n, k - 1 \in H PROVE k \in H
  <2>1. PICK b \in Nat : Bounds(b, k - 1)
    BY <1>6
  <2>2. PICK c \in Nat : c = f[k]
    OBVIOUS
  <2>3. PICK d \in Nat : b <= d /\ c <= d
    <3>1. b + c \in Nat /\ b <= b + c /\ c <= b + c
      OBVIOUS
    <3> QED
      BY <3>1
  <2>4. ASSUME NEW i \in 1 .. k PROVE f[i] <= d
    <3>1. i \in 1 .. n /\ (i = k \/ i \in 1 .. k - 1)
      OBVIOUS
    <3>2. PICK e \in Nat : e = f[i]
      BY <3>1
    <3>3. e <= b \/ e = c
      BY <2>1, <2>2, <3>1, <3>2
    <3> QED
      BY <2>3, <3>2, <3>3
  <2>5. k \in 0 .. n
    OBVIOUS
  <2> QED
    BY <2>4, <2>5
<1>7. H = 0 .. n
  <2>1. H \in SUBSET (0 .. n)
    OBVIOUS
  <2> HIDE DEF H
  <2> QED
    BY <1>5, <1>6, <2>1, Along
<1>8. PICK b \in Nat : \A s \in S : s <= b
  <2>1. n \in 0 .. n
    OBVIOUS
  <2>2. PICK b \in Nat : Bounds(b, n)
    BY <1>7, <2>1
  <2> QED
    BY <1>4, <2>2
<1>9. PICK x \in S : \A y \in S : x <= y
  BY <1>1, <1>2, LeastMember
<1>10. PICK z \in S : \A y \in S : y <= z
  <2> DEFINE T == {c \in Nat : \A s \in S : s <= c}
  <2>1. T \in SUBSET Nat /\ b \in T
    BY <1>8
  <2>2. PICK c \in T : \A d \in T : c <= d
    <3>1. T # {}
      BY <2>1
    <3> HIDE DEF T
    <3> QED
      BY <2>1, <3>1, LeastMember
  <2>3. c \in Nat /\ \A s \in S : s <= c
    OBVIOUS
  <2>4. c \in S
    <3> SUFFICES ASSUME c \notin S PROVE FALSE
      OBVIOUS
    <3>1. \A s \in S : s \in Nat /\ s < c
      BY <2>3
    <3>2. c # 0
      <4>1. x \in Nat /\ x < c
        BY <3>1
      <4> QED
        BY <4>1
    <3>3. c - 1 \in Nat /\ \A s \in S : s <= c - 1
      BY <2>3, <3>1, <3>2
    <3>4. c - 1 \in T
      BY <3>3
    <3>5. c <= c - 1
      <4> HIDE DEF T
      <4> QED
        BY <2>2, <3>4
    <3> QED
      BY <2>3, <3>5
  <2> QED
    BY <2>3, <2>4
<1>11. Max(S) \in S /\ \A y \in S : Max(S) >= y
  <2>1. \E w \in S : \A y \in S : w >= y
    <3>1. \A y \in S : z >= y
      BY <1>10
    <3> QED
      BY <3>1
  <2> QED
    BY <2>1, Zenon DEF Max
<1>12. Min(S) \in S /\ \A y \in S : Min(S) =< y
  BY <1>9, Zenon DEF Min
<1>13. Max(S) \in Nat /\ \A y \in S : y \in Nat
  BY <1>11
<1> QED
  BY <1>1, <1>2, <1>11, <1>12, <1>13

\* What a cell of rbuff holds: a byte, or what was there when it was allocated.
Cells == Byte \cup {-1}

\* A byte on the line.
Arrival == [s : Byte, bad : BOOLEAN, frame : Nat]

\* A decoder whose xdata keeps to the bits that are read.
BitsKept(d) == d \in Decoder /\ d.xdata \in 0 .. XdataSize - 1

\* slip_unesc and slip_unesc6 keep them.
LEMMA DecodeType ==
  ASSUME NEW six \in BOOLEAN, NEW d, BitsKept(d), NEW s \in Byte
  PROVE  /\ Decode(six, d, s).kind \in {"end", "data", "none"}
         /\ Decode(six, d, s).byte \in Byte
         /\ BitsKept(Decode(six, d, s).dec)
<1>1. PICK m : m = Decode(six, d, s)
  OBVIOUS
<1>2. d \in Decoder /\ d.xdata \in 0 .. XdataSize - 1
  BY Zenon DEF BitsKept
<1>3. m.kind \in {"end", "data", "none"} /\ m.byte \in Byte /\ m.dec \in Decoder
  BY <1>1, <1>2, UnescType, Unesc6Type, Zenon DEF Decode
<1>4. PICK q \in Nat : q = XdataSize /\ q > 0
  BY DEF XdataSize
<1>5. CASE ~six
  <2>1. m = Unesc(d, s)
    BY <1>1, <1>5, Zenon DEF Decode
  <2>2. [d EXCEPT !.esc = FALSE].xdata = d.xdata /\ [d EXCEPT !.esc = TRUE].xdata = d.xdata
    BY <1>2 DEF Decoder
  <2>3. m.dec.xdata = d.xdata
    BY <2>1, <2>2 DEF Unesc
  <2> QED
    BY <1>1, <1>2, <1>3, <2>3, Zenon DEF BitsKept
<1>6. CASE six
  <2>1. m = Unesc6(d, s)
    BY <1>1, <1>6, Zenon DEF Decode
  <2>2. PICK x : x = (d.xdata * 64 + (s - BASE6)) % XdataSize
    OBVIOUS
  <2>3. PICK b : b = d.xbits + 6
    OBVIOUS
  <2>4. m.dec.xdata \in {0, d.xdata, x}
    <3>1. CASE s = END6
      <4>1. m.dec = [d EXCEPT !.xbits = 0, !.xdata = 0]
        BY <2>1, <3>1 DEF Unesc6
      <4> QED
        BY <1>2, <4>1 DEF Decoder
    <3>2. CASE s # END6 /\ s \notin BASE6 .. END6 - 1
      <4>1. m.dec = d
        BY <2>1, <3>2 DEF Unesc6
      <4> QED
        BY <4>1
    <3>3. CASE s # END6 /\ s \in BASE6 .. END6 - 1
      <4>1. m = Unesc6Char(d, s, x, b)
        BY <2>1, <2>2, <2>3, <3>3, Zenon DEF Unesc6
      <4>2. \A c : [d EXCEPT !.xbits = c, !.xdata = x].xdata = x
        BY <1>2 DEF Decoder
      <4>3. m.dec.xdata = x
        BY <4>1, <4>2 DEF Unesc6Char
      <4> QED
        BY <4>3
    <3> QED
      BY <3>1, <3>2, <3>3, Zenon
  <2>5. s \in BASE6 .. END6 - 1 => x \in 0 .. XdataSize - 1
    <3> SUFFICES ASSUME s \in BASE6 .. END6 - 1 PROVE x \in 0 .. XdataSize - 1
      OBVIOUS
    <3>1. s - BASE6 \in Nat
      BY Codes
    <3>2. PICK w \in Nat : w = d.xdata
      BY <1>2 DEF Decoder
    <3>3. PICK y \in Nat : y = d.xdata * 64 + (s - BASE6)
      <4>1. w * 64 + (s - BASE6) \in Nat
        BY <3>1
      <4> QED
        BY <3>2, <4>1
    <3>4. y % q \in 0 .. q - 1
      BY <1>4
    <3> QED
      BY <1>4, <2>2, <3>3, <3>4, Zenon
  <2>6. m.dec.xdata \in {0, d.xdata} \/ s \in BASE6 .. END6 - 1
    <3> SUFFICES ASSUME s \notin BASE6 .. END6 - 1 PROVE m.dec.xdata \in {0, d.xdata}
      OBVIOUS
    <3>1. CASE s = END6
      <4>1. m.dec = [d EXCEPT !.xbits = 0, !.xdata = 0]
        BY <2>1, <3>1 DEF Unesc6
      <4> QED
        BY <1>2, <4>1 DEF Decoder
    <3>2. CASE s # END6
      <4>1. m.dec = d
        BY <2>1, <3>2 DEF Unesc6
      <4> QED
        BY <4>1
    <3> QED
      BY <3>1, <3>2
  <2>7. 0 \in 0 .. XdataSize - 1
    BY <1>4
  <2>8. m.dec.xdata \in 0 .. XdataSize - 1
    <3>1. m.dec.xdata \in {0, d.xdata} \/ (m.dec.xdata \in {0, d.xdata, x} /\ x \in 0 .. XdataSize - 1)
      BY <2>4, <2>5, <2>6, Zenon
    <3>2. m.dec.xdata = 0 \/ m.dec.xdata = d.xdata \/ (m.dec.xdata = x /\ x \in 0 .. XdataSize - 1)
      BY <3>1, Zenon
    <3> QED
      BY <1>2, <2>7, <3>2, Zenon
  <2> QED
    BY <1>1, <1>3, <2>8, Zenon DEF BitsKept
<1> QED
  BY <1>5, <1>6

\* What the variables hold.
LineTyped ==
  /\ sent \in Seq(Packets)
  /\ line \in Seq(Arrival) /\ \A i \in 1 .. Len(line) : line[i].frame <= Len(sent)
  /\ block \in 0 .. Len(line)
  /\ last \in 0 .. Len(sent) /\ touched \subseteq 0 .. Len(sent)

FlagsTyped ==
  slip6 \in BOOLEAN /\ mode6 \in BOOLEAN /\ error \in BOOLEAN /\ running \in BOOLEAN

\* The index of a store under way stays below the largest buffer.
DecoderTyped ==
  /\ pc \in {"idle", "store", "bump"}
  /\ byte \in Byte /\ idx \in 0 .. Max(BufSizes) /\ ptr \in {0, 1}
  /\ pc = "store" => idx < Max(BufSizes)
  /\ rcount \in 0 .. Max(BufSizes)
  /\ BitsKept(dec)

\* The buffer in use is as large as the count kept for it says.
BuffersTyped ==
  /\ cur \in {0, 1} /\ buffsize \in BufSizes
  /\ resize \in {"idle", "swapped", "copied"} /\ size \in BufSizes \cup {0}
  /\ resize # "idle" => size \in BufSizes
  /\ bufs \in [{0, 1} -> Seq(Cells)]
  /\ Len(bufs[cur]) = (IF resize = "idle" THEN buffsize ELSE size) + Slack

\* What is handed up.
HandedUp == [frame : Nat, data : Seq(Cells)]

UpTyped ==
  /\ up \in Seq(HandedUp)
  /\ \A i \in 1 .. Len(up) : up[i].frame <= Len(sent)

RxTyped == LineTyped /\ FlagsTyped /\ DecoderTyped /\ BuffersTyped /\ UpTyped

\* Memory just allocated.
LEMMA JunkFacts ==
  ASSUME NEW n \in Nat
  PROVE  Junk(n) \in Seq(Cells) /\ Len(Junk(n)) = n + Slack
<1>1. n + Slack \in Nat
  BY RxAssumption
<1>2. -1 \in Cells
  BY DEF Cells
<1>3. PICK m \in Nat : m = n + Slack
  BY <1>1
<1>4. Junk(n) = [i \in 1 .. m |-> -1]
  BY <1>3 DEF Junk
<1>5. [i \in 1 .. m |-> -1] \in [1 .. m -> Cells]
  BY <1>2
<1>6. \A q \in [1 .. m -> Cells] : q \in Seq(Cells) /\ Len(q) = m
  OBVIOUS
<1> QED
  BY <1>3, <1>4, <1>5, <1>6

\* At the start.
LEMMA RxTypedInit == Init => RxTyped
<1> SUFFICES ASSUME Init PROVE RxTyped
  OBVIOUS
<1>1. buffsize \in Nat /\ Max(BufSizes) \in Nat /\ slip6 \in BOOLEAN /\ mode6 \in BOOLEAN
  BY BufferBounds, RxAssumption DEF Init
<1>2. Junk(buffsize) \in Seq(Cells) /\ Len(Junk(buffsize)) = buffsize + Slack
  BY <1>1, JunkFacts
<1>3. bufs \in [{0, 1} -> Seq(Cells)] /\ cur \in {0, 1} /\ resize = "idle"
      /\ Len(bufs[cur]) = buffsize + Slack
  BY <1>2 DEF Init
<1>4. BitsKept(dec)
  <2>1. 0 \in 0 .. XdataSize - 1
    BY DEF XdataSize
  <2>2. NewDecoder \in Decoder /\ NewDecoder.xdata = 0
    BY DEF NewDecoder, Decoder
  <2> QED
    BY <2>1, <2>2 DEF Init, BitsKept
<1>5. sent = << >> /\ line = << >> /\ up = << >> /\ Len(<< >>) = 0
  BY DEF Init
<1>6. 0 \in Byte
  BY DEF Byte
<1>7. LineTyped
  <2>1. << >> \in Seq(Packets) /\ << >> \in Seq(Arrival) /\ \A i \in 1 .. 0 : FALSE
    OBVIOUS
  <2>2. block = 0 /\ last = 0 /\ touched = {}
    BY DEF Init
  <2> QED
    BY <1>5, <2>1, <2>2 DEF LineTyped
<1>8. FlagsTyped
  BY <1>1 DEF Init, FlagsTyped
<1>9. DecoderTyped
  <2>1. pc = "idle" /\ byte = 0 /\ idx = 0 /\ ptr = 0 /\ rcount = 0
    BY DEF Init
  <2> QED
    BY <1>1, <1>4, <1>6, <2>1 DEF DecoderTyped
<1>10. BuffersTyped
  <2>1. buffsize \in BufSizes /\ size = 0
    BY DEF Init
  <2> QED
    BY <1>3, <2>1 DEF BuffersTyped
<1>11. UpTyped
  <2>1. << >> \in Seq(HandedUp) /\ \A i \in 1 .. 0 : FALSE
    OBVIOUS
  <2> QED
    BY <1>5, <2>1 DEF UpTyped
<1> QED
  BY <1>7, <1>8, <1>9, <1>10, <1>11 DEF RxTyped

-----------------------------------------------------------------------------
(* What the steps do to the line.                                          *)

\* A sequence without its first n members.
LEMMA Dropped ==
  ASSUME NEW S, NEW l \in Seq(S), NEW n \in 0 .. Len(l)
  PROVE  /\ SubSeq(l, n + 1, Len(l)) \in Seq(S)
         /\ Len(SubSeq(l, n + 1, Len(l))) = Len(l) - n
         /\ \A j \in 1 .. Len(l) - n : SubSeq(l, n + 1, Len(l))[j] = l[j + n]
<1>1. PICK m \in Nat : m = Len(l)
  OBVIOUS
<1>2. PICK q : q = SubSeq(l, n + 1, m)
  OBVIOUS
<1>3. n + 1 \in 1 .. m + 1
  BY <1>1
<1>4. q \in Seq(S) /\ Len(q) = (IF n + 1 <= m THEN m - (n + 1) + 1 ELSE 0)
  BY <1>1, <1>2, <1>3
<1>5. Len(q) = m - n
  BY <1>1, <1>4
<1>6. ASSUME NEW j \in 1 .. m - n PROVE q[j] = l[j + n]
  BY <1>1, <1>2, <1>3
<1> QED
  BY <1>1, <1>2, <1>4, <1>5, <1>6

\* A sequence without its member i.
LEMMA Removed ==
  ASSUME NEW S, NEW l \in Seq(S), NEW i \in 1 .. Len(l)
  PROVE  /\ RemoveAt(l, i) \in Seq(S) /\ Len(RemoveAt(l, i)) = Len(l) - 1
         /\ \A j \in 1 .. Len(l) - 1 : RemoveAt(l, i)[j] = IF j < i THEN l[j] ELSE l[j + 1]
<1>1. PICK m \in Nat : m = Len(l)
  OBVIOUS
<1>2. PICK a : a = SubSeq(l, 1, i - 1)
  OBVIOUS
<1>3. a \in Seq(S) /\ Len(a) = i - 1 /\ \A j \in 1 .. i - 1 : a[j] = l[j]
  BY <1>1, <1>2
<1>4. PICK b : b = SubSeq(l, i + 1, Len(l))
  OBVIOUS
<1>5. b \in Seq(S) /\ Len(b) = m - i /\ \A j \in 1 .. m - i : b[j] = l[j + i]
  BY <1>1, <1>4, Dropped
<1>6. RemoveAt(l, i) = a \o b
  BY <1>2, <1>4 DEF RemoveAt
<1>7. a \o b \in Seq(S) /\ Len(a \o b) = m - 1
  BY <1>1, <1>3, <1>5
<1>8. ASSUME NEW j \in 1 .. m - 1 PROVE (a \o b)[j] = IF j < i THEN l[j] ELSE l[j + 1]
  <2>1. CASE j < i
    <3>1. j \in 1 .. Len(a)
      BY <1>3, <2>1
    <3>2. (a \o b)[j] = a[j]
      BY <1>3, <1>5, <3>1
    <3> QED
      BY <1>3, <2>1, <3>1, <3>2
  <2>2. CASE ~(j < i)
    <3>1. PICK k \in 1 .. m - i : j = (i - 1) + k
      <4>1. j - (i - 1) \in 1 .. m - i /\ j = (i - 1) + (j - (i - 1))
        BY <1>1, <2>2
      <4> QED
        BY <4>1
    <3>2. (a \o b)[j] = b[k]
      BY <1>3, <1>5, <3>1
    <3>3. k + i = j + 1
      BY <3>1
    <3> QED
      BY <1>5, <2>2, <3>2, <3>3
  <2> QED
    BY <2>1, <2>2
<1> QED
  BY <1>1, <1>6, <1>7, <1>8

\* A sequence with one more member at place i.
LEMMA Inserted ==
  ASSUME NEW S, NEW l \in Seq(S), NEW i \in 1 .. Len(l), NEW e \in S
  PROVE  /\ InsertAt(l, i, e) \in Seq(S) /\ Len(InsertAt(l, i, e)) = Len(l) + 1
         /\ \A j \in 1 .. Len(l) + 1 :
              InsertAt(l, i, e)[j] = IF j < i THEN l[j] ELSE IF j = i THEN e ELSE l[j - 1]
<1>1. PICK m \in Nat : m = Len(l)
  OBVIOUS
<1>2. PICK a : a = SubSeq(l, 1, i - 1)
  OBVIOUS
<1>3. a \in Seq(S) /\ Len(a) = i - 1 /\ \A j \in 1 .. i - 1 : a[j] = l[j]
  BY <1>1, <1>2
<1>4. PICK b : b = SubSeq(l, i, Len(l))
  OBVIOUS
<1>5. b \in Seq(S) /\ Len(b) = m - i + 1 /\ \A j \in 1 .. m - i + 1 : b[j] = l[j + i - 1]
  <2>1. i - 1 \in 0 .. Len(l) /\ (i - 1) + 1 = i
    OBVIOUS
  <2>2. PICK h \in 0 .. Len(l) : h = i - 1 /\ h + 1 = i
    BY <2>1
  <2>3. b = SubSeq(l, h + 1, Len(l))
    BY <1>4, <2>2
  <2>4. b \in Seq(S) /\ Len(b) = m - h /\ \A j \in 1 .. m - h : b[j] = l[j + h]
    BY <1>1, <2>3, Dropped
  <2>5. m - h = m - i + 1 /\ \A j \in 1 .. m - h : j + h = j + i - 1
    BY <1>1, <2>2
  <2> QED
    BY <2>4, <2>5
<1>6. PICK c : c = a \o <<e>>
  OBVIOUS
<1>7. c \in Seq(S) /\ Len(c) = i /\ c[i] = e /\ \A j \in 1 .. i - 1 : c[j] = l[j]
  BY <1>3, <1>6
<1>8. InsertAt(l, i, e) = c \o b
  BY <1>2, <1>4, <1>6 DEF InsertAt
<1>9. c \o b \in Seq(S) /\ Len(c \o b) = m + 1
  <2>1. c \in Seq(S) /\ b \in Seq(S) /\ Len(c) = i /\ Len(b) = m - i + 1
    BY <1>5, <1>7
  <2>2. c \o b \in Seq(S) /\ Len(c \o b) = Len(c) + Len(b)
    BY <2>1
  <2> QED
    BY <1>1, <2>1, <2>2
<1>10. ASSUME NEW j \in 1 .. m + 1
       PROVE (c \o b)[j] = IF j < i THEN l[j] ELSE IF j = i THEN e ELSE l[j - 1]
  <2>1. CASE j <= i
    <3>1. j \in 1 .. Len(c)
      BY <1>7, <2>1
    <3>2. (c \o b)[j] = c[j]
      BY <1>5, <1>7, <3>1
    <3>3. j \in 1 .. i - 1 \/ j = i
      BY <2>1
    <3> QED
      BY <1>7, <2>1, <3>2, <3>3
  <2>2. CASE ~(j <= i)
    <3>1. PICK k \in 1 .. m - i + 1 : j = i + k
      <4>1. j - i \in 1 .. m - i + 1 /\ j = i + (j - i)
        BY <1>1, <2>2
      <4> QED
        BY <4>1
    <3>2. (c \o b)[j] = b[k]
      BY <1>5, <1>7, <3>1
    <3>3. k + i - 1 = j - 1 /\ j # i
      BY <2>2, <3>1
    <3>4. b[k] = l[j - 1]
      BY <1>5, <3>3
    <3> QED
      BY <2>2, <3>2, <3>3, <3>4
  <2> QED
    BY <2>1, <2>2
<1> QED
  BY <1>1, <1>8, <1>9, <1>10

\* What a packet sent adds to the line: the bytes of its frame.
SentTo(l, p) ==
  /\ sent' = Append(sent, p) /\ Len(sent') = Len(sent) + 1
  /\ \A f \in 1 .. Len(sent) : sent'[f] = sent[f]
  /\ sent'[Len(sent) + 1] = p
  /\ l \in Seq(Arrival) /\ Len(l) = Len(line) + Len(Encode(slip6, p))
  /\ \A i \in 1 .. Len(line) : l[i] = line[i]
  /\ \A j \in 1 .. Len(Encode(slip6, p)) :
       l[Len(line) + j] = [s |-> Encode(slip6, p)[j], bad |-> FALSE, frame |-> Len(sent) + 1]

\* Send does that.
LEMMA SendWrites ==
  ASSUME LineTyped, slip6 \in BOOLEAN, NEW p \in Packets, Send(p)
  PROVE  SentTo(line', p) /\ p \in Seq(Byte)
<1>1. p \in Seq(Byte)
  BY RxAssumption
<1>2. PICK f \in Seq(Byte) : f = Encode(slip6, p)
  <2>1. Framed(slip6, Encode(slip6, p))
    BY <1>1, EncodeFramed, Zenon
  <2> QED
    BY <2>1 DEF Framed
<1>3. sent \in Seq(Packets) /\ line \in Seq(Arrival)
  BY DEF LineTyped
<1>4. PICK n \in Nat : n = Len(sent) + 1
  BY <1>3
<1>5. sent' = Append(sent, p)
  BY DEF Send
<1>6. Len(sent') = n /\ sent'[n] = p /\ \A g \in 1 .. Len(sent) : sent'[g] = sent[g]
  BY <1>3, <1>4, <1>5
<1>7. PICK new : new = [i \in DOMAIN f |-> [s |-> f[i], bad |-> FALSE, frame |-> n]]
  OBVIOUS
<1>8. line' = line \o new
  BY <1>2, <1>6, <1>7 DEF Send
<1>9. \A i \in DOMAIN f : [s |-> f[i], bad |-> FALSE, frame |-> n] \in Arrival
  BY <1>4 DEF Arrival
<1>10. new \in Seq(Arrival) /\ Len(new) = Len(f)
       /\ \A i \in 1 .. Len(f) : new[i] = [s |-> f[i], bad |-> FALSE, frame |-> n]
  <2>1. DOMAIN f = 1 .. Len(f) /\ Len(f) \in Nat
    BY <1>2
  <2>2. new \in [1 .. Len(f) -> Arrival]
    BY <1>7, <1>9, <2>1
  <2>3. new \in Seq(Arrival) /\ Len(new) = Len(f)
    BY <2>1, <2>2
  <2> QED
    BY <1>7, <2>1, <2>3
<1>11. line' \in Seq(Arrival) /\ Len(line') = Len(line) + Len(f)
       /\ (\A i \in 1 .. Len(line) : line'[i] = line[i])
       /\ \A j \in 1 .. Len(f) : line'[Len(line) + j] = new[j]
  <2>1. \A l \in Seq(Arrival), q \in Seq(Arrival) :
          /\ l \o q \in Seq(Arrival) /\ Len(l \o q) = Len(l) + Len(q)
          /\ \A i \in 1 .. Len(l) : (l \o q)[i] = l[i]
          /\ \A j \in 1 .. Len(q) : (l \o q)[Len(l) + j] = q[j]
    OBVIOUS
  <2>2. /\ line \o new \in Seq(Arrival) /\ Len(line \o new) = Len(line) + Len(new)
        /\ \A i \in 1 .. Len(line) : (line \o new)[i] = line[i]
        /\ \A j \in 1 .. Len(new) : (line \o new)[Len(line) + j] = new[j]
    BY <1>3, <1>10, <2>1
  <2> QED
    BY <1>8, <1>10, <2>2, Zenon
<1> QED
  BY <1>1, <1>2, <1>4, <1>5, <1>6, <1>10, <1>11, Zenon DEF SentTo

\* What noise at place i makes of the line: another value or mark of the byte, no byte, or one
\* more that belongs to no frame.
Altered(l, i) ==
  /\ l \in Seq(Arrival) /\ Len(l) = Len(line)
  /\ l[i].frame = line[i].frame
  /\ \A j \in 1 .. Len(line) : j # i => l[j] = line[j]

Lost(l, i) ==
  /\ l \in Seq(Arrival) /\ Len(l) = Len(line) - 1
  /\ \A j \in 1 .. Len(line) - 1 : l[j] = IF j < i THEN line[j] ELSE line[j + 1]

MadeUp(l, i) ==
  /\ l \in Seq(Arrival) /\ Len(l) = Len(line) + 1
  /\ l[i].frame = 0
  /\ \A j \in 1 .. Len(line) + 1 : j # i => l[j] = IF j < i THEN line[j] ELSE line[j - 1]

\* Noise does one of the three.
LEMMA NoiseWrites ==
  ASSUME LineTyped, NEW i \in 1 .. Len(line), Noise(i)
  PROVE  Altered(line', i) \/ Lost(line', i) \/ MadeUp(line', i)
<1>1. line \in Seq(Arrival) /\ NoiseBytes \subseteq Byte
  BY RxAssumption DEF LineTyped
<1>2. line[i] \in Arrival /\ DOMAIN line = 1 .. Len(line)
  BY <1>1
<1>3. ASSUME NEW e \in Arrival, e.frame = line[i].frame, line' = [line EXCEPT ![i] = e]
      PROVE  Altered(line', i)
  <2>1. line' \in Seq(Arrival) /\ Len(line') = Len(line) /\ line'[i] = e
        /\ \A j \in 1 .. Len(line) : j # i => line'[j] = line[j]
    BY <1>1, <1>3
  <2> QED
    BY <1>3, <2>1, Zenon DEF Altered
<1>4. CASE \E s \in NoiseBytes \ {line[i].s} : line' = [line EXCEPT ![i].s = s]
  <2>1. PICK s \in NoiseBytes : line' = [line EXCEPT ![i].s = s]
    BY <1>4
  <2>2. s \in Byte
    BY <1>1
  <2>3. PICK e : e = [line[i] EXCEPT !.s = s]
    OBVIOUS
  <2>4. e \in Arrival /\ e.frame = line[i].frame
    BY <1>2, <2>2, <2>3 DEF Arrival
  <2>5. line' = [line EXCEPT ![i] = e]
    BY <2>1, <2>3
  <2> QED
    BY <1>3, <2>4, <2>5, Zenon
<1>5. CASE line' = [line EXCEPT ![i].bad = TRUE]
  <2>1. PICK e : e = [line[i] EXCEPT !.bad = TRUE]
    OBVIOUS
  <2>2. e \in Arrival /\ e.frame = line[i].frame
    BY <1>2, <2>1 DEF Arrival
  <2>3. line' = [line EXCEPT ![i] = e]
    BY <1>5, <2>1
  <2> QED
    BY <1>3, <2>2, <2>3, Zenon
<1>6. CASE line' = RemoveAt(line, i)
  BY <1>1, <1>6, Removed, Zenon DEF Lost
<1>7. CASE \E s \in NoiseBytes : line' = InsertAt(line, i, [s |-> s, bad |-> FALSE, frame |-> 0])
  <2>1. PICK s \in NoiseBytes : line' = InsertAt(line, i, [s |-> s, bad |-> FALSE, frame |-> 0])
    BY <1>7
  <2>2. PICK e \in Arrival : e = [s |-> s, bad |-> FALSE, frame |-> 0] /\ e.frame = 0
    <3>1. [s |-> s, bad |-> FALSE, frame |-> 0] \in Arrival
      BY <1>1, <2>1 DEF Arrival
    <3> QED
      BY <3>1
  <2>3. /\ line' \in Seq(Arrival) /\ Len(line') = Len(line) + 1
        /\ \A j \in 1 .. Len(line) + 1 :
             line'[j] = IF j < i THEN line[j] ELSE IF j = i THEN e ELSE line[j - 1]
    <3>1. line' = InsertAt(line, i, e)
      BY <2>1, <2>2
    <3>2. /\ InsertAt(line, i, e) \in Seq(Arrival)
          /\ Len(InsertAt(line, i, e)) = Len(line) + 1
          /\ \A j \in 1 .. Len(line) + 1 : InsertAt(line, i, e)[j] =
               IF j < i THEN line[j] ELSE IF j = i THEN e ELSE line[j - 1]
      <4>1. e \in Arrival
        BY <2>2
      <4> HIDE DEF Arrival
      <4> QED
        BY <1>1, <4>1, Inserted
    <3> QED
      BY <3>1, <3>2
  <2>4. i \in 1 .. Len(line) + 1 /\ ~(i < i)
    BY <1>1
  <2>5. line'[i] = e
    BY <2>3, <2>4
  <2> QED
    BY <2>2, <2>3, <2>5, Zenon DEF MadeUp
<1> QED
  BY <1>4, <1>5, <1>6, <1>7, Zenon DEF Noise

\* What the tty has taken from the line.
Gone(l, n) ==
  /\ n \in 0 .. Len(line)
  /\ l \in Seq(Arrival) /\ Len(l) = Len(line) - n
  /\ \A j \in 1 .. Len(line) - n : l[j] = line[j + n]

\* A block is taken as it is, or refused and lost.
LEMMA DeliverTakes ==
  ASSUME LineTyped, NEW n \in 1 .. Len(line), Deliver(n)
  PROVE  \/ running /\ line' = line /\ touched' = touched /\ block' = n
         \/ /\ Gone(line', n) /\ block' = block
            /\ touched' = touched \cup {line[i].frame : i \in 1 .. n}
<1>1. line \in Seq(Arrival)
  BY DEF LineTyped
<1>2. n \in 0 .. Len(line)
  BY <1>1
<1>3. CASE running
  BY <1>3 DEF Deliver
<1>4. CASE ~running
  <2>1. line' = SubSeq(line, n + 1, Len(line)) /\ block' = block
        /\ touched' = touched \cup {line[i].frame : i \in 1 .. n}
    BY <1>4, Zenon DEF Deliver
  <2>2. Gone(line', n)
    BY <1>1, <1>2, <2>1, Dropped, Zenon DEF Gone
  <2> QED
    BY <2>1, <2>2
<1> QED
  BY <1>3, <1>4

\* A byte is taken from a line that has one.
LEMMA ConsumeTakes ==
  ASSUME LineTyped, Consume
  PROVE  /\ Gone(line', 1) /\ Len(line) >= 1 /\ line # << >>
         /\ Head(line) = line[1] /\ line[1] \in Arrival
<1>1. line \in Seq(Arrival) /\ block \in 0 .. Len(line) /\ block > 0
  BY DEF LineTyped, Consume
<1>2. Len(line) >= 1 /\ line # << >> /\ 1 \in 0 .. Len(line)
  BY <1>1
<1>3. line' = Tail(line)
  BY DEF Consume
<1>4. \A l \in Seq(Arrival) : Len(l) >= 1 =>
        /\ Tail(l) \in Seq(Arrival) /\ Len(Tail(l)) = Len(l) - 1
        /\ \A j \in 1 .. Len(l) - 1 : Tail(l)[j] = l[j + 1]
        /\ Head(l) = l[1] /\ l[1] \in Arrival
  OBVIOUS
<1>5. /\ line' \in Seq(Arrival) /\ Len(line') = Len(line) - 1
      /\ \A j \in 1 .. Len(line) - 1 : line'[j] = line[j + 1]
      /\ Head(line) = line[1] /\ line[1] \in Arrival
  BY <1>1, <1>2, <1>3, <1>4, Zenon
<1> QED
  BY <1>2, <1>5, Zenon DEF Gone

\* The bytes on a line.
LineKept(l) == l \in Seq(Arrival) /\ \A i \in 1 .. Len(l) : l[i].frame <= Len(sent)

\* Noise and the tty keep them.
LEMMA StillOnLine ==
  ASSUME LineTyped, NEW l
  PROVE  /\ \A n : Gone(l, n) => LineKept(l)
         /\ \A i \in 1 .. Len(line) : Altered(l, i) \/ Lost(l, i) \/ MadeUp(l, i) => LineKept(l)
<1>1. line \in Seq(Arrival) /\ (\A i \in 1 .. Len(line) : line[i].frame <= Len(sent))
      /\ Len(sent) \in Nat
  BY DEF LineTyped
<1>2. PICK m \in Nat : m = Len(line)
  BY <1>1
<1>3. ASSUME NEW n, Gone(l, n) PROVE LineKept(l)
  <2>1. n \in 0 .. m /\ l \in Seq(Arrival) /\ Len(l) = m - n
        /\ \A j \in 1 .. m - n : l[j] = line[j + n]
    BY <1>2, <1>3, Zenon DEF Gone
  <2>2. \A j \in 1 .. m - n : j + n \in 1 .. m
    BY <2>1
  <2> QED
    BY <1>1, <1>2, <2>1, <2>2, Zenon DEF LineKept
<1>4. ASSUME NEW i \in 1 .. Len(line), Altered(l, i) PROVE LineKept(l)
  <2>1. l \in Seq(Arrival) /\ Len(l) = m /\ l[i].frame = line[i].frame
        /\ \A j \in 1 .. m : j # i => l[j] = line[j]
    BY <1>2, <1>4, Zenon DEF Altered
  <2> QED
    BY <1>1, <1>2, <2>1, Zenon DEF LineKept
<1>5. ASSUME NEW i \in 1 .. Len(line), Lost(l, i) PROVE LineKept(l)
  <2>1. l \in Seq(Arrival) /\ Len(l) = m - 1
        /\ \A j \in 1 .. m - 1 : l[j] = IF j < i THEN line[j] ELSE line[j + 1]
    BY <1>2, <1>5, Zenon DEF Lost
  <2>2. \A j \in 1 .. m - 1 : j \in 1 .. m /\ j + 1 \in 1 .. m
    BY <1>2
  <2> QED
    BY <1>1, <1>2, <2>1, <2>2, Zenon DEF LineKept
<1>6. ASSUME NEW i \in 1 .. Len(line), MadeUp(l, i) PROVE LineKept(l)
  <2>1. l \in Seq(Arrival) /\ Len(l) = m + 1 /\ l[i].frame = 0
        /\ \A j \in 1 .. m + 1 : j # i => l[j] = IF j < i THEN line[j] ELSE line[j - 1]
    BY <1>2, <1>6, Zenon DEF MadeUp
  <2>2. \A j \in 1 .. m + 1 : j # i => ((j < i /\ j \in 1 .. m) \/ (~(j < i) /\ j - 1 \in 1 .. m))
    BY <1>2
  <2>3. 0 <= Len(sent)
    BY <1>1
  <2> QED
    BY <1>1, <1>2, <2>1, <2>2, <2>3, Zenon DEF LineKept
<1> QED
  BY <1>3, <1>4, <1>5, <1>6, Zenon

\* Frames in progress are frames.
LEMMA InProgressFrames ==
  InProgress \subseteq 1 .. Len(sent)
BY DEF InProgress

\* Every step keeps the line and what is remembered of it.
LEMMA LineStep ==
  ASSUME RxTyped, [Next]_vars
  PROVE  LineTyped'
<1>1. LineTyped /\ slip6 \in BOOLEAN
  BY DEF RxTyped, FlagsTyped
<1>2. /\ sent \in Seq(Packets) /\ line \in Seq(Arrival) /\ block \in 0 .. Len(line)
      /\ last \in 0 .. Len(sent) /\ touched \subseteq 0 .. Len(sent) /\ LineKept(line)
  BY <1>1 DEF LineTyped, LineKept
<1>3. PICK n \in Nat : n = Len(sent)
  BY <1>2
<1>4. \A i \in 1 .. Len(line) : line[i].frame \in 0 .. n
  <2>1. \A i \in 1 .. Len(line) : line[i] \in Arrival
    BY <1>2
  <2>2. \A i \in 1 .. Len(line) : line[i].frame \in Nat /\ line[i].frame <= n
    BY <1>2, <1>3, <2>1 DEF LineKept, Arrival
  <2> QED
    BY <2>2
<1>5. ASSUME sent' = sent, LineKept(line'), block' \in 0 .. Len(line'),
             last' \in 0 .. n, touched' \subseteq 0 .. n
      PROVE  LineTyped'
  BY <1>2, <1>3, <1>5, Zenon DEF LineTyped, LineKept
<1>6. ASSUME NEW p \in Packets, Send(p) PROVE LineTyped'
  <2>1. SentTo(line', p)
    BY <1>1, <1>6, SendWrites, Zenon
  <2>2. sent' \in Seq(Packets) /\ Len(sent') = n + 1
    BY <1>2, <1>3, <2>1 DEF SentTo
  <2>3. PICK k \in Nat : k = Len(Encode(slip6, p))
    <3>1. line' \in Seq(Arrival) /\ Encode(slip6, p) \in Seq(Byte)
      BY <1>1, <2>1, SendWrites, EncodeFramed, RxAssumption DEF SentTo, Framed
    <3> QED
      BY <3>1
  <2>4. /\ line' \in Seq(Arrival) /\ Len(line') = Len(line) + k
        /\ \A i \in 1 .. Len(line) : line'[i] = line[i]
        /\ \A j \in 1 .. k : line'[Len(line) + j].frame = n + 1
    <3>1. \A s : [s |-> s, bad |-> FALSE, frame |-> n + 1].frame = n + 1
      OBVIOUS
    <3> QED
      BY <1>3, <2>1, <2>3, <3>1, Zenon DEF SentTo
  <2>5. ASSUME NEW i \in 1 .. Len(line') PROVE line'[i].frame <= n + 1
    <3>1. i \in 1 .. Len(line) \/ \E j \in 1 .. k : i = Len(line) + j
      <4>1. i \in 1 .. Len(line) \/ (i - Len(line) \in 1 .. k /\ i = Len(line) + (i - Len(line)))
        BY <1>2, <2>4
      <4> QED
        BY <4>1
    <3>2. CASE i \in 1 .. Len(line)
      BY <1>4, <2>4, <3>2
    <3>3. CASE \E j \in 1 .. k : i = Len(line) + j
      BY <2>4, <3>3
    <3> QED
      BY <3>1, <3>2, <3>3
  <2>6. block' = block /\ last' = last /\ touched' = touched
    BY <1>6 DEF Send, ghosts
  <2>7. block' \in 0 .. Len(line')
    BY <1>2, <2>3, <2>4, <2>6
  <2>8. last' \in 0 .. n + 1 /\ touched' \subseteq 0 .. n + 1
    BY <1>2, <1>3, <2>6
  <2> QED
    BY <2>2, <2>4, <2>5, <2>7, <2>8 DEF LineTyped
<1>7. ASSUME NEW i \in 1 .. Len(line), Noise(i) PROVE LineTyped'
  <2>1. LineKept(line')
    BY <1>1, <1>7, NoiseWrites, StillOnLine, Zenon
  <2>2. sent' = sent /\ block' = 0 /\ last' = last /\ touched' = touched \cup {line[i].frame}
    BY <1>7 DEF Noise
  <2>3. line[i].frame \in 0 .. n
    BY <1>4, <1>7
  <2>4. Len(line') \in Nat
    BY <2>1 DEF LineKept
  <2>5. block' \in 0 .. Len(line')
    BY <2>2, <2>4
  <2>6. last' \in 0 .. n /\ touched' \subseteq 0 .. n
    BY <1>2, <1>3, <2>2, <2>3
  <2> QED
    BY <1>5, <2>1, <2>2, <2>5, <2>6
<1>8. ASSUME NEW k \in 1 .. Len(line), Deliver(k) PROVE LineTyped'
  <2>1. sent' = sent /\ last' = last /\ block = 0
    BY <1>8 DEF Deliver
  <2>2. CASE line' = line /\ touched' = touched /\ block' = k
    BY <1>2, <1>3, <1>5, <1>8, <2>1, <2>2
  <2>3. CASE /\ Gone(line', k) /\ block' = block
             /\ touched' = touched \cup {line[i].frame : i \in 1 .. k}
    <3>1. LineKept(line')
      BY <1>1, <2>3, StillOnLine, Zenon
    <3>2. {line[i].frame : i \in 1 .. k} \subseteq 0 .. n
      <4>1. \A i \in 1 .. k : i \in 1 .. Len(line)
        BY <1>2, <1>8
      <4> QED
        BY <1>4, <4>1
    <3>3. Len(line') \in Nat
      BY <3>1 DEF LineKept
    <3>4. block' \in 0 .. Len(line')
      BY <2>1, <2>3, <3>3
    <3>5. last' \in 0 .. n /\ touched' \subseteq 0 .. n
      BY <1>2, <1>3, <2>1, <2>3, <3>2
    <3> QED
      BY <1>5, <2>1, <3>1, <3>4, <3>5
  <2> QED
    BY <1>1, <1>8, <2>2, <2>3, DeliverTakes, Zenon
<1>9. CASE TakeBad \/ TakeNone \/ TakeData \/ TakeEnd
  <2>1. Consume
    BY <1>9 DEF TakeBad, TakeNone, TakeData, TakeEnd
  <2>2. Gone(line', 1) /\ Len(line) >= 1 /\ Head(line) = line[1]
    BY <1>1, <2>1, ConsumeTakes, Zenon
  <2>3. LineKept(line')
    BY <1>1, <2>2, StillOnLine, Zenon
  <2>4. line[1].frame \in 0 .. n
    BY <1>2, <1>4, <2>2
  <2>5. last' = last \/ last' = line[1].frame
    BY <1>9, <2>2 DEF TakeBad, TakeNone, TakeData, TakeEnd
  <2>6. sent' = sent /\ block' = block - 1 /\ block > 0
        /\ touched' = touched \cup (IF Interfered THEN {line[1].frame} ELSE {})
    BY <2>1, <2>2 DEF Consume
  <2>7. Len(line') = Len(line) - 1
    BY <2>2 DEF Gone
  <2>8. block' \in 0 .. Len(line')
    BY <1>2, <2>2, <2>6, <2>7
  <2>9. touched' \subseteq 0 .. n
    BY <1>2, <1>3, <2>4, <2>6
  <2>10. last' \in 0 .. n
    BY <1>2, <1>3, <2>4, <2>5
  <2> QED
    BY <1>5, <2>3, <2>6, <2>8, <2>9, <2>10
<1>10. ASSUME UNCHANGED <<sent, line, block, last>>,
              touched' \in {touched, touched \cup {last}, touched \cup InProgress}
       PROVE  LineTyped'
  <2>1. touched' \subseteq 0 .. n
    BY <1>2, <1>3, <1>10, InProgressFrames
  <2> QED
    BY <1>2, <1>3, <1>5, <1>10, <2>1
<1>11. CASE Store \/ Bump \/ ResizeCopy \/ ResizeEnd \/ Rest \/ UNCHANGED vars
  <2>1. UNCHANGED <<sent, line, block, last, touched>>
    BY <1>11 DEF Store, Bump, ResizeCopy, ResizeEnd, Rest, vars, ghosts
  <2> QED
    BY <1>10, <2>1
<1>12. CASE BumpDrop
  <2>1. UNCHANGED <<sent, line, block, last>> /\ touched' = touched \cup {last}
    BY <1>12 DEF BumpDrop
  <2> QED
    BY <1>10, <2>1
<1>13. CASE \/ \E k \in BufSizes : ResizeSwap(k)
            \/ SlClose \/ SlOpen
            \/ \E m \in BOOLEAN : SetMode(m)
  <2>1. UNCHANGED <<sent, line, block, last>> /\ touched' = touched \cup InProgress
    BY <1>13 DEF ResizeSwap, SlClose, SlOpen, SetMode, Interfere
  <2> QED
    BY <1>10, <2>1
<1>14. DOMAIN line = 1 .. Len(line)
  BY <1>2
<1> QED
  BY <1>6, <1>7, <1>8, <1>9, <1>11, <1>12, <1>13, <1>14, Zenon DEF Next, Receive, Admin, Resize

\* What a byte means to the decoder.
LEMMA MeetType ==
  ASSUME RxTyped, Consume
  PROVE  /\ Meet.kind \in {"end", "data", "none"} /\ Meet.byte \in Byte /\ BitsKept(Meet.dec)
         /\ Meet = Decode(mode6, dec, line[1].s) /\ line[1].s \in Byte
         /\ line[1].bad \in BOOLEAN /\ line[1].frame \in Nat
         /\ Head(line) = line[1]
<1>1. LineTyped /\ mode6 \in BOOLEAN /\ BitsKept(dec)
  BY DEF RxTyped, FlagsTyped, DecoderTyped
<1>2. Head(line) = line[1] /\ line[1] \in Arrival
  BY <1>1, ConsumeTakes, Zenon
<1>3. line[1].s \in Byte /\ line[1].bad \in BOOLEAN /\ line[1].frame \in Nat
  BY <1>2 DEF Arrival
<1>4. Meet = Decode(mode6, dec, line[1].s)
  BY <1>2 DEF Meet
<1> QED
  BY <1>1, <1>2, <1>3, <1>4, DecodeType, Zenon

\* Every step keeps the flags.
LEMMA FlagsStep ==
  ASSUME RxTyped, [Next]_vars
  PROVE  FlagsTyped'
<1>1. FlagsTyped
  BY DEF RxTyped
<1>2. CASE \/ UNCHANGED vars
           \/ Rest
           \/ \E p \in Packets : Send(p)
           \/ \E i \in DOMAIN line : Noise(i)
           \/ \E k \in 1 .. Len(line) : Deliver(k)
  BY <1>1, <1>2 DEF Send, Noise, Deliver, Rest, vars, decoder, FlagsTyped
<1>3. CASE Receive
  BY <1>1, <1>3 DEF Receive, TakeBad, TakeNone, TakeData, TakeEnd, Consume, Store, Bump, BumpDrop,
     FlagsTyped
<1>4. CASE Admin
  <2>1. CASE Resize
    BY <1>1, <2>1 DEF Resize, ResizeSwap, ResizeCopy, ResizeEnd, FlagsTyped
  <2>2. CASE SlClose \/ SlOpen \/ (\E m \in BOOLEAN : SetMode(m))
    BY <1>1, <2>2 DEF SlClose, SlOpen, SetMode, FlagsTyped
  <2> QED
    BY <1>4, <2>1, <2>2 DEF Admin
<1> QED
  BY <1>2, <1>3, <1>4, Zenon DEF Next

\* Every step keeps the decoder: the count never passes the largest buffer.
LEMMA DecoderStep ==
  ASSUME RxTyped, [Next]_vars
  PROVE  DecoderTyped'
<1>1. DecoderTyped /\ buffsize \in BufSizes
  BY DEF RxTyped, BuffersTyped
<1>2. PICK max \in Nat : max = Max(BufSizes)
  BY BufferBounds
<1>3. buffsize \in Nat /\ buffsize <= max
  BY <1>1, <1>2, BufferBounds
<1>4. /\ pc \in {"idle", "store", "bump"} /\ byte \in Byte /\ idx \in 0 .. max /\ ptr \in {0, 1}
      /\ pc = "store" => idx < max
      /\ rcount \in 0 .. max /\ BitsKept(dec)
  BY <1>1, <1>2 DEF DecoderTyped
<1>5. ASSUME UNCHANGED <<byte, idx, ptr>>, pc' \in {pc, "idle"}, rcount' \in 0 .. max, BitsKept(dec')
      PROVE  DecoderTyped'
  <2>1. pc' \in {"idle", "store", "bump"} /\ (pc' = "store" => idx' < max)
    BY <1>4, <1>5
  <2> QED
    BY <1>2, <1>4, <1>5, <2>1 DEF DecoderTyped
<1>6. CASE \/ UNCHANGED vars
           \/ Rest
           \/ \E p \in Packets : Send(p)
           \/ \E i \in DOMAIN line : Noise(i)
           \/ \E k \in 1 .. Len(line) : Deliver(k)
           \/ \E k \in BufSizes : ResizeSwap(k)
           \/ ResizeEnd
           \/ \E m \in BOOLEAN : SetMode(m)
  <2>1. UNCHANGED <<pc, byte, idx, ptr, rcount, dec>>
    BY <1>6 DEF Send, Noise, Deliver, Rest, ResizeSwap, ResizeEnd, SetMode, vars, decoder, locals
  <2> QED
    BY <1>4, <1>5, <2>1
<1>7. CASE TakeBad \/ TakeNone \/ TakeData \/ TakeEnd
  <2>1. Consume /\ pc = "idle"
    BY <1>7 DEF TakeBad, TakeNone, TakeData, TakeEnd, Consume
  <2>2. Meet.byte \in Byte /\ BitsKept(Meet.dec)
    BY <2>1, MeetType
  <2>3. BitsKept(dec')
    BY <1>4, <1>7, <2>2 DEF TakeBad, TakeNone, TakeData, TakeEnd
  <2>4. CASE UNCHANGED locals
    <3>1. rcount' \in {0, rcount}
      BY <1>7 DEF TakeBad, TakeNone, TakeData, TakeEnd
    <3>2. rcount' \in 0 .. max
      BY <1>4, <3>1
    <3> QED
      BY <1>5, <2>3, <2>4, <3>2 DEF locals
  <2>5. CASE TakeData /\ ~UNCHANGED locals
    <3>1. rcount < buffsize /\ pc' = "store" /\ byte' = Meet.byte /\ idx' = rcount /\ ptr' = cur
          /\ rcount' = rcount
      BY <2>5 DEF TakeData
    <3>2. cur \in {0, 1}
      BY DEF RxTyped, BuffersTyped
    <3>3. idx' \in 0 .. max /\ idx' < max
      BY <1>3, <1>4, <3>1
    <3> QED
      BY <1>2, <1>4, <2>2, <2>3, <3>1, <3>2, <3>3 DEF DecoderTyped
  <2>6. CASE TakeEnd /\ ~UNCHANGED locals
    <3>1. pc' = "bump" /\ idx' = rcount /\ UNCHANGED <<byte, ptr, rcount>>
      BY <2>6 DEF TakeEnd
    <3> QED
      BY <1>2, <1>4, <2>3, <3>1 DEF DecoderTyped
  <2> QED
    BY <1>7, <2>4, <2>5, <2>6 DEF TakeBad, TakeNone
<1>8. CASE Store
  <2>1. rcount' = idx + 1 /\ pc' = "idle" /\ pc = "store" /\ UNCHANGED <<byte, idx, ptr, dec>>
    BY <1>8 DEF Store
  <2>2. rcount' \in 0 .. max
    BY <1>4, <2>1
  <2> QED
    BY <1>4, <1>5, <2>1, <2>2
<1>9. CASE Bump \/ BumpDrop
  <2>1. rcount' = 0 /\ pc' = "idle" /\ UNCHANGED <<byte, idx, ptr, dec>>
    BY <1>9 DEF Bump, BumpDrop
  <2>2. rcount' \in 0 .. max
    BY <2>1
  <2> QED
    BY <1>4, <1>5, <2>1, <2>2
<1>10. CASE ResizeCopy \/ SlClose
  <2>1. rcount' \in {0, rcount} /\ UNCHANGED <<pc, byte, idx, ptr, dec>>
    BY <1>10 DEF ResizeCopy, SlClose, locals
  <2>2. rcount' \in 0 .. max
    BY <1>4, <2>1
  <2> QED
    BY <1>4, <1>5, <2>1, <2>2
<1>11. CASE SlOpen
  <2>1. dec' = [dec EXCEPT !.esc = FALSE] /\ UNCHANGED <<pc, byte, idx, ptr, rcount>>
    BY <1>11 DEF SlOpen, locals
  <2>2. BitsKept(dec')
    <3>1. dec \in Decoder /\ dec.xdata \in 0 .. XdataSize - 1
      BY <1>4, Zenon DEF BitsKept
    <3>2. dec' \in Decoder /\ dec'.xdata = dec.xdata
      BY <2>1, <3>1 DEF Decoder
    <3> QED
      BY <3>1, <3>2, Zenon DEF BitsKept
  <2> QED
    BY <1>4, <1>5, <2>1, <2>2
<1> QED
  BY <1>6, <1>7, <1>8, <1>9, <1>10, <1>11, Zenon DEF Next, Receive, Admin, Resize

\* What a store does to the buffers: it changes a cell of one of them, or none.
Stored(b) ==
  /\ b \in {ptr, cur}
  /\ \/ /\ idx + 1 \in 1 .. Len(bufs[b])
        /\ bufs' = [bufs EXCEPT ![b] = [bufs[b] EXCEPT ![idx + 1] = byte]]
     \/ idx + 1 \notin 1 .. Len(bufs[b]) /\ bufs' = bufs

\* Store writes one of the buffers, or nothing.
LEMMA StoreWrites ==
  ASSUME RxTyped, Store
  PROVE  /\ \E b \in {0, 1} : Stored(b)
         /\ bufs' \in [{0, 1} -> Seq(Cells)]
         /\ \A c \in {0, 1} : Len(bufs'[c]) = Len(bufs[c])
<1>1. bufs \in [{0, 1} -> Seq(Cells)] /\ cur \in {0, 1} /\ ptr \in {0, 1} /\ byte \in Cells
  BY DEF RxTyped, BuffersTyped, DecoderTyped, Cells
<1>2. PICK b \in {ptr, cur} :
        bufs' = IF idx + 1 \in DOMAIN bufs[b] THEN [bufs EXCEPT ![b][idx + 1] = byte] ELSE bufs
  BY Zenon DEF Store
<1>3. b \in {0, 1} /\ bufs[b] \in Seq(Cells)
  BY <1>1, <1>2
<1>4. DOMAIN bufs[b] = 1 .. Len(bufs[b])
  BY <1>3
<1>5. CASE idx + 1 \in 1 .. Len(bufs[b])
  <2>1. PICK new : new = [bufs[b] EXCEPT ![idx + 1] = byte]
    OBVIOUS
  <2>2. new \in Seq(Cells) /\ Len(new) = Len(bufs[b])
    BY <1>1, <1>3, <1>5, <2>1
  <2>3. bufs' = [bufs EXCEPT ![b] = new]
    BY <1>2, <1>4, <1>5, <2>1
  <2>4. Stored(b)
    BY <1>2, <1>5, <2>1, <2>3, Zenon DEF Stored
  <2>5. bufs' \in [{0, 1} -> Seq(Cells)] /\ \A c \in {0, 1} : bufs'[c] = IF c = b THEN new ELSE bufs[c]
    BY <1>1, <1>3, <2>2, <2>3
  <2> QED
    BY <1>3, <2>2, <2>4, <2>5
<1>6. CASE idx + 1 \notin 1 .. Len(bufs[b])
  <2>1. bufs' = bufs
    BY <1>2, <1>4, <1>6
  <2> QED
    BY <1>1, <1>2, <1>3, <1>6, <2>1 DEF Stored
<1> QED
  BY <1>5, <1>6, Zenon

\* What the copy of a resize does to them: the new buffer begins like the old one, or the count
\* is too large for it.
Copied ==
  \/ rcount > size /\ bufs' = bufs /\ rcount' = 0 /\ error' = TRUE
  \/ /\ rcount <= size /\ rcount' = rcount /\ error' = error
     /\ bufs' = [bufs EXCEPT ![cur] = bufs'[cur]]
     /\ bufs'[cur] \in Seq(Cells) /\ Len(bufs'[cur]) = Len(bufs[cur])

\* ResizeCopy writes the buffer in use, or nothing.
LEMMA CopyWrites ==
  ASSUME RxTyped, ResizeCopy
  PROVE  Copied
<1>1. bufs \in [{0, 1} -> Seq(Cells)] /\ cur \in {0, 1} /\ rcount \in Nat /\ size \in Nat
  BY BufferBounds DEF RxTyped, BuffersTyped, DecoderTyped
<1>2. CASE rcount <= size
  <2>1. PICK old \in Seq(Cells) : old = bufs[cur]
    BY <1>1
  <2>2. PICK new : new = [i \in DOMAIN old |-> IF i <= rcount THEN Cell(1 - cur, i) ELSE old[i]]
    OBVIOUS
  <2>3. bufs' = [bufs EXCEPT ![cur] = new] /\ rcount' = rcount /\ error' = error
    BY <1>2, <2>1, <2>2 DEF ResizeCopy
  <2>4. \A i : Cell(1 - cur, i) \in Cells
    <3>1. 1 - cur \in {0, 1}
      BY <1>1
    <3>2. bufs[1 - cur] \in Seq(Cells)
      BY <1>1, <3>1
    <3>3. \A i \in DOMAIN bufs[1 - cur] : bufs[1 - cur][i] \in Cells
      BY <3>2
    <3>4. -1 \in Cells
      BY DEF Cells
    <3> QED
      BY <3>3, <3>4, Zenon DEF Cell
  <2>5. DOMAIN old = 1 .. Len(old) /\ Len(old) \in Nat /\ \A i \in 1 .. Len(old) : old[i] \in Cells
    BY <2>1
  <2>6. PICK m \in Nat : m = Len(old)
    BY <2>5
  <2>7. new \in [1 .. m -> Cells]
    BY <2>2, <2>4, <2>5, <2>6
  <2>8. new \in Seq(Cells) /\ Len(new) = m
    <3>1. \A q \in [1 .. m -> Cells] : q \in Seq(Cells) /\ Len(q) = m
      BY <2>6
    <3> QED
      BY <2>7, <3>1
  <2>9. bufs'[cur] = new
    BY <1>1, <2>3
  <2> QED
    BY <1>2, <2>1, <2>3, <2>6, <2>8, <2>9, Zenon DEF Copied
<1>3. CASE ~(rcount <= size)
  <2>1. bufs' = bufs /\ rcount' = 0 /\ error' = TRUE
    BY <1>3 DEF ResizeCopy
  <2>2. rcount > size
    BY <1>1, <1>3
  <2> QED
    BY <2>1, <2>2, Zenon DEF Copied
<1> QED
  BY <1>2, <1>3

\* Every step keeps the buffers: the one in use is never smaller than the count kept for it.
LEMMA BuffersStep ==
  ASSUME RxTyped, [Next]_vars
  PROVE  BuffersTyped'
<1>1. BuffersTyped
  BY DEF RxTyped
<1>2. CASE \/ UNCHANGED vars
           \/ Rest
           \/ \E p \in Packets : Send(p)
           \/ \E i \in DOMAIN line : Noise(i)
           \/ \E k \in 1 .. Len(line) : Deliver(k)
           \/ TakeBad \/ TakeNone \/ TakeData \/ TakeEnd
           \/ Bump \/ BumpDrop
           \/ SlClose \/ SlOpen
           \/ \E m \in BOOLEAN : SetMode(m)
  <2>1. UNCHANGED <<cur, buffsize, resize, size, bufs>>
    <3>1. CASE \/ UNCHANGED vars
               \/ Rest
               \/ \E p \in Packets : Send(p)
               \/ \E i \in DOMAIN line : Noise(i)
               \/ \E k \in 1 .. Len(line) : Deliver(k)
      BY <3>1 DEF Send, Noise, Deliver, Rest, vars, decoder, resizer
    <3>2. CASE TakeBad \/ TakeNone \/ TakeData \/ TakeEnd
      BY <3>2 DEF TakeBad, TakeNone, TakeData, TakeEnd, Consume, resizer
    <3>3. CASE \/ Bump \/ BumpDrop
               \/ SlClose \/ SlOpen
               \/ \E m \in BOOLEAN : SetMode(m)
      BY <3>3 DEF Bump, BumpDrop, SlClose, SlOpen, SetMode, resizer
    <3> QED
      BY <1>2, <3>1, <3>2, <3>3, Zenon
  <2> QED
    BY <1>1, <2>1 DEF BuffersTyped
<1>3. CASE Store
  <2>1. bufs' \in [{0, 1} -> Seq(Cells)] /\ \A c \in {0, 1} : Len(bufs'[c]) = Len(bufs[c])
    BY <1>3, StoreWrites
  <2>2. UNCHANGED <<cur, buffsize, resize, size>>
    BY <1>3 DEF Store, resizer
  <2> QED
    BY <1>1, <2>1, <2>2 DEF BuffersTyped
<1>4. ASSUME NEW n \in BufSizes, ResizeSwap(n) PROVE BuffersTyped'
  <2>1. resize' = "swapped" /\ size' = n /\ cur' = 1 - cur
        /\ bufs' = [bufs EXCEPT ![1 - cur] = Junk(n)] /\ buffsize' = buffsize
    BY <1>4 DEF ResizeSwap
  <2>2. Junk(n) \in Seq(Cells) /\ Len(Junk(n)) = n + Slack
    BY BufferBounds, JunkFacts
  <2>3. cur' \in {0, 1}
    BY <1>1, <2>1 DEF BuffersTyped
  <2>4. bufs' = [bufs EXCEPT ![cur'] = Junk(n)] /\ bufs \in [{0, 1} -> Seq(Cells)]
    BY <1>1, <2>1 DEF BuffersTyped
  <2>5. bufs' \in [{0, 1} -> Seq(Cells)] /\ bufs'[cur'] = Junk(n)
    BY <2>2, <2>3, <2>4
  <2> QED
    BY <1>1, <2>1, <2>2, <2>3, <2>5 DEF BuffersTyped
<1>5. CASE ResizeCopy
  <2>1. Copied
    BY <1>5, CopyWrites
  <2>2. UNCHANGED <<cur, buffsize, size>> /\ resize' = "copied" /\ resize = "swapped"
    BY <1>5 DEF ResizeCopy
  <2>3. bufs \in [{0, 1} -> Seq(Cells)] /\ cur \in {0, 1} /\ Len(bufs[cur]) = size + Slack
        /\ size \in BufSizes /\ buffsize \in BufSizes
    BY <1>1, <2>2 DEF BuffersTyped
  <2>4. bufs' \in [{0, 1} -> Seq(Cells)] /\ Len(bufs'[cur]) = Len(bufs[cur])
    <3>1. CASE bufs' = bufs
      BY <2>3, <3>1
    <3>2. CASE /\ bufs' = [bufs EXCEPT ![cur] = bufs'[cur]]
               /\ bufs'[cur] \in Seq(Cells) /\ Len(bufs'[cur]) = Len(bufs[cur])
      <4>1. PICK new \in Seq(Cells) : new = bufs'[cur]
        BY <3>2
      <4>2. bufs' = [bufs EXCEPT ![cur] = new]
        BY <3>2, <4>1, Zenon
      <4>3. bufs' \in [{0, 1} -> Seq(Cells)]
        BY <2>3, <4>2
      <4> QED
        BY <3>2, <4>3, Zenon
    <3> QED
      BY <2>1, <3>1, <3>2, Zenon DEF Copied
  <2>5. Len(bufs'[cur']) = size + Slack
    BY <2>2, <2>3, <2>4
  <2> QED
    BY <2>2, <2>3, <2>4, <2>5 DEF BuffersTyped
<1>6. CASE ResizeEnd
  <2>1. resize = "copied" /\ resize' = "idle" /\ buffsize' = size /\ UNCHANGED <<bufs, cur, size>>
    BY <1>6 DEF ResizeEnd
  <2> QED
    BY <1>1, <2>1 DEF BuffersTyped
<1> QED
  BY <1>2, <1>3, <1>4, <1>5, <1>6, Zenon DEF Next, Receive, Admin, Resize

\* What sl_bump reads at rbuff are bytes or what was in the memory.
LEMMA ReadType ==
  ASSUME RxTyped, NEW n \in Nat
  PROVE  /\ Read(n) \in Seq(Cells) /\ Len(Read(n)) = n
         /\ \A i \in 1 .. n : Read(n)[i] = Cell(cur, i)
<1>1. bufs \in [{0, 1} -> Seq(Cells)] /\ cur \in {0, 1}
  BY DEF RxTyped, BuffersTyped
<1>2. bufs[cur] \in Seq(Cells) /\ -1 \in Cells
  BY <1>1 DEF Cells
<1>3. \A i \in DOMAIN bufs[cur] : bufs[cur][i] \in Cells
  BY <1>2
<1>4. \A i : Cell(cur, i) \in Cells
  BY <1>2, <1>3, Zenon DEF Cell
<1>5. Read(n) = [i \in 1 .. n |-> Cell(cur, i)]
  BY DEF Read
<1>6. Read(n) \in [1 .. n -> Cells]
  BY <1>4, <1>5
<1>7. \A q \in [1 .. n -> Cells] : q \in Seq(Cells) /\ Len(q) = n
  OBVIOUS
<1> QED
  BY <1>5, <1>6, <1>7

\* Every step keeps what was handed up.
LEMMA UpStep ==
  ASSUME RxTyped, [Next]_vars
  PROVE  UpTyped'
<1>1. UpTyped /\ LineTyped
  BY DEF RxTyped
<1>2. ASSUME up' = up, sent' = sent \/ \E p \in Packets : Send(p) PROVE UpTyped'
  <2>1. Len(sent) <= Len(sent')
    <3>1. sent \in Seq(Packets)
      BY <1>1 DEF LineTyped
    <3>2. CASE sent' = sent
      BY <3>1, <3>2
    <3>3. ASSUME NEW p \in Packets, Send(p) PROVE Len(sent) <= Len(sent')
      BY <3>1, <3>3 DEF Send
    <3> QED
      BY <1>2, <3>2, <3>3
  <2>2. \A i \in 1 .. Len(up) : up[i].frame <= Len(sent')
    <3> TAKE i \in 1 .. Len(up)
    <3>1. up[i] \in HandedUp /\ up[i].frame <= Len(sent)
      BY <1>1 DEF UpTyped
    <3>2. PICK f \in Nat : f = up[i].frame
      BY <3>1 DEF HandedUp
    <3>3. Len(sent) \in Nat /\ Len(sent') \in Nat
      BY <1>1, LineStep DEF LineTyped
    <3> QED
      BY <2>1, <3>1, <3>2, <3>3
  <2> QED
    BY <1>1, <1>2, <2>2 DEF UpTyped
<1>3. CASE \/ UNCHANGED vars
           \/ Rest
           \/ \E i \in DOMAIN line : Noise(i)
           \/ \E k \in 1 .. Len(line) : Deliver(k)
           \/ TakeBad \/ TakeNone \/ TakeData \/ TakeEnd
           \/ Store
           \/ BumpDrop
           \/ Resize
           \/ SlClose \/ SlOpen
           \/ \E m \in BOOLEAN : SetMode(m)
  <2>1. up' = up /\ sent' = sent
    <3>1. CASE \/ UNCHANGED vars
               \/ Rest
               \/ \E i \in DOMAIN line : Noise(i)
               \/ \E k \in 1 .. Len(line) : Deliver(k)
      BY <3>1 DEF Noise, Deliver, Rest, vars, ghosts
    <3>2. CASE TakeBad \/ TakeNone \/ TakeData \/ TakeEnd
      BY <3>2 DEF TakeBad, TakeNone, TakeData, TakeEnd, Consume
    <3>3. CASE Store \/ BumpDrop \/ Resize
      BY <3>3 DEF Store, BumpDrop, Resize, ResizeSwap, ResizeCopy, ResizeEnd, ghosts
    <3>4. CASE SlClose \/ SlOpen \/ (\E m \in BOOLEAN : SetMode(m))
      BY <3>4 DEF SlClose, SlOpen, SetMode
    <3> QED
      BY <1>3, <3>1, <3>2, <3>3, <3>4, Zenon
  <2> QED
    BY <1>2, <2>1
<1>4. CASE \E p \in Packets : Send(p)
  <2>1. up' = up
    BY <1>4 DEF Send, ghosts
  <2> QED
    BY <1>2, <1>4, <2>1
<1>5. CASE Bump
  <2>1. idx \in Nat /\ last \in 0 .. Len(sent) /\ Len(sent) \in Nat
    BY <1>1, BufferBounds DEF RxTyped, DecoderTyped, LineTyped
  <2>2. Read(idx) \in Seq(Cells)
    BY <2>1, ReadType
  <2>3. PICK e \in HandedUp :
          e = [frame |-> last, data |-> Read(idx)] /\ e.frame <= Len(sent)
    <3>1. [frame |-> last, data |-> Read(idx)] \in HandedUp
      BY <2>1, <2>2 DEF HandedUp
    <3>2. [frame |-> last, data |-> Read(idx)].frame = last /\ last <= Len(sent)
      BY <2>1
    <3> QED
      BY <3>1, <3>2, Zenon
  <2>4. up' = Append(up, e) /\ sent' = sent
    BY <1>5, <2>3 DEF Bump
  <2>5. up \in Seq(HandedUp)
        /\ \A i \in 1 .. Len(up) : up[i].frame <= Len(sent)
    BY <1>1 DEF UpTyped
  <2>6. \A q \in Seq(HandedUp), x \in HandedUp :
          /\ Append(q, x) \in Seq(HandedUp) /\ Len(Append(q, x)) = Len(q) + 1 /\ Len(q) \in Nat
          /\ \A i \in 1 .. Len(q) + 1 : Append(q, x)[i] = IF i = Len(q) + 1 THEN x ELSE q[i]
    OBVIOUS
  <2>7. /\ up' \in Seq(HandedUp)
        /\ Len(up') = Len(up) + 1 /\ Len(up) \in Nat
        /\ \A i \in 1 .. Len(up) + 1 : up'[i] = IF i = Len(up) + 1 THEN e ELSE up[i]
    BY <2>3, <2>4, <2>5, <2>6, Zenon
  <2>8. \A i \in 1 .. Len(up) + 1 : i = Len(up) + 1 \/ (i # Len(up) + 1 /\ i \in 1 .. Len(up))
    BY <2>7
  <2>9. \A i \in 1 .. Len(up') : up'[i].frame <= Len(sent')
    BY <2>3, <2>4, <2>5, <2>7, <2>8, Zenon
  <2> QED
    BY <2>7, <2>9, Zenon DEF UpTyped
<1> QED
  BY <1>3, <1>4, <1>5, Zenon DEF Next, Receive, Admin

\* So the types hold for ever.
LEMMA RxTypes == Spec => []RxTyped
<1>1. RxTyped /\ [Next]_vars => RxTyped'
  BY LineStep, FlagsStep, DecoderStep, BuffersStep, UpStep DEF RxTyped
<1> QED
  BY <1>1, RxTypedInit, PTL DEF Spec

-----------------------------------------------------------------------------
(* The buffer in use is not overrun.                                       *)

\* While no byte has been received in the middle of an exchange: the receiver's count and the
\* store under way fit the buffer in use, and a resize finds the receiver at rest.
Sound ==
  /\ ~outside /\ rcount <= buffsize
  /\ pc # "idle" => resize = "idle"
  /\ pc = "store" => idx < buffsize /\ ptr = cur
  /\ pc = "bump" => idx <= buffsize
  /\ resize = "swapped" => rcount <= Len(bufs[1 - cur])
  /\ resize = "copied" => rcount <= size

InsideInv == overlap \in BOOLEAN /\ outside \in BOOLEAN /\ (~overlap => Sound)

\* The numbers at hand.
LEMMA InsideNumbers ==
  ASSUME RxTyped
  PROVE  /\ rcount \in Nat /\ idx \in Nat /\ buffsize \in Nat /\ size \in Nat /\ Slack \in Nat
         /\ cur \in {0, 1} /\ 1 - cur \in {0, 1} /\ ptr \in {0, 1}
         /\ \A b \in {0, 1} : Len(bufs[b]) \in Nat /\ DOMAIN bufs[b] = 1 .. Len(bufs[b])
         /\ Len(bufs[cur]) = (IF resize = "idle" THEN buffsize ELSE size) + Slack
<1>1. rcount \in Nat /\ idx \in Nat /\ buffsize \in Nat /\ size \in Nat /\ Slack \in Nat
  BY BufferBounds, RxAssumption DEF RxTyped, DecoderTyped, BuffersTyped
<1>2. cur \in {0, 1} /\ ptr \in {0, 1} /\ bufs \in [{0, 1} -> Seq(Cells)]
      /\ Len(bufs[cur]) = (IF resize = "idle" THEN buffsize ELSE size) + Slack
  BY DEF RxTyped, DecoderTyped, BuffersTyped
<1>3. \A b \in {0, 1} : bufs[b] \in Seq(Cells)
  BY <1>2
<1> QED
  BY <1>1, <1>2, <1>3

\* A buffer of which no more is used than it has.
LEMMA WithinFacts ==
  ASSUME RxTyped, NEW b \in {0, 1}, NEW n \in Nat, n <= Len(bufs[b]), Live(b)
  PROVE  Within(b, n)
<1>1. DOMAIN bufs[b] = 1 .. Len(bufs[b]) /\ Len(bufs[b]) \in Nat
  BY InsideNumbers
<1>2. 1 .. n \subseteq 1 .. Len(bufs[b])
  BY <1>1
<1> QED
  BY <1>1, <1>2, Zenon DEF Within

\* At the start.
LEMMA InsideInit == Init => InsideInv
<1> SUFFICES ASSUME Init PROVE InsideInv
  OBVIOUS
<1>1. buffsize \in Nat
  BY BufferBounds DEF Init
<1>2. overlap = FALSE /\ outside = FALSE /\ rcount = 0 /\ pc = "idle" /\ resize = "idle"
  BY DEF Init
<1>3. rcount <= buffsize
  BY <1>1, <1>2
<1>4. Sound
  BY <1>2, <1>3 DEF Sound
<1> QED
  BY <1>2, <1>4, Zenon DEF InsideInv

\* Every step.
LEMMA InsideStep ==
  ASSUME RxTyped, InsideInv, [Next]_vars
  PROVE  InsideInv'
<1> USE InsideNumbers
<1>1. CASE \/ UNCHANGED vars
           \/ Rest
           \/ \E p \in Packets : Send(p)
           \/ \E i \in DOMAIN line : Noise(i)
           \/ \E k \in 1 .. Len(line) : Deliver(k)
           \/ SlOpen
           \/ \E m \in BOOLEAN : SetMode(m)
  <2>1. UNCHANGED <<pc, idx, ptr, bufs, cur, rcount, buffsize, resize, size, overlap, outside>>
    BY <1>1 DEF Rest, Send, Noise, Deliver, SlOpen, SetMode, vars, locals, decoder, resizer, strays
  <2> QED
    BY <2>1 DEF InsideInv, Sound
<1>2. ASSUME Consume, TakeBad \/ TakeNone \/ TakeData \/ TakeEnd PROVE InsideInv'
  <2>1. /\ pc = "idle" /\ UNCHANGED <<bufs, cur, buffsize, resize, size, outside>>
        /\ overlap' = (overlap \/ resize # "idle")
    BY <1>2 DEF Consume, resizer
  <2>2. \/ UNCHANGED <<pc, idx, ptr>> /\ (rcount' = rcount \/ rcount' = 0)
        \/ pc' = "store" /\ idx' = rcount /\ ptr' = cur /\ rcount < buffsize /\ rcount' = rcount
        \/ pc' = "bump" /\ idx' = rcount /\ rcount' = rcount
    BY <1>2 DEF TakeBad, TakeNone, TakeData, TakeEnd, locals
  <2>3. overlap' \in BOOLEAN /\ outside' \in BOOLEAN /\ (~overlap' => ~overlap /\ resize = "idle")
    BY <2>1 DEF InsideInv
  <2>4. ASSUME ~overlap' PROVE Sound'
    <3>1. ~outside' /\ Sound /\ resize = "idle"
      BY <2>1, <2>3, <2>4 DEF InsideInv, Sound
    <3> QED
      BY <2>1, <2>2, <3>1 DEF Sound
  <2> QED
    BY <2>3, <2>4 DEF InsideInv
<1>3. CASE TakeBad \/ TakeNone \/ TakeData \/ TakeEnd
  BY <1>2, <1>3 DEF TakeBad, TakeNone, TakeData, TakeEnd
<1>4. CASE Store
  <2>1. /\ pc = "store" /\ pc' = "idle" /\ rcount' = idx + 1
        /\ UNCHANGED <<cur, buffsize, resize, size, overlap>>
    BY <1>4 DEF Store, resizer
  <2>2. PICK b \in {ptr, cur} : outside' = (outside \/ ~Within(b, idx + 1))
    BY <1>4, Zenon DEF Store
  <2>3. overlap' \in BOOLEAN /\ outside' \in BOOLEAN
    BY <2>1, <2>2 DEF InsideInv
  <2>4. ASSUME ~overlap' PROVE Sound'
    <3>1. Sound
      BY <2>1, <2>4 DEF InsideInv
    <3>2. b = cur /\ resize = "idle" /\ idx < buffsize /\ ~outside
      BY <2>1, <2>2, <3>1 DEF Sound
    <3>3. idx + 1 <= Len(bufs[b]) /\ Live(b) /\ idx + 1 \in Nat /\ b \in {0, 1}
      BY <3>2 DEF Live
    <3>4. ~outside'
      BY <2>2, <3>2, <3>3, WithinFacts
    <3> QED
      BY <2>1, <3>2, <3>4 DEF Sound
  <2> QED
    BY <2>3, <2>4 DEF InsideInv
<1>5. CASE Bump
  <2>1. /\ pc = "bump" /\ pc' = "idle" /\ rcount' = 0
        /\ outside' = (outside \/ ~Within(cur, idx))
        /\ UNCHANGED <<bufs, cur, buffsize, resize, size, overlap>>
    BY <1>5 DEF Bump, resizer
  <2>2. overlap' \in BOOLEAN /\ outside' \in BOOLEAN
    BY <2>1 DEF InsideInv
  <2>3. ASSUME ~overlap' PROVE Sound'
    <3>1. Sound
      BY <2>1, <2>3 DEF InsideInv
    <3>2. resize = "idle" /\ idx <= buffsize /\ ~outside
      BY <2>1, <3>1 DEF Sound
    <3>3. idx <= Len(bufs[cur]) /\ Live(cur)
      BY <3>2 DEF Live
    <3>4. ~outside'
      BY <2>1, <3>2, <3>3, WithinFacts
    <3> QED
      BY <2>1, <3>2, <3>4 DEF Sound
  <2> QED
    BY <2>2, <2>3 DEF InsideInv
<1>6. CASE BumpDrop \/ SlClose
  <2>1. /\ rcount' = 0 /\ (UNCHANGED <<pc, idx, ptr>> \/ pc' = "idle")
        /\ UNCHANGED <<bufs, cur, buffsize, resize, size, overlap, outside>>
    BY <1>6 DEF BumpDrop, SlClose, resizer, locals, strays
  <2> QED
    BY <2>1 DEF InsideInv, Sound
<1>7. ASSUME NEW n \in BufSizes, ResizeSwap(n) PROVE InsideInv'
  <2>1. /\ resize = "idle" /\ resize' = "swapped" /\ cur' = 1 - cur
        /\ bufs' = [bufs EXCEPT ![1 - cur] = Junk(n)]
        /\ overlap' = (overlap \/ pc # "idle")
        /\ UNCHANGED <<pc, idx, ptr, rcount, buffsize, outside>>
    BY <1>7 DEF ResizeSwap, Interfere, locals
  <2>2. overlap' \in BOOLEAN /\ outside' \in BOOLEAN /\ (~overlap' => ~overlap /\ pc = "idle")
    BY <2>1 DEF InsideInv
  <2>3. 1 - cur' = cur /\ bufs'[cur] = bufs[cur]
    <3>1. cur # 1 - cur /\ bufs \in [{0, 1} -> Seq(Cells)]
      BY DEF RxTyped, BuffersTyped
    <3> QED
      BY <2>1, <3>1
  <2>4. ASSUME ~overlap' PROVE Sound'
    <3>1. Sound /\ pc = "idle"
      BY <2>2, <2>4 DEF InsideInv
    <3>2. rcount <= Len(bufs[cur])
      BY <2>1, <3>1 DEF Sound
    <3> QED
      BY <2>1, <2>3, <3>1, <3>2 DEF Sound
  <2> QED
    BY <2>2, <2>4 DEF InsideInv
<1>8. CASE ResizeCopy
  <2>1. /\ resize = "swapped" /\ resize' = "copied"
        /\ \/ /\ rcount <= size /\ rcount' = rcount
              /\ outside' = (outside \/ ~Within(1 - cur, rcount))
           \/ rcount' = 0 /\ outside' = outside
        /\ UNCHANGED <<pc, idx, ptr, cur, buffsize, size, overlap>>
    BY <1>8 DEF ResizeCopy, locals
  <2>2. overlap' \in BOOLEAN /\ outside' \in BOOLEAN
    BY <2>1 DEF InsideInv
  <2>3. ASSUME ~overlap' PROVE Sound'
    <3>1. Sound
      BY <2>1, <2>3 DEF InsideInv
    <3>2. pc = "idle" /\ rcount <= Len(bufs[1 - cur]) /\ Live(1 - cur) /\ ~outside
          /\ rcount <= buffsize
      BY <2>1, <3>1 DEF Sound, Live
    <3>3. ~outside'
      BY <2>1, <3>2, WithinFacts
    <3> QED
      BY <2>1, <3>2, <3>3 DEF Sound
  <2> QED
    BY <2>2, <2>3 DEF InsideInv
<1>9. CASE ResizeEnd
  <2>1. /\ resize = "copied" /\ resize' = "idle" /\ buffsize' = size
        /\ UNCHANGED <<pc, idx, ptr, bufs, cur, rcount, size, overlap, outside>>
    BY <1>9 DEF ResizeEnd, locals, strays
  <2> QED
    BY <2>1 DEF InsideInv, Sound
<1> QED
  BY <1>1, <1>3, <1>4, <1>5, <1>6, <1>7, <1>8, <1>9, Zenon DEF Next, Receive, Admin, Resize

\* So the buffer is safe for ever.
LEMMA InsideInvariance == Spec => []InsideInv
<1>1. RxTyped /\ InsideInv /\ [Next]_vars => InsideInv'
  BY InsideStep
<1> QED
  BY <1>1, InsideInit, RxTypes, PTL DEF Spec

\* Whatever noise, resizing and closing do in the middle of a frame, every variable of the
\* receive path keeps its type.
LEMMA RxTypeCorrect == Spec => []TypeOK
<1>1. RxTyped /\ InsideInv => TypeOK
  <2> SUFFICES ASSUME RxTyped, InsideInv PROVE TypeOK
    OBVIOUS
  <2>1. LineTyped /\ FlagsTyped /\ DecoderTyped /\ BuffersTyped
    BY DEF RxTyped
  <2>2. \A i \in DOMAIN line : line[i] \in [s : Byte, bad : BOOLEAN, frame : 0 .. Len(sent)]
    <3>1. line \in Seq(Arrival) /\ Len(sent) \in Nat
      BY <2>1 DEF LineTyped
    <3> TAKE i \in DOMAIN line
    <3>2. i \in 1 .. Len(line)
      BY <3>1
    <3>3. line[i] \in Arrival /\ line[i].frame <= Len(sent)
      BY <2>1, <3>1, <3>2 DEF LineTyped
    <3> QED
      BY <3>1, <3>3 DEF Arrival
  <2>3. dec.esc \in BOOLEAN /\ dec.xbits \in {0, 2, 4, 6} /\ dec.xdata \in 0 .. XdataSize - 1
    <3>1. dec \in Decoder /\ dec.xdata \in 0 .. XdataSize - 1
      BY <2>1, Zenon DEF DecoderTyped, BitsKept
    <3>2. dec.esc \in BOOLEAN /\ dec.xbits \in {0, 2, 4, 6}
      BY <3>1 DEF Decoder
    <3> QED
      BY <3>1, <3>2, Zenon
  <2> QED
    BY <2>1, <2>2, <2>3, Zenon
    DEF TypeOK, LineTyped, FlagsTyped, DecoderTyped, BuffersTyped, InsideInv
<1> QED
  BY <1>1, RxTypes, InsideInvariance, PTL

\* For buffers and packets of any size, any encoding, noise and schedule, the buffer in use
\* is never overrun and nothing beyond it is read, unless a byte is received while
\* sl_realloc_bufs exchanges the buffers.
THEOREM BufferStaysInside == Spec => []StaysInside
<1>1. InsideInv => StaysInside
  BY DEF InsideInv, Sound, StaysInside
<1> QED
  BY <1>1, InsideInvariance, PTL

-----------------------------------------------------------------------------
(* Frames that nobody interferes with.                                     *)

\* The bytes of frame f from its place k + 1 on stand undamaged on the line after place a, and
\* nowhere else; a frame that has begun to arrive is the first on the line.  w is what was sent.
Placed(l, w, f, a, k) ==
  /\ a \in 0 .. Len(l) /\ k \in 0 .. Len(w) /\ a + (Len(w) - k) <= Len(l)
  /\ k # 0 => a = 0
  /\ \A i \in 1 .. Len(l) : l[i].frame = f <=> i \in a + 1 .. a + (Len(w) - k)
  /\ \A j \in 1 .. Len(w) - k : l[a + j].s = w[k + j] /\ ~l[a + j].bad

\* Nothing was handed up for a frame.
Unheard(f) == \A i \in 1 .. Len(up) : up[i].frame # f

\* The buffer in use begins with these bytes.
Holds(data) == \A i \in 1 .. Len(data) : bufs[cur][i] = data[i]

\* The receiver has what r, an undisturbed one, would have of the frame.
Hearing(r) ==
  /\ resize = "idle" /\ mode6 = slip6 /\ running /\ ~error /\ Alike(slip6, dec, r.dec)
  /\ pc = "idle" => rcount = Len(r.buf) /\ Holds(r.buf)
  /\ pc = "store" => /\ ptr = cur /\ idx + 1 = Len(r.buf) /\ byte = r.buf[idx + 1]
                     /\ \A i \in 1 .. idx : bufs[cur][i] = r.buf[i]
  /\ pc = "bump" => r.buf = << >>

\* The packet p of frame f is about to be handed up, and was.
Pending(f, p) ==
  resize = "idle" /\ pc = "bump" /\ last = f /\ idx = Len(p) /\ Holds(p) /\ Unheard(f)

Delivered(f, p) ==
  /\ \E i \in 1 .. Len(up) : up[i] = [frame |-> f, data |-> p]
  /\ last = f => pc = "idle" /\ rcount = 0

Waiting(f) == last # f /\ Unheard(f)

\* What has become of a frame of n bytes when k of them have arrived.
Progress(f, p, R, n, k) ==
  \/ k = 0 /\ Waiting(f)
  \/ k \in 1 .. n - 1 /\ Hearing(R[k]) /\ (last = f <=> R[k].buf # << >>) /\ Unheard(f)
  \/ k = n /\ (Pending(f, p) \/ Delivered(f, p))

\* w is the frame of packet p, n its length, and R what an undisturbed receiver hears of it.
Spoken(p, w, R, n) ==
  /\ p \in Seq(Byte) /\ Deliverable(p) /\ Len(p) <= Min(BufSizes)
  /\ w = Encode(slip6, p) /\ R = Reception(slip6, w) /\ n = Len(w)

FrameInv(f) ==
  \A w, R, n : Spoken(sent[f], w, R, n) =>
    \E a, k \in Nat : Placed(line, w, f, a, k) /\ Progress(f, sent[f], R, n, k)

\* What a frame and an undisturbed receiver are like.
Shaped(six, p, w, R, n) ==
  /\ w \in Seq(Byte) /\ n \in Nat /\ n >= 2 /\ n = Len(w)
  /\ w[1] = Delimiter(six) /\ w[n] = Delimiter(six)
  /\ \A j \in 2 .. n - 1 : w[j] # Delimiter(six)
  /\ \A k \in 0 .. n : R[k] \in Receiver
  /\ \A k \in 1 .. n : R[k] = Hear(six, R[k - 1], w[k])
  /\ R[0].buf = << >> /\ R[1].buf = << >> /\ R[n - 1].buf = p
  /\ \A k \in 0 .. n - 1 : Len(R[k].buf) <= Len(p)

\* A frame spoken of is like that.
LEMMA SpokenShaped ==
  ASSUME NEW p, NEW w, NEW R, NEW n, slip6 \in BOOLEAN, Spoken(p, w, R, n)
  PROVE  Shaped(slip6, p, w, R, n)
<1>1. p \in Seq(Byte) /\ Deliverable(p) /\ w = Encode(slip6, p) /\ R = Reception(slip6, w)
      /\ n = Len(w)
  BY Zenon DEF Spoken
<1>2. Framed(slip6, w)
  BY <1>1, EncodeFramed, Zenon
<1>3. Traced(slip6, p, R, n)
  BY <1>1, FrameTraced, Zenon
<1>4. n \in Nat /\ n >= 2 /\ R \in [0 .. n -> Receiver]
  BY <1>3, Zenon DEF Traced
<1>5. w \in Seq(Byte) /\ w[1] = Delimiter(slip6) /\ w[n] = Delimiter(slip6)
      /\ \A j \in 2 .. n - 1 : w[j] # Delimiter(slip6)
  BY <1>1, <1>2, Zenon DEF Framed
<1>6. \A k \in 1 .. n : R[k] = Hear(slip6, R[k - 1], w[k])
  BY <1>1, <1>4, <1>5, ReceptionRuns, Zenon
<1>7. \A k \in 0 .. n : R[k] \in Receiver
  BY <1>4
<1> QED
  BY <1>1, <1>3, <1>4, <1>5, <1>6, <1>7, Zenon DEF Traced, Shaped

\* A frame that must get through was sent, and is spoken of.
LEMMA OwedSent ==
  ASSUME RxTyped, NEW f \in Owed
  PROVE  /\ f \in 1 .. Len(sent) /\ f # 0 /\ f \notin touched
         /\ \E w, R, n : Spoken(sent[f], w, R, n)
<1>1. sent \in Seq(Packets)
  BY DEF RxTyped, LineTyped
<1>2. f \in DOMAIN sent /\ f \notin touched /\ Deliverable(sent[f]) /\ Len(sent[f]) <= Min(BufSizes)
  BY DEF Owed
<1>3. f \in 1 .. Len(sent) /\ f # 0
  BY <1>1, <1>2
<1>4. sent[f] \in Seq(Byte)
  BY <1>1, <1>3, RxAssumption
<1>5. Spoken(sent[f], Encode(slip6, sent[f]), Reception(slip6, Encode(slip6, sent[f])),
             Len(Encode(slip6, sent[f])))
  BY <1>2, <1>4, Zenon DEF Spoken
<1> QED
  BY <1>2, <1>3, <1>5, Zenon

\* Interference is not taken back, and what was sent stays.
LEMMA StaysOwed ==
  ASSUME RxTyped, [Next]_vars
  PROVE  /\ slip6' = slip6 /\ touched \subseteq touched'
         /\ \/ sent' = sent
            \/ \E p \in Packets : Send(p)
<1>1. CASE \E p \in Packets : Send(p)
  BY <1>1 DEF Send, ghosts
<1>2. CASE \/ UNCHANGED vars
           \/ Rest
           \/ \E i \in DOMAIN line : Noise(i)
           \/ \E k \in 1 .. Len(line) : Deliver(k)
  BY <1>2 DEF Noise, Deliver, Rest, vars, ghosts
<1>3. CASE TakeBad \/ TakeNone \/ TakeData \/ TakeEnd
  <2>1. Consume
    BY <1>3 DEF TakeBad, TakeNone, TakeData, TakeEnd
  <2> QED
    BY <2>1 DEF Consume
<1>4. CASE Store \/ Bump \/ BumpDrop \/ Resize
  BY <1>4 DEF Store, Bump, BumpDrop, Resize, ResizeSwap, ResizeCopy, ResizeEnd, Interfere, ghosts
<1>5. CASE SlClose \/ SlOpen \/ (\E m \in BOOLEAN : SetMode(m))
  BY <1>5 DEF SlClose, SlOpen, SetMode, Interfere
<1> QED
  BY <1>1, <1>2, <1>3, <1>4, <1>5, Zenon DEF Next, Receive, Admin

\* A frame is where it should be after a step when it is placed and makes progress there.
LEMMA FrameKept ==
  ASSUME NEW f, NEW p, NEW w, NEW R, NEW n, NEW a \in Nat, NEW k \in Nat,
         sent'[f] = p, slip6' = slip6, Spoken(p, w, R, n),
         Placed(line', w, f, a, k), Progress(f, p, R, n, k)'
  PROVE  FrameInv(f)'
<1> SUFFICES ASSUME NEW u, NEW Q, NEW m, Spoken(p, u, Q, m)'
             PROVE  Placed(line', u, f, a, k) /\ Progress(f, p, Q, m, k)'
  BY Zenon DEF FrameInv
<1>1. u = w /\ Q = R /\ m = n
  BY Zenon DEF Spoken
<1> QED
  BY <1>1, Zenon

\* Where a frame stands, in numbers: z bytes of it are on a line of m.
Standing(f, w, a, k, m, z) ==
  /\ m = Len(line) /\ z = Len(w) - k /\ a \in 0 .. m /\ a + z <= m /\ k \in 0 .. Len(w)
  /\ k # 0 => a = 0
  /\ \A i \in 1 .. m : line[i].frame = f <=> i \in a + 1 .. a + z
  /\ \A j \in 1 .. z : line[a + j].s = w[k + j] /\ ~line[a + j].bad

\* A frame that is placed stands somewhere.
LEMMA PlacedFacts ==
  ASSUME LineTyped, NEW f, NEW w \in Seq(Byte), NEW a, NEW k, Placed(line, w, f, a, k)
  PROVE  \E m, z \in Nat : Standing(f, w, a, k, m, z)
<1>1. Len(line) \in Nat /\ Len(w) \in Nat
  BY DEF LineTyped
<1>2. k \in 0 .. Len(w)
  BY Zenon DEF Placed
<1>3. Len(w) - k \in Nat
  BY <1>1, <1>2
<1> QED
  BY <1>1, <1>3, Zenon DEF Placed, Standing

\* Changes of bytes of another frame, or of none, at most move it.
LEMMA AlteredElsewhere ==
  ASSUME LineTyped, NEW f, NEW w \in Seq(Byte), NEW a, NEW k, Placed(line, w, f, a, k),
         NEW l, NEW i \in 1 .. Len(line), line[i].frame # f, Altered(l, i)
  PROVE  Placed(l, w, f, a, k)
<1>1. PICK m \in Nat, z \in Nat : Standing(f, w, a, k, m, z)
  BY PlacedFacts, Zenon
<1>2. /\ m = Len(line) /\ z = Len(w) - k /\ a \in 0 .. m /\ a + z <= m /\ k \in 0 .. Len(w)
      /\ k # 0 => a = 0
      /\ \A j \in 1 .. m : line[j].frame = f <=> j \in a + 1 .. a + z
      /\ \A j \in 1 .. z : line[a + j].s = w[k + j] /\ ~line[a + j].bad
  BY <1>1, Zenon DEF Standing
<1>3. Len(l) = m /\ l[i].frame = line[i].frame /\ \A j \in 1 .. m : j # i => l[j] = line[j]
  BY <1>2, Zenon DEF Altered
<1>4. \A j \in 1 .. m : l[j].frame = line[j].frame
  BY <1>3, Zenon
<1>5. \A j \in 1 .. z : a + j \in 1 .. m /\ a + j \in a + 1 .. a + z
  BY <1>2
<1>6. i \in 1 .. m /\ \A j \in 1 .. z : a + j # i
  BY <1>2, <1>5
<1>7. \A j \in 1 .. z : l[a + j] = line[a + j]
  BY <1>3, <1>5, <1>6, Zenon
<1> QED
  BY <1>2, <1>3, <1>4, <1>7, Zenon DEF Placed

\* The same when a byte is lost.
LEMMA LostElsewhere ==
  ASSUME LineTyped, NEW f, NEW w \in Seq(Byte), NEW a, NEW k, Placed(line, w, f, a, k), k \in Nat,
         NEW l, NEW i \in 1 .. Len(line), line[i].frame # f, Lost(l, i),
         k # Len(w) \/ k # 0
  PROVE  \E b \in Nat : Placed(l, w, f, b, k)
<1>1. PICK m \in Nat, z \in Nat : Standing(f, w, a, k, m, z)
  BY PlacedFacts, Zenon
<1>2. /\ m = Len(line) /\ z = Len(w) - k /\ a \in 0 .. m /\ a + z <= m /\ k \in 0 .. Len(w)
      /\ k # 0 => a = 0
      /\ \A j \in 1 .. m : line[j].frame = f <=> j \in a + 1 .. a + z
      /\ \A j \in 1 .. z : line[a + j].s = w[k + j] /\ ~line[a + j].bad
  BY <1>1, Zenon DEF Standing
<1>3. Len(l) = m - 1 /\ \A j \in 1 .. m - 1 : l[j] = IF j < i THEN line[j] ELSE line[j + 1]
  BY <1>2, Zenon DEF Lost
<1>4. i \in 1 .. m /\ i \notin a + 1 .. a + z
  BY <1>2
<1>5. CASE i <= a
  <2>1. PICK b \in Nat : b = a - 1
    BY <1>2, <1>4, <1>5
  <2>2. k = 0 /\ b \in 0 .. m - 1 /\ b + z <= m - 1
    BY <1>2, <1>4, <1>5, <2>1
  <2>3. ASSUME NEW j \in 1 .. m - 1 PROVE l[j].frame = f <=> j \in b + 1 .. b + z
    <3>1. CASE j < i
      <4>1. j \in 1 .. m /\ j \notin a + 1 .. a + z /\ j \notin b + 1 .. b + z
        BY <1>2, <1>5, <2>1, <3>1
      <4> QED
        BY <1>2, <1>3, <3>1, <4>1
    <3>2. CASE ~(j < i)
      <4>1. j + 1 \in 1 .. m /\ (j + 1 \in a + 1 .. a + z <=> j \in b + 1 .. b + z)
        BY <1>2, <2>1
      <4> QED
        BY <1>2, <1>3, <3>2, <4>1
    <3> QED
      BY <3>1, <3>2
  <2>4. ASSUME NEW j \in 1 .. z PROVE l[b + j] = line[a + j]
    <3>1. b + j \in 1 .. m - 1 /\ ~(b + j < i) /\ (b + j) + 1 = a + j
      BY <1>2, <1>4, <1>5, <2>1, <2>2
    <3> QED
      BY <1>3, <3>1
  <2>5. \A j \in 1 .. z : l[b + j].s = w[k + j] /\ ~l[b + j].bad
    BY <1>2, <2>4, Zenon
  <2>6. Placed(l, w, f, b, k)
    BY <1>2, <1>3, <2>2, <2>3, <2>5, Zenon DEF Placed
  <2> QED
    BY <2>6
<1>6. CASE ~(i <= a)
  <2>1. a + z < i /\ a \in 0 .. m - 1 /\ a + z <= m - 1
    BY <1>2, <1>4, <1>6
  <2>2. ASSUME NEW j \in 1 .. m - 1 PROVE l[j].frame = f <=> j \in a + 1 .. a + z
    <3>1. CASE j < i
      <4>1. j \in 1 .. m
        OBVIOUS
      <4> QED
        BY <1>2, <1>3, <3>1, <4>1
    <3>2. CASE ~(j < i)
      <4>1. j + 1 \in 1 .. m /\ j + 1 \notin a + 1 .. a + z /\ j \notin a + 1 .. a + z
        BY <1>2, <2>1, <3>2
      <4> QED
        BY <1>2, <1>3, <3>2, <4>1
    <3> QED
      BY <3>1, <3>2
  <2>3. ASSUME NEW j \in 1 .. z PROVE l[a + j] = line[a + j]
    <3>1. a + j \in 1 .. m - 1 /\ a + j < i
      BY <1>2, <2>1
    <3> QED
      BY <1>3, <3>1
  <2>4. \A j \in 1 .. z : l[a + j].s = w[k + j] /\ ~l[a + j].bad
    BY <1>2, <2>3, Zenon
  <2>5. Placed(l, w, f, a, k)
    BY <1>2, <1>3, <2>1, <2>2, <2>4, Zenon DEF Placed
  <2> QED
    BY <1>2, <2>5
<1> QED
  BY <1>5, <1>6

\* The same when a byte is made up.
LEMMA MadeUpElsewhere ==
  ASSUME LineTyped, NEW f, f # 0, NEW w \in Seq(Byte), NEW a, NEW k, Placed(line, w, f, a, k),
         NEW l, NEW i \in 1 .. Len(line), line[i].frame # f, MadeUp(l, i)
  PROVE  \E b \in Nat : Placed(l, w, f, b, k)
<1>1. PICK m \in Nat, z \in Nat : Standing(f, w, a, k, m, z)
  BY PlacedFacts, Zenon
<1>2. /\ m = Len(line) /\ z = Len(w) - k /\ a \in 0 .. m /\ a + z <= m /\ k \in 0 .. Len(w)
      /\ k # 0 => a = 0
      /\ \A j \in 1 .. m : line[j].frame = f <=> j \in a + 1 .. a + z
      /\ \A j \in 1 .. z : line[a + j].s = w[k + j] /\ ~line[a + j].bad
  BY <1>1, Zenon DEF Standing
<1>3. Len(l) = m + 1 /\ l[i].frame = 0
      /\ \A j \in 1 .. m + 1 : j # i => l[j] = IF j < i THEN line[j] ELSE line[j - 1]
  BY <1>2, Zenon DEF MadeUp
<1>4. i \in 1 .. m /\ i \notin a + 1 .. a + z
  BY <1>2
<1>5. CASE i <= a
  <2>1. PICK b \in Nat : b = a + 1
    BY <1>2
  <2>2. k = 0 /\ b \in 0 .. m + 1 /\ b + z <= m + 1
    BY <1>2, <1>4, <1>5, <2>1
  <2>3. ASSUME NEW j \in 1 .. m + 1 PROVE l[j].frame = f <=> j \in b + 1 .. b + z
    <3>1. CASE j < i
      <4>1. j \in 1 .. m /\ j \notin a + 1 .. a + z /\ j \notin b + 1 .. b + z /\ j # i
        BY <1>2, <1>4, <1>5, <2>1, <3>1
      <4> QED
        BY <1>2, <1>3, <3>1, <4>1
    <3>2. CASE j = i
      <4>1. j \notin b + 1 .. b + z
        BY <1>2, <1>5, <2>1, <3>2
      <4> QED
        BY <1>3, <3>2, <4>1
    <3>3. CASE ~(j < i) /\ j # i
      <4>1. j - 1 \in 1 .. m /\ (j - 1 \in a + 1 .. a + z <=> j \in b + 1 .. b + z)
        BY <1>2, <1>4, <2>1, <3>3
      <4> QED
        BY <1>2, <1>3, <3>3, <4>1
    <3> QED
      BY <3>1, <3>2, <3>3
  <2>4. ASSUME NEW j \in 1 .. z PROVE l[b + j] = line[a + j]
    <3>1. b + j \in 1 .. m + 1 /\ ~(b + j < i) /\ b + j # i /\ (b + j) - 1 = a + j
      BY <1>2, <1>4, <1>5, <2>1, <2>2
    <3> QED
      BY <1>3, <3>1
  <2>5. \A j \in 1 .. z : l[b + j].s = w[k + j] /\ ~l[b + j].bad
    BY <1>2, <2>4, Zenon
  <2>6. Placed(l, w, f, b, k)
    BY <1>2, <1>3, <2>2, <2>3, <2>5, Zenon DEF Placed
  <2> QED
    BY <2>6
<1>6. CASE ~(i <= a)
  <2>1. a + z < i /\ a \in 0 .. m + 1 /\ a + z <= m + 1
    BY <1>2, <1>4, <1>6
  <2>2. ASSUME NEW j \in 1 .. m + 1 PROVE l[j].frame = f <=> j \in a + 1 .. a + z
    <3>1. CASE j < i
      <4>1. j \in 1 .. m /\ j # i
        BY <1>4, <3>1
      <4> QED
        BY <1>2, <1>3, <3>1, <4>1
    <3>2. CASE j = i
      BY <1>3, <1>4, <3>2
    <3>3. CASE ~(j < i) /\ j # i
      <4>1. j - 1 \in 1 .. m /\ j - 1 \notin a + 1 .. a + z /\ j \notin a + 1 .. a + z
        BY <1>2, <1>4, <2>1, <3>3
      <4> QED
        BY <1>2, <1>3, <3>3, <4>1
    <3> QED
      BY <3>1, <3>2, <3>3
  <2>3. ASSUME NEW j \in 1 .. z PROVE l[a + j] = line[a + j]
    <3>1. a + j \in 1 .. m + 1 /\ a + j < i /\ a + j # i
      BY <1>2, <2>1
    <3> QED
      BY <1>3, <3>1
  <2>4. \A j \in 1 .. z : l[a + j].s = w[k + j] /\ ~l[a + j].bad
    BY <1>2, <2>3, Zenon
  <2>5. Placed(l, w, f, a, k)
    BY <1>2, <1>3, <2>1, <2>2, <2>4, Zenon DEF Placed
  <2> QED
    BY <1>2, <2>5
<1> QED
  BY <1>5, <1>6

\* The same when bytes are taken from the front.
LEMMA GoneElsewhere ==
  ASSUME LineTyped, NEW f, NEW w \in Seq(Byte), NEW a, NEW k, Placed(line, w, f, a, k),
         NEW l, NEW n, Gone(l, n), \A i \in 1 .. n : line[i].frame # f,
         k # Len(w) \/ k # 0
  PROVE  \E b \in Nat : Placed(l, w, f, b, k)
<1>1. PICK m \in Nat, z \in Nat : Standing(f, w, a, k, m, z)
  BY PlacedFacts, Zenon
<1>2. /\ m = Len(line) /\ z = Len(w) - k /\ a \in 0 .. m /\ a + z <= m /\ k \in 0 .. Len(w)
      /\ k # 0 => a = 0
      /\ \A j \in 1 .. m : line[j].frame = f <=> j \in a + 1 .. a + z
      /\ \A j \in 1 .. z : line[a + j].s = w[k + j] /\ ~line[a + j].bad
  BY <1>1, Zenon DEF Standing
<1>3. n \in 0 .. m /\ Len(l) = m - n /\ \A j \in 1 .. m - n : l[j] = line[j + n]
  BY <1>2, Zenon DEF Gone
<1>4. CASE z = 0
  <2>1. k # 0 /\ a = 0
    <3>1. Len(w) \in Nat
      OBVIOUS
    <3> QED
      BY <1>2, <1>4, <3>1
  <2>2. ASSUME NEW j \in 1 .. m - n PROVE l[j].frame = f <=> j \in 1 .. 0
    <3>1. j + n \in 1 .. m /\ j + n \notin a + 1 .. a + z /\ j \notin 1 .. 0
      BY <1>3, <1>4, <2>1
    <3> QED
      BY <1>2, <1>3, <3>1
  <2>3. 0 \in 0 .. m - n /\ 0 + z <= m - n /\ 0 + 1 = 1 /\ 0 + z = 0
    BY <1>3, <1>4
  <2>4. \A j \in 1 .. z : FALSE
    BY <1>4
  <2>5. Placed(l, w, f, 0, k)
    BY <1>2, <1>3, <2>2, <2>3, <2>4, Zenon DEF Placed
  <2> QED
    BY <2>5
<1>5. CASE z # 0
  <2>1. a >= n
    <3> SUFFICES ASSUME a < n PROVE FALSE
      BY <1>2, <1>3
    <3>1. a + 1 \in 1 .. n /\ a + 1 \in 1 .. m /\ a + 1 \in a + 1 .. a + z
      BY <1>2, <1>3, <1>5
    <3> QED
      BY <1>2, <3>1
  <2>2. PICK b \in Nat : b = a - n
    BY <1>2, <1>3, <2>1
  <2>3. b \in 0 .. m - n /\ b + z <= m - n /\ (k # 0 => b = 0)
    BY <1>2, <1>3, <2>1, <2>2
  <2>4. ASSUME NEW j \in 1 .. m - n PROVE l[j].frame = f <=> j \in b + 1 .. b + z
    <3>1. j + n \in 1 .. m /\ (j + n \in a + 1 .. a + z <=> j \in b + 1 .. b + z)
      BY <1>2, <1>3, <2>2
    <3> QED
      BY <1>2, <1>3, <3>1
  <2>5. ASSUME NEW j \in 1 .. z PROVE l[b + j] = line[a + j]
    <3>1. a \in Nat /\ n \in Nat
      BY <1>2, <1>3
    <3>2. b + j \in 1 .. m - n /\ (b + j) + n = a + j
      BY <1>3, <2>2, <2>3, <3>1
    <3> QED
      BY <1>3, <3>2
  <2>6. \A j \in 1 .. z : l[b + j].s = w[k + j] /\ ~l[b + j].bad
    BY <1>2, <2>5, Zenon
  <2>7. Placed(l, w, f, b, k)
    BY <1>2, <1>3, <2>3, <2>4, <2>6, Zenon DEF Placed
  <2> QED
    BY <2>7
<1> QED
  BY <1>4, <1>5

\* Another packet sent leaves a frame where it stands.
LEMMA SentElsewhere ==
  ASSUME LineTyped, slip6 \in BOOLEAN, NEW f \in 1 .. Len(sent), NEW w \in Seq(Byte),
         NEW a, NEW k, Placed(line, w, f, a, k), NEW l, NEW q \in Seq(Byte), SentTo(l, q)
  PROVE  Placed(l, w, f, a, k)
<1>1. PICK m \in Nat, z \in Nat : Standing(f, w, a, k, m, z)
  BY PlacedFacts, Zenon
<1>2. /\ m = Len(line) /\ z = Len(w) - k /\ a \in 0 .. m /\ a + z <= m /\ k \in 0 .. Len(w)
      /\ k # 0 => a = 0
      /\ \A j \in 1 .. m : line[j].frame = f <=> j \in a + 1 .. a + z
      /\ \A j \in 1 .. z : line[a + j].s = w[k + j] /\ ~line[a + j].bad
  BY <1>1, Zenon DEF Standing
<1>3. PICK c \in Nat : c = Len(Encode(slip6, q))
  <2>1. Encode(slip6, q) \in Seq(Byte)
    BY EncodeFramed DEF Framed
  <2> QED
    BY <2>1
<1>4. /\ Len(l) = m + c /\ \A i \in 1 .. m : l[i] = line[i]
      /\ \A j \in 1 .. c : l[m + j].frame = Len(sent) + 1
  <2>1. /\ Len(l) = m + c /\ \A i \in 1 .. m : l[i] = line[i]
        /\ \A j \in 1 .. c :
             l[m + j] = [s |-> Encode(slip6, q)[j], bad |-> FALSE, frame |-> Len(sent) + 1]
    BY <1>2, <1>3, Zenon DEF SentTo
  <2>2. \A j \in 1 .. c : l[m + j].frame = Len(sent) + 1
    <3> TAKE j \in 1 .. c
    <3>1. l[m + j] = [s |-> Encode(slip6, q)[j], bad |-> FALSE, frame |-> Len(sent) + 1]
      BY <2>1, Zenon
    <3> QED
      BY <3>1
  <2> QED
    BY <2>1, <2>2
<1>5. f # Len(sent) + 1
  BY DEF LineTyped
<1>6. ASSUME NEW i \in 1 .. m + c PROVE l[i].frame = f <=> i \in a + 1 .. a + z
  <2>1. CASE i <= m
    <3>1. i \in 1 .. m
      BY <2>1
    <3> QED
      BY <1>2, <1>4, <3>1
  <2>2. CASE ~(i <= m)
    <3>1. PICK j \in 1 .. c : i = m + j
      <4>1. i - m \in 1 .. c /\ i = m + (i - m)
        BY <2>2
      <4> QED
        BY <4>1
    <3>2. a \in Nat /\ a + z <= m
      BY <1>2
    <3>3. i \notin a + 1 .. a + z
      BY <2>2, <3>2
    <3> QED
      BY <1>4, <1>5, <3>1, <3>3
  <2> QED
    BY <2>1, <2>2
<1>7. \A j \in 1 .. z : a + j \in 1 .. m
  BY <1>2
<1>8. \A j \in 1 .. z : l[a + j].s = w[k + j] /\ ~l[a + j].bad
  BY <1>2, <1>4, <1>7, Zenon
<1>9. a \in 0 .. m + c /\ a + z <= m + c
  BY <1>2
<1> QED
  BY <1>2, <1>4, <1>6, <1>8, <1>9, Zenon DEF Placed

\* A packet just sent stands at the end of the line.
LEMMA SentHere ==
  ASSUME LineTyped, slip6 \in BOOLEAN, NEW l, NEW q \in Seq(Byte), SentTo(l, q)
  PROVE  Placed(l, Encode(slip6, q), Len(sent) + 1, Len(line), 0)
<1>1. PICK w \in Seq(Byte) : w = Encode(slip6, q)
  BY EncodeFramed DEF Framed
<1>2. PICK c \in Nat : c = Len(w)
  OBVIOUS
<1>3. PICK m \in Nat : m = Len(line)
  BY DEF LineTyped
<1>4. PICK f \in Nat : f = Len(sent) + 1
  BY DEF LineTyped
<1>5. /\ Len(l) = m + c /\ \A i \in 1 .. m : l[i] = line[i]
      /\ \A j \in 1 .. c : l[m + j].frame = f /\ l[m + j].s = w[j] /\ ~l[m + j].bad
  <2>1. /\ Len(l) = m + c /\ \A i \in 1 .. m : l[i] = line[i]
        /\ \A j \in 1 .. c : l[m + j] = [s |-> w[j], bad |-> FALSE, frame |-> f]
    BY <1>1, <1>2, <1>3, <1>4, Zenon DEF SentTo
  <2>2. \A j \in 1 .. c : l[m + j].frame = f /\ l[m + j].s = w[j] /\ ~l[m + j].bad
    <3> TAKE j \in 1 .. c
    <3>1. l[m + j] = [s |-> w[j], bad |-> FALSE, frame |-> f]
      BY <2>1, Zenon
    <3> QED
      BY <3>1
  <2> QED
    BY <2>1, <2>2
<1>6. \A i \in 1 .. m : line[i].frame # f
  <2> TAKE i \in 1 .. m
  <2>1. line[i] \in Arrival /\ line[i].frame <= Len(sent) /\ Len(sent) \in Nat
    BY <1>3 DEF LineTyped
  <2>2. line[i].frame \in Nat
    BY <2>1 DEF Arrival
  <2> QED
    BY <1>4, <2>1, <2>2
<1>7. ASSUME NEW i \in 1 .. m + c PROVE l[i].frame = f <=> i \in m + 1 .. m + (c - 0)
  <2>1. CASE i <= m
    <3>1. i \in 1 .. m /\ i \notin m + 1 .. m + (c - 0)
      BY <2>1
    <3> QED
      BY <1>5, <1>6, <3>1
  <2>2. CASE ~(i <= m)
    <3>1. PICK j \in 1 .. c : i = m + j
      <4>1. i - m \in 1 .. c /\ i = m + (i - m)
        BY <2>2
      <4> QED
        BY <4>1
    <3>2. i \in m + 1 .. m + (c - 0)
      BY <2>2
    <3> QED
      BY <1>5, <3>1, <3>2
  <2> QED
    BY <2>1, <2>2
<1>8. m \in 0 .. m + c /\ 0 \in 0 .. c /\ m + (c - 0) <= m + c
  OBVIOUS
<1>9. \A j \in 1 .. c - 0 : j \in 1 .. c /\ 0 + j = j
  OBVIOUS
<1>10. \A j \in 1 .. c - 0 : l[m + j].s = w[0 + j] /\ ~l[m + j].bad
  BY <1>5, <1>9
<1>11. Placed(l, w, f, m, 0)
  BY <1>2, <1>5, <1>7, <1>8, <1>10, Zenon DEF Placed
<1> QED
  BY <1>1, <1>3, <1>4, <1>11, Zenon

\* When the first byte on the line is of the frame, it is the next one, and undamaged.
LEMMA NextHere ==
  ASSUME LineTyped, NEW f, NEW w \in Seq(Byte), NEW a, NEW k, Placed(line, w, f, a, k),
         NEW l, Gone(l, 1), Len(line) >= 1, line[1].frame = f
  PROVE  /\ k \in 0 .. Len(w) - 1 /\ line[1].s = w[k + 1] /\ ~line[1].bad
         /\ Placed(l, w, f, 0, k + 1)
<1>1. PICK m \in Nat, z \in Nat : Standing(f, w, a, k, m, z)
  BY PlacedFacts, Zenon
<1>2. /\ m = Len(line) /\ z = Len(w) - k /\ a \in 0 .. m /\ a + z <= m /\ k \in 0 .. Len(w)
      /\ k # 0 => a = 0
      /\ \A j \in 1 .. m : line[j].frame = f <=> j \in a + 1 .. a + z
      /\ \A j \in 1 .. z : line[a + j].s = w[k + j] /\ ~line[a + j].bad
  BY <1>1, Zenon DEF Standing
<1>3. Len(l) = m - 1 /\ \A j \in 1 .. m - 1 : l[j] = line[j + 1]
  BY <1>2, Zenon DEF Gone
<1>4. 1 \in 1 .. m
  BY <1>2
<1>5. a = 0 /\ z >= 1 /\ 1 \in 1 .. z
  <2>1. 1 \in a + 1 .. a + z
    BY <1>2, <1>4
  <2> QED
    BY <1>2, <2>1
<1>6. a + 1 = 1
  BY <1>5
<1>7. line[1].s = w[k + 1] /\ ~line[1].bad
  BY <1>2, <1>5, <1>6, Zenon
<1>8. Len(w) \in Nat
  OBVIOUS
<1>9. k \in 0 .. Len(w) - 1 /\ k + 1 \in 0 .. Len(w) /\ Len(w) - (k + 1) = z - 1
      /\ 0 \in 0 .. m - 1 /\ 0 + (z - 1) <= m - 1
  BY <1>2, <1>5, <1>8
<1>10. ASSUME NEW j \in 1 .. m - 1 PROVE l[j].frame = f <=> j \in 0 + 1 .. 0 + (z - 1)
  <2>1. j + 1 \in 1 .. m /\ (j + 1 \in a + 1 .. a + z <=> j \in 0 + 1 .. 0 + (z - 1))
    BY <1>5
  <2> QED
    BY <1>2, <1>3, <2>1
<1>11. ASSUME NEW j \in 1 .. z - 1
       PROVE  l[0 + j].s = w[(k + 1) + j] /\ ~l[0 + j].bad
  <2>1. j + 1 \in 1 .. z /\ 0 + j = j /\ j \in 1 .. m - 1 /\ a + (j + 1) = j + 1
    BY <1>5, <1>9
  <2>2. k + (j + 1) = (k + 1) + j
    BY <1>9
  <2>3. l[j] = line[a + (j + 1)]
    BY <1>3, <2>1
  <2>4. line[a + (j + 1)].s = w[k + (j + 1)] /\ ~line[a + (j + 1)].bad
    BY <1>2, <2>1, Zenon
  <2> QED
    BY <2>1, <2>2, <2>3, <2>4, Zenon
<1>12. Placed(l, w, f, 0, k + 1)
  BY <1>3, <1>9, <1>10, <1>11, Zenon DEF Placed
<1> QED
  BY <1>7, <1>9, <1>12

\* A frame of which bytes have arrived, and others not, is the first on the line.
LEMMA BegunFirst ==
  ASSUME LineTyped, NEW f, NEW w \in Seq(Byte), NEW a, NEW k, Placed(line, w, f, a, k),
         k # 0, k # Len(w)
  PROVE  Len(line) >= 1 /\ line[1].frame = f
<1>1. PICK m \in Nat, z \in Nat : Standing(f, w, a, k, m, z)
  BY PlacedFacts, Zenon
<1>2. /\ m = Len(line) /\ z = Len(w) - k /\ a \in 0 .. m /\ a + z <= m /\ k \in 0 .. Len(w)
      /\ k # 0 => a = 0
      /\ \A j \in 1 .. m : line[j].frame = f <=> j \in a + 1 .. a + z
  BY <1>1, Zenon DEF Standing
<1>3. Len(w) \in Nat
  OBVIOUS
<1>4. a = 0 /\ z >= 1 /\ m >= 1
  BY <1>2, <1>3
<1>5. 1 \in 1 .. m /\ 1 \in a + 1 .. a + z
  BY <1>4
<1> QED
  BY <1>2, <1>4, <1>5

-----------------------------------------------------------------------------
(* What the steps do to such a frame.                                      *)

\* A frame, where it stands and what has become of it.
Found(f, p, w, R, n, a, k) ==
  /\ f \in 1 .. Len(sent) /\ f # 0 /\ p = sent[f]
  /\ Spoken(p, w, R, n) /\ Shaped(slip6, p, w, R, n)
  /\ a \in Nat /\ k \in 0 .. n
  /\ Placed(line, w, f, a, k) /\ Progress(f, p, R, n, k)

\* A frame that must get through is found.
LEMMA Finding ==
  ASSUME RxTyped, NEW f \in Owed, FrameInv(f)
  PROVE  \E p, w, R, n, a, k : Found(f, p, w, R, n, a, k)
<1>1. f \in 1 .. Len(sent) /\ f # 0
  BY OwedSent
<1>2. PICK w, R, n : Spoken(sent[f], w, R, n)
  BY OwedSent
<1>3. slip6 \in BOOLEAN
  BY DEF RxTyped, FlagsTyped
<1>4. Shaped(slip6, sent[f], w, R, n)
  BY <1>2, <1>3, SpokenShaped
<1>5. PICK a \in Nat, k \in Nat : Placed(line, w, f, a, k) /\ Progress(f, sent[f], R, n, k)
  BY <1>2, Zenon DEF FrameInv
<1>6. n = Len(w)
  BY <1>4, Zenon DEF Shaped
<1>7. k \in 0 .. n
  BY <1>5, <1>6, Zenon DEF Placed
<1> QED
  BY <1>1, <1>2, <1>4, <1>5, <1>7, Zenon DEF Found

\* What a step has to show of it.
GoesOn(f, p, w, R, n) ==
  \E b, j \in Nat : Placed(line', w, f, b, j) /\ Progress(f, p, R, n, j)'

\* Nobody looks at the receiver.
LEMMA ReceiverAside ==
  ASSUME NEW f, NEW p, NEW R, NEW n, NEW k, Progress(f, p, R, n, k),
         UNCHANGED <<slip6, pc, byte, idx, ptr, bufs, cur, rcount, dec, error, mode6, running,
                     resize, up, last>>
  PROVE  Progress(f, p, R, n, k)'
<1>1. /\ Waiting(f) => Waiting(f)'
      /\ Unheard(f) => Unheard(f)'
      /\ \A r : Hearing(r) => Hearing(r)'
      /\ Pending(f, p) => Pending(f, p)'
      /\ Delivered(f, p) => Delivered(f, p)'
  BY Zenon DEF Waiting, Unheard, Hearing, Pending, Delivered, Holds
<1> QED
  BY <1>1, Zenon DEF Progress

\* The peer sends another packet.
LEMMA SendGoes ==
  ASSUME RxTyped, NEW f, NEW p, NEW w, NEW R, NEW n, NEW a, NEW k, Found(f, p, w, R, n, a, k),
         NEW q \in Packets, Send(q)
  PROVE  GoesOn(f, p, w, R, n)
<1>1. LineTyped /\ slip6 \in BOOLEAN
  BY DEF RxTyped, FlagsTyped
<1>2. SentTo(line', q) /\ q \in Seq(Byte)
  BY <1>1, SendWrites
<1>3. f \in 1 .. Len(sent) /\ w \in Seq(Byte) /\ Placed(line, w, f, a, k) /\ a \in Nat /\ k \in 0 .. n
      /\ Progress(f, p, R, n, k)
  BY Zenon DEF Found, Shaped
<1>4. Placed(line', w, f, a, k)
  BY <1>1, <1>2, <1>3, SentElsewhere, Zenon
<1>5. Progress(f, p, R, n, k)'
  <2>1. UNCHANGED <<slip6, pc, byte, idx, ptr, bufs, cur, rcount, dec, error, mode6, running,
                    resize, up, last>>
    BY DEF Send, locals, decoder, resizer, ghosts
  <2> QED
    BY <1>3, <2>1, ReceiverAside, Zenon
<1>6. k \in Nat
  BY <1>3
<1> QED
  BY <1>3, <1>4, <1>5, <1>6, Zenon DEF GoesOn

\* Noise on another frame.
LEMMA NoiseGoes ==
  ASSUME RxTyped, NEW f, NEW p, NEW w, NEW R, NEW n, NEW a, NEW k, Found(f, p, w, R, n, a, k),
         f \notin touched', NEW i \in 1 .. Len(line), Noise(i)
  PROVE  GoesOn(f, p, w, R, n)
<1>1. LineTyped
  BY DEF RxTyped
<1>2. f # 0 /\ w \in Seq(Byte) /\ Placed(line, w, f, a, k) /\ k \in 0 .. n
      /\ Progress(f, p, R, n, k) /\ n = Len(w) /\ n \in Nat /\ n >= 2 /\ a \in Nat
  BY Zenon DEF Found, Shaped
<1>3. line[i].frame # f
  BY DEF Noise
<1>4. k \in Nat /\ (k # Len(w) \/ k # 0)
  BY <1>2
<1>5. \E b \in Nat : Placed(line', w, f, b, k)
  <2>1. CASE Altered(line', i)
    BY <1>1, <1>2, <1>3, <2>1, AlteredElsewhere, Zenon
  <2>2. CASE Lost(line', i)
    BY <1>1, <1>2, <1>3, <1>4, <2>2, LostElsewhere, Zenon
  <2>3. CASE MadeUp(line', i)
    BY <1>1, <1>2, <1>3, <2>3, MadeUpElsewhere, Zenon
  <2> QED
    BY <1>1, <2>1, <2>2, <2>3, NoiseWrites, Zenon
<1>6. Progress(f, p, R, n, k)'
  <2>1. UNCHANGED <<slip6, pc, byte, idx, ptr, bufs, cur, rcount, dec, error, mode6, running,
                    resize, up, last>>
    BY DEF Noise, locals, decoder, resizer
  <2> QED
    BY <1>2, <2>1, ReceiverAside, Zenon
<1> QED
  BY <1>4, <1>5, <1>6, Zenon DEF GoesOn

\* A block delivered to slip_receive_buf, or refused.
LEMMA DeliverGoes ==
  ASSUME RxTyped, NEW f, NEW p, NEW w, NEW R, NEW n, NEW a, NEW k, Found(f, p, w, R, n, a, k),
         f \notin touched', NEW c \in 1 .. Len(line), Deliver(c)
  PROVE  GoesOn(f, p, w, R, n)
<1>1. LineTyped
  BY DEF RxTyped
<1>2. w \in Seq(Byte) /\ Placed(line, w, f, a, k) /\ k \in 0 .. n
      /\ Progress(f, p, R, n, k) /\ n = Len(w) /\ n \in Nat /\ n >= 2 /\ a \in Nat
  BY Zenon DEF Found, Shaped
<1>3. k \in Nat /\ (k # Len(w) \/ k # 0)
  BY <1>2
<1>4. \E b \in Nat : Placed(line', w, f, b, k)
  <2>1. CASE line' = line
    BY <1>2, <2>1, Zenon
  <2>2. CASE Gone(line', c) /\ touched' = touched \cup {line[i].frame : i \in 1 .. c}
    <3>1. \A i \in 1 .. c : line[i].frame # f
      BY <2>2
    <3> QED
      BY <1>1, <1>2, <1>3, <2>2, <3>1, GoneElsewhere, Zenon
  <2> QED
    BY <1>1, <2>1, <2>2, DeliverTakes, Zenon
<1>5. Progress(f, p, R, n, k)'
  <2>1. UNCHANGED <<slip6, pc, byte, idx, ptr, bufs, cur, rcount, dec, error, mode6, running,
                    resize, up, last>>
    BY DEF Deliver, locals, decoder, resizer
  <2> QED
    BY <1>2, <2>1, ReceiverAside, Zenon
<1> QED
  BY <1>3, <1>4, <1>5, Zenon DEF GoesOn

\* A byte of another frame, or of none, is taken: this frame has not begun, or is complete.
LEMMA TakeElsewhereGoes ==
  ASSUME RxTyped, NEW f, NEW p, NEW w, NEW R, NEW n, NEW a, NEW k, Found(f, p, w, R, n, a, k),
         TakeBad \/ TakeNone \/ TakeData \/ TakeEnd, line[1].frame # f
  PROVE  GoesOn(f, p, w, R, n)
<1>1. LineTyped
  BY DEF RxTyped
<1>2. Consume /\ pc = "idle"
  BY DEF TakeBad, TakeNone, TakeData, TakeEnd, Consume
<1>3. Gone(line', 1) /\ Head(line) = line[1] /\ up' = up
  BY <1>1, <1>2, ConsumeTakes DEF Consume
<1>4. w \in Seq(Byte) /\ Placed(line, w, f, a, k) /\ k \in 0 .. n
      /\ Progress(f, p, R, n, k) /\ n = Len(w) /\ n \in Nat /\ n >= 2 /\ a \in Nat
  BY Zenon DEF Found, Shaped
<1>5. k \in Nat /\ (k # Len(w) \/ k # 0)
  BY <1>4
<1>6. \E b \in Nat : Placed(line', w, f, b, k)
  <2>1. \A i \in 1 .. 1 : line[i].frame # f
    OBVIOUS
  <2> QED
    BY <1>1, <1>3, <1>4, <1>5, <2>1, GoneElsewhere, Zenon
<1>7. last' \in {last, line[1].frame}
  BY <1>3 DEF TakeBad, TakeNone, TakeData, TakeEnd
<1>8. Progress(f, p, R, n, k)'
  <2>1. CASE k = 0
    <3>1. Waiting(f)
      BY <1>4, <2>1 DEF Progress
    <3>2. Waiting(f)'
      BY <1>3, <1>7, <3>1 DEF Waiting, Unheard
    <3> QED
      BY <2>1, <3>2 DEF Progress
  <2>2. CASE k \in 1 .. n - 1
    <3>1. k # 0 /\ k # Len(w)
      BY <1>4, <2>2
    <3> QED
      BY <1>1, <1>4, <3>1, BegunFirst, Zenon
  <2>3. CASE k = n
    <3>1. Delivered(f, p)
      <4>1. k # 0 /\ k \notin 1 .. n - 1
        BY <1>4, <2>3
      <4>2. ~Pending(f, p)
        BY <1>2 DEF Pending
      <4> QED
        BY <1>4, <4>1, <4>2, Zenon DEF Progress
    <3>2. ASSUME last' = f PROVE pc' = "idle" /\ rcount' = 0
      <4>1. last = f /\ rcount = 0
        BY <1>7, <3>1, <3>2 DEF Delivered
      <4>2. ~TakeData
        BY <1>3, <3>2 DEF TakeData
      <4>3. CASE TakeBad \/ TakeNone
        BY <1>2, <4>1, <4>3 DEF TakeBad, TakeNone, locals
      <4>4. CASE TakeEnd
        BY <1>2, <4>1, <4>4 DEF TakeEnd, locals
      <4> QED
        BY <4>2, <4>3, <4>4
    <3>3. Delivered(f, p)'
      BY <1>3, <3>1, <3>2, Zenon DEF Delivered
    <3> QED
      BY <2>3, <3>3, Zenon DEF Progress
  <2>4. k = 0 \/ k \in 1 .. n - 1 \/ k = n
    BY <1>4
  <2> QED
    BY <2>1, <2>2, <2>3, <2>4, Zenon
<1> QED
  BY <1>5, <1>6, <1>8, Zenon DEF GoesOn

\* t is what receiver r has after a byte that means q to it.
HeardAs(t, r, q) ==
  /\ t.dec = q.dec
  /\ q.kind = "end"  => t.buf = << >>
  /\ q.kind = "data" => t.buf = Append(r.buf, q.byte)
  /\ q.kind = "none" => t.buf = r.buf

\* That is what a byte does.
LEMMA HearCases ==
  ASSUME NEW six \in BOOLEAN, NEW r \in Receiver, NEW s \in Byte
  PROVE  HeardAs(Hear(six, r, s), r, Decode(six, r.dec, s))
<1>1. PICK q : q = Decode(six, r.dec, s)
  OBVIOUS
<1>2. r.dec \in Decoder /\ q.kind \in {"end", "data", "none"}
  BY <1>1, UnescType, Unesc6Type DEF Receiver, Decode
<1>3. CASE q.kind = "end"
  <2>1. PICK u : u = IF Deliverable(r.buf) THEN Append(r.up, r.buf) ELSE r.up
    OBVIOUS
  <2>2. Hear(six, r, s) = [dec |-> q.dec, buf |-> << >>, up |-> u]
    BY <1>1, <1>3, <2>1 DEF Hear
  <2> QED
    BY <1>1, <1>3, <2>2 DEF HeardAs
<1>4. CASE q.kind = "data"
  <2>1. Hear(six, r, s) = [r EXCEPT !.dec = q.dec, !.buf = Append(r.buf, q.byte)]
    BY <1>1, <1>4 DEF Hear
  <2> QED
    BY <1>1, <1>4, <2>1 DEF Receiver, HeardAs
<1>5. CASE q.kind = "none"
  <2>1. Hear(six, r, s) = [r EXCEPT !.dec = q.dec]
    BY <1>1, <1>5 DEF Hear
  <2> QED
    BY <1>1, <1>5, <2>1 DEF Receiver, HeardAs
<1> QED
  BY <1>3, <1>4, <1>5, <1>2

\* A step that takes a byte does not disturb the rest of the channel.
LEMMA TakeLeaves ==
  ASSUME TakeBad \/ TakeNone \/ TakeData \/ TakeEnd
  PROVE  /\ pc = "idle"
         /\ UNCHANGED <<slip6, bufs, cur, buffsize, mode6, running, resize, up>>
         /\ Interfered => touched' = touched \cup {Head(line).frame}
BY DEF TakeBad, TakeNone, TakeData, TakeEnd, Consume, resizer

\* The first byte of a frame starts the receiver over.
LEMMA FirstByteGoes ==
  ASSUME RxTyped, NEW f, NEW p, NEW R, NEW n, NEW s \in Byte,
         R[0] \in Receiver, R[1] = Hear(slip6, R[0], s), R[1].buf = << >>, n \in Nat, n >= 2,
         Waiting(f), s = Delimiter(slip6), ~Interfered,
         TakeNone \/ TakeData \/ TakeEnd, Meet = Decode(mode6, dec, s)
  PROVE  Progress(f, p, R, n, 1)'
<1>1. pc = "idle" /\ UNCHANGED <<slip6, bufs, cur, mode6, running, resize, up>>
  BY TakeLeaves
<1>2. resize = "idle" /\ mode6 = slip6 /\ running /\ slip6 \in BOOLEAN /\ dec \in Decoder
      /\ R[0].dec \in Decoder
  BY DEF Interfered, RxTyped, FlagsTyped, DecoderTyped, BitsKept, Receiver
<1>3. PICK q : q = Decode(slip6, R[0].dec, s)
  OBVIOUS
<1>4. Meet.kind = "end" /\ Alike(slip6, Meet.dec, q.dec)
  <2>1. Meet = Decode(slip6, dec, s)
    BY <1>2
  <2>2. SameMeeting(slip6, dec, R[0].dec, s)
    BY <1>2, AlikeStep, Zenon
  <2>3. Meet.kind = "end"
    BY <1>2, <2>1, OnlyDelimiterEnds, Zenon
  <2> QED
    BY <1>3, <2>1, <2>2, <2>3, Zenon DEF SameMeeting
<1>5. R[1].dec = q.dec
  <2>1. HeardAs(Hear(slip6, R[0], s), R[0], Decode(slip6, R[0].dec, s))
    BY <1>2, HearCases, Zenon
  <2> QED
    BY <1>3, <2>1, Zenon DEF HeardAs
<1>6. dec' = Meet.dec /\ error' = FALSE /\ last' = last
      /\ (pc' = "bump" \/ (pc' = "idle" /\ rcount' = 0))
  BY <1>1, <1>4 DEF TakeNone, TakeData, TakeEnd, locals
<1>7. Hearing(R[1])'
  <2>1. Len(<< >>) = 0 /\ \A i \in 1 .. 0 : FALSE
    OBVIOUS
  <2>2. Alike(slip6, dec', R[1].dec)
    BY <1>4, <1>5, <1>6, Zenon
  <2>3. pc' # "store" /\ (pc' = "idle" => rcount' = Len(R[1].buf))
    BY <1>6, <2>1
  <2>4. Holds(R[1].buf)'
    BY <2>1 DEF Holds
  <2> QED
    BY <1>1, <1>2, <1>6, <2>2, <2>3, <2>4, Zenon DEF Hearing
<1>8. Waiting(f)'
  BY <1>1, <1>6 DEF Waiting, Unheard
<1>9. 1 \in 1 .. n - 1
  OBVIOUS
<1> QED
  BY <1>7, <1>8, <1>9, Zenon DEF Progress, Waiting

\* A byte between the delimiters brings the receiver as far as an undisturbed one.
LEMMA InnerByteGoes ==
  ASSUME RxTyped, NEW f, NEW p \in Seq(Byte), NEW R, NEW n \in Nat, NEW k \in 1 .. n - 2,
         NEW s \in Byte, R[k] \in Receiver, R[k + 1] = Hear(slip6, R[k], s),
         Len(R[k + 1].buf) <= Len(p), Len(p) <= Min(BufSizes),
         Hearing(R[k]), last = f <=> R[k].buf # << >>, Unheard(f),
         s # Delimiter(slip6),
         TakeNone \/ TakeData \/ TakeEnd, Meet = Decode(mode6, dec, s),
         Head(line).frame = f
  PROVE  Progress(f, p, R, n, k + 1)'
<1>1. pc = "idle" /\ UNCHANGED <<slip6, bufs, cur, mode6, running, resize, up>>
  BY TakeLeaves
<1>2. slip6 \in BOOLEAN /\ dec \in Decoder /\ R[k].dec \in Decoder /\ R[k].buf \in Seq(Byte)
  BY DEF RxTyped, FlagsTyped, DecoderTyped, BitsKept, Receiver
<1>3. resize = "idle" /\ mode6 = slip6 /\ running /\ ~error /\ Alike(slip6, dec, R[k].dec)
      /\ rcount = Len(R[k].buf) /\ Holds(R[k].buf)
  BY <1>1, Zenon DEF Hearing
<1>4. PICK q : q = Decode(slip6, R[k].dec, s)
  OBVIOUS
<1>5. Meet.kind = q.kind /\ Meet.byte = q.byte /\ Alike(slip6, Meet.dec, q.dec)
      /\ q.kind # "end"
  <2>1. Meet = Decode(slip6, dec, s)
    BY <1>3
  <2>2. SameMeeting(slip6, dec, R[k].dec, s)
    BY <1>2, <1>3, AlikeStep, Zenon
  <2>3. q.kind # "end"
    BY <1>2, <1>4, OnlyDelimiterEnds, Zenon
  <2> QED
    BY <1>4, <2>1, <2>2, <2>3, Zenon DEF SameMeeting
<1>6. q.kind \in {"data", "none"} /\ q.byte \in Byte
  <2>1. q.kind \in {"end", "data", "none"} /\ q.byte \in Byte
    BY <1>2, <1>4, UnescType, Unesc6Type, Zenon DEF Decode
  <2> QED
    BY <1>5, <2>1
<1>7. k + 1 \in 1 .. n - 1 /\ k \in 1 .. n
  OBVIOUS
<1>8. HeardAs(R[k + 1], R[k], q)
  <2>1. HeardAs(Hear(slip6, R[k], s), R[k], Decode(slip6, R[k].dec, s))
    BY <1>2, HearCases, Zenon
  <2> QED
    BY <1>4, <2>1, Zenon
<1>9. Unheard(f)'
  BY <1>1 DEF Unheard
<1>10. CASE q.kind = "none"
  <2>1. R[k + 1].dec = q.dec /\ R[k + 1].buf = R[k].buf
    BY <1>10, <1>8, Zenon DEF HeardAs
  <2>2. dec' = Meet.dec /\ UNCHANGED <<pc, rcount, error, last>>
    BY <1>5, <1>10 DEF TakeNone, TakeData, TakeEnd, locals
  <2>3. Alike(slip6, dec', R[k + 1].dec)
    BY <1>5, <2>1, <2>2, Zenon
  <2>4. Holds(R[k + 1].buf)'
    BY <1>1, <1>3, <2>1, Zenon DEF Holds
  <2>5. Hearing(R[k + 1])'
    BY <1>1, <1>3, <2>1, <2>2, <2>3, <2>4 DEF Hearing
  <2>6. last' = f <=> R[k + 1].buf # << >>
    BY <2>1, <2>2, Zenon
  <2> QED
    BY <1>7, <1>9, <2>5, <2>6, Zenon DEF Progress
<1>11. CASE q.kind = "data"
  <2>1. PICK b \in Seq(Byte) : b = R[k].buf
    BY <1>2
  <2>2. PICK c \in Seq(Byte) : c = R[k + 1].buf /\ c = Append(b, q.byte)
    <3>1. R[k + 1].buf = Append(b, q.byte)
      BY <1>11, <1>8, <2>1, Zenon DEF HeardAs
    <3>2. Append(b, q.byte) \in Seq(Byte)
      BY <1>6
    <3> QED
      BY <3>1, <3>2, Zenon
  <2>3. R[k + 1].dec = q.dec
    BY <1>8, Zenon DEF HeardAs
  <2>4. PICK m \in Nat : m = Len(b)
    BY <2>1
  <2>5. Len(c) = m + 1 /\ c[m + 1] = q.byte /\ \A i \in 1 .. m : c[i] = b[i]
    BY <1>6, <2>2, <2>4
  <2>6. rcount = m
    BY <1>3, <2>1, <2>4
  <2>7. rcount < buffsize
    <3>1. buffsize \in Nat /\ Min(BufSizes) \in Nat /\ Min(BufSizes) <= buffsize
      BY BufferBounds DEF RxTyped, BuffersTyped
    <3>2. m + 1 <= Len(p) /\ Len(p) \in Nat
      BY <2>2, <2>5
    <3> QED
      BY <2>6, <3>1, <3>2
  <2>8. TakeData
    BY <1>5, <1>11 DEF TakeNone, TakeEnd
  <2>9. pc' = "store" /\ byte' = Meet.byte /\ idx' = rcount /\ ptr' = cur /\ error' = error
        /\ dec' = Meet.dec /\ last' = f
    BY <1>3, <2>7, <2>8 DEF TakeData
  <2>10. Alike(slip6, dec', R[k + 1].dec)
    BY <1>5, <2>3, <2>9, Zenon
  <2>11. \A i \in 1 .. m : bufs[cur][i] = c[i]
    BY <1>3, <2>1, <2>4, <2>5, Zenon DEF Holds
  <2>12. /\ ptr' = cur' /\ idx' + 1 = Len(c) /\ byte' = c[idx' + 1]
         /\ \A i \in 1 .. idx' : bufs'[cur'][i] = c[i]
    BY <1>1, <1>5, <2>5, <2>6, <2>9, <2>11
  <2>13. Hearing(R[k + 1])'
    BY <1>1, <1>3, <2>2, <2>9, <2>10, <2>12 DEF Hearing
  <2>14. c # << >>
    BY <2>5
  <2>15. last' = f <=> R[k + 1].buf # << >>
    BY <2>2, <2>9, <2>14, Zenon
  <2> QED
    BY <1>7, <1>9, <2>13, <2>15, Zenon DEF Progress
<1> QED
  BY <1>6, <1>10, <1>11, Zenon

\* The last byte of a frame makes sl_bump have the packet.
LEMMA LastByteGoes ==
  ASSUME RxTyped, NEW f, NEW p \in Seq(Byte), Deliverable(p), NEW R, NEW n \in Nat, n >= 2,
         NEW s \in Byte, R[n - 1] \in Receiver, R[n - 1].buf = p,
         Hearing(R[n - 1]), last = f <=> R[n - 1].buf # << >>, Unheard(f),
         s = Delimiter(slip6),
         TakeNone \/ TakeData \/ TakeEnd, Meet = Decode(mode6, dec, s)
  PROVE  Progress(f, p, R, n, n)'
<1>1. pc = "idle" /\ UNCHANGED <<slip6, bufs, cur, mode6, running, resize, up>>
  BY TakeLeaves
<1>2. slip6 \in BOOLEAN
  BY DEF RxTyped, FlagsTyped
<1>3. resize = "idle" /\ mode6 = slip6 /\ ~error /\ rcount = Len(p) /\ Holds(p)
  BY <1>1, Zenon DEF Hearing
<1>4. Meet.kind = "end"
  BY <1>2, <1>3, OnlyDelimiterEnds, Zenon
<1>5. rcount > 2 /\ p # << >>
  BY <1>3 DEF Deliverable
<1>6. pc' = "bump" /\ idx' = rcount /\ last' = last
  BY <1>3, <1>4, <1>5 DEF TakeNone, TakeData, TakeEnd
<1>7. last = f
  BY <1>5, Zenon
<1>8. Unheard(f)' /\ Holds(p)'
  BY <1>1, <1>3 DEF Unheard, Holds
<1>9. Pending(f, p)'
  BY <1>1, <1>3, <1>6, <1>7, <1>8, Zenon DEF Pending
<1> QED
  BY <1>9, Zenon DEF Progress

\* A byte of the frame itself is taken.
LEMMA TakeHereGoes ==
  ASSUME RxTyped, NEW f, NEW p, NEW w, NEW R, NEW n, NEW a, NEW k, Found(f, p, w, R, n, a, k),
         f \notin touched',
         TakeBad \/ TakeNone \/ TakeData \/ TakeEnd, line[1].frame = f
  PROVE  GoesOn(f, p, w, R, n)
<1>1. LineTyped /\ Consume
  BY DEF RxTyped, TakeBad, TakeNone, TakeData, TakeEnd
<1>2. Gone(line', 1) /\ Len(line) >= 1 /\ Head(line) = line[1]
  BY <1>1, ConsumeTakes
<1>3. w \in Seq(Byte) /\ Placed(line, w, f, a, k) /\ Progress(f, p, R, n, k) /\ Spoken(p, w, R, n)
      /\ Shaped(slip6, p, w, R, n)
  BY Zenon DEF Found, Shaped
<1>4. /\ n \in Nat /\ n >= 2 /\ n = Len(w)
      /\ w[1] = Delimiter(slip6) /\ w[n] = Delimiter(slip6)
      /\ \A i \in 2 .. n - 1 : w[i] # Delimiter(slip6)
      /\ \A i \in 0 .. n : R[i] \in Receiver
      /\ \A i \in 1 .. n : R[i] = Hear(slip6, R[i - 1], w[i])
      /\ R[0].buf = << >> /\ R[1].buf = << >> /\ R[n - 1].buf = p
      /\ \A i \in 0 .. n - 1 : Len(R[i].buf) <= Len(p)
  BY <1>3, Zenon DEF Shaped
<1>5. p \in Seq(Byte) /\ Deliverable(p) /\ Len(p) <= Min(BufSizes)
  BY <1>3, Zenon DEF Spoken
<1>6. /\ k \in 0 .. n - 1 /\ line[1].s = w[k + 1] /\ ~line[1].bad
      /\ Placed(line', w, f, 0, k + 1)
  <2>1. LineTyped /\ Gone(line', 1) /\ Len(line) >= 1 /\ line[1].frame = f
        /\ w \in Seq(Byte) /\ Placed(line, w, f, a, k)
    BY <1>1, <1>2, <1>3
  <2>2. /\ k \in 0 .. Len(w) - 1 /\ line[1].s = w[k + 1] /\ ~line[1].bad
        /\ Placed(line', w, f, 0, k + 1)
    BY <2>1, NextHere, Zenon
  <2>3. Len(w) = n
    BY <1>4
  <2> QED
    BY <2>2, <2>3, Zenon
<1>7. TakeNone \/ TakeData \/ TakeEnd
  BY <1>2, <1>6 DEF TakeBad
<1>8. ~Interfered
  BY <1>2, TakeLeaves
<1>9. PICK s \in Byte : s = w[k + 1] /\ Meet = Decode(mode6, dec, s)
  BY <1>1, <1>6, MeetType, Zenon
<1>10. Progress(f, p, R, n, k + 1)'
  <2>1. CASE k = 0
    <3>1. 0 \in 0 .. n /\ 1 \in 1 .. n /\ 1 - 1 = 0 /\ 0 + 1 = 1
      BY <1>4
    <3>2. R[0] \in Receiver /\ R[1] = Hear(slip6, R[0], s) /\ s = Delimiter(slip6)
      BY <1>4, <1>9, <2>1, <3>1
    <3>3. Waiting(f)
      BY <1>3, <1>4, <2>1 DEF Progress
    <3>4. Progress(f, p, R, n, 1)'
      BY <1>4, <1>7, <1>8, <1>9, <3>2, <3>3, FirstByteGoes, Zenon
    <3> QED
      BY <2>1, <3>1, <3>4
  <2>2. CASE k # 0
    <3>1. Hearing(R[k]) /\ (last = f <=> R[k].buf # << >>) /\ Unheard(f)
      <4>1. k # 0 /\ k # n
        BY <1>4, <1>6, <2>2
      <4> QED
        BY <1>3, <4>1, Zenon DEF Progress
    <3>2. CASE k = n - 1
      <4>1. k + 1 = n /\ k \in 0 .. n
        BY <1>4, <3>2
      <4>2. s = Delimiter(slip6) /\ R[n - 1] \in Receiver
        BY <1>4, <1>9, <3>2, <4>1
      <4>3. Progress(f, p, R, n, n)'
        BY <1>4, <1>5, <1>7, <1>9, <3>1, <3>2, <4>2, LastByteGoes, Zenon
      <4> QED
        BY <4>1, <4>3
    <3>3. CASE k # n - 1
      <4>1. k \in 1 .. n - 2 /\ k \in 0 .. n /\ k + 1 \in 1 .. n /\ (k + 1) - 1 = k
            /\ k + 1 \in 2 .. n - 1 /\ k + 1 \in 0 .. n - 1
        BY <1>4, <1>6, <2>2, <3>3
      <4>2. R[k] \in Receiver /\ R[k + 1] = Hear(slip6, R[k], s) /\ s # Delimiter(slip6)
            /\ Len(R[k + 1].buf) <= Len(p)
        BY <1>4, <1>9, <4>1
      <4>3. Head(line).frame = f
        BY <1>2
      <4> QED
        BY <1>4, <1>5, <1>7, <1>9, <3>1, <4>1, <4>2, <4>3, InnerByteGoes, Zenon
    <3> QED
      BY <3>2, <3>3
  <2> QED
    BY <2>1, <2>2
<1>11. 0 \in Nat /\ k + 1 \in Nat
  BY <1>4, <1>6
<1> QED
  BY <1>6, <1>10, <1>11, Zenon DEF GoesOn

\* A step that leaves the line alone.
LEMMA SamePlace ==
  ASSUME RxTyped, NEW f, NEW p, NEW w, NEW R, NEW n, NEW a, NEW k, Found(f, p, w, R, n, a, k),
         line' = line, Progress(f, p, R, n, k)'
  PROVE  GoesOn(f, p, w, R, n)
<1>1. Placed(line, w, f, a, k) /\ a \in Nat /\ k \in 0 .. n /\ n \in Nat
  BY Zenon DEF Found, Shaped
<1>2. k \in Nat
  BY <1>1
<1> QED
  BY <1>1, <1>2, Zenon DEF GoesOn

\* The store of slip_unesc.
LEMMA StoreGoes ==
  ASSUME RxTyped, NEW f, NEW p, NEW w, NEW R, NEW n, NEW a, NEW k, Found(f, p, w, R, n, a, k),
         Store
  PROVE  GoesOn(f, p, w, R, n)
<1>1. pc = "store" /\ pc' = "idle" /\ rcount' = idx + 1
      /\ UNCHANGED <<slip6, line, cur, dec, error, mode6, running, resize, up, last>>
  BY DEF Store, resizer, ghosts
<1>2. /\ k \in 0 .. n /\ n \in Nat /\ n >= 2 /\ Progress(f, p, R, n, k) /\ p \in Seq(Byte)
      /\ Len(p) <= Min(BufSizes)
      /\ \A i \in 0 .. n : R[i] \in Receiver
      /\ \A i \in 0 .. n - 1 : Len(R[i].buf) <= Len(p)
  BY Zenon DEF Found, Shaped, Spoken
<1>3. Unheard(f) => Unheard(f)'
  BY <1>1 DEF Unheard
<1>4. CASE k = 0
  <2>1. Waiting(f)
    BY <1>2, <1>4 DEF Progress
  <2>2. Waiting(f)'
    BY <1>1, <1>3, <2>1 DEF Waiting
  <2> QED
    BY <1>1, <1>4, <2>2, SamePlace, Zenon DEF Progress
<1>5. CASE k \in 1 .. n - 1
  <2>1. Hearing(R[k]) /\ (last = f <=> R[k].buf # << >>) /\ Unheard(f)
    <3>1. k # 0 /\ k # n
      BY <1>2, <1>5
    <3> QED
      BY <1>2, <3>1, Zenon DEF Progress
  <2>2. PICK b : b = R[k].buf
    OBVIOUS
  <2>3. b \in Seq(Byte) /\ Len(b) <= Len(p)
    <3>1. k \in 0 .. n /\ k \in 0 .. n - 1
      BY <1>2, <1>5
    <3> QED
      BY <1>2, <2>2, <3>1 DEF Receiver
  <2>4. ptr = cur /\ idx + 1 = Len(b) /\ byte = b[idx + 1] /\ \A i \in 1 .. idx : bufs[cur][i] = b[i]
    BY <1>1, <2>1, <2>2, Zenon DEF Hearing
  <2>5. resize = "idle" /\ mode6 = slip6 /\ running /\ ~error /\ Alike(slip6, dec, R[k].dec)
    BY <2>1, Zenon DEF Hearing
  <2>6. bufs \in [{0, 1} -> Seq(Cells)] /\ cur \in {0, 1} /\ Len(bufs[cur]) = buffsize + Slack
    BY <2>5 DEF RxTyped, BuffersTyped
  <2>7. idx + 1 \in 1 .. Len(bufs[cur])
    <3>1. buffsize \in Nat /\ Min(BufSizes) \in Nat /\ Min(BufSizes) <= buffsize /\ Slack \in Nat
      BY BufferBounds, RxAssumption DEF RxTyped, BuffersTyped
    <3>2. idx \in Nat
      BY BufferBounds DEF RxTyped, DecoderTyped
    <3>3. Len(p) \in Nat /\ Len(b) \in Nat
      BY <1>2, <2>3
    <3> QED
      BY <1>2, <2>3, <2>4, <2>6, <3>1, <3>2, <3>3
  <2>8. bufs' = [bufs EXCEPT ![cur] = [bufs[cur] EXCEPT ![idx + 1] = byte]]
    <3>1. PICK c \in {0, 1} : Stored(c)
      BY StoreWrites
    <3>2. c = cur
      BY <2>4, <3>1 DEF Stored
    <3> QED
      BY <2>7, <3>1, <3>2, Zenon DEF Stored
  <2>9. PICK q \in Seq(Cells) : q = bufs[cur]
    BY <2>6
  <2>10. bufs'[cur] = [q EXCEPT ![idx + 1] = byte]
    BY <2>6, <2>8, <2>9
  <2>11. PICK t \in Nat : t = idx
    BY BufferBounds DEF RxTyped, DecoderTyped
  <2>12. ASSUME NEW i \in 1 .. t + 1 PROVE bufs'[cur][i] = b[i]
    <3>1. i \in DOMAIN q
      BY <2>7, <2>9, <2>11
    <3>2. CASE i = t + 1
      BY <2>4, <2>10, <2>11, <3>1, <3>2
    <3>3. CASE i # t + 1
      <4>1. i \in 1 .. t
        BY <3>3
      <4>2. bufs'[cur][i] = q[i]
        BY <2>10, <2>11, <3>1, <3>3
      <4> QED
        BY <2>4, <2>9, <2>11, <4>1, <4>2
    <3> QED
      BY <3>2, <3>3
  <2>13. Len(b) = t + 1 /\ rcount' = Len(b)
    BY <1>1, <2>4, <2>11
  <2>14. Holds(R[k].buf)'
    BY <1>1, <2>2, <2>12, <2>13, Zenon DEF Holds
  <2>15. Hearing(R[k])'
    BY <1>1, <2>2, <2>5, <2>13, <2>14 DEF Hearing
  <2>16. last' = f <=> R[k].buf # << >>
    BY <1>1, <2>1, Zenon
  <2> QED
    BY <1>1, <1>3, <1>5, <2>1, <2>15, <2>16, SamePlace, Zenon DEF Progress
<1>6. CASE k = n
  <2>1. Delivered(f, p) /\ last # f
    <3>1. k # 0 /\ k \notin 1 .. n - 1
      BY <1>2, <1>6
    <3>2. ~Pending(f, p)
      BY <1>1 DEF Pending
    <3>3. Delivered(f, p)
      BY <1>2, <3>1, <3>2, Zenon DEF Progress
    <3> QED
      BY <1>1, <3>3 DEF Delivered
  <2>2. Delivered(f, p)'
    BY <1>1, <2>1, Zenon DEF Delivered
  <2> QED
    BY <1>1, <1>6, <2>2, SamePlace, Zenon DEF Progress
<1>7. k = 0 \/ k \in 1 .. n - 1 \/ k = n
  BY <1>2
<1> QED
  BY <1>4, <1>5, <1>6, <1>7

\* What sl_bump reads is the packet the buffer holds.
LEMMA ReadHolds ==
  ASSUME RxTyped, resize = "idle", NEW p \in Seq(Byte), Len(p) <= Min(BufSizes), Holds(p)
  PROVE  Read(Len(p)) = p
<1>1. bufs \in [{0, 1} -> Seq(Cells)] /\ cur \in {0, 1} /\ Len(bufs[cur]) = buffsize + Slack
  BY DEF RxTyped, BuffersTyped
<1>2. PICK q \in Seq(Cells) : q = bufs[cur]
  BY <1>1
<1>3. PICK n \in Nat : n = Len(p)
  OBVIOUS
<1>4. n <= Len(q)
  <2>1. buffsize \in Nat /\ Min(BufSizes) \in Nat /\ Min(BufSizes) <= buffsize /\ Slack \in Nat
    BY BufferBounds, RxAssumption DEF RxTyped, BuffersTyped
  <2> QED
    BY <1>1, <1>2, <1>3, <2>1
<1>5. \A i \in 1 .. n : Cell(cur, i) = p[i]
  <2> TAKE i \in 1 .. n
  <2>1. i \in DOMAIN q
    BY <1>4
  <2> QED
    BY <1>2, <1>3, <2>1 DEF Cell, Holds
<1>6. Read(n) = [i \in 1 .. n |-> p[i]]
  BY <1>5 DEF Read
<1>7. [i \in 1 .. n |-> p[i]] = p
  BY <1>3
<1> QED
  BY <1>3, <1>6, <1>7

\* sl_bump hands a packet up: that of this frame, or of another.
LEMMA BumpGoes ==
  ASSUME RxTyped, NEW f, NEW p, NEW w, NEW R, NEW n, NEW a, NEW k, Found(f, p, w, R, n, a, k),
         Bump
  PROVE  GoesOn(f, p, w, R, n)
<1>1. pc = "bump" /\ pc' = "idle" /\ rcount' = 0
      /\ UNCHANGED <<slip6, line, cur, bufs, dec, error, mode6, running, resize, last>>
  BY DEF Bump, resizer
<1>2. PICK e \in HandedUp : e = [frame |-> last, data |-> Read(idx)]
  <2>1. idx \in Nat /\ last \in Nat
    BY BufferBounds DEF RxTyped, DecoderTyped, LineTyped
  <2>2. Read(idx) \in Seq(Cells)
    BY <2>1, ReadType
  <2> QED
    BY <2>1, <2>2 DEF HandedUp
<1>3. up \in Seq(HandedUp) /\ up' = Append(up, e) /\ e.frame = last
  BY <1>2 DEF RxTyped, UpTyped, Bump
<1>4. PICK m \in Nat : m = Len(up)
  BY <1>3
<1>5. Len(up') = m + 1 /\ up'[m + 1] = e /\ \A i \in 1 .. m : up'[i] = up[i]
  BY <1>3, <1>4
<1>6. /\ k \in 0 .. n /\ n \in Nat /\ n >= 2 /\ Progress(f, p, R, n, k) /\ p \in Seq(Byte)
      /\ Len(p) <= Min(BufSizes)
  BY Zenon DEF Found, Shaped, Spoken
<1>7. ASSUME last # f, Unheard(f) PROVE Unheard(f)'
  <2> SUFFICES ASSUME NEW i \in 1 .. m + 1 PROVE up'[i].frame # f
    BY <1>5 DEF Unheard
  <2>1. i = m + 1 \/ i \in 1 .. m
    OBVIOUS
  <2> QED
    BY <1>3, <1>4, <1>5, <1>7, <2>1 DEF Unheard
<1>8. CASE k = 0
  <2>1. Waiting(f)
    BY <1>6, <1>8 DEF Progress
  <2>2. Waiting(f)'
    BY <1>1, <1>7, <2>1 DEF Waiting
  <2> QED
    BY <1>1, <1>8, <2>2, SamePlace, Zenon DEF Progress
<1>9. CASE k \in 1 .. n - 1
  <2>1. Hearing(R[k]) /\ (last = f <=> R[k].buf # << >>) /\ Unheard(f)
    <3>1. k # 0 /\ k # n
      BY <1>6, <1>9
    <3> QED
      BY <1>6, <3>1, Zenon DEF Progress
  <2>2. R[k].buf = << >> /\ last # f
    BY <1>1, <2>1, Zenon DEF Hearing
  <2>3. Len(R[k].buf) = 0 /\ \A i \in 1 .. 0 : FALSE
    BY <2>2
  <2>4. Holds(R[k].buf)'
    BY <2>3 DEF Holds
  <2>5. Hearing(R[k])'
    BY <1>1, <2>1, <2>2, <2>3, <2>4 DEF Hearing
  <2>6. (last' = f <=> R[k].buf # << >>) /\ Unheard(f)'
    BY <1>1, <1>7, <2>1, <2>2, Zenon
  <2> QED
    BY <1>1, <1>9, <2>5, <2>6, SamePlace, Zenon DEF Progress
<1>10. CASE k = n
  <2>1. Pending(f, p) \/ Delivered(f, p)
    <3>1. k # 0 /\ k \notin 1 .. n - 1
      BY <1>6, <1>10
    <3> QED
      BY <1>6, <3>1, Zenon DEF Progress
  <2>2. \E i \in 1 .. m + 1 : up'[i] = [frame |-> f, data |-> p]
    <3>1. CASE Pending(f, p)
      <4>1. resize = "idle" /\ last = f /\ idx = Len(p) /\ Holds(p)
        BY <3>1 DEF Pending
      <4>2. Read(idx) = p
        BY <1>6, <4>1, ReadHolds
      <4>3. e = [frame |-> f, data |-> p] /\ m + 1 \in 1 .. m + 1
        BY <1>2, <4>1, <4>2
      <4> QED
        BY <1>5, <4>3
    <3>2. CASE Delivered(f, p)
      <4>1. PICK i \in 1 .. m : up[i] = [frame |-> f, data |-> p]
        BY <1>4, <3>2 DEF Delivered
      <4>2. i \in 1 .. m + 1
        OBVIOUS
      <4> QED
        BY <1>5, <4>1, <4>2
    <3> QED
      BY <2>1, <3>1, <3>2
  <2>3. Delivered(f, p)'
    BY <1>1, <1>5, <2>2, Zenon DEF Delivered
  <2> QED
    BY <1>1, <1>10, <2>3, SamePlace, Zenon DEF Progress
<1>11. k = 0 \/ k \in 1 .. n - 1 \/ k = n
  BY <1>6
<1> QED
  BY <1>8, <1>9, <1>10, <1>11

\* sl_bump drops the packet of another frame.
LEMMA BumpDropGoes ==
  ASSUME RxTyped, NEW f, NEW p, NEW w, NEW R, NEW n, NEW a, NEW k, Found(f, p, w, R, n, a, k),
         f \notin touched', BumpDrop
  PROVE  GoesOn(f, p, w, R, n)
<1>1. pc = "bump" /\ pc' = "idle" /\ rcount' = 0 /\ last # f
      /\ UNCHANGED <<slip6, line, cur, bufs, dec, error, mode6, running, resize, up, last>>
  BY DEF BumpDrop, resizer
<1>2. k \in 0 .. n /\ n \in Nat /\ n >= 2 /\ Progress(f, p, R, n, k)
  BY Zenon DEF Found, Shaped
<1>3. Unheard(f) => Unheard(f)'
  BY <1>1 DEF Unheard
<1>4. CASE k = 0
  <2>1. Waiting(f)
    BY <1>2, <1>4 DEF Progress
  <2>2. Waiting(f)'
    BY <1>1, <1>3, <2>1 DEF Waiting
  <2> QED
    BY <1>1, <1>4, <2>2, SamePlace, Zenon DEF Progress
<1>5. CASE k \in 1 .. n - 1
  <2>1. Hearing(R[k]) /\ (last = f <=> R[k].buf # << >>) /\ Unheard(f)
    <3>1. k # 0 /\ k # n
      BY <1>2, <1>5
    <3> QED
      BY <1>2, <3>1, Zenon DEF Progress
  <2>2. R[k].buf = << >>
    BY <1>1, <2>1, Zenon
  <2>3. Len(R[k].buf) = 0 /\ \A i \in 1 .. 0 : FALSE
    BY <2>2
  <2>4. Holds(R[k].buf)'
    BY <2>3 DEF Holds
  <2>5. Hearing(R[k])'
    BY <1>1, <2>1, <2>2, <2>3, <2>4 DEF Hearing
  <2>6. (last' = f <=> R[k].buf # << >>) /\ Unheard(f)'
    BY <1>1, <1>3, <2>1, <2>2, Zenon
  <2> QED
    BY <1>1, <1>5, <2>5, <2>6, SamePlace, Zenon DEF Progress
<1>6. CASE k = n
  <2>1. Delivered(f, p)
    <3>1. k # 0 /\ k \notin 1 .. n - 1
      BY <1>2, <1>6
    <3>2. ~Pending(f, p)
      BY <1>1 DEF Pending
    <3> QED
      BY <1>2, <3>1, <3>2, Zenon DEF Progress
  <2>2. Delivered(f, p)'
    BY <1>1, <2>1, Zenon DEF Delivered
  <2> QED
    BY <1>1, <1>6, <2>2, SamePlace, Zenon DEF Progress
<1>7. k = 0 \/ k \in 1 .. n - 1 \/ k = n
  BY <1>2
<1> QED
  BY <1>4, <1>5, <1>6, <1>7

\* A frame that is not in progress has not begun to arrive, or was handed up and is done with.
LEMMA BeforeOrAfter ==
  ASSUME RxTyped, NEW f, NEW p, NEW w, NEW R, NEW n, NEW a, NEW k, Found(f, p, w, R, n, a, k),
         f \notin InProgress
  PROVE  k = 0 \/ (k = n /\ Delivered(f, p))
<1>1. /\ f \in 1 .. Len(sent) /\ w \in Seq(Byte) /\ Placed(line, w, f, a, k) /\ k \in 0 .. n
      /\ n \in Nat /\ n >= 2 /\ n = Len(w) /\ Progress(f, p, R, n, k) /\ w = Encode(slip6, sent[f])
  BY Zenon DEF Found, Shaped, Spoken
<1>2. LineTyped
  BY DEF RxTyped
<1>3. PICK m \in Nat, z \in Nat : Standing(f, w, a, k, m, z)
  BY <1>1, <1>2, PlacedFacts, Zenon
<1>4. /\ m = Len(line) /\ z = n - k /\ a \in 0 .. m /\ a + z <= m
      /\ \A i \in 1 .. m : line[i].frame = f <=> i \in a + 1 .. a + z
  BY <1>1, <1>3, Zenon DEF Standing
<1>5. PICK S : S = {i \in DOMAIN line : line[i].frame = f}
  OBVIOUS
<1>6. Cardinality(S) = z
  <2>1. DOMAIN line = 1 .. m
    BY <1>2, <1>4 DEF LineTyped
  <2>2. S = {i \in 1 .. m : i \in a + 1 .. a + z}
    BY <1>4, <1>5, <2>1, Zenon
  <2>3. \A i \in a + 1 .. a + z : i \in 1 .. m
    BY <1>4
  <2>4. S = a + 1 .. a + z
    BY <2>2, <2>3, Zenon
  <2>5. a + 1 \in Int /\ a + z \in Int
    BY <1>4
  <2>6. Cardinality(a + 1 .. a + z) = IF a + 1 > a + z THEN 0 ELSE (a + z) - (a + 1) + 1
    BY <2>5, FS_Interval, Zenon
  <2>7. Cardinality(a + 1 .. a + z) = z
    BY <1>4, <2>6
  <2> QED
    BY <2>4, <2>7
<1>7. ~((z > 0 \/ (pc # "idle" /\ last = f)) /\ z < n)
  <2>1. ~(/\ Cardinality(S) > 0 \/ (pc # "idle" /\ last = f)
          /\ Cardinality(S) < Len(Encode(slip6, sent[f])))
    BY <1>1, <1>5, Zenon DEF InProgress
  <2> QED
    BY <1>1, <1>6, <2>1, Zenon
<1>8. CASE k \in 1 .. n - 1
  <2>1. z > 0 /\ z < n
    BY <1>1, <1>4, <1>8
  <2> QED
    BY <1>7, <2>1
<1>9. CASE k = n
  <2>1. z = 0 /\ z < n /\ k # 0 /\ k \notin 1 .. n - 1
    BY <1>1, <1>4, <1>9
  <2>2. ~Pending(f, p)
    BY <1>7, <2>1 DEF Pending
  <2> QED
    BY <1>1, <1>9, <2>1, <2>2, Zenon DEF Progress
<1> QED
  BY <1>1, <1>8, <1>9

\* Such a frame is safe from whoever changes the buffer, the count, the flags or the mode.
LEMMA OutsideGoes ==
  ASSUME RxTyped, NEW f, NEW p, NEW w, NEW R, NEW n, NEW a, NEW k, Found(f, p, w, R, n, a, k),
         k = 0 \/ (k = n /\ Delivered(f, p)),
         UNCHANGED <<line, pc, up, last>>, rcount' \in {rcount, 0}
  PROVE  GoesOn(f, p, w, R, n)
<1>1. Unheard(f) => Unheard(f)'
  BY DEF Unheard
<1>2. CASE k = 0
  <2>1. n \in Nat /\ n >= 2 /\ Progress(f, p, R, n, k)
    BY Zenon DEF Found, Shaped
  <2>2. Waiting(f)
    BY <1>2, <2>1 DEF Progress
  <2>3. Waiting(f)'
    BY <1>1, <2>2 DEF Waiting
  <2> QED
    BY <1>2, <2>3, SamePlace, Zenon DEF Progress
<1>3. CASE k = n /\ Delivered(f, p)
  <2>1. Delivered(f, p)'
    BY <1>3 DEF Delivered
  <2> QED
    BY <1>3, <2>1, SamePlace, Zenon DEF Progress
<1> QED
  BY <1>2, <1>3

\* The administrator swaps the buffer, closes or opens the interface, or sets the mode.
LEMMA AdminGoes ==
  ASSUME RxTyped, NEW f, NEW p, NEW w, NEW R, NEW n, NEW a, NEW k, Found(f, p, w, R, n, a, k),
         f \notin touched',
         \/ \E c \in BufSizes : ResizeSwap(c)
         \/ SlClose
         \/ SlOpen
         \/ \E m \in BOOLEAN : SetMode(m)
  PROVE  GoesOn(f, p, w, R, n)
<1>1. Interfere
  BY Zenon DEF ResizeSwap, SlClose, SlOpen, SetMode
<1>2. f \notin InProgress
  BY <1>1 DEF Interfere
<1>3. UNCHANGED <<line, pc, up, last>> /\ rcount' \in {rcount, 0}
  BY DEF ResizeSwap, SlClose, SlOpen, SetMode, locals
<1> QED
  BY <1>2, <1>3, BeforeOrAfter, OutsideGoes, Zenon

\* The rest of an exchange of the buffer: no frame that must get through is arriving.
LEMMA ResizeLaterGoes ==
  ASSUME RxTyped, NEW f, NEW p, NEW w, NEW R, NEW n, NEW a, NEW k, Found(f, p, w, R, n, a, k),
         ResizeCopy \/ ResizeEnd
  PROVE  GoesOn(f, p, w, R, n)
<1>1. resize # "idle"
  BY DEF ResizeCopy, ResizeEnd
<1>2. UNCHANGED <<line, pc, up, last>> /\ rcount' \in {rcount, 0}
  BY DEF ResizeCopy, ResizeEnd, locals, ghosts
<1>3. Progress(f, p, R, n, k)
  BY Zenon DEF Found
<1>4. ~Pending(f, p) /\ \A r : ~Hearing(r)
  BY <1>1, Zenon DEF Pending, Hearing
<1>5. k = 0 \/ (k = n /\ Delivered(f, p))
  BY <1>3, <1>4, Zenon DEF Progress
<1> QED
  BY <1>2, <1>5, OutsideGoes, Zenon

\* Every step leaves a frame that nobody has interfered with where it should be.
LEMMA StepGoes ==
  ASSUME RxTyped, [Next]_vars, NEW f, NEW p, NEW w, NEW R, NEW n, NEW a, NEW k,
         Found(f, p, w, R, n, a, k), f \notin touched'
  PROVE  GoesOn(f, p, w, R, n)
<1>1. CASE \E q \in Packets : Send(q)
  BY <1>1, SendGoes, Zenon
<1>2. CASE \E i \in DOMAIN line : Noise(i)
  <2>1. DOMAIN line = 1 .. Len(line)
    BY DEF RxTyped, LineTyped
  <2> QED
    BY <1>2, <2>1, NoiseGoes, Zenon
<1>3. CASE \E c \in 1 .. Len(line) : Deliver(c)
  BY <1>3, DeliverGoes, Zenon
<1>4. CASE TakeBad \/ TakeNone \/ TakeData \/ TakeEnd
  BY <1>4, TakeElsewhereGoes, TakeHereGoes, Zenon
<1>5. CASE Store
  BY <1>5, StoreGoes, Zenon
<1>6. CASE Bump
  BY <1>6, BumpGoes, Zenon
<1>7. CASE BumpDrop
  BY <1>7, BumpDropGoes, Zenon
<1>8. CASE Admin
  BY <1>8, AdminGoes, ResizeLaterGoes, Zenon DEF Admin, Resize
<1>9. CASE UNCHANGED vars \/ Rest
  <2>1. UNCHANGED <<slip6, line, pc, byte, idx, ptr, bufs, cur, rcount, dec, error, mode6, running,
                    resize, up, last>>
    BY <1>9 DEF Rest, vars, locals, decoder, resizer, ghosts
  <2>2. Progress(f, p, R, n, k)
    BY Zenon DEF Found
  <2>3. Progress(f, p, R, n, k)'
    BY <2>1, <2>2, ReceiverAside, Zenon
  <2> QED
    BY <2>1, <2>3, SamePlace, Zenon
<1> QED
  BY <1>1, <1>2, <1>3, <1>4, <1>5, <1>6, <1>7, <1>8, <1>9, Zenon DEF Next, Receive

\* A frame that must get through after a step had to before it, unless it was sent just now.
LEMMA OwedBefore ==
  ASSUME RxTyped, [Next]_vars, NEW f \in Owed'
  PROVE  /\ f \notin touched' /\ Deliverable(sent'[f]) /\ Len(sent'[f]) <= Min(BufSizes)
         /\ \/ f \in Owed /\ sent'[f] = sent[f]
            \/ f = Len(sent) + 1 /\ \E q \in Packets : Send(q)
<1>1. sent \in Seq(Packets) /\ LineTyped /\ slip6 \in BOOLEAN
  BY DEF RxTyped, LineTyped, FlagsTyped
<1>2. /\ f \in DOMAIN sent' /\ f \notin touched' /\ Deliverable(sent'[f])
      /\ Len(sent'[f]) <= Min(BufSizes)
  BY DEF Owed
<1>3. touched \subseteq touched' /\ (sent' = sent \/ \E q \in Packets : Send(q))
  BY StaysOwed, Zenon
<1>4. CASE sent' = sent
  BY <1>2, <1>3, <1>4, Zenon DEF Owed
<1>5. ASSUME NEW q \in Packets, Send(q)
      PROVE  (f \in Owed /\ sent'[f] = sent[f]) \/ f = Len(sent) + 1
  <2>1. SentTo(line', q)
    BY <1>1, <1>5, SendWrites, Zenon
  <2>2. sent' = Append(sent, q) /\ \A g \in 1 .. Len(sent) : sent'[g] = sent[g]
    BY <2>1, Zenon DEF SentTo
  <2>3. q \in Packets
    BY <1>5
  <2>4. f \in 1 .. Len(sent) + 1
    BY <1>1, <1>2, <2>2, <2>3
  <2>5. PICK m \in Nat : m = Len(sent)
    BY <1>1
  <2>6. CASE f = m + 1
    BY <2>5, <2>6
  <2>7. CASE f # m + 1
    <3>1. f \in 1 .. Len(sent)
      BY <2>4, <2>5, <2>7
    <3>2. f \in DOMAIN sent /\ sent'[f] = sent[f]
      BY <1>1, <2>2, <3>1
    <3>3. f \in Owed
      BY <1>2, <1>3, <3>2, Zenon DEF Owed
    <3> QED
      BY <3>2, <3>3
  <2> QED
    BY <2>6, <2>7
<1> QED
  BY <1>2, <1>3, <1>4, <1>5, Zenon

\* A frame just sent stands whole at the end of the line, and nobody has heard of it.
LEMMA NewFrame ==
  ASSUME RxTyped, NEW q \in Packets, Send(q), NEW f, f = Len(sent) + 1,
         Deliverable(q), Len(q) <= Min(BufSizes)
  PROVE  FrameInv(f)'
<1>1. LineTyped /\ UpTyped /\ slip6 \in BOOLEAN
  BY DEF RxTyped, FlagsTyped
<1>2. SentTo(line', q) /\ q \in Seq(Byte)
  BY <1>1, SendWrites
<1>3. PICK w, R, n : Spoken(q, w, R, n)
  <2>1. \E w, R, n : w = Encode(slip6, q) /\ R = Reception(slip6, w) /\ n = Len(w)
    OBVIOUS
  <2> QED
    BY <1>2, <2>1, Zenon DEF Spoken
<1>4. Placed(line', w, f, Len(line), 0)
  <2>1. w = Encode(slip6, q)
    BY <1>3, Zenon DEF Spoken
  <2> QED
    BY <1>1, <1>2, <2>1, SentHere, Zenon
<1>5. sent'[f] = q
  BY <1>2, Zenon DEF SentTo
<1>6. slip6' = slip6 /\ last' = last /\ up' = up
  BY DEF Send, ghosts
<1>7. PICK m \in Nat : m = Len(sent)
  BY <1>1 DEF LineTyped
<1>8. last # f
  <2>1. last \in 0 .. m
    BY <1>1, <1>7 DEF LineTyped
  <2> QED
    BY <1>7, <2>1
<1>9. \A i \in 1 .. Len(up) : up[i].frame # f
  <2> TAKE i \in 1 .. Len(up)
  <2>1. up[i] \in HandedUp /\ up[i].frame <= m
    BY <1>1, <1>7 DEF UpTyped
  <2>2. up[i].frame \in Nat
    BY <2>1 DEF HandedUp
  <2> QED
    BY <1>7, <2>1, <2>2
<1>10. Waiting(f)'
  BY <1>6, <1>8, <1>9, Zenon DEF Waiting, Unheard
<1>11. Progress(f, q, R, n, 0)'
  BY <1>10, Zenon DEF Progress
<1>12. Len(line) \in Nat /\ 0 \in Nat
  BY <1>1 DEF LineTyped
<1> QED
  BY <1>3, <1>4, <1>5, <1>6, <1>11, <1>12, FrameKept, Zenon

\* Every step keeps the frames that must get through where they should be.
LEMMA FrameStep ==
  ASSUME RxTyped, [Next]_vars, \A g \in Owed : FrameInv(g), NEW f \in Owed'
  PROVE  FrameInv(f)'
<1>1. f \notin touched' /\ Deliverable(sent'[f]) /\ Len(sent'[f]) <= Min(BufSizes)
  BY OwedBefore, Zenon
<1>2. CASE f \in Owed /\ sent'[f] = sent[f]
  <2>1. PICK p, w, R, n, a, k : Found(f, p, w, R, n, a, k)
    BY <1>2, Finding, Zenon
  <2>2. PICK b \in Nat, j \in Nat : Placed(line', w, f, b, j) /\ Progress(f, p, R, n, j)'
    BY <1>1, <2>1, StepGoes, Zenon DEF GoesOn
  <2>3. sent'[f] = p /\ Spoken(p, w, R, n)
    BY <1>2, <2>1, Zenon DEF Found
  <2>4. slip6' = slip6
    BY StaysOwed, Zenon
  <2> QED
    BY <2>2, <2>3, <2>4, FrameKept, Zenon
<1>3. ASSUME f = Len(sent) + 1, NEW q \in Packets, Send(q) PROVE FrameInv(f)'
  <2>1. LineTyped /\ slip6 \in BOOLEAN
    BY DEF RxTyped, FlagsTyped
  <2>2. sent'[f] = q
    BY <1>3, <2>1, SendWrites, Zenon DEF SentTo
  <2> QED
    BY <1>1, <1>3, <2>2, NewFrame, Zenon
<1> QED
  BY <1>2, <1>3, OwedBefore, Zenon

-----------------------------------------------------------------------------
(* Order.                                                                  *)

\* The frames on the line are in the order in which they were sent, ...
Sorted(l) ==
  \A i, j \in 1 .. Len(l) :
    i < j /\ l[i].frame # 0 /\ l[j].frame # 0 => l[i].frame <= l[j].frame

\* ... none of them before the frame last heard or one handed up, ...
Ahead(l) ==
  \A i \in 1 .. Len(l) : l[i].frame # 0 =>
    last <= l[i].frame /\ \A j \in 1 .. Len(up) : up[j].frame <= l[i].frame

\* ... and no frame handed up is later than the one last heard.
OrderInv ==
  /\ Sorted(line) /\ Ahead(line)
  /\ last # 0 => \A j \in 1 .. Len(up) : up[j].frame <= last

\* The bytes of frames on l are some of those on the line, in their order; g says which.
Thinned(l, g) ==
  /\ \A i \in 1 .. Len(l) : l[i].frame # 0 =>
       g[i] \in 1 .. Len(line) /\ l[i].frame = line[g[i]].frame
  /\ \A i, j \in 1 .. Len(l) : i < j /\ l[i].frame # 0 /\ l[j].frame # 0 => g[i] < g[j]

\* Order is kept when bytes are lost or taken.
LEMMA ThinnedSorted ==
  ASSUME NEW l, NEW g, Thinned(l, g)
  PROVE  /\ Sorted(line) => Sorted(l)
         /\ Ahead(line) => Ahead(l)
<1>1. ASSUME Sorted(line) PROVE Sorted(l)
  <2> SUFFICES ASSUME NEW i \in 1 .. Len(l), NEW j \in 1 .. Len(l), i < j,
                      l[i].frame # 0, l[j].frame # 0
               PROVE  l[i].frame <= l[j].frame
    BY DEF Sorted
  <2>1. /\ g[i] \in 1 .. Len(line) /\ l[i].frame = line[g[i]].frame
        /\ g[j] \in 1 .. Len(line) /\ l[j].frame = line[g[j]].frame /\ g[i] < g[j]
    BY Zenon DEF Thinned
  <2>2. PICK c \in 1 .. Len(line), d \in 1 .. Len(line) : c = g[i] /\ d = g[j]
    BY <2>1, Zenon
  <2> QED
    BY <1>1, <2>1, <2>2, Zenon DEF Sorted
<1>2. ASSUME Ahead(line) PROVE Ahead(l)
  <2> SUFFICES ASSUME NEW i \in 1 .. Len(l), l[i].frame # 0
               PROVE  last <= l[i].frame /\ \A j \in 1 .. Len(up) : up[j].frame <= l[i].frame
    BY DEF Ahead
  <2>1. PICK c \in 1 .. Len(line) : l[i].frame = line[c].frame
    BY Zenon DEF Thinned
  <2> QED
    BY <1>2, <2>1, Zenon DEF Ahead
<1> QED
  BY <1>1, <1>2

\* What noise and the tty do to the line thins it.
LEMMA LineThins ==
  ASSUME LineTyped, NEW l
  PROVE  /\ \A n : Gone(l, n) => \E g : Thinned(l, g)
         /\ \A i \in 1 .. Len(line) :
              Altered(l, i) \/ Lost(l, i) \/ MadeUp(l, i) => \E g : Thinned(l, g)
<1>1. PICK m \in Nat : m = Len(line)
  BY DEF LineTyped
<1>2. ASSUME NEW n, Gone(l, n) PROVE \E g : Thinned(l, g)
  <2>1. n \in 0 .. m /\ Len(l) = m - n /\ \A j \in 1 .. m - n : l[j] = line[j + n]
    BY <1>1, <1>2, Zenon DEF Gone
  <2>2. PICK g : g = [j \in 1 .. m - n |-> j + n]
    OBVIOUS
  <2>3. \A j \in 1 .. m - n : g[j] = j + n /\ g[j] \in 1 .. m /\ l[j] = line[g[j]]
    BY <2>1, <2>2
  <2>4. \A i, j \in 1 .. m - n : i < j => g[i] < g[j]
    BY <2>1, <2>3
  <2> QED
    BY <1>1, <2>1, <2>3, <2>4, Zenon DEF Thinned
<1>3. ASSUME NEW i \in 1 .. m, Altered(l, i) PROVE \E g : Thinned(l, g)
  <2>1. Len(l) = m /\ l[i].frame = line[i].frame /\ \A j \in 1 .. m : j # i => l[j] = line[j]
    BY <1>1, <1>3, Zenon DEF Altered
  <2>2. PICK g : g = [j \in 1 .. m |-> j]
    OBVIOUS
  <2>3. \A j \in 1 .. m : g[j] = j /\ g[j] \in 1 .. m
    BY <2>2
  <2>4. \A j \in 1 .. m : l[j].frame = line[g[j]].frame
    BY <2>1, <2>3, Zenon
  <2>5. \A c, d \in 1 .. m : c < d => g[c] < g[d]
    BY <2>3
  <2> QED
    BY <1>1, <2>1, <2>3, <2>4, <2>5, Zenon DEF Thinned
<1>4. ASSUME NEW i \in 1 .. m, Lost(l, i) PROVE \E g : Thinned(l, g)
  <2>1. Len(l) = m - 1 /\ \A j \in 1 .. m - 1 : l[j] = IF j < i THEN line[j] ELSE line[j + 1]
    BY <1>1, <1>4, Zenon DEF Lost
  <2>2. PICK g : g = [j \in 1 .. m - 1 |-> IF j < i THEN j ELSE j + 1]
    OBVIOUS
  <2>3. \A j \in 1 .. m - 1 : g[j] = (IF j < i THEN j ELSE j + 1) /\ g[j] \in 1 .. m
    BY <2>2
  <2>4. \A j \in 1 .. m - 1 : l[j] = line[g[j]]
    BY <2>1, <2>3, Zenon
  <2>5. \A c, d \in 1 .. m - 1 : c < d => g[c] < g[d]
    BY <2>3
  <2> QED
    BY <1>1, <2>1, <2>3, <2>4, <2>5, Zenon DEF Thinned
<1>5. ASSUME NEW i \in 1 .. m, MadeUp(l, i) PROVE \E g : Thinned(l, g)
  <2>1. /\ Len(l) = m + 1 /\ l[i].frame = 0
        /\ \A j \in 1 .. m + 1 : j # i => l[j] = IF j < i THEN line[j] ELSE line[j - 1]
    BY <1>1, <1>5, Zenon DEF MadeUp
  <2>2. PICK g : g = [j \in 1 .. m + 1 |-> IF j < i THEN j ELSE j - 1]
    OBVIOUS
  <2>3. \A j \in 1 .. m + 1 : g[j] = (IF j < i THEN j ELSE j - 1)
    BY <2>2
  <2>4. \A j \in 1 .. m + 1 : l[j].frame # 0 => j # i /\ l[j] = line[g[j]]
    BY <2>1, <2>3, Zenon
  <2>5. \A j \in 1 .. m + 1 : j # i => g[j] \in 1 .. m
    BY <2>3
  <2>6. \A c, d \in 1 .. m + 1 : c < d /\ c # i /\ d # i => g[c] < g[d]
    BY <2>3
  <2> QED
    BY <1>1, <2>1, <2>4, <2>5, <2>6, Zenon DEF Thinned
<1> QED
  BY <1>1, <1>2, <1>3, <1>4, <1>5, Zenon

\* What sl_bump hands up.
LEMMA BumpHands ==
  ASSUME RxTyped, Bump
  PROVE  \E e, m : /\ m \in Nat /\ e = [frame |-> last, data |-> Read(idx)] /\ e.frame = last
                   /\ Len(up) = m /\ Len(up') = m + 1 /\ up'[m + 1] = e
                   /\ \A i \in 1 .. m : up'[i] = up[i]
                   /\ UNCHANGED <<sent, line, last, touched>>
<1>1. PICK e \in HandedUp : e = [frame |-> last, data |-> Read(idx)] /\ e.frame = last
  <2>1. idx \in Nat /\ last \in Nat
    BY BufferBounds DEF RxTyped, DecoderTyped, LineTyped
  <2>2. Read(idx) \in Seq(Cells)
    BY <2>1, ReadType
  <2>3. [frame |-> last, data |-> Read(idx)] \in HandedUp
    BY <2>1, <2>2 DEF HandedUp
  <2>4. [frame |-> last, data |-> Read(idx)].frame = last
    OBVIOUS
  <2> QED
    BY <2>3, <2>4, Zenon
<1>2. up \in Seq(HandedUp) /\ up' = Append(up, e) /\ UNCHANGED <<sent, line, last, touched>>
  BY <1>1 DEF RxTyped, UpTyped, Bump
<1>3. PICK m \in Nat : m = Len(up)
  BY <1>2
<1>4. Len(up') = m + 1 /\ up'[m + 1] = e /\ \A i \in 1 .. m : up'[i] = up[i]
  BY <1>2, <1>3
<1> QED
  BY <1>1, <1>2, <1>3, <1>4, Zenon

\* What a step can do to the line, to what was handed up and to the frame last heard.
LEMMA StepShape ==
  ASSUME RxTyped, [Next]_vars
  PROVE  \/ \E q \in Packets : Send(q)
         \/ Bump
         \/ /\ sent' = sent /\ up' = up
            /\ \/ line' = line /\ last' = last
               \/ last' = last /\ \E g : Thinned(line', g)
               \/ last' = line[1].frame /\ Len(line) >= 1 /\ Gone(line', 1)
<1>1. LineTyped /\ DOMAIN line = 1 .. Len(line)
  BY DEF RxTyped, LineTyped
<1>2. ASSUME NEW i \in 1 .. Len(line), Noise(i)
      PROVE  sent' = sent /\ up' = up /\ last' = last /\ \E g : Thinned(line', g)
  <2>1. \E g : Thinned(line', g)
    BY <1>1, <1>2, NoiseWrites, LineThins, Zenon
  <2> QED
    BY <1>2, <2>1 DEF Noise
<1>3. ASSUME NEW n \in 1 .. Len(line), Deliver(n)
      PROVE  sent' = sent /\ up' = up /\ last' = last
             /\ (line' = line \/ \E g : Thinned(line', g))
  <2>1. line' = line \/ \E g : Thinned(line', g)
    BY <1>1, <1>3, DeliverTakes, LineThins, Zenon
  <2> QED
    BY <1>3, <2>1 DEF Deliver
<1>4. CASE TakeBad \/ TakeNone \/ TakeData \/ TakeEnd
  <2>1. Consume
    BY <1>4 DEF TakeBad, TakeNone, TakeData, TakeEnd
  <2>2. Gone(line', 1) /\ Len(line) >= 1 /\ Head(line) = line[1]
    BY <1>1, <2>1, ConsumeTakes, Zenon
  <2>3. \E g : Thinned(line', g)
    BY <1>1, <2>2, LineThins, Zenon
  <2>4. last' = last \/ last' = line[1].frame
    BY <1>4, <2>2 DEF TakeBad, TakeNone, TakeData, TakeEnd
  <2>5. sent' = sent /\ up' = up
    BY <2>1 DEF Consume
  <2> QED
    BY <2>2, <2>3, <2>4, <2>5, Zenon
<1>5. CASE UNCHANGED vars \/ Rest \/ Store \/ BumpDrop \/ Resize
  BY <1>5 DEF Rest, vars, Store, BumpDrop, Resize, ResizeSwap, ResizeCopy, ResizeEnd, ghosts
<1>6. CASE SlClose \/ SlOpen \/ (\E m \in BOOLEAN : SetMode(m))
  BY <1>6 DEF SlClose, SlOpen, SetMode
<1> QED
  BY <1>1, <1>2, <1>3, <1>4, <1>5, <1>6, Zenon DEF Next, Receive, Admin

\* The frames are numbers.
LEMMA FrameNumbers ==
  ASSUME RxTyped
  PROVE  /\ Len(sent) \in Nat /\ Len(line) \in Nat /\ Len(up) \in Nat /\ last \in 0 .. Len(sent)
         /\ \A i \in 1 .. Len(line) : line[i].frame \in 0 .. Len(sent)
         /\ \A i \in 1 .. Len(up) : up[i].frame \in 0 .. Len(sent)
<1>1. LineTyped /\ UpTyped
  BY DEF RxTyped
<1>2. PICK n \in Nat : n = Len(sent)
  BY <1>1 DEF LineTyped
<1>3. ASSUME NEW i \in 1 .. Len(line) PROVE line[i].frame \in 0 .. n
  <2>1. line[i] \in Arrival /\ line[i].frame <= n
    BY <1>1, <1>2, <1>3 DEF LineTyped
  <2>2. line[i].frame \in Nat
    BY <2>1 DEF Arrival
  <2> QED
    BY <2>1, <2>2
<1>4. ASSUME NEW i \in 1 .. Len(up) PROVE up[i].frame \in 0 .. n
  <2>1. up[i] \in HandedUp /\ up[i].frame <= n
    BY <1>1, <1>2, <1>4 DEF UpTyped
  <2>2. up[i].frame \in Nat
    BY <2>1 DEF HandedUp
  <2> QED
    BY <2>1, <2>2
<1>5. Len(line) \in Nat /\ Len(up) \in Nat /\ last \in 0 .. n
  BY <1>1, <1>2 DEF LineTyped, UpTyped
<1> QED
  BY <1>2, <1>3, <1>4, <1>5, Zenon

\* A packet sent is the latest of all.
LEMMA SendOrder ==
  ASSUME RxTyped, OrderInv, NEW q \in Packets, Send(q)
  PROVE  OrderInv'
<1>1. LineTyped /\ slip6 \in BOOLEAN
  BY DEF RxTyped, FlagsTyped
<1>2. SentTo(line', q) /\ q \in Seq(Byte)
  BY <1>1, SendWrites
<1>3. last' = last /\ up' = up
  BY DEF Send, ghosts
<1>4. PICK n \in Nat, m \in Nat : n = Len(sent) /\ m = Len(line)
  BY FrameNumbers
<1>5. last \in 0 .. n /\ (\A i \in 1 .. m : line[i].frame \in 0 .. n)
      /\ \A i \in 1 .. Len(up) : up[i].frame \in 0 .. n
  BY <1>4, FrameNumbers, Zenon
<1>6. PICK k \in Nat : k = Len(Encode(slip6, q))
  <2>1. Encode(slip6, q) \in Seq(Byte)
    BY <1>1, <1>2, EncodeFramed DEF Framed
  <2> QED
    BY <2>1
<1>7. /\ Len(line') = m + k /\ \A i \in 1 .. m : line'[i] = line[i]
      /\ \A j \in 1 .. k : line'[m + j].frame = n + 1
  <2>1. \A s : [s |-> s, bad |-> FALSE, frame |-> n + 1].frame = n + 1
    OBVIOUS
  <2> QED
    BY <1>2, <1>4, <1>6, <2>1, Zenon DEF SentTo
<1>8. ASSUME NEW i \in 1 .. m + k, ~(i \in 1 .. m) PROVE line'[i].frame = n + 1
  <2>1. i - m \in 1 .. k /\ i = m + (i - m)
    BY <1>8
  <2> QED
    BY <1>7, <2>1
<1>9. Sorted(line')
  <2> SUFFICES ASSUME NEW i \in 1 .. m + k, NEW j \in 1 .. m + k, i < j,
                      line'[i].frame # 0, line'[j].frame # 0
               PROVE  line'[i].frame <= line'[j].frame
    BY <1>7, Zenon DEF Sorted
  <2>1. CASE j \in 1 .. m
    <3>1. i \in 1 .. m
      BY <2>1
    <3> QED
      BY <1>4, <1>7, <2>1, <3>1, Zenon DEF OrderInv, Sorted
  <2>2. CASE ~(j \in 1 .. m)
    <3>1. line'[j].frame = n + 1
      BY <1>8, <2>2
    <3>2. CASE i \in 1 .. m
      <4>1. line'[i].frame \in 0 .. n
        BY <1>5, <1>7, <3>2
      <4> QED
        BY <3>1, <4>1
    <3>3. CASE ~(i \in 1 .. m)
      BY <1>8, <3>1, <3>3
    <3> QED
      BY <3>2, <3>3
  <2> QED
    BY <2>1, <2>2
<1>10. Ahead(line)'
  <2> SUFFICES ASSUME NEW i \in 1 .. m + k, line'[i].frame # 0
               PROVE  last <= line'[i].frame
                      /\ \A j \in 1 .. Len(up) : up[j].frame <= line'[i].frame
    BY <1>3, <1>7, Zenon DEF Ahead
  <2>1. CASE i \in 1 .. m
    BY <1>4, <1>7, <2>1, Zenon DEF OrderInv, Ahead
  <2>2. CASE ~(i \in 1 .. m)
    <3>1. line'[i].frame = n + 1
      BY <1>8, <2>2
    <3> QED
      BY <1>5, <3>1
  <2> QED
    BY <2>1, <2>2
<1> QED
  BY <1>3, <1>9, <1>10, Zenon DEF OrderInv, Sorted, Ahead

\* A frame handed up is the one last heard.
LEMMA BumpOrder ==
  ASSUME RxTyped, OrderInv, Bump
  PROVE  OrderInv'
<1>1. PICK e, m : /\ m \in Nat /\ e.frame = last
                  /\ Len(up) = m /\ Len(up') = m + 1 /\ up'[m + 1] = e
                  /\ \A i \in 1 .. m : up'[i] = up[i]
                  /\ UNCHANGED <<sent, line, last, touched>>
  BY BumpHands, Zenon
<1>2. \A j \in 1 .. m + 1 : j = m + 1 \/ j \in 1 .. m
  BY <1>1
<1>3. last <= last
  BY FrameNumbers
<1>4. Ahead(line)'
  <2> SUFFICES ASSUME NEW i \in 1 .. Len(line), line[i].frame # 0, NEW j \in 1 .. m + 1
               PROVE  last <= line[i].frame /\ up'[j].frame <= line[i].frame
    BY <1>1, Zenon DEF Ahead, OrderInv
  <2>1. last <= line[i].frame /\ \A c \in 1 .. m : up[c].frame <= line[i].frame
    BY <1>1, Zenon DEF Ahead, OrderInv
  <2> QED
    BY <1>1, <1>2, <2>1, Zenon
<1>5. ASSUME last # 0, NEW j \in 1 .. m + 1 PROVE up'[j].frame <= last
  BY <1>1, <1>2, <1>3, <1>5, Zenon DEF OrderInv
<1>6. Sorted(line)'
  BY <1>1, Zenon DEF Sorted, OrderInv
<1> QED
  BY <1>1, <1>4, <1>5, <1>6, Zenon DEF OrderInv

\* Every step keeps the order.
LEMMA OrderStep ==
  ASSUME RxTyped, OrderInv, [Next]_vars
  PROVE  OrderInv'
<1>1. CASE sent' = sent /\ up' = up /\ last' = last /\ line' = line
  BY <1>1, Zenon DEF OrderInv, Sorted, Ahead
<1>2. CASE up' = up /\ last' = last /\ \E g : Thinned(line', g)
  <2>1. Sorted(line') /\ Ahead(line')
    BY <1>2, ThinnedSorted, Zenon DEF OrderInv
  <2> QED
    BY <1>2, <2>1, Zenon DEF OrderInv, Sorted, Ahead
<1>3. CASE up' = up /\ last' = line[1].frame /\ Len(line) >= 1 /\ Gone(line', 1)
  <2>1. PICK m \in Nat : m = Len(line)
    BY FrameNumbers
  <2>2. Len(line') = m - 1 /\ \A j \in 1 .. m - 1 : line'[j] = line[j + 1]
    BY <1>3, <2>1, Zenon DEF Gone
  <2>3. 1 \in 1 .. m /\ \A j \in 1 .. m - 1 : j + 1 \in 1 .. m /\ 1 < j + 1
    BY <1>3, <2>1
  <2>4. LineTyped
    BY DEF RxTyped
  <2>5. PICK g : Thinned(line', g)
    BY <1>3, <2>4, LineThins, Zenon
  <2>6. Sorted(line') /\ Ahead(line')
    BY <2>5, ThinnedSorted, Zenon DEF OrderInv
  <2>7. ASSUME NEW i \in 1 .. m - 1, line'[i].frame # 0 PROVE line[1].frame <= line'[i].frame
    <3>1. line'[i] = line[i + 1] /\ i + 1 \in 1 .. m /\ 1 < i + 1
      BY <2>2, <2>3
    <3>2. CASE line[1].frame # 0
      BY <2>1, <2>3, <2>7, <3>1, <3>2, Zenon DEF OrderInv, Sorted
    <3>3. CASE line[1].frame = 0
      <4>1. line[i + 1].frame \in 0 .. Len(sent)
        BY <2>1, <3>1, FrameNumbers, Zenon
      <4>2. Len(sent) \in Nat
        BY FrameNumbers
      <4> QED
        BY <3>1, <3>3, <4>1, <4>2
    <3> QED
      BY <3>2, <3>3
  <2>8. Ahead(line)'
    BY <1>3, <2>2, <2>6, <2>7, Zenon DEF Ahead
  <2>9. last' # 0 => \A j \in 1 .. Len(up) : up[j].frame <= last'
    BY <1>3, <2>1, <2>3, Zenon DEF OrderInv, Ahead
  <2> QED
    BY <1>3, <2>6, <2>8, <2>9, Zenon DEF OrderInv, Sorted, Ahead
<1> QED
  BY <1>1, <1>2, <1>3, StepShape, SendOrder, BumpOrder, Zenon

-----------------------------------------------------------------------------
(* What is handed up.                                                      *)

\* What was handed up of the frames that must get through is what was sent, in order and once.
UpInv ==
  \A i \in 1 .. Len(up) : up[i].frame \in Owed =>
    /\ up[i].data = sent[up[i].frame]
    /\ \A j \in 1 .. i - 1 : up[j].frame \in Owed => up[j].frame < up[i].frame

\* When sl_bump runs for such a frame, the buffer holds its packet and nobody has heard of it.
LEMMA BumpedPending ==
  ASSUME RxTyped, NEW f, NEW p, NEW w, NEW R, NEW n, NEW a, NEW k, Found(f, p, w, R, n, a, k),
         pc = "bump", last = f
  PROVE  Pending(f, p)
<1>1. n \in Nat /\ n >= 2 /\ k \in 0 .. n /\ Progress(f, p, R, n, k)
  BY Zenon DEF Found, Shaped
<1>2. CASE k = 0
  BY <1>1, <1>2 DEF Progress, Waiting
<1>3. CASE k \in 1 .. n - 1
  <2>1. k # 0 /\ k # n
    BY <1>1, <1>3
  <2>2. Hearing(R[k]) /\ (last = f <=> R[k].buf # << >>)
    BY <1>1, <2>1, Zenon DEF Progress
  <2> QED
    BY <2>2, Zenon DEF Hearing
<1>4. CASE k = n
  <2>1. k # 0 /\ k \notin 1 .. n - 1
    BY <1>1, <1>4
  <2>2. ~Delivered(f, p)
    BY DEF Delivered
  <2> QED
    BY <1>1, <2>1, <2>2, Zenon DEF Progress
<1> QED
  BY <1>1, <1>2, <1>3, <1>4

\* When nothing is on its way such a frame was handed up.
LEMMA QuietDelivered ==
  ASSUME RxTyped, NEW f, NEW p, NEW w, NEW R, NEW n, NEW a, NEW k, Found(f, p, w, R, n, a, k),
         Quiet
  PROVE  Delivered(f, p)
<1>1. /\ n \in Nat /\ n >= 2 /\ n = Len(w) /\ k \in 0 .. n /\ Progress(f, p, R, n, k)
      /\ Placed(line, w, f, a, k)
  BY Zenon DEF Found, Shaped
<1>2. a \in 0 .. Len(line) /\ a + (n - k) <= Len(line)
  BY <1>1, Zenon DEF Placed
<1>3. Len(line) = 0 /\ pc = "idle"
  BY DEF Quiet
<1>4. k = n /\ k # 0 /\ k \notin 1 .. n - 1
  BY <1>1, <1>2, <1>3
<1>5. ~Pending(f, p)
  BY <1>3 DEF Pending
<1> QED
  BY <1>1, <1>4, <1>5, Zenon DEF Progress

\* Every step keeps what was handed up right.
LEMMA UpInvStep ==
  ASSUME RxTyped, OrderInv, UpInv, \A g \in Owed : FrameInv(g), [Next]_vars
  PROVE  UpInv'
<1>1. PICK s \in Nat, m \in Nat : s = Len(sent) /\ m = Len(up)
  BY FrameNumbers
<1>2. ASSUME NEW i \in 1 .. m, up[i].frame \in Owed'
      PROVE  up[i].frame \in Owed /\ sent'[up[i].frame] = sent[up[i].frame]
  <2>1. up[i].frame \in 0 .. s
    BY <1>1, <1>2, FrameNumbers, Zenon
  <2>2. up[i].frame # s + 1
    BY <2>1
  <2> QED
    BY <1>1, <1>2, <2>2, OwedBefore, Zenon
<1>3. ASSUME NEW i \in 1 .. m, NEW j \in 1 .. i - 1 PROVE j \in 1 .. m
  BY <1>3
<1>4. CASE up' = up
  <2> SUFFICES ASSUME NEW i \in 1 .. m, up[i].frame \in Owed'
               PROVE  /\ up[i].data = sent'[up[i].frame]
                      /\ \A j \in 1 .. i - 1 : up[j].frame \in Owed' => up[j].frame < up[i].frame
    BY <1>1, <1>4, Zenon DEF UpInv
  <2> QED
    BY <1>1, <1>2, <1>3, Zenon DEF UpInv
<1>5. CASE Bump
  <2>1. PICK e, c : /\ c \in Nat /\ e = [frame |-> last, data |-> Read(idx)] /\ e.frame = last
                    /\ Len(up) = c /\ Len(up') = c + 1 /\ up'[c + 1] = e
                    /\ \A i \in 1 .. c : up'[i] = up[i]
                    /\ UNCHANGED <<sent, line, last, touched>>
    BY <1>5, BumpHands, Zenon
  <2>2. c = m /\ e.data = Read(idx)
    BY <1>1, <2>1
  <2>3. Owed' = Owed
    BY <2>1, Zenon DEF Owed
  <2>4. ASSUME last \in Owed
        PROVE  e.data = sent[last] /\ \A j \in 1 .. m : up[j].frame < last
    <3>1. PICK p, w, R, n, a, k : Found(last, p, w, R, n, a, k)
      BY <2>4, Finding, Zenon
    <3>2. p = sent[last] /\ p \in Seq(Byte) /\ Len(p) <= Min(BufSizes) /\ last # 0
      BY <3>1, Zenon DEF Found, Spoken
    <3>3. pc = "bump"
      BY <1>5 DEF Bump
    <3>4. resize = "idle" /\ idx = Len(p) /\ Holds(p) /\ Unheard(last)
      BY <3>1, <3>3, BumpedPending, Zenon DEF Pending
    <3>5. e.data = p
      BY <2>2, <3>2, <3>4, ReadHolds, Zenon
    <3>6. ASSUME NEW j \in 1 .. m PROVE up[j].frame < last
      <4>1. up[j].frame # last /\ up[j].frame <= last
        BY <1>1, <3>2, <3>4, Zenon DEF Unheard, OrderInv
      <4>2. up[j].frame \in 0 .. s /\ last \in 0 .. s
        BY <1>1, FrameNumbers, Zenon
      <4> QED
        BY <4>1, <4>2
    <3> QED
      BY <3>2, <3>5, <3>6
  <2> SUFFICES ASSUME NEW i \in 1 .. m + 1, up'[i].frame \in Owed
               PROVE  /\ up'[i].data = sent[up'[i].frame]
                      /\ \A j \in 1 .. i - 1 :
                           up'[j].frame \in Owed => up'[j].frame < up'[i].frame
    BY <2>1, <2>2, <2>3, Zenon DEF UpInv
  <2>5. CASE i \in 1 .. m
    BY <1>1, <1>3, <2>1, <2>2, <2>5, Zenon DEF UpInv
  <2>6. CASE ~(i \in 1 .. m)
    <3>1. i = m + 1 /\ \A j \in 1 .. i - 1 : j \in 1 .. m
      BY <2>6
    <3>2. up'[i] = e /\ e.frame = last
      BY <2>1, <2>2, <3>1, Zenon
    <3> QED
      BY <2>1, <2>2, <2>4, <3>1, <3>2, Zenon
  <2> QED
    BY <2>5, <2>6
<1>6. ASSUME NEW q \in Packets, Send(q) PROVE up' = up
  BY <1>6 DEF Send, ghosts
<1> QED
  BY <1>4, <1>5, <1>6, StepShape, Zenon

\* The inductive invariant.
RxInv ==
  /\ \A f \in Owed : FrameInv(f)
  /\ OrderInv /\ UpInv

\* At the start nothing is owed and nothing was heard.
LEMMA RxInvInit == Init => RxInv
<1> SUFFICES ASSUME Init PROVE RxInv
  OBVIOUS
<1>1. sent = << >> /\ line = << >> /\ up = << >> /\ last = 0
  BY DEF Init
<1>2. Owed = {}
  BY <1>1 DEF Owed
<1>3. OrderInv
  BY <1>1 DEF OrderInv, Sorted, Ahead
<1>4. UpInv
  BY <1>1 DEF UpInv
<1> QED
  BY <1>2, <1>3, <1>4 DEF RxInv

\* Every step keeps it.
LEMMA RxInvStep == RxTyped /\ RxInv /\ [Next]_vars => RxInv'
BY FrameStep, OrderStep, UpInvStep, Zenon DEF RxInv

\* Damage stays where it was done: every frame that neither noise nor an administrator has
\* interfered with is handed up as it was sent, in order and once, whatever happened to the frames
\* around it.
THEOREM DamageContained == Spec => []UntouchedDelivered
<1>1. RxTyped /\ RxInv => UntouchedDelivered
  <2> SUFFICES ASSUME RxTyped, RxInv PROVE UntouchedDelivered
    OBVIOUS
  <2>1. ASSUME Quiet, NEW f \in Owed
        PROVE  \E i \in 1 .. Len(up) : up[i] = [frame |-> f, data |-> sent[f]]
    <3>1. PICK p, w, R, n, a, k : Found(f, p, w, R, n, a, k)
      BY <2>1, Finding, Zenon DEF RxInv
    <3>2. Delivered(f, p) /\ p = sent[f]
      BY <2>1, <3>1, QuietDelivered, Zenon DEF Found
    <3> QED
      BY <3>2, Zenon DEF Delivered
  <2>2. DOMAIN up = 1 .. Len(up)
    BY DEF RxTyped, UpTyped
  <2> QED
    BY <2>1, <2>2, Zenon DEF UntouchedDelivered, RxInv, UpInv
<1> QED
  BY <1>1, RxTypes, RxInvInit, RxInvStep, PTL DEF Spec

-----------------------------------------------------------------------------
(* A line that nobody disturbs.                                            *)

\* No noise and no administration, and packets that fit the smallest buffer.
Calm ==
  /\ Troubles = {}
  /\ \A p \in Packets : Deliverable(p) /\ Len(p) <= Min(BufSizes)

\* Nobody has interfered, and every byte is of some frame.
CalmInv ==
  /\ touched = {} /\ resize = "idle" /\ mode6 = slip6 /\ running
  /\ \A i \in 1 .. Len(line) : line[i].frame # 0
  /\ rcount # 0 \/ pc # "idle" => last # 0
  /\ \A i \in 1 .. Len(up) : up[i].frame # 0

\* Every step of a calm line keeps it so.
LEMMA CalmStep ==
  ASSUME Calm, RxTyped, CalmInv, [Next]_vars
  PROVE  CalmInv'
<1>1. LineTyped /\ slip6 \in BOOLEAN
  BY DEF RxTyped, FlagsTyped
<1>2. /\ touched = {} /\ resize = "idle" /\ mode6 = slip6 /\ running
      /\ \A i \in 1 .. Len(line) : line[i].frame # 0
      /\ rcount # 0 \/ pc # "idle" => last # 0
      /\ \A i \in 1 .. Len(up) : up[i].frame # 0
  BY Zenon DEF CalmInv
<1>3. ASSUME NEW kind PROVE ~Trouble(kind)
  BY DEF Trouble, Calm
<1>4. ASSUME NEW q \in Packets, Send(q) PROVE CalmInv'
  <2>1. SentTo(line', q) /\ q \in Seq(Byte)
    BY <1>1, <1>4, SendWrites
  <2>2. PICK n \in Nat, m \in Nat : n = Len(sent) /\ m = Len(line)
    BY FrameNumbers
  <2>3. PICK k \in Nat : k = Len(Encode(slip6, q))
    <3>1. Encode(slip6, q) \in Seq(Byte)
      BY <1>1, <2>1, EncodeFramed DEF Framed
    <3> QED
      BY <3>1
  <2>4. /\ Len(line') = m + k /\ \A i \in 1 .. m : line'[i] = line[i]
        /\ \A j \in 1 .. k : line'[m + j].frame = n + 1
    <3>1. \A s : [s |-> s, bad |-> FALSE, frame |-> n + 1].frame = n + 1
      OBVIOUS
    <3> QED
      BY <2>1, <2>2, <2>3, <3>1, Zenon DEF SentTo
  <2>5. ASSUME NEW i \in 1 .. m + k PROVE line'[i].frame # 0
    <3>1. CASE i \in 1 .. m
      BY <1>2, <2>2, <2>4, <3>1, Zenon
    <3>2. CASE ~(i \in 1 .. m)
      <4>1. i - m \in 1 .. k /\ i = m + (i - m) /\ n + 1 # 0
        BY <3>2
      <4> QED
        BY <2>4, <4>1
    <3> QED
      BY <3>1, <3>2
  <2>6. UNCHANGED <<slip6, touched, resize, mode6, running, rcount, pc, last, up>>
    BY <1>4 DEF Send, ghosts, decoder, resizer, locals
  <2> QED
    BY <1>2, <2>4, <2>5, <2>6, Zenon DEF CalmInv
<1>5. ASSUME NEW n \in 1 .. Len(line), Deliver(n) PROVE CalmInv'
  <2>1. UNCHANGED <<slip6, line, touched, resize, mode6, running, rcount, pc, last, up>>
    BY <1>2, <1>5 DEF Deliver, decoder, resizer, locals
  <2> QED
    BY <1>2, <2>1, Zenon DEF CalmInv
<1>6. CASE TakeBad \/ TakeNone \/ TakeData \/ TakeEnd
  <2>1. Consume
    BY <1>6 DEF TakeBad, TakeNone, TakeData, TakeEnd
  <2>2. Gone(line', 1) /\ Len(line) >= 1 /\ Head(line) = line[1]
    BY <1>1, <2>1, ConsumeTakes, Zenon
  <2>3. PICK m \in Nat : m = Len(line)
    BY FrameNumbers
  <2>4. Len(line') = m - 1 /\ \A j \in 1 .. m - 1 : line'[j] = line[j + 1]
    BY <2>2, <2>3, Zenon DEF Gone
  <2>5. 1 \in 1 .. m /\ \A j \in 1 .. m - 1 : j + 1 \in 1 .. m
    BY <2>2, <2>3
  <2>6. line[1].frame # 0 /\ \A j \in 1 .. m - 1 : line'[j].frame # 0
    BY <1>2, <2>3, <2>4, <2>5, Zenon
  <2>7. touched' = {} /\ UNCHANGED <<slip6, resize, mode6, running, up>>
    BY <1>2, <2>1 DEF Consume, Interfered, resizer
  <2>8. rcount' # 0 \/ pc' # "idle" => last' # 0
    <3>1. CASE TakeBad \/ TakeNone
      BY <1>2, <3>1 DEF TakeBad, TakeNone, locals
    <3>2. CASE TakeData
      BY <2>2, <2>6, <3>2 DEF TakeData
    <3>3. CASE TakeEnd
      <4>1. last' = last /\ pc = "idle"
        BY <2>1, <3>3 DEF TakeEnd, Consume
      <4>2. rcount' # 0 \/ pc' # "idle" => rcount # 0
        BY <3>3, <4>1 DEF TakeEnd, locals
      <4> QED
        BY <1>2, <4>1, <4>2
    <3> QED
      BY <1>6, <3>1, <3>2, <3>3
  <2> QED
    BY <1>2, <2>4, <2>6, <2>7, <2>8, Zenon DEF CalmInv
<1>7. CASE Store
  <2>1. pc = "store" /\ UNCHANGED <<slip6, line, touched, resize, mode6, running, last, up>>
    BY <1>7 DEF Store, resizer, ghosts
  <2>2. last # 0
    BY <1>2, <2>1
  <2> QED
    BY <1>2, <2>1, <2>2, Zenon DEF CalmInv
<1>8. CASE Bump
  <2>1. PICK e, m : /\ m \in Nat /\ e.frame = last
                    /\ Len(up) = m /\ Len(up') = m + 1 /\ up'[m + 1] = e
                    /\ \A i \in 1 .. m : up'[i] = up[i]
                    /\ UNCHANGED <<sent, line, last, touched>>
    BY <1>8, BumpHands, Zenon
  <2>2. pc = "bump" /\ pc' = "idle" /\ rcount' = 0
        /\ UNCHANGED <<slip6, resize, mode6, running>>
    BY <1>8 DEF Bump, resizer
  <2>3. last # 0
    BY <1>2, <2>2
  <2>4. ASSUME NEW i \in 1 .. m + 1 PROVE up'[i].frame # 0
    <3>1. i = m + 1 \/ i \in 1 .. m
      BY <2>1
    <3> QED
      BY <1>2, <2>1, <2>3, <3>1, Zenon
  <2> QED
    BY <1>2, <2>1, <2>2, <2>4, Zenon DEF CalmInv
<1>9. CASE UNCHANGED vars \/ Rest
  <2>1. UNCHANGED <<slip6, line, touched, resize, mode6, running, rcount, pc, last, up>>
    BY <1>9 DEF Rest, vars, ghosts, decoder, resizer, locals
  <2> QED
    BY <1>2, <2>1, Zenon DEF CalmInv
<1>10. ~Admin /\ ~BumpDrop /\ \A i : ~Noise(i)
  <2>1. ~BumpDrop /\ \A i : ~Noise(i)
    BY <1>3, Zenon DEF BumpDrop, Noise
  <2>2. \A n : ~ResizeSwap(n)
    BY <1>3, Zenon DEF ResizeSwap
  <2>3. ~ResizeCopy /\ ~ResizeEnd /\ ~SlOpen
    BY <1>2 DEF ResizeCopy, ResizeEnd, SlOpen
  <2>4. ~SlClose
    BY <1>3, Zenon DEF SlClose
  <2>5. \A m : ~SetMode(m)
    <3>1. ASSUME NEW m, SetMode(m) PROVE FALSE
      <4>1. m # slip6
        BY <1>2, <3>1 DEF SetMode
      <4>2. Trouble("mode")
        BY <3>1, <4>1 DEF SetMode
      <4> QED
        BY <1>3, <4>2
    <3> QED
      BY <3>1
  <2> QED
    BY <2>1, <2>2, <2>3, <2>4, <2>5, Zenon DEF Admin, Resize
<1> QED
  BY <1>4, <1>5, <1>6, <1>7, <1>8, <1>9, <1>10, Zenon DEF Next, Receive

\* On a line that nobody disturbs all that is handed up is what was sent, in order and once: what
\* breaks this promise of the history of slip.c is the exchange of the buffers, not the decoding.
THEOREM CalmDelivers ==
  ASSUME Calm
  PROVE  Spec => []DeliveredIsSent
<1>1. Init => CalmInv
  BY DEF Init, CalmInv
<1>2. RxTyped /\ CalmInv /\ [Next]_vars => CalmInv'
  BY CalmStep
<1>3. RxTyped /\ CalmInv /\ RxInv => DeliveredIsSent
  <2> SUFFICES ASSUME RxTyped, CalmInv, RxInv PROVE DeliveredIsSent
    OBVIOUS
  <2>1. PICK s \in Nat : s = Len(sent)
    BY FrameNumbers
  <2>2. sent \in Seq(Packets) /\ DOMAIN up = 1 .. Len(up)
    BY DEF RxTyped, LineTyped, UpTyped
  <2>3. ASSUME NEW f \in 1 .. s PROVE f \in Owed
    <3>1. sent[f] \in Packets /\ f \in DOMAIN sent
      BY <2>1, <2>2, <2>3
    <3>2. Deliverable(sent[f]) /\ Len(sent[f]) <= Min(BufSizes)
      BY <3>1, Zenon DEF Calm
    <3> QED
      BY <3>1, <3>2, Zenon DEF Owed, CalmInv
  <2>4. \A i \in 1 .. Len(up) : up[i].frame \in DOMAIN sent /\ up[i].frame \in Owed
    <3> TAKE i \in 1 .. Len(up)
    <3>1. up[i].frame \in 0 .. s /\ up[i].frame # 0
      BY <2>1, FrameNumbers, Zenon DEF CalmInv
    <3>2. up[i].frame \in 1 .. s
      BY <3>1
    <3> QED
      BY <2>1, <2>2, <2>3, <3>2
  <2>5. Len(up) \in Nat
    BY FrameNumbers
  <2>6. \A i \in 1 .. Len(up) : \A j \in 1 .. i - 1 : j \in 1 .. Len(up)
    BY <2>5
  <2> QED
    BY <2>2, <2>4, <2>6, Zenon DEF DeliveredIsSent, RxInv, UpInv
<1> QED
  BY <1>1, <1>2, <1>3, RxTypes, RxInvInit, RxInvStep, PTL DEF Spec

=============================================================================
