----------------------------- MODULE SlipCodec -----------------------------
(***************************************************************************)
(* The two SLIP encodings of slip/slip.c as operators: slip_esc and        *)
(* slip_esc6 turn a packet into a frame, slip_unesc and slip_unesc6 take a *)
(* frame apart again one received byte at a time.  Bytes are numbers.      *)
(***************************************************************************)
EXTENDS Integers, SequencesExt

END     == 192     \* 0300
ESC     == 219     \* 0333
ESC_END == 220     \* 0334
ESC_ESC == 221     \* 0335
END6    == 112     \* 0x70, the frame delimiter of printable SLIP
BASE6   == 48      \* 0x30, the character for six zero bits

Byte == 0 .. 255

\* The values of an unsigned short, and of the low 14 bits of xdata: no others are read.
ShortSize == 256 * 256
XdataSize == 64 * 256

\* The shifts << and >> of a number that is not negative.
Shl(x, n) == x * 2 ^ n
Shr(x, n) == x \div 2 ^ n

-----------------------------------------------------------------------------
(* Encoding.                                                               *)

\* Mutation of Stuffed: an ESC byte of the packet is sent as it is.
StuffedEndOnly(c) == IF c = END THEN <<ESC, ESC_END>> ELSE <<c>>

\* What is sent for one byte of the packet.
Stuffed(c) ==
  IF c = END THEN <<ESC, ESC_END>> ELSE IF c = ESC THEN <<ESC, ESC_ESC>> ELSE <<c>>

\* The loop of slip_esc: what is written once the first n bytes of the packet are taken.  The
\* leading END flushes what noise has left in the receiver.
EscLoop(p) ==
  LET out[n \in 0 .. Len(p)] == IF n = 0 THEN <<END>> ELSE out[n - 1] \o Stuffed(p[n])
  IN  out

\* Mutation of Esc: no END before the packet.
EscUnled(p) == Tail(EscLoop(p)[Len(p)]) \o <<END>>

Esc(p) == EscLoop(p)[Len(p)] \o <<END>>

\* The loop of slip_esc6 for one byte: acc.v is an unsigned short that holds acc.bits bits
\* not sent yet, and each six of them give a printable character.
Sextets(acc, c) ==
  LET v    == (acc.v * 256 + c) % ShortSize
      bits == acc.bits + 8
  IN  [v |-> v, bits |-> bits % 6,
       out |-> acc.out \o [j \in 1 .. bits \div 6 |->
                             BASE6 + (Shr(v, bits - 6 * j) % 64)]]

\* That loop: bits and characters once the first n bytes of the packet are taken.
Esc6Loop(p) ==
  LET acc[n \in 0 .. Len(p)] == IF n = 0 THEN [v |-> 0, bits |-> 0, out |-> <<END6>>]
                                ELSE Sextets(acc[n - 1], p[n])
  IN  acc

\* The bits left over are sent with zeroes after them.
Esc6(p) ==
  LET acc  == Esc6Loop(p)[Len(p)]
      tail == IF acc.bits = 0 THEN << >>
              ELSE <<BASE6 + (Shl(acc.v, 6 - acc.bits) % 64)>>
  IN  acc.out \o tail \o <<END6>>

Encode(slip6, p) == IF slip6 THEN Esc6(p) ELSE Esc(p)

-----------------------------------------------------------------------------
(* Decoding.  A decoder is the escape flag SLF_ESCAPE and the bit buffer    *)
(* xbits, xdata; it meets a byte and says whether the byte ends the frame   *)
(* ("end"), completes a byte of the packet ("data") or does neither.       *)

NewDecoder == [esc |-> FALSE, xbits |-> 0, xdata |-> 0]

\* slip_unesc.  The flag survives an ordinary byte and is cleared by an END.
Unesc(d, s) ==
  IF s = END THEN [kind |-> "end", byte |-> s, dec |-> [d EXCEPT !.esc = FALSE]]
  ELSE IF s = ESC THEN [kind |-> "none", byte |-> s, dec |-> [d EXCEPT !.esc = TRUE]]
  ELSE IF d.esc /\ s \in {ESC_END, ESC_ESC}
    THEN [kind |-> "data", byte |-> IF s = ESC_END THEN END ELSE ESC,
          dec |-> [d EXCEPT !.esc = FALSE]]
  ELSE [kind |-> "data", byte |-> s, dec |-> d]

\* A character of the printable code: the bit buffer grows by six bits, and gives up a byte
\* as soon as it has eight.
Unesc6Char(d, s, xdata, xbits) ==
  IF xbits < 8 THEN [kind |-> "none", byte |-> s,
                     dec |-> [d EXCEPT !.xbits = xbits, !.xdata = xdata]]
  ELSE [kind |-> "data", byte |-> Shr(xdata, xbits - 8) % 256,
        dec |-> [d EXCEPT !.xbits = xbits - 8, !.xdata = xdata]]

\* Mutation of Unesc6: the delimiter does not empty the bit buffer.
Unesc6KeepsBits(d, s) ==
  IF s = END6 THEN [kind |-> "end", byte |-> s, dec |-> d]
  ELSE IF s \notin BASE6 .. END6 - 1 THEN [kind |-> "none", byte |-> s, dec |-> d]
  ELSE Unesc6Char(d, s, (d.xdata * 64 + (s - BASE6)) % XdataSize, d.xbits + 6)

\* slip_unesc6.  xdata is never masked in the code.
Unesc6(d, s) ==
  IF s = END6 THEN [kind |-> "end", byte |-> s, dec |-> [d EXCEPT !.xbits = 0, !.xdata = 0]]
  ELSE IF s \notin BASE6 .. END6 - 1 THEN [kind |-> "none", byte |-> s, dec |-> d]
  ELSE Unesc6Char(d, s, (d.xdata * 64 + (s - BASE6)) % XdataSize, d.xbits + 6)

Decode(slip6, d, s) == IF slip6 THEN Unesc6(d, s) ELSE Unesc(d, s)

\* A frame shorter than this is not handed up.
Deliverable(p) == Len(p) > 2

\* A receiver with unlimited buffers: the decoder, what it has of the current frame, and the
\* packets it has handed up.
NewReceiver == [dec |-> NewDecoder, buf |-> << >>, up |-> << >>]

\* One byte of slip_receive_buf.
Hear(slip6, r, s) ==
  LET m == Decode(slip6, r.dec, s)
  IN  CASE m.kind = "end"  -> [dec |-> m.dec, buf |-> << >>,
                               up |-> IF Deliverable(r.buf) THEN Append(r.up, r.buf) ELSE r.up]
        [] m.kind = "data" -> [r EXCEPT !.dec = m.dec, !.buf = Append(@, m.byte)]
        [] m.kind = "none" -> [r EXCEPT !.dec = m.dec]

\* The receiver after the first n bytes of a line.
Reception(slip6, line) ==
  LET r[n \in 0 .. Len(line)] == IF n = 0 THEN NewReceiver ELSE Hear(slip6, r[n - 1], line[n])
  IN  r

\* What it hands up in the end.
Received(slip6, line) == Reception(slip6, line)[Len(line)].up

=============================================================================
