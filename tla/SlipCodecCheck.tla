-------------------------- MODULE SlipCodecCheck --------------------------
(* Grows a packet byte by byte and checks both encodings on each packet.   *)
EXTENDS SlipCodec, FiniteSets

CONSTANTS Bytes,      \* bytes a packet is made of
          MaxLen,     \* bound: longest packet
          Garbage     \* what noise may leave on the line before a frame

ASSUME CheckAssumption ==
  /\ Bytes \subseteq Byte
  /\ MaxLen \in Nat
  /\ Garbage \subseteq Seq(Byte)

VARIABLES packet, printable

CheckInit == packet = << >> /\ printable \in BOOLEAN

Grow(b) == Len(packet) < MaxLen /\ packet' = Append(packet, b) /\ UNCHANGED printable

Full == Len(packet) = MaxLen /\ UNCHANGED <<packet, printable>>

CheckNext == Full \/ \E b \in Bytes : Grow(b)

CheckSpec == CheckInit /\ [][CheckNext]_<<packet, printable>>

-----------------------------------------------------------------------------
\* What slip_esc or slip_esc6 sends, slip_unesc or slip_unesc6 hands up unchanged, and a
\* packet too short for IP is dropped.
RoundTrip ==
  Received(printable, Encode(printable, packet)) =
    IF Deliverable(packet) THEN <<packet>> ELSE << >>

\* The leading END protects a frame from what noise left in the receiver: the packet is
\* handed up last and intact, whatever came before it.
Flushes ==
  Deliverable(packet) =>
    \A g \in Garbage : LET up == Received(printable, g \o Encode(printable, packet))
                       IN  up # << >> /\ Last(up) = packet

\* The length of a frame, from which sl_alloc_bufs sizes xbuff: never more than twice the
\* packet and two delimiters, and exactly what module SlipTx takes it to be.
FrameLength ==
  LET special == Cardinality({i \in DOMAIN packet : packet[i] \in {END, ESC}})
      n       == Len(Encode(printable, packet))
  IN  n = 2 + IF printable THEN (8 * Len(packet) + 5) \div 6 ELSE Len(packet) + special

=============================================================================
