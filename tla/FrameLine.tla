----------------------------- MODULE FrameLine -----------------------------
(***************************************************************************)
(* What the transmit half of a channel promises, without buffers, locks or *)
(* wakeups: one frame at a time goes out on a line, whole and in order,    *)
(* unless its rest is given up, and then the line remembers which frame    *)
(* was cut.  A frame is accepted only when nothing is left of the last.    *)
(***************************************************************************)
EXTENDS Naturals, Sequences

CONSTANT Sizes      \* possible lengths of an encoded frame

VARIABLES
  line,      \* the bytes sent so far
  rest,      \* the bytes of the current frame that are still to be sent
  offered,   \* number of frames offered so far
  cut        \* frames given up

vars == <<line, rest, offered, cut>>

Init == line = << >> /\ rest = << >> /\ offered = 0 /\ cut = {}

Refuse == offered' = offered + 1 /\ UNCHANGED <<line, rest, cut>>

Accept(n) ==
  /\ rest = << >>
  /\ offered' = offered + 1
  /\ rest' = [i \in 1 .. n |-> [frame |-> offered', pos |-> i, of |-> n]]
  /\ UNCHANGED <<line, cut>>

Send(k) ==
  /\ k <= Len(rest)
  /\ line' = line \o SubSeq(rest, 1, k)
  /\ rest' = SubSeq(rest, k + 1, Len(rest))
  /\ UNCHANGED <<offered, cut>>

GiveUp ==
  /\ rest # << >>
  /\ cut' = cut \cup {rest[1].frame}
  /\ rest' = << >>
  /\ UNCHANGED <<line, offered>>

Advance == GiveUp \/ \E k \in 1 .. Len(rest) : Send(k)

Next == Refuse \/ (\E n \in Sizes : Accept(n)) \/ Advance

\* A frame once accepted is eventually sent or given up.
Spec == Init /\ [][Next]_vars /\ WF_vars(Advance)

=============================================================================
