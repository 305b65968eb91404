------------------------------- MODULE MCSlhc -------------------------------
(* Headers for the model checker.                                          *)
EXTENDS Slhc

Ack == [conn |-> "c1", fixed |-> 0, seq |-> 0, ack |-> 0, win |-> 0, id |-> 0, urg |-> FALSE,
        urp |-> 0, psh |-> FALSE, len |-> 0]
Data    == [Ack EXCEPT !.len = 1, !.id = 1, !.psh = TRUE]      \* data following an ack
More    == [Data EXCEPT !.seq = 1, !.id = 2]                   \* data after data
Echo    == [More EXCEPT !.seq = 2, !.ack = 1, !.id = 0]        \* echoed data
Options == [Echo EXCEPT !.fixed = 1, !.win = 1]                \* another header length
Jump    == [Options EXCEPT !.seq = 7]                          \* too far to compress
Masked  == [Jump EXCEPT !.seq = 8, !.win = 2, !.urg = TRUE, !.urp = 1]   \* like SPECIAL_I
Urgent  == [Masked EXCEPT !.urp = 2]                           \* nothing else changes
Stale   == [Urgent EXCEPT !.urg = FALSE, !.seq = 0, !.id = 1]  \* not urgent, but its pointer stays
Big     == [Ack EXCEPT !.len = 2]                              \* more than a signed number holds
BigEcho == [Big EXCEPT !.seq = 2, !.ack = 2, !.id = 1]

\* One connection sends everything, the others only take slots.
MCStream ==
  [c \in Conns |-> IF c = "c1" THEN <<Ack, Data, More, Echo, Options, Jump, Masked, Urgent, Stale,
                                      Big, BigEcho>>
                   ELSE <<[Ack EXCEPT !.conn = c]>>]
=============================================================================
