--------------------------- MODULE MCSlipChannel ---------------------------
(* Small instances of SlipChannel for TLC.                                 *)
EXTENDS SlipChannel

\* Everything that can go wrong in slip_open.
MCAllFailures == {"netdev", "bufs", "slhc", "early", "late"}

=============================================================================
