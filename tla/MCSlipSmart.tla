---------------------------- MODULE MCSlipSmart ----------------------------
(* A small instance of SlipSmart for TLC.                                  *)
EXTENDS SlipSmart

\* One plain packet: three bytes on the line, more than the driver's FIFO takes at once.
MCOnePacket == {[len |-> 1, out |-> 1, esc |-> 0]}

=============================================================================
