------------------------------ MODULE MCSlipTx ------------------------------
(* Small instances of SlipTx for TLC.                                      *)
EXTENDS SlipTx

\* A packet whose bytes are all escaped, at the full MTU.
MCOnePacket == {[len |-> 2, out |-> 2, esc |-> 2]}

\* With it a short plain packet, and one that only fits after the MTU has grown.
MCThreePackets ==
  MCOnePacket \cup {[len |-> 1, out |-> 1, esc |-> 0], [len |-> 3, out |-> 3, esc |-> 1]}

=============================================================================
