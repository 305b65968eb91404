------------------------------ MODULE MCSlipRx ------------------------------
(* Small instances of SlipRx for TLC.                                      *)
EXTENDS SlipRx

\* Bytes that are escaped; a byte that looks like the second half of an escape; a packet
\* that is too long for a buffer of three bytes, one for any; one that is too short to be
\* handed up.  Each is sent in both encodings.
MCPackets ==
  {<<END, ESC, 0>>, <<7, ESC_END, 9>>, <<1, 2, 3, END6>>, <<1, 2, 3, 4, 5>>, <<8, 9>>}
MCOnePacket == {<<7, ESC_END, 9>>}

MCNoise == {END, ESC, ESC_ESC, END6}

=============================================================================
