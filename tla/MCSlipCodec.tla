---------------------------- MODULE MCSlipCodec ----------------------------
(* Values for SlipCodecCheck: bytes at every boundary of the two codes.    *)
EXTENDS SlipCodecCheck

MCBytes == {0, 63, END6, END, ESC, ESC_END, ESC_ESC, 255}

MCGarbage == {<<ESC>>, <<7, END>>, <<END, 65, 66, 67>>, <<ESC, 9>>, <<65>>, <<66, 67, ESC>>}

=============================================================================
