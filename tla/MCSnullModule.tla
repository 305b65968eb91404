--------------------------- MODULE MCSnullModule ---------------------------
(* Small instances of SnullModule for TLC.                                 *)
EXTENDS SnullModule

CONSTANTS sn0, sn1, vlc0

\* snull/snull.c has two devices joined back to back, vlc/vlc.c one that is its own wire.
MCDevs    == {sn0, sn1, vlc0}
MCTwin    == [d \in MCDevs |-> IF d = sn0 THEN sn1 ELSE IF d = sn1 THEN sn0 ELSE vlc0]
MCDrivers == {<<sn0, sn1>>, <<vlc0>>}

=============================================================================
