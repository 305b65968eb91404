------------------------------ MODULE MCSnull ------------------------------
(* Small instances of Snull for TLC.                                       *)
EXTENDS Snull, TLC

CONSTANTS sn0, sn1, vlc0

\* snull/snull.c: two devices joined back to back.  vlc/vlc.c: one device.
MCSnullDevs == {sn0, sn1}
MCSnullTwin == [d \in {sn0, sn1} |-> IF d = sn0 THEN sn1 ELSE sn0]
\* Exchanging the two devices changes nothing.
MCSnullSymmetry == Permutations(MCSnullDevs)

MCVlcDevs == {vlc0}
MCVlcTwin == [d \in {vlc0} |-> d]

=============================================================================
