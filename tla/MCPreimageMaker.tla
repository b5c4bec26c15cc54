--------------------------- MODULE MCPreimageMaker ---------------------------
(* Two L1 blocks, the second of which finalizes two ranges at once. *)
EXTENDS PreimageMaker

MCSafeL2 == [n \in 0..MaxL1 |-> <<0, 1, 3>>[n + 1]]
=============================================================================
