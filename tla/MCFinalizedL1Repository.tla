---------------------- MODULE MCFinalizedL1Repository ----------------------
(* Two heads, each of which can expire and be stored again. *)
EXTENDS FinalizedL1Repository

CONSTANTS h1, h2

MCHeads == {h1, h2}
=============================================================================
