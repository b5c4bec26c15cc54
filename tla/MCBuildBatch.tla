---------------------------- MODULE MCBuildBatch ----------------------------
(* Every combination of arguments of a 4-bit build_batch. *)
EXTENDS BuildBatch

MCConcurrencies == {0, 1, 3, 20}
=============================================================================
