------------------------------ MODULE MCService ------------------------------
(* A devnet whose one L1 block finalizes three ranges. *)
EXTENDS Service

MCSafeL2 == <<4>>
=============================================================================
