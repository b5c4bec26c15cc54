------------------------------ MODULE MCL1Head ------------------------------
(* Periods of three epochs of two slots; a committee of three, of whom two are
   just enough. *)
EXTENDS L1Head

MCParticipations == {1, 2}
=============================================================================
