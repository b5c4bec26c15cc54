---------------------- MODULE MCFilePreimageRepository ----------------------
(* Two preimages, a file nobody knows, and time for two generations of them. *)
EXTENDS FilePreimageRepository

CONSTANTS m1, m2, junk

MCMetadata == {m1, m2}
MCStrays == {junk}
=============================================================================
