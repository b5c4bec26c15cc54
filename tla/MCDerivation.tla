---------------------------- MODULE MCDerivation ----------------------------
(* Two adjoining ranges of a devnet, two heads, three pieces of data. *)
EXTENDS Derivation

MCRanges == {<<1, 2>>, <<2, 3>>}
=============================================================================
