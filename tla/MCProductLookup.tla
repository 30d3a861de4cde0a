--------------------------- MODULE MCProductLookup ---------------------------
(***************************************************************************)
(* Model-checking instance of ProductLookup.                               *)
(***************************************************************************)
EXTENDS ProductLookup

Symmetry == Permutations(Workers)

=============================================================================
