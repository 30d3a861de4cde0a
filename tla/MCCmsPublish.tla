----------------------------- MODULE MCCmsPublish -----------------------------
(***************************************************************************)
(* Model-checking instances of CmsPublish.                                 *)
(***************************************************************************)
EXTENDS CmsPublish, TLC

Symmetry == Permutations(Publishers)

\* Two advertisements whose weights are not their positions, and a slot of
\* something else between them.
MCSlots == <<[ad |-> 1, weight |-> 4], [ad |-> NoAd, weight |-> 5], [ad |-> 2, weight |-> 4]>>

=============================================================================
