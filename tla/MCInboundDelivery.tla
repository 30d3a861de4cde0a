-------------------------- MODULE MCInboundDelivery --------------------------
(***************************************************************************)
(* Model-checking instances of InboundDelivery.                            *)
(***************************************************************************)
EXTENDS InboundDelivery, TLC

Symmetry == Permutations(Wamids) \union Permutations(Workers)

\* The run of all faults takes every kind there is.
EveryFault == AllFaults

=============================================================================
