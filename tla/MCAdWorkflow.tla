---------------------------- MODULE MCAdWorkflow ----------------------------
(***************************************************************************)
(* Model-checking instances of AdWorkflow.                                 *)
(***************************************************************************)
EXTENDS AdWorkflow, TLC

Symmetry == Permutations(Workers)

\* Message kinds of the runs that look for one behaviour.
PublishKinds == {"text", "select", "confirm"}

\* A later start: the first ad has been generated and a variant selected; the
\* operator asked for another attempt and was asked for a missing detail.
PreviewInit ==
    /\ session = [draft |-> 1, pending |-> "MISSING_INFO", context |-> OtherContext]
    /\ drafts = <<[FreshDraft EXCEPT !.id = 1, !.version = 5, !.status = "PREVIEW_READY",
                                     !.image = <<1, 1>>, !.typed = TRUE]>>
    /\ rounds = <<[draft |-> 1, attempt |-> 1, status |-> "ACTIVE", complete |-> TRUE]>>
    /\ published = {}
    /\ ads = <<>>
    /\ h = [k \in Workers |-> IdleCall]
    /\ received = 0
    /\ aborts = 0

PreviewSpec == PreviewInit /\ [][Next]_vars
AnySpec == (Init \/ PreviewInit) /\ [][Next]_vars

=============================================================================
