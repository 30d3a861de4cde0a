--------------------------- MODULE MCWebhookIngress ---------------------------
(***************************************************************************)
(* Model-checking instances of WebhookIngress.                             *)
(***************************************************************************)
EXTENDS InlineIngress

CONSTANTS op, stranger

Ev(w, p, t) == [wamid |-> w, phone |-> p, sent |-> t]

MCOperators == {op}

\* A stranger writes twice in one batch, around an operator's message; the
\* other batch has a later message of each, one of them without a timestamp.
MCBatches == {1, 2}
MCEvents == <<
    <<Ev("a", stranger, 0), Ev("b", op, 0), Ev("c", stranger, 0)>>,
    <<Ev("e", op, 1), Ev("d", stranger, NoTime)>> >>

=============================================================================
