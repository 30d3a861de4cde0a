----------------------------- MODULE RoundLedger -----------------------------
(***************************************************************************)
(* What the ad_variant_round table promises: the attempts of a draft are   *)
(* numbered without a gap, only the last of them is ACTIVE, a round is     *)
(* decided once, by the generation that opened it, and stays in the table. *)
(***************************************************************************)
EXTENDS Naturals, Sequences, FiniteSets

VARIABLES
    ledger,     \* rounds, in the order they were opened
    running     \* rounds whose generation has not come back

ledgerVars == <<ledger, running>>

Of(d) == {r \in DOMAIN ledger : ledger[r].draft = d}
Opened(d) == [draft |-> d, attempt |-> Cardinality(Of(d)) + 1,
              status |-> "ACTIVE", complete |-> FALSE]

\* The rounds of a draft are its attempts 1, 2, ... in order, all but the
\* last of which are no longer ACTIVE.
Legal ==
    \A r \in DOMAIN ledger :
        LET earlier == {s \in Of(ledger[r].draft) : s < r}
        IN  /\ ledger[r].attempt = Cardinality(earlier) + 1
            /\ \A s \in earlier : ledger[s].status # "ACTIVE"

\* Any table that earlier generations may have left.
Init == Legal /\ running = {}

Supersede(round, d) ==
    IF round.draft = d /\ round.status = "ACTIVE"
    THEN [round EXCEPT !.status = "SUPERSEDED"] ELSE round

Open(d) ==
    /\ ledger' = Append([r \in DOMAIN ledger |-> Supersede(ledger[r], d)], Opened(d))
    /\ running' = running \union {Len(ledger) + 1}

Complete(r) ==
    /\ r \in running
    /\ ledger' = [ledger EXCEPT ![r].complete = TRUE]
    /\ running' = running \ {r}

Fail(r) ==
    /\ r \in running
    /\ ledger' = [ledger EXCEPT ![r].status = "FAILED"]
    /\ running' = running \ {r}

\* The generation ends without a decision.
Leave(r) ==
    /\ r \in running
    /\ running' = running \ {r}
    /\ UNCHANGED ledger

Next(Drafts) ==
    \/ \E d \in Drafts : Open(d)
    \/ \E r \in running : Complete(r) \/ Fail(r) \/ Leave(r)

=============================================================================
