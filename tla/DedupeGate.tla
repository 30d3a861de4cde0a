----------------------------- MODULE DedupeGate -----------------------------
(***************************************************************************)
(* What the processed-message table promises: a message is handled by one  *)
(* call at a time, only that call can open it again, and a message that    *)
(* was closed stays closed. An insert that fails by itself voids all that  *)
(* for its message, and for no other.                                      *)
(***************************************************************************)
CONSTANT Wamids

VARIABLE phase

Phases == {"open", "handling", "closed", "void"}

Init == phase = [w \in Wamids |-> "open"]

Claim(w) ==
    /\ phase[w] = "open"
    /\ phase' = [phase EXCEPT ![w] = "handling"]

Reopen(w) ==
    /\ phase[w] = "handling"
    /\ phase' = [phase EXCEPT ![w] = "open"]

Close(w) ==
    /\ phase[w] = "handling"
    /\ phase' = [phase EXCEPT ![w] = "closed"]

Void(w) ==
    /\ phase[w] # "void"
    /\ phase' = [phase EXCEPT ![w] = "void"]

Next == \E w \in Wamids : Claim(w) \/ Reopen(w) \/ Close(w) \/ Void(w)

Spec == Init /\ [][Next]_phase

=============================================================================
