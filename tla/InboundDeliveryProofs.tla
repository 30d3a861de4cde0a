------------------------ MODULE InboundDeliveryProofs ------------------------
(***************************************************************************)
(* Proofs about InboundDelivery for any set of messages, any finite set of *)
(* workers, any bound on posts and faults.                                 *)
(***************************************************************************)
EXTENDS InboundDelivery, FiniteSetTheorems, TLAPS

USE NoMsgAssumption, BoundsAssumption, FaultsAssumption

-----------------------------------------------------------------------------
\* Type correctness

\* The start has the types.
LEMMA TypeInit == Init => TypeOK
  BY DEF Init, TypeOK, Stages

\* Every action of every process preserves the types.
LEMMA TypeStep == TypeOK /\ [Next]_vars => TypeOK'
<1> SUFFICES ASSUME TypeOK, [Next]_vars PROVE TypeOK'
  OBVIOUS
<1> USE DEF TypeOK, Stages, AllFaults, history, outcomes, Befalls, Fault, GoTo, Release, RespondOk,
            RespondError, CountEffect
<1>1. ASSUME NEW w \in Wamids, Enqueue(w) PROVE TypeOK'
  BY <1>1 DEF Enqueue
<1>2. ASSUME NEW w \in Wamids, EnqueueFails(w) PROVE TypeOK'
  BY <1>2 DEF EnqueueFails
<1>3. ASSUME NEW k \in Workers, NEW w \in Wamids, Dispatch(k, w) PROVE TypeOK'
  BY <1>3 DEF Dispatch
<1>4. ASSUME NEW k \in Workers, MarkProcessed(k) PROVE TypeOK'
  BY <1>4 DEF MarkProcessed
<1>5. ASSUME NEW k \in Workers, SkipDuplicate(k) PROVE TypeOK'
  BY <1>5 DEF SkipDuplicate
<1>6. ASSUME NEW k \in Workers, RefuseOperator(k) PROVE TypeOK'
  BY <1>6 DEF RefuseOperator
<1>7. ASSUME NEW k \in Workers, CommitPartial(k) PROVE TypeOK'
  BY <1>7 DEF CommitPartial
<1>8. ASSUME NEW k \in Workers, CommitWork(k) PROVE TypeOK'
  BY <1>8 DEF CommitWork
<1>9. ASSUME NEW k \in Workers, ReplySent(k) PROVE TypeOK'
  BY <1>9 DEF ReplySent
<1>10. ASSUME NEW k \in Workers, Cleanup(k) PROVE TypeOK'
  BY <1>10 DEF Cleanup
<1>11. ASSUME NEW k \in Workers, MarkFails(k) PROVE TypeOK'
  BY <1>11 DEF MarkFails
<1>12. ASSUME NEW k \in Workers, WorkRaises(k) PROVE TypeOK'
  BY <1>12 DEF WorkRaises
<1>13. ASSUME NEW k \in Workers, ReplyFails(k) PROVE TypeOK'
  BY <1>13 DEF ReplyFails
<1>14. ASSUME NEW k \in Workers, CleanupFails(k) PROVE TypeOK'
  BY <1>14 DEF CleanupFails
<1>15. ASSUME NEW k \in Workers, Crash(k) PROVE TypeOK'
  BY <1>15 DEF Crash
<1>16. ASSUME NEW k \in Workers, LeaseExpires(k) PROVE TypeOK'
  BY <1>16 DEF LeaseExpires
<1>17. CASE UNCHANGED vars
  BY <1>17 DEF vars
<1>18. QED
  BY <1>1, <1>2, <1>3, <1>4, <1>5, <1>6, <1>7, <1>8, <1>9, <1>10, <1>11, <1>12,
     <1>13, <1>14, <1>15, <1>16, <1>17 DEF Next, WorkerStep, WorkerFault, Quiescent

\* The state keeps its types: in particular a worker has a message exactly
\* while it is not idle, whatever faults occur.
THEOREM TypeCorrect == Spec => []TypeOK
  BY TypeInit, TypeStep, PTL DEF Spec

-----------------------------------------------------------------------------
\* Executions

\* Calls that handle w and have committed nothing yet.
Uncommitted(w) == {k \in Workers : msg[k] = w /\ stage[k] = "work" /\ ~durable[k]}

Marked(w) == IF w \in marks THEN 1 ELSE 0

\* Each claim of w is an execution that was counted, a call that did not
\* commit yet, or a call that died; each claim but the present one ended by
\* a failure that took the mark away.
ClaimsExplained ==
    \A w \in Wamids : effects[w] + Cardinality(Uncommitted(w)) <= failures[w] + Marked(w)

\* The calls that committed nothing yet are finitely many.
LEMMA UncommittedFinite ==
    ASSUME NEW w
    PROVE  IsFiniteSet(Uncommitted(w)) /\ Cardinality(Uncommitted(w)) \in Nat
  BY WorkersAssumption, FS_Subset, FS_CardinalityType DEF Uncommitted

\* A step that adds no uncommitted call and moves neither the counters of w
\* down nor its mark keeps the explanation.
LEMMA FewerUncommitted ==
    ASSUME NEW w \in Wamids, Uncommitted(w)' \subseteq Uncommitted(w)
    PROVE  /\ Cardinality(Uncommitted(w)') \in Nat
           /\ Cardinality(Uncommitted(w)') <= Cardinality(Uncommitted(w))
  BY UncommittedFinite, FS_Subset, FS_CardinalityType

\* A call that leaves them makes them one fewer.
LEMMA OneFewerUncommitted ==
    ASSUME NEW w \in Wamids, NEW k \in Uncommitted(w),
           Uncommitted(w)' \subseteq Uncommitted(w) \ {k}
    PROVE  /\ Cardinality(Uncommitted(w)') \in Nat
           /\ Cardinality(Uncommitted(w)') + 1 <= Cardinality(Uncommitted(w))
<1>1. /\ IsFiniteSet(Uncommitted(w) \ {k})
      /\ Cardinality(Uncommitted(w) \ {k}) = Cardinality(Uncommitted(w)) - 1
  BY UncommittedFinite, FS_RemoveElement
<1>2. Cardinality(Uncommitted(w)') \in Nat
  BY <1>1, FS_Subset, FS_CardinalityType
<1>3. Cardinality(Uncommitted(w)') <= Cardinality(Uncommitted(w) \ {k})
  BY <1>1, FS_Subset
<1>4. QED
  BY <1>1, <1>2, <1>3, UncommittedFinite, FS_CardinalityType

\* A call that joins them makes them one more at most.
LEMMA OneMoreUncommitted ==
    ASSUME NEW w \in Wamids, NEW k,
           Uncommitted(w)' \subseteq Uncommitted(w) \union {k}
    PROVE  /\ Cardinality(Uncommitted(w)') \in Nat
           /\ Cardinality(Uncommitted(w)') <= Cardinality(Uncommitted(w)) + 1
<1>0. IsFiniteSet(Uncommitted(w)) /\ Cardinality(Uncommitted(w)) \in Nat
  BY UncommittedFinite
<1>1. /\ IsFiniteSet(Uncommitted(w) \union {k})
      /\ Cardinality(Uncommitted(w) \union {k}) <= Cardinality(Uncommitted(w)) + 1
  <2>1. /\ IsFiniteSet(Uncommitted(w) \union {k})
        /\ Cardinality(Uncommitted(w) \union {k})
             = IF k \in Uncommitted(w) THEN Cardinality(Uncommitted(w))
                                       ELSE Cardinality(Uncommitted(w)) + 1
    BY <1>0, FS_AddElement, Zenon
  <2>2. QED
    BY <1>0, <2>1
<1>2. /\ Cardinality(Uncommitted(w)') \in Nat
      /\ Cardinality(Uncommitted(w)') <= Cardinality(Uncommitted(w) \union {k})
  BY <1>1, FS_Subset, FS_CardinalityType
<1>3. Cardinality(Uncommitted(w) \union {k}) \in Nat
  BY <1>1, FS_CardinalityType
<1>4. QED
  BY <1>1, <1>2, <1>3, UncommittedFinite

\* At the start there is nothing to explain.
LEMMA ClaimsInit == Init => ClaimsExplained
<1> SUFFICES ASSUME Init, NEW w \in Wamids
             PROVE  effects[w] + Cardinality(Uncommitted(w)) <= failures[w] + Marked(w)
  BY DEF ClaimsExplained
<1>1. Uncommitted(w) = {}
  BY DEF Init, Uncommitted
<1>2. QED
  BY <1>1, FS_EmptySet DEF Init, Marked

\* A claim adds a mark, a commit moves a call to the count, and a mark goes
\* away with a failure only.
LEMMA ClaimsStep == TypeOK /\ ClaimsExplained /\ [Next]_vars => ClaimsExplained'
<1> SUFFICES ASSUME TypeOK, ClaimsExplained, [Next]_vars, NEW w \in Wamids
             PROVE  (effects[w] + Cardinality(Uncommitted(w)) <= failures[w] + Marked(w))'
  BY DEF ClaimsExplained
<1> DEFINE Holds == effects[w] + Cardinality(Uncommitted(w)) <= failures[w] + Marked(w)
<1>0. /\ Holds
      /\ Cardinality(Uncommitted(w)) \in Nat
      /\ effects[w] \in Nat /\ failures[w] \in Nat
      /\ Marked(w) \in {0, 1} /\ Marked(w)' \in {0, 1}
  BY UncommittedFinite DEF ClaimsExplained, TypeOK, Marked
<1> USE DEF history, outcomes, Befalls, Fault, GoTo, Release, RespondOk, RespondError
\* Steps that leave the counters and the marks alone and claim nothing.
<1>1. ASSUME UNCHANGED <<effects, failures, marks>>,
             Uncommitted(w)' \subseteq Uncommitted(w)
      PROVE  Holds'
  BY <1>0, <1>1, FewerUncommitted DEF Marked
<1>2. ASSUME NEW v \in Wamids, Enqueue(v) \/ EnqueueFails(v) PROVE Holds'
  BY <1>1, <1>2 DEF Enqueue, EnqueueFails, Uncommitted
<1>3. ASSUME NEW k \in Workers, NEW v \in Wamids, Dispatch(k, v) PROVE Holds'
  BY <1>1, <1>3 DEF Dispatch, Uncommitted, TypeOK
<1>4. ASSUME NEW k \in Workers, MarkProcessed(k) PROVE Holds'
  <2>1. CASE msg[k] = w
    <3>1. Uncommitted(w)' \subseteq Uncommitted(w) \union {k}
      BY <1>4 DEF MarkProcessed, Uncommitted, TypeOK
    <3>2. Marked(w) = 0 /\ Marked(w)' = 1
      BY <1>4, <2>1 DEF MarkProcessed, Marked
    <3>3. UNCHANGED <<effects, failures>>
      BY <1>4 DEF MarkProcessed
    <3>4. /\ Cardinality(Uncommitted(w)') \in Nat
          /\ Cardinality(Uncommitted(w)') <= Cardinality(Uncommitted(w)) + 1
      BY <3>1, OneMoreUncommitted
    <3>5. QED
      BY <1>0, <3>2, <3>3, <3>4
  <2>2. CASE msg[k] # w
    <3>1. Uncommitted(w)' \subseteq Uncommitted(w)
      BY <1>4, <2>2 DEF MarkProcessed, Uncommitted, TypeOK
    <3>2. UNCHANGED <<effects, failures>> /\ Marked(w)' = Marked(w)
      BY <1>4, <2>2 DEF MarkProcessed, Marked
    <3>3. QED
      BY <1>0, <3>1, <3>2, FewerUncommitted
  <2>3. QED
    BY <2>1, <2>2
<1>5. ASSUME NEW k \in Workers, SkipDuplicate(k) \/ RefuseOperator(k) \/ ReplySent(k)
      PROVE  Holds'
  BY <1>1, <1>5 DEF SkipDuplicate, RefuseOperator, ReplySent, Uncommitted, TypeOK
<1>6. ASSUME NEW k \in Workers, CommitPartial(k) \/ CommitWork(k) PROVE Holds'
  <2>1. /\ effects' = [effects EXCEPT ![msg[k]] = IF durable[k] THEN @ ELSE @ + 1]
        /\ UNCHANGED <<failures, marks, msg>>
        /\ stage[k] = "work" /\ durable' = [durable EXCEPT ![k] = TRUE]
        /\ \E next \in {"work", "send"} : stage' = [stage EXCEPT ![k] = next]
    BY <1>6 DEF CommitPartial, CommitWork, CountEffect
  <2>2. CASE msg[k] = w /\ ~durable[k]
    <3>1. k \in Uncommitted(w) /\ Uncommitted(w)' \subseteq Uncommitted(w) \ {k}
      BY <2>1, <2>2 DEF Uncommitted, TypeOK
    <3>2. effects'[w] = effects[w] + 1 /\ Marked(w)' = Marked(w)
      BY <2>1, <2>2 DEF TypeOK, Marked
    <3>3. QED
      BY <1>0, <2>1, <3>1, <3>2, OneFewerUncommitted
  <2>3. CASE msg[k] # w \/ durable[k]
    <3>1. Uncommitted(w)' \subseteq Uncommitted(w)
      BY <2>1, <2>3 DEF Uncommitted, TypeOK
    <3>2. effects'[w] = effects[w] /\ Marked(w)' = Marked(w)
      BY <2>1, <2>3 DEF TypeOK, Marked
    <3>3. QED
      BY <1>0, <2>1, <3>1, <3>2, FewerUncommitted
  <2>4. QED
    BY <2>2, <2>3
<1>7. ASSUME NEW k \in Workers, Cleanup(k) PROVE Holds'
  <2>1. UNCHANGED effects /\ Uncommitted(w)' \subseteq Uncommitted(w)
    BY <1>7 DEF Cleanup, Uncommitted, TypeOK
  <2>2. failures'[w] + Marked(w)' >= failures[w] + Marked(w) /\ failures'[w] \in Nat
    <3>1. CASE msg[k] = w
      BY <1>0, <1>7, <3>1 DEF Cleanup, TypeOK, Marked
    <3>2. CASE msg[k] # w
      BY <1>0, <1>7, <3>2 DEF Cleanup, TypeOK, Marked
    <3>3. QED
      BY <3>1, <3>2
  <2>3. QED
    BY <1>0, <2>1, <2>2, FewerUncommitted
<1>8. ASSUME NEW k \in Workers, WorkerFault(k) PROVE Holds'
  BY <1>1, <1>8 DEF WorkerFault, MarkFails, WorkRaises, ReplyFails, CleanupFails,
                    Crash, LeaseExpires, Uncommitted, TypeOK
<1>9. CASE UNCHANGED vars
  BY <1>1, <1>9 DEF vars, Uncommitted
<1>10. QED
  BY <1>2, <1>3, <1>4, <1>5, <1>6, <1>7, <1>8, <1>9 DEF Next, WorkerStep, Quiescent

\* Whatever the webhook and the queue duplicate and wherever calls fail or
\* die, a message is executed again only after a failure that deleted its
\* mark (main.py, the two except branches).
THEOREM EffectsAreExplained == Spec => []EffectsExplained
<1>1. TypeOK /\ ClaimsExplained => EffectsExplained
  <2> SUFFICES ASSUME TypeOK, ClaimsExplained, NEW w \in Wamids
               PROVE  effects[w] <= failures[w] + 1
    BY DEF EffectsExplained
  <2>1. Cardinality(Uncommitted(w)) \in Nat /\ Marked(w) \in {0, 1}
    BY UncommittedFinite DEF Marked
  <2>2. QED
    BY <2>1 DEF TypeOK, ClaimsExplained
<1>2. QED
  BY <1>1, TypeInit, TypeStep, ClaimsInit, ClaimsStep, PTL DEF Spec

-----------------------------------------------------------------------------
\* Mutual exclusion

\* A call that still has to decide about the mark finds it there, and no
\* other call is in that position for the same message, unless the insert
\* failed in a call about it.
HoldersMarked == \A k \in Workers : Holding(k) => msg[k] \in marks \/ Robbed(msg[k])

OneHolder ==
    \A k1, k2 \in Workers :
        Holding(k1) /\ Holding(k2) /\ msg[k1] = msg[k2] => k1 = k2 \/ Robbed(msg[k1])

\* At the start nobody holds a mark.
LEMMA HoldersInit == Init => HoldersMarked /\ OneHolder
  BY DEF Init, HoldersMarked, OneHolder, Holding

\* A call whose insert did not fail reaches its clean-up only as the holder
\* of the mark, so the delete takes no other call's mark.
LEMMA HoldersStep ==
    TypeOK /\ HoldersMarked /\ OneHolder /\ [Next]_vars => HoldersMarked' /\ OneHolder'
<1> SUFFICES ASSUME TypeOK, HoldersMarked, OneHolder, [Next]_vars
             PROVE  HoldersMarked' /\ OneHolder'
  OBVIOUS
<1> USE DEF history, outcomes, Befalls, Fault, GoTo, Release, RespondOk,
            RespondError, TypeOK, Stages,
            HoldersMarked, OneHolder, Holding, Robbed
<1>1. ASSUME NEW w \in Wamids, Enqueue(w) \/ EnqueueFails(w)
      PROVE  HoldersMarked' /\ OneHolder'
  BY <1>1 DEF Enqueue, EnqueueFails
<1>2. ASSUME NEW k \in Workers, NEW w \in Wamids, Dispatch(k, w)
      PROVE  HoldersMarked' /\ OneHolder'
  BY <1>2 DEF Dispatch
<1>3. ASSUME NEW k \in Workers, MarkProcessed(k) PROVE HoldersMarked' /\ OneHolder'
  BY <1>3 DEF MarkProcessed
<1>4. ASSUME NEW k \in Workers, SkipDuplicate(k) \/ RefuseOperator(k) \/ ReplySent(k)
      PROVE  HoldersMarked' /\ OneHolder'
  BY <1>4 DEF SkipDuplicate, RefuseOperator, ReplySent
<1>5. ASSUME NEW k \in Workers, CommitPartial(k) \/ CommitWork(k)
      PROVE  HoldersMarked' /\ OneHolder'
  BY <1>5 DEF CommitPartial, CommitWork
<1>6. ASSUME NEW k \in Workers, Cleanup(k) PROVE HoldersMarked' /\ OneHolder'
  BY <1>6 DEF Cleanup
<1>7. ASSUME NEW k \in Workers, WorkerFault(k) PROVE HoldersMarked' /\ OneHolder'
  <2>1. CASE MarkFails(k)
    BY <2>1 DEF MarkFails
  <2>2. CASE WorkRaises(k) \/ ReplyFails(k)
    BY <2>2 DEF WorkRaises, ReplyFails
  <2>3. CASE CleanupFails(k) \/ Crash(k)
    BY <2>3 DEF CleanupFails, Crash
  <2>4. CASE LeaseExpires(k)
    BY <2>4 DEF LeaseExpires
  <2>5. QED
    BY <1>7, <2>1, <2>2, <2>3, <2>4 DEF WorkerFault
<1>8. CASE UNCHANGED vars
  BY <1>8 DEF vars
<1>9. QED
  BY <1>1, <1>2, <1>3, <1>4, <1>5, <1>6, <1>7, <1>8 DEF Next, WorkerStep, Quiescent

\* Whatever the faults, no two calls handle the same message at the same
\* time, unless an insert of its own mark failed other than by finding it.
THEOREM MutualExclusion == Spec => []NoConcurrentHandling
<1>1. OneHolder => NoConcurrentHandling
  BY DEF OneHolder, NoConcurrentHandling, Holding, Handling
<1>2. TypeOK /\ HoldersMarked /\ OneHolder /\ [Next]_vars => HoldersMarked' /\ OneHolder'
  BY HoldersStep
<1>3. QED
  BY <1>1, <1>2, TypeInit, TypeStep, HoldersInit, PTL DEF Spec

\* Whoever commits business writes of a message holds its mark, with the same
\* exception.
THEOREM EffectsUnderMark == Spec => EffectUnderMark
<1> DEFINE Effect == \A w \in Wamids : effects'[w] # effects[w] =>
                        /\ w \in marks \/ Robbed(w)
                        /\ \E k \in Workers : msg[k] = w /\ stage[k] = "work"
<1>1. TypeOK /\ HoldersMarked /\ OneHolder /\ [Next]_vars => [Effect]_vars
  <2> SUFFICES ASSUME TypeOK, HoldersMarked, [Next]_vars, NEW w \in Wamids,
                      effects'[w] # effects[w]
               PROVE  /\ w \in marks \/ Robbed(w)
                      /\ \E k \in Workers : msg[k] = w /\ stage[k] = "work"
    OBVIOUS
  <2> USE DEF history, outcomes, Befalls, GoTo, Release, RespondOk, RespondError, Fault
  <2>1. PICK k \in Workers : CommitPartial(k) \/ CommitWork(k)
    BY DEF Next, WorkerStep, WorkerFault, Quiescent, vars, Enqueue, EnqueueFails, Dispatch,
           MarkProcessed, SkipDuplicate, RefuseOperator, ReplySent, Cleanup, MarkFails,
           WorkRaises, ReplyFails, CleanupFails, Crash, LeaseExpires
  <2>2. effects' = [effects EXCEPT ![msg[k]] = IF durable[k] THEN @ ELSE @ + 1]
        /\ stage[k] = "work"
    BY <2>1 DEF CommitPartial, CommitWork, CountEffect
  <2>3. msg[k] = w
    BY <2>2 DEF TypeOK
  <2>4. QED
    BY <2>2, <2>3 DEF HoldersMarked, Holding
<1>2. TypeOK /\ HoldersMarked /\ OneHolder /\ [Next]_vars => HoldersMarked' /\ OneHolder'
  BY HoldersStep
<1>3. QED
  BY <1>1, <1>2, TypeInit, TypeStep, HoldersInit, PTL DEF Spec, EffectUnderMark

-----------------------------------------------------------------------------
\* Refinement of DedupeGate

Held(w) == \E k \in Workers : msg[k] = w /\ Holding(k)

\* The phase of a message after a step that shows at no other message.
LEMMA PhaseStep ==
    ASSUME NEW w \in Wamids,
           \A v \in Wamids \ {w} : /\ Robbed(v) <=> Robbed(v)'
                                   /\ v \in marks <=> v \in marks'
                                   /\ Held(v) <=> Held(v)'
    PROVE  GatePhase' = [GatePhase EXCEPT ![w] =
                           IF Robbed(w)' THEN "void"
                           ELSE IF w \notin marks' THEN "open"
                           ELSE IF Held(w)' THEN "handling" ELSE "closed"]
  BY DEF GatePhase, Held

\* A step that changes neither the marks nor who holds what is invisible.
LEMMA PhaseStutter ==
    ASSUME UNCHANGED marks,
           \A w \in Wamids : (Robbed(w) <=> Robbed(w)') /\ (Held(w) <=> Held(w)')
    PROVE  UNCHANGED GatePhase
  BY DEF GatePhase, Held

\* A message with a failed insert keeps a void phase.
LEMMA VoidStays ==
    ASSUME NEW w \in Wamids, Robbed(w), Robbed(w)',
           GatePhase' = [GatePhase EXCEPT ![w] = "void"]
    PROVE  UNCHANGED GatePhase
  BY DEF GatePhase

\* Only a failing insert makes a message void.
LEMMA RobbedStep ==
    ASSUME TypeOK, [Next]_vars, NEW w \in Wamids
    PROVE  \/ Robbed(w)' <=> Robbed(w)
           \/ \E k \in Workers : MarkFails(k)
<1> USE DEF TypeOK, Robbed, history, outcomes, Befalls, Fault, GoTo, Release, RespondOk,
            RespondError
<1>1. ASSUME NEW v \in Wamids, Enqueue(v) \/ EnqueueFails(v) PROVE Robbed(w)' <=> Robbed(w)
  BY <1>1 DEF Enqueue, EnqueueFails
<1>2. ASSUME NEW k \in Workers, NEW v \in Wamids, Dispatch(k, v)
      PROVE  Robbed(w)' <=> Robbed(w)
  BY <1>2 DEF Dispatch
<1>3. ASSUME NEW k \in Workers, WorkerStep(k) PROVE Robbed(w)' <=> Robbed(w)
  BY <1>3 DEF WorkerStep, MarkProcessed, SkipDuplicate, RefuseOperator, CommitPartial,
              CommitWork, ReplySent, Cleanup
<1>4. ASSUME NEW k \in Workers, WorkRaises(k) \/ ReplyFails(k)
      PROVE  Robbed(w)' <=> Robbed(w)
  BY <1>4 DEF WorkRaises, ReplyFails
<1>5. ASSUME NEW k \in Workers, CleanupFails(k) \/ Crash(k) \/ LeaseExpires(k)
      PROVE  Robbed(w)' <=> Robbed(w)
  BY <1>5 DEF CleanupFails, Crash, LeaseExpires
<1>6. CASE UNCHANGED vars
  BY <1>6 DEF vars
<1>7. QED
  BY <1>1, <1>2, <1>3, <1>4, <1>5, <1>6 DEF Next, WorkerFault, Quiescent

\* A holder's exit: its message w is void, or was being handled and nobody
\* else holds it.
LEMMA HolderLeaves ==
    ASSUME TypeOK, HoldersMarked, OneHolder, NEW k \in Workers, Holding(k), Release(k),
           NEW w \in Wamids, msg[k] = w
    PROVE  /\ Robbed(w) \/ (GatePhase[w] = "handling" /\ w \in marks /\ ~Held(w)')
           /\ \A v \in Wamids \ {w} : Held(v) <=> Held(v)'
<1>1. Robbed(w) \/ (GatePhase[w] = "handling" /\ w \in marks)
  BY DEF GatePhase, HoldersMarked
<1>2. Robbed(w) \/ ~Held(w)'
  BY NoMsgAssumption DEF Held, Release, OneHolder, Holding, TypeOK
<1>3. \A v \in Wamids \ {w} : Held(v) <=> Held(v)'
  BY NoMsgAssumption DEF Held, Release, Holding, TypeOK
<1>4. QED
  BY <1>1, <1>2, <1>3

\* Every step claims, reopens, closes or voids a message of the gate, or does
\* not show there.
LEMMA GateStep ==
    ASSUME TypeOK, HoldersMarked, OneHolder, [Next]_vars
    PROVE  [Gate!Next]_GatePhase
<1> DEFINE SameVoid == \A w \in Wamids : Robbed(w) <=> Robbed(w)'
<1> USE DEF history, outcomes, Befalls, Fault, GoTo, RespondOk, RespondError
<1>1. ASSUME NEW k \in Workers, MarkFails(k) PROVE Gate!Next \/ UNCHANGED GatePhase
  <2>1. PICK w \in Wamids : msg[k] = w
    BY <1>1 DEF MarkFails, TypeOK
  <2>2. Robbed(w)' /\ \A v \in Wamids \ {w} : Robbed(v) <=> Robbed(v)'
    BY <1>1, <2>1 DEF MarkFails, Robbed, TypeOK
  <2>3. UNCHANGED marks /\ \A v \in Wamids \ {w} : Held(v) <=> Held(v)'
    BY <1>1, <2>1 DEF MarkFails, Held, Holding, TypeOK
  <2>4. GatePhase' = [GatePhase EXCEPT ![w] = "void"]
    BY <2>2, <2>3, PhaseStep
  <2>5. CASE Robbed(w)
    BY <2>2, <2>4, <2>5, VoidStays
  <2>6. CASE ~Robbed(w)
    <3>1. GatePhase[w] # "void"
      BY <2>6 DEF GatePhase
    <3>2. QED
      BY <2>4, <3>1 DEF Gate!Next, Gate!Void
  <2>7. QED
    BY <2>5, <2>6
<1>2. CASE \E k \in Workers : MarkFails(k)
  BY <1>1, <1>2
<1>3. ASSUME \A k \in Workers : ~MarkFails(k) PROVE SameVoid
  BY <1>3, RobbedStep
<1>4. ASSUME SameVoid PROVE Gate!Next \/ UNCHANGED GatePhase
  <2>1. ASSUME NEW k \in Workers, Holding(k), Release(k), UNCHANGED marks
        PROVE  Gate!Next \/ UNCHANGED GatePhase
    <3>1. PICK w \in Wamids : msg[k] = w
      BY <2>1 DEF TypeOK, Holding
    <3>2. /\ Robbed(w) \/ (GatePhase[w] = "handling" /\ w \in marks /\ ~Held(w)')
          /\ \A v \in Wamids \ {w} : Held(v) <=> Held(v)'
      BY <2>1, <3>1, HolderLeaves
    <3>3. CASE Robbed(w)
      BY <1>4, <2>1, <3>2, <3>3, PhaseStep, VoidStays
    <3>4. CASE ~Robbed(w)
      <4>1. GatePhase' = [GatePhase EXCEPT ![w] = "closed"]
        BY <1>4, <2>1, <3>2, <3>4, PhaseStep
      <4>2. QED
        BY <3>2, <3>4, <4>1 DEF Gate!Next, Gate!Close
    <3>5. QED
      BY <3>3, <3>4
  <2>2. ASSUME NEW k \in Workers, ~Holding(k), Release(k), UNCHANGED marks
        PROVE  UNCHANGED GatePhase
    <3>1. \A w \in Wamids : Held(w) <=> Held(w)'
      BY <2>2, NoMsgAssumption DEF Held, Release, Holding, TypeOK
    <3>2. QED
      BY <1>4, <2>2, <3>1, PhaseStutter
  <2>3. ASSUME NEW w \in Wamids, Enqueue(w) \/ EnqueueFails(w) PROVE UNCHANGED GatePhase
    BY <1>4, <2>3, PhaseStutter DEF Enqueue, EnqueueFails, Held, Holding
  <2>4. ASSUME NEW k \in Workers, NEW w \in Wamids, Dispatch(k, w)
        PROVE  UNCHANGED GatePhase
    <3>1. \A v \in Wamids : Held(v) <=> Held(v)'
      BY <2>4 DEF Dispatch, Held, Holding, TypeOK
    <3>2. QED
      BY <1>4, <2>4, <3>1, PhaseStutter DEF Dispatch
  <2>5. ASSUME NEW k \in Workers, MarkProcessed(k) PROVE Gate!Next \/ UNCHANGED GatePhase
    <3>1. PICK w \in Wamids : msg[k] = w
      BY <2>5 DEF MarkProcessed, TypeOK
    <3>2. w \in marks' /\ Held(w)' /\ \A v \in Wamids \ {w} : Held(v) <=> Held(v)'
      BY <2>5, <3>1 DEF MarkProcessed, Held, Holding, TypeOK
    <3>3. \A v \in Wamids \ {w} : v \in marks <=> v \in marks'
      BY <2>5, <3>1 DEF MarkProcessed
    <3>4. CASE Robbed(w)
      BY <1>4, <3>2, <3>3, <3>4, PhaseStep, VoidStays
    <3>5. CASE ~Robbed(w)
      <4>1. GatePhase[w] = "open"
        BY <2>5, <3>1, <3>5 DEF MarkProcessed, GatePhase
      <4>2. GatePhase' = [GatePhase EXCEPT ![w] = "handling"]
        BY <1>4, <3>2, <3>3, <3>5, PhaseStep
      <4>3. QED
        BY <4>1, <4>2 DEF Gate!Next, Gate!Claim
    <3>6. QED
      BY <3>4, <3>5
  <2>6. ASSUME NEW k \in Workers, SkipDuplicate(k) PROVE UNCHANGED GatePhase
    BY <2>2, <2>6 DEF SkipDuplicate, Holding
  <2>7. ASSUME NEW k \in Workers, RefuseOperator(k) \/ ReplySent(k)
        PROVE  Gate!Next \/ UNCHANGED GatePhase
    BY <2>1, <2>7 DEF RefuseOperator, ReplySent, Holding
  <2>8. ASSUME NEW k \in Workers, UNCHANGED <<marks, msg>>, Holding(k), Holding(k)',
               \A j \in Workers \ {k} : stage'[j] = stage[j]
        PROVE  UNCHANGED GatePhase
    BY <1>4, <2>8, PhaseStutter DEF Held, Holding
  <2>9. ASSUME NEW k \in Workers,
               CommitPartial(k) \/ CommitWork(k) \/ WorkRaises(k) \/ ReplyFails(k)
        PROVE  UNCHANGED GatePhase
    <3>1. \E next \in {"work", "send", "cleanup"} : stage' = [stage EXCEPT ![k] = next]
      BY <2>9 DEF CommitPartial, CommitWork, WorkRaises, ReplyFails
    <3>2. stage[k] \in {"work", "send"} /\ UNCHANGED <<marks, msg>>
      BY <2>9 DEF CommitPartial, CommitWork, WorkRaises, ReplyFails
    <3>3. QED
      BY <2>8, <3>1, <3>2 DEF Holding, TypeOK
  <2>10. ASSUME NEW k \in Workers, Cleanup(k) PROVE Gate!Next \/ UNCHANGED GatePhase
    <3>1. PICK w \in Wamids : msg[k] = w
      BY <2>10 DEF Cleanup, TypeOK
    <3>2. Holding(k) /\ Release(k) /\ marks' = marks \ {w}
      BY <2>10, <3>1 DEF Cleanup, Holding
    <3>3. /\ Robbed(w) \/ GatePhase[w] = "handling"
          /\ \A v \in Wamids \ {w} : Held(v) <=> Held(v)'
      BY <3>1, <3>2, HolderLeaves
    <3>4. CASE Robbed(w)
      BY <1>4, <3>2, <3>3, <3>4, PhaseStep, VoidStays
    <3>5. CASE ~Robbed(w)
      <4>1. GatePhase' = [GatePhase EXCEPT ![w] = "open"]
        BY <1>4, <3>2, <3>3, <3>5, PhaseStep
      <4>2. QED
        BY <3>3, <3>5, <4>1 DEF Gate!Next, Gate!Reopen
    <3>6. QED
      BY <3>4, <3>5
  <2>11. ASSUME NEW k \in Workers, CleanupFails(k) \/ Crash(k)
         PROVE  Gate!Next \/ UNCHANGED GatePhase
    BY <2>1, <2>2, <2>11 DEF CleanupFails, Crash
  <2>12. ASSUME NEW k \in Workers, LeaseExpires(k) PROVE UNCHANGED GatePhase
    BY <1>4, <2>12, PhaseStutter DEF LeaseExpires, Held, Holding
  <2>13. CASE UNCHANGED vars
    BY <1>4, <2>13, PhaseStutter DEF vars, Held, Holding
  <2>14. QED
    BY <1>1, <2>3, <2>4, <2>5, <2>6, <2>7, <2>9, <2>10, <2>11, <2>12, <2>13
       DEF Next, WorkerStep, WorkerFault, Quiescent
<1>5. QED
  BY <1>2, <1>3, <1>4

\* The processed-message table keeps the gate's promise for any number of
\* copies, calls and faults, for every message whose insert did not fail by
\* itself.
THEOREM MarksImplementGate == Spec => ImplementsGate
<1>1. Init => Gate!Init
  BY DEF Init, Gate!Init, GatePhase, Robbed
<1>2. TypeOK /\ HoldersMarked /\ OneHolder /\ [Next]_vars => [Gate!Next]_GatePhase
  BY GateStep
<1>3. TypeOK /\ HoldersMarked /\ OneHolder /\ [Next]_vars => HoldersMarked' /\ OneHolder'
  BY HoldersStep
<1>4. QED
  BY <1>1, <1>2, <1>3, TypeInit, TypeStep, HoldersInit, PTL DEF Spec, ImplementsGate, Gate!Spec

-----------------------------------------------------------------------------
\* Nothing is lost

\* The queue waits for every call that is about w.
LeasedFor(w) == \A k \in Workers : msg[k] = w => leased[k]

\* The mark of w is that of a message which was settled, or whose holder still
\* has to settle it or to take the mark away.
MarkHeld(w) == w \in marks => Settled(w) \/ \E k \in Workers : msg[k] = w /\ Holding(k)

\* An accepted message is settled, has a task, or is at a call.
Retained(w) ==
    w \in accepted => Settled(w) \/ pending[w] > 0 \/ \E k \in Workers : msg[k] = w

Kept(w) == LeasedFor(w) /\ MarkHeld(w) /\ Retained(w)

\* Replies are sent of settled messages.
RepliesSettled == \A k \in Workers : stage[k] = "send" => msg[k] \in finished

\* A call disappears: its task or its mark is left to others.
Disappears(k) == CleanupFails(k) \/ Crash(k) \/ LeaseExpires(k)

\* At the start nothing was accepted.
LEMMA LossInit == Init => RepliesSettled /\ \A w \in Wamids : Kept(w)
  BY DEF Init, RepliesSettled, Kept, LeasedFor, MarkHeld, Retained

\* A reply is on its way only after the handling has committed.
LEMMA RepliesStep == TypeOK /\ RepliesSettled /\ [Next]_vars => RepliesSettled'
<1> SUFFICES ASSUME TypeOK, RepliesSettled, [Next]_vars PROVE RepliesSettled'
  OBVIOUS
<1>0. TypeOK'
  BY TypeStep
<1> USE <1>0 DEF history, outcomes, Befalls, Fault, GoTo, Release, RespondOk,
                 RespondError, RepliesSettled,
                 TypeOK, Stages
<1>1. ASSUME NEW w \in Wamids, Enqueue(w) \/ EnqueueFails(w) PROVE RepliesSettled'
  BY <1>1 DEF Enqueue, EnqueueFails
<1>2. ASSUME NEW k \in Workers, NEW w \in Wamids, Dispatch(k, w) PROVE RepliesSettled'
  BY <1>2 DEF Dispatch
<1>3. ASSUME NEW k \in Workers, WorkerStep(k) PROVE RepliesSettled'
  BY <1>3 DEF WorkerStep, MarkProcessed, SkipDuplicate, RefuseOperator, CommitPartial,
              CommitWork, ReplySent, Cleanup
<1>4. ASSUME NEW k \in Workers, WorkerFault(k) PROVE RepliesSettled'
  BY <1>4 DEF WorkerFault, MarkFails, WorkRaises, ReplyFails, CleanupFails, Crash, LeaseExpires
<1>5. CASE UNCHANGED vars
  BY <1>5 DEF vars
<1>6. QED
  BY <1>1, <1>2, <1>3, <1>4, <1>5 DEF Next, Quiescent

\* A call that ends without its task being tried again leaves no accepted
\* message to itself, unless it disappears: another call settled the message,
\* or holds it.
LEMMA KeptStep ==
    ASSUME TypeOK, RepliesSettled, [Next]_vars, NEW w \in Wamids, Kept(w)
    PROVE  Kept(w)' \/ \E k \in Workers : Disappears(k) /\ msg[k] = w
<1>0. TypeOK'
  BY TypeStep
<1> USE <1>0 DEF history, outcomes, Befalls, Fault, GoTo, Release, RespondOk,
                 RespondError, Kept, LeasedFor,
                 MarkHeld, Retained, RepliesSettled, Holding, Settled, TypeOK, Stages
<1>1. ASSUME NEW v \in Wamids, Enqueue(v) \/ EnqueueFails(v) PROVE Kept(w)'
  BY <1>1 DEF Enqueue, EnqueueFails
<1>2. ASSUME NEW k \in Workers, NEW v \in Wamids, Dispatch(k, v) PROVE Kept(w)'
  BY <1>2 DEF Dispatch
<1>3. ASSUME NEW k \in Workers, MarkProcessed(k) PROVE Kept(w)'
  BY <1>3 DEF MarkProcessed
<1>4. ASSUME NEW k \in Workers, SkipDuplicate(k) PROVE Kept(w)'
  BY <1>4 DEF SkipDuplicate
<1>5. ASSUME NEW k \in Workers, RefuseOperator(k) PROVE Kept(w)'
  BY <1>5 DEF RefuseOperator
<1>6. ASSUME NEW k \in Workers, CommitPartial(k) PROVE Kept(w)'
  BY <1>6 DEF CommitPartial, CountEffect
<1>7. ASSUME NEW k \in Workers, CommitWork(k) PROVE Kept(w)'
  BY <1>7 DEF CommitWork, CountEffect
<1>8. ASSUME NEW k \in Workers, ReplySent(k) PROVE Kept(w)'
  BY <1>8 DEF ReplySent
<1>9. ASSUME NEW k \in Workers, Cleanup(k) PROVE Kept(w)'
  BY <1>9 DEF Cleanup
<1>10. ASSUME NEW k \in Workers, MarkFails(k) \/ WorkRaises(k) \/ ReplyFails(k) PROVE Kept(w)'
  BY <1>10 DEF MarkFails, WorkRaises, ReplyFails
<1>11. ASSUME NEW k \in Workers, Disappears(k), msg[k] # w PROVE Kept(w)'
  <2>1. CASE CleanupFails(k)
    BY <1>11, <2>1 DEF CleanupFails
  <2>2. CASE Crash(k)
    BY <1>11, <2>2 DEF Crash
  <2>3. CASE LeaseExpires(k)
    BY <1>11, <2>3 DEF LeaseExpires
  <2>4. QED
    BY <1>11, <2>1, <2>2, <2>3 DEF Disappears
<1>12. CASE UNCHANGED vars
  BY <1>12 DEF vars
<1>13. QED
  BY <1>1, <1>2, <1>3, <1>4, <1>5, <1>6, <1>7, <1>8, <1>9, <1>10, <1>11, <1>12
     DEF Next, WorkerStep, WorkerFault, Disappears, Quiescent

\* A message without tasks and calls that was not settled.
Dropped(w) == w \in accepted /\ Drained(w) /\ ~Settled(w)

\* A message that is kept is not dropped.
LEMMA KeptIsNotDropped == ASSUME NEW w, Kept(w) PROVE ~Dropped(w)
  BY DEF Kept, Retained, Dropped, Drained

\* As long as no instance dies, no clean-up fails and no call outlives its
\* dispatch deadline, an accepted message is handled to its end or refused
\* before its tasks are used up, with failures of the webhook's enqueueing,
\* of the insert of the mark, of the handling and of the reply.
THEOREM NothingLost ==
    ASSUME FaultKinds \intersect LossFaults = {}
    PROVE  Spec => []NoSilentLoss
<1> DEFINE AllKept == \A w \in Wamids : Kept(w)
<1>1. TypeOK /\ AllKept => NoSilentLoss
  BY DEF TypeOK, Kept, Retained, NoSilentLoss, Drained
<1>2. TypeOK /\ RepliesSettled /\ AllKept /\ [Next]_vars => AllKept'
  <2>1. \A k \in Workers : ~Disappears(k)
    BY DEF Disappears, CleanupFails, Crash, LeaseExpires, Befalls, Fault, LossFaults
  <2>2. QED
    BY <2>1, KeptStep
<1>3. QED
  BY <1>1, <1>2, TypeInit, TypeStep, LossInit, RepliesStep, PTL DEF Spec

\* A message that is not kept any more has an abandoned call of its own.
KeptOrAbandoned == \A w \in Wamids : Kept(w) \/ Abandoned(w)

\* The step that ends the keeping is the fault, and it is never taken back.
LEMMA KeptOrAbandonedStep ==
    TypeOK /\ RepliesSettled /\ KeptOrAbandoned /\ [Next]_vars => KeptOrAbandoned'
<1> SUFFICES ASSUME TypeOK, RepliesSettled, KeptOrAbandoned, [Next]_vars, NEW w \in Wamids
             PROVE  Kept(w)' \/ Abandoned(w)'
  BY DEF KeptOrAbandoned
<1>1. ASSUME NEW k \in Workers, Disappears(k), msg[k] = w PROVE Abandoned(w)'
  BY <1>1 DEF Disappears, CleanupFails, Crash, LeaseExpires, Befalls, Abandoned, LossFaults,
              TypeOK
<1>2. hit[w] \subseteq hit'[w]
  <2> USE DEF TypeOK, history, outcomes, Befalls, Fault
  <2>1. CASE UNCHANGED hit
    BY <2>1
  <2>2. CASE \E k \in Workers, kind \in AllFaults :
               hit' = [hit EXCEPT ![msg[k]] = @ \union {kind}]
    BY <2>2
  <2>3. QED
    BY <2>1, <2>2 DEF Next, vars, AllFaults, WorkerStep, WorkerFault, Quiescent, Enqueue,
       EnqueueFails, Dispatch, MarkProcessed, SkipDuplicate, RefuseOperator, CommitPartial,
       CommitWork, ReplySent, Cleanup, MarkFails, WorkRaises, ReplyFails, CleanupFails, Crash,
       LeaseExpires
<1>3. CASE Abandoned(w)
  BY <1>2, <1>3 DEF Abandoned
<1>4. CASE Kept(w)
  BY <1>1, <1>4, KeptStep
<1>5. QED
  BY <1>3, <1>4 DEF KeptOrAbandoned

\* Whatever happens to the calls about other messages, and whatever failures
\* the calls about it report, a message is dropped only if a call about it
\* dies, outlives its deadline or fails to clean up: no fault of one message
\* costs another one.
THEOREM OnlyOwnFaults == Spec => []OnlyOwnLoss
<1>1. Init => KeptOrAbandoned
  BY LossInit DEF KeptOrAbandoned
<1>2. TypeOK /\ KeptOrAbandoned => OnlyOwnLoss
  BY DEF TypeOK, KeptOrAbandoned, Kept, Retained, OnlyOwnLoss, Drained
<1>3. QED
  BY <1>1, <1>2, TypeInit, TypeStep, LossInit, RepliesStep, KeptOrAbandonedStep, PTL DEF Spec

Lost == {w \in Wamids : ~Kept(w)}

\* One call disappears in a step, and that is a fault.
LEMMA OneDisappears ==
    ASSUME TypeOK, NEW j \in Workers, NEW k \in Workers, Disappears(j), Disappears(k)
    PROVE  j = k /\ faults' = faults + 1
  BY DEF Disappears, CleanupFails, Crash, LeaseExpires, RespondError, Release, Befalls, Fault,
         TypeOK

\* The faults are never taken back.
LEMMA FaultsGrow == ASSUME TypeOK, [Next]_vars PROVE faults' = faults \/ faults' = faults + 1
  BY DEF vars, history, outcomes, Befalls, Fault, Next, WorkerStep, WorkerFault,
         Enqueue, EnqueueFails, Dispatch,
         MarkProcessed, SkipDuplicate, RefuseOperator, CommitPartial, CommitWork, ReplySent,
         Cleanup, MarkFails, WorkRaises, ReplyFails, CleanupFails, Crash, LeaseExpires, Quiescent

\* Every message that is dropped has a fault of its own.
LossesExplained == Cardinality({w \in Wamids : Dropped(w)}) <= faults

\* With every kind of fault there is (a crash or a deadline at any stage, a
\* clean-up that fails), the messages that are dropped are at most as many as
\* the faults: none of them costs two messages.
THEOREM LossesAreExplained == Spec => []LossesExplained
<1> DEFINE Counted == IsFiniteSet(Lost) /\ Cardinality(Lost) <= faults
<1>1. Init => Counted
  <2>1. Init => Lost = {}
    BY LossInit DEF Lost
  <2>2. QED
    BY <2>1, FS_EmptySet DEF Init
<1>2. TypeOK /\ RepliesSettled /\ Counted /\ [Next]_vars => Counted'
  <2> SUFFICES ASSUME TypeOK, RepliesSettled, Counted, [Next]_vars PROVE Counted'
    OBVIOUS
  <2>1. \A w \in Lost' \ Lost : \E k \in Workers : Disappears(k) /\ msg[k] = w
    BY KeptStep DEF Lost
  <2>2. faults \in Nat /\ Cardinality(Lost) \in Nat
    BY FS_CardinalityType DEF TypeOK
  <2>3. CASE Lost' \subseteq Lost
    <3>1. IsFiniteSet(Lost') /\ Cardinality(Lost') <= Cardinality(Lost)
      BY <2>3, FS_Subset
    <3>2. Cardinality(Lost') \in Nat
      BY <3>1, FS_CardinalityType
    <3>3. QED
      BY <2>2, <3>1, <3>2, FaultsGrow
  <2>4. CASE ~(Lost' \subseteq Lost)
    <3>1. PICK k \in Workers : Disappears(k)
      BY <2>1, <2>4
    <3>2. \A w \in Lost' \ Lost : w = msg[k]
      BY <2>1, <3>1, OneDisappears
    <3>3. Lost' \subseteq Lost \union {msg[k]}
      BY <3>2
    <3>4. /\ IsFiniteSet(Lost \union {msg[k]})
          /\ Cardinality(Lost \union {msg[k]}) <= Cardinality(Lost) + 1
      <4>1. /\ IsFiniteSet(Lost \union {msg[k]})
            /\ Cardinality(Lost \union {msg[k]})
                 = IF msg[k] \in Lost THEN Cardinality(Lost) ELSE Cardinality(Lost) + 1
        BY FS_AddElement, Zenon
      <4>2. QED
        BY <2>2, <4>1
    <3>5. IsFiniteSet(Lost') /\ Cardinality(Lost') <= Cardinality(Lost \union {msg[k]})
      BY <3>3, <3>4, FS_Subset
    <3>6. Cardinality(Lost') \in Nat /\ Cardinality(Lost \union {msg[k]}) \in Nat
      BY <3>4, <3>5, FS_CardinalityType
    <3>7. faults' = faults + 1
      BY <3>1, OneDisappears
    <3>8. QED
      BY <2>2, <3>4, <3>5, <3>6, <3>7
  <2>5. QED
    BY <2>3, <2>4
<1>3. TypeOK /\ Counted => LossesExplained
  <2> SUFFICES ASSUME TypeOK, Counted PROVE LossesExplained
    OBVIOUS
  <2>1. {w \in Wamids : Dropped(w)} \subseteq Lost
    BY KeptIsNotDropped DEF Lost
  <2>2. PICK D : D = {w \in Wamids : Dropped(w)}
    OBVIOUS
  <2>3. IsFiniteSet(D) /\ Cardinality(D) <= Cardinality(Lost)
    BY <2>1, <2>2, FS_Subset
  <2>4. Cardinality(D) \in Nat /\ Cardinality(Lost) \in Nat /\ faults \in Nat
    BY <2>3, FS_CardinalityType DEF TypeOK
  <2>5. QED
    BY <2>2, <2>3, <2>4 DEF LossesExplained
<1>4. QED
  BY <1>1, <1>2, <1>3, TypeInit, TypeStep, LossInit, RepliesStep, PTL DEF Spec

=============================================================================
