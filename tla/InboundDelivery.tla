--------------------------- MODULE InboundDelivery ---------------------------
(***************************************************************************)
(* The life of one inbound WhatsApp message between the webhook and the    *)
(* worker: the webhook turns each event into a Cloud Tasks task, a task is *)
(* an HTTP call of /tasks/process-message, and the call marks the message  *)
(* as processed, runs the business handling, sends the reply, and takes    *)
(* the mark away again when the handling or the reply fails, so that the   *)
(* queue's next attempt is not skipped as a duplicate.                     *)
(*                                                                         *)
(* The business handling is one opaque "work" stage here, that may commit  *)
(* in the middle (as the planner and the generation do) and at its end.    *)
(* Meta and Cloud Tasks are modelled from how the code uses them: both     *)
(* deliver at least once, and a call without a 2xx answer is tried again.  *)
(***************************************************************************)
EXTENDS Naturals, FiniteSets

CONSTANTS
    Wamids,      \* WhatsApp message ids
    Workers,     \* concurrent calls of the worker endpoint
    NoMsg,       \* the message of an idle worker
    FaultKinds,  \* which faults may happen, a subset of AllFaults
    MaxFaults,   \* bound: how many of them in one behaviour
    MaxPosts     \* bound: webhook POSTs that carry one message

AllFaults == {"enqueue", "mark", "raise", "send", "cleanup", "crash", "expire"}

ASSUME NoMsgAssumption == NoMsg \notin Wamids
ASSUME BoundsAssumption == MaxFaults \in Nat /\ MaxPosts \in Nat
ASSUME FaultsAssumption == FaultKinds \subseteq AllFaults
ASSUME WorkersAssumption == IsFiniteSet(Workers)

VARIABLES
    posts,      \* webhook POSTs seen, per message
    accepted,   \* messages some webhook POST has enqueued
    pending,    \* tasks waiting in the queue, per message
    marks,      \* rows of processed_inbound_message
    msg,        \* the message a worker call is about
    stage,      \* where a worker call is
    leased,     \* whether the queue still waits for the call's answer
    durable,    \* whether the call has committed business writes
    faults      \* faults so far

\* Observations, written by the actions and read only by the properties.
VARIABLES
    effects,    \* calls that committed business writes, per message
    failures,   \* calls that took the mark away, per message
    finished,   \* messages whose business handling committed to its end
    refused,    \* messages the worker dropped: operator unknown or inactive
    hit         \* the faults of calls about a message that no clean-up followed,
                \* or whose clean-up took a mark the call did not commit

outcomes == <<effects, failures, finished, refused>>
history == <<outcomes, hit>>
vars == <<posts, accepted, pending, marks, msg, stage, leased, durable, faults, history>>

\* "mark": before mark_processed; "work": the mark is committed and the
\* handling runs; "send": the handling committed, the reply is on its way;
\* "cleanup": an exception reached process_and_maybe_send_reply.
Stages == {"idle", "mark", "work", "send", "cleanup"}

TypeOK ==
    /\ posts \in [Wamids -> 0..MaxPosts]
    /\ accepted \subseteq Wamids
    /\ pending \in [Wamids -> Nat]
    /\ marks \subseteq Wamids
    /\ msg \in [Workers -> Wamids \union {NoMsg}]
    /\ stage \in [Workers -> Stages]
    /\ leased \in [Workers -> BOOLEAN]
    /\ durable \in [Workers -> BOOLEAN]
    /\ \A k \in Workers : msg[k] = NoMsg <=> stage[k] = "idle"
    /\ faults \in 0..MaxFaults
    /\ effects \in [Wamids -> Nat]
    /\ failures \in [Wamids -> Nat]
    /\ finished \subseteq Wamids
    /\ refused \subseteq Wamids
    /\ hit \in [Wamids -> SUBSET {"mark", "cleanup", "crash", "expire"}]

Init ==
    /\ posts = [w \in Wamids |-> 0]
    /\ accepted = {}
    /\ pending = [w \in Wamids |-> 0]
    /\ marks = {}
    /\ msg = [k \in Workers |-> NoMsg]
    /\ stage = [k \in Workers |-> "idle"]
    /\ leased = [k \in Workers |-> FALSE]
    /\ durable = [k \in Workers |-> FALSE]
    /\ faults = 0
    /\ effects = [w \in Wamids |-> 0]
    /\ failures = [w \in Wamids |-> 0]
    /\ finished = {}
    /\ refused = {}
    /\ hit = [w \in Wamids |-> {}]

-----------------------------------------------------------------------------
\* Helpers

Fault(kind) ==
    /\ kind \in FaultKinds
    /\ faults < MaxFaults
    /\ faults' = faults + 1

\* A fault of the worker's call k that its clean-up does not make up for.
Befalls(kind, k) ==
    /\ Fault(kind)
    /\ hit' = [hit EXCEPT ![msg[k]] = @ \union {kind}]

\* The call moves to its next stage and keeps everything else.
GoTo(k, next) ==
    /\ stage' = [stage EXCEPT ![k] = next]
    /\ UNCHANGED <<msg, leased>>

\* Mutant: the call's slot is freed and its message stays in it.
ReleaseKeepsMsg(k) ==
    /\ stage' = [stage EXCEPT ![k] = "idle"]
    /\ leased' = [leased EXCEPT ![k] = FALSE]
    /\ durable' = [durable EXCEPT ![k] = FALSE]
    /\ UNCHANGED msg

\* The call is over.
Release(k) ==
    /\ msg' = [msg EXCEPT ![k] = NoMsg]
    /\ stage' = [stage EXCEPT ![k] = "idle"]
    /\ leased' = [leased EXCEPT ![k] = FALSE]
    /\ durable' = [durable EXCEPT ![k] = FALSE]

\* A 2xx answer ends the task; an answer nobody waits for changes nothing.
RespondOk(k) ==
    /\ Release(k)
    /\ UNCHANGED pending

\* Any other answer, or none, makes the queue try the task again.
RespondError(k) ==
    /\ Release(k)
    /\ pending' = [pending EXCEPT ![msg[k]] = IF leased[k] THEN @ + 1 ELSE @]

-----------------------------------------------------------------------------
\* Webhook

\* Meta posts an event of an active operator, for the first time or again,
\* and the webhook creates a task for it: tasks are not named, so each POST
\* makes a task of its own.
Enqueue(w) ==
    /\ posts[w] < MaxPosts
    /\ posts' = [posts EXCEPT ![w] = @ + 1]
    /\ accepted' = accepted \union {w}
    /\ pending' = [pending EXCEPT ![w] = @ + 1]
    /\ UNCHANGED <<marks, msg, stage, leased, durable, faults, history>>

\* create_task raises, with or without a task made of it: the webhook
\* answers 500 and Meta will post again.
EnqueueFails(w) ==
    /\ posts[w] < MaxPosts - 1
    /\ Fault("enqueue")
    /\ posts' = [posts EXCEPT ![w] = @ + 1]
    /\ \E made \in 0..1 : pending' = [pending EXCEPT ![w] = @ + made]
    /\ UNCHANGED <<accepted, marks, msg, stage, leased, durable, history>>

-----------------------------------------------------------------------------
\* Cloud Tasks

Dispatch(k, w) ==
    /\ stage[k] = "idle"
    /\ pending[w] > 0
    /\ pending' = [pending EXCEPT ![w] = @ - 1]
    /\ msg' = [msg EXCEPT ![k] = w]
    /\ stage' = [stage EXCEPT ![k] = "mark"]
    /\ leased' = [leased EXCEPT ![k] = TRUE]
    /\ UNCHANGED <<posts, accepted, marks, durable, faults, history>>

\* The dispatch deadline passes while the call still runs: the queue tries
\* the task again and will ignore this call's answer.
LeaseExpires(k) ==
    /\ stage[k] # "idle"
    /\ leased[k]
    /\ Befalls("expire", k)
    /\ leased' = [leased EXCEPT ![k] = FALSE]
    /\ pending' = [pending EXCEPT ![msg[k]] = @ + 1]
    /\ UNCHANGED <<posts, accepted, marks, msg, stage, durable, outcomes>>

-----------------------------------------------------------------------------
\* Worker

\* Mutant: the table has no unique constraint on the wamid.
MarkProcessedTwice(k) ==
    /\ stage[k] = "mark"
    /\ marks' = marks \union {msg[k]}
    /\ GoTo(k, "work")
    /\ UNCHANGED <<posts, accepted, pending, durable, faults, history>>

\* Mutant: the mark is added to the session and not committed.
MarkUncommitted(k) ==
    /\ stage[k] = "mark"
    /\ msg[k] \notin marks
    /\ GoTo(k, "work")
    /\ UNCHANGED <<posts, accepted, pending, marks, durable, faults, history>>

\* The unique wamid makes one insert win; it is committed at once, before
\* any handling.
MarkProcessed(k) ==
    /\ stage[k] = "mark"
    /\ msg[k] \notin marks
    /\ marks' = marks \union {msg[k]}
    /\ GoTo(k, "work")
    /\ UNCHANGED <<posts, accepted, pending, durable, faults, history>>

\* Mutant: the IntegrityError of a duplicate is not caught.
SkipDuplicateRaises(k) ==
    /\ stage[k] = "mark"
    /\ msg[k] \in marks
    /\ GoTo(k, "cleanup")
    /\ UNCHANGED <<posts, accepted, pending, marks, durable, faults, history>>

SkipDuplicate(k) ==
    /\ stage[k] = "mark"
    /\ msg[k] \in marks
    /\ RespondOk(k)
    /\ UNCHANGED <<posts, accepted, marks, faults, history>>

\* The insert fails with something else than IntegrityError.
MarkFails(k) ==
    /\ stage[k] = "mark"
    /\ Befalls("mark", k)
    /\ GoTo(k, "cleanup")
    /\ UNCHANGED <<posts, accepted, pending, marks, durable, outcomes>>

RefuseOperator(k) ==
    /\ stage[k] = "work"
    /\ ~durable[k]
    /\ refused' = refused \union {msg[k]}
    /\ RespondOk(k)
    /\ UNCHANGED <<posts, accepted, marks, faults, effects, failures, finished, hit>>

CountEffect(k) ==
    effects' = [effects EXCEPT ![msg[k]] = IF durable[k] THEN @ ELSE @ + 1]

\* The first session.commit() in the middle of the handling: before the
\* planner's LLM call or before the generation's poll.
CommitPartial(k) ==
    /\ stage[k] = "work"
    /\ ~durable[k]
    /\ CountEffect(k)
    /\ durable' = [durable EXCEPT ![k] = TRUE]
    /\ GoTo(k, "work")
    /\ UNCHANGED <<posts, accepted, pending, marks, faults, failures, finished, refused, hit>>

\* session_scope commits what the handling wrote.
CommitWork(k) ==
    /\ stage[k] = "work"
    /\ CountEffect(k)
    /\ finished' = finished \union {msg[k]}
    /\ durable' = [durable EXCEPT ![k] = TRUE]
    /\ GoTo(k, "send")
    /\ UNCHANGED <<posts, accepted, pending, marks, faults, failures, refused, hit>>

WorkRaises(k) ==
    /\ stage[k] = "work"
    /\ Fault("raise")
    /\ GoTo(k, "cleanup")
    /\ UNCHANGED <<posts, accepted, pending, marks, durable, history>>

\* WhatsApp took all parts of the reply (images, text, buttons), or the
\* result had none.
ReplySent(k) ==
    /\ stage[k] = "send"
    /\ RespondOk(k)
    /\ UNCHANGED <<posts, accepted, marks, faults, history>>

ReplyFails(k) ==
    /\ stage[k] = "send"
    /\ Fault("send")
    /\ GoTo(k, "cleanup")
    /\ UNCHANGED <<posts, accepted, pending, marks, durable, history>>

\* Mutant: the mark is not deleted after a failure.
CleanupKeepsMark(k) ==
    /\ stage[k] = "cleanup"
    /\ failures' = [failures EXCEPT ![msg[k]] = @ + 1]
    /\ RespondError(k)
    /\ UNCHANGED <<posts, accepted, marks, faults, effects, finished, refused, hit>>

\* The except branches: delete_by_wamid in a session of its own, then raise.
Cleanup(k) ==
    /\ stage[k] = "cleanup"
    /\ marks' = marks \ {msg[k]}
    /\ failures' = [failures EXCEPT ![msg[k]] = @ + 1]
    /\ RespondError(k)
    /\ UNCHANGED <<posts, accepted, faults, effects, finished, refused, hit>>

\* The cleanup session itself fails: the mark stays.
CleanupFails(k) ==
    /\ stage[k] = "cleanup"
    /\ Befalls("cleanup", k)
    /\ RespondError(k)
    /\ UNCHANGED <<posts, accepted, marks, outcomes>>

\* The instance dies: nothing that was not committed remains.
Crash(k) ==
    /\ stage[k] # "idle"
    /\ Befalls("crash", k)
    /\ RespondError(k)
    /\ UNCHANGED <<posts, accepted, marks, outcomes>>

-----------------------------------------------------------------------------
WorkerStep(k) ==
    \/ MarkProcessed(k) \/ SkipDuplicate(k) \/ RefuseOperator(k)
    \/ CommitPartial(k) \/ CommitWork(k) \/ ReplySent(k) \/ Cleanup(k)

WorkerFault(k) ==
    \/ MarkFails(k) \/ WorkRaises(k) \/ ReplyFails(k) \/ CleanupFails(k)
    \/ Crash(k) \/ LeaseExpires(k)

\* Everything is delivered, nothing can happen any more.
Quiescent ==
    /\ \A w \in Wamids : posts[w] = MaxPosts /\ pending[w] = 0
    /\ \A k \in Workers : stage[k] = "idle"
    /\ UNCHANGED vars

Next ==
    \/ \E w \in Wamids : Enqueue(w) \/ EnqueueFails(w)
    \/ \E k \in Workers, w \in Wamids : Dispatch(k, w)
    \/ \E k \in Workers : WorkerStep(k) \/ WorkerFault(k)
    \/ Quiescent

Spec == Init /\ [][Next]_vars

\* What ends a call's stage, faults aside.
WorkerProgress(k) ==
    \/ MarkProcessed(k) \/ SkipDuplicate(k) \/ RefuseOperator(k)
    \/ CommitWork(k) \/ ReplySent(k) \/ Cleanup(k)

\* Cloud Tasks dispatches a waiting task to a free worker, a call that does
\* not fail goes on, and Meta posts an event until a POST is accepted.
Fairness ==
    /\ \A w \in Wamids : WF_vars(w \notin accepted /\ Enqueue(w))
    /\ \A w \in Wamids : WF_vars(\E k \in Workers : Dispatch(k, w))
    /\ \A k \in Workers : WF_vars(WorkerProgress(k))

FairSpec == Spec /\ Fairness

-----------------------------------------------------------------------------
\* Properties

\* A call that passed its own insert of the mark and did not answer yet.
Handling(k) == stage[k] \in {"work", "send"}

\* The call, or its clean-up, still has to decide about the mark.
Holding(k) == stage[k] \in {"work", "send", "cleanup"}

Settled(w) == w \in finished \/ w \in refused

\* A call about w failed at its insert: its clean-up deletes the mark of w,
\* whoever committed it, so the mark keeps nobody out any more.
Robbed(w) == "mark" \in hit[w]

\* What lets a call end without taking its mark away, or lets the queue
\* forget a call whose failure it would have to make up for.
LossFaults == {"cleanup", "crash", "expire"}

\* A call about w died, outlived its deadline or failed to clean up.
Abandoned(w) == hit[w] \intersect LossFaults # {}

\* Nothing is left to be done about w.
Drained(w) == pending[w] = 0 /\ \A k \in Workers : msg[k] # w

\* Deduplication by wamid (repositories.py, mark_processed): two calls never
\* handle the same message at the same time, whatever the webhook and the
\* queue duplicate, unless the insert itself failed in a call about it.
NoConcurrentHandling ==
    \A k1, k2 \in Workers :
        Handling(k1) /\ Handling(k2) /\ msg[k1] = msg[k2] => k1 = k2 \/ Robbed(msg[k1])

\* Every execution of a message after the first one was preceded by a
\* failure that gave the mark back: the copies made by the webhook, the
\* queue, crashes and expired leases never execute it again.
EffectsExplained ==
    \A w \in Wamids : effects[w] <= failures[w] + 1

\* An accepted message whose tasks are all answered was handled to its end
\* or refused: the dedupe mark of a failed call never makes the queue's next
\* attempt a no-op.
NoSilentLoss ==
    \A w \in accepted : Drained(w) => Settled(w)

\* Only a call about the message itself can lose it (main.py, the clean-up of
\* the worker endpoint): one that dies, outlives its deadline or fails to
\* clean up. Failures of the webhook, the insert, the handling and the reply
\* are made up for by the queue, and so is every fault of another message.
OnlyOwnLoss ==
    \A w \in accepted : Drained(w) => Settled(w) \/ Abandoned(w)

\* Business writes are committed only by a call whose message is marked
\* when it commits, unless the insert itself failed in a call about it.
EffectUnderMark ==
    [][\A w \in Wamids : effects'[w] # effects[w] =>
          /\ w \in marks \/ Robbed(w)
          /\ \E k \in Workers : msg[k] = w /\ stage[k] = "work"]_vars

\* Every accepted message is eventually handled to its end or refused,
\* unless a call about it is abandoned.
EventuallySettled ==
    \A w \in Wamids : (w \in accepted) ~> (Settled(w) \/ Abandoned(w))

-----------------------------------------------------------------------------
\* Refinement

\* A message is open while its mark is absent, handled while the call that
\* holds the mark is alive, and closed after that. An insert that failed by
\* itself voids the gate for its message.
GatePhase ==
    [w \in Wamids |->
        IF Robbed(w) THEN "void"
        ELSE IF w \notin marks THEN "open"
        ELSE IF \E k \in Workers : msg[k] = w /\ Holding(k)
        THEN "handling" ELSE "closed"]

Gate == INSTANCE DedupeGate WITH phase <- GatePhase

\* The marks, with the failures that delete them, implement the gate: a
\* closed message is never reopened and no second call claims an open one
\* while it is handled.
ImplementsGate == Gate!Spec

=============================================================================
