---------------------------- MODULE InlineIngress ----------------------------
(***************************************************************************)
(* The webhook with either queue. In "cloud" mode an event becomes a task  *)
(* of Cloud Tasks (WebhookIngress). In "inline" mode, the default, there   *)
(* is no queue: the request handles the event itself, in the middle of its *)
(* own transaction, with the same mark, work and clean-up as a worker call *)
(* and with transactions of their own. The database is then SQLite, with   *)
(* one writer at a time; an asyncio lock keeps the work of two requests    *)
(* apart, but neither their audit rows nor their clean-up.                 *)
(*                                                                         *)
(* An INSERT waits for the writer up to the busy timeout and fails after   *)
(* that. The asyncio lock has no timeout. The one process that runs inline *)
(* does not stop here; InboundDelivery has crashes.                        *)
(***************************************************************************)
EXTENDS WebhookIngress

CONSTANTS
    Nobody,
    Modes,          \* which of "cloud" and "inline" to look at
    MaxInlinePosts  \* bound: POSTs of one batch in "inline" mode

ASSUME InlineBoundAssumption == MaxInlinePosts \in 0..MaxPosts

ASSUME ModesAssumption == Modes \subseteq {"cloud", "inline"}

VARIABLES
    mode,           \* tasks_mode
    lock,           \* who has sqlite_inline_processing_lock
    writer,         \* whose transaction has written and not ended: Processing,
                    \* which has the lock, or a request with audit rows
    marks,          \* rows of processed_inbound_message
    skipped         \* messages that were skipped as duplicates before they
                    \* were handled

Processing == "processing"

ASSUME NobodyAssumption == Processing \notin Requests /\ Nobody \notin Requests \union {Processing}

inline == <<lock, writer, marks, skipped>>
allvars == <<vars, mode, inline>>

\* The asyncio lock is held in the stages between it and the reply, and a
\* transaction of the processing only under it.
InlineTypeOK ==
    /\ TypeOK
    /\ mode \in Modes
    /\ \A r \in Requests : lock = r <=> req[r].pc \in {"mark", "work", "write"}
    /\ lock \in Requests \union {Nobody}
    /\ writer \in Requests \union {Nobody, Processing}
    /\ writer = Processing <=> \E r \in Requests : req[r].pc = "write"
    /\ marks \subseteq Wamids /\ skipped \subseteq Wamids

ModesInit ==
    /\ Init
    /\ mode \in Modes
    /\ lock = Nobody /\ writer = Nobody /\ marks = {} /\ skipped = {}

-----------------------------------------------------------------------------
\* Audit rows of the request

\* The request's own transaction may write, or has written already.
MayLog(r) == writer \in {Nobody, r}

\* The row stays uncommitted until the end of the request.
LogAudit(r) ==
    /\ MayLog(r)
    /\ RejectReplay(r) \/ RejectionSent(r) \/ RejectionFails(r)
    /\ writer' = r
    /\ UNCHANGED <<lock, marks, skipped>>

\* The writer does not end in time: the request fails, after it tried to send
\* the rejection.
LogLocked(r) ==
    /\ ~MayLog(r)
    /\ \/ AtEvent(r) /\ ~WithinReplayWindow(r, Event(r)) /\ UNCHANGED notices
       \/ /\ req[r].pc = "reject"
          /\ notices' \in {notices, Append(notices, [phone |-> Event(r).phone, at |-> now])}
    /\ failures' = failures + 1
    /\ Leave(r)
    /\ UNCHANGED <<now, posts, acked, audit, tasks, late, inline>>

EndInline(r) ==
    /\ Answer(r) \/ CommitFails(r) \/ AnswerLost(r)
    /\ writer' = IF writer = r THEN Nobody ELSE writer
    /\ UNCHANGED <<lock, marks, skipped>>

-----------------------------------------------------------------------------
\* The event of an operator

Message(r) == Event(r).wamid

Stage(r, pc) == req' = [req EXCEPT ![r].pc = pc]
Still == UNCHANGED <<now, posts, acked, audit, notices, late>>

ProcessInline(r) ==
    /\ AtEvent(r)
    /\ WithinReplayWindow(r, Event(r))
    /\ Event(r).phone \in Operators
    /\ Stage(r, "lock")
    /\ Still /\ UNCHANGED <<tasks, failures, inline>>

TakeLock(r) ==
    /\ req[r].pc = "lock"
    /\ lock = Nobody
    /\ lock' = r
    /\ Stage(r, "mark")
    /\ Still /\ UNCHANGED <<tasks, failures, writer, marks, skipped>>

\* Mutant: a duplicate waits until the mark is gone.
MarkInlineWaits(r) ==
    /\ req[r].pc = "mark"
    /\ writer = Nobody
    /\ IF Message(r) \in marks
       THEN lock' = Nobody /\ Stage(r, "event")
       ELSE lock' = lock /\ Stage(r, "work")
    /\ marks' = marks \union {Message(r)}
    /\ Still /\ UNCHANGED <<tasks, failures, writer, skipped>>

\* The mark is committed at once; a duplicate is skipped.
MarkInline(r) ==
    /\ req[r].pc = "mark"
    /\ writer = Nobody
    /\ IF Message(r) \in marks
       THEN /\ lock' = Nobody
            /\ Advance(r, {})
            /\ skipped' = skipped \union ({Message(r)} \ tasks)
       ELSE /\ Stage(r, "work")
            /\ UNCHANGED <<lock, skipped>>
    /\ marks' = marks \union {Message(r)}
    /\ Still /\ UNCHANGED <<tasks, failures, writer>>

\* The first write of the work, whose transaction spans calls of the LLM.
WriteInline(r) ==
    /\ req[r].pc = "work"
    /\ writer = Nobody
    /\ writer' = Processing
    /\ Stage(r, "write")
    /\ Still /\ UNCHANGED <<tasks, failures, lock, marks, skipped>>

\* The work is committed and the reply is sent, after the lock is released.
FinishInline(r) ==
    /\ req[r].pc = "write"
    /\ tasks' = tasks \union {Message(r)}
    /\ lock' = Nobody /\ writer' = Nobody
    /\ Advance(r, {})
    /\ Still /\ UNCHANGED <<failures, marks, skipped>>

\* "database is locked": the insert of the mark, or a write of the work.
WorkLocked(r) ==
    /\ req[r].pc \in {"mark", "work"}
    /\ writer # Nobody
    /\ failures' = failures + 1
    /\ lock' = Nobody
    /\ Stage(r, "cleanup")
    /\ Still /\ UNCHANGED <<tasks, writer, marks, skipped>>

\* The work raises, or the reply after it.
WorkRaises(r) ==
    /\ req[r].pc \in {"work", "write"}
    /\ Fault
    /\ tasks' \in {tasks} \union
                  IF req[r].pc = "write" THEN {tasks \union {Message(r)}} ELSE {}
    /\ lock' = Nobody
    /\ writer' = IF req[r].pc = "write" THEN Nobody ELSE writer
    /\ Stage(r, "cleanup")
    /\ Still /\ UNCHANGED <<marks, skipped>>

\* The clean-up has neither the asyncio lock nor the transaction of the
\* request. The answer is 500 either way.
CleanupInline(r) ==
    /\ req[r].pc = "cleanup"
    /\ writer = Nobody
    /\ marks' = marks \ {Message(r)}
    /\ Leave(r)
    /\ Still /\ UNCHANGED <<tasks, failures, lock, writer, skipped>>

CleanupLocked(r) ==
    /\ req[r].pc = "cleanup"
    /\ writer # Nobody
    /\ failures' = failures + 1
    /\ writer' = IF writer = r THEN Nobody ELSE writer
    /\ Leave(r)
    /\ Still /\ UNCHANGED <<tasks, lock, marks, skipped>>

-----------------------------------------------------------------------------
InlineProgress(r) ==
    \/ LogAudit(r) \/ LogLocked(r)
    \/ EndInline(r)
    \/ Unauthorized(r) /\ UNCHANGED inline
    \/ ProcessInline(r) \/ TakeLock(r) \/ MarkInline(r) \/ WriteInline(r) \/ FinishInline(r)
    \/ WorkLocked(r) \/ CleanupInline(r) \/ CleanupLocked(r)

InlinePost(r, b) ==
    /\ posts[b] < MaxInlinePosts
    /\ Post(r, b)
    /\ UNCHANGED inline

InlineRest ==
    /\ now = MaxTime
    /\ \A r \in Requests : req[r].pc = "idle"
    /\ \A b \in Batches \ acked : posts[b] = MaxInlinePosts
    /\ UNCHANGED allvars

InlineNext ==
    \/ Tick /\ UNCHANGED inline
    \/ \E r \in Requests :
          \/ \E b \in Batches : InlinePost(r, b)
          \/ InlineProgress(r)
          \/ WorkRaises(r)
    \/ InlineRest

ModesNext ==
    /\ UNCHANGED mode
    /\ \/ mode = "cloud" /\ Next /\ UNCHANGED inline
       \/ mode = "inline" /\ InlineNext

Spec == ModesInit /\ [][ModesNext]_allvars

\* Time passes, a request goes on unless it fails (an insert that waits for
\* the database fails at the busy timeout), and Meta posts a batch again until
\* it is acknowledged. MaxPosts must exceed MaxFailures plus the number of
\* requests, or the bound stops Meta first.
Fairness ==
    /\ WF_allvars(Tick /\ UNCHANGED <<mode, inline>>)
    /\ \A r \in Requests :
          /\ WF_allvars(mode = "cloud" /\ Progress(r) /\ UNCHANGED <<mode, inline>>)
          /\ WF_allvars(mode = "inline" /\ InlineProgress(r) /\ UNCHANGED mode)
    /\ \A b \in Batches :
          WF_allvars(mode = "cloud" /\ (\E r \in Requests : Post(r, b)) /\ UNCHANGED <<mode, inline>>)

FairSpec == Spec /\ Fairness

-----------------------------------------------------------------------------
\* Properties

\* A batch that was acknowledged is dealt with, event by event, whatever
\* failed on the way: each event of an operator became a task or was handled,
\* unless it was found too old. The exception is inline: a request skipped
\* the message as a duplicate before it was handled. Either an earlier POST
\* was still working on it, and failed after that, or its mark was left
\* behind by a clean-up that found the database locked.
AckedIsHandled == Missed \subseteq skipped

\* Nothing in a batch (an old event, a stranger, a failure) makes Meta
\* deliver it for ever. Inline a batch that locks itself out ends with its
\* age, later than the bound on POSTs.
EventuallyAcked == \A b \in Batches : (mode = "cloud" /\ posts[b] > 0) ~> (b \in acked)

\* Inline, requests wait for each other in circles (one has audit rows and
\* wants the asyncio lock, whose holder wants the database) and for
\* themselves, yet each of them ends: with an answer, or with the error that
\* the busy timeout makes of the wait.
RequestsEnd ==
    \A r \in Requests : (mode = "inline" /\ req[r].pc # "idle") ~> (req[r].pc = "idle")

=============================================================================
