---------------------------- MODULE WebhookIngress ----------------------------
(***************************************************************************)
(* The webhook (receive_webhook): a POST carries a batch of events, which  *)
(* one request goes through in order. An event outside the replay window   *)
(* is dropped, one of an unknown phone is answered with a rejection at     *)
(* most once per window, any other becomes a task. The audit rows that     *)
(* remember the rejections belong to the request's transaction and are     *)
(* committed at its end; an enqueue that raises rolls them back, answers   *)
(* 500, and Meta posts the whole batch again.                              *)
(*                                                                         *)
(* Requests overlap: every lookup, send and enqueue is an await. Times are *)
(* small integers, in one unit for both windows. Meta, WhatsApp and Cloud  *)
(* Tasks are modelled from how the code uses them. Signatures are taken as *)
(* valid: a POST with another one is refused before anything is read.      *)
(***************************************************************************)
EXTENDS Naturals, Sequences, FiniteSets

CONSTANTS
    Requests,         \* concurrent webhook requests
    Batches,          \* payloads Meta posts
    EventsOf,         \* the events of a batch: [wamid, phone, sent]
    NoTime,           \* the timestamp of an event that has none
    Operators,        \* phones of active operators
    ReplayWindow,
    RejectionWindow,
    MaxTime,          \* bound on the clock
    MaxPosts,         \* bound: POSTs of one batch
    MaxFailures       \* bound: enqueues, sends, requests or answers that fail by themselves

Events == UNION {{EventsOf[b][i] : i \in DOMAIN EventsOf[b]} : b \in Batches}
Wamids == {e.wamid : e \in Events}
Phones == {e.phone : e \in Events}

ASSUME WindowsAssumption == ReplayWindow \in Nat /\ RejectionWindow \in Nat
ASSUME BoundsAssumption ==
    MaxTime \in Nat /\ MaxPosts \in Nat /\ MaxFailures \in Nat
ASSUME NoTimeAssumption == NoTime \notin Nat
ASSUME RequestsAssumption == IsFiniteSet(Requests)
ASSUME EventsAssumption ==
    Batches # {} /\ \A b \in Batches : EventsOf[b] \in Seq(Events)

VARIABLES
    now,        \* the clock
    posts,      \* POSTs of a batch so far
    acked,      \* batches Meta got a 200 for
    req,        \* what each request does
    audit,      \* committed unauthorized_rejection_sent rows
    tasks,      \* messages that were given to the queue
    notices,    \* rejections the operators' phones received, in order
    late,       \* messages dropped for their age
    failures    \* failures so far

vars == <<now, posts, acked, req, audit, tasks, notices, late, failures>>

IdleRequest == [pc |-> "idle", batch |-> CHOOSE b \in Batches : TRUE, next |-> 1,
                at |-> 0, rows |-> {}]

Rows == [phone : Phones, at : 0..MaxTime]

\* Between two events, before a rejection is sent; the others are stages of
\* an event that the request processes itself (InlineIngress).
Stages == {"idle", "event", "reject", "lock", "mark", "work", "write", "cleanup"}

TypeOK ==
    /\ now \in 0..MaxTime
    /\ posts \in [Batches -> 0..MaxPosts]
    /\ acked \subseteq Batches
    /\ req \in [Requests -> [pc : Stages, batch : Batches,
                             next : Nat \ {0}, at : 0..MaxTime, rows : SUBSET Rows]]
    /\ \A r \in Requests : req[r].next <= Len(EventsOf[req[r].batch]) + 1
    /\ audit \subseteq Rows
    /\ tasks \subseteq Wamids
    /\ notices \in Seq(Rows)
    /\ late \subseteq Wamids
    /\ failures \in Nat

Init ==
    /\ now = 0
    /\ posts = [b \in Batches |-> 0]
    /\ acked = {}
    /\ req = [r \in Requests |-> IdleRequest]
    /\ audit = {}
    /\ tasks = {}
    /\ notices = <<>>
    /\ late = {}
    /\ failures = 0

-----------------------------------------------------------------------------
\* Helpers

Fault ==
    /\ failures < MaxFailures
    /\ failures' = failures + 1

Event(r) == EventsOf[req[r].batch][req[r].next]

\* The request looks at its next event.
AtEvent(r) ==
    /\ req[r].pc = "event"
    /\ req[r].next <= Len(EventsOf[req[r].batch])

\* Mutant: the loop skips the event after it.
AdvanceTwice(r, rows) ==
    req' = [req EXCEPT ![r].pc = "event", ![r].next = @ + 2, ![r].rows = @ \union rows]

\* It is done with that event, and adds rows to its transaction.
Advance(r, rows) ==
    req' = [req EXCEPT ![r].pc = "event", ![r].next = @ + 1, ![r].rows = @ \union rows]

Leave(r) == req' = [req EXCEPT ![r] = IdleRequest]

\* is_within_replay_window, at the time the request started.
WithinReplayWindow(r, e) ==
    e.sent # NoTime =>
        e.sent <= req[r].at + ReplayWindow /\ req[r].at <= e.sent + ReplayWindow

\* Mutant: rows that the request has not committed are not seen.
MayRejectCommitted(r, e) ==
    ~\E row \in audit : row.phone = e.phone /\ row.at + RejectionWindow >= req[r].at

\* _should_send_unauthorized_rejection: the committed rows and the rows the
\* request has flushed itself, not those of other requests.
MayReject(r, e) ==
    ~\E row \in audit \union req[r].rows :
        row.phone = e.phone /\ row.at + RejectionWindow >= req[r].at

-----------------------------------------------------------------------------
\* Meta

Tick ==
    /\ now < MaxTime
    /\ now' = now + 1
    /\ UNCHANGED <<posts, acked, req, audit, tasks, notices, late, failures>>

\* A batch that was not acknowledged is posted, even while an earlier POST
\* of it is still handled.
Post(r, b) ==
    /\ req[r].pc = "idle"
    /\ b \notin acked
    /\ posts[b] < MaxPosts
    /\ \A i \in DOMAIN EventsOf[b] : EventsOf[b][i].sent \in {NoTime} \union 0..now
    /\ posts' = [posts EXCEPT ![b] = @ + 1]
    /\ req' = [req EXCEPT ![r] = [IdleRequest EXCEPT !.pc = "event", !.batch = b, !.at = now]]
    /\ UNCHANGED <<now, acked, audit, tasks, notices, late, failures>>

-----------------------------------------------------------------------------
\* One event

\* Mutant: an event outside the replay window fails the request.
RejectReplayWithError(r) ==
    /\ AtEvent(r)
    /\ ~WithinReplayWindow(r, Event(r))
    /\ late' = late \union {Event(r).wamid}
    /\ Leave(r)
    /\ UNCHANGED <<now, posts, acked, audit, tasks, notices, failures>>

RejectReplay(r) ==
    /\ AtEvent(r)
    /\ ~WithinReplayWindow(r, Event(r))
    /\ late' = late \union {Event(r).wamid}
    /\ Advance(r, {})
    /\ UNCHANGED <<now, posts, acked, audit, tasks, notices, failures>>

\* The operator is unknown or inactive: a recent rejection silences this
\* one, else it is about to be sent.
Unauthorized(r) ==
    /\ AtEvent(r)
    /\ WithinReplayWindow(r, Event(r))
    /\ Event(r).phone \notin Operators
    /\ IF MayReject(r, Event(r)) THEN req' = [req EXCEPT ![r].pc = "reject"]
                                 ELSE Advance(r, {})
    /\ UNCHANGED <<now, posts, acked, audit, tasks, notices, late, failures>>

RejectionSent(r) ==
    /\ req[r].pc = "reject"
    /\ LET row == [phone |-> Event(r).phone, at |-> now]
       IN  notices' = Append(notices, row) /\ Advance(r, {row})
    /\ UNCHANGED <<now, posts, acked, audit, tasks, late, failures>>

\* send_text raises, though the phone may have got the rejection: only
\* unauthorized_rejection_failed is logged.
RejectionFails(r) ==
    /\ req[r].pc = "reject"
    /\ Fault
    /\ notices' \in {notices, Append(notices, [phone |-> Event(r).phone, at |-> now])}
    /\ Advance(r, {})
    /\ UNCHANGED <<now, posts, acked, audit, tasks, late>>

EnqueueInbound(r) ==
    /\ AtEvent(r)
    /\ WithinReplayWindow(r, Event(r))
    /\ Event(r).phone \in Operators
    /\ tasks' = tasks \union {Event(r).wamid}
    /\ Advance(r, {})
    /\ UNCHANGED <<now, posts, acked, audit, notices, late, failures>>

\* Mutant: the exception is logged and the loop goes on.
EnqueueFailsQuietly(r) ==
    /\ AtEvent(r)
    /\ WithinReplayWindow(r, Event(r))
    /\ Event(r).phone \in Operators
    /\ Fault
    /\ Advance(r, {})
    /\ UNCHANGED <<now, posts, acked, audit, tasks, notices, late>>

\* enqueue_inbound raises, with or without a task made of it: the request's
\* transaction is rolled back.
EnqueueFails(r) ==
    /\ AtEvent(r)
    /\ WithinReplayWindow(r, Event(r))
    /\ Event(r).phone \in Operators
    /\ Fault
    /\ tasks' \in {tasks, tasks \union {Event(r).wamid}}
    /\ Leave(r)
    /\ UNCHANGED <<now, posts, acked, audit, notices, late>>

-----------------------------------------------------------------------------
\* End of a request

Answer(r) ==
    /\ req[r].pc = "event"
    /\ ~AtEvent(r)
    /\ audit' = audit \union req[r].rows
    /\ acked' = acked \union {req[r].batch}
    /\ Leave(r)
    /\ UNCHANGED <<now, posts, tasks, notices, late, failures>>

\* The yield dependency commits after the answer went out, and fails: Meta
\* has its 200, the audit rows are lost.
CommitFails(r) ==
    /\ req[r].pc = "event"
    /\ ~AtEvent(r)
    /\ Fault
    /\ acked' = acked \union {req[r].batch}
    /\ Leave(r)
    /\ UNCHANGED <<now, posts, audit, tasks, notices, late>>

\* The transaction is committed and Meta never sees the answer.
AnswerLost(r) ==
    /\ req[r].pc = "event"
    /\ ~AtEvent(r)
    /\ Fault
    /\ audit' = audit \union req[r].rows
    /\ Leave(r)
    /\ UNCHANGED <<now, posts, acked, tasks, notices, late>>

RequestDies(r) ==
    /\ req[r].pc # "idle"
    /\ Fault
    /\ Leave(r)
    /\ UNCHANGED <<now, posts, acked, audit, tasks, notices, late>>

Progress(r) ==
    \/ RejectReplay(r) \/ Unauthorized(r) \/ RejectionSent(r)
    \/ EnqueueInbound(r) \/ Answer(r)

Failure(r) ==
    \/ RejectionFails(r) \/ EnqueueFails(r) \/ CommitFails(r) \/ AnswerLost(r)
    \/ RequestDies(r)

\* The clock stands at its bound and nothing is being handled.
Rest ==
    /\ now = MaxTime
    /\ \A r \in Requests : req[r].pc = "idle"
    /\ \A b \in Batches \ acked : posts[b] = MaxPosts
    /\ UNCHANGED vars

Next ==
    \/ Tick
    \/ \E r \in Requests :
          \/ \E b \in Batches : Post(r, b)
          \/ Progress(r) \/ Failure(r)
    \/ Rest

-----------------------------------------------------------------------------
\* Properties

\* Events of operators in acknowledged batches that neither became a task (or
\* were handled inline) nor were found too old.
Missed ==
    {e.wamid : e \in {x \in Events : /\ x.phone \in Operators
                                     /\ x.wamid \notin tasks \union late
                                     /\ \E b \in acked : \E i \in DOMAIN EventsOf[b] :
                                           EventsOf[b][i] = x}}

\* What the lookup of an earlier rejection keeps of "one rejection message
\* per window" when requests overlap or fail: a window sees no more of them
\* than there are concurrent requests and rolled back audit rows, however
\* many messages the phone sends, in one batch or in several.
RejectionsBounded ==
    \A p \in Phones, t \in 0..MaxTime :
        Cardinality({i \in DOMAIN notices :
                        notices[i].phone = p /\ notices[i].at \in t..(t + RejectionWindow)})
            <= Cardinality(Requests) + failures

=============================================================================
