---------------------------- MODULE IngressProofs ----------------------------
(***************************************************************************)
(* Proofs about the webhook in both modes (InlineIngress, and              *)
(* WebhookIngress which it extends), for any finite set of requests, any   *)
(* batches and windows and any bounds.                                     *)
(***************************************************************************)
EXTENDS InlineIngress, FiniteSetTheorems, SequenceTheorems, TLAPS

USE WindowsAssumption, BoundsAssumption, InlineBoundAssumption

-----------------------------------------------------------------------------
\* The inductive invariant

Requested ==
    [pc : Stages, batch : Batches, next : Nat \ {0}, at : 0..MaxTime, rows : SUBSET Rows]

\* Stages in which the request is in the middle of an event.
Handling == {"reject", "lock", "mark", "work", "write", "cleanup"}

EventOf(x) == EventsOf[x.batch][x.next]

\* What a request may be at.
Fits(x) ==
    /\ x \in Requested
    /\ x.next <= Len(EventsOf[x.batch]) + 1
    /\ x.pc \in Handling => x.next <= Len(EventsOf[x.batch])
    /\ x.pc = "reject" => EventOf(x).phone \notin Operators
    /\ x.at <= now

\* Every event of an operator that a request went past, or that a batch with
\* an answer held, is a task, too old, or a duplicate.
DealtWith(e) == e.phone \in Operators => e.wamid \in tasks \union late \union skipped
Dealt ==
    /\ \A b \in acked : \A i \in DOMAIN EventsOf[b] : DealtWith(EventsOf[b][i])
    /\ \A r \in Requests :
          req[r].pc # "idle" =>
             \A i \in 1..(req[r].next - 1) : DealtWith(EventsOf[req[r].batch][i])

\* The rejections to a phone in a window are told apart by the slot each of
\* them has: the request that sent it, while its row is committed or can
\* still be, else the failure that lost the row.
Sent(p, t) ==
    {i \in DOMAIN notices : notices[i].phone = p /\ notices[i].at \in t..(t + RejectionWindow)}
OfRequest(r) == <<"request", r>>
OfFailure(n) == <<"failure", n>>
Slots == {OfRequest(r) : r \in Requests} \union {OfFailure(n) : n \in 1..failures}

Kept(x) == audit \union (IF x.pc \in {"idle", "cleanup"} THEN {} ELSE x.rows)

\* Notice i has not been forgotten by request x, and silences the rejection
\* that x may be about to send in the same window.
Owns(x, i) ==
    /\ notices[i] \in Kept(x)
    /\ x.pc = "reject" /\ EventOf(x).phone = notices[i].phone =>
          notices[i].at + RejectionWindow < x.at

Explains(f, p, t) ==
    /\ f \in Injection(Sent(p, t), Slots)
    /\ \A i \in Sent(p, t), r \in Requests : f[i] = OfRequest(r) => Owns(req[r], i)

Explained == \A p \in Phones, t \in 0..MaxTime : \E f : Explains(f, p, t)

\* What holds of each request and of the tables.
TypesInv ==
    /\ now \in 0..MaxTime
    /\ acked \subseteq Batches
    /\ req \in [Requests -> Requested]
    /\ \A r \in Requests : Fits(req[r])
    /\ audit \subseteq Rows
    /\ notices \in Seq(Rows)
    /\ failures \in Nat

\* What holds of the counters, the queue and the marks.
TablesInv ==
    /\ posts \in [Batches -> 0..MaxPosts]
    /\ tasks \subseteq Wamids /\ late \subseteq Wamids
    /\ marks \subseteq Wamids /\ skipped \subseteq Wamids
    /\ mode \in Modes

\* What holds of the locks, which cloud requests do not use.
LocksInv ==
    /\ \A r \in Requests : lock = r <=> req[r].pc \in {"mark", "work", "write"}
    /\ lock \in Requests \union {Nobody}
    /\ writer \in Requests \union {Nobody, Processing}
    /\ writer = Processing <=> \E r \in Requests : req[r].pc = "write"
    /\ mode = "cloud" => \A r \in Requests : req[r].pc \in {"idle", "event", "reject"}

IInv == TypesInv /\ TablesInv /\ LocksInv /\ Dealt /\ Explained

-----------------------------------------------------------------------------
\* The steps of a request, as the invariant sees them

\* The request goes on with its event or past it.
Passes(r) ==
    /\ req[r].pc # "idle"
    /\ UNCHANGED <<now, acked, audit, notices>>
    /\ failures' \in Nat /\ failures' >= failures
    /\ \E x :
          /\ req' = [req EXCEPT ![r] = x]
          /\ Fits(x) /\ x.pc # "idle"
          /\ x.batch = req[r].batch /\ x.at = req[r].at /\ x.rows = req[r].rows
          /\ \/ x.next = req[r].next
             \/ x.next = req[r].next + 1 /\ \E e : e = Event(r) /\ DealtWith(e)'
          /\ x.pc = "cleanup" => failures' = failures + 1
          /\ x.pc = "reject" => MayReject(r, EventOf(x))

\* It sends a rejection, and remembers it unless the send raises then.
Sends(r) ==
    /\ req[r].pc = "reject"
    /\ UNCHANGED <<now, acked, audit>>
    /\ LET row == [phone |-> Event(r).phone, at |-> now]
       IN  /\ notices' = Append(notices, row)
           /\ \/ Advance(r, {row}) /\ failures' = failures
              \/ Advance(r, {}) /\ failures' = failures + 1

\* It fails; it may have sent a rejection then, or answered before.
Loses(r) ==
    /\ req[r].pc # "idle"
    /\ UNCHANGED <<now, audit>>
    /\ \/ acked' = acked
       \/ req[r].pc = "event" /\ ~AtEvent(r) /\ acked' = acked \union {req[r].batch}
    /\ Leave(r)
    /\ \/ failures' = failures + 1
       \/ req[r].pc = "cleanup" /\ failures' = failures
    /\ \/ notices' = notices
       \/ /\ req[r].pc = "reject"
          /\ notices' = Append(notices, [phone |-> Event(r).phone, at |-> now])
          /\ failures' = failures + 1

\* It ends with a commit.
Commits(r) ==
    /\ req[r].pc = "event"
    /\ ~AtEvent(r)
    /\ UNCHANGED <<now, notices>>
    /\ failures' \in Nat /\ failures' >= failures
    /\ audit' = audit \union req[r].rows
    /\ acked' \in {acked, acked \union {req[r].batch}}
    /\ Leave(r)

\* It starts.
Starts(r) ==
    /\ req[r].pc = "idle"
    /\ UNCHANGED <<now, acked, audit, notices, failures>>
    /\ \E b \in Batches :
          req' = [req EXCEPT ![r] = [IdleRequest EXCEPT !.pc = "event", !.batch = b, !.at = now]]

Grows == tasks \subseteq tasks' /\ late \subseteq late' /\ skipped \subseteq skipped'

Moves(r) == Passes(r) \/ Sends(r) \/ Loses(r) \/ Commits(r) \/ Starts(r)

-----------------------------------------------------------------------------
\* Helpers

\* The events of a batch are a sequence of Events.
LEMMA EventTyped ==
    ASSUME NEW x \in Requested, x.next <= Len(EventsOf[x.batch])
    PROVE  /\ EventOf(x) \in Events /\ EventOf(x).phone \in Phones /\ EventOf(x).wamid \in Wamids
           /\ x.next \in DOMAIN EventsOf[x.batch]
<1>1. EventsOf[x.batch] \in Seq(Events) /\ x.batch \in Batches /\ x.next \in Nat \ {0}
  BY EventsAssumption DEF Requested
<1>2. x.next \in DOMAIN EventsOf[x.batch] /\ EventOf(x) \in Events
  BY <1>1 DEF EventOf
<1>3. QED
  BY <1>2 DEF Phones, Wamids

\* The events of a batch are numbered from 1.
LEMMA BatchLength ==
    ASSUME NEW b \in Batches
    PROVE  Len(EventsOf[b]) \in Nat /\ DOMAIN EventsOf[b] = 1..Len(EventsOf[b])
<1>1. EventsOf[b] \in Seq(Events)
  BY EventsAssumption
<1>2. QED
  BY <1>1

\* A request that does nothing fits.
LEMMA IdleFits ==
    ASSUME now \in 0..MaxTime
    PROVE  /\ IdleRequest \in Requested /\ Fits(IdleRequest)
           /\ IdleRequest.pc = "idle" /\ IdleRequest.rows = {}
<1>1. IdleRequest.batch \in Batches
  BY EventsAssumption DEF IdleRequest
<1>2. IdleRequest \in Requested
  BY <1>1 DEF IdleRequest, Requested, Stages
<1>3. Len(EventsOf[IdleRequest.batch]) \in Nat
  BY <1>1, BatchLength
<1>4. QED
  BY <1>2, <1>3 DEF Fits, IdleRequest, Handling

\* A request that is advanced past an event of its batch still fits.
LEMMA AdvanceFits ==
    ASSUME NEW x, Fits(x), x.next <= Len(EventsOf[x.batch]), NEW rows \in SUBSET Rows
    PROVE  LET y == [x EXCEPT !.pc = "event", !.next = @ + 1, !.rows = @ \union rows]
           IN  /\ Fits(y) /\ y.pc = "event" /\ y.next = x.next + 1
               /\ y.batch = x.batch /\ y.at = x.at /\ y.rows = x.rows \union rows
<1> DEFINE y == [x EXCEPT !.pc = "event", !.next = @ + 1, !.rows = @ \union rows]
<1>1. x \in Requested /\ x.at <= now
  BY DEF Fits
<1>2. /\ y \in Requested /\ y.pc = "event" /\ y.next = x.next + 1
      /\ y.batch = x.batch /\ y.at = x.at /\ y.rows = x.rows \union rows
  <2>1. /\ y.pc = "event" /\ y.next = x.next + 1
        /\ y.batch = x.batch /\ y.at = x.at /\ y.rows = x.rows \union rows
    BY <1>1 DEF Requested
  <2>2. /\ "event" \in Stages /\ x.next + 1 \in Nat \ {0} /\ x.batch \in Batches
        /\ x.at \in 0..MaxTime /\ x.rows \union rows \in SUBSET Rows
    BY <1>1 DEF Requested, Stages
  <2>3. PICK n, s : n = x.next + 1 /\ s = x.rows \union rows
    OBVIOUS
  <2>4. y = [x EXCEPT !.pc = "event", !.next = n, !.rows = s]
    BY <2>3
  <2>5. n \in Nat \ {0} /\ s \in SUBSET Rows
    BY <2>2, <2>3
  <2>6. y \in Requested
    BY <1>1, <2>2, <2>4, <2>5 DEF Requested
  <2>7. QED
    BY <2>1, <2>6
<1>3. Len(EventsOf[x.batch]) \in Nat /\ x.next \in Nat
  BY <1>1, BatchLength DEF Requested
<1> HIDE DEF y
<1>4. Fits(y)
  BY <1>1, <1>2, <1>3 DEF Fits, Handling
<1>5. QED
  BY <1>2, <1>4 DEF y

\* So does one that goes on to another stage of it.
LEMMA StageFits ==
    ASSUME NEW x, Fits(x), x.next <= Len(EventsOf[x.batch]), NEW pc \in Stages,
           pc = "reject" => EventOf(x).phone \notin Operators
    PROVE  LET y == [x EXCEPT !.pc = pc]
           IN  /\ Fits(y) /\ y.pc = pc /\ y.next = x.next /\ EventOf(y) = EventOf(x)
               /\ y.batch = x.batch /\ y.at = x.at /\ y.rows = x.rows
<1> DEFINE y == [x EXCEPT !.pc = pc]
<1>1. x \in Requested /\ x.at <= now /\ x.next <= Len(EventsOf[x.batch]) + 1
  BY DEF Fits
<1>2. /\ y \in Requested /\ y.pc = pc /\ y.next = x.next
      /\ y.batch = x.batch /\ y.at = x.at /\ y.rows = x.rows
  BY <1>1 DEF Requested
<1> HIDE DEF y
<1>3. EventOf(y) = EventOf(x)
  BY <1>2 DEF EventOf
<1>4. Fits(y)
  BY <1>1, <1>2, <1>3 DEF Fits
<1>5. QED
  BY <1>2, <1>3, <1>4 DEF y

\* What a request in the middle of a batch is known to be.
LEMMA RequestFits ==
    ASSUME TypesInv, NEW r \in Requests
    PROVE  /\ Fits(req[r]) /\ req[r] \in Requested /\ EventOf(req[r]) = Event(r)
           /\ req[r].pc \in Stages
           /\ Len(EventsOf[req[r].batch]) \in Nat /\ req[r].next \in Nat \ {0}
           /\ AtEvent(r) <=> req[r].pc = "event" /\ req[r].next <= Len(EventsOf[req[r].batch])
           /\ req[r].pc \in Handling => req[r].next <= Len(EventsOf[req[r].batch])
           /\ failures \in Nat
<1>1. Fits(req[r]) /\ failures \in Nat
  BY DEF TypesInv
<1>2. req[r] \in Requested /\ req[r].pc \in Handling => req[r].next <= Len(EventsOf[req[r].batch])
  BY <1>1 DEF Fits
<1>3. req[r].batch \in Batches /\ req[r].next \in Nat \ {0} /\ req[r].pc \in Stages
  BY <1>1 DEF Requested, Fits
<1>4. QED
  BY <1>1, <1>2, <1>3, BatchLength DEF AtEvent, EventOf, Event, Fits

\* Going past an event that is dealt with.
LEMMA AdvancePasses ==
    ASSUME TypesInv, NEW r \in Requests, AtEvent(r) \/ req[r].pc \in Handling,
           Advance(r, {}), UNCHANGED <<now, acked, audit, notices>>,
           failures' \in Nat, failures' >= failures,
           NEW e, e = Event(r), DealtWith(e)'
    PROVE  Passes(r)
<1>1. Fits(req[r]) /\ req[r].next <= Len(EventsOf[req[r].batch]) /\ req \in [Requests -> Requested]
  BY RequestFits DEF TypesInv
<1>2. PICK x : x = [req[r] EXCEPT !.pc = "event", !.next = @ + 1, !.rows = @ \union {}]
  OBVIOUS
<1>3. /\ Fits(x) /\ x.pc = "event" /\ x.next = req[r].next + 1
      /\ x.batch = req[r].batch /\ x.at = req[r].at /\ x.rows = req[r].rows \union {}
  BY <1>1, <1>2, AdvanceFits
<1>4. req' = [req EXCEPT ![r] = x]
  BY <1>1, <1>2 DEF Advance, Requested
<1>5. req[r].pc # "idle"
  BY DEF AtEvent, Handling
<1>6. x.rows = req[r].rows
  BY <1>3
<1>7. QED
  BY <1>3, <1>4, <1>5, <1>6 DEF Passes

\* Going on to another stage of the event.
LEMMA StagePasses ==
    ASSUME TypesInv, NEW r \in Requests, AtEvent(r) \/ req[r].pc \in Handling,
           NEW pc \in Stages \ {"idle"}, Stage(r, pc), UNCHANGED <<now, acked, audit, notices>>,
           failures' \in Nat, failures' >= failures,
           pc = "cleanup" => failures' = failures + 1,
           pc = "reject" => Event(r).phone \notin Operators /\ MayReject(r, Event(r))
    PROVE  Passes(r)
<1>1. /\ Fits(req[r]) /\ req[r].next <= Len(EventsOf[req[r].batch])
      /\ req \in [Requests -> Requested] /\ EventOf(req[r]) = Event(r)
  BY RequestFits DEF TypesInv
<1>2. PICK x : x = [req[r] EXCEPT !.pc = pc]
  OBVIOUS
<1>3. /\ Fits(x) /\ x.pc = pc /\ x.next = req[r].next /\ EventOf(x) = EventOf(req[r])
      /\ x.batch = req[r].batch /\ x.at = req[r].at /\ x.rows = req[r].rows
  BY <1>1, <1>2, StageFits
<1>4. req' = [req EXCEPT ![r] = x]
  BY <1>1, <1>2 DEF Stage
<1>5. req[r].pc # "idle"
  BY DEF AtEvent, Handling
<1>6. QED
  BY <1>1, <1>3, <1>4, <1>5 DEF Passes

Base(r) ==
    \/ RejectReplay(r) \/ Unauthorized(r) \/ RejectionSent(r) \/ EnqueueInbound(r) \/ Answer(r)
    \/ RejectionFails(r) \/ EnqueueFails(r) \/ CommitFails(r)
    \/ AnswerLost(r) \/ RequestDies(r)

\* The steps of WebhookIngress, which the cloud requests take and some of
\* which the inline requests take too.
LEMMA BaseMoves ==
    ASSUME TypesInv, NEW r \in Requests, Base(r)
    PROVE  Moves(r) /\ tasks \subseteq tasks' /\ late \subseteq late'
<1>1. failures \in Nat /\ Handling = {"reject", "lock", "mark", "work", "write", "cleanup"}
  BY DEF TypesInv, Handling
<1>2. PICK e : e = Event(r)
  OBVIOUS
<1>3. CASE RejectReplay(r)
  <2>1. late' = late \union {e.wamid} /\ tasks' = tasks
    BY <1>2, <1>3 DEF RejectReplay
  <2>2. DealtWith(e)'
    BY <2>1 DEF DealtWith
  <2>3. Passes(r)
    BY <1>1, <1>2, <1>3, <2>2, AdvancePasses DEF RejectReplay
  <2>4. QED
    BY <2>1, <2>3 DEF Moves
<1>4. CASE Unauthorized(r)
  <2>1. CASE MayReject(r, Event(r))
    <3>1. Stage(r, "reject") /\ "reject" \in Stages \ {"idle"}
      BY <1>4, <2>1 DEF Unauthorized, Stage, Stages
    <3>2. Passes(r)
      BY <1>1, <1>4, <2>1, <3>1, StagePasses DEF Unauthorized
    <3>3. QED
      BY <1>4, <3>2 DEF Moves, Unauthorized
  <2>2. CASE ~MayReject(r, Event(r))
    <3>1. DealtWith(e)'
      BY <1>2, <1>4 DEF Unauthorized, DealtWith
    <3>2. Passes(r)
      BY <1>1, <1>2, <1>4, <2>2, <3>1, AdvancePasses DEF Unauthorized
    <3>3. QED
      BY <1>4, <3>2 DEF Moves, Unauthorized
  <2>3. QED
    BY <2>1, <2>2
<1>5. CASE RejectionSent(r)
  BY <1>5 DEF RejectionSent, Moves, Sends
<1>6. CASE EnqueueInbound(r)
  <2>1. tasks' = tasks \union {e.wamid} /\ late' = late
    BY <1>2, <1>6 DEF EnqueueInbound
  <2>2. DealtWith(e)'
    BY <2>1 DEF DealtWith
  <2>3. Passes(r)
    BY <1>1, <1>2, <1>6, <2>2, AdvancePasses DEF EnqueueInbound
  <2>4. QED
    BY <2>1, <2>3 DEF Moves
<1>7. CASE Answer(r) \/ AnswerLost(r)
  BY <1>1, <1>7 DEF Answer, AnswerLost, Fault, Moves, Commits
<1>8. CASE RejectionFails(r)
  <2>1. req[r].pc = "reject" /\ Fits(req[r]) /\ EventOf(req[r]) = Event(r)
    BY <1>8, RequestFits DEF RejectionFails
  <2>2. DealtWith(e)'
    BY <1>2, <2>1 DEF DealtWith, Fits
  <2>3. CASE notices' = notices
    <3>1. Passes(r)
      BY <1>1, <1>2, <1>8, <2>1, <2>2, <2>3, AdvancePasses DEF RejectionFails, Fault
    <3>2. QED
      BY <1>8, <3>1 DEF Moves, RejectionFails
  <2>4. CASE notices' # notices
    BY <1>8, <2>4 DEF RejectionFails, Fault, Moves, Sends
  <2>5. QED
    BY <2>3, <2>4
<1>9. CASE EnqueueFails(r) \/ CommitFails(r) \/ RequestDies(r)
  BY <1>1, <1>9 DEF EnqueueFails, CommitFails, RequestDies, Fault, Moves, Loses, AtEvent
<1>10. QED
  BY <1>3, <1>4, <1>5, <1>6, <1>7, <1>8, <1>9 DEF Base


Inlined(r) ==
    \/ LogLocked(r) \/ ProcessInline(r) \/ TakeLock(r) \/ MarkInline(r) \/ WriteInline(r)
    \/ FinishInline(r) \/ WorkLocked(r) \/ WorkRaises(r) \/ CleanupInline(r) \/ CleanupLocked(r)

\* The steps of an inline request of its own.
LEMMA InlinedMoves ==
    ASSUME TypesInv, NEW r \in Requests, Inlined(r)
    PROVE  Moves(r) /\ Grows
<1>1. failures \in Nat /\ Handling = {"reject", "lock", "mark", "work", "write", "cleanup"}
  BY DEF TypesInv, Handling
<1>2. PICK e : e = Event(r)
  OBVIOUS
<1>3. {"lock", "mark", "work", "write", "cleanup"} \subseteq Stages \ {"idle"}
  BY DEF Stages
<1>4. CASE LogLocked(r)
  <2>1. Loses(r)
    BY <1>4 DEF LogLocked, Loses, AtEvent
  <2>2. QED
    BY <1>4, <2>1 DEF LogLocked, Moves, Grows, inline
<1>5. CASE ProcessInline(r)
  <2>1. Passes(r)
    BY <1>1, <1>3, <1>5, StagePasses DEF ProcessInline, Still
  <2>2. QED
    BY <1>5, <2>1 DEF ProcessInline, Moves, Grows, inline, Still
<1>6. CASE TakeLock(r)
  <2>1. Passes(r)
    BY <1>1, <1>3, <1>6, StagePasses DEF TakeLock, Still
  <2>2. QED
    BY <1>6, <2>1 DEF TakeLock, Moves, Grows, Still
<1>7. CASE MarkInline(r)
  <2>1. CASE Message(r) \in marks
    <3>1. /\ Advance(r, {}) /\ skipped' = skipped \union ({e.wamid} \ tasks)
          /\ tasks' = tasks /\ late' = late
      BY <1>2, <1>7, <2>1 DEF MarkInline, Message, Still
    <3>2. DealtWith(e)'
      BY <3>1 DEF DealtWith
    <3>3. Passes(r)
      BY <1>1, <1>2, <1>7, <3>1, <3>2, AdvancePasses DEF MarkInline, Still
    <3>4. QED
      BY <3>1, <3>3 DEF Moves, Grows
  <2>2. CASE Message(r) \notin marks
    <3>1. Passes(r)
      BY <1>1, <1>3, <1>7, <2>2, StagePasses DEF MarkInline, Still
    <3>2. QED
      BY <1>7, <2>2, <3>1 DEF MarkInline, Moves, Grows, Still
  <2>3. QED
    BY <2>1, <2>2
<1>8. CASE WriteInline(r)
  <2>1. Passes(r)
    BY <1>1, <1>3, <1>8, StagePasses DEF WriteInline, Still
  <2>2. QED
    BY <1>8, <2>1 DEF WriteInline, Moves, Grows, Still
<1>9. CASE FinishInline(r)
  <2>1. tasks' = tasks \union {e.wamid} /\ late' = late /\ skipped' = skipped
    BY <1>2, <1>9 DEF FinishInline, Message, Still
  <2>2. DealtWith(e)'
    BY <2>1 DEF DealtWith
  <2>3. Passes(r)
    BY <1>1, <1>2, <1>9, <2>2, AdvancePasses DEF FinishInline, Still
  <2>4. QED
    BY <2>1, <2>3 DEF Moves, Grows
<1>10. CASE WorkLocked(r) \/ WorkRaises(r)
  <2>1. /\ req[r].pc \in {"mark", "work", "write"} /\ failures' = failures + 1
        /\ Stage(r, "cleanup") /\ Still /\ tasks \subseteq tasks' /\ UNCHANGED skipped
    BY <1>10 DEF WorkLocked, WorkRaises, Fault
  <2>2. Passes(r)
    BY <1>1, <1>3, <2>1, StagePasses DEF Still
  <2>3. QED
    BY <2>1, <2>2 DEF Moves, Grows, Still
<1>11. CASE CleanupInline(r) \/ CleanupLocked(r)
  <2>1. Loses(r)
    BY <1>11 DEF CleanupInline, CleanupLocked, Loses, Still
  <2>2. QED
    BY <1>11, <2>1 DEF CleanupInline, CleanupLocked, Moves, Grows, Still
<1>12. QED
  BY <1>4, <1>5, <1>6, <1>7, <1>8, <1>9, <1>10, <1>11 DEF Inlined

\* Every step moves one request, lets time pass, or changes nothing.
LEMMA Steps ==
    ASSUME TypesInv, [ModesNext]_allvars
    PROVE  /\ Grows
           /\ \/ UNCHANGED <<now, acked, req, audit, notices, failures>>
              \/ Tick
              \/ \E r \in Requests : Moves(r)
<1>1. CASE UNCHANGED allvars
  BY <1>1 DEF allvars, vars, inline, Grows
<1>2. ASSUME NEW r \in Requests, NEW b \in Batches, Post(r, b)
      PROVE  Moves(r) /\ tasks' = tasks /\ late' = late
  BY <1>2 DEF Post, Moves, Starts
<1>3. CASE Tick /\ UNCHANGED inline
  BY <1>3 DEF Tick, inline, Grows
<1>4. CASE Next /\ UNCHANGED inline
  <2>1. CASE Tick
    BY <1>3, <1>4, <2>1
  <2>2. CASE \E r \in Requests : \/ \E b \in Batches : Post(r, b)
                                 \/ Progress(r) \/ Failure(r)
    <3>1. PICK r \in Requests : \/ \E b \in Batches : Post(r, b)
                                \/ Progress(r) \/ Failure(r)
      BY <2>2
    <3>2. CASE \E b \in Batches : Post(r, b)
      BY <1>2, <1>4, <3>2 DEF inline, Grows
    <3>3. CASE Progress(r) \/ Failure(r)
      <4>1. Base(r)
        BY <3>3 DEF Progress, Failure, Base
      <4>2. QED
        BY <1>4, <4>1, BaseMoves DEF inline, Grows
    <3>4. QED
      BY <3>1, <3>2, <3>3
  <2>3. CASE Rest
    BY <1>4, <2>3 DEF Rest, vars, inline, Grows
  <2>4. QED
    BY <1>4, <2>1, <2>2, <2>3 DEF Next
<1>5. CASE InlineNext
  <2>1. CASE \E r \in Requests : \/ \E b \in Batches : InlinePost(r, b)
                                 \/ InlineProgress(r) \/ WorkRaises(r)
    <3>1. PICK r \in Requests : \/ \E b \in Batches : InlinePost(r, b)
                                \/ InlineProgress(r) \/ WorkRaises(r)
      BY <2>1
    <3>2. CASE \E b \in Batches : InlinePost(r, b)
      BY <1>2, <3>2 DEF InlinePost, inline, Grows
    <3>3. CASE InlineProgress(r) \/ WorkRaises(r)
      <4>1. Inlined(r) \/ (Base(r) /\ skipped' = skipped)
        BY <3>3 DEF InlineProgress, Inlined, Base, LogAudit, EndInline, inline
      <4>2. QED
        BY <4>1, BaseMoves, InlinedMoves DEF Grows
    <3>4. QED
      BY <3>1, <3>2, <3>3
  <2>2. CASE InlineRest
    BY <1>1, <2>2 DEF InlineRest
  <2>3. QED
    BY <1>3, <1>5, <2>1, <2>2 DEF InlineNext
<1>6. QED
  BY <1>1, <1>4, <1>5 DEF ModesNext


-----------------------------------------------------------------------------
\* Types

\* The requests after one of them moved.
LEMMA RequestsFit ==
    ASSUME TypesInv, NEW r \in Requests, NEW x, Fits(x), req' = [req EXCEPT ![r] = x], now' = now
    PROVE  /\ req' \in [Requests -> Requested] /\ (\A s \in Requests : Fits(req[s]))'
           /\ req'[r] = x /\ \A s \in Requests : s # r => req'[s] = req[s]
<1>1. req \in [Requests -> Requested] /\ \A s \in Requests : Fits(req[s])
  BY DEF TypesInv
<1>2. x \in Requested
  BY DEF Fits
<1>3. \A s \in Requests : Fits(req'[s])
  BY <1>1
<1>4. QED
  BY <1>1, <1>2, <1>3 DEF Fits

\* A rejection is a row of the audit.
LEMMA NoticeTyped ==
    ASSUME TypesInv, NEW r \in Requests, req[r].pc = "reject"
    PROVE  /\ [phone |-> Event(r).phone, at |-> now] \in Rows
           /\ req[r].next <= Len(EventsOf[req[r].batch])
<1>1. /\ req[r] \in Requested /\ EventOf(req[r]) = Event(r)
      /\ req[r].next <= Len(EventsOf[req[r].batch])
  BY RequestFits DEF Handling
<1>2. Event(r).phone \in Phones
  BY <1>1, EventTyped
<1>3. QED
  BY <1>1, <1>2 DEF TypesInv, Rows

\* Every step leaves requests that fit.
LEMMA TypesStep ==
    ASSUME TypesInv, [ModesNext]_allvars
    PROVE  TypesInv'
<1>1. CASE UNCHANGED <<now, acked, req, audit, notices, failures>>
  BY <1>1 DEF TypesInv, Fits
<1>2. CASE Tick
  <2>1. now' \in 0..MaxTime /\ now' >= now
    BY <1>2 DEF Tick, TypesInv
  <2>2. \A r \in Requests : Fits(req[r])'
    <3>1. TAKE r \in Requests
    <3>2. Fits(req[r]) /\ req[r].at \in Nat /\ now \in Nat /\ req' = req
      BY <1>2 DEF Tick, TypesInv, Fits, Requested
    <3>3. QED
      BY <2>1, <3>2 DEF Fits
  <2>3. QED
    BY <1>2, <2>1, <2>2 DEF Tick, TypesInv
<1>3. ASSUME NEW r \in Requests, Moves(r)
      PROVE  TypesInv'
  <2>1. /\ IdleRequest \in Requested /\ Fits(IdleRequest) /\ failures \in Nat
        /\ req[r] \in Requested /\ req[r].batch \in Batches /\ req[r].rows \in SUBSET Rows
        /\ req \in [Requests -> Requested] /\ Fits(req[r])
    BY IdleFits, RequestFits DEF TypesInv, Requested
  <2>2. now' = now
    BY <1>3 DEF Moves, Passes, Sends, Loses, Commits, Starts
  <2>3. PICK x : req' = [req EXCEPT ![r] = x] /\ Fits(x)
    <3>1. CASE Passes(r)
      BY <3>1 DEF Passes
    <3>2. CASE Sends(r)
      <4>1. PICK row : row = [phone |-> Event(r).phone, at |-> now]
        OBVIOUS
      <4>2. row \in Rows /\ req[r].next <= Len(EventsOf[req[r].batch])
        BY <3>2, <4>1, NoticeTyped DEF Sends
      <4>3. PICK rows \in SUBSET Rows : Advance(r, rows)
        BY <3>2, <4>1, <4>2 DEF Sends
      <4>4. PICK x : x = [req[r] EXCEPT !.pc = "event", !.next = @ + 1, !.rows = @ \union rows]
        OBVIOUS
      <4>5. Fits(x)
        BY <2>1, <4>2, <4>3, <4>4, AdvanceFits
      <4>6. req' = [req EXCEPT ![r] = x]
        BY <2>1, <4>3, <4>4 DEF Advance, Requested
      <4>7. QED
        BY <4>5, <4>6
    <3>3. CASE Loses(r) \/ Commits(r)
      BY <2>1, <3>3 DEF Loses, Commits, Leave
    <3>4. CASE Starts(r)
      <4>1. PICK b \in Batches : req' = [req EXCEPT ![r] = [IdleRequest EXCEPT !.pc = "event",
                                                             !.batch = b, !.at = now]]
        BY <3>4 DEF Starts
      <4>2. PICK x : x = [IdleRequest EXCEPT !.pc = "event", !.batch = b, !.at = now]
        OBVIOUS
      <4>3. x \in Requested /\ x.pc = "event" /\ x.batch = b /\ x.next = 1 /\ x.at = now
        BY <2>1, <4>2 DEF TypesInv, Requested, Stages, IdleRequest
      <4>4. Fits(x)
        BY <4>3, BatchLength DEF Fits, Handling, TypesInv
      <4>5. QED
        BY <4>1, <4>2, <4>4
    <3>5. QED
      BY <1>3, <3>1, <3>2, <3>3, <3>4 DEF Moves
  <2>4. req' \in [Requests -> Requested] /\ (\A s \in Requests : Fits(req[s]))'
    BY <2>2, <2>3, RequestsFit
  <2>5. notices' \in Seq(Rows)
    <3>1. notices \in Seq(Rows)
      BY DEF TypesInv
    <3>2. CASE notices' = notices
      BY <3>1, <3>2
    <3>3. CASE notices' # notices
      <4>1. /\ req[r].pc = "reject"
            /\ notices' = Append(notices, [phone |-> Event(r).phone, at |-> now])
        BY <1>3, <3>3 DEF Moves, Passes, Sends, Loses, Commits, Starts
      <4>2. [phone |-> Event(r).phone, at |-> now] \in Rows
        BY <4>1, NoticeTyped
      <4>3. QED
        BY <3>1, <4>1, <4>2
    <3>4. QED
      BY <3>2, <3>3
  <2>6. failures' \in Nat /\ audit' \subseteq Rows /\ acked' \subseteq Batches
    <3>1. audit \subseteq Rows /\ acked \subseteq Batches
      BY DEF TypesInv
    <3>2. CASE Passes(r)
      BY <2>1, <3>1, <3>2 DEF Passes
    <3>3. CASE Sends(r)
      <4>1. failures' \in {failures, failures + 1} /\ audit' = audit /\ acked' = acked
        BY <3>3 DEF Sends
      <4>2. QED
        BY <2>1, <3>1, <4>1
    <3>4. CASE Loses(r)
      <4>1. /\ failures' \in {failures, failures + 1} /\ audit' = audit
            /\ acked' \in {acked, acked \union {req[r].batch}}
        BY <3>4 DEF Loses
      <4>2. QED
        BY <2>1, <3>1, <4>1
    <3>5. CASE Commits(r)
      <4>1. audit' = audit \union req[r].rows /\ failures' \in Nat
        BY <3>5 DEF Commits
      <4>2. acked' \in {acked, acked \union {req[r].batch}}
        BY <3>5 DEF Commits
      <4>3. QED
        BY <2>1, <3>1, <4>1, <4>2
    <3>6. CASE Starts(r)
      BY <2>1, <3>1, <3>6 DEF Starts
    <3>7. QED
      BY <1>3, <3>2, <3>3, <3>4, <3>5, <3>6 DEF Moves
  <2>7. QED
    BY <2>2, <2>4, <2>5, <2>6 DEF TypesInv
<1>4. QED
  BY <1>1, <1>2, <1>3, Steps

-----------------------------------------------------------------------------
\* The events of a batch are dealt with

\* Every step leaves the events that a request went past dealt with.
LEMMA DealtStep ==
    ASSUME TypesInv, Dealt, [ModesNext]_allvars
    PROVE  Dealt'
<1>1. PICK S : S = tasks' \union late' \union skipped'
  OBVIOUS
<1> DEFINE D(e) == e.phone \in Operators => e.wamid \in S
<1>2. \A e : DealtWith(e) => D(e)
  BY <1>1, Steps DEF Grows, DealtWith
<1>3. SUFFICES /\ \A b \in acked' : \A i \in DOMAIN EventsOf[b] : D(EventsOf[b][i])
               /\ \A s \in Requests :
                     req'[s].pc # "idle" =>
                        \A i \in 1..(req'[s].next - 1) : D(EventsOf[req'[s].batch][i])
  BY <1>1 DEF Dealt, DealtWith
<1>4. \A e : DealtWith(e)' => D(e)
  BY <1>1 DEF DealtWith
<1>5. /\ \A b \in acked : \A i \in DOMAIN EventsOf[b] : D(EventsOf[b][i])
      /\ \A s \in Requests :
            req[s].pc # "idle" => \A i \in 1..(req[s].next - 1) : D(EventsOf[req[s].batch][i])
  BY <1>2 DEF Dealt
<1> HIDE DEF D
<1>6. CASE acked' = acked /\ req' = req
  BY <1>5, <1>6
<1>7. ASSUME NEW r \in Requests, Moves(r)
      PROVE  /\ \A b \in acked' : \A i \in DOMAIN EventsOf[b] : D(EventsOf[b][i])
             /\ \A s \in Requests :
                   req'[s].pc # "idle" =>
                      \A i \in 1..(req'[s].next - 1) : D(EventsOf[req'[s].batch][i])
  <2>1. /\ Len(EventsOf[req[r].batch]) \in Nat /\ req[r].next \in Nat \ {0}
        /\ AtEvent(r) <=> req[r].pc = "event" /\ req[r].next <= Len(EventsOf[req[r].batch])
        /\ EventOf(req[r]) = Event(r) /\ Fits(req[r]) /\ req[r] \in Requested
    BY RequestFits
  <2>2. req \in [Requests -> Requested] /\ req[r].batch \in Batches
    BY <2>1 DEF TypesInv, Requested
  <2>3. \A s \in Requests : s # r => req'[s] = req[s]
    BY <1>7, <2>2 DEF Moves, Passes, Sends, Loses, Commits, Starts, Advance, Leave
  <2>4. ASSUME NEW b \in acked', NEW i \in DOMAIN EventsOf[b]
        PROVE  D(EventsOf[b][i])
    <3>1. CASE b \in acked
      BY <1>5, <2>4, <3>1
    <3>2. CASE b \notin acked
      <4>1. req[r].pc = "event" /\ ~AtEvent(r) /\ b = req[r].batch
        BY <1>7, <2>4, <3>2 DEF Moves, Passes, Sends, Loses, Commits, Starts
      <4>2. req[r].pc # "idle" /\ req[r].next > Len(EventsOf[b])
        BY <2>1, <4>1
      <4>3. DOMAIN EventsOf[b] = 1..Len(EventsOf[b])
        BY <2>2, <4>1, BatchLength
      <4>4. i \in 1..(req[r].next - 1)
        BY <2>1, <2>4, <4>1, <4>2, <4>3
      <4>5. QED
        BY <1>5, <4>1, <4>2, <4>4
    <3>3. QED
      BY <3>1, <3>2
  <2>5. ASSUME req'[r].pc # "idle", NEW i \in 1..(req'[r].next - 1)
        PROVE  D(EventsOf[req'[r].batch][i])
    <3>1. CASE Passes(r)
      <4>1. PICK x : /\ req' = [req EXCEPT ![r] = x]
                     /\ x.batch = req[r].batch
                     /\ \/ x.next = req[r].next
                        \/ x.next = req[r].next + 1 /\ \E e : e = Event(r) /\ DealtWith(e)'
        BY <3>1 DEF Passes
      <4>2. req'[r] = x /\ req[r].pc # "idle"
        BY <2>2, <3>1, <4>1 DEF Passes
      <4>3. CASE i \in 1..(req[r].next - 1)
        BY <1>5, <4>1, <4>2, <4>3
      <4>4. CASE i \notin 1..(req[r].next - 1)
        <5>1. i = req[r].next
          BY <2>1, <2>5, <4>1, <4>2, <4>4
        <5>2. x.next # req[r].next
          BY <2>1, <2>5, <4>2, <5>1
        <5>3. PICK e : e = Event(r) /\ DealtWith(e)'
          BY <4>1, <5>2
        <5>4. EventsOf[req'[r].batch][i] = e
          BY <4>1, <4>2, <5>1, <5>3 DEF Event
        <5>5. D(e)
          BY <1>4, <5>3
        <5>6. QED
          BY <5>4, <5>5
      <4>5. QED
        BY <4>3, <4>4
    <3>2. CASE Sends(r)
      <4>1. req[r].pc = "reject" /\ Event(r).phone \notin Operators
        BY <2>1, <3>2 DEF Sends, Fits
      <4>2. PICK rows : Advance(r, rows)
        BY <3>2 DEF Sends
      <4>3. req'[r].batch = req[r].batch /\ req'[r].next = req[r].next + 1
        BY <2>1, <2>2, <4>2 DEF Advance, Requested
      <4>4. CASE i \in 1..(req[r].next - 1)
        BY <1>5, <4>1, <4>3, <4>4
      <4>5. CASE i \notin 1..(req[r].next - 1)
        <5>1. i = req[r].next
          BY <2>1, <2>5, <4>3, <4>5
        <5>2. EventsOf[req'[r].batch][i] = Event(r)
          BY <4>3, <5>1 DEF Event
        <5>3. QED
          BY <4>1, <5>2 DEF D
      <4>6. QED
        BY <4>4, <4>5
    <3>3. CASE Loses(r) \/ Commits(r)
      <4>1. req'[r] = IdleRequest
        BY <2>2, <3>3 DEF Loses, Commits, Leave
      <4>2. QED
        BY <2>5, <4>1 DEF IdleRequest
    <3>4. CASE Starts(r)
      <4>1. req'[r].next = 1
        BY <2>2, <3>4 DEF Starts, IdleRequest
      <4>2. QED
        BY <2>5, <4>1
    <3>5. QED
      BY <1>7, <3>1, <3>2, <3>3, <3>4 DEF Moves
  <2>6. QED
    BY <1>5, <2>3, <2>4, <2>5
<1>8. QED
  BY <1>6, <1>7, Steps DEF Tick

-----------------------------------------------------------------------------
\* Tables and locks

\* A request that looks at an event, or handles one, has a message.
LEMMA MessageTyped ==
    ASSUME TypesInv, NEW r \in Requests, AtEvent(r) \/ req[r].pc \in Handling
    PROVE  Event(r).wamid \in Wamids
<1>1. /\ req[r] \in Requested /\ EventOf(req[r]) = Event(r)
      /\ req[r].next <= Len(EventsOf[req[r].batch])
  BY RequestFits
<1>2. QED
  BY <1>1, EventTyped

\* The stage of a request after it moved; the others stay.
LEMMA StageAfter ==
    ASSUME TypesInv, NEW r \in Requests
    PROVE  /\ \A rows : Advance(r, rows) => req'[r].pc = "event"
           /\ \A pc : Stage(r, pc) => req'[r].pc = pc
           /\ Leave(r) => req'[r].pc = "idle"
           /\ \A b \in Batches : Post(r, b) => req'[r].pc = "event"
           /\ \A rows, pc, b : \/ Advance(r, rows) \/ Stage(r, pc) \/ Leave(r) \/ Post(r, b)
                               => \A s \in Requests : s # r => req'[s] = req[s]
<1>1. req \in [Requests -> Requested] /\ req[r] \in Requested
  BY DEF TypesInv
<1>2. IdleRequest.pc = "idle" /\ \A b : [IdleRequest EXCEPT !.pc = "event", !.batch = b,
                                                          !.at = now].pc = "event"
  BY DEF IdleRequest
<1>3. \A rows : Advance(r, rows) => req'[r].pc = "event"
  BY <1>1 DEF Advance, Requested
<1>4. \A pc : Stage(r, pc) => req'[r].pc = pc
  BY <1>1 DEF Stage, Requested
<1>5. Leave(r) => req'[r].pc = "idle"
  BY <1>1, <1>2 DEF Leave
<1>6. \A b \in Batches : Post(r, b) => req'[r].pc = "event"
  BY <1>1, <1>2 DEF Post
<1>7. \A rows : Advance(r, rows) => \A s \in Requests : s # r => req'[s] = req[s]
  BY <1>1 DEF Advance
<1>8. \A pc : Stage(r, pc) => \A s \in Requests : s # r => req'[s] = req[s]
  BY <1>1 DEF Stage
<1>9. Leave(r) => \A s \in Requests : s # r => req'[s] = req[s]
  BY <1>1 DEF Leave
<1>10. \A b : Post(r, b) => \A s \in Requests : s # r => req'[s] = req[s]
  BY <1>1 DEF Post
<1>11. QED
  BY <1>3, <1>4, <1>5, <1>6, <1>7, <1>8, <1>9, <1>10

\* A step between stages without the asyncio lock, which may begin or end the
\* transaction of the request.
LEMMA UnlockedStep ==
    ASSUME LocksInv, NEW r \in Requests,
           \A s \in Requests : s # r => req'[s] = req[s],
           req[r].pc \in {"idle", "event", "reject", "lock", "cleanup"},
           req'[r].pc \in {"idle", "event", "reject", "lock", "cleanup"},
           lock' = lock, mode' = mode,
           \/ writer' = writer
           \/ writer \in {Nobody, r} /\ writer' \in {Nobody, r},
           mode = "cloud" => req'[r].pc \in {"idle", "event", "reject"}
    PROVE  LocksInv'
<1>1. \A s \in Requests : lock' = s <=> req'[s].pc \in {"mark", "work", "write"}
  BY DEF LocksInv
<1>2. writer' = Processing <=> writer = Processing
  BY NobodyAssumption
<1>3. \A s \in Requests : req'[s].pc = "write" <=> req[s].pc = "write"
  OBVIOUS
<1>4. writer' = Processing <=> \E s \in Requests : req'[s].pc = "write"
  BY <1>2, <1>3 DEF LocksInv
<1>5. mode' = "cloud" => \A s \in Requests : req'[s].pc \in {"idle", "event", "reject"}
  BY DEF LocksInv
<1>6. lock' \in Requests \union {Nobody} /\ writer' \in Requests \union {Nobody, Processing}
  BY DEF LocksInv
<1>7. QED
  BY <1>1, <1>4, <1>5, <1>6 DEF LocksInv, Processing

\* A step of the holder of the asyncio lock, to or from that lock.
LEMMA LockedStep ==
    ASSUME LocksInv, NEW r \in Requests, mode = "inline", mode' = mode,
           \A s \in Requests : s # r => req'[s] = req[s],
           lock \in {Nobody, r}, lock' \in {Nobody, r},
           lock' = r <=> req'[r].pc \in {"mark", "work", "write"},
           \/ writer' = writer /\ req[r].pc # "write" /\ req'[r].pc # "write"
           \/ writer' = Processing /\ req'[r].pc = "write"
           \/ writer' = Nobody /\ req[r].pc = "write" /\ req'[r].pc # "write"
    PROVE  LocksInv'
<1>1. Nobody \notin Requests /\ Processing \notin Requests \union {Nobody}
  BY NobodyAssumption
<1>2. \A s \in Requests : s # r => req[s].pc \notin {"mark", "work", "write"}
  BY <1>1 DEF LocksInv
<1>3. \A s \in Requests : lock' = s <=> req'[s].pc \in {"mark", "work", "write"}
  BY <1>1, <1>2
<1>4. (\E s \in Requests : req[s].pc = "write") <=> req[r].pc = "write"
  BY <1>2
<1>5. (\E s \in Requests : req'[s].pc = "write") <=> req'[r].pc = "write"
  BY <1>2
<1>6. writer' = Processing <=> req'[r].pc = "write"
  BY <1>1, <1>4 DEF LocksInv
<1>7. lock' \in Requests \union {Nobody} /\ writer' \in Requests \union {Nobody, Processing}
  BY DEF LocksInv
<1>8. QED
  BY <1>3, <1>5, <1>6, <1>7 DEF LocksInv, Processing

\* Every step keeps the locks consistent with the stages of their holders.
LEMMA LocksStep ==
    ASSUME TypesInv, LocksInv, [ModesNext]_allvars
    PROVE  LocksInv'
<1>1. CASE UNCHANGED <<req, mode, lock, writer>>
  BY <1>1 DEF LocksInv
<1>2. ASSUME NEW r \in Requests, Base(r), UNCHANGED <<mode, lock>>,
             \/ writer' = writer
             \/ writer \in {Nobody, r} /\ writer' \in {Nobody, r},
             mode = "cloud" \/ req[r].pc \in {"event", "reject"}
      PROVE  LocksInv'
  <2>1. /\ req'[r].pc \in {"idle", "event", "reject"}
        /\ \A s \in Requests : s # r => req'[s] = req[s]
    <3>1. CASE \E rows : Advance(r, rows)
      BY <3>1, StageAfter
    <3>2. CASE Leave(r)
      BY <3>2, StageAfter
    <3>3. CASE Stage(r, "reject")
      BY <3>3, StageAfter
    <3>4. (\E rows : Advance(r, rows)) \/ Leave(r) \/ Stage(r, "reject")
      BY <1>2 DEF Base, RejectReplay, Unauthorized, RejectionSent, EnqueueInbound, Answer,
                  RejectionFails, EnqueueFails, CommitFails, AnswerLost, RequestDies, Stage
    <3>5. QED
      BY <3>1, <3>2, <3>3, <3>4
  <2>2. req[r].pc \in {"idle", "event", "reject"}
    BY <1>2 DEF Base, RejectReplay, Unauthorized, RejectionSent, EnqueueInbound, Answer,
                RejectionFails, EnqueueFails, CommitFails, AnswerLost, LocksInv, AtEvent
  <2>3. QED
    BY <1>2, <2>1, <2>2, UnlockedStep
<1>3. ASSUME NEW r \in Requests, NEW b \in Batches, Post(r, b), UNCHANGED <<mode, lock, writer>>
      PROVE  LocksInv'
  <2>1. /\ req'[r].pc = "event" /\ req[r].pc = "idle"
        /\ \A s \in Requests : s # r => req'[s] = req[s]
    BY <1>3, StageAfter DEF Post
  <2>2. QED
    BY <1>3, <2>1, UnlockedStep
<1>4. CASE mode = "cloud" /\ Next /\ UNCHANGED inline /\ UNCHANGED mode
  <2>1. CASE Tick \/ Rest
    BY <1>1, <1>4, <2>1 DEF Tick, Rest, vars, inline
  <2>2. ASSUME NEW r \in Requests, NEW b \in Batches, Post(r, b)
        PROVE  LocksInv'
    BY <1>3, <1>4, <2>2 DEF inline
  <2>3. ASSUME NEW r \in Requests, Progress(r) \/ Failure(r)
        PROVE  LocksInv'
    BY <1>2, <1>4, <2>3 DEF inline, Base, Progress, Failure
  <2>4. QED
    BY <1>4, <2>1, <2>2, <2>3 DEF Next
<1>5. ASSUME NEW r \in Requests, mode = "inline", mode' = mode, Inlined(r)
      PROVE  LocksInv'
  <2>1. Nobody \notin Requests /\ Processing \notin Requests \union {Nobody}
    BY NobodyAssumption
  <2>2. lock = r <=> req[r].pc \in {"mark", "work", "write"}
    BY DEF LocksInv
  <2>3. writer = Processing <=> \E s \in Requests : req[s].pc = "write"
    BY DEF LocksInv
  <2>4. CASE LogLocked(r) \/ CleanupInline(r) \/ CleanupLocked(r)
    <3>1. /\ req'[r].pc = "idle" /\ \A s \in Requests : s # r => req'[s] = req[s]
          /\ req[r].pc \in {"event", "reject", "cleanup"} /\ lock' = lock
      BY <2>4, StageAfter DEF LogLocked, CleanupInline, CleanupLocked, AtEvent, inline
    <3>2. writer' = writer \/ (writer \in {Nobody, r} /\ writer' \in {Nobody, r})
      BY <2>4 DEF LogLocked, CleanupInline, CleanupLocked, inline
    <3>3. QED
      BY <1>5, <3>1, <3>2, UnlockedStep
  <2>5. CASE ProcessInline(r)
    <3>1. /\ req'[r].pc = "lock" /\ \A s \in Requests : s # r => req'[s] = req[s]
          /\ req[r].pc = "event" /\ UNCHANGED <<lock, writer>>
      BY <2>5, StageAfter DEF ProcessInline, AtEvent, inline
    <3>2. QED
      BY <1>5, <3>1, UnlockedStep
  <2>6. CASE TakeLock(r)
    <3>1. /\ req'[r].pc = "mark" /\ \A s \in Requests : s # r => req'[s] = req[s]
          /\ req[r].pc = "lock" /\ lock = Nobody /\ lock' = r /\ writer' = writer
      BY <2>6, StageAfter DEF TakeLock
    <3>2. QED
      BY <1>5, <3>1, LockedStep
  <2>7. CASE MarkInline(r) /\ Message(r) \in marks
    <3>1. Advance(r, {})
      BY <2>7 DEF MarkInline
    <3>2. req'[r].pc = "event" /\ \A s \in Requests : s # r => req'[s] = req[s]
      BY <3>1, StageAfter
    <3>3. req[r].pc = "mark" /\ lock' = Nobody /\ writer' = writer
      BY <2>7 DEF MarkInline
    <3>4. QED
      BY <1>5, <2>1, <2>2, <3>2, <3>3, LockedStep
  <2>8. CASE MarkInline(r) /\ Message(r) \notin marks
    <3>1. Stage(r, "work")
      BY <2>8 DEF MarkInline
    <3>2. req'[r].pc = "work" /\ \A s \in Requests : s # r => req'[s] = req[s]
      BY <3>1, StageAfter
    <3>3. req[r].pc = "mark" /\ lock' = lock /\ writer' = writer
      BY <2>8 DEF MarkInline
    <3>4. QED
      BY <1>5, <2>2, <3>2, <3>3, LockedStep
  <2>9. CASE WriteInline(r)
    <3>1. /\ req'[r].pc = "write" /\ \A s \in Requests : s # r => req'[s] = req[s]
          /\ req[r].pc = "work" /\ lock' = lock /\ writer' = Processing
      BY <2>9, StageAfter DEF WriteInline
    <3>2. QED
      BY <1>5, <2>2, <3>1, LockedStep
  <2>10. CASE FinishInline(r)
    <3>1. Advance(r, {})
      BY <2>10 DEF FinishInline
    <3>2. req'[r].pc = "event" /\ \A s \in Requests : s # r => req'[s] = req[s]
      BY <3>1, StageAfter
    <3>3. req[r].pc = "write" /\ lock' = Nobody /\ writer' = Nobody
      BY <2>10 DEF FinishInline
    <3>4. QED
      BY <1>5, <2>1, <2>2, <3>2, <3>3, LockedStep
  <2>11. CASE WorkLocked(r) \/ WorkRaises(r)
    <3>1. Stage(r, "cleanup") /\ lock' = Nobody /\ req[r].pc \in {"mark", "work", "write"}
      BY <2>11 DEF WorkLocked, WorkRaises
    <3>2. req'[r].pc = "cleanup" /\ \A s \in Requests : s # r => req'[s] = req[s]
      BY <3>1, StageAfter
    <3>3. writer' = IF req[r].pc = "write" THEN Nobody ELSE writer
      BY <2>11 DEF WorkLocked, WorkRaises
    <3>4. QED
      BY <1>5, <2>1, <2>2, <3>1, <3>2, <3>3, LockedStep
  <2>12. QED
    BY <1>5, <2>4, <2>5, <2>6, <2>7, <2>8, <2>9, <2>10, <2>11 DEF Inlined
<1>6. CASE mode = "inline" /\ mode' = mode /\ InlineNext
  <2>1. CASE (Tick /\ UNCHANGED inline) \/ InlineRest
    BY <1>1, <1>6, <2>1 DEF Tick, InlineRest, allvars, vars, inline
  <2>2. ASSUME NEW r \in Requests, NEW b \in Batches, InlinePost(r, b)
        PROVE  LocksInv'
    BY <1>3, <1>6, <2>2 DEF InlinePost, inline
  <2>3. ASSUME NEW r \in Requests, LogAudit(r)
        PROVE  LocksInv'
    <3>1. Base(r) /\ req[r].pc \in {"event", "reject"}
      BY <2>3 DEF LogAudit, Base, RejectReplay, RejectionSent, RejectionFails, AtEvent
    <3>2. QED
      BY <1>2, <1>6, <2>3, <3>1 DEF LogAudit, MayLog
  <2>4. ASSUME NEW r \in Requests, EndInline(r)
        PROVE  LocksInv'
    <3>1. Base(r) /\ req[r].pc = "event"
      BY <2>4 DEF EndInline, Base, Answer, CommitFails, AnswerLost
    <3>2. writer' = writer \/ (writer \in {Nobody, r} /\ writer' \in {Nobody, r})
      BY <2>4 DEF EndInline
    <3>3. QED
      BY <1>2, <1>6, <2>4, <3>1, <3>2 DEF EndInline
  <2>5. ASSUME NEW r \in Requests, Unauthorized(r), UNCHANGED inline
        PROVE  LocksInv'
    <3>1. Base(r) /\ req[r].pc = "event"
      BY <2>5 DEF Base, Unauthorized, AtEvent
    <3>2. QED
      BY <1>2, <1>6, <2>5, <3>1 DEF inline
  <2>6. QED
    BY <1>5, <1>6, <2>1, <2>2, <2>3, <2>4, <2>5 DEF InlineNext, InlineProgress, Inlined
<1>7. CASE UNCHANGED allvars
  BY <1>1, <1>7 DEF allvars, vars, inline
<1>8. QED
  BY <1>4, <1>6, <1>7 DEF ModesNext

\* Every step keeps the counters, the queue and the marks typed.
LEMMA TablesStep ==
    ASSUME TypesInv, TablesInv, [ModesNext]_allvars
    PROVE  TablesInv'
<1>1. CASE UNCHANGED <<posts, tasks, late, mode, marks, skipped>>
  BY <1>1 DEF TablesInv
<1>2. ASSUME NEW r \in Requests, Base(r), mode' = mode, UNCHANGED <<marks, skipped>>
      PROVE  TablesInv'
  <2>1. UNCHANGED <<posts, tasks, late>> \/ AtEvent(r)
    BY <1>2 DEF Base, RejectReplay, Unauthorized, RejectionSent, EnqueueInbound, Answer,
                RejectionFails, EnqueueFails, CommitFails, AnswerLost, RequestDies
  <2>2. CASE UNCHANGED <<posts, tasks, late>>
    BY <1>1, <1>2, <2>2
  <2>3. CASE AtEvent(r)
    <3>1. Event(r).wamid \in Wamids
      BY <2>3, MessageTyped
    <3>2. /\ posts' = posts
          /\ tasks' \in {tasks, tasks \union {Event(r).wamid}}
          /\ late' \in {late, late \union {Event(r).wamid}}
      BY <1>2, <2>3 DEF Base, RejectReplay, Unauthorized, RejectionSent, EnqueueInbound, Answer,
                RejectionFails, EnqueueFails, CommitFails, AnswerLost, RequestDies
    <3>3. QED
      BY <1>2, <3>1, <3>2 DEF TablesInv
  <2>4. QED
    BY <2>1, <2>2, <2>3
<1>3. ASSUME NEW r \in Requests, NEW b \in Batches, Post(r, b), UNCHANGED <<mode, marks, skipped>>
      PROVE  TablesInv'
  <2>1. posts' = [posts EXCEPT ![b] = @ + 1] /\ posts[b] < MaxPosts /\ UNCHANGED <<tasks, late>>
    BY <1>3 DEF Post
  <2>2. posts[b] + 1 \in 0..MaxPosts
    BY <2>1 DEF TablesInv
  <2>3. QED
    BY <1>3, <2>1, <2>2 DEF TablesInv
<1>4. CASE Next /\ UNCHANGED inline /\ UNCHANGED mode
  <2>1. CASE Tick \/ Rest
    BY <1>1, <1>4, <2>1 DEF Tick, Rest, vars, inline
  <2>2. ASSUME NEW r \in Requests, NEW b \in Batches, Post(r, b)
        PROVE  TablesInv'
    BY <1>3, <1>4, <2>2 DEF inline
  <2>3. ASSUME NEW r \in Requests, Progress(r) \/ Failure(r)
        PROVE  TablesInv'
    BY <1>2, <1>4, <2>3 DEF inline, Base, Progress, Failure
  <2>4. QED
    BY <1>4, <2>1, <2>2, <2>3 DEF Next
<1>5. ASSUME NEW r \in Requests, mode' = mode, Inlined(r)
      PROVE  TablesInv'
  <2>1. UNCHANGED <<posts, tasks, late, marks, skipped>> \/ req[r].pc \in Handling
    BY <1>5 DEF Inlined, LogLocked, ProcessInline, TakeLock, MarkInline, WriteInline, FinishInline,
           WorkLocked, WorkRaises, CleanupInline, CleanupLocked, Handling, inline, Still
  <2>2. CASE UNCHANGED <<posts, tasks, late, marks, skipped>>
    BY <1>1, <1>5, <2>2
  <2>3. CASE req[r].pc \in Handling
    <3>1. Message(r) \in Wamids
      BY <2>3, MessageTyped DEF Message
    <3>2. /\ posts' = posts /\ late' = late
          /\ tasks' \in {tasks, tasks \union {Message(r)}}
          /\ marks' \in {marks, marks \union {Message(r)}, marks \ {Message(r)}}
          /\ skipped' \in {skipped, skipped \union ({Message(r)} \ tasks)}
      BY <1>5 DEF Inlined, LogLocked, ProcessInline, TakeLock, MarkInline, WriteInline,
             FinishInline, WorkLocked, WorkRaises, CleanupInline, CleanupLocked, inline, Still
    <3>3. QED
      BY <1>5, <3>1, <3>2 DEF TablesInv
  <2>4. QED
    BY <2>1, <2>2, <2>3
<1>6. CASE mode' = mode /\ InlineNext
  <2>1. CASE (Tick /\ UNCHANGED inline) \/ InlineRest
    BY <1>1, <1>6, <2>1 DEF Tick, InlineRest, allvars, vars, inline
  <2>2. ASSUME NEW r \in Requests, NEW b \in Batches, InlinePost(r, b)
        PROVE  TablesInv'
    BY <1>3, <1>6, <2>2 DEF InlinePost, inline
  <2>3. ASSUME NEW r \in Requests, InlineProgress(r) \/ WorkRaises(r)
        PROVE  TablesInv'
    <3>1. Inlined(r) \/ (Base(r) /\ UNCHANGED <<marks, skipped>>)
      BY <2>3 DEF InlineProgress, Inlined, Base, LogAudit, EndInline, inline
    <3>2. QED
      BY <1>2, <1>5, <1>6, <3>1
  <2>4. QED
    BY <1>6, <2>1, <2>2, <2>3 DEF InlineNext
<1>7. CASE UNCHANGED allvars
  BY <1>1, <1>7 DEF allvars, vars, inline
<1>8. QED
  BY <1>4, <1>6, <1>7 DEF ModesNext

-----------------------------------------------------------------------------
\* The slots of the rejections

\* An injection of the library, spelt out.
LEMMA Injective ==
    ASSUME NEW A, NEW S, NEW f
    PROVE  f \in Injection(A, S) <=>
              f \in [A -> S] /\ \A i, j \in A : f[i] = f[j] => i = j
BY DEF Injection, IsInjective

\* A larger range.
LEMMA Ranged ==
    ASSUME NEW A, NEW S, NEW f \in Injection(A, S), NEW T, S \subseteq T
    PROVE  f \in Injection(A, T)
BY Injective

\* A one-to-one function can give the place of one value to a new one.
LEMMA Replaced ==
    ASSUME NEW A, NEW S, NEW f \in Injection(A, S),
           NEW a, NEW b, b \notin S, a # b, NEW T, S \subseteq T, b \in T
    PROVE  \E g : /\ g \in Injection(A, T)
                  /\ \A i \in A : g[i] # a /\ (g[i] = f[i] \/ g[i] = b)
<1> DEFINE g == [i \in A |-> IF f[i] = a THEN b ELSE f[i]]
<1>1. f \in [A -> S] /\ \A i, j \in A : f[i] = f[j] => i = j
  BY Injective
<1>2. g \in [A -> T]
  BY <1>1
<1>3. ASSUME NEW i \in A, NEW j \in A, g[i] = g[j]
      PROVE  i = j
  <2>1. f[i] # b /\ f[j] # b
    BY <1>1
  <2>2. QED
    BY <1>1, <1>3, <2>1
<1>4. \A i \in A : g[i] # a /\ (g[i] = f[i] \/ g[i] = b)
  BY <1>1
<1> HIDE DEF g
<1>5. g \in Injection(A, T)
  BY <1>2, <1>3, Injective
<1>6. QED
  BY <1>4, <1>5

With(A, n) == A \union {n}
Longer(f, A, n, b) == [i \in With(A, n) |-> IF i = n THEN b ELSE f[i]]

\* It can take one more argument to a value it does not have.
LEMMA Lengthened ==
    ASSUME NEW A, NEW S, NEW f \in Injection(A, S),
           NEW n, n \notin A, NEW b, \A i \in A : f[i] # b, NEW T, S \subseteq T, b \in T
    PROVE  /\ Longer(f, A, n, b) \in Injection(With(A, n), T)
           /\ Longer(f, A, n, b)[n] = b /\ \A i \in A : Longer(f, A, n, b)[i] = f[i]
<1> DEFINE g == Longer(f, A, n, b)
<1>1. f \in [A -> S] /\ \A i, j \in A : f[i] = f[j] => i = j
  BY Injective
<1>2. g[n] = b /\ \A i \in A : g[i] = f[i]
  BY DEF Longer, With
<1>3. g \in [With(A, n) -> T]
  BY <1>1 DEF With, Longer
<1> HIDE DEF g
<1>4. \A i, j \in With(A, n) : g[i] = g[j] => i = j
  BY <1>1, <1>2 DEF With
<1>5. g \in Injection(With(A, n), T)
  BY <1>3, <1>4, Injective
<1>6. QED
  BY <1>2, <1>5 DEF g

\* A failure brings a slot of its own.
LEMMA SlotsGrow ==
    ASSUME failures \in Nat, failures' \in Nat, failures' >= failures
    PROVE  /\ Slots \subseteq Slots'
           /\ OfFailure(failures + 1) \notin Slots
           /\ failures' > failures => OfFailure(failures + 1) \in Slots'
           /\ \A r \in Requests : OfRequest(r) \in Slots /\ OfRequest(r) \in Slots'
           /\ \A r : OfRequest(r) # OfFailure(failures + 1)
           /\ \A r, s : OfRequest(r) = OfRequest(s) => r = s
<1>1. 1..failures \subseteq 1..failures'
  OBVIOUS
<1>2. Slots \subseteq Slots'
  BY <1>1 DEF Slots, OfRequest, OfFailure
<1>3. \A n, m : OfFailure(n) = OfFailure(m) => n = m
  BY DEF OfFailure
<1>4. \A r, n : OfRequest(r) # OfFailure(n)
  BY DEF OfRequest, OfFailure
<1>5. OfFailure(failures + 1) \notin Slots
  <2>1. SUFFICES ASSUME OfFailure(failures + 1) \in Slots PROVE FALSE
    OBVIOUS
  <2>2. PICK n \in 1..failures : OfFailure(failures + 1) = OfFailure(n)
    BY <1>4, <2>1 DEF Slots
  <2>3. failures + 1 = n
    BY <1>3, <2>2
  <2>4. QED
    BY <2>2, <2>3
<1>6. failures' > failures => OfFailure(failures + 1) \in Slots'
  BY DEF Slots, OfFailure
<1>7. \A r \in Requests : OfRequest(r) \in Slots /\ OfRequest(r) \in Slots'
  BY DEF Slots, OfRequest
<1>8. \A r, s : OfRequest(r) = OfRequest(s) => r = s
  BY DEF OfRequest
<1>9. QED
  BY <1>2, <1>4, <1>5, <1>6, <1>7, <1>8

\* What the requests that do not move own.
LEMMA OthersOwn ==
    ASSUME NEW r \in Requests, NEW p, NEW t, NEW f, Explains(f, p, t),
           audit \subseteq audit', \A s \in Requests : s # r => req'[s] = req[s],
           \A i \in Sent(p, t) : notices'[i] = notices[i],
           NEW s \in Requests, s # r, NEW i \in Sent(p, t), f[i] = OfRequest(s)
    PROVE  Owns(req[s], i)'
<1>1. Owns(req[s], i) /\ req'[s] = req[s] /\ notices'[i] = notices[i]
  BY DEF Explains
<1>2. QED
  BY <1>1 DEF Owns, Kept

\* The step of a request that sends nothing to the phone in the window, when
\* it keeps what it owns.
LEMMA OwnerKeeps ==
    ASSUME TypesInv, NEW r \in Requests, NEW p, NEW t, NEW f, Explains(f, p, t),
           audit \subseteq audit', \A s \in Requests : s # r => req'[s] = req[s],
           \A i \in Sent(p, t) : notices'[i] = notices[i],
           failures' \in Nat, failures' >= failures, Sent(p, t)' = Sent(p, t),
           \A i \in Sent(p, t) : f[i] = OfRequest(r) => Owns(req[r], i)'
    PROVE  Explains(f, p, t)'
<1>1. Slots \subseteq Slots'
  BY SlotsGrow DEF TypesInv
<1>2. f \in Injection(Sent(p, t), Slots)
  BY DEF Explains
<1>3. PICK A, S, T : A = Sent(p, t) /\ A = Sent(p, t)' /\ S = Slots /\ T = Slots'
  OBVIOUS
<1>5. f \in Injection(A, T)
  BY <1>1, <1>2, <1>3, Ranged
<1>4. \A i \in Sent(p, t)', s \in Requests : f[i] = OfRequest(s) => Owns(req[s], i)'
  BY OthersOwn
<1>6. QED
  BY <1>3, <1>4, <1>5 DEF Explains

\* When it fails, the failure takes its slot.
LEMMA FailureTakes ==
    ASSUME TypesInv, NEW r \in Requests, NEW p, NEW t, NEW f, Explains(f, p, t),
           audit \subseteq audit', \A s \in Requests : s # r => req'[s] = req[s],
           \A i \in Sent(p, t) : notices'[i] = notices[i],
           failures' = failures + 1, Sent(p, t)' = Sent(p, t)
    PROVE  \E g : Explains(g, p, t)'
<1>1. PICK b : b = OfFailure(failures + 1)
  OBVIOUS
<1>2. /\ Slots \subseteq Slots' /\ b \notin Slots /\ b \in Slots'
      /\ \A s : OfRequest(s) # b
  BY <1>1, SlotsGrow DEF TypesInv
<1>3. f \in Injection(Sent(p, t), Slots)
  BY DEF Explains
<1>4. PICK a : a = OfRequest(r)
  OBVIOUS
<1>5. PICK g : /\ g \in Injection(Sent(p, t), Slots')
               /\ \A i \in Sent(p, t) : g[i] # a /\ (g[i] = f[i] \/ g[i] = b)
  <2>1. PICK A, S, T : A = Sent(p, t) /\ S = Slots /\ T = Slots'
    OBVIOUS
  <2>2. f \in Injection(A, S) /\ b \notin S /\ a # b /\ S \subseteq T /\ b \in T
    BY <1>2, <1>3, <1>4, <2>1
  <2>3. \E g : /\ g \in Injection(A, T)
               /\ \A i \in A : g[i] # a /\ (g[i] = f[i] \/ g[i] = b)
    BY <2>2, Replaced
  <2>4. QED
    BY <2>1, <2>3
<1>6. \A i \in Sent(p, t), s \in Requests : g[i] = OfRequest(s) => s # r /\ f[i] = OfRequest(s)
  BY <1>2, <1>4, <1>5
<1>7. \A i \in Sent(p, t)', s \in Requests : g[i] = OfRequest(s) => Owns(req[s], i)'
  BY <1>6, OthersOwn
<1>8. PICK A, T : A = Sent(p, t) /\ A = Sent(p, t)' /\ T = Slots'
  OBVIOUS
<1>9. g \in Injection(A, T)
  BY <1>5, <1>8
<1>10. Explains(g, p, t)'
  BY <1>7, <1>8, <1>9 DEF Explains
<1>11. QED
  BY <1>10

\* A rejection that is in the window as well finds that the request owns none
\* there, and takes either its slot or that of the failure.
LEMMA NoticeTakes ==
    ASSUME TypesInv, NEW r \in Requests, NEW p \in Phones, NEW t \in 0..MaxTime,
           NEW f, Explains(f, p, t),
           audit \subseteq audit', \A s \in Requests : s # r => req'[s] = req[s],
           req[r].pc = "reject", NEW row \in Rows, row.phone = Event(r).phone, row.at = now,
           notices' = Append(notices, row), row.phone = p, now \in t..(t + RejectionWindow),
           failures' \in Nat, failures' >= failures,
           NEW b \in Slots', (\E n : b = OfFailure(n) /\ b \notin Slots) \/ b = OfRequest(r),
           NEW n, n = Len(notices) + 1, b = OfRequest(r) => Owns(req[r], n)'
    PROVE  \E g : Explains(g, p, t)'
<1>1. /\ notices \in Seq(Rows) /\ now \in Nat /\ t \in Nat
      /\ Fits(req[r]) /\ EventOf(req[r]) = Event(r)
  BY RequestFits DEF TypesInv
<1>3. /\ Len(notices) \in Nat /\ DOMAIN notices = 1..Len(notices) /\ DOMAIN notices' = 1..n
      /\ notices'[n] = row /\ \A i \in DOMAIN notices : notices'[i] = notices[i]
  BY <1>1
<1>4. n \notin DOMAIN notices /\ DOMAIN notices' = DOMAIN notices \union {n}
  BY <1>3
<1>5. Sent(p, t)' = Sent(p, t) \union {n} /\ n \notin Sent(p, t)
  BY <1>3, <1>4 DEF Sent
<1>6. \A i \in Sent(p, t) : f[i] # OfRequest(r)
  <2>1. SUFFICES ASSUME NEW i \in Sent(p, t), f[i] = OfRequest(r) PROVE FALSE
    OBVIOUS
  <2>2. Owns(req[r], i)
    BY <2>1 DEF Explains
  <2>3. notices[i].phone = p /\ notices[i].at \in t..(t + RejectionWindow)
    BY <2>1 DEF Sent
  <2>4. notices[i].at + RejectionWindow < req[r].at
    BY <1>1, <2>2, <2>3 DEF Owns
  <2>5. req[r].at <= now /\ req[r].at \in Nat
    BY <1>1 DEF Fits, Requested
  <2>6. QED
    BY <1>1, <2>3, <2>4, <2>5
<1>7. f \in Injection(Sent(p, t), Slots)
  BY DEF Explains
<1>8. \A i \in Sent(p, t) : f[i] # b
  <2>1. \A i \in Sent(p, t) : f[i] \in Slots
    BY <1>7, Injective
  <2>2. QED
    BY <1>6, <2>1
<1>9. Slots \subseteq Slots' /\ \A s, m : OfRequest(s) # OfFailure(m)
  BY <1>1, SlotsGrow DEF TypesInv, OfRequest, OfFailure
<1>10. PICK A, B, S, T : A = Sent(p, t) /\ B = Sent(p, t)' /\ S = Slots /\ T = Slots'
  BY <1>5
<1>11. PICK g : /\ g \in Injection(B, T)
                /\ g[n] = b /\ \A i \in A : g[i] = f[i]
  <2>1. /\ f \in Injection(A, S) /\ n \notin A /\ (\A i \in A : f[i] # b)
        /\ S \subseteq T /\ b \in T
    BY <1>5, <1>7, <1>8, <1>9, <1>10
  <2>2. PICK g : g = Longer(f, A, n, b)
    OBVIOUS
  <2>3. /\ g \in Injection(With(A, n), T)
        /\ g[n] = b /\ \A i \in A : g[i] = f[i]
    BY <2>1, <2>2, Lengthened
  <2>4. B = With(A, n)
    BY <1>5, <1>10 DEF With
  <2>5. QED
    BY <2>3, <2>4
<1>12. ASSUME NEW i \in Sent(p, t)', NEW s \in Requests, g[i] = OfRequest(s)
       PROVE  Owns(req[s], i)'
  <2>1. CASE i = n
    <3>1. b = OfRequest(r) /\ s = r
      <4>1. g[n] = b /\ b = OfRequest(s)
        BY <1>11, <1>12, <2>1
      <4>2. b = OfRequest(r)
        BY <1>9, <4>1
      <4>3. QED
        BY <4>1, <4>2 DEF OfRequest
    <3>2. QED
      BY <2>1, <3>1
  <2>2. CASE i # n
    <3>1. i \in Sent(p, t) /\ i \in A
      BY <1>5, <1>10, <2>2
    <3>2. f[i] = OfRequest(s)
      BY <1>11, <1>12, <3>1
    <3>3. s # r
      BY <1>6, <3>1, <3>2
    <3>4. \A j \in Sent(p, t) : notices'[j] = notices[j]
      BY <1>3 DEF Sent
    <3>5. Owns(req[s], i) /\ req'[s] = req[s] /\ notices'[i] = notices[i]
      BY <3>1, <3>2, <3>3, <3>4 DEF Explains
    <3>6. QED
      BY <3>5 DEF Owns, Kept
  <2>3. QED
    BY <2>1, <2>2
<1>13. Explains(g, p, t)'
  BY <1>10, <1>11, <1>12 DEF Explains
<1>14. QED
  BY <1>13

\* Every step leaves each rejection a slot of its own.
LEMMA ExplainedStep ==
    ASSUME TypesInv, Explained, [ModesNext]_allvars
    PROVE  Explained'
<1>1. CASE UNCHANGED <<audit, req, notices, failures>>
  <2>1. \A p, t : Sent(p, t)' = Sent(p, t)
    BY <1>1 DEF Sent
  <2>2. Slots' = Slots
    BY <1>1 DEF Slots
  <2>3. \A r, i : Owns(req[r], i) => Owns(req[r], i)'
    BY <1>1 DEF Owns, Kept
  <2>4. \A f, p, t : Explains(f, p, t) => Explains(f, p, t)'
    BY <2>1, <2>2, <2>3 DEF Explains
  <2>5. QED
    BY <2>4 DEF Explained
<1>2. ASSUME NEW r \in Requests, Moves(r), NEW p \in Phones, NEW t \in 0..MaxTime
      PROVE  \E g : Explains(g, p, t)'
  <2>1. PICK f : Explains(f, p, t)
    BY DEF Explained
  <2>2. failures \in Nat /\ notices \in Seq(Rows) /\ req \in [Requests -> Requested] /\ now \in Nat
    BY DEF TypesInv
  <2>3. \A s \in Requests : s # r => req'[s] = req[s]
    BY <1>2, <2>2 DEF Moves, Passes, Sends, Loses, Commits, Starts, Advance, Leave
  <2>4. audit \subseteq audit'
    BY <1>2 DEF Moves, Passes, Sends, Loses, Commits, Starts
  <2>5. IdleRequest.pc = "idle" /\ IdleRequest.rows = {}
    BY DEF IdleRequest
  <2>6. CASE notices' = notices
    <3>1. Sent(p, t)' = Sent(p, t) /\ \A i \in Sent(p, t) : notices'[i] = notices[i]
      BY <2>6 DEF Sent
    <3>2. \A i \in Sent(p, t) : f[i] = OfRequest(r) => Owns(req[r], i)
      BY <2>1 DEF Explains
    <3>3. CASE Passes(r)
      <4>1. PICK x : /\ req' = [req EXCEPT ![r] = x] /\ x.pc # "idle"
                     /\ x.at = req[r].at /\ x.rows = req[r].rows
                     /\ x.pc = "cleanup" => failures' = failures + 1
                     /\ x.pc = "reject" => MayReject(r, EventOf(x))
        BY <3>3 DEF Passes
      <4>2. CASE x.pc = "cleanup"
        BY <2>1, <2>3, <2>4, <3>1, <4>1, <4>2, FailureTakes
      <4>3. CASE x.pc # "cleanup"
        <5>1. req'[r] = x /\ req[r].pc # "idle" /\ audit' = audit
          BY <2>2, <3>3, <4>1 DEF Passes
        <5>2. ASSUME NEW i \in Sent(p, t), Owns(req[r], i)
              PROVE  Owns(req[r], i)'
          <6>1. notices[i] \in audit \union x.rows
            BY <4>1, <5>2 DEF Owns, Kept
          <6>2. notices[i] \in Rows
            BY <2>2, <5>2 DEF Sent
          <6>3. ASSUME x.pc = "reject", EventOf(x).phone = notices[i].phone
                PROVE  notices[i].at + RejectionWindow < x.at
            <7>1. ~ (notices[i].at + RejectionWindow >= req[r].at)
              BY <4>1, <6>1, <6>3 DEF MayReject
            <7>2. notices[i].at \in Nat /\ req[r].at \in Nat
              BY <2>2, <6>2 DEF Rows, Requested
            <7>3. QED
              BY <4>1, <7>1, <7>2
          <6>4. QED
            BY <3>1, <4>1, <4>3, <5>1, <6>1, <6>3 DEF Owns, Kept
        <5>3. failures' \in Nat /\ failures' >= failures
          BY <3>3 DEF Passes
        <5>4. Explains(f, p, t)'
          BY <2>1, <2>3, <2>4, <3>1, <3>2, <5>2, <5>3, OwnerKeeps
        <5>5. QED
          BY <5>4
      <4>4. QED
        BY <4>2, <4>3
    <3>4. CASE Loses(r) /\ failures' = failures + 1
      BY <2>1, <2>3, <2>4, <3>1, <3>4, FailureTakes
    <3>5. CASE \/ Loses(r) /\ failures' # failures + 1
               \/ Commits(r) \/ Starts(r)
      <4>1. failures' \in Nat /\ failures' >= failures
        <5>1. CASE Commits(r)
          BY <5>1 DEF Commits
        <5>2. CASE failures' = failures
          BY <2>2, <5>2
        <5>3. QED
          BY <3>5, <5>1, <5>2 DEF Loses, Starts
      <4>2. req'[r].pc \in {"idle", "event"} /\ req'[r].rows = {}
        BY <2>2, <2>5, <3>5 DEF Loses, Commits, Starts, Leave, IdleRequest
      <4>3. Kept(req[r]) \subseteq audit'
        BY <2>4, <3>5 DEF Loses, Commits, Starts, Kept
      <4>4. \A i \in Sent(p, t) : f[i] = OfRequest(r) => Owns(req[r], i)'
        BY <3>1, <3>2, <4>2, <4>3 DEF Owns, Kept
      <4>5. Explains(f, p, t)'
        BY <2>1, <2>3, <2>4, <3>1, <4>1, <4>4, OwnerKeeps
      <4>6. QED
        BY <4>5
    <3>6. CASE Sends(r)
      <4>1. notices' = Append(notices, [phone |-> Event(r).phone, at |-> now])
        BY <3>6 DEF Sends
      <4>2. Len(notices') = Len(notices) + 1
        BY <2>2, <4>1
      <4>3. QED
        BY <2>2, <2>6, <4>2
    <3>7. QED
      BY <1>2, <3>3, <3>4, <3>5, <3>6 DEF Moves
  <2>7. CASE notices' # notices
    <3>1. PICK row : row = [phone |-> Event(r).phone, at |-> now]
      OBVIOUS
    <3>2. req[r].pc = "reject" /\ notices' = Append(notices, row) /\ (Sends(r) \/ Loses(r))
      BY <1>2, <2>7, <3>1 DEF Moves, Passes, Sends, Loses, Commits, Starts
    <3>3. row \in Rows /\ row.phone = Event(r).phone /\ row.at = now
      BY <3>1, <3>2, NoticeTyped
    <3>4. PICK n : n = Len(notices) + 1
      OBVIOUS
    <3>5. /\ Len(notices) \in Nat /\ DOMAIN notices = 1..Len(notices) /\ DOMAIN notices' = 1..n
          /\ notices'[n] = row /\ \A i \in DOMAIN notices : notices'[i] = notices[i]
      BY <2>2, <3>2, <3>3, <3>4
    <3>6. DOMAIN notices' = DOMAIN notices \union {n} /\ n \notin DOMAIN notices
      BY <3>4, <3>5
    <3>7. \A i \in Sent(p, t) : notices'[i] = notices[i]
      BY <3>5 DEF Sent
    <3>8. failures' \in Nat /\ failures' >= failures
      BY <2>2, <2>7, <3>2 DEF Sends, Loses
    <3>9. CASE Sends(r) /\ failures' = failures
      <4>1. Advance(r, {row}) /\ audit' = audit
        BY <2>2, <3>1, <3>9 DEF Sends
      <4>2. req'[r].pc = "event" /\ req'[r].rows = req[r].rows \union {row}
        BY <2>2, <4>1 DEF Advance, Requested
      <4>3. CASE row.phone = p /\ now \in t..(t + RejectionWindow)
        <5>1. Owns(req[r], n)'
          BY <3>5, <4>2 DEF Owns, Kept
        <5>2. PICK b : b = OfRequest(r)
          OBVIOUS
        <5>3. b \in Slots'
          BY <2>2, <3>8, <5>2, SlotsGrow
        <5>4. QED
          BY <2>1, <2>3, <2>4, <3>2, <3>3, <3>4, <3>8, <4>3, <5>1, <5>2, <5>3, NoticeTakes
      <4>4. CASE ~ (row.phone = p /\ now \in t..(t + RejectionWindow))
        <5>1. Sent(p, t)' = Sent(p, t)
          BY <3>3, <3>5, <3>6, <4>4 DEF Sent
        <5>2. \A i \in Sent(p, t) : f[i] = OfRequest(r) => Owns(req[r], i)'
          BY <2>1, <3>2, <3>7, <4>1, <4>2 DEF Explains, Owns, Kept
        <5>3. Explains(f, p, t)'
          BY <2>1, <2>3, <2>4, <3>7, <3>8, <5>1, <5>2, OwnerKeeps
        <5>4. QED
          BY <5>3
      <4>5. QED
        BY <4>3, <4>4
    <3>10. CASE Loses(r) \/ (Sends(r) /\ failures' # failures)
      <4>1. failures' = failures + 1
        BY <2>7, <3>10 DEF Sends, Loses
      <4>2. CASE row.phone = p /\ now \in t..(t + RejectionWindow)
        <5>1. PICK b : b = OfFailure(failures + 1)
          OBVIOUS
        <5>2. b \in Slots' /\ b \notin Slots /\ b # OfRequest(r)
          BY <2>2, <3>8, <4>1, <5>1, SlotsGrow
        <5>3. QED
          BY <2>1, <2>3, <2>4, <3>2, <3>3, <3>4, <3>8, <4>2, <5>1, <5>2, NoticeTakes
      <4>3. CASE ~ (row.phone = p /\ now \in t..(t + RejectionWindow))
        <5>1. Sent(p, t)' = Sent(p, t)
          BY <3>3, <3>5, <3>6, <4>3 DEF Sent
        <5>2. QED
          BY <2>1, <2>3, <2>4, <3>7, <4>1, <5>1, FailureTakes
      <4>4. QED
        BY <4>2, <4>3
    <3>11. QED
      BY <3>2, <3>9, <3>10
  <2>8. QED
    BY <2>6, <2>7
<1>3. QED
  BY <1>1, <1>2, Steps DEF Tick, Explained

-----------------------------------------------------------------------------
\* The invariant

\* The initial states have the invariant.
LEMMA InitInv == ModesInit => IInv
<1> SUFFICES ASSUME ModesInit PROVE IInv
  OBVIOUS
<1>1. /\ now = 0 /\ acked = {} /\ req = [r \in Requests |-> IdleRequest] /\ audit = {}
      /\ notices = <<>> /\ failures = 0 /\ posts = [b \in Batches |-> 0] /\ tasks = {} /\ late = {}
      /\ mode \in Modes /\ lock = Nobody /\ writer = Nobody /\ marks = {} /\ skipped = {}
  BY DEF ModesInit, Init
<1>2. IdleRequest \in Requested /\ Fits(IdleRequest) /\ IdleRequest.pc = "idle"
  BY <1>1, IdleFits
<1>3. TypesInv
  BY <1>1, <1>2 DEF TypesInv
<1>4. TablesInv
  BY <1>1 DEF TablesInv
<1>5. LocksInv
  <2>1. \A r \in Requests : lock # r /\ req[r].pc = "idle"
    BY <1>1, <1>2, NobodyAssumption
  <2>2. writer # Processing
    BY <1>1, NobodyAssumption
  <2>3. QED
    BY <1>1, <2>1, <2>2 DEF LocksInv
<1>6. Dealt
  BY <1>1, <1>2 DEF Dealt
<1>7. Explained
  <2>1. SUFFICES ASSUME NEW p \in Phones, NEW t \in 0..MaxTime
                 PROVE  \E f : Explains(f, p, t)
    BY DEF Explained
  <2>2. Sent(p, t) = {}
    BY <1>1 DEF Sent
  <2>3. PICK A, S : A = Sent(p, t) /\ S = Slots
    OBVIOUS
  <2>4. PICK f : f = [i \in A |-> i]
    OBVIOUS
  <2>5. f \in [A -> S] /\ \A i, j \in A : f[i] = f[j] => i = j
    BY <2>2, <2>3, <2>4
  <2>6. f \in Injection(Sent(p, t), Slots)
    BY <2>3, <2>5, Injective
  <2>7. Explains(f, p, t)
    BY <2>2, <2>6 DEF Explains
  <2>8. QED
    BY <2>7
<1>8. QED
  BY <1>3, <1>4, <1>5, <1>6, <1>7 DEF IInv

\* The inductive invariant holds of every state.
THEOREM Invariant == Spec => []IInv
<1>1. ModesInit => IInv
  BY InitInv
<1>2. IInv /\ [ModesNext]_allvars => IInv'
  BY TypesStep, TablesStep, LocksStep, DealtStep, ExplainedStep DEF IInv
<1>3. QED
  BY <1>1, <1>2, PTL DEF Spec

\* The variables keep their types, the asyncio lock is held in the stages
\* between it and the reply, and the processing writes only under it.
THEOREM TypeCorrect == Spec => []InlineTypeOK
<1>1. IInv => InlineTypeOK
  BY DEF IInv, TypesInv, TablesInv, LocksInv, Fits, Requested, InlineTypeOK, TypeOK
<1>2. QED
  BY <1>1, Invariant, PTL

\* A batch with an answer is dealt with, event by event (receive_webhook, and
\* the inline processing): whatever fails before the answer, the answer is
\* 500 or lost, and Meta posts the batch again.
THEOREM AckedHandled == Spec => []AckedIsHandled
<1>1. IInv => AckedIsHandled
  <2>1. SUFFICES ASSUME Dealt, NEW w \in Missed PROVE w \in skipped
    BY DEF IInv, AckedIsHandled
  <2>2. PICK e \in Events : /\ w = e.wamid /\ e.phone \in Operators
                            /\ e.wamid \notin tasks \union late
                            /\ \E b \in acked : \E i \in DOMAIN EventsOf[b] : EventsOf[b][i] = e
    BY <2>1 DEF Missed
  <2>3. DealtWith(e)
    BY <2>1, <2>2 DEF Dealt
  <2>4. QED
    BY <2>2, <2>3 DEF DealtWith
<1>2. QED
  BY <1>1, Invariant, PTL

\* There are as many slots as requests and failures.
LEMMA SlotsCounted ==
    ASSUME failures \in Nat
    PROVE  /\ IsFiniteSet(Slots)
           /\ Cardinality(Slots) <= Cardinality(Requests) + failures
<1>1. PICK A, B, N : /\ A = {OfRequest(r) : r \in Requests}
                     /\ N = 1..failures /\ B = {OfFailure(n) : n \in N}
  OBVIOUS
<1>2. PICK f, g : f = [r \in Requests |-> OfRequest(r)] /\ g = [n \in N |-> OfFailure(n)]
  OBVIOUS
<1>3. f \in Surjection(Requests, A) /\ g \in Surjection(N, B)
  BY <1>1, <1>2 DEF Surjection
<1>4. IsFiniteSet(N) /\ Cardinality(N) = failures
  BY <1>1, FS_Interval
<1>5. /\ IsFiniteSet(A) /\ Cardinality(A) <= Cardinality(Requests)
      /\ IsFiniteSet(B) /\ Cardinality(B) <= Cardinality(N)
  BY <1>3, <1>4, FS_Surjection, RequestsAssumption
<1>6. IsFiniteSet(A \union B) /\ IsFiniteSet(A \intersect B)
  BY <1>5, FS_Union, FS_Intersection
<1>7. PICK a, b, c, d, e : /\ a = Cardinality(A) /\ b = Cardinality(B)
                           /\ c = Cardinality(A \union B) /\ d = Cardinality(A \intersect B)
                           /\ e = Cardinality(Requests)
  OBVIOUS
<1>8. a \in Nat /\ b \in Nat /\ c \in Nat /\ d \in Nat /\ e \in Nat
  BY <1>5, <1>6, <1>7, FS_CardinalityType, RequestsAssumption
<1>9. c = a + b - d
  BY <1>5, <1>7, FS_Union
<1>10. a <= e /\ b <= failures
  BY <1>4, <1>5, <1>7
<1>11. c <= e + failures
  BY <1>8, <1>9, <1>10
<1>12. Slots = A \union B
  BY <1>1 DEF Slots
<1>13. QED
  BY <1>6, <1>7, <1>11, <1>12

\* A window sees no more rejections to a phone than there are requests and
\* failures (_should_send_unauthorized_rejection, whose lookup does not see
\* the rows of other requests, and loses those that were rolled back).
THEOREM RejectionsLimited == Spec => []RejectionsBounded
<1>1. IInv => RejectionsBounded
  <2>1. SUFFICES ASSUME TypesInv, Explained, NEW p \in Phones, NEW t \in 0..MaxTime
                 PROVE  Cardinality(Sent(p, t)) <= Cardinality(Requests) + failures
    BY DEF IInv, RejectionsBounded, Sent
  <2>2. PICK f : Explains(f, p, t)
    BY <2>1 DEF Explained
  <2>3. IsFiniteSet(Slots) /\ Cardinality(Slots) <= Cardinality(Requests) + failures
    BY <2>1, SlotsCounted DEF TypesInv
  <2>4. PICK A, S : A = Sent(p, t) /\ S = Slots
    OBVIOUS
  <2>5. f \in Injection(A, S) /\ IsFiniteSet(S)
    BY <2>2, <2>3, <2>4 DEF Explains
  <2>6. IsFiniteSet(A) /\ Cardinality(A) <= Cardinality(S)
    BY <2>5, FS_Injection
  <2>7. PICK a, s, e : a = Cardinality(A) /\ s = Cardinality(S) /\ e = Cardinality(Requests)
    OBVIOUS
  <2>8. a \in Nat /\ s \in Nat /\ e \in Nat /\ a <= s /\ s <= e + failures /\ failures \in Nat
    BY <2>1, <2>3, <2>4, <2>5, <2>6, <2>7, FS_CardinalityType, RequestsAssumption DEF TypesInv
  <2>9. a <= e + failures
    BY <2>8
  <2>10. QED
    BY <2>4, <2>7, <2>9
<1>2. QED
  BY <1>1, Invariant, PTL

=============================================================================
