------------------------- MODULE VariantPollingProofs -------------------------
(***************************************************************************)
(* Proofs about VariantPolling: for any intervals, timeouts, numbers of    *)
(* attempts and pictures, the times of the polls and of the submissions    *)
(* stay within the limits that the intervals and timeouts give them.       *)
(***************************************************************************)
EXTENDS VariantPolling, TLAPS

USE TimesAssumption

-----------------------------------------------------------------------------
\* The inductive invariant

PollStages == Asking \union {"none", "loop", "sleep", "timeout", "broken"} \union Ended
Polls == [pc : PollStages, time : Nat, interval : 1..MaxInterval, deadline : Nat]
Calls == [pc : Requests \union {"none", "backoff"}, time : Nat, began : Nat,
          left : 0..MaxReferences, attempt : 0..MaxAttempts, delay : 1..MaxDelay]

\* A slot is polled once it has a job; those of Gemini are kept with their
\* result.
JobsInv ==
    \A s \in Slots :
        /\ poll[s].pc # "none" => job[s] # "none"
        /\ provider = "gemini" => job[s] \in {"none", "completed"}

\* A job that ended can be missed for the last request and the sleep after it.
Missed == RequestTimeout + MaxInterval

\* A poll asks before its deadline, waits for the answer, perhaps for that of
\* the fallback URL too, and then sleeps. The clock stands at the head of its
\* loop. While no answer was retryable, the job still ran at the last request.
PollInTime(s) ==
    /\ poll[s].pc = "fetch" => poll[s].time <= poll[s].deadline
    /\ poll[s].pc = "fallback" => Urls = 2 /\ poll[s].time <= poll[s].deadline + RequestTimeout
    /\ poll[s].pc \in Asking => poll[s].time <= now /\ now <= poll[s].time + RequestTimeout
    /\ poll[s].pc = "sleep" =>
          /\ poll[s].time <= poll[s].deadline + Round
          /\ now <= poll[s].time /\ poll[s].time <= now + MaxInterval
    /\ poll[s].pc = "timeout" => now > poll[s].deadline
    /\ errors = 0 /\ job[s] \in Ended =>
          /\ poll[s].pc = "sleep" => poll[s].time <= endedAt[s] + Missed
          /\ poll[s].pc = "loop" /\ now > poll[s].deadline => now <= endedAt[s] + Missed
          /\ poll[s].pc = "timeout" => poll[s].deadline < endedAt[s] + Missed

\* The clock of a pair that is polled stops a round after the deadline, which
\* both slots share.
PairInTime ==
    /\ \A s, q \in Slots : poll[s].deadline = poll[q].deadline
    /\ outcome = "submit" => \A s \in Slots : poll[s].pc = "none"
    /\ outcome = "poll" =>
          \A s \in Slots : poll[s].pc # "none" /\ now <= poll[s].deadline + Round

\* What a number of requests and delays may take.
Cost(requests, delays) == requests * RequestTimeout + delays * MaxDelay

\* A submission is in its current request, or its delay, since or until a
\* time that the requests and delays before it account for.
CallInTime ==
    /\ call.pc \in Requests => call.time <= now /\ now <= call.time + RequestTimeout
    /\ call.pc = "build" =>
          /\ call.time <= call.began + Cost(MaxReferences - call.left, 0)
          /\ call.left = 0 => now = call.time
    /\ call.pc = "post" =>
          /\ call.attempt >= 1
          /\ call.time <= call.began + Cost(MaxReferences + (call.attempt - 1), call.attempt - 1)
    /\ call.pc = "backoff" =>
          /\ call.attempt >= 1 /\ call.attempt < MaxAttempts
          /\ now <= call.time
          /\ call.time <= call.began + Cost(MaxReferences + call.attempt, call.attempt)
    /\ call.pc = "file" =>
          call.time <= call.began + Cost(MaxReferences + MaxAttempts, MaxAttempts - 1)
    /\ call.pc = "store" =>
          call.time <= call.began + Cost(MaxReferences + MaxAttempts + 1, MaxAttempts - 1)

IInv ==
    /\ TypeOK /\ JobsInv /\ PairInTime /\ CallInTime
    /\ \A s \in Slots : PollInTime(s)

-----------------------------------------------------------------------------
\* Helpers

\* More requests and delays cost more, and one request more costs at most
\* its timeout more.
LEMMA Costs ==
    ASSUME NEW a \in Nat, NEW b \in Nat, NEW c \in Nat, NEW d \in Nat, a <= c, b <= d
    PROVE  /\ Cost(a, b) \in Nat /\ Cost(c, d) \in Nat
           /\ Cost(a, b) <= Cost(c, d)
           /\ Cost(a + 1, b) = Cost(a, b) + RequestTimeout
           /\ Cost(a, b + 1) = Cost(a, b) + MaxDelay
<1>1. PICK m, n : m = c - a /\ n = d - b
  OBVIOUS
<1>2. m \in Nat /\ n \in Nat /\ c = a + m /\ d = b + n
  BY <1>1
<1>3. ASSUME NEW x \in Nat, NEW y \in Nat, NEW k \in Nat
      PROVE  (x + y) * k = x * k + y * k /\ x * k \in Nat /\ (x + 1) * k = x * k + k
  OBVIOUS
<1>4. c * RequestTimeout = a * RequestTimeout + m * RequestTimeout
  BY <1>2, <1>3
<1>5. d * MaxDelay = b * MaxDelay + n * MaxDelay
  BY <1>2, <1>3
<1>6. /\ a * RequestTimeout \in Nat /\ m * RequestTimeout \in Nat
      /\ b * MaxDelay \in Nat /\ n * MaxDelay \in Nat
      /\ (a + 1) * RequestTimeout = a * RequestTimeout + RequestTimeout
      /\ (b + 1) * MaxDelay = b * MaxDelay + MaxDelay
  BY <1>2, <1>3
<1>7. QED
  BY <1>4, <1>5, <1>6 DEF Cost

\* A round holds the requests of one look and a sleep.
LEMMA Rounds ==
    /\ Round \in Nat /\ Missed \in Nat /\ Missed <= Round
    /\ Urls = 2 => Round = RequestTimeout + Missed
<1>1. CASE Urls = 1
  BY <1>1 DEF Round, Missed
<1>2. CASE Urls = 2
  BY <1>2 DEF Round, Missed
<1>3. QED
  BY <1>1, <1>2

\* The poll of one slot moves.
LEMMA PollMoves ==
    ASSUME TypeOK, NEW s \in Slots, NEW pc \in PollStages, NEW time \in Nat,
           NEW interval \in 1..MaxInterval, SetPoll(s, pc, time, interval)
    PROVE  /\ poll' \in [Slots -> Polls]
           /\ poll'[s].pc = pc /\ poll'[s].time = time /\ poll'[s].interval = interval
           /\ poll'[s].deadline = poll[s].deadline
           /\ \A q \in Slots : q # s => poll'[q] = poll[q]
<1>1. poll \in [Slots -> Polls]
  BY DEF TypeOK, Polls, PollStages
<1>2. PICK x : x = [poll[s] EXCEPT !.pc = pc, !.time = time, !.interval = interval]
  OBVIOUS
<1>3. /\ x \in Polls /\ x.pc = pc /\ x.time = time /\ x.interval = interval
      /\ x.deadline = poll[s].deadline
  BY <1>1, <1>2 DEF Polls
<1>4. poll' = [poll EXCEPT ![s] = x]
  BY <1>1, <1>2 DEF SetPoll
<1>5. QED
  BY <1>1, <1>3, <1>4

\* Polling starts with the second slot, whose job is the last to be made.
LEMMA PollStarts ==
    ASSUME TypeOK, NEW s \in Slots, Submitted(s), JobsInv, PairInTime, Submitting(s),
           NEW x \in JobStates \ {"none"}, job' = [job EXCEPT ![s] = x], now' = now,
           provider' = provider, provider = "gemini" => x = "completed"
    PROVE  /\ poll' \in [Slots -> Polls] /\ outcome' \in Outcomes
           /\ JobsInv' /\ PairInTime'
           /\ \A q \in Slots : \/ poll'[q] = poll[q] /\ poll[q].pc = "none"
                               \/ poll'[q].pc = "loop" /\ poll'[q].deadline = now + Timeout
<1>1. /\ job \in [Slots -> JobStates] /\ poll \in [Slots -> Polls]
      /\ outcome \in Outcomes /\ now \in Nat
  BY DEF TypeOK, Polls, PollStages
<1>2. \A q \in Slots : poll[q].pc = "none"
  BY DEF PairInTime, Submitting
<1>3. \A q \in Slots : provider' = "gemini" => job'[q] \in {"none", "completed"}
  BY <1>1 DEF JobsInv
<1>4. CASE s = 2
  <2>1. outcome' = "poll"
    BY <1>4 DEF Submitted
  <2>2. PICK d, x0 : /\ d = now + Timeout
                    /\ x0 = [NoPoll EXCEPT !.pc = "loop", !.deadline = d]
    OBVIOUS
  <2>3. poll' = [q \in Slots |-> x0]
    BY <1>4, <2>2 DEF Submitted
  <2>4. x0 \in Polls /\ x0.pc = "loop" /\ x0.deadline = now + Timeout
    <3>1. NoPoll \in Polls
      BY DEF NoPoll, Polls, PollStages
    <3>2. "loop" \in PollStages
      BY DEF PollStages
    <3>3. d \in Nat
      BY <1>1, <2>2
    <3>4. QED
      BY <2>2, <3>1, <3>2, <3>3 DEF Polls
  <2>5. \A q \in Slots : job'[q] # "none"
    BY <1>1, <1>4 DEF Submitting, Slots
  <2>6. \A q \in Slots : now <= poll'[q].deadline + Round
    BY <1>1, <2>3, <2>4, Rounds
  <2>7. QED
    BY <1>3, <2>1, <2>3, <2>4, <2>5, <2>6 DEF JobsInv, PairInTime, Outcomes
<1>5. CASE s # 2
  BY <1>1, <1>2, <1>3, <1>5 DEF Submitted, JobsInv, PairInTime, Submitting
<1>6. QED
  BY <1>4, <1>5

-----------------------------------------------------------------------------
\* Types

\* The steps of one slot's poll.
PollStep(s) ==
    \/ FetchJobStatus(s) \/ TimeOut(s) \/ StatusNotFound(s) \/ StatusFinal(s) \/ StatusRunning(s)
    \/ StatusRetryable(s) \/ StatusFatal(s) \/ Wake(s)

\* What a step of a poll does to it.
LEMMA PollSteps ==
    ASSUME TypeOK, NEW s \in Slots, PollStep(s)
    PROVE  /\ UNCHANGED <<provider, call, now, job, endedAt, outcome>>
           /\ errors' \in {errors, errors + 1} /\ errors' \in 0..MaxErrors
           /\ poll' \in [Slots -> Polls]
           /\ \A q \in Slots : q # s => poll'[q] = poll[q]
           /\ poll'[s].deadline = poll[s].deadline /\ poll[s].pc # "none" /\ poll'[s].pc # "none"
           /\ \/ /\ poll[s].pc = "loop" /\ now <= poll[s].deadline
                 /\ poll'[s].pc = "fetch" /\ poll'[s].time = now
              \/ poll[s].pc = "loop" /\ now > poll[s].deadline /\ poll'[s].pc = "timeout"
              \/ poll'[s].pc \in Ended \union {"broken"}
              \/ /\ poll[s].pc = "fetch" /\ Urls = 2
                 /\ poll'[s].pc = "fallback" /\ poll'[s].time = now
              \/ /\ poll[s].pc \in Asking /\ poll'[s].pc = "sleep"
                 /\ poll'[s].time >= now /\ poll'[s].time <= now + MaxInterval
                 /\ job[s] = "running" \/ endedAt[s] >= poll[s].time \/ errors' = errors + 1
              \/ /\ poll[s].pc = "sleep" /\ poll[s].time <= now
                 /\ poll'[s].pc = "loop" /\ errors' = errors
<1>1. /\ poll \in [Slots -> Polls] /\ now \in Nat /\ errors \in 0..MaxErrors
      /\ poll[s].interval \in 1..MaxInterval /\ poll[s] \in Polls
      /\ {"loop", "fetch", "fallback", "sleep", "timeout", "broken"} \subseteq PollStages
      /\ job[s] \in Ended => job[s] \in PollStages
  BY DEF TypeOK, Polls, PollStages, Asking
<1>2. CASE FetchJobStatus(s)
  BY <1>1, <1>2, PollMoves DEF FetchJobStatus
<1>3. CASE TimeOut(s)
  BY <1>1, <1>3, PollMoves DEF TimeOut
<1>4. CASE StatusFinal(s)
  BY <1>1, <1>4, PollMoves DEF StatusFinal, Ended, Asking
<1>5. CASE StatusFatal(s)
  BY <1>1, <1>5, PollMoves DEF StatusFatal, Asking
<1>6. CASE Wake(s)
  BY <1>1, <1>6, PollMoves DEF Wake
<1>7. CASE StatusRunning(s) \/ StatusRetryable(s)
  <2>1. PICK t, i : /\ t = now + poll[s].interval
                    /\ i = IF poll[s].interval * 2 < MaxInterval THEN poll[s].interval * 2
                                                                 ELSE MaxInterval
    OBVIOUS
  <2>2. t \in Nat /\ t >= now /\ t <= now + MaxInterval /\ i \in 1..MaxInterval
    BY <1>1, <2>1
  <2>3. SetPoll(s, "sleep", t, i)
    BY <1>7, <2>1 DEF StatusRunning, StatusRetryable, SleepAndBackOff
  <2>4. /\ poll' \in [Slots -> Polls] /\ \A q \in Slots : q # s => poll'[q] = poll[q]
        /\ poll'[s].pc = "sleep" /\ poll'[s].time = t /\ poll'[s].deadline = poll[s].deadline
    BY <1>1, <2>2, <2>3, PollMoves
  <2>5. /\ UNCHANGED <<provider, call, now, job, endedAt, outcome>> /\ poll[s].pc \in Asking
        /\ \/ errors' = errors /\ (job[s] = "running" \/ endedAt[s] >= poll[s].time)
           \/ errors' = errors + 1 /\ errors < MaxErrors
    BY <1>7 DEF StatusRunning, StatusRetryable
  <2>6. errors' \in {errors, errors + 1} /\ errors' \in 0..MaxErrors
    BY <1>1, <2>5
  <2>7. QED
    BY <2>2, <2>4, <2>5, <2>6 DEF Asking
<1>8. CASE StatusNotFound(s)
  BY <1>1, <1>8, PollMoves DEF StatusNotFound
<1>9. QED
  BY <1>2, <1>3, <1>4, <1>5, <1>6, <1>7, <1>8 DEF PollStep

\* The steps of a submission to Gemini, without its last ones.
CallStep ==
    \/ \E s \in Slots : BuildRequestPayload(s)
    \/ AppendInlineImage \/ PostPrompt \/ RetryLater \/ RepeatPost \/ ImageAnswered
    \/ FileDownloaded

\* The next delay is no longer than the cap.
LEMMA DelayCapped == \A d \in 1..MaxDelay : BackedOff(d) \in 1..MaxDelay
BY DEF BackedOff

\* What such a step does.
LEMMA CallSteps ==
    ASSUME TypeOK, CallInTime, CallStep
    PROVE  /\ UNCHANGED <<provider, now, job, endedAt, poll, outcome, errors>>
           /\ call' \in Calls /\ CallInTime'
<1>1. /\ call \in Calls /\ now \in Nat
      /\ UNCHANGED <<provider, now, job, endedAt, poll, outcome, errors>>
  <2>1. call \in Calls /\ now \in Nat
    BY DEF TypeOK, Calls
  <2>2. CASE \E s \in Slots : BuildRequestPayload(s)
    BY <2>1, <2>2 DEF BuildRequestPayload
  <2>3. CASE AppendInlineImage \/ PostPrompt \/ RetryLater \/ RepeatPost
    BY <2>1, <2>3 DEF AppendInlineImage, PostPrompt, RetryLater, RepeatPost
  <2>4. CASE ImageAnswered \/ FileDownloaded
    BY <2>1, <2>4 DEF ImageAnswered, FileDownloaded
  <2>5. QED
    BY <2>2, <2>3, <2>4 DEF CallStep
<1>2. /\ call.time \in Nat /\ call.began \in Nat /\ call.left \in 0..MaxReferences
      /\ call.attempt \in 0..MaxAttempts /\ call.delay \in 1..MaxDelay
  BY <1>1 DEF Calls
<1>3. PICK t, l, a, d : t = call.time /\ l = call.left /\ a = call.attempt /\ d = call.delay
  OBVIOUS
<1>4. t \in Nat /\ l \in 0..MaxReferences /\ a \in 0..MaxAttempts /\ d \in 1..MaxDelay
  BY <1>2, <1>3
<1>5. CASE \E s \in Slots : BuildRequestPayload(s)
  <2>1. PICK n \in 0..MaxReferences :
           call' = [NoCall EXCEPT !.pc = "build", !.time = now, !.began = now, !.left = n]
    BY <1>5 DEF BuildRequestPayload
  <2>2. /\ call' \in Calls /\ call'.pc = "build" /\ call'.time = now /\ call'.began = now
        /\ call'.left = n
    <3>1. NoCall \in Calls
      BY DEF NoCall, Calls
    <3>2. "build" \in Requests
      BY DEF Requests
    <3>3. QED
      BY <1>1, <2>1, <3>1, <3>2 DEF Calls
  <2>3. Cost(MaxReferences - n, 0) \in Nat
    BY Costs
  <2>4. QED
    BY <1>1, <2>2, <2>3 DEF CallInTime, Requests
<1>6. CASE AppendInlineImage
  <2>1. PICK m : m = l - 1
    OBVIOUS
  <2>2. l > 0 /\ m \in 0..MaxReferences /\ MaxReferences - l \in Nat
    BY <1>3, <1>4, <1>6, <2>1 DEF AppendInlineImage
  <2>3. call' = [call EXCEPT !.left = m, !.time = now] /\ call.pc = "build"
    BY <1>3, <1>6, <2>1 DEF AppendInlineImage
  <2>4. /\ call' \in Calls /\ call'.pc = "build" /\ call'.time = now /\ call'.began = call.began
        /\ call'.left = m
    BY <1>1, <2>2, <2>3 DEF Calls
  <2>5. /\ Cost((MaxReferences - l) + 1, 0) = Cost(MaxReferences - l, 0) + RequestTimeout
        /\ Cost(MaxReferences - l, 0) \in Nat
    BY <2>2, Costs
  <2>6. MaxReferences - m = (MaxReferences - l) + 1
    BY <1>4, <2>1
  <2>7. now <= call.time + RequestTimeout /\ call.time <= call.began + Cost(MaxReferences - l, 0)
    BY <1>3, <2>3 DEF CallInTime, Requests
  <2>8. call'.time <= call'.began + Cost(MaxReferences - m, 0)
    BY <1>1, <1>2, <2>4, <2>5, <2>6, <2>7
  <2>9. QED
    BY <1>1, <2>4, <2>8 DEF CallInTime, Requests
<1>7. CASE PostPrompt
  <2>1. /\ call' = [call EXCEPT !.pc = "post", !.time = now, !.attempt = 1]
        /\ call.pc = "build" /\ l = 0
    BY <1>3, <1>7 DEF PostPrompt
  <2>2. /\ call' \in Calls /\ call'.pc = "post" /\ call'.time = now /\ call'.began = call.began
        /\ call'.attempt = 1
    <3>1. "post" \in Requests /\ 1 \in 0..MaxAttempts
      BY DEF Requests
    <3>2. QED
      BY <1>1, <2>1, <3>1 DEF Calls
  <2>3. now <= call.began + Cost(MaxReferences - 0, 0)
    BY <1>3, <2>1 DEF CallInTime
  <2>4. MaxReferences - 0 = MaxReferences + (1 - 1) /\ 1 - 1 = 0
    OBVIOUS
  <2>5. QED
    BY <1>1, <2>2, <2>3, <2>4 DEF CallInTime, Requests
<1>8. CASE RetryLater
  <2>1. PICK t2, d2 : t2 = now + d /\ d2 = BackedOff(d)
    OBVIOUS
  <2>2. t2 \in Nat /\ d2 \in 1..MaxDelay /\ t2 <= now + MaxDelay /\ now <= t2
    BY <1>1, <1>4, <2>1, DelayCapped
  <2>3. call' = [call EXCEPT !.pc = "backoff", !.time = t2, !.delay = d2]
    BY <1>3, <1>8, <2>1 DEF RetryLater
  <2>4. call.pc = "post" /\ a < MaxAttempts
    BY <1>3, <1>8 DEF RetryLater
  <2>5. /\ call' \in Calls /\ call'.pc = "backoff" /\ call'.time = t2 /\ call'.began = call.began
        /\ call'.attempt = a
    BY <1>1, <1>3, <2>2, <2>3 DEF Calls
  <2>6. /\ a >= 1 /\ t <= call.began + Cost(MaxReferences + (a - 1), a - 1)
        /\ now <= t + RequestTimeout
    BY <1>3, <2>4 DEF CallInTime, Requests
  <2>7. PICK x, y : x = MaxReferences + (a - 1) /\ y = a - 1
    OBVIOUS
  <2>8. x \in Nat /\ y \in Nat /\ x + 1 = MaxReferences + a /\ y + 1 = a
    BY <1>4, <2>6, <2>7
  <2>9. /\ Cost(x + 1, y + 1) = Cost(x, y + 1) + RequestTimeout
        /\ Cost(x, y + 1) = Cost(x, y) + MaxDelay
        /\ Cost(x, y) \in Nat
    <3>1. y + 1 \in Nat /\ x <= x /\ y <= y /\ y + 1 <= y + 1
      BY <2>8
    <3>2. Cost(x + 1, y + 1) = Cost(x, y + 1) + RequestTimeout
      BY <2>8, <3>1, Costs
    <3>3. Cost(x, y + 1) = Cost(x, y) + MaxDelay /\ Cost(x, y) \in Nat
      BY <2>8, <3>1, Costs
    <3>4. QED
      BY <3>2, <3>3
  <2>10. Cost(MaxReferences + a, a) = Cost(x, y) + RequestTimeout + MaxDelay
    BY <2>8, <2>9
  <2>11. t2 <= call.began + Cost(MaxReferences + a, a)
    BY <1>1, <1>2, <1>4, <2>2, <2>6, <2>7, <2>9, <2>10
  <2>12. QED
    BY <1>1, <2>2, <2>4, <2>5, <2>6, <2>11 DEF CallInTime, Requests
<1>9. CASE RepeatPost
  <2>1. PICK a2 : a2 = a + 1
    OBVIOUS
  <2>2. /\ call' = [call EXCEPT !.pc = "post", !.time = now, !.attempt = a2]
        /\ call.pc = "backoff" /\ t <= now
    BY <1>3, <1>9, <2>1 DEF RepeatPost
  <2>3. a >= 1 /\ a < MaxAttempts /\ now <= t /\ t <= call.began + Cost(MaxReferences + a, a)
    BY <1>3, <2>2 DEF CallInTime
  <2>4. a2 \in 1..MaxAttempts /\ a2 - 1 = a
    BY <1>4, <2>1, <2>3
  <2>5. /\ call' \in Calls /\ call'.pc = "post" /\ call'.time = now /\ call'.began = call.began
        /\ call'.attempt = a2
    <3>1. "post" \in Requests /\ a2 \in 0..MaxAttempts
      BY <2>4 DEF Requests
    <3>2. QED
      BY <1>1, <2>2, <3>1 DEF Calls
  <2>6. now <= call'.began + Cost(MaxReferences + (a2 - 1), a2 - 1)
    <3>1. now = t
      BY <1>1, <1>4, <2>2, <2>3
    <3>2. QED
      BY <2>3, <2>4, <2>5, <3>1
  <2>7. QED
    BY <1>1, <2>4, <2>5, <2>6 DEF CallInTime, Requests
<1>10. CASE ImageAnswered \/ FileDownloaded
  <2>1. PICK pc \in {"file", "store"} : call' = [call EXCEPT !.pc = pc, !.time = now]
    BY <1>10 DEF ImageAnswered, FileDownloaded, GoOn
  <2>2. call' \in Calls /\ call'.pc = pc /\ call'.time = now /\ call'.began = call.began
    BY <1>1, <2>1 DEF Calls, Requests
  <2>3. PICK X, Y : /\ X = Cost(MaxReferences + MaxAttempts, MaxAttempts - 1)
                    /\ Y = Cost(MaxReferences + MaxAttempts + 1, MaxAttempts - 1)
    OBVIOUS
  <2>4. X \in Nat /\ Y \in Nat /\ Y = X + RequestTimeout
    <3>1. MaxReferences + MaxAttempts \in Nat /\ MaxAttempts - 1 \in Nat
      OBVIOUS
    <3>2. QED
      BY <2>3, <3>1, Costs
  <2>5. CASE call.pc = "post"
    <3>1. /\ a >= 1 /\ t <= call.began + Cost(MaxReferences + (a - 1), a - 1)
          /\ now <= t + RequestTimeout
      BY <1>3, <2>5 DEF CallInTime, Requests
    <3>2. PICK x, y : x = MaxReferences + (a - 1) /\ y = a - 1
      OBVIOUS
    <3>3. x \in Nat /\ y \in Nat /\ x + 1 <= MaxReferences + MaxAttempts /\ y <= MaxAttempts - 1
      BY <1>4, <3>1, <3>2
    <3>4. Cost(x + 1, y) = Cost(x, y) + RequestTimeout /\ Cost(x, y) \in Nat
      BY <3>3, Costs
    <3>5. Cost(x + 1, y) <= X
      <4>1. /\ x + 1 \in Nat /\ MaxReferences + MaxAttempts \in Nat /\ MaxAttempts - 1 \in Nat
        BY <3>3
      <4>2. QED
        BY <2>3, <3>3, <4>1, Costs
    <3>6. now <= call.began + X
      BY <1>1, <1>2, <1>4, <2>4, <3>1, <3>2, <3>4, <3>5
    <3>7. now <= call.began + Y
      BY <1>1, <1>2, <2>4, <3>6
    <3>8. QED
      BY <1>1, <2>1, <2>2, <2>3, <3>6, <3>7 DEF CallInTime, Requests
  <2>6. CASE call.pc = "file" /\ pc = "store"
    <3>1. t <= call.began + X /\ now <= t + RequestTimeout
      BY <1>3, <2>3, <2>6 DEF CallInTime, Requests
    <3>2. now <= call.began + Y
      BY <1>1, <1>2, <1>4, <2>4, <3>1
    <3>3. QED
      BY <1>1, <2>2, <2>3, <2>6, <3>2 DEF CallInTime, Requests
  <2>7. call.pc = "post" \/ (call.pc = "file" /\ pc = "store")
    <3>1. CASE ImageAnswered
      BY <3>1 DEF ImageAnswered
    <3>2. CASE FileDownloaded
      BY <1>1, <2>2, <3>2 DEF FileDownloaded, GoOn, Calls
    <3>3. QED
      BY <1>10, <3>1, <3>2
  <2>8. QED
    BY <1>1, <2>2, <2>5, <2>6, <2>7
<1>11. QED
  BY <1>5, <1>6, <1>7, <1>8, <1>9, <1>10, <1>1 DEF CallStep

-----------------------------------------------------------------------------
\* The invariant

\* It holds before the pair is asked for.
LEMMA InitInv == Init => IInv
<1> SUFFICES ASSUME Init PROVE IInv
  OBVIOUS
<1>1. NoPoll \in Polls /\ NoPoll.pc = "none" /\ NoCall \in Calls /\ NoCall.pc = "none"
  BY DEF NoPoll, Polls, PollStages, NoCall, Calls
<1>2. /\ provider \in {"nano", "gemini"} /\ now = 0 /\ outcome = "submit" /\ errors = 0
      /\ call = NoCall /\ poll = [s \in Slots |-> NoPoll]
      /\ job = [s \in Slots |-> "none"] /\ endedAt = [s \in Slots |-> 0]
  BY DEF Init
<1>3. TypeOK
  <2>1. poll \in [Slots -> Polls] /\ call \in Calls
    BY <1>1, <1>2
  <2>2. QED
    BY <1>2, <2>1 DEF TypeOK, Polls, PollStages, Calls, JobStates, Outcomes
<1>4. \A s \in Slots : poll[s].pc = "none"
  BY <1>1, <1>2
<1>5. JobsInv /\ PairInTime /\ \A s \in Slots : PollInTime(s)
  BY <1>2, <1>4 DEF JobsInv, PairInTime, PollInTime, Asking
<1>6. CallInTime
  BY <1>1, <1>2 DEF CallInTime, Requests
<1>7. QED
  BY <1>3, <1>5, <1>6 DEF IInv

\* The clock waits for what is due.
LEMMA TickStep == ASSUME IInv, Tick PROVE IInv'
<1>1. /\ now \in 0..MaxTime /\ poll \in [Slots -> Polls] /\ call \in Calls /\ TypeOK
      /\ endedAt \in [Slots -> 0..MaxTime] /\ Round \in Nat /\ Missed \in Nat
  BY Rounds DEF IInv, TypeOK, Polls, PollStages, Calls
<1>2. /\ now < MaxTime /\ now' = now + 1 /\ \A s \in Slots : ~Due(s)
      /\ ~CallDue /\ (outcome = "poll" => Verdict = "poll")
      /\ UNCHANGED <<provider, call, job, endedAt, poll, outcome, errors>>
  BY DEF Tick
<1>3. TypeOK'
  BY <1>1, <1>2 DEF TypeOK
<1>4. JobsInv'
  BY <1>2 DEF IInv, JobsInv
<1>5. ASSUME NEW s \in Slots
      PROVE  /\ PollInTime(s)'
             /\ poll[s].pc \in Asking \union {"sleep"} => now + 1 <= poll[s].deadline + Round
             /\ poll[s].pc # "loop"
  <2>1. PollInTime(s) /\ ~Due(s)
    BY <1>2 DEF IInv
  <2>2. poll[s].time \in Nat /\ poll[s].deadline \in Nat /\ now \in Nat /\ endedAt[s] \in Nat
    BY <1>1 DEF Polls
  <2>3. PICK t, d, e : t = poll[s].time /\ d = poll[s].deadline /\ e = endedAt[s]
    OBVIOUS
  <2>4. /\ poll[s].pc = "fetch" => t <= d
        /\ poll[s].pc = "fallback" => Urls = 2 /\ t <= d + RequestTimeout
        /\ poll[s].pc \in Asking => t <= now /\ now + 1 <= t + RequestTimeout
    BY <1>1, <2>1, <2>2, <2>3 DEF PollInTime, Due
  <2>5. poll[s].pc = "sleep" => t <= d + Round /\ now + 1 <= t /\ t <= now + MaxInterval
    BY <1>1, <2>1, <2>2, <2>3 DEF PollInTime, Due
  <2>6. poll[s].pc # "loop"
    BY <2>1 DEF Due
  <2>7. poll[s].pc = "timeout" => now > d
    BY <2>1, <2>3 DEF PollInTime
  <2>8. PollInTime(s)'
    <3>1. poll' = poll /\ errors' = errors /\ job' = job /\ endedAt' = endedAt /\ now' = now + 1
      BY <1>2
    <3>2. errors = 0 /\ job[s] \in Ended =>
            /\ poll[s].pc = "sleep" => t <= e + Missed
            /\ poll[s].pc = "timeout" => d < e + Missed
      BY <2>1, <2>3 DEF PollInTime
    <3>3. /\ poll[s].pc \in Asking => t <= now + 1
          /\ poll[s].pc = "sleep" => t <= (now + 1) + MaxInterval
          /\ poll[s].pc = "timeout" => now + 1 > d
      BY <2>2, <2>3, <2>4, <2>5, <2>7
    <3>4. Round' = Round /\ Missed' = Missed
      BY DEF Round, Missed
    <3>5. QED
      BY <2>3, <2>4, <2>5, <2>6, <3>1, <3>2, <3>3, <3>4 DEF PollInTime
  <2>9. poll[s].pc \in Asking \union {"sleep"} => now + 1 <= d + Round
    <3>1. CASE poll[s].pc = "fetch"
      BY <1>1, <2>2, <2>3, <2>4, <3>1, Rounds DEF Asking, Missed
    <3>2. CASE poll[s].pc = "fallback"
      BY <1>1, <2>2, <2>3, <2>4, <3>2, Rounds DEF Asking, Missed
    <3>3. CASE poll[s].pc = "sleep"
      BY <1>1, <2>2, <2>3, <2>5, <3>3
    <3>4. QED
      BY <3>1, <3>2, <3>3 DEF Asking
  <2>10. QED
    BY <2>3, <2>6, <2>8, <2>9
<1>6. PairInTime'
  <2>1. CASE outcome # "poll"
    BY <1>2, <2>1 DEF IInv, PairInTime
  <2>2. CASE outcome = "poll"
    <3>1. \A s \in Slots : poll[s].pc # "none" /\ now <= poll[s].deadline + Round
      BY <2>2 DEF IInv, PairInTime
    <3>2. PICK q \in Slots : poll[q].pc \notin Ended \union {"timeout", "broken"}
      BY <1>2, <2>2 DEF Verdict
    <3>3. poll[q].pc \in Asking \union {"sleep"}
      BY <1>1, <1>5, <3>1, <3>2 DEF Polls, PollStages
    <3>4. now + 1 <= poll[q].deadline + Round
      BY <1>5, <3>3
    <3>5. ASSUME NEW s \in Slots PROVE poll[s].deadline = poll[q].deadline
      BY DEF IInv, PairInTime
    <3>6. QED
      BY <1>2, <2>2, <3>1, <3>4, <3>5 DEF PairInTime, Round
  <2>3. QED
    BY <2>1, <2>2
<1>7. CallInTime'
  <2>1. /\ call.time \in Nat /\ CallInTime /\ now \in Nat
    BY <1>1 DEF IInv, Calls
  <2>2. call.pc \in Requests => call.time <= now + 1 /\ now + 1 <= call.time + RequestTimeout
    BY <1>2, <2>1 DEF CallInTime, CallDue
  <2>3. call.pc = "build" => call.left # 0
    BY <1>2 DEF CallDue
  <2>4. call.pc = "backoff" => now + 1 <= call.time
    BY <1>2, <2>1 DEF CallDue
  <2>5. QED
    BY <1>2, <2>1, <2>2, <2>3, <2>4 DEF CallInTime
<1>8. QED
  BY <1>3, <1>4, <1>5, <1>6, <1>7 DEF IInv

\* A poll that moves keeps its times.
LEMMA PollStepInv == ASSUME IInv, NEW s \in Slots, PollStep(s) PROVE IInv'
<1>1. /\ TypeOK /\ JobsInv /\ PairInTime /\ CallInTime /\ \A q \in Slots : PollInTime(q)
      /\ now \in Nat /\ Round \in Nat /\ Missed \in Nat /\ endedAt[s] \in Nat /\ errors \in Nat
  BY Rounds DEF IInv, TypeOK
<1>2. /\ UNCHANGED <<provider, call, now, job, endedAt, outcome>>
      /\ errors' \in {errors, errors + 1} /\ errors' \in 0..MaxErrors
      /\ poll' \in [Slots -> Polls]
      /\ \A q \in Slots : q # s => poll'[q] = poll[q]
      /\ poll'[s].deadline = poll[s].deadline /\ poll[s].pc # "none" /\ poll'[s].pc # "none"
  BY <1>1, PollSteps
<1>3. TypeOK'
  BY <1>1, <1>2 DEF TypeOK, Polls, PollStages
<1>4. JobsInv' /\ PairInTime'
  <2>1. \A q \in Slots : poll'[q].deadline = poll[q].deadline
                         /\ (poll'[q].pc = "none" <=> poll[q].pc = "none")
    BY <1>2
  <2>2. QED
    BY <1>1, <1>2, <2>1 DEF JobsInv, PairInTime, Round
<1>5. CallInTime'
  BY <1>1, <1>2 DEF CallInTime
<1>6. errors' = 0 => errors = 0
  BY <1>1, <1>2
<1>7. ASSUME NEW q \in Slots, q # s
      PROVE  PollInTime(q)'
  BY <1>1, <1>2, <1>6, <1>7 DEF PollInTime, Round, Missed
<1>8. PollInTime(s)'
  <2>1. PICK x, y, e : x = poll[s] /\ y = poll'[s] /\ e = endedAt[s]
    OBVIOUS
  <2>2. x.time \in Nat /\ y.time \in Nat /\ x.deadline \in Nat /\ y.deadline = x.deadline
    BY <1>1, <1>2, <2>1 DEF TypeOK, Polls
  <2>3. \/ x.pc = "loop" /\ now <= x.deadline /\ y.pc = "fetch" /\ y.time = now
        \/ x.pc = "loop" /\ now > x.deadline /\ y.pc = "timeout"
        \/ y.pc \in Ended \union {"broken"}
        \/ x.pc = "fetch" /\ Urls = 2 /\ y.pc = "fallback" /\ y.time = now
        \/ /\ x.pc \in Asking /\ y.pc = "sleep" /\ y.time >= now /\ y.time <= now + MaxInterval
           /\ job[s] = "running" \/ e >= x.time \/ errors' = errors + 1
        \/ x.pc = "sleep" /\ x.time <= now /\ y.pc = "loop" /\ errors' = errors
    BY <1>1, <2>1, PollSteps
  <2>4. /\ x.pc = "fetch" => x.time <= x.deadline
        /\ x.pc = "fallback" => Urls = 2 /\ x.time <= x.deadline + RequestTimeout
        /\ x.pc \in Asking => x.time <= now /\ now <= x.time + RequestTimeout
        /\ x.pc = "sleep" => now <= x.time
        /\ errors = 0 /\ job[s] \in Ended =>
              /\ x.pc = "sleep" => x.time <= e + Missed
              /\ x.pc = "loop" /\ now > x.deadline => now <= e + Missed
    BY <1>1, <2>1 DEF PollInTime
  <2>5. /\ y.pc = "fetch" => y.time <= y.deadline
        /\ y.pc = "fallback" => Urls = 2 /\ y.time <= y.deadline + RequestTimeout
        /\ y.pc \in Asking => y.time <= now /\ now <= y.time + RequestTimeout
        /\ y.pc = "timeout" => now > y.deadline
    <3>1. CASE y.pc = "fallback"
      <4>1. x.pc = "fetch" /\ Urls = 2 /\ y.time = now
        BY <2>3, <3>1 DEF Ended
      <4>2. now <= x.deadline + RequestTimeout
        BY <1>1, <2>2, <2>4, <4>1 DEF Asking
      <4>3. QED
        BY <1>1, <2>2, <3>1, <4>1, <4>2
    <3>2. CASE y.pc # "fallback"
      BY <1>1, <2>2, <2>3, <3>2 DEF Ended, Asking
    <3>3. QED
      BY <3>1, <3>2
  <2>6. y.pc = "sleep" => /\ y.time <= y.deadline + Round
                          /\ now <= y.time /\ y.time <= now + MaxInterval
    <3>1. SUFFICES ASSUME y.pc = "sleep"
                   PROVE  /\ y.time <= y.deadline + Round
                          /\ now <= y.time /\ y.time <= now + MaxInterval
      OBVIOUS
    <3>2. x.pc \in Asking /\ y.time >= now /\ y.time <= now + MaxInterval
      BY <2>3, <3>1 DEF Ended
    <3>3. x.time <= now /\ now <= x.time + RequestTimeout
      BY <2>4, <3>2
    <3>4. CASE x.pc = "fetch"
      BY <1>1, <2>2, <2>4, <3>2, <3>3, <3>4, Rounds DEF Missed
    <3>5. CASE x.pc = "fallback"
      BY <1>1, <2>2, <2>4, <3>2, <3>3, <3>5, Rounds DEF Missed
    <3>6. QED
      BY <3>2, <3>4, <3>5 DEF Asking
  <2>7. errors' = 0 /\ job[s] \in Ended /\ y.pc = "sleep" => y.time <= e + Missed
    <3>1. SUFFICES ASSUME errors' = 0, job[s] \in Ended, y.pc = "sleep"
                   PROVE  y.time <= e + Missed
      OBVIOUS
    <3>2. /\ x.pc \in Asking /\ y.time <= now + MaxInterval
          /\ job[s] = "running" \/ e >= x.time \/ errors' = errors + 1
      BY <2>3, <3>1 DEF Ended
    <3>3. e >= x.time /\ e \in Nat
      BY <1>1, <2>1, <3>1, <3>2 DEF Ended
    <3>4. now <= x.time + RequestTimeout
      BY <2>4, <3>2
    <3>5. QED
      BY <1>1, <2>2, <3>2, <3>3, <3>4 DEF Missed
  <2>8. errors' = 0 /\ job[s] \in Ended =>
           /\ y.pc = "loop" /\ now > y.deadline => now <= e + Missed
           /\ y.pc = "timeout" => y.deadline < e + Missed
    <3>1. SUFFICES ASSUME errors' = 0, job[s] \in Ended
                   PROVE  /\ y.pc = "loop" /\ now > y.deadline => now <= e + Missed
                          /\ y.pc = "timeout" => y.deadline < e + Missed
      OBVIOUS
    <3>2. errors = 0 /\ e \in Nat
      BY <1>1, <1>6, <2>1, <3>1
    <3>3. CASE y.pc = "loop"
      <4>1. x.pc = "sleep" /\ x.time <= now
        BY <2>3, <3>3 DEF Ended, Asking
      <4>2. now <= x.time /\ x.time <= e + Missed
        BY <2>4, <3>1, <3>2, <4>1
      <4>3. QED
        BY <1>1, <2>2, <3>2, <3>3, <4>1, <4>2
    <3>4. CASE y.pc = "timeout"
      <4>1. x.pc = "loop" /\ now > x.deadline
        BY <2>3, <3>4 DEF Ended
      <4>2. now <= e + Missed
        BY <2>4, <3>1, <3>2, <4>1
      <4>3. QED
        BY <1>1, <2>2, <3>2, <3>4, <4>1, <4>2
    <3>5. QED
      BY <3>3, <3>4
  <2>9. QED
    BY <1>2, <2>1, <2>5, <2>6, <2>7, <2>8 DEF PollInTime, Round, Missed
<1>9. QED
  BY <1>3, <1>4, <1>5, <1>7, <1>8 DEF IInv

Gets(s, x) == job' = [job EXCEPT ![s] = x]

\* A slot gets a job, and the polls start with the second one.
LEMMA SubmittedStep ==
    ASSUME IInv, NEW s \in Slots, Submitting(s), Submitted(s),
           NEW x, x \in JobStates, x # "none", Gets(s, x),
           provider' = provider, now' = now, errors' = errors,
           provider = "gemini" => x = "completed",
           endedAt' \in [Slots -> 0..MaxTime], call' = call \/ call' = NoCall
    PROVE  IInv'
<1>1. TypeOK /\ JobsInv /\ PairInTime /\ CallInTime /\ now \in Nat
  BY DEF IInv, TypeOK
<1>2. /\ poll' \in [Slots -> Polls] /\ outcome' \in Outcomes /\ JobsInv' /\ PairInTime'
      /\ \A q \in Slots : \/ poll'[q] = poll[q] /\ poll[q].pc = "none"
                          \/ poll'[q].pc = "loop" /\ poll'[q].deadline = now + Timeout
  BY <1>1, PollStarts DEF Gets
<1>3. NoCall \in Calls /\ NoCall.pc = "none"
  BY DEF NoCall, Calls
<1>4. call' \in Calls
  BY <1>1, <1>3 DEF TypeOK, Calls
<1>5. job' \in [Slots -> JobStates]
  BY <1>1 DEF TypeOK, Gets
<1>6. TypeOK'
  BY <1>1, <1>2, <1>4, <1>5 DEF TypeOK, Polls, PollStages, Calls
<1>7. CallInTime'
  BY <1>1, <1>3 DEF CallInTime, Requests
<1>8. ASSUME NEW q \in Slots
      PROVE  PollInTime(q)'
  <2>1. poll'[q].pc = "none" \/ (poll'[q].pc = "loop" /\ now < poll'[q].deadline)
    BY <1>1, <1>2
  <2>2. PICK d : d = poll'[q].deadline
    OBVIOUS
  <2>3. poll'[q].pc = "loop" => d \in Nat /\ ~(now > d)
    BY <1>1, <1>2, <2>1, <2>2
  <2>4. QED
    BY <2>1, <2>2, <2>3 DEF PollInTime, Asking
<1>9. QED
  BY <1>2, <1>6, <1>7, <1>8 DEF IInv

\* Every step keeps the invariant.
LEMMA NextInv == ASSUME IInv, [Next]_vars PROVE IInv'
<1>1. /\ TypeOK /\ JobsInv /\ PairInTime /\ CallInTime
      /\ \A q \in Slots : PollInTime(q)
      /\ now \in Nat
  BY DEF IInv, TypeOK
<1>2. CASE UNCHANGED vars \/ Rest
  BY <1>1, <1>2
     DEF Rest, vars, IInv, TypeOK, JobsInv, PairInTime, CallInTime, PollInTime, Round, Missed
<1>3. CASE Tick
  BY <1>3, TickStep
<1>4. CASE Gather
  <2>1. outcome' \in {"pair", "incomplete", "error"}
    BY <1>4 DEF Gather, Verdict
  <2>2. UNCHANGED <<provider, call, now, job, endedAt, poll, errors>>
    BY <1>4 DEF Gather
  <2>3. QED
    BY <1>1, <2>1, <2>2
       DEF IInv, TypeOK, JobsInv, PairInTime, CallInTime, PollInTime, Outcomes, Round, Missed
<1>5. ASSUME NEW s \in Slots, PollStep(s) PROVE IInv'
  BY <1>5, PollStepInv
<1>6. CASE CallStep
  <2>1. /\ UNCHANGED <<provider, now, job, endedAt, poll, outcome, errors>>
        /\ call' \in Calls /\ CallInTime'
    BY <1>1, <1>6, CallSteps
  <2>2. TypeOK'
    BY <1>1, <2>1 DEF TypeOK, Calls
  <2>3. JobsInv' /\ PairInTime' /\ \A q \in Slots : PollInTime(q)'
    BY <1>1, <2>1 DEF JobsInv, PairInTime, PollInTime, Round, Missed
  <2>4. QED
    BY <2>1, <2>2, <2>3 DEF IInv
<1>7. ASSUME NEW s \in Slots, JobEnds(s) PROVE IInv'
  <2>1. PICK end \in Ended : job' = [job EXCEPT ![s] = end]
    BY <1>7 DEF JobEnds
  <2>2. /\ endedAt' = [endedAt EXCEPT ![s] = now] /\ provider = "nano"
        /\ UNCHANGED <<provider, call, now, poll, outcome, errors>>
    BY <1>7 DEF JobEnds
  <2>3. /\ job \in [Slots -> JobStates] /\ end \in JobStates \ {"none"}
        /\ endedAt \in [Slots -> 0..MaxTime] /\ now \in 0..MaxTime /\ poll \in [Slots -> Polls]
    BY <1>1 DEF TypeOK, JobStates, Ended, Polls, PollStages
  <2>4. job' \in [Slots -> JobStates] /\ endedAt' \in [Slots -> 0..MaxTime]
    BY <2>1, <2>2, <2>3
  <2>5. TypeOK'
    BY <1>1, <2>2, <2>4 DEF TypeOK
  <2>6. JobsInv' /\ PairInTime' /\ CallInTime'
    BY <1>1, <2>1, <2>2, <2>3 DEF JobsInv, PairInTime, CallInTime, Round
  <2>7. ASSUME NEW q \in Slots PROVE PollInTime(q)'
    <3>1. CASE q = s
      <4>1. endedAt'[s] = now /\ poll'[s] = poll[s] /\ now' = now
        BY <2>2, <2>3
      <4>2. poll[s].time \in Nat /\ poll[s].deadline \in Nat
        BY <2>3 DEF Polls
      <4>3. /\ poll[s].pc = "timeout" => poll[s].deadline < now + Missed
            /\ poll[s].pc = "sleep" => poll[s].time <= now + Missed
            /\ now <= now + Missed
        BY <1>1, <4>2, Rounds DEF PollInTime, Missed
      <4>4. QED
        BY <1>1, <3>1, <4>1, <4>3 DEF PollInTime, Round, Missed
    <3>2. CASE q # s
      <4>1. endedAt'[q] = endedAt[q] /\ job'[q] = job[q] /\ poll'[q] = poll[q]
        BY <2>1, <2>2, <2>3, <3>2
      <4>2. QED
        BY <1>1, <2>2, <4>1 DEF PollInTime, Round, Missed
    <3>3. QED
      BY <3>1, <3>2
  <2>8. QED
    BY <2>5, <2>6, <2>7 DEF IInv
<1>8. ASSUME NEW s \in Slots, SubmitForDraft(s) \/ KeepResult(s) PROVE IInv'
  <2>1. PICK x \in JobStates \ {"none"} : /\ job' = [job EXCEPT ![s] = x]
                                          /\ provider = "gemini" => x = "completed"
    BY <1>8 DEF SubmitForDraft, KeepResult, JobStates, Ended
  <2>2. /\ Submitting(s) /\ Submitted(s) /\ UNCHANGED <<provider, now, errors>>
        /\ call' = call \/ call' = NoCall
        /\ endedAt' \in [Slots -> 0..MaxTime]
    <3>1. now \in 0..MaxTime /\ endedAt \in [Slots -> 0..MaxTime]
      BY <1>1 DEF TypeOK
    <3>2. CASE SubmitForDraft(s)
      BY <3>1, <3>2 DEF SubmitForDraft
    <3>3. CASE KeepResult(s)
      BY <3>1, <3>3 DEF KeepResult
    <3>4. QED
      BY <1>8, <3>2, <3>3
  <2>3. x \in JobStates /\ x # "none"
    OBVIOUS
  <2>5. Gets(s, x)
    BY <2>1 DEF Gets
  <2>6. provider' = provider /\ now' = now /\ errors' = errors
    BY <2>2
  <2>4. QED
    BY <2>1, <2>2, <2>3, <2>5, <2>6, SubmittedStep
<1>9. ASSUME NEW s \in Slots, SubmitFails(s) PROVE IInv'
  <2>1. /\ job' \in {job, [job EXCEPT ![s] = "running"]} /\ outcome' = "error" /\ provider = "nano"
        /\ UNCHANGED <<provider, call, now, endedAt, poll, errors>> /\ outcome = "submit"
    BY <1>9 DEF SubmitFails, Submitting
  <2>2. \A q \in Slots : poll[q].pc = "none"
    BY <1>1, <2>1 DEF PairInTime
  <2>3. job' \in [Slots -> JobStates]
    BY <1>1, <2>1 DEF TypeOK, JobStates
  <2>4. QED
    BY <1>1, <2>1, <2>2, <2>3
       DEF IInv, TypeOK, JobsInv, PairInTime, CallInTime, PollInTime, Outcomes
<1>10. ASSUME GeminiFails PROVE IInv'
  <2>1. /\ call' = NoCall /\ outcome' = "error"
        /\ UNCHANGED <<provider, now, job, endedAt, poll, errors>>
    BY <1>10 DEF GeminiFails
  <2>2. NoCall \in Calls /\ NoCall.pc = "none"
    BY DEF NoCall, Calls
  <2>3. TypeOK' /\ CallInTime'
    BY <1>1, <2>1, <2>2 DEF TypeOK, CallInTime, Calls, Outcomes, Requests
  <2>4. QED
    BY <1>1, <2>1, <2>3 DEF IInv, JobsInv, PairInTime, PollInTime, Round, Missed
<1>11. ASSUME NEW s \in Slots, FindResult(s) PROVE IInv'
  <2>1. /\ poll' = [poll EXCEPT ![s].pc = "completed"] /\ poll[s].pc = "loop"
        /\ UNCHANGED <<provider, call, now, job, endedAt, outcome, errors>>
    BY <1>1, <1>11 DEF FindResult, JobsInv
  <2>2. poll \in [Slots -> Polls] /\ "completed" \in PollStages
    BY <1>1 DEF TypeOK, Polls, PollStages, Ended
  <2>3. /\ poll' \in [Slots -> Polls] /\ poll'[s].pc = "completed"
        /\ poll'[s].deadline = poll[s].deadline /\ \A q \in Slots : q # s => poll'[q] = poll[q]
    BY <2>1, <2>2 DEF Polls
  <2>4. TypeOK'
    BY <1>1, <2>1, <2>3 DEF TypeOK, Polls, PollStages
  <2>5. \A q \in Slots : /\ poll'[q].deadline = poll[q].deadline
                         /\ poll'[q].pc = "none" <=> poll[q].pc = "none"
    BY <2>1, <2>3
  <2>6. JobsInv' /\ PairInTime' /\ CallInTime'
    BY <1>1, <2>1, <2>5 DEF JobsInv, PairInTime, CallInTime, Round
  <2>7. \A q \in Slots : PollInTime(q)'
    BY <1>1, <2>1, <2>3 DEF PollInTime, Round, Missed, Asking
  <2>8. QED
    BY <2>4, <2>6, <2>7 DEF IInv
<1>12. QED
  BY <1>2, <1>3, <1>4, <1>5, <1>6, <1>7, <1>8, <1>9, <1>10, <1>11 DEF Next, PollStep, CallStep

\* The inductive invariant holds of every state.
THEOREM Invariant == Spec => []IInv
<1>1. Init => IInv
  BY InitInv
<1>2. IInv /\ [Next]_vars => IInv'
  BY NextInv
<1>3. QED
  BY <1>1, <1>2, PTL DEF Spec

\* Jobs, polls and submissions keep their types; intervals and delays stay
\* within their caps.
THEOREM TypeCorrect == Spec => []TypeOK
<1>1. IInv => TypeOK
  BY DEF IInv
<1>2. QED
  BY <1>1, Invariant, PTL

\* poll_variant_pair is over a round after the deadline of its polls, for any
\* intervals and timeouts, with and without a fallback URL.
THEOREM Decides == Spec => []DecidedInTime
<1>1. IInv => DecidedInTime
  <2>1. SUFFICES ASSUME IInv, NEW s \in Slots, poll[s].pc # "none",
                        now > poll[s].deadline + Round
                 PROVE  Decided
    BY DEF DecidedInTime
  <2>2. outcome \in Outcomes /\ now \in Nat /\ poll[s].deadline + Round \in Nat
    BY <2>1, Rounds DEF IInv, TypeOK
  <2>3. outcome # "submit" /\ outcome # "poll"
    BY <2>1, <2>2 DEF IInv, PairInTime
  <2>4. QED
    BY <2>2, <2>3 DEF Decided, Outcomes
<1>2. QED
  BY <1>1, Invariant, PTL

\* wait_for_completion times out on a job that had ended only when the job
\* ended within the last request and interval before the deadline, or after
\* it, unless an answer was retryable.
THEOREM Collects == Spec => []AnswerCollected
<1>1. IInv => AnswerCollected
  <2>1. SUFFICES ASSUME IInv, NEW s \in Slots, poll[s].pc = "timeout", job[s] \in Ended, errors = 0
                 PROVE  endedAt[s] + RequestTimeout + MaxInterval > poll[s].deadline
    BY DEF AnswerCollected
  <2>2. poll[s].deadline < endedAt[s] + Missed
    BY <2>1 DEF IInv, PollInTime
  <2>3. poll[s].deadline \in Nat /\ endedAt[s] \in Nat
    BY <2>1 DEF IInv, TypeOK
  <2>4. QED
    BY <2>2, <2>3 DEF Missed
<1>2. QED
  BY <1>1, Invariant, PTL

\* submit_for_draft (Gemini) ends within the time of its requests and of the
\* capped delays between its attempts, for any number of them.
THEOREM Submits == Spec => []SubmittedInTime
<1>1. IInv => SubmittedInTime
  <2>1. SUFFICES ASSUME IInv, call.pc # "none"
                 PROVE  now - call.began <= SubmissionLimit
    BY DEF SubmittedInTime
  <2>2. CallInTime /\ now \in Nat /\ call \in Calls
    BY <2>1 DEF IInv, TypeOK, Calls
  <2>3. /\ call.time \in Nat /\ call.began \in Nat /\ call.left \in 0..MaxReferences
        /\ call.attempt \in 0..MaxAttempts /\ call.pc \in Requests \union {"backoff"}
    BY <2>1, <2>2 DEF Calls
  <2>4. PICK A, D : A = MaxReferences + MaxAttempts /\ D = MaxAttempts - 1
    OBVIOUS
  <2>5. A \in Nat /\ D \in Nat /\ MaxReferences <= A /\ A + 1 \in Nat /\ A + 2 \in Nat
    BY <2>4
  <2>6. /\ Cost(A + 1, D) = Cost(A, D) + RequestTimeout
        /\ Cost((A + 1) + 1, D) = Cost(A + 1, D) + RequestTimeout
        /\ Cost(A, D) \in Nat
    BY <2>5, Costs
  <2>7. SubmissionLimit = Cost((A + 1) + 1, D)
    <3>1. (A + 1) + 1 = MaxReferences + MaxAttempts + 2
      BY <2>4
    <3>2. QED
      BY <2>4, <3>1 DEF SubmissionLimit, Cost
  <2>8. CASE call.pc = "build"
    <3>1. PICK l : l = MaxReferences - call.left
      OBVIOUS
    <3>2. l \in Nat /\ l <= A /\ 0 <= D
      BY <2>3, <2>5, <3>1
    <3>3. Cost(l, 0) <= Cost(A, D) /\ Cost(l, 0) \in Nat
      BY <2>5, <3>2, Costs
    <3>4. call.time <= call.began + Cost(l, 0) /\ now <= call.time + RequestTimeout
      BY <2>2, <2>8, <3>1 DEF CallInTime, Requests
    <3>5. QED
      BY <2>2, <2>3, <2>6, <2>7, <3>3, <3>4
  <2>9. CASE call.pc = "post"
    <3>1. PICK x, y : x = MaxReferences + (call.attempt - 1) /\ y = call.attempt - 1
      OBVIOUS
    <3>2. /\ call.attempt >= 1 /\ call.time <= call.began + Cost(x, y)
          /\ now <= call.time + RequestTimeout
      BY <2>2, <2>9, <3>1 DEF CallInTime, Requests
    <3>3. x \in Nat /\ x <= A /\ y \in Nat /\ y <= D
      BY <2>3, <2>4, <3>1, <3>2
    <3>4. Cost(x, y) <= Cost(A, D) /\ Cost(x, y) \in Nat
      BY <2>5, <3>3, Costs
    <3>5. QED
      BY <2>2, <2>3, <2>6, <2>7, <3>2, <3>4
  <2>10. CASE call.pc = "backoff"
    <3>1. PICK x, y : x = MaxReferences + call.attempt /\ y = call.attempt
      OBVIOUS
    <3>2. /\ call.attempt < MaxAttempts /\ call.time <= call.began + Cost(x, y)
          /\ now <= call.time
      BY <2>2, <2>10, <3>1 DEF CallInTime
    <3>3. x \in Nat /\ x <= A /\ y \in Nat /\ y <= D
      BY <2>3, <2>4, <3>1, <3>2
    <3>4. Cost(x, y) <= Cost(A, D) /\ Cost(x, y) \in Nat
      BY <2>5, <3>3, Costs
    <3>5. QED
      BY <2>2, <2>3, <2>6, <2>7, <3>2, <3>4
  <2>11. CASE call.pc = "file" \/ call.pc = "store"
    <3>1. /\ now <= call.time + RequestTimeout
          /\ call.pc = "file" => call.time <= call.began + Cost(A, D)
          /\ call.pc = "store" => call.time <= call.began + Cost(A + 1, D)
      BY <2>2, <2>4, <2>11 DEF CallInTime, Requests
    <3>2. QED
      BY <2>2, <2>3, <2>6, <2>7, <2>11, <3>1
  <2>12. QED
    BY <2>3, <2>8, <2>9, <2>10, <2>11 DEF Requests
<1>2. QED
  BY <1>1, Invariant, PTL

=============================================================================
