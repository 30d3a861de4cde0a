---------------------------- MODULE VariantPolling ----------------------------
(***************************************************************************)
(* Generation of a pair of variants, by either of the two services.        *)
(*                                                                         *)
(* Nano Banana has jobs: submit_variant_pair submits those of slots 1 and  *)
(* 2 one after the other; poll_variant_pair polls both at the same time,   *)
(* with an interval that doubles up to a maximum, until each ends or its   *)
(* deadline passes. A look at a job asks the status URL, and after a 404   *)
(* the fallback URL, if there is another one. The first poll that raises   *)
(* ends the pair; its sibling polls on, and nobody waits for its result    *)
(* (asyncio.gather).                                                       *)
(*                                                                         *)
(* Gemini answers with the image: the submission of a slot downloads the   *)
(* draft's pictures, posts the prompt up to MaxAttempts times with a delay *)
(* that doubles, stores the image, and keeps its URL in memory under a job *)
(* id of its own making, where the poll finds it at once.                  *)
(*                                                                         *)
(* Time is in units of the first interval, and of retry_base_seconds. A    *)
(* request takes at most RequestTimeout; timers and requests that are due  *)
(* are served before time goes on. The providers are arbitrary.            *)
(***************************************************************************)
EXTENDS Naturals

CONSTANTS
    MaxInterval,      \* poll_max_seconds
    Timeout,          \* poll_timeout_seconds
    RequestTimeout,   \* the longest that one HTTP request takes
    Urls,             \* status URLs of a job: 2 with a fallback, else 1
    MaxAttempts,      \* max_submit_attempts (Gemini)
    MaxDelay,         \* the cap of the delay between attempts
    MaxReferences,    \* pictures of a draft, the reference image among them
    MaxTime,          \* bound on the clock
    MaxErrors         \* bound: answers that are worth another poll

ASSUME TimesAssumption ==
    /\ MaxInterval \in Nat \ {0}
    /\ Timeout \in Nat \ {0}
    /\ RequestTimeout \in Nat
    /\ Urls \in 1..2
    /\ MaxAttempts \in Nat \ {0}
    /\ MaxDelay \in Nat \ {0}
    /\ MaxReferences \in Nat
    /\ MaxTime \in Nat
    /\ MaxErrors \in Nat

Slots == {1, 2}
Ended == {"completed", "imageless", "failed"}
JobStates == {"none", "running"} \union Ended
Outcomes == {"submit", "poll", "pair", "incomplete", "error"}

VARIABLES
    provider,   \* the service the application was started with
    now,
    job,        \* the provider's jobs (external)
    endedAt,    \* when they ended
    poll,       \* wait_for_completion of each slot
    outcome,    \* of the pair
    errors,     \* retryable answers so far
    call        \* submit_for_draft of the Gemini service

vars == <<provider, now, job, endedAt, poll, outcome, errors, call>>

\* "loop": at the head of the loop; "fetch": since "time" waiting for the
\* answer of the status URL, "fallback": for that of the fallback URL;
\* "sleep": until "time"; then a result or an exception.
Asking == {"fetch", "fallback"}
NoPoll == [pc |-> "none", time |-> 0, interval |-> 1, deadline |-> 0]

\* "build": downloading, "left" pictures to go; "post": since "time" waiting
\* for the answer; "backoff": until "time"; "file": downloading the image the
\* answer points to; "store": uploading it.
Requests == {"build", "post", "file", "store"}
NoCall == [pc |-> "none", time |-> 0, began |-> 0, left |-> 0, attempt |-> 0, delay |-> 1]

TypeOK ==
    /\ provider \in {"nano", "gemini"}
    /\ now \in 0..MaxTime
    /\ job \in [Slots -> JobStates]
    /\ endedAt \in [Slots -> 0..MaxTime]
    /\ poll \in [Slots ->
           [pc : Asking \union {"none", "loop", "sleep", "timeout", "broken"} \union Ended,
            time : Nat, interval : 1..MaxInterval, deadline : Nat]]
    /\ outcome \in Outcomes
    /\ errors \in 0..MaxErrors
    /\ call \in [pc : Requests \union {"none", "backoff"}, time : Nat, began : Nat,
                 left : 0..MaxReferences, attempt : 0..MaxAttempts, delay : 1..MaxDelay]

Init ==
    /\ provider \in {"nano", "gemini"}
    /\ now = 0
    /\ job = [s \in Slots |-> "none"]
    /\ endedAt = [s \in Slots |-> 0]
    /\ poll = [s \in Slots |-> NoPoll]
    /\ outcome = "submit"
    /\ errors = 0
    /\ call = NoCall

-----------------------------------------------------------------------------
\* Provider and clock

JobEnds(s) ==
    /\ provider = "nano"
    /\ job[s] = "running"
    /\ \E end \in Ended : job' = [job EXCEPT ![s] = end]
    /\ endedAt' = [endedAt EXCEPT ![s] = now]
    /\ UNCHANGED <<provider, call, now, poll, outcome, errors>>

\* Something of slot s must happen before time goes on.
Due(s) ==
    \/ poll[s].pc = "loop"
    \/ poll[s].pc = "sleep" /\ poll[s].time <= now
    \/ poll[s].pc \in Asking /\ poll[s].time + RequestTimeout <= now

\* Something of the submission must.
CallDue ==
    \/ call.pc = "none" /\ provider = "gemini" /\ outcome = "submit"
    \/ call.pc \in Requests /\ call.time + RequestTimeout <= now
    \/ call.pc = "build" /\ call.left = 0
    \/ call.pc = "backoff" /\ call.time <= now

Decided == outcome \in {"pair", "incomplete", "error"}

\* What the polls of the pair amount to.
Verdict ==
    IF \E s \in Slots : poll[s].pc \in {"timeout", "broken"} THEN "error"
    ELSE IF \A s \in Slots : poll[s].pc = "completed" THEN "pair"
    ELSE IF \A s \in Slots : poll[s].pc \in Ended THEN "incomplete"
    ELSE "poll"

\* The clock runs while somebody waits for a provider.
Polling == \E s \in Slots : poll[s].pc \in Asking \union {"loop", "sleep"}

Tick ==
    /\ now < MaxTime
    /\ Polling \/ call.pc # "none"
    /\ \A s \in Slots : ~Due(s)
    /\ ~CallDue
    /\ outcome = "poll" => Verdict = "poll"
    /\ now' = now + 1
    /\ UNCHANGED <<provider, call, job, endedAt, poll, outcome, errors>>

-----------------------------------------------------------------------------
\* Submission

Submitting(s) ==
    /\ outcome = "submit"
    /\ job[s] = "none"
    /\ \A before \in Slots : before < s => job[before] # "none"

\* After the second slot polling starts.
Submitted(s) ==
    IF s = 2
    THEN /\ outcome' = "poll"
         /\ poll' = [q \in Slots |-> [NoPoll EXCEPT !.pc = "loop", !.deadline = now + Timeout]]
    ELSE UNCHANGED <<outcome, poll>>

\* The job of the slot is accepted.
SubmitForDraft(s) ==
    /\ provider = "nano"
    /\ Submitting(s)
    /\ job' = [job EXCEPT ![s] = "running"]
    /\ Submitted(s)
    /\ UNCHANGED <<provider, call, now, endedAt, errors>>

\* The submission raises, with or without a job made of it; the job of the
\* other slot runs on.
SubmitFails(s) ==
    /\ provider = "nano"
    /\ Submitting(s)
    /\ job' \in {job, [job EXCEPT ![s] = "running"]}
    /\ outcome' = "error"
    /\ UNCHANGED <<provider, call, now, endedAt, poll, errors>>

-----------------------------------------------------------------------------
\* Submission to Gemini

GoOn(pc, time) == call' = [call EXCEPT !.pc = pc, !.time = time]

\* The draft has some pictures to send along.
BuildRequestPayload(s) ==
    /\ provider = "gemini"
    /\ call.pc = "none"
    /\ Submitting(s)
    /\ \E n \in 0..MaxReferences :
          call' = [NoCall EXCEPT !.pc = "build", !.time = now, !.began = now, !.left = n]
    /\ UNCHANGED <<provider, now, job, endedAt, poll, outcome, errors>>

\* A picture is downloaded, or given up: only the reference image, the last
\* one, is required.
AppendInlineImage ==
    /\ call.pc = "build"
    /\ call.left > 0
    /\ call' = [call EXCEPT !.left = @ - 1, !.time = now]
    /\ UNCHANGED <<provider, now, job, endedAt, poll, outcome, errors>>

PostPrompt ==
    /\ call.pc = "build"
    /\ call.left = 0
    /\ call' = [call EXCEPT !.pc = "post", !.time = now, !.attempt = 1]
    /\ UNCHANGED <<provider, now, job, endedAt, poll, outcome, errors>>

\* Mutant: the delay doubles without a limit.
BackedOffUncapped(delay) == delay * 2

BackedOff(delay) == IF delay * 2 < MaxDelay THEN delay * 2 ELSE MaxDelay

\* 429, 5xx or a transport error, unless this was the last attempt.
RetryLater ==
    /\ call.pc = "post"
    /\ call.attempt < MaxAttempts
    /\ call' = [call EXCEPT !.pc = "backoff", !.time = now + call.delay, !.delay = BackedOff(@)]
    /\ UNCHANGED <<provider, now, job, endedAt, poll, outcome, errors>>

RepeatPost ==
    /\ call.pc = "backoff"
    /\ call.time <= now
    /\ call' = [call EXCEPT !.pc = "post", !.time = now, !.attempt = @ + 1]
    /\ UNCHANGED <<provider, now, job, endedAt, poll, outcome, errors>>

\* The answer holds the image or the URI of a file with it.
ImageAnswered ==
    /\ call.pc = "post"
    /\ \E pc \in {"file", "store"} : GoOn(pc, now)
    /\ UNCHANGED <<provider, now, job, endedAt, poll, outcome, errors>>

FileDownloaded ==
    /\ call.pc = "file"
    /\ GoOn("store", now)
    /\ UNCHANGED <<provider, now, job, endedAt, poll, outcome, errors>>

\* The image is stored, and its URL kept as the result of a job.
KeepResult(s) ==
    /\ call.pc = "store"
    /\ Submitting(s)
    /\ call' = NoCall
    /\ job' = [job EXCEPT ![s] = "completed"]
    /\ endedAt' = [endedAt EXCEPT ![s] = now]
    /\ Submitted(s)
    /\ UNCHANGED <<provider, now, errors>>

\* The draft has no reference image or it cannot be fetched, the answer is an
\* error or holds no image, the last attempt failed, or the image cannot be
\* fetched or stored.
GeminiFails ==
    /\ call.pc \in Requests
    /\ call.pc = "build" => call.left = 1
    /\ call' = NoCall
    /\ outcome' = "error"
    /\ UNCHANGED <<provider, now, job, endedAt, poll, errors>>

\* The result is in memory already.
FindResult(s) ==
    /\ provider = "gemini"
    /\ poll[s].pc = "loop"
    /\ poll' = [poll EXCEPT ![s].pc = job[s]]
    /\ UNCHANGED <<provider, call, now, job, endedAt, outcome, errors>>

-----------------------------------------------------------------------------
\* wait_for_completion

SetPoll(s, pc, time, interval) ==
    poll' = [poll EXCEPT ![s].pc = pc, ![s].time = time, ![s].interval = interval]

\* Mutant: the deadline is that of a loop that started now.
FetchJobStatusLater(s) ==
    /\ provider = "nano"
    /\ poll[s].pc = "loop"
    /\ poll' = [poll EXCEPT ![s].pc = "fetch", ![s].time = now, ![s].deadline = now + Timeout]
    /\ UNCHANGED <<provider, call, now, job, endedAt, outcome, errors>>

FetchJobStatus(s) ==
    /\ provider = "nano"
    /\ poll[s].pc = "loop"
    /\ now <= poll[s].deadline
    /\ SetPoll(s, "fetch", now, poll[s].interval)
    /\ UNCHANGED <<provider, call, now, job, endedAt, outcome, errors>>

\* Mutant: no sleep that would end after the deadline is begun.
TimeOutEarly(s) ==
    /\ provider = "nano"
    /\ poll[s].pc = "loop"
    /\ now + poll[s].interval > poll[s].deadline
    /\ SetPoll(s, "timeout", now, poll[s].interval)
    /\ UNCHANGED <<provider, call, now, job, endedAt, outcome, errors>>

TimeOut(s) ==
    /\ provider = "nano"
    /\ poll[s].pc = "loop"
    /\ now > poll[s].deadline
    /\ SetPoll(s, "timeout", now, poll[s].interval)
    /\ UNCHANGED <<provider, call, now, job, endedAt, outcome, errors>>

\* Mutant: the interval doubles without a limit.
SleepUncapped(s) ==
    SetPoll(s, "sleep", now + poll[s].interval, poll[s].interval * 2)

SleepAndBackOff(s) ==
    LET twice == poll[s].interval * 2
    IN  SetPoll(s, "sleep", now + poll[s].interval,
                IF twice < MaxInterval THEN twice ELSE MaxInterval)

\* The status URL knows nothing of the job: the same look asks the fallback.
StatusNotFound(s) ==
    /\ poll[s].pc = "fetch"
    /\ Urls = 2
    /\ SetPoll(s, "fallback", now, poll[s].interval)
    /\ UNCHANGED <<provider, call, now, job, endedAt, outcome, errors>>

\* The answer says what the job is: a final status is returned.
StatusFinal(s) ==
    /\ poll[s].pc \in Asking
    /\ job[s] \in Ended
    /\ SetPoll(s, job[s], now, poll[s].interval)
    /\ UNCHANGED <<provider, call, now, job, endedAt, outcome, errors>>

\* It ran when the request was made, at least.
StatusRunning(s) ==
    /\ poll[s].pc \in Asking
    /\ job[s] = "running" \/ endedAt[s] >= poll[s].time
    /\ SleepAndBackOff(s)
    /\ UNCHANGED <<provider, call, now, job, endedAt, outcome, errors>>

\* 429, 5xx or a transport error (_RetryablePollError), of either URL.
StatusRetryable(s) ==
    /\ poll[s].pc \in Asking
    /\ errors < MaxErrors
    /\ errors' = errors + 1
    /\ SleepAndBackOff(s)
    /\ UNCHANGED <<provider, call, now, job, endedAt, outcome>>

\* Any other status, a 404 of the last URL too, or an answer that cannot be
\* parsed.
StatusFatal(s) ==
    /\ poll[s].pc \in Asking
    /\ SetPoll(s, "broken", now, poll[s].interval)
    /\ UNCHANGED <<provider, call, now, job, endedAt, outcome, errors>>

Wake(s) ==
    /\ poll[s].pc = "sleep"
    /\ poll[s].time <= now
    /\ SetPoll(s, "loop", now, poll[s].interval)
    /\ UNCHANGED <<provider, call, now, job, endedAt, outcome, errors>>

\* gather raises the first exception or returns both results; a result
\* without an image counts as a failed variant.
Gather ==
    /\ outcome = "poll"
    /\ Verdict # "poll"
    /\ outcome' = Verdict
    /\ UNCHANGED <<provider, call, now, job, endedAt, poll, errors>>

Rest ==
    /\ Decided
    /\ ~Polling
    /\ UNCHANGED vars

Next ==
    \/ Tick
    \/ Gather
    \/ \E s \in Slots :
          \/ JobEnds(s) \/ SubmitForDraft(s) \/ SubmitFails(s)
          \/ FetchJobStatus(s) \/ TimeOut(s) \/ StatusNotFound(s)
          \/ StatusFinal(s) \/ StatusRunning(s)
          \/ StatusRetryable(s) \/ StatusFatal(s) \/ Wake(s)
          \/ BuildRequestPayload(s) \/ KeepResult(s) \/ FindResult(s)
    \/ AppendInlineImage \/ PostPrompt \/ RetryLater \/ RepeatPost
    \/ ImageAnswered \/ FileDownloaded \/ GeminiFails
    \/ Rest

Spec == Init /\ [][Next]_vars

-----------------------------------------------------------------------------
\* Properties

\* The longest time from a look at the deadline to the next one: the requests
\* of the look and a sleep.
Round == Urls * RequestTimeout + MaxInterval

\* A generation call ends: once a poll is a round past its deadline the pair
\* is decided, whatever the provider answers and however often.
DecidedInTime ==
    \A s \in Slots :
        poll[s].pc # "none" /\ now > poll[s].deadline + Round => Decided

\* The timeout does not race a late answer by more than one request and a
\* sleep: the poll of a job that ended earlier than that before its deadline
\* times out only after a retryable error.
AnswerCollected ==
    \A s \in Slots :
        poll[s].pc = "timeout" /\ job[s] \in Ended /\ errors = 0 =>
            endedAt[s] + RequestTimeout + MaxInterval > poll[s].deadline

\* The requests of one submission to Gemini (pictures, attempts, a file, the
\* upload) and the capped delays between the attempts.
SubmissionLimit ==
    (MaxReferences + MaxAttempts + 2) * RequestTimeout + (MaxAttempts - 1) * MaxDelay

\* "Exponential backoff capped to keep inline webhook processing responsive":
\* whatever Gemini answers, a variant is submitted or given up within the
\* time that its attempts and as many capped delays allow.
SubmittedInTime ==
    call.pc # "none" => now - call.began <= SubmissionLimit

=============================================================================
