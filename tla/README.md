# adv-assistant: TLA+ models, checks and proofs

adv-assistant is a WhatsApp bot. A shop operator describes a product; the bot
asks for what is missing, has two variants of an advertisement generated, and
publishes the chosen one in the playlist of a digital signage CMS. The service
is a FastAPI application on Cloud Run with a Postgres database and a Cloud Tasks
queue. Paths below are relative to the repository (`src/adv_assistant/...`).

How to run: `tlc -config Workflow.cfg MCAdWorkflow.tla` (the table of runs names
every pair of module and configuration); `tlapm M.tla` for each of the modules
of section 5 (the longest takes a few minutes).

## 1. Inventory

| Part | State | Operations | Talks to |
|---|---|---|---|
| Webhook (`main.py` `receive_webhook`, `ingress.py`) | audit rows; one transaction per request; inline: an asyncio lock | signature, replay window, authorization, rejection notice, enqueue | Meta, WhatsApp, Cloud Tasks |
| Queue (`tasks_queue.py`, Cloud Tasks) | tasks | enqueue (or, inline, handle in the request); dispatch at least once, up to 5 attempts (`scripts/bootstrap_gcp.sh`), in parallel, with a dispatch deadline | worker endpoint |
| Worker endpoint (`main.py` `process_and_maybe_send_reply`) | `processed_inbound_message` marks | mark, handle, reply, remove the mark on failure | pipeline, WhatsApp |
| Pipeline (`pipeline.py`) | `conversation_session`, `ad_draft`, `ad_variant_round`, `ad_variant`, `published_ad` | one handler per button, photo and text; planner; generation; publishing | everything below |
| Question policy, creative brief planner (`question_policy.py`, `creative_brief_planner.py`) | pending question with its context (in the session) | next question, reprompts, caps, brief | pipeline, LLM |
| Ad generation (`ad_generation.py`) | jobs at the provider | submit a pair, poll with back-off (Nano Banana); attempts with back-off, result in memory (Gemini) | providers |
| CMS publisher (`cms_cityscreen.py`) | playlist and advertisements in CityScreen | upload, create, read and write the playlist | CityScreen |
| Repositories (`db/repositories.py`, `db/models.py`) | the tables | versioned updates of drafts, unconditional ones of everything else | Postgres |
| LLM gateway, extraction, product discovery, resolution, enrichment, retailer search | fields and photo of the draft, `enrichment_unavailable_notified_at` | completion with retries, ranking of candidates, lookup of a bar code, copy of the found image | HTTP services, media store |
| Media ingest and stores | objects under fresh names | download, upload | HTTP services |
| WhatsApp client | none | send, download | HTTP service |
| Retention (`db/retention.py`) | none of its own | purge marks, sessions, drafts, audit rows | Postgres |
| Onboarding, branding, logo upload (`pipeline.py`) | operator row, `pending_upload_type` | name and logo steps | pipeline |
| Admin endpoints, configuration, start-up checks, task authorization | operator row | upsert, traces | - |

**How they interact.** Meta posts a batch; the webhook turns each event of an
active operator into a task and answers 200. Cloud Tasks posts each task to the
worker endpoint, which commits a mark for the WhatsApp message id (`wamid`), runs
the pipeline in the same database session, commits, and sends the reply. The
pipeline reads the session and the current draft at its beginning, awaits LLM,
provider and CMS calls with those copies in hand, commits in the middle (before
the planner's LLM call and before the poll), and writes the session at its end.

**What is hard about it.** Cloud Tasks has no concurrency limit and no order, so
calls of one operator overlap at every await. Only drafts have a version. The
session row is written column by column: the ORM's unit of work emits the columns
whose value is not the one this call loaded. The mark is committed before the
work it stands for. Replies are sent after the commit. External calls are made
before anything is recorded. A generation takes up to 15 minutes, longer than
the default dispatch deadline. `PROJECT.json` lists the hazards with their lines
and the properties that watch them.

## 2. Modules

| Module | What it models | Abstract / composed with |
|---|---|---|
| `InboundDelivery` | one message from the webhook to the end of its worker calls: tasks, marks, replies, clean-ups, crashes, expired leases | refines `DedupeGate` |
| `DedupeGate` | what the mark promises: a message is open, then handled by one holder, then closed for good, or reopened by that holder | abstract specification |
| `InboundDeliveryProofs`, `IngressProofs`, `AdWorkflowProofs`, `ProductLookupProofs`, `CmsPublishProofs`, `VariantPollingProofs`, `QuestionDialogueProofs` | theorems about the module they extend (`IngressProofs`: `InlineIngress` with `WebhookIngress`) | section 5 |
| `Induction` | induction over naturals and sequences, as facts the provers can use | used by `CmsPublishProofs` |
| `WebhookIngress` | overlapping webhook requests over batches: windows, rejections, enqueue failures, redelivery | produces the tasks `InboundDelivery` starts from |
| `InlineIngress` | the same webhook with the inline queue on SQLite: asyncio lock, single writer, busy timeout, mark and clean-up inside the request | extends `WebhookIngress`; chooses the mode at the start |
| `AdWorkflow` | overlapping calls of one operator on session, drafts, rounds, published ads and the CMS | one `"work"` stage of `InboundDelivery`, opened up; refines `RoundLedger` |
| `RoundLedger` | what the table of rounds promises: attempts without a gap, only the last ACTIVE, decided once by whoever opened it | abstract specification |
| `ProductLookup` | overlapping calls that look a product up and store its photo in one draft, one action per await, with row locks | what `AdWorkflow` takes as one transaction, opened up |
| `QuestionDialogue` | the questions of one operator, a message at a time: policy, planner, caps, resuming, onboarding gate, logo upload, purges | the same handlers as `AdWorkflow`, with the questions' contents and without overlap |
| `CmsPublish` | the HTTP calls of one publication and the shared playlist | the `"cms"` step of `AdWorkflow` |
| `VariantPolling` | a pair of variants by either service: two jobs and two polls (Nano Banana), attempts with back-off (Gemini) | the submission and the `"poll"` step of `AdWorkflow` |
| `MC...` | instances for TLC: symmetry, message kinds, batches, starts | |

### Correspondence

*InboundDelivery.* `marks` are the rows of `processed_inbound_message`; `pending`
counts waiting tasks; `stage[k]` says how far a call of
`process_and_maybe_send_reply` is. `MarkProcessed` is insert and commit
(`pipeline.py:403-413`); `CommitPartial` and `CommitWork` are the commits in the
middle and at the end of a handler; `Cleanup` is either `except` clause: it
deletes the mark by `wamid`, whoever put it there, and answers 500.
`LeaseExpires` is the queue giving up on a call that still runs. `hit` is history:
the faults of calls about a message that no clean-up makes up for
(`Befalls`); the properties name their exceptions with it.

*WebhookIngress.* `req[r].rows` are audit rows of a request that are not committed;
`EnqueueFails` rolls them back and answers 500, `AnswerLost` commits them although
Meta never learns of it. The transaction belongs to a yield dependency, which
FastAPI (0.134 in `uv.lock`) leaves after the response went out: `CommitFails` is
an acknowledged batch whose rows are lost. A send that raises may have reached the
stranger (`RejectionFails`).

*InlineIngress.* With `TASKS_MODE=inline`, the default, `enqueue_inbound` awaits
the whole handling. `lock` is `sqlite_inline_processing_lock`; `writer` is the
transaction that has written and not ended, either the `"processing"` under the
lock or a request that has logged an audit row, which keeps the database until
its own end. An action that needs the writer has a twin (`LogLocked`,
`WorkLocked`, `CleanupLocked`) for the busy timeout of 30 seconds; the lock has no
timeout. `skipped` is history: messages skipped as duplicates before they were
handled.

*AdWorkflow.* `h[k]` is a call with the session row it loaded (`row`), its copy of
the draft (`mem`) and its place (`pc`). `Write` is
`update_for_operator_with_version`: when the version has moved on no row changes,
but the ORM may have applied the values to the copy in memory (it evaluates the
WHERE clause on the loaded object), so the copy is one of two. `Saved` is the
write of `ConversationSessionRepository.create_or_update`: a call saves the columns
it changed (`ByColumn`), but one that had loaded no row looks again, and then
writes all its values over a row that another call has made since, or raises
when the two inserts collide (`Abort`). A row without a draft is not told apart
from no row. A
transaction is one action, taken at its commit; the first conditional update
locks the draft row until then. This is what makes `AddRound` safe.

*ProductLookup.* `row` is the committed draft, `tx` who has it locked and what the
row is in that transaction; `tx.forgot` says that one of its updates made the draft
forget a notice (`Forgets`: a product found resets
`enrichment_unavailable_notified_at`), also when a later one sets it again. `notices`
counts every notice that goes out with a reply, those of calls whose update was
refused too; `forgotten` counts the transactions that forgot one. `AnswerQuestion` is
`_resolve_pending_missing_info_answer`, which writes the name directly; only it
changes the session's question without an update of the draft (`blind`).
`calls[k]` has the copy of the call and its next await. Values are reduced to their origin (nobody, the operator, a search); the
name stands for promo text and brand too. `RequestJsonModel`, `SelectBest` and
`Resolve` are pure operators for the LLM gateway's retries, the candidate ranking
and the order of the searches. An upload that fails as the code expects is
skipped; any other exception of the media store ends the call (`Abort`).

*QuestionDialogue.* A `Result` is what a handler leaves behind. `AdRequest` is the
branch for ad intents (`pipeline.py:1450-1667`) with the dispatch that follows
(`1683-1818`); `Turns` is `_advance_creative_brief_planner`, `PlannerAsks` and
`PlannerReady` the two halves of `apply_planner_output`; `Advanced` is the brief with
the answer applied, `Gained` a draft with the fields a lookup adds, `Unclear` the
end of a call whose product resolution asks for a clearer name. `Gate` is the onboarding
gate, `PurgeSession` and `PurgeDraft` what `run_retention_jobs` does to the
operator's rows. LLM answers are choices.

*CmsPublish*, *VariantPolling*: one action per HTTP call, or per turn of the loop.
A look of `_fetch_job_status` at a job is one request (`"fetch"`) or, after a 404 and
with another fallback URL, two (`StatusNotFound`, `"fallback"`); `Urls` says which.

Definitions named `Mutant: ...` in a comment are broken variants of the
definition that follows, used only to see that a property notices the bug.

## 3. Runs

| Run | Checks | Distinct states |
|---|---|---|
| `Inbound` | `TypeOK`, `EffectsExplained`, `NoConcurrentHandling`, `OnlyOwnLoss`, `EffectUnderMark`, `ImplementsGate`, `EventuallySettled` (fairness) | 236k |
| `CrashLoss` | `NoSilentLoss` fails with a crash | |
| `WebhookIngress` | `InlineTypeOK`, `AckedIsHandled`, `RejectionsBounded`, `EventuallyAcked`, `RequestsEnd` (fairness) | 206k |
| `Workflow` | `TypeOK`, `ImplementsLedger`, `OnlyCompletePairs`, `AdsAccounted`, `PreviewIsLatest`, `PublishedAsSent` | 2.0M |
| `PublishTwice` | `OnePublishPerDraft` fails | |
| `ForeignImage` | `ImageOfOwnRound` fails | |
| `ProductLookup` | `TypeOK`, `FirstWriteDecides`, `LockOrder`, `UploadsAccounted`, `NoticesExplained`, `AskedIsStored`, `OperatorValuesKept`, `SelectionIsBest` | 6.0M |
| `SecondNotice` | `NoticeOnce` fails | |
| `CmsSequential` | `TypeOK`, `NewSlotsLast`, `PublishedIsShown`, `OrphansExplained`, `AlwaysAppended` | 912 |
| `LostSlot` | `AlwaysAppended` fails with two publishers | |
| `VariantPolling` | `TypeOK`, `DecidedInTime`, `AnswerCollected`, `SubmittedInTime` | 1.6M |
| `DialogueRules` | `TypeOK`, `EveryQuestionIsNew`, `BriefOnReadyDraft`, `AwaitingIsAsked`, `PreviewIsNamed` | 87k |

**What the passing runs show.** The mark is a lock, which only a failing insert of
the same message takes away, and repeated executions are exactly those after a
failure that gave it back. A message is lost only by a call about it that dies,
outlives its deadline or fails to clean up, and every other one is handled to its
end; the webhook never loses an operator's event by acknowledging a batch;
inline it can, by skipping a message whose first handling is not finished or
whose mark could not be deleted, and `AckedIsHandled` says that this is the only
way. Inline requests wait for each other in circles, which the busy timeout
always ends. In the workflow, the versioned draft carries more than it seems to:
it serialises the numbering and superseding of rounds (`ImplementsLedger`), keeps
a stale generation from becoming the preview, and keeps a draft from becoming
PUBLISHED with an image the CMS never got. The first accepted update of a
transaction decides all of it, so no message is stored by half; what goes wrong
in a lookup (a deadlock, a photo overwritten, an upload nobody refers to, a
notice that another call has committed) needs a call that lost an update and went on. A publisher that is
alone never removes a slot. A poll never outlives its deadline by more than the
requests of one look (two with a fallback URL) and a sleep, a submission to Gemini not its attempts and capped delays.
The planner never asks about a draft whose mandatory fields are missing, and the
confirmation flag of a draft agrees with the session's question, unless a purge
or the onboarding gate comes in between.

**What the failing runs show** (each quotes the sentence it contradicts in
`PROJECT.json`):

- `CrashLoss`: an instance that stops between the commit of the mark and the end
  of the work loses the message; the retry is skipped as a duplicate.
- `PublishTwice`: two confirmations publish a preview twice. The idempotency check
  reads what neither has written yet.
- `ForeignImage`: a pending variant question and a new current draft, written by
  two calls, let the operator put the round of one ad on the draft of another.
- `LostSlot`: overlapping publications drop a slot although it was reported as
  published.
- `SecondNotice`: a product found resets `enrichment_unavailable_notified_at`
  (`pipeline.py:3855`, `3979`), so the next unknown bar code of the draft is
  answered with a second notice, without any overlap.

What each of the first four needs is proved, so a repair has an aim: a queue that hands out one
message of an operator at a time removes `PublishTwice` and `ForeignImage`
(`PublishesOnce`, `OwnImages`), a lock around the read and the write of the playlist
removes `LostSlot` (`AppendsOnly`), and a crash loses at most the message of the
call that died (`OnlyOwnFaults`, `LossesAreExplained`).

### Other consequences of the code, seen with the models

Delivery and webhook:

- A reply that cannot be delivered makes the retry repeat committed work
  (`main.py:604`). A call whose insert of the mark fails deletes the mark of the
  call at work (`main.py:533`); `NoConcurrentHandling`, `EffectUnderMark` and
  `DedupeGate` except the messages this happens to (`Robbed`), and no others.
- Two overlapping webhook requests both reject a stranger, which is why
  `RejectionsBounded` counts requests.
- Inline on SQLite, a batch with a rejected event before an operator's locks
  itself out: its own audit row holds the database its work waits for
  (`main.py:507-523`). It fails at the busy timeout, with the row
  rolled back, so that every redelivery sends the rejection again and fails
  again, until the operator's message is too old. The lock that
  `main.py:513-515` adds against "database is locked" orders the handlings but
  not the audit rows and clean-ups; that is why `EventuallyAcked` is stated for Cloud Tasks only.

Workflow and lookup:

- A completed pair is not offered when the draft changed during the poll
  (`pipeline.py:3235`).
- Two calls that look up unknown bar codes at once both send the notice, also the
  one whose update is refused (`pipeline.py:3711-3730`); `NoticesExplained` counts
  it with the refused updates.
- A question that is changed by a call without an update of the draft is not
  guarded by its version, and may part from a flag that another call commits
  meanwhile; `AskedIsStored` excepts it. That takes four messages, the instance has
  three; the theorem covers it.
- An exception of the enrichment ends the call when a text asked for it and is
  swallowed when a photo did.

Dialogue:

- A brief that was started by a new ad resumes as a new ad: the draft that was
  described is left behind and a fresh one, typed by the words of the answer, may
  be previewed without a name (`pipeline.py:1451`). A "yes" to a product whose
  draft was purged generates an empty draft. `PreviewIsNamed` says that these are
  the only ways.
- An operator who clears only the business name is asked for it and then, by
  `GiveName`'s question, for a logo that is already there. Clearing branding while
  a product waits for confirmation leaves the flag of the draft without its
  question.
- While the type question is open, the request for a logo outlives the photo
  (`pipeline.py:975`), so several photos become the logo one after the other.
- After a request to clear branding, answers to the type question are read as
  branding (`pipeline.py:1164-1175`).
- The planner may ask four questions (`creative_brief_planner.py:11`) where
  `docs/workplan.md` allows three; a photo found by discovery or by a bar code is
  used without the confirmation `docs/product-spec.md:240` speaks of; sessions are kept 90 days (`db/retention.py:21`), where
  `docs/product-spec.md:222` has 30.

### Bounds

- *InboundDelivery*: two messages, two calls, two POSTs per message, two faults of
  any kind. One message shows every race of two deliveries; the second one shows
  that they do not disturb each other; two faults let one hit the call that
  another fault has left alone. Faults stay below the queue's five attempts,
  after which a task is dropped. With three faults the same properties hold in
  1.7 million states. The safety theorems of section 5 need none of these bounds.
- *WebhookIngress*: two requests, two batches that hold every kind of event (a
  stranger before, between and after an operator's), one failure, a clock to 2,
  windows of 1, so that events and rejections expire. `MaxPosts` (4) exceeds
  failures plus requests: the bound never keeps Meta from redelivering. Inline,
  `MaxInlinePosts` (2) lets a batch fail once and be skipped as a duplicate, both
  ways in which a message is lost; failures that are busy timeouts are not
  bounded.
- *AdWorkflow*: two calls, three messages and one abort, from two starts
  (nothing; a selected preview whose operator was asked for a detail of another
  attempt, so that generations, selections and publications are a message
  away). Two calls are enough for each pair of read and write; three messages let
  the second call of a worker meet what the first one left.
- *ProductLookup*: two calls (one in `SecondNotice`), three messages, one abort, one LLM retry, at most
  two candidates with scores 0, 1, 2 and a minimum of 1 (below, at and above it,
  with ties).
- *QuestionDialogue*: none; the state space is finite, with the caps of the code
  (4 questions, 2 reprompts, 3 clarifications).
- *CmsPublish*: five publications and three faults, on a playlist with equal
  weights, a gap and a slot without advertisement.
- *VariantPolling*: interval 1 doubling to 2, timeout 4, requests of 1, two
  status URLs, two retryable errors, three attempts, one picture, a clock to 16, beyond every
  deadline and the limit of a submission. The sleep is capped within the timeout,
  so a sleep across the deadline happens.

### Fairness

`InboundDelivery!Fairness`: Cloud Tasks dispatches a waiting task to a free call
(its contract); a call's next step is taken (the event loop, timeouts on every
client), unless a fault comes first (then `EventuallySettled` says what is owed); Meta posts an event again until a POST succeeds. Nothing
is assumed of a particular call winning a race: weak fairness suffices, because
a task stays enabled until somebody takes it. `InlineIngress!Fairness`: the
clock, each request's next step, and redelivery by Meta; inline, a wait for the
database ends with the writer's commit or the busy timeout, which is one of the
next steps, and the asyncio lock wakes its waiters in order. All other runs are
safety only.

## 4. Plan

1. *(done)* `InboundDelivery`, `DedupeGate` and their theorems: at-least-once
   delivery is what everything else rests on.
2. *(done)* `AdWorkflow`, then `CmsPublish` and `VariantPolling`, which open its
   external calls; `ProductLookup`, which opens its transactions.
3. *(done)* `WebhookIngress` and `InlineIngress`; `QuestionDialogue` with
   onboarding, logo and purges; `RoundLedger` and its refinement.
4. *(done)* Theorems: every safety and action property of the passing runs; for the
   properties that the failing runs refute, the weakest discipline found under
   which they hold.
5. *Next, theorems*: which pairs of calls `OwnImages` really has to keep apart (a
   selection, and one that changes the current draft).
6. *Next, models*: the 30-day retention of marks with a clock in
   `InboundDelivery`; the purge of published drafts, which the `RESTRICT` of
   `published_ad` may refuse; `InboundDelivery` composed with the writes of
   `AdWorkflow`.

## 5. Proofs

Each proof module shows `Spec => []IInv` for an inductive invariant `IInv` of its
own, one step per action, and derives the properties from it. What it is for the
properties' sake is the same everywhere: the properties speak of the tables, and
a step of a call acts on what the call remembers of them, so `IInv` has to say
how the memory of a call in the middle of its work relates to the tables.

### Assumptions

Sets of messages, calls, requests, batches and publishers, and all bounds,
windows, timeouts and limits, are arbitrary, under the named assumptions of the
modules, which TLC evaluates in the runs:

- bounds, windows, scores and timeouts are natural numbers (`BoundsAssumption`,
  `WindowsAssumption`, `InlineBoundAssumption`, `NumbersAssumption`; those of
  `TimesAssumption` that count intervals and attempts are positive);
- the values that mean "none" are none (`NoMsgAssumption`, `NoTimeAssumption`,
  `NobodyAssumption`, `WorkersAssumption` of `ProductLookup`); enumerations come
  from their lists (`FaultsAssumption`, `KindsAssumption`, `ModesAssumption`);
- sets of calls and requests are finite where they are counted
  (`WorkersAssumption` of `InboundDelivery` and `AdWorkflow`,
  `RequestsAssumption`); a batch is a finite sequence of events
  (`EventsAssumption`); the playlist at the start is a list of slots
  (`SlotsAssumption`).

Some theorems of `InboundDeliveryProofs`, `AdWorkflowProofs` and `CmsPublishProofs`
have a hypothesis about the faults or about which calls overlap, which their
paragraphs below explain. The others have none.

### `InboundDeliveryProofs`

- `TypeCorrect`: `Spec => []TypeOK`.
- `EffectsAreExplained`: `Spec => []EffectsExplained`, with every fault. The
  invariant is not inductive: between taking the mark and committing, a call is
  an execution that does not count yet. The strengthening `ClaimsExplained` adds
  those: executions plus calls at work that have committed nothing are at most
  failures plus one if the mark is there. It rests on lemmas about the
  cardinality of that set of calls when one joins or leaves.
- `MutualExclusion`: `Spec => []NoConcurrentHandling`, with every fault. Inductive
  invariant: whoever holds a message's mark (`HoldersMarked`) finds it present, and
  there is one holder (`OneHolder`), for each message that is not `Robbed`: after a
  failing insert a clean-up deletes a mark that its call does not hold, and the
  statement is false for that message, and only for that one.
- `EffectsUnderMark`: `Spec => EffectUnderMark`, from the same invariant.
- `MarksImplementGate`: `Spec => ImplementsGate`, by showing that every action is
  `Claim`, `Reopen`, `Close`, `Void` or a stutter on `GatePhase`.
- `NothingLost`: `Spec => []NoSilentLoss`, if no instance dies, no clean-up fails
  and no dispatch deadline passes; the webhook's enqueueing, the insert of the
  mark, the handling and the reply may fail as often as they like. `LossInv` says
  that an accepted message is settled, has a task or is at a call (`Retained`).
  That alone is not inductive: a call that meets a mark gives up its task, so a
  mark must be that of a settled message or have a holder that will settle it or
  take it away (`MarksHeld`), and the task of that holder must come back when it
  fails, for which the queue still has to be waiting for it (`AllLeased`). Each
  of the three faults breaks one of these and the statement with it: a failure
  whose clean-up fails leaves a mark without a holder; so does a crash (the run
  `CrashLoss`); and a call that fails after its deadline takes its mark away when
  the queue's next attempt has already been skipped.
- `OnlyOwnFaults`: `Spec => []OnlyOwnLoss`, the same message by message and with all
  faults: it is dropped only if one of the three hits a call about it. The
  invariant of `NothingLost` is a conjunction over the messages (`Kept(w)`), and no
  step of a call about one message disturbs the part of another.
- `LossesAreExplained`: `Spec => []LossesExplained`: with every fault the dropped
  messages are at most as many as the faults, because a step drops only the
  message of its own call, and then it is a fault.

### `IngressProofs`

About `InlineIngress`, so for the queue of Cloud Tasks and the inline one.

- `TypeCorrect`: `Spec => []InlineTypeOK`, with who holds the lock and the writer in
  which stage (`LocksInv`).
- `AckedHandled`: `Spec => []AckedIsHandled`. The batch is acknowledged when the
  request is past its last event; `Dealt` says of every request that each event
  before `req[r].next` is a task, was handled, was late or was skipped, and those
  sets only grow.
- `RejectionsLimited`: `Spec => []RejectionsBounded`. The property counts; the
  invariant `Explained` says why the count holds: in each window there is an
  injection of the notices to a phone into slots, one per request and one per
  failure. A notice has the slot of the request that sent it, as long as that
  request has not forgotten the row (`Owns`): while it remembers it, it sends no
  second one. When the row is rolled back, the notice moves to the slot of the
  failure that did so. The bound then is a cardinality.

### `AdWorkflowProofs`

`IInv` is `TablesInv` (rows and references), per call `CopyInv`, `PollInv` and
`PublishInv`, across calls `Distinct`, and `Ledger!Legal`.

- *Copies.* A copy is never newer than its row, and one of the row's version
  equals it, for a call that has not written since it loaded it. This is what the
  versioned update rests on: an accepted write is a write to the row as read.
- *Polls.* A polled round is undecided and polled by one call, and, as long as
  its draft has the version the generation gave it, the last of the draft
  (`Current`). Opening a round changes the draft's version, so a generation that
  was overtaken has its write refused.
- *Publishing.* An advertisement that is not recorded yet belongs to one call.
- `TypeCorrect`, `OnlyComplete` and `LatestPreview` follow from the parts above;
  `LedgerImplemented` shows every step to be a step of `RoundLedger` or a stutter;
  `Accounted` counts: unrecorded advertisements are those of calls at `"record"`
  and those lost by aborts and failed answers, with lemmas on cardinalities for
  one that is made, recorded or lost; `SentIsPublished` uses that the versioned
  update was accepted, so the draft shows what the call sent.

*One call at a time.* `PublishTwice` and `ForeignImage` show two properties to be
false. `OwnImages`, `RepeatsAreExplained` and `PublishesOnce` show that overlapping
calls are the only reason: they assume `Serial`, that at most one call is at work
in every state, which Cloud Tasks does not promise, and allow every message, order
and failure. `OwnImages` is `ImageOfOwnRound`. `RepeatsExplained` counts: a draft has one
advertisement, and one more for each call that died or lost the CMS's answer;
without those, that is `OnePublishPerDraft`. The invariant `SerialInv` says what the
code takes for granted: the session that a call loaded is still the row
(`CallFits`), the round it offers is of the current draft (`SessionFits`), and a
draft whose publish is recorded has ceased to be the current one, or ceases with the
record (`Decided`), so that no later confirmation reaches it.

All of these are about `Spec`, which starts with nothing; the run `Workflow` also
starts from a selected preview. `IInv` was checked by TLC on the instance of
that run.

### `ProductLookupProofs`

`IInv` is `TypeOK`; `PhotosStored`, `TxInv`, `LossInv`, `NoticeInv` on the tables; for
each call `Flow` (which message takes which step, and what its updates have come
to by then), `Objects` (where the uploaded photo is) and `Copied` (the copy is the
row of the call's own transaction, or no newer than the committed row); and,
while no call has lost an update, `Awaited` and `AwaitFlow` (the flag of the draft
and the question of the session agree, in the tables and on the way of each
call). Most steps are an update followed by a choice of the next await, so the
lemmas are about those: `GoInv` for a step that only goes on, `UpdateInv` for an
update (accepted, refused, or refused with its values left in the copy),
`UploadInv`, `IdleInv`.

- `NoHalfChange` (`FirstWriteDecides`): an accepted update locks the row, and the
  copy is that locked row from then on, so the next update has its version.
- `LocksOrdered` (`LockOrder`): a call takes the session's lock at its end, when it
  has the draft's, or was refused.
- `UploadsAreAccounted`: an object that no row has named and no call holds
  (`Unplaced`) is put down to one strained or aborted call.
- `NoticesAreExplained` (`NoticesExplained`): a notice is remembered by the same
  transaction that sends it, unless its update was refused. So the invariant
  (`NoticeInv`) can leave room for one more notice whenever the draft remembers none:
  only a forgotten notice makes that room anew. The history has to count a transaction that forgets
  a notice and, by a later update, remembers a new one (`tx.forgot`).
- `AskedIsTheStored`, `OperatorIsHeeded` (an action property): from `AwaitFlow` and
  `TxInv`.
- `BestIsSelected` (`SelectionIsBest`), for lists of any length. That a ranking
  exists is proved by induction (`OrderExists`: the last candidate goes before the
  first of the others with a lower score), with the rules of `Induction`. The walk
  of `SelectBest` down the ranking then stops at the first candidate that is usable
  or below the minimum, which is the best one or shows that there is none.

`IInv` was checked by TLC on the instance of the run `ProductLookup`.

### `CmsPublishProofs` and `Induction`

`IInv` (types, `HoldsAd`, `WeightsInOrder`) is enough for `TypeCorrect` and
`WeightsAgree` (`NewSlotsLast`) with any number of publishers. It needs what the
loop over the slots computes, which keeps the slots with an advertisement in
their order: `Kept` is a recursive function, and the facts about it are proved
with the rules of `Induction`. The library states induction for a predicate that
is a parameter; these rules state it for the *set* of the values that have the
property, which the provers can instantiate.

`PublishedStays`, `OrphansCounted` and `AppendsOnly` assume `TakeTurns`: no publish
call reads the playlist between the read and the write of another one. Uploads,
new advertisements and failures of any number of publishers overlap as they like.
Something of the kind is needed: the run `LostSlot` shows `AppendsOnly` to be false
without it, and the others fail in the same way. `TurnInv` adds to `IInv` that what is
about to be written back is the playlist (`CopyFresh`) and counts the losses
(`LossesExplained`). A single publisher takes turns with itself (`OnePublisher`), as
in the run `CmsSequential`.

### `VariantPollingProofs`

`PollInTime` and `CallInTime` give each stage of the loop the time it can be at most:
a poll that asks the status URL began before its deadline, one that asks the
fallback URL at most a request later, one that sleeps is at most a `Round` behind it
(`Urls` requests and a sleep), a submission no later than the requests and delays before it may cost
(`Cost`). `Decides`, `Collects` and `Submits` are its values at the last stage, for
any timeouts, intervals and number of attempts.

### `QuestionDialogueProofs`

All theorems rest on `Invariant`. `IInv` adds to the types how a question fits its
draft and how a brief remembers what it asked:

- only a single product waits for a confirmation (`GoodDraft`), without which a
  "yes" could start a generation for a draft without a type;
- every question of a brief but the open one is about something that is known
  (`AskedOnce`). This is why the branch of `apply_planner_output` that overrules a
  planner that is ready, and never looks at the list of asked questions, cannot
  repeat one: it asks about a dimension that is not known (`Decisions`);
- the name is asked for before the price, in the first question, and the price of a
  single product only if it has a name (`InOrder`). So two questions in a row are
  asked for mandatory fields at most, whatever the cap. The planner's short cut
  (`pipeline.py:2758-2797`) does not compare its counter with the cap: what bounds
  it is this order, and `TypeOK` says so (`clarifications : 1..2`).

The proof goes over results, not actions: `Proper` says what a result of a handler
must satisfy for the step to keep `IInv` and agree with the three action
properties, `ResultParts` to `AdRequestParts` show it of the operators that the
handlers share, `CommitStep` makes a step of it, and each action is then a few
lines. `QuestionsAreNew` is a part of `IInv`; `BriefsFit`, `FlagsAgree` and
`PreviewsAreNamed` are the parts of `Step`.

### Only model-checked

- The liveness properties `EventuallySettled`, `EventuallyAcked`, `RequestsEnd`:
  fairness is out of the prover's reach.
- That the five violations exist; a theorem cannot show it.

## 6. Not modelled

- Texts, prompts, layouts, colours, prices and the history of a conversation; the
  normalisation of what the LLM extracts; scraping of shop pages, decoding and
  fitting of images, object names.
- The WhatsApp client and its 24-hour window, task authorization, admin endpoints
  and start-up checks: request/response code whose outcome is a choice where it
  matters. Activation of an operator is constant in the webhook; a refusal is a
  choice in the worker. `draft_service.py` is a single versioned update that the
  pipeline does not use. Migrations run offline.
- The retention of marks and audit rows (nothing in the repository starts the
  retention jobs), and the conversation of a generation retry and the legacy
  follow-up questions, which no handler asks any more.
- In `ProductLookup`, texts that start another ad, which work on a draft of their
  own. Product resolution is assumed to be enabled.
- In `InlineIngress`, the death of the one process; an inline queue on Postgres has
  neither lock nor single writer and behaves like a worker call in the request.
- External systems are modelled from how the code uses them: Cloud Tasks and Meta
  deliver at least once; Postgres at READ COMMITTED with row locks, with the ORM's
  identity map, `expire_on_commit=False` and `autoflush=False`; CityScreen gives
  fresh ids and replaces the slot list; the providers may do anything with a job.
