------------------------------ MODULE AdWorkflow ------------------------------
(***************************************************************************)
(* Worker calls that handle messages of ONE operator concurrently          *)
(* (TaskProcessor.process): each reads the conversation session and the    *)
(* current draft, works on its copies across LLM, generation and CMS       *)
(* calls, and writes back                                                  *)
(*   - the draft through updates conditional on its version,               *)
(*   - the session row column by column, unconditionally,                  *)
(*   - variant rounds and published ads without any version.               *)
(* Cloud Tasks runs the calls of one operator in parallel, so every await  *)
(* is a point where another call may commit.                               *)
(*                                                                         *)
(* A transaction is one action, taken at its commit: its first conditional *)
(* update locks the draft row until then. The two SELECTs that load the    *)
(* session and the draft are actions of their own.                         *)
(*                                                                         *)
(* Data abstraction: of a draft, its workflow columns; of a product, only  *)
(* whether it has a photo; of an LLM's or a provider's answer, only which  *)
(* way it sends the handler. Texts, prices, history, onboarding, branding  *)
(* and logo uploads, which touch none of this state, are left out.         *)
(***************************************************************************)
EXTENDS Naturals, Sequences, FiniteSets

CONSTANTS
    Workers,    \* concurrent calls of the worker endpoint
    Kinds,      \* the messages that may arrive, a subset of AllKinds
    MaxMsgs,    \* bound: messages in one behaviour, repeated ones included
    MaxAborts   \* bound: calls that raise or die, or lose the CMS's answer

\* Four reply buttons about a preview, two about a product, text and photo.
AllKinds == {"confirm", "cancel", "select", "approve", "reject", "text", "photo"}

ASSUME KindsAssumption == Kinds \subseteq AllKinds
ASSUME WorkersAssumption == IsFiniteSet(Workers)
ASSUME BoundsAssumption == MaxMsgs \in Nat /\ MaxAborts \in Nat

VARIABLES
    session,    \* the conversation_session row
    drafts,     \* ad_draft rows, in the order of their insertion
    rounds,     \* ad_variant_round rows with their two ad_variant rows
    published,  \* published_ad rows
    ads,        \* advertisements that exist in the CMS (external)
    h,          \* the call each worker runs
    received,   \* messages received so far
    aborts      \* calls that raised, died or lost the CMS's answer so far

vars == <<session, drafts, rounds, published, ads, h, received, aborts>>

-----------------------------------------------------------------------------
\* Data

New == 0                    \* the id of a draft that is not inserted yet
NoRound == 0
NoImage == <<0, 0>>         \* else <<round, slot>>, the variant it shows
Slots == 1..2
Pendings == {"NONE", "CLASSIFICATION", "PRODUCT_CONFIRMATION",
             "VARIANT_SELECTION", "MISSING_INFO"}
Statuses == {"DRAFT", "GENERATING", "PREVIEW_READY", "PUBLISHED"}

FreshDraft ==
    [id |-> New, version |-> 1, status |-> "DRAFT", image |-> NoImage,
     typed |-> FALSE, photo |-> FALSE, awaiting |-> FALSE]

\* pending_question_context: empty, a round to select from, or the data of
\* another question, which no two questions share.
NoContext == <<"empty", NoRound>>
OtherContext == <<"question", NoRound>>
RoundContext(r) == <<"round", r>>

NoSession == [draft |-> New, pending |-> "NONE", context |-> NoContext]

IdleCall ==
    [pc |-> "idle", kind |-> "text", row |-> NoSession, mem |-> FreshDraft,
     round |-> NoRound, ad |-> 0]

\* "session", "draft": before the two loads; "act": loaded; "plan": the
\* planner's LLM call; "poll": the generation; "cms": the CMS call;
\* "record": the CMS has the ad.
PCs == {"idle", "session", "draft", "act", "plan", "poll", "cms", "record"}

Init ==
    /\ session = NoSession
    /\ drafts = <<>>
    /\ rounds = <<>>
    /\ published = {}
    /\ ads = <<>>
    /\ h = [k \in Workers |-> IdleCall]
    /\ received = 0
    /\ aborts = 0

-----------------------------------------------------------------------------
\* Repositories

With(r, fields) == [x \in DOMAIN r |-> IF x \in DOMAIN fields THEN fields[x] ELSE r[x]]
NoFields == <<>>

\* The database row of the draft a call works on, and its copy of it.
Loaded(k) ==
    LET m == h[k].mem
    IN  [row |-> IF m.id = New THEN m ELSE drafts[m.id], mem |-> m, ok |-> TRUE]

\* Mutant: the update is not conditional on the version.
WriteUnchecked(c, fields) ==
    LET Apply(r) == [With(r, fields) EXCEPT !.version = r.version + 1]
    IN  {[row |-> Apply(c.row), mem |-> Apply(c.mem), ok |-> TRUE]}

\* update_for_operator_with_version. When no row has the expected version
\* the row stays; the ORM may nevertheless have applied the update, version
\* included, to the call's copy (it synchronises objects that satisfy the
\* WHERE clause in memory, without a look at the row count).
Write(c, fields) ==
    LET Apply(r) == [With(r, fields) EXCEPT !.version = r.version + 1]
    IN  IF c.mem.version = c.row.version
        THEN {[row |-> Apply(c.row), mem |-> Apply(c.mem), ok |-> TRUE]}
        ELSE {[row |-> c.row, mem |-> m, ok |-> FALSE] : m \in {c.mem, Apply(c.mem)}}

\* Mutant: a new draft is never inserted.
PutWithoutInsert(rows, d) == IF d.id = New THEN rows ELSE [rows EXCEPT ![d.id] = d]

\* INSERT of a new draft, or the new contents of its row.
Put(rows, d) ==
    IF d.id = New THEN Append(rows, [d EXCEPT !.id = Len(rows) + 1])
                  ELSE [rows EXCEPT ![d.id] = d]

IdIn(rows, d) == IF d.id = New THEN Len(rows) + 1 ELSE d.id

\* The unit of work writes the columns whose value is not the one the call
\* loaded; the others keep what the row has by now.
ByColumn(row, draft, pending, context) ==
    [draft |-> IF draft # row.draft THEN draft ELSE session.draft,
     pending |-> IF pending # row.pending THEN pending ELSE session.pending,
     context |-> IF context # row.context \/ context = OtherContext
                 THEN context ELSE session.context]

\* create_or_update. A call that found no row looks again, and writes all its
\* values over a row that another call has made since (when the two inserts
\* collide, one call raises: see Abort). A row without a draft, which a
\* commit in the middle may leave, is not told apart from no row.
Saved(row, draft, pending, context) ==
    {ByColumn(row, draft, pending, context)}
        \union (IF row.draft = New
                THEN {[draft |-> draft, pending |-> pending, context |-> context]} ELSE {})

\* The last commit of a call that leaves the pending question as it loaded it.
FinishKeeping(k, rows, draft) ==
    /\ drafts' = rows
    /\ \/ session' = [session EXCEPT !.draft = IF draft # h[k].row.draft THEN draft ELSE @]
       \/ /\ h[k].row.draft = New
          /\ session' = [NoSession EXCEPT !.draft = draft]
    /\ h' = [h EXCEPT ![k] = IdleCall]

\* The last commit of a call that decides on the pending question.
Finish(k, rows, draft, pending, context) ==
    /\ drafts' = rows
    /\ session' \in Saved(h[k].row, draft, pending, context)
    /\ h' = [h EXCEPT ![k] = IdleCall]

Kept == UNCHANGED <<rounds, published, ads, received, aborts>>

\* What a call that did not touch the draft commits.
LeaveAsIs(k) ==
    /\ FinishKeeping(k, Put(drafts, Loaded(k).row), IdIn(drafts, h[k].mem))
    /\ Kept

-----------------------------------------------------------------------------
\* Loading

Receive(k, kind) ==
    /\ h[k].pc = "idle"
    /\ received < MaxMsgs
    /\ kind \in Kinds
    /\ received' = received + 1
    /\ h' = [h EXCEPT ![k] = [IdleCall EXCEPT !.pc = "session", !.kind = kind]]
    /\ UNCHANGED <<session, drafts, rounds, published, ads, aborts>>

LoadSession(k) ==
    /\ h[k].pc = "session"
    /\ h' = [h EXCEPT ![k].pc = "draft", ![k].row = session]
    /\ UNCHANGED <<session, drafts>> /\ Kept

\* The draft the session named when it was loaded, as it is now; a session
\* without a draft gets a new one.
LoadDraft(k) ==
    /\ h[k].pc = "draft"
    /\ h' = [h EXCEPT ![k].pc = "act",
                      ![k].mem = IF h[k].row.draft = New THEN FreshDraft
                                 ELSE drafts[h[k].row.draft]]
    /\ UNCHANGED <<session, drafts>> /\ Kept

\* A call of that kind is about to act on the question it loaded.
Acts(k, kinds, pendings) ==
    h[k].pc = "act" /\ h[k].kind \in kinds /\ h[k].row.pending \in pendings

\* A button that the pending question does not accept.
Buttons == {"confirm", "cancel", "select", "approve", "reject"}
Answering(pending) ==
    CASE pending = "PRODUCT_CONFIRMATION" -> {"approve", "reject"}
      [] pending = "VARIANT_SELECTION" -> {"select"}
      [] pending = "CLASSIFICATION" -> {}
      [] OTHER -> {"confirm", "cancel"}

Reprompt(k) ==
    /\ h[k].pc = "act"
    /\ h[k].kind \in Buttons \ Answering(h[k].row.pending)
    /\ LeaveAsIs(k)

-----------------------------------------------------------------------------
\* Product question

AskProduct(k, rows, draft) == Finish(k, rows, draft, "PRODUCT_CONFIRMATION", OtherContext)
AskProductAgain(k, rows, draft) == Finish(k, rows, draft, "PRODUCT_CONFIRMATION", NoContext)
AskType(k, rows, draft) == Finish(k, rows, draft, "CLASSIFICATION", OtherContext)
AskMissing(k, rows, draft) == Finish(k, rows, draft, "MISSING_INFO", OtherContext)
AskNothing(k, rows, draft) == Finish(k, rows, draft, "NONE", NoContext)

\* The operator refuses the product found: button, or "no" in words.
RejectProduct(k) ==
    /\ Acts(k, {"reject", "text"}, {"PRODUCT_CONFIRMATION"})
    /\ \E c \in Write(Loaded(k), [awaiting |-> FALSE, photo |-> FALSE]) :
          AskNothing(k, Put(drafts, c.row), IdIn(drafts, c.mem))
    /\ Kept

\* A text that is neither yes nor no.
RepeatProductQuestion(k) ==
    /\ Acts(k, {"text"}, {"PRODUCT_CONFIRMATION"})
    /\ LeaveAsIs(k)

\* The commit before the planner's LLM call. The row of the session keeps
\* the question the call loaded unless the handler cleared it.
CommitAndPlan(k, c, kind, cleared) ==
    /\ drafts' = Put(drafts, c.row)
    /\ session' = IF cleared /\ h[k].row.pending # "NONE"
                  THEN [session EXCEPT !.pending = "NONE", !.context = NoContext]
                  ELSE session
    /\ h' = [h EXCEPT ![k].pc = "plan", ![k].kind = kind,
                      ![k].mem = [c.mem EXCEPT !.id = IdIn(drafts, c.mem)],
                      ![k].row = IF cleared THEN [@ EXCEPT !.pending = "NONE",
                                                           !.context = NoContext] ELSE @]

\* "Yes", by button or in words: a refused write ends the call, a missing
\* mandatory field is asked for, else the planner is consulted.
ApproveProduct(k) ==
    /\ Acts(k, {"approve", "text"}, {"PRODUCT_CONFIRMATION"})
    /\ \E c \in Write(Loaded(k), [awaiting |-> FALSE]) :
          LET rows == Put(drafts, c.row)
              cur == IdIn(drafts, c.mem)
          IN  IF ~c.ok THEN AskNothing(k, rows, cur)
              ELSE \/ AskMissing(k, rows, cur)
                   \/ CommitAndPlan(k, c, "approve", FALSE)
    /\ Kept

-----------------------------------------------------------------------------
\* Photo

StartsImageFlow(row, d) ==
    \/ row.pending = "CLASSIFICATION"
    \/ ~d.typed
    \/ /\ row.pending = "NONE" /\ d.status = "DRAFT" /\ ~d.awaiting
       /\ ~d.photo /\ d.image = NoImage

\* The photo could not be fetched or decoded.
PhotoUnusable(k) ==
    /\ Acts(k, {"photo"}, Pendings)
    /\ LeaveAsIs(k)

\* The photo is stored in the draft; at the start of a flow it also makes
\* the draft a single product that waits for confirmation. The first write
\* counts as done when the copy of the draft has the photo, the second is
\* followed by one that rehosts the image.
PhotoIngested(k) ==
    /\ Acts(k, {"photo"}, Pendings)
    /\ LET first == StartsImageFlow(h[k].row, h[k].mem)
       IN  \E c1 \in Write(Loaded(k), [photo |-> TRUE]) :
             IF first /\ (c1.ok \/ c1.mem.version # h[k].mem.version)
             THEN \E c2 \in Write(c1, [typed |-> TRUE, awaiting |-> TRUE]) :
                    IF c2.ok
                    THEN \E c3 \in {c2} \union Write(c2, NoFields) :
                           AskProduct(k, Put(drafts, c3.row), IdIn(drafts, c3.mem))
                    ELSE FinishKeeping(k, Put(drafts, c2.row), IdIn(drafts, c2.mem))
             ELSE FinishKeeping(k, Put(drafts, c1.row), IdIn(drafts, c1.mem))
    /\ Kept

-----------------------------------------------------------------------------
\* Text

\* Small talk, branding, the publish question, an LLM failure: nothing of
\* the workflow changes, except that the answer to a missing detail may turn
\* out to be another subject, or may exhaust the reprompts.
Chat(k) ==
    /\ Acts(k, {"text"}, Pendings \ {"PRODUCT_CONFIRMATION"})
    /\ \/ FinishKeeping(k, Put(drafts, Loaded(k).row), IdIn(drafts, h[k].mem))
       \/ /\ h[k].row.pending = "MISSING_INFO"
          /\ \/ AskNothing(k, Put(drafts, Loaded(k).row), IdIn(drafts, h[k].mem))
             \/ AskMissing(k, Put(drafts, Loaded(k).row), IdIn(drafts, h[k].mem))
    /\ Kept

\* The draft a text about an ad is about: a new one for a new ad, unless
\* the call just made one or was asked for the request type; else the
\* current one.
AdDraft(k, newAd) ==
    IF newAd /\ h[k].mem.id # New
    THEN [row |-> FreshDraft, mem |-> FreshDraft, ok |-> TRUE]
    ELSE Loaded(k)

\* What the extracted fields and the product search may make of a draft: a
\* photo where there was none, to be confirmed first if the ad is new.
Described(c, new) ==
    {c} \union Write(c, NoFields)
        \union (IF c.mem.photo THEN {} ELSE Write(c, [photo |-> TRUE]))
        \union (IF c.mem.photo \/ ~new THEN {} ELSE Write(c, [photo |-> TRUE, awaiting |-> TRUE]))

\* A text about an ad. The request type is persisted whether or not the
\* write is refused; the refusal of what follows is answered to the operator.
TextAboutAd(k) ==
    /\ Acts(k, {"text"}, Pendings \ {"PRODUCT_CONFIRMATION"})
    /\ \E newAd \in IF h[k].row.pending = "CLASSIFICATION" THEN {FALSE} ELSE BOOLEAN :
       LET c0 == AdDraft(k, newAd)
       IN \E typed \in IF c0.mem.typed THEN {TRUE} ELSE BOOLEAN :
          \E c1 \in Write(c0, [typed |-> typed]) :
          IF ~typed
          THEN AskType(k, Put(drafts, c1.row), IdIn(drafts, c1.mem))
          ELSE \E c2 \in Described(c1, newAd \/ h[k].row.pending = "CLASSIFICATION") :
               LET rows == Put(drafts, c2.row)
                   cur == IdIn(drafts, c2.mem)
               IN  \/ AskNothing(k, rows, cur)
                   \/ c2.mem.awaiting /\ (AskProduct(k, rows, cur) \/ AskProductAgain(k, rows, cur))
                   \/ /\ ~c2.mem.awaiting
                      /\ AskMissing(k, rows, cur) \/ CommitAndPlan(k, c2, "text", TRUE)
    /\ Kept

\* The answer to the planner's question goes to the planner at once.
AnswerPlanner(k) ==
    /\ Acts(k, {"text"}, {"MISSING_INFO"})
    /\ ~h[k].mem.awaiting
    /\ h[k].mem.typed
    /\ CommitAndPlan(k, Loaded(k), "text", FALSE)
    /\ Kept

-----------------------------------------------------------------------------
\* Planner and generation

\* The planner asks for another detail.
PlannerAsks(k) ==
    /\ h[k].pc = "plan"
    /\ h[k].mem.id # New
    /\ AskMissing(k, drafts, h[k].mem.id)
    /\ Kept

\* The answer settles the brief, and the call resumes with the intent that
\* started the questions. When that was a new ad it makes another draft,
\* on which the answer is read like a first text and the planner is skipped.
ResumeAsNewAd(k) ==
    /\ h[k].pc = "plan"
    /\ h[k].kind = "text" /\ h[k].row.pending = "MISSING_INFO"
    /\ LET fresh == [row |-> FreshDraft, mem |-> FreshDraft, ok |-> TRUE]
       IN \E typed \in BOOLEAN :
          \E c1 \in Write(fresh, [typed |-> typed]) :
          IF ~typed
          THEN AskType(k, Put(drafts, c1.row), IdIn(drafts, c1.mem))
          ELSE \E c2 \in Described(c1, TRUE) :
               LET rows == Put(drafts, c2.row)
                   cur == IdIn(drafts, c2.mem)
               IN  \/ AskNothing(k, rows, cur)
                   \/ c2.mem.awaiting /\ AskProduct(k, rows, cur)
                   \/ /\ ~c2.mem.awaiting
                      /\ h' = [h EXCEPT ![k].mem = c2.mem]
                      /\ UNCHANGED <<session, drafts>>
    /\ Kept

\* Writes between the planner's answer and the submission: the marketing
\* brief, or the fields of an answer; a refusal is tolerated.
Prepared(k) == {Loaded(k)} \union Write(Loaded(k), NoFields)

\* submit_variant_pair raises AdGenerationError.
SubmitFails(k) ==
    /\ h[k].pc = "plan"
    /\ \E c \in Prepared(k) :
       \E e \in IF c.mem.status = "GENERATING"
                THEN Write(c, [status |-> "DRAFT", awaiting |-> FALSE]) ELSE {c} :
          AskNothing(k, Put(drafts, e.row), IdIn(drafts, e.mem))
    /\ Kept

RoundsOf(d) == {r \in DOMAIN rounds : rounds[r].draft = d}
LastAttempt(d) ==
    CHOOSE n \in {0} \union {rounds[r].attempt : r \in RoundsOf(d)} :
        \A r \in RoundsOf(d) : rounds[r].attempt <= n

\* Mutant: the active round of the draft is not superseded.
AddRoundOnly(d) ==
    rounds' = Append(rounds, [draft |-> d, attempt |-> LastAttempt(d) + 1,
                              status |-> "ACTIVE", complete |-> FALSE])

\* replace_active_round, or create for the first one: the active round of
\* the draft is superseded, the new one starts with two failed variants.
AddRound(d) ==
    rounds' = Append([r \in DOMAIN rounds |->
                        IF rounds[r].draft = d /\ rounds[r].status = "ACTIVE"
                        THEN [rounds[r] EXCEPT !.status = "SUPERSEDED"] ELSE rounds[r]],
                     [draft |-> d, attempt |-> LastAttempt(d) + 1,
                      status |-> "ACTIVE", complete |-> FALSE])

\* The jobs are submitted; if the draft is still the one the call knows it
\* becomes GENERATING and gets a round, and that is committed before the
\* poll. A text has cleared the pending question by then.
StartGeneration(k) ==
    /\ h[k].pc = "plan"
    /\ \E c \in Prepared(k) :
       \E g \in Write(c, [status |-> "GENERATING", awaiting |-> FALSE]) :
          IF ~g.ok
          THEN AskNothing(k, Put(drafts, g.row), IdIn(drafts, g.mem)) /\ UNCHANGED rounds
          ELSE LET cleared == h[k].kind = "text"
                   cur == IdIn(drafts, g.mem)
               IN /\ drafts' = Put(drafts, g.row)
                  /\ AddRound(cur)
                  /\ session' = IF cleared /\ h[k].row.pending # "NONE"
                                THEN [session EXCEPT !.pending = "NONE", !.context = NoContext]
                                ELSE session
                  /\ h' = [h EXCEPT ![k].pc = "poll", ![k].mem = [g.mem EXCEPT !.id = cur],
                                    ![k].round = Len(rounds) + 1,
                                    ![k].row = IF cleared
                                               THEN [@ EXCEPT !.pending = "NONE",
                                                              !.context = NoContext] ELSE @]
    /\ UNCHANGED <<published, ads, received, aborts>>

\* Both variants are there. The draft shows the first one, and the operator
\* is asked to select, unless somebody changed the draft.
PairCompleted(k) ==
    /\ h[k].pc = "poll"
    /\ rounds' = [rounds EXCEPT ![h[k].round].complete = TRUE]
    /\ \E c \in Write(Loaded(k), [status |-> "PREVIEW_READY", awaiting |-> FALSE,
                                  image |-> <<h[k].round, 1>>]) :
          IF c.ok
          THEN Finish(k, Put(drafts, c.row), c.mem.id,
                      "VARIANT_SELECTION", RoundContext(h[k].round))
          ELSE AskNothing(k, Put(drafts, c.row), c.mem.id)
    /\ UNCHANGED <<published, ads, received, aborts>>

\* Mutant: a round with a failed variant is offered like a complete one.
PairFailedOffered(k) ==
    /\ h[k].pc = "poll"
    /\ UNCHANGED rounds
    /\ \E c \in Write(Loaded(k), [status |-> "PREVIEW_READY", awaiting |-> FALSE,
                                  image |-> <<h[k].round, 1>>]) :
          Finish(k, Put(drafts, c.row), c.mem.id, "VARIANT_SELECTION", RoundContext(h[k].round))
    /\ UNCHANGED <<published, ads, received, aborts>>

\* A variant failed: the round is marked without a look at its status.
PairFailed(k) ==
    /\ h[k].pc = "poll"
    /\ rounds' = [rounds EXCEPT ![h[k].round].status = "FAILED"]
    /\ \E c \in Write(Loaded(k), [status |-> "DRAFT", awaiting |-> FALSE]) :
          AskNothing(k, Put(drafts, c.row), c.mem.id)
    /\ UNCHANGED <<published, ads, received, aborts>>

\* The poll raises AdGenerationError: the round is left as it is.
PollFails(k) ==
    /\ h[k].pc = "poll"
    /\ \E c \in Write(Loaded(k), [status |-> "DRAFT", awaiting |-> FALSE]) :
          AskNothing(k, Put(drafts, c.row), c.mem.id)
    /\ Kept

-----------------------------------------------------------------------------
\* Selection and publishing

\* The button names a slot, the round comes from the session and the draft
\* is the current one.
SelectVariant(k) ==
    /\ Acts(k, {"select"}, {"VARIANT_SELECTION"})
    /\ h[k].row.context[1] = "round"
    /\ \E slot \in Slots :
       \E c \in Write(Loaded(k), [image |-> <<h[k].row.context[2], slot>>]) :
          IF c.ok THEN AskNothing(k, Put(drafts, c.row), c.mem.id)
                  ELSE FinishKeeping(k, Put(drafts, c.row), c.mem.id)
    /\ Kept

\* The context of the question names no round.
SelectNothing(k) ==
    /\ Acts(k, {"select"}, {"VARIANT_SELECTION"})
    /\ h[k].row.context[1] # "round"
    /\ LeaveAsIs(k)

RecordsOf(d) == {p \in published : p.draft = d}

\* The decision is taken: a new empty draft becomes the current one.
Resolve(k, rows) ==
    LET all == Append(rows, [FreshDraft EXCEPT !.id = Len(rows) + 1])
    IN  AskNothing(k, all, Len(all))

Confirms(k) == Acts(k, {"confirm"}, {"NONE", "MISSING_INFO"})

\* The idempotency check of _confirm_publish_to_cms.
AlreadyPublished(d) == d.status = "PUBLISHED" /\ RecordsOf(d.id) # {}

\* There is no image, or the operator or the system has no CMS.
CannotPublish(k) ==
    /\ Confirms(k)
    /\ h[k].mem.image = NoImage \/ ~AlreadyPublished(h[k].mem)
    /\ LeaveAsIs(k)

\* With more than one published_ad row the lookup raises (see Abort).
SkipPublish(k) ==
    /\ Confirms(k)
    /\ h[k].mem.image # NoImage
    /\ AlreadyPublished(h[k].mem)
    /\ Cardinality(RecordsOf(h[k].mem.id)) = 1
    /\ Resolve(k, drafts)
    /\ Kept

CallCms(k) ==
    /\ Confirms(k)
    /\ h[k].mem.image # NoImage
    /\ ~AlreadyPublished(h[k].mem)
    /\ h' = [h EXCEPT ![k].pc = "cms"]
    /\ UNCHANGED <<session, drafts>> /\ Kept

CmsAccepts(k) ==
    /\ h[k].pc = "cms"
    /\ ads' = Append(ads, [draft |-> h[k].mem.id, image |-> h[k].mem.image])
    /\ h' = [h EXCEPT ![k].pc = "record", ![k].ad = Len(ads) + 1]
    /\ UNCHANGED <<session, drafts, rounds, published, received, aborts>>

\* CMSPublishError, before the CMS has an ad: the operator may press again.
CmsRefuses(k) ==
    /\ h[k].pc = "cms"
    /\ LeaveAsIs(k)

\* CMSPublishError although the CMS has the ad: its answer was lost or
\* unusable, or the playlist update that follows failed.
CmsAnswerUnusable(k) ==
    /\ h[k].pc = "cms"
    /\ aborts < MaxAborts
    /\ aborts' = aborts + 1
    /\ ads' = Append(ads, [draft |-> h[k].mem.id, image |-> h[k].mem.image])
    /\ FinishKeeping(k, Put(drafts, Loaded(k).row), IdIn(drafts, h[k].mem))
    /\ UNCHANGED <<rounds, published, received>>

\* Mutant: the publish is recorded only with the versioned write.
RecordPublishIfCurrent(k) ==
    /\ h[k].pc = "record"
    /\ \E c \in Write(Loaded(k), [status |-> "PUBLISHED"]) :
          /\ published' = IF c.ok THEN published \union {[ad |-> h[k].ad, draft |-> h[k].mem.id]}
                                  ELSE published
          /\ Resolve(k, Put(drafts, c.row))
    /\ UNCHANGED <<rounds, ads, received, aborts>>

\* The CMS id is new, so it is recorded; the draft becomes PUBLISHED unless
\* somebody changed it, which is tolerated.
RecordPublish(k) ==
    /\ h[k].pc = "record"
    /\ published' = published \union {[ad |-> h[k].ad, draft |-> h[k].mem.id]}
    /\ \E c \in Write(Loaded(k), [status |-> "PUBLISHED"]) : Resolve(k, Put(drafts, c.row))
    /\ UNCHANGED <<rounds, ads, received, aborts>>

CancelPublish(k) ==
    /\ Acts(k, {"cancel"}, {"NONE", "MISSING_INFO"})
    /\ IF h[k].mem.image # NoImage \/ h[k].mem.status \in {"PREVIEW_READY", "PUBLISHED"}
       THEN Resolve(k, drafts) /\ Kept
       ELSE LeaveAsIs(k)

-----------------------------------------------------------------------------
\* An exception that nobody catches, or the death of the instance: what was
\* not committed is lost. A repeated delivery is another Receive.
Abort(k) ==
    /\ h[k].pc # "idle"
    /\ aborts < MaxAborts
    /\ aborts' = aborts + 1
    /\ h' = [h EXCEPT ![k] = IdleCall]
    /\ UNCHANGED <<session, drafts, rounds, published, ads, received>>

Loads(k) == LoadSession(k) \/ LoadDraft(k)
Questions(k) == Reprompt(k) \/ RejectProduct(k) \/ RepeatProductQuestion(k) \/ ApproveProduct(k)
Texts(k) == Chat(k) \/ TextAboutAd(k) \/ AnswerPlanner(k)
Photos(k) == PhotoUnusable(k) \/ PhotoIngested(k)
Generation(k) ==
    \/ PlannerAsks(k) \/ ResumeAsNewAd(k) \/ SubmitFails(k) \/ StartGeneration(k)
    \/ PairCompleted(k) \/ PairFailed(k) \/ PollFails(k)
Publishing(k) ==
    \/ SelectVariant(k) \/ SelectNothing(k) \/ CannotPublish(k) \/ SkipPublish(k) \/ CallCms(k)
    \/ CmsAccepts(k) \/ CmsRefuses(k) \/ CmsAnswerUnusable(k) \/ RecordPublish(k)
    \/ CancelPublish(k)

\* Every message is handled and the operator sends no other.
Rest ==
    /\ received = MaxMsgs
    /\ \A k \in Workers : h[k].pc = "idle"
    /\ UNCHANGED vars

Next ==
    \/ \E k \in Workers :
          \/ \E kind \in Kinds : Receive(k, kind)
          \/ Loads(k) \/ Questions(k) \/ Texts(k) \/ Photos(k)
          \/ Generation(k) \/ Publishing(k) \/ Abort(k)
    \/ Rest

Spec == Init /\ [][Next]_vars

-----------------------------------------------------------------------------
\* Types

Rounds == DOMAIN rounds
Images == {NoImage} \union (Rounds \X Slots)
Contexts == {NoContext, OtherContext} \union {RoundContext(r) : r \in Rounds}

DraftRows(ids) ==
    [id : ids, version : Nat \ {0}, status : Statuses, image : Images,
     typed : BOOLEAN, photo : BOOLEAN, awaiting : BOOLEAN]
SessionRows ==
    [draft : {New} \union DOMAIN drafts, pending : Pendings, context : Contexts]
Calls ==
    [pc : PCs, kind : AllKinds, row : SessionRows,
     mem : DraftRows({New} \union DOMAIN drafts),
     round : {NoRound} \union Rounds, ad : {0} \union DOMAIN ads]

TypeOK ==
    /\ drafts \in Seq(DraftRows(DOMAIN drafts))
    /\ \A d \in DOMAIN drafts : drafts[d].id = d
    /\ rounds \in Seq([draft : DOMAIN drafts, attempt : Nat \ {0},
                       status : {"ACTIVE", "SUPERSEDED", "FAILED"}, complete : BOOLEAN])
    /\ session \in SessionRows
    /\ ads \in Seq([draft : DOMAIN drafts, image : Images])
    /\ published \subseteq [ad : DOMAIN ads, draft : DOMAIN drafts]
    /\ h \in [Workers -> Calls]
    /\ received \in 0..MaxMsgs
    /\ aborts \in 0..MaxAborts

-----------------------------------------------------------------------------
\* Properties

\* The rounds are a RoundLedger for generations that overlap, fail or die:
\* attempts are numbered without a gap and only the last is ACTIVE, because
\* superseding and numbering happen under the lock that the GENERATING write
\* took, and a round is decided once, by the call that opened it.
Ledger == INSTANCE RoundLedger
    WITH ledger <- rounds,
         running <- {h[k].round : k \in {x \in Workers : h[x].pc = "poll"}}

ImplementsLedger ==
    Ledger!Init /\ [][Ledger!Next(DOMAIN drafts')]_(Ledger!ledgerVars)

\* "Exactly two ad variants per round (valid outputs only)": what a draft
\* shows, what the CMS got and what the operator may select from always
\* belongs to a round that completed and was not failed.
OnlyCompletePairs ==
    LET Complete(r) == rounds[r].complete /\ rounds[r].status # "FAILED"
    IN  /\ \A d \in DOMAIN drafts : drafts[d].image # NoImage => Complete(drafts[d].image[1])
        /\ \A a \in DOMAIN ads : Complete(ads[a].image[1])
        /\ session.context[1] = "round" => Complete(session.context[2])

\* A generation that comes back shows its preview only if no generation of
\* the draft was started after it.
PreviewIsLatest ==
    [][\A d \in DOMAIN drafts :
          drafts'[d].status = "PREVIEW_READY" /\ drafts[d].status # "PREVIEW_READY" =>
             LET r == drafts'[d].image[1]
             IN  rounds[r].status = "ACTIVE" /\ rounds[r].attempt = LastAttempt(d)]_vars

\* A draft becomes PUBLISHED only with the image the CMS was given for it:
\* a selection or a generation during the CMS call prevents it.
PublishedAsSent ==
    [][\A d \in DOMAIN drafts :
          drafts'[d].status = "PUBLISHED" /\ drafts[d].status # "PUBLISHED" =>
             \E p \in published' \ published :
                p.draft = d /\ ads[p.ad] = [draft |-> d, image |-> drafts'[d].image]]_vars

\* Every advertisement of the CMS is recorded, or is about to be, or its
\* call died before the commit, or was told that the publish had failed.
AdsAccounted ==
    Len(ads) <= Cardinality(published)
                + Cardinality({k \in Workers : h[k].pc = "record"}) + aborts

\* "Idempotency: skip CMS call if draft is already published."
OnePublishPerDraft ==
    \A a, b \in DOMAIN ads : ads[a].draft = ads[b].draft => a = b

\* "so previous ad edits cannot leak into this flow": a draft shows only
\* images of its own rounds.
ImageOfOwnRound ==
    \A d \in DOMAIN drafts :
        drafts[d].image # NoImage => rounds[drafts[d].image[1]].draft = d

=============================================================================
