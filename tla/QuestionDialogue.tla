--------------------------- MODULE QuestionDialogue ---------------------------
(***************************************************************************)
(* The questions an operator is asked before an ad is generated, one       *)
(* message at a time: the request type, the confirmation of a product, the *)
(* mandatory fields of the question policy and the questions of the        *)
(* creative brief planner, and how the pending question and the intent of  *)
(* the previous message decide what the next message means; the            *)
(* onboarding of an operator without a name or a logo, which comes before  *)
(* everything else, the upload of a logo, and what the retention jobs      *)
(* delete between two messages.                                            *)
(*                                                                         *)
(* A message is one action with the whole handler; AdWorkflow has what     *)
(* happens when handlers overlap. An answer of the LLM, of a search or of  *)
(* a generation is a choice. Of a draft, the model has which fields are    *)
(* set; of a brief, which of its dimensions are known. The legacy          *)
(* follow-up questions, which are no longer asked, are left out; the       *)
(* generation service is enabled.                                          *)
(***************************************************************************)
EXTENDS Naturals, Sequences, FiniteSets

CONSTANTS
    QuestionCap,        \* DEFAULT_SOFT_QUESTION_CAP
    MaxReprompts,       \* MAX_REPROMPTS_DEFAULT
    MaxClarifications   \* MAX_PRE_GENERATION_CLARIFICATION_QUESTIONS

ASSUME LimitsAssumption ==
    QuestionCap \in Nat /\ MaxReprompts \in Nat /\ MaxClarifications \in Nat

VARIABLES
    draft,      \* the operator's current draft
    pending,    \* the pending question with its context
    hint,       \* last_user_intent_hint
    shown,      \* what was last previewed: type of its draft, is the product named?
    profile,    \* what is known of the operator
    upload      \* pending_upload_type: the next photo is the logo

vars == <<draft, pending, hint, shown, profile, upload>>

-----------------------------------------------------------------------------
\* Data

Types == {"UNSET", "SINGLE", "GENERAL"}     \* GENERAL: several products, or the store

Fresh ==
    [type |-> "UNSET", name |-> FALSE, price |-> FALSE, photo |-> FALSE,
     awaiting |-> FALSE, image |-> FALSE, ready |-> FALSE]

\* What the last message was taken for: no intent, a label that is none (a
\* button's), or an intent; "other" is one that is not about an ad.
Hints == {"None", "label", "unknown", "create", "regenerate", "other"}

Dimensions == {"product_identity", "creative_direction", "style_context"}

\* "headline" stands for keys whose answer fills no dimension, "scene" for
\* every key the planner may invent.
Keys == {"product_identity", "style", "creative_direction", "headline", "scene"}
NoKey == "none"

NoQuestion == [type |-> "NONE"]
TypeQuestion == [type |-> "CLASSIFICATION"]
ProductQuestion == [type |-> "PRODUCT_CONFIRMATION"]
VariantQuestion == [type |-> "VARIANT_SELECTION", round |-> TRUE]    \* its round exists
OnboardingQuestion == [type |-> "ONBOARDING"]
Mandatory(key, asked) ==
    [type |-> "MISSING_INFO", key |-> key, reprompts |-> 0, clarifications |-> asked]
BriefQuestion(b) == [type |-> "BRIEF", brief |-> b]     \* MISSING_INFO with the brief's stage

\* An operator with both is not onboarded (again).
Required == {"name", "logo"}
Onboarded == profile = Required

Essentials(d) == [type |-> d.type, name |-> d.name]

\* What a handler leaves behind.
Result(d, p, i) == [draft |-> d, pending |-> p, hint |-> i, preview |-> FALSE]
Preview(d, i) == [Result(d, VariantQuestion, i) EXCEPT !.preview = TRUE]

Init ==
    /\ draft = Fresh
    /\ pending = NoQuestion
    /\ hint = "None"
    /\ shown = Essentials(Fresh)
    /\ profile = {}
    /\ upload = FALSE

\* One of the results is committed.
CommitResult(results) ==
    \E r \in results :
        /\ draft' = r.draft
        /\ pending' = r.pending
        /\ hint' = r.hint
        /\ shown' = IF r.preview THEN Essentials(r.draft) ELSE shown

\* A message of an operator who is past the onboarding gate.
Commit(results) ==
    /\ Onboarded
    /\ CommitResult(results)
    /\ UNCHANGED <<profile, upload>>

-----------------------------------------------------------------------------
\* Question policy

\* Mutant: the price is not mandatory.
MissingFieldsNameOnly(d) ==
    IF d.type = "SINGLE" /\ ~d.name THEN <<"product_name">> ELSE <<>>

\* Mutant: the name is not mandatory.
MissingFieldsPriceOnly(d) ==
    IF d.type = "SINGLE" /\ ~d.price THEN <<"price">> ELSE <<>>

\* missing_mandatory_fields, in the order they are asked for.
MissingFields(d) ==
    IF d.type # "SINGLE" THEN <<>>
    ELSE (IF d.name THEN <<>> ELSE <<"product_name">>) \o (IF d.price THEN <<>> ELSE <<"price">>)

\* select_next_question, before a generation.
NextQuestion(d, asked) ==
    CASE d.type = "UNSET" -> TypeQuestion
      [] d.type # "UNSET" /\ d.awaiting -> ProductQuestion
      [] d.type # "UNSET" /\ ~d.awaiting /\ MissingFields(d) # <<>> /\ asked < MaxClarifications ->
            Mandatory(MissingFields(d)[1], asked + 1)
      [] OTHER -> NoQuestion

Filled(d, key) == IF key = "price" THEN [d EXCEPT !.price = TRUE] ELSE [d EXCEPT !.name = TRUE]

\* resolve_pending_question for an answer that says nothing.
Reprompted(p) ==
    IF p.reprompts + 1 > MaxReprompts THEN NoQuestion
                                      ELSE [p EXCEPT !.reprompts = @ + 1]

-----------------------------------------------------------------------------
\* Creative brief planner

NewBrief(source) ==
    [known |-> {}, asked |-> {}, key |-> NoKey, count |-> 0, source |-> source]

\* Mutant: the answer to a question is not used.
SettledByNothing(key) == {}

\* _apply_pending_answer_fallback: the dimension an answer settles.
Settled(key) ==
    CASE key = "product_identity" -> {"product_identity"}
      [] key = "style" -> {"style_context"}
      [] key \in {"creative_direction", "scene"} -> {"creative_direction"}
      [] OTHER -> {}

DefaultKey(known) ==
    CASE "product_identity" \notin known -> "product_identity"
      [] "creative_direction" \notin known -> "creative_direction"
      [] OTHER -> "style"

Ready(b) == [ready |-> TRUE, source |-> b.source]
Asked(b, key) ==
    [ready |-> FALSE,
     question |-> BriefQuestion([b EXCEPT !.asked = @ \union {key}, !.key = key,
                                          !.count = @ + 1])]

\* The planner says the brief is ready: it is asked for what is missing.
PlannerReady(b) ==
    IF b.known = Dimensions \/ b.count >= QuestionCap THEN Ready(b)
                                                      ELSE Asked(b, DefaultKey(b.known))

\* Mutant: questions without a cap.
PlannerAsksUncapped(b, key) ==
    IF b.known = Dimensions \/ (key \in b.asked /\ b.count < QuestionCap)
    THEN Ready(b) ELSE Asked(b, key)

\* The planner asks; the question is dropped at the cap, when nothing is
\* missing, and when it was asked before.
PlannerAsks(b, key) ==
    IF b.count >= QuestionCap \/ b.known = Dimensions \/ key \in b.asked
    THEN Ready(b) ELSE Asked(b, key)

\* The brief with the answer applied, and with what the planner learned from
\* it or from the operator's profile.
Advanced(b, d, answer, learned, source) ==
    [b EXCEPT !.known = @ \union learned \union Settled(answer)
                          \union (IF d.name THEN {"product_identity"} ELSE {}),
              !.source = IF source \in {"None", "unknown"} THEN @ ELSE source]

\* _advance_creative_brief_planner: a missing mandatory field comes first,
\* then the planner's decision on the brief. A planner that fails decides like
\* one of these.
Turns(d, b, clarifications, source, answer) ==
    IF MissingFields(d) # <<>>
    THEN {[ready |-> FALSE,
           question |-> Mandatory(MissingFields(d)[1], clarifications + 1)]}
    ELSE LET Versions == {Advanced(b, d, answer, learned, source) :
                            learned \in SUBSET {"creative_direction", "style_context"}}
         IN  {PlannerReady(c) : c \in Versions}
               \union {PlannerAsks(c, k) : c \in Versions, k \in Keys}

-----------------------------------------------------------------------------
\* Generation and ad requests

\* The pair is there, or the submission or the generation fails.
Generated(d, i) ==
    {Preview([d EXCEPT !.awaiting = FALSE, !.image = TRUE, !.ready = TRUE], i),
     Result(d, NoQuestion, i),
     Result([d EXCEPT !.awaiting = FALSE, !.ready = FALSE], NoQuestion, i)}

\* The planner's turn on a draft, and the generation when it has no question.
Planned(d, clarifications, source, i) ==
    UNION {IF t.ready THEN Generated(d, i) ELSE {Result(d, t.question, i)} :
           t \in Turns(d, NewBrief(source), clarifications, source, NoKey)}

\* The draft with some of its fields set, if they were not.
Gained(d, fields) ==
    [d EXCEPT !.name = @ \/ "name" \in fields, !.price = @ \/ "price" \in fields,
              !.photo = @ \/ "photo" \in fields, !.awaiting = @ \/ "awaiting" \in fields]

\* A photo or a text that is taken for no intent may show a barcode, whose
\* lookup may name the product or find its photo.
LookedUp(r) ==
    {[r EXCEPT !.draft = Gained(@, fields)] : fields \in SUBSET {"name", "photo"}}

\* What the extracted fields, the product search and the barcode lookup may
\* add to a single product. A photo found for a new ad has to be confirmed.
Described(d, i) ==
    {Gained(d, fields) :
     fields \in {new \in SUBSET {"name", "price", "photo", "awaiting"} :
                   "awaiting" \in new => "photo" \in new /\ i = "create" /\ ~d.photo}}

\* The search for the product of a new ad asks for a clearer name of it; the
\* extracted fields and what the barcode says are kept all the same.
Unclear(d, i) ==
    IF i = "create" /\ ~d.name
    THEN {Gained(d, fields) : fields \in SUBSET {"name", "price", "photo"}} ELSE {}

\* A text with an ad intent. Planned briefs skip the planner.
AdRequest(d, p, i, briefed, clarifications) ==
    LET d0 == IF i = "create" /\ p.type # "CLASSIFICATION" THEN Fresh ELSE d
        Typed == {[d0 EXCEPT !.type = t] :
                    t \in IF d0.type = "UNSET" THEN Types ELSE {d0.type}}
        Single(d1) ==
            {Result(d2, NoQuestion, i) : d2 \in {d1} \union Unclear(d1, i)} \union
            UNION {IF d2.awaiting THEN {Result(d2, ProductQuestion, i)}
                   ELSE IF briefed THEN Generated(d2, i)
                   ELSE Planned(d2, clarifications, i, i) : d2 \in Described(d1, i)}
    IN  {Result(d0, p, i)} \union      \* the LLM fails
        UNION {CASE d1.type = "UNSET" -> {Result(d1, TypeQuestion, i)}
                 [] d1.type = "GENERAL" -> {Result(d1, NoQuestion, i)}
                 [] d1.type = "SINGLE" -> Single(d1) : d1 \in Typed}

AdIntents == {"create", "regenerate"}

\* A text that leaves the pending question for another subject.
Interrupted ==
    (UNION {AdRequest(draft, NoQuestion, i, FALSE, 0) : i \in AdIntents})
    \union {Result(draft, NoQuestion, "other")}

-----------------------------------------------------------------------------
\* Texts

\* The LLM fails to classify a text.
TextNotUnderstood ==
    /\ pending.type \notin {"PRODUCT_CONFIRMATION", "CLASSIFICATION"}
    /\ Commit({Result(draft, pending, "None")})

\* A request to clear fields of the operator's profile, whatever was asked;
\* the name or the logo may be among them. A "yes" or "no" to a product in the
\* same text is left out.
ClearBranding ==
    /\ Onboarded
    /\ CommitResult({Result(draft, IF pending.type \in {"MISSING_INFO", "BRIEF"} THEN NoQuestion
                                  ELSE pending, "other")})
    /\ \E cleared \in SUBSET Required : profile' = profile \ cleared
    /\ UNCHANGED upload

\* Questions that a text does not answer.
Unanswered == {"NONE", "VARIANT_SELECTION", "ONBOARDING"}

TextFreely ==
    /\ pending.type \in Unanswered
    /\ Commit((UNION {AdRequest(draft, pending, i, FALSE, 0) : i \in AdIntents})
              \union {Result(draft, pending, "other")}
              \union LookedUp(Result(draft, pending, "unknown")))

\* A request to change the logo.
SetLogo ==
    /\ Onboarded
    /\ pending.type \in Unanswered
    /\ CommitResult({Result(draft, pending, "other")})
    /\ upload' = TRUE
    /\ UNCHANGED profile

\* Mutant: a refused product still waits for confirmation.
RefusedStillAwaiting(d) == [d EXCEPT !.photo = FALSE]
Refused(d) == [d EXCEPT !.awaiting = FALSE, !.photo = FALSE]

\* Yes, no, or a text that is neither.
AnswerProduct ==
    /\ pending.type = "PRODUCT_CONFIRMATION"
    /\ Commit(Planned([draft EXCEPT !.awaiting = FALSE], 0, "create", "unknown")
              \union {Result(Refused(draft), NoQuestion, "unknown")}
              \union LookedUp(Result(draft, pending, "unknown")))

\* The answer is read with the intent of the message that led to the
\* question.
AnswerType ==
    /\ pending.type = "CLASSIFICATION"
    /\ LET i == IF hint \in {"None", "label"} THEN "create" ELSE hint
       IN  Commit(CASE i \in AdIntents -> AdRequest(draft, pending, i, FALSE, 0)
                    [] i = "unknown" -> LookedUp(Result(draft, pending, i))
                    [] OTHER -> {Result(draft, pending, i)})

\* The price may be missing from the answer; any text is a product name.
\* Once nothing is missing the request goes on as a generation from scratch.
AnswerMandatory ==
    /\ pending.type = "MISSING_INFO"
    /\ LET d == Filled(draft, pending.key)
           asked == pending.clarifications
           next == NextQuestion(d, asked)
           Answered == IF next # NoQuestion
                       THEN LookedUp(Result(d, next, "unknown"))
                       ELSE AdRequest(d, NoQuestion, "regenerate", FALSE, asked)
       IN  Commit(Answered \union
                  IF pending.key = "price"
                  THEN Interrupted \union LookedUp(Result(draft, Reprompted(pending), "unknown"))
                  ELSE {})

\* The answer goes to the planner; a brief that is ready resumes with the
\* intent that started its questions.
AnswerBrief ==
    /\ pending.type = "BRIEF"
    /\ LET Resumed(source) ==
               CASE source \in AdIntents -> AdRequest(draft, NoQuestion, source, TRUE, 0)
                 [] source = "other" -> {Result(draft, NoQuestion, source)}
                 [] OTHER -> AdRequest(draft, NoQuestion, "regenerate", TRUE, 0)
       IN  Commit(Interrupted \union
                  UNION {IF t.ready THEN Resumed(t.source)
                         ELSE LookedUp(Result(draft, t.question, "unknown")) :
                         t \in Turns(draft, pending.brief, 0, hint, pending.brief.key)})

-----------------------------------------------------------------------------
\* Buttons and photos

ApproveProduct ==
    /\ pending.type = "PRODUCT_CONFIRMATION"
    /\ Commit(Planned([draft EXCEPT !.awaiting = FALSE], 0, "create", "label"))

RejectProduct ==
    /\ pending.type = "PRODUCT_CONFIRMATION"
    /\ Commit({Result(Refused(draft), NoQuestion, "label")})

\* A variant whose round is gone cannot be selected.
SelectVariant ==
    /\ pending.type = "VARIANT_SELECTION"
    /\ Commit({IF pending.round THEN Result([draft EXCEPT !.image = TRUE], NoQuestion, "label")
                                ELSE Result(draft, pending, "label")})

\* A button the pending question does not take.
Reprompt ==
    /\ pending.type \in {"PRODUCT_CONFIRMATION", "VARIANT_SELECTION", "CLASSIFICATION"}
    /\ Commit({Result(draft, pending,
                      IF pending.type = "CLASSIFICATION" THEN hint ELSE "label")})

\* Publish or cancel: once there is an image the decision may be final, and
\* the operator starts again with an empty draft.
DecidePublish ==
    /\ pending.type \in {"NONE", "MISSING_INFO", "BRIEF", "ONBOARDING"}
    /\ Commit({Result(draft, pending, "label")} \union
              IF draft.image THEN {Result(Fresh, NoQuestion, "label")} ELSE {})

\* The photo is stored unless it cannot be fetched; at the start of a flow
\* it makes the draft a single product that has to be confirmed.
SendPhoto ==
    LET first == \/ pending.type = "CLASSIFICATION" \/ draft.type = "UNSET"
                 \/ /\ pending.type = "NONE" /\ ~draft.ready /\ ~draft.awaiting
                    /\ ~draft.photo /\ ~draft.image
        i == IF first THEN "create" ELSE "label"
        stored == Result([draft EXCEPT !.photo = TRUE], pending, i)
        toConfirm == [stored EXCEPT !.pending = ProductQuestion, !.draft.type = "SINGLE",
                                    !.draft.awaiting = TRUE]
    IN  /\ ~upload
        /\ Commit({Result(draft, pending, i)}
                  \union LookedUp(IF first THEN toConfirm ELSE stored))

\* The photo is the new logo, or cannot be fetched; the request for one is
\* forgotten unless the type of an ad is asked for.
SendLogo ==
    /\ Onboarded /\ upload
    /\ CommitResult({Result(draft, pending, "label")})
    /\ upload' = (pending.type = "CLASSIFICATION")
    /\ UNCHANGED profile

-----------------------------------------------------------------------------
\* Onboarding gate

\* The question of the gate replaces any other as long as something is
\* missing.
Gate(known, p) ==
    /\ ~Onboarded
    /\ profile' = known
    /\ pending' = IF known # Required THEN OnboardingQuestion ELSE p
    /\ hint' = "label"
    /\ UNCHANGED <<draft, shown, upload>>

\* A message that does not answer the gate: anything before its question was
\* asked, a photo for a name, a text for a logo, a photo that is not fetched.
NotOnboarded == Gate(profile, pending)

\* The name is followed by the question for the logo, whether it is known or
\* not.
GiveName ==
    /\ "name" \notin profile
    /\ pending.type = "ONBOARDING"
    /\ Gate(profile \union {"name"}, OnboardingQuestion)

GiveLogo ==
    /\ "name" \in profile
    /\ Gate(Required, NoQuestion)

-----------------------------------------------------------------------------
\* Retention

\* Nothing was heard of the operator for long: the session is deleted, and
\* the next message has a draft of its own.
PurgeSession ==
    /\ draft' = Fresh /\ pending' = NoQuestion /\ hint' = "None" /\ upload' = FALSE
    /\ UNCHANGED <<shown, profile>>

\* A draft that was not touched for long is deleted with its rounds; the
\* session stays, without a current draft. An image says that the round that
\* is asked about is one of the current draft and not an older one's.
PurgeDraft ==
    /\ \/ draft' = Fresh
       \/ draft' = draft /\ pending.type = "VARIANT_SELECTION" /\ ~draft.image
    /\ pending' = IF pending.type = "VARIANT_SELECTION" THEN [pending EXCEPT !.round = FALSE]
                                                       ELSE pending
    /\ UNCHANGED <<hint, shown, profile, upload>>

Next ==
    \/ TextNotUnderstood \/ ClearBranding \/ TextFreely
    \/ AnswerProduct \/ AnswerType \/ AnswerMandatory \/ AnswerBrief
    \/ ApproveProduct \/ RejectProduct \/ SelectVariant \/ Reprompt
    \/ DecidePublish \/ SendPhoto \/ SetLogo \/ SendLogo
    \/ NotOnboarded \/ GiveName \/ GiveLogo
    \/ PurgeSession \/ PurgeDraft

Spec == Init /\ [][Next]_vars

-----------------------------------------------------------------------------
\* Types

Drafts ==
    [type : Types, name : BOOLEAN, price : BOOLEAN, photo : BOOLEAN,
     awaiting : BOOLEAN, image : BOOLEAN, ready : BOOLEAN]
Briefs ==
    [known : SUBSET Dimensions, asked : SUBSET Keys, key : Keys,
     count : 1..QuestionCap, source : Hints]

\* There are two mandatory fields, so that two questions in a row are asked
\* for them at most, whatever the cap.
Pendings ==
    [type : {"MISSING_INFO"}, key : {"product_name", "price"},
     reprompts : 0..MaxReprompts, clarifications : 1..2]
    \union [type : {"BRIEF"}, brief : Briefs]
    \union [type : {"VARIANT_SELECTION"}, round : BOOLEAN]
    \union {NoQuestion, TypeQuestion, ProductQuestion, OnboardingQuestion}

TypeOK ==
    /\ draft \in Drafts
    /\ shown \in {Essentials(d) : d \in Drafts}
    /\ hint \in Hints
    /\ profile \subseteq Required
    /\ upload \in BOOLEAN
    /\ pending \in Pendings

-----------------------------------------------------------------------------
\* Properties

\* A draft that the planner may ask about.
Plannable(d) ==
    /\ d.type # "UNSET" /\ ~d.awaiting
    /\ d.type = "SINGLE" => d.name /\ d.price

\* The operator is asked to confirm a product whose draft was purged.
ProductPurged == pending.type = "PRODUCT_CONFIRMATION" /\ ~draft.awaiting

BriefIsReady == pending.type = "BRIEF" => Plannable(draft)

\* "product_name must exist before entering the clarification cycle": the
\* planner asks about a draft whose request type is known, that has nothing
\* to confirm and no mandatory field missing. No message (a photo, a button,
\* another subject) takes that away from a brief, only the purge of the draft,
\* during the questions or before the "yes" that starts them.
BriefOnReadyDraft ==
    [][BriefIsReady /\ ~BriefIsReady' => PurgeDraft \/ ProductPurged]_vars

FlagIsAsked == draft.awaiting <=> pending.type = "PRODUCT_CONFIRMATION"

\* A product waits for confirmation exactly as long as the operator is asked
\* to confirm it. Only two things part the flag of the draft and the question
\* of the session, which have no part in the dialogue: the purge of the draft,
\* and the onboarding gate, whose question replaces the one about the product.
AwaitingIsAsked == [][FlagIsAsked /\ ~FlagIsAsked' => PurgeDraft \/ ~Onboarded]_vars

\* The planner never repeats a question, although its "ready" branch asks
\* for a missing dimension without a look at what was asked (the answer has
\* settled it), and every question counts against the cap.
EveryQuestionIsNew ==
    pending.type = "BRIEF" => pending.brief.count = Cardinality(pending.brief.asked)

\* "Product name: required, must be confirmed before generating an ad": what
\* is previewed has a type, and a name if it is a single product, except in
\* two cases. A brief that is ready resumes as a new ad, on a fresh draft that
\* no planner looks at; and the answer is about a draft that was purged, which
\* is empty.
PreviewIsNamed ==
    [][shown' # shown /\ ~(shown'.type # "UNSET" /\ (shown'.type = "SINGLE" => shown'.name)) =>
          \/ pending.type = "BRIEF"
             /\ (draft.type = "UNSET" \/ "create" \in {hint, pending.brief.source})
          \/ ProductPurged]_vars

=============================================================================
