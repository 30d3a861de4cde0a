------------------------ MODULE QuestionDialogueProofs ------------------------
(***************************************************************************)
(* Proofs about QuestionDialogue, for any caps and numbers of reprompts.   *)
(***************************************************************************)
EXTENDS QuestionDialogue, FiniteSetTheorems, TLAPS

USE LimitsAssumption

-----------------------------------------------------------------------------
\* The inductive invariant

\* Only a single product waits for a confirmation.
GoodDraft(d) == d \in Drafts /\ (d.awaiting => d.type = "SINGLE")

\* Every question counts, and what it asks for is known once it is answered.
AskedOnce(b) ==
    /\ b.count = Cardinality(b.asked)
    /\ b.key \in b.asked
    /\ \A k \in b.asked \ {b.key} : Settled(k) \subseteq b.known

\* The name is asked for first, and the price of a product with a name.
InOrder(p, d) ==
    /\ p.key = "product_name" => p.clarifications = 1
    /\ p.key = "price" /\ d.type = "SINGLE" => d.name

GoodPending(p, d) ==
    /\ p \in Pendings
    /\ p.type = "BRIEF" => AskedOnce(p.brief)
    /\ p.type = "MISSING_INFO" => InOrder(p, d)

IInv == TypeOK /\ GoodDraft(draft) /\ GoodPending(pending, draft)

-----------------------------------------------------------------------------
\* Results

Results == [draft : Drafts, pending : Pendings, hint : Hints, preview : BOOLEAN]

\* A result that keeps the invariant.
WellFormed(r) ==
    /\ r \in Results
    /\ GoodDraft(r.draft) /\ GoodPending(r.pending, r.draft)

\* One that leaves a brief with a draft that the planner may ask about, too.
Sound(r) == WellFormed(r) /\ (r.pending.type = "BRIEF" => Plannable(r.draft))

Flagged(d, p) == d.awaiting <=> p.type = "PRODUCT_CONFIRMATION"
Named(d) == d.type # "UNSET" /\ (d.type = "SINGLE" => d.name)

\* The questions are what they are called.
LEMMA Questions ==
    /\ NoQuestion.type = "NONE" /\ TypeQuestion.type = "CLASSIFICATION"
    /\ ProductQuestion.type = "PRODUCT_CONFIRMATION"
    /\ VariantQuestion.type = "VARIANT_SELECTION" /\ OnboardingQuestion.type = "ONBOARDING"
    /\ {NoQuestion, TypeQuestion, ProductQuestion, VariantQuestion, OnboardingQuestion}
         \subseteq Pendings
BY DEF NoQuestion, TypeQuestion, ProductQuestion, VariantQuestion, OnboardingQuestion, Pendings

\* A question without a brief or a field has nothing more to it.
LEMMA PlainQuestion ==
    ASSUME NEW p \in Pendings, NEW d, p.type \notin {"BRIEF", "MISSING_INFO"}
    PROVE  GoodPending(p, d)
BY DEF GoodPending

\* A result is what it is made of.
LEMMA ResultParts ==
    ASSUME NEW d, NEW p, NEW i, GoodDraft(d), GoodPending(p, d), i \in Hints,
           NEW r, r = Result(d, p, i)
    PROVE  /\ WellFormed(r)
           /\ (p.type = "BRIEF" => Plannable(d)) => Sound(r)
           /\ r.draft = d /\ r.pending = p /\ r.hint = i /\ ~r.preview
<1>1. /\ r.draft = d /\ r.pending = p /\ r.hint = i /\ ~r.preview
      /\ d \in Drafts /\ p \in Pendings
  BY DEF Result, GoodDraft, GoodPending
<1>2. r \in Results
  BY <1>1 DEF Result, Results
<1>3. QED
  BY <1>1, <1>2 DEF Sound, WellFormed

\* So is a preview.
LEMMA PreviewParts ==
    ASSUME NEW d, NEW i, GoodDraft(d), i \in Hints, NEW r, r = Preview(d, i)
    PROVE  Sound(r) /\ r.draft = d /\ r.pending = VariantQuestion /\ r.preview
<1>1. /\ GoodPending(VariantQuestion, d) /\ VariantQuestion \in Pendings
      /\ VariantQuestion.type = "VARIANT_SELECTION"
  BY Questions, PlainQuestion
<1>2. r = [draft |-> d, pending |-> VariantQuestion, hint |-> i, preview |-> TRUE]
  BY DEF Preview, Result
<1>3. r.draft = d /\ r.pending = VariantQuestion /\ r.preview
  BY <1>2
<1>4. r \in Results
  BY <1>1, <1>2 DEF Results, GoodDraft
<1>5. QED
  BY <1>1, <1>3, <1>4 DEF Sound, WellFormed

\* What a lookup adds to a draft takes nothing away.
LEMMA LookedUpParts ==
    ASSUME NEW r, WellFormed(r), NEW s \in LookedUp(r)
    PROVE  /\ WellFormed(s)
           /\ s.pending = r.pending /\ s.hint = r.hint /\ s.preview = r.preview
           /\ s.draft.awaiting = r.draft.awaiting /\ s.draft.type = r.draft.type
           /\ r.draft.name => s.draft.name
           /\ Plannable(r.draft) => Plannable(s.draft)
<1>1. PICK fields \in SUBSET {"name", "photo"} : s = [r EXCEPT !.draft = Gained(r.draft, fields)]
  BY DEF LookedUp
<1>2. /\ s \in Results /\ GoodDraft(s.draft)
      /\ s.pending = r.pending /\ s.hint = r.hint /\ s.preview = r.preview
      /\ s.draft.awaiting = r.draft.awaiting /\ s.draft.type = r.draft.type
      /\ s.draft.price = r.draft.price
      /\ r.draft.name => s.draft.name
  BY <1>1 DEF Gained, WellFormed, Results, GoodDraft, Drafts
<1>3. QED
  BY <1>2 DEF WellFormed, GoodPending, InOrder, Plannable

-----------------------------------------------------------------------------
\* Question policy

\* What is missing of a draft.
LEMMA Missing ==
    ASSUME NEW d \in Drafts
    PROVE  /\ MissingFields(d) = << >> <=> d.type # "SINGLE" \/ (d.name /\ d.price)
           /\ MissingFields(d) # << >> =>
                 MissingFields(d)[1] = IF d.name THEN "price" ELSE "product_name"
<1>1. /\ << >> \o << >> = << >>
      /\ << >> \o <<"price">> = <<"price">>
      /\ <<"product_name">> \o << >> = <<"product_name">>
      /\ Len(<<"product_name">> \o <<"price">>) = 2
      /\ (<<"product_name">> \o <<"price">>)[1] = "product_name"
  OBVIOUS
<1>2. <<"price">> # << >> /\ <<"product_name">> # << >>
      /\ <<"product_name">> \o <<"price">> # << >>
  BY <1>1
<1>3. CASE d.type # "SINGLE"
  BY <1>3 DEF MissingFields
<1>4. CASE d.type = "SINGLE" /\ d.name /\ d.price
  BY <1>1, <1>4 DEF MissingFields
<1>5. CASE d.type = "SINGLE" /\ ~d.name /\ d.price
  BY <1>1, <1>2, <1>5 DEF MissingFields
<1>6. CASE d.type = "SINGLE" /\ d.name /\ ~d.price
  BY <1>1, <1>2, <1>6 DEF MissingFields
<1>7. CASE d.type = "SINGLE" /\ ~d.name /\ ~d.price
  BY <1>1, <1>2, <1>7 DEF MissingFields
<1>8. QED
  BY <1>3, <1>4, <1>5, <1>6, <1>7

\* With so many questions before it, the next one is the first for the name,
\* or the second at most, for the price.
Askable(d, asked) ==
    \/ asked = 0
    \/ asked = 1 /\ d.name
    \/ d.name /\ d.price
    \/ d.type = "GENERAL"

\* The question for a missing field.
LEMMA MandatoryParts ==
    ASSUME NEW d \in Drafts, NEW asked, Askable(d, asked), MissingFields(d) # << >>
    PROVE  LET q == Mandatory(MissingFields(d)[1], asked + 1)
           IN  GoodPending(q, d) /\ q.type = "MISSING_INFO"
<1>1. /\ d.type = "SINGLE" /\ (asked = 0 \/ (asked = 1 /\ d.name))
      /\ MissingFields(d)[1] = IF d.name THEN "price" ELSE "product_name"
  BY Missing DEF Askable
<1>2. QED
  BY <1>1 DEF Mandatory, GoodPending, InOrder, Pendings

-----------------------------------------------------------------------------
\* What the fields, the search and the lookup add

\* They add to the draft and take nothing away, its type least of all.
LEMMA DescribedParts ==
    ASSUME NEW d, GoodDraft(d), d.type = "SINGLE", NEW i, NEW e \in Described(d, i)
    PROVE  /\ GoodDraft(e) /\ e.type = "SINGLE"
           /\ d.name => e.name
           /\ d.price => e.price
<1>1. PICK fields : e = Gained(d, fields)
  BY DEF Described
<1>2. QED
  BY <1>1 DEF Gained, GoodDraft, Drafts

\* So does what is kept of a request whose product is not clear, which does not
\* wait for a confirmation because of it.
LEMMA UnclearParts ==
    ASSUME NEW d, GoodDraft(d), NEW i, NEW e \in {d} \union Unclear(d, i)
    PROVE  /\ GoodDraft(e) /\ e.type = d.type /\ e.awaiting = d.awaiting
<1>1. e = d \/ \E fields \in SUBSET {"name", "price", "photo"} : e = Gained(d, fields)
  BY DEF Unclear
<1>2. QED
  BY <1>1 DEF Gained, GoodDraft, Drafts

-----------------------------------------------------------------------------
\* Creative brief planner

\* A brief after the answer to its last question, or a new one.
OpenBriefs ==
    [known : SUBSET Dimensions, asked : SUBSET Keys, key : Keys \union {NoKey},
     count : 0..QuestionCap, source : Hints]

\* What was asked for is known, but for the question with that key.
KnownBut(b, key) == \A k \in b.asked \ {key} : Settled(k) \subseteq b.known

OpenBrief(b, key) ==
    b \in OpenBriefs /\ b.count = Cardinality(b.asked) /\ KnownBut(b, key)

\* A brief that has not been asked about.
LEMMA NewBriefOpen ==
    ASSUME NEW source \in Hints
    PROVE  OpenBrief(NewBrief(source), NoKey)
BY FS_EmptySet DEF NewBrief, OpenBrief, OpenBriefs, KnownBut

\* The brief of a question is open until it is answered.
LEMMA PendingBriefOpen ==
    ASSUME NEW p, NEW d, GoodPending(p, d), p.type = "BRIEF"
    PROVE  OpenBrief(p.brief, p.brief.key) /\ p.brief.key \in Keys /\ p.brief.source \in Hints
<1>1. p.brief \in Briefs
  BY Questions DEF GoodPending, Pendings
<1>2. QED
  BY <1>1 DEF GoodPending, AskedOnce, OpenBrief, OpenBriefs, KnownBut, Briefs

\* A question whose key is new leaves a brief in which every question counts.
LEMMA AskedParts ==
    ASSUME NEW b, NEW d, OpenBrief(b, NoKey), NEW key \in Keys \ b.asked, b.count < QuestionCap
    PROVE  /\ Asked(b, key).ready = FALSE
           /\ Asked(b, key).question.type = "BRIEF"
           /\ GoodPending(Asked(b, key).question, d)
<1> DEFINE c == [b EXCEPT !.asked = @ \union {key}, !.key = key, !.count = @ + 1]
<1>1. IsFiniteSet(b.asked)
  <2>1. IsFiniteSet(Keys)
    <3>1. Keys = {"product_identity"} \union {"style"} \union {"creative_direction"}
                   \union {"headline"} \union {"scene"}
      BY DEF Keys
    <3>2. \A x : IsFiniteSet({x})
      BY FS_Singleton
    <3>3. QED
      BY <3>1, <3>2, FS_Union, Zenon
  <2>2. QED
    BY <2>1, FS_Subset DEF OpenBrief, OpenBriefs
<1>2. Cardinality(b.asked \union {key}) = b.count + 1
  BY <1>1, FS_AddElement DEF OpenBrief
<1>3. c \in Briefs
  <2>1. b \in OpenBriefs /\ b.count + 1 \in 1..QuestionCap /\ b.asked \union {key} \subseteq Keys
    BY DEF OpenBrief, OpenBriefs
  <2>2. QED
    BY <2>1 DEF OpenBriefs, Briefs
<1>4. c.asked = b.asked \union {key} /\ c.key = key /\ c.count = b.count + 1 /\ c.known = b.known
  BY DEF OpenBrief, OpenBriefs
<1>5. NoKey \notin b.asked
  BY DEF OpenBrief, OpenBriefs, Keys, NoKey
<1>6. AskedOnce(c)
  BY <1>2, <1>4, <1>5 DEF AskedOnce, OpenBrief, KnownBut
<1> HIDE DEF c
<1>7. BriefQuestion(c) \in Pendings /\ BriefQuestion(c).type = "BRIEF" /\ BriefQuestion(c).brief = c
  BY <1>3 DEF BriefQuestion, Pendings
<1>8. GoodPending(BriefQuestion(c), d)
  BY <1>6, <1>7 DEF GoodPending
<1>9. Asked(b, key) = [ready |-> FALSE, question |-> BriefQuestion(c)]
  BY DEF Asked, c
<1>10. QED
  BY <1>7, <1>8, <1>9

\* A turn that is a question is a good one, and one that is not has a source.
GoodTurn(t, d, source) ==
    /\ t.ready \in BOOLEAN
    /\ t.ready => t.source = source
    /\ ~t.ready => /\ t.question.type \in {"BRIEF", "MISSING_INFO"}
                   /\ GoodPending(t.question, d)

\* The planner's decisions; the default question is about what is not known,
\* which has not been asked for.
LEMMA Decisions ==
    ASSUME NEW b, NEW d, OpenBrief(b, NoKey)
    PROVE  /\ GoodTurn(PlannerReady(b), d, b.source)
           /\ \A key \in Keys : GoodTurn(PlannerAsks(b, key), d, b.source)
<1>1. Ready(b).ready = TRUE /\ Ready(b).source = b.source
  BY DEF Ready
<1>2. GoodTurn(Ready(b), d, b.source)
  BY <1>1 DEF GoodTurn
<1>3. b.count \in 0..QuestionCap /\ b.known \subseteq Dimensions /\ NoKey \notin b.asked
  BY DEF OpenBrief, OpenBriefs, NoKey, Keys
<1>4. ASSUME NEW key \in Keys, key \notin b.asked, ~(b.count >= QuestionCap)
      PROVE  GoodTurn(Asked(b, key), d, b.source)
  <2>1. key \in Keys \ b.asked /\ b.count < QuestionCap
    BY <1>3, <1>4
  <2>2. /\ Asked(b, key).ready = FALSE
        /\ Asked(b, key).question.type = "BRIEF"
        /\ GoodPending(Asked(b, key).question, d)
    BY <2>1, AskedParts
  <2>3. QED
    BY <2>2 DEF GoodTurn
<1>5. ASSUME b.known # Dimensions
      PROVE  DefaultKey(b.known) \in Keys \ b.asked
  <2>1. \A k \in b.asked : Settled(k) \subseteq b.known
    BY <1>3 DEF OpenBrief, KnownBut
  <2>2. CASE "product_identity" \notin b.known
    BY <2>1, <2>2 DEF DefaultKey, Settled, Keys
  <2>3. CASE "product_identity" \in b.known /\ "creative_direction" \notin b.known
    BY <2>1, <2>3 DEF DefaultKey, Settled, Keys
  <2>4. CASE "product_identity" \in b.known /\ "creative_direction" \in b.known
    <3>1. "style_context" \notin b.known
      BY <1>3, <1>5, <2>4 DEF Dimensions
    <3>2. QED
      BY <2>1, <2>4, <3>1 DEF DefaultKey, Settled, Keys
  <2>5. QED
    BY <2>2, <2>3, <2>4
<1>6. GoodTurn(PlannerReady(b), d, b.source)
  BY <1>2, <1>4, <1>5 DEF PlannerReady
<1>7. ASSUME NEW key \in Keys PROVE GoodTurn(PlannerAsks(b, key), d, b.source)
  BY <1>2, <1>4 DEF PlannerAsks
<1>8. QED
  BY <1>6, <1>7

\* What a turn leaves: a question for a missing field, or the planner's, or a
\* brief that is ready, of a draft without missing fields.
LEMMA TurnParts ==
    ASSUME NEW d, GoodDraft(d), NEW asked, Askable(d, asked),
           NEW answer, NEW b, OpenBrief(b, answer), answer \in Keys \union {NoKey},
           NEW source \in Hints,
           NEW t \in Turns(d, b, asked, source, answer)
    PROVE  /\ GoodTurn(t, d, IF source \in {"None", "unknown"} THEN b.source ELSE source)
           /\ t.ready \/ t.question.type = "BRIEF" => MissingFields(d) = << >>
<1> DEFINE next == IF source \in {"None", "unknown"} THEN b.source ELSE source
<1>1. CASE MissingFields(d) # << >>
  <2> DEFINE q == Mandatory(MissingFields(d)[1], asked + 1)
  <2>1. GoodPending(q, d) /\ q.type = "MISSING_INFO"
    BY <1>1, MandatoryParts DEF GoodDraft
  <2> HIDE DEF q
  <2>2. t = [ready |-> FALSE, question |-> q]
    BY <1>1 DEF Turns, q
  <2>3. QED
    BY <2>1, <2>2 DEF GoodTurn
<1>2. CASE MissingFields(d) = << >>
  <2> DEFINE Versions == {Advanced(b, d, answer, learned, source) :
                            learned \in SUBSET {"creative_direction", "style_context"}}
  <2>1. t \in {PlannerReady(c) : c \in Versions}
                \union {PlannerAsks(c, k) : c \in Versions, k \in Keys}
    BY <1>2 DEF Turns
  <2>2. ASSUME NEW c \in Versions PROVE OpenBrief(c, NoKey) /\ c.source = next
    <3>1. PICK learned \in SUBSET {"creative_direction", "style_context"} :
             c = Advanced(b, d, answer, learned, source)
      OBVIOUS
    <3>2. Settled(answer) \subseteq Dimensions
      BY DEF Settled, Dimensions
    <3>3. /\ c \in OpenBriefs /\ c.source = next /\ c.asked = b.asked /\ c.count = b.count
          /\ b.known \subseteq c.known /\ Settled(answer) \subseteq c.known
      BY <3>1, <3>2 DEF Advanced, OpenBrief, OpenBriefs, Dimensions
    <3>4. QED
      BY <3>3 DEF OpenBrief, KnownBut
  <2> HIDE DEF Versions
  <2>3. \/ \E c \in Versions : t = PlannerReady(c)
        \/ \E c \in Versions : \E k \in Keys : t = PlannerAsks(c, k)
    BY <2>1
  <2>4. GoodTurn(t, d, next)
    BY <2>2, <2>3, Decisions
  <2>5. QED
    BY <1>2, <2>4
<1>3. QED
  BY <1>1, <1>2

-----------------------------------------------------------------------------
\* Generation and ad requests

\* A result of a generation: a preview, or nothing is asked.
LEMMA GeneratedParts ==
    ASSUME NEW d, GoodDraft(d), NEW i, i \in Hints, NEW r \in Generated(d, i)
    PROVE  /\ Sound(r)
           /\ r.pending.type \notin {"PRODUCT_CONFIRMATION", "BRIEF"}
           /\ ~d.awaiting => ~r.draft.awaiting
           /\ r.preview => ~r.draft.awaiting /\ Essentials(r.draft) = Essentials(d)
<1> DEFINE d1 == [d EXCEPT !.awaiting = FALSE, !.image = TRUE, !.ready = TRUE]
           d2 == [d EXCEPT !.awaiting = FALSE, !.ready = FALSE]
<1>1. /\ GoodDraft(d1) /\ ~d1.awaiting /\ Essentials(d1) = Essentials(d)
      /\ GoodDraft(d2) /\ ~d2.awaiting
  BY DEF GoodDraft, Drafts, Essentials
<1>2. r \in {Preview(d1, i), Result(d, NoQuestion, i), Result(d2, NoQuestion, i)}
  BY DEF Generated
<1> HIDE DEF d1, d2
<1>3. \A e : GoodPending(NoQuestion, e)
  BY Questions, PlainQuestion
<1>4. CASE r = Preview(d1, i)
  BY <1>1, <1>4, PreviewParts, Questions
<1>5. CASE r = Result(d, NoQuestion, i)
  BY <1>3, <1>5, ResultParts, Questions
<1>6. CASE r = Result(d2, NoQuestion, i)
  BY <1>1, <1>3, <1>6, ResultParts, Questions
<1>7. QED
  BY <1>2, <1>4, <1>5, <1>6

\* What a planner's turn on a draft without a product to confirm comes to. If
\* the draft has a type, only one without a missing field is asked about or
\* previewed.
LEMMA PlannedParts ==
    ASSUME NEW d, GoodDraft(d), ~d.awaiting,
           NEW asked, Askable(d, asked), NEW source \in Hints, NEW i, i \in Hints,
           NEW r \in Planned(d, asked, source, i)
    PROVE  /\ WellFormed(r)
           /\ ~r.draft.awaiting /\ r.pending.type # "PRODUCT_CONFIRMATION"
           /\ d.type # "UNSET" => Sound(r) /\ (r.preview => Named(r.draft))
<1>1. PICK t \in Turns(d, NewBrief(source), asked, source, NoKey) :
         r \in IF t.ready THEN Generated(d, i) ELSE {Result(d, t.question, i)}
  BY DEF Planned
<1>2. /\ \E s : GoodTurn(t, d, s)
      /\ t.ready \/ t.question.type = "BRIEF" => MissingFields(d) = << >>
  <2>1. OpenBrief(NewBrief(source), NoKey) /\ NoKey \in Keys \union {NoKey}
    BY NewBriefOpen
  <2>2. QED
    BY <1>1, <2>1, TurnParts
<1>3. MissingFields(d) = << >> /\ d.type # "UNSET" => Plannable(d) /\ Named(d)
  BY Missing DEF Plannable, Named, GoodDraft
<1>4. CASE t.ready
  <2>1. r \in Generated(d, i)
    BY <1>1, <1>4
  <2>2. Essentials(r.draft) = Essentials(d) => r.draft.type = d.type /\ r.draft.name = d.name
    BY DEF Essentials
  <2>3. QED
    BY <1>2, <1>3, <1>4, <2>1, <2>2, GeneratedParts DEF Named, Sound
<1>5. CASE ~t.ready
  <2>1. r = Result(d, t.question, i)
    BY <1>1, <1>5
  <2>2. t.question.type \in {"BRIEF", "MISSING_INFO"} /\ GoodPending(t.question, d)
    BY <1>2, <1>5 DEF GoodTurn
  <2>3. t.question.type = "BRIEF" /\ d.type # "UNSET" => Plannable(d)
    BY <1>2, <1>3
  <2>4. QED
    BY <2>1, <2>2, <2>3, ResultParts
<1>6. QED
  BY <1>4, <1>5

\* The draft that a create request starts with.
LEMMA FreshDraft == GoodDraft(Fresh) /\ ~Fresh.awaiting /\ Fresh.type = "UNSET"
BY DEF Fresh, GoodDraft, Drafts, Types

\* Questions that say nothing of the draft.
Neutral(p) == p \in Pendings /\ p.type \notin {"BRIEF", "MISSING_INFO", "PRODUCT_CONFIRMATION"}

\* An ad request for a single product: nothing found, a product to confirm, a
\* generation, or the planner's turn.
LEMMA SingleParts ==
    ASSUME NEW d, GoodDraft(d), d.type = "SINGLE", NEW i, i \in AdIntents,
           NEW briefed, NEW asked, Askable(d, asked),
           NEW e \in Described(d, i),
           NEW r, r \in IF e.awaiting THEN {Result(e, ProductQuestion, i)}
                        ELSE IF briefed THEN Generated(e, i)
                        ELSE Planned(e, asked, i, i)
    PROVE  /\ Sound(r) /\ Flagged(r.draft, r.pending)
           /\ r.preview => Named(r.draft) \/ (briefed /\ ~d.name)
<1>1. /\ GoodDraft(e) /\ e.type = "SINGLE" /\ Askable(e, asked)
      /\ d.name => e.name
  BY DescribedParts DEF Askable
<1>2. i \in Hints
  BY DEF AdIntents, Hints
<1>3. CASE e.awaiting
  <2>1. GoodPending(ProductQuestion, e) /\ ProductQuestion.type = "PRODUCT_CONFIRMATION"
    BY Questions, PlainQuestion
  <2>2. r = Result(e, ProductQuestion, i)
    BY <1>3
  <2>3. QED
    BY <1>1, <1>2, <1>3, <2>1, <2>2, ResultParts DEF Flagged
<1>4. CASE ~e.awaiting /\ briefed
  <2>1. r \in Generated(e, i)
    BY <1>4
  <2>2. Essentials(r.draft) = Essentials(e) => r.draft.type = e.type /\ r.draft.name = e.name
    BY DEF Essentials
  <2>3. QED
    BY <1>1, <1>2, <1>4, <2>1, <2>2, GeneratedParts DEF Flagged, Named
<1>5. CASE ~e.awaiting /\ ~briefed
  <2>1. r \in Planned(e, asked, i, i)
    BY <1>5
  <2>2. QED
    BY <1>1, <1>2, <1>5, <2>1, PlannedParts DEF Flagged
<1>6. QED
  BY <1>3, <1>4, <1>5

\* Whatever an ad request leads to is sound. The flag and the question agree
\* if they did; a preview has a name, unless it is one of a brief that resumes
\* on another draft than the planner looked at.
LEMMA AdRequestParts ==
    ASSUME NEW d, GoodDraft(d), NEW p, Neutral(p), NEW i, i \in AdIntents,
           NEW briefed, NEW asked, Askable(d, asked), i = "create" => asked = 0,
           NEW r \in AdRequest(d, p, i, briefed, asked)
    PROVE  /\ Sound(r)
           /\ ~d.awaiting => Flagged(r.draft, r.pending)
           /\ r.preview => \/ Named(r.draft)
                           \/ /\ briefed
                              /\ i = "create" \/ d.type = "UNSET" \/ (d.type = "SINGLE" /\ ~d.name)
<1> DEFINE d0 == IF i = "create" /\ p.type # "CLASSIFICATION" THEN Fresh ELSE d
           Typed == {[d0 EXCEPT !.type = t] : t \in IF d0.type = "UNSET" THEN Types ELSE {d0.type}}
           Single(d1) ==
               {Result(d2, NoQuestion, i) : d2 \in {d1} \union Unclear(d1, i)} \union
               UNION {IF d2.awaiting THEN {Result(d2, ProductQuestion, i)}
                      ELSE IF briefed THEN Generated(d2, i)
                      ELSE Planned(d2, asked, i, i) : d2 \in Described(d1, i)}
           Outcomes(d1) ==
               CASE d1.type = "UNSET" -> {Result(d1, TypeQuestion, i)}
                 [] d1.type = "GENERAL" -> {Result(d1, NoQuestion, i)}
                 [] d1.type = "SINGLE" -> Single(d1)
<1>1. /\ GoodDraft(d0) /\ Askable(d0, asked)
      /\ ~d.awaiting => ~d0.awaiting
      /\ i # "create" => d0 = d
  BY FreshDraft DEF Askable
<1>2. i \in Hints
  BY DEF AdIntents, Hints
<1>3. r = Result(d0, p, i) \/ \E d1 \in Typed : r \in Outcomes(d1)
  BY DEF AdRequest
<1> HIDE DEF d0
<1>4. ASSUME NEW e
      PROVE  GoodPending(p, e) /\ GoodPending(NoQuestion, e) /\ GoodPending(TypeQuestion, e)
  BY Questions, PlainQuestion DEF Neutral
<1>5. CASE r = Result(d0, p, i)
  BY <1>1, <1>2, <1>4, <1>5, ResultParts DEF Neutral, Flagged
<1>6. ASSUME NEW d1 \in Typed, r \in Outcomes(d1)
      PROVE  /\ Sound(r)
             /\ ~d.awaiting => Flagged(r.draft, r.pending)
             /\ r.preview => \/ Named(r.draft)
                             \/ /\ briefed
                                /\ i = "create" \/ d.type = "UNSET" \/ (d.type = "SINGLE" /\ ~d.name)
  <2>1. PICK t \in Types : /\ d1 = [d0 EXCEPT !.type = t]
                           /\ d0.type = "UNSET" \/ t = d0.type
    BY <1>1, <1>6 DEF GoodDraft, Drafts
  <2> HIDE DEF Typed
  <2>2. /\ GoodDraft(d1) /\ Askable(d1, asked)
        /\ d1.awaiting = d0.awaiting /\ d1.name = d0.name
    BY <1>1, <2>1 DEF GoodDraft, Drafts, Askable, Types
  <2>3. d1.awaiting => d1.type = "SINGLE"
    BY <2>2 DEF GoodDraft
  <2>4. CASE d1.type = "UNSET"
    <3>1. r = Result(d1, TypeQuestion, i)
      BY <1>6, <2>4
    <3>2. QED
      BY <1>2, <1>4, <2>2, <2>3, <2>4, <3>1, ResultParts, Questions DEF Flagged
  <2>5. CASE d1.type = "GENERAL"
    <3>1. r = Result(d1, NoQuestion, i)
      BY <1>6, <2>5
    <3>2. QED
      BY <1>2, <1>4, <2>2, <2>3, <2>5, <3>1, ResultParts, Questions DEF Flagged
  <2>6. CASE d1.type = "SINGLE"
    <3>1. r \in Single(d1)
      BY <1>6, <2>6
    <3>2. CASE \E e \in {d1} \union Unclear(d1, i) : r = Result(e, NoQuestion, i)
      <4>1. PICK e \in {d1} \union Unclear(d1, i) : r = Result(e, NoQuestion, i)
        BY <3>2
      <4>2. GoodDraft(e) /\ e.type = "SINGLE" /\ e.awaiting = d1.awaiting
        BY <2>2, <2>6, <4>1, UnclearParts
      <4>3. QED
        BY <1>1, <1>2, <1>4, <2>2, <4>1, <4>2, ResultParts, Questions DEF Flagged
    <3>3. CASE ~\E e \in {d1} \union Unclear(d1, i) : r = Result(e, NoQuestion, i)
      <4>1. PICK e \in Described(d1, i) :
               r \in IF e.awaiting THEN {Result(e, ProductQuestion, i)}
                     ELSE IF briefed THEN Generated(e, i)
                     ELSE Planned(e, asked, i, i)
        BY <3>1, <3>3
      <4>2. /\ Sound(r) /\ Flagged(r.draft, r.pending)
            /\ r.preview => Named(r.draft) \/ (briefed /\ ~d1.name)
        BY <2>2, <2>6, <4>1, SingleParts
      <4>3. QED
        BY <1>1, <2>1, <2>2, <2>6, <4>2 DEF GoodDraft, Drafts
    <3>4. QED
      BY <3>2, <3>3
  <2>7. QED
    BY <2>2, <2>4, <2>5, <2>6 DEF GoodDraft, Drafts, Types
<1>7. QED
  BY <1>3, <1>5, <1>6

-----------------------------------------------------------------------------
\* What a message may lead to

\* The cases in which a preview need not be named.
Excused ==
    \/ /\ pending.type = "BRIEF"
       /\ draft.type = "UNSET" \/ "create" \in {hint, pending.brief.source}
    \/ ProductPurged

\* A result that agrees with the properties.
Proper(r) ==
    /\ WellFormed(r)
    /\ BriefIsReady /\ r.pending.type = "BRIEF" => Plannable(r.draft) \/ ProductPurged
    /\ FlagIsAsked => Flagged(r.draft, r.pending)
    /\ r.preview => Named(r.draft) \/ Excused

\* A message that changes nothing but the hint.
LEMMA KeptProper ==
    ASSUME IInv, NEW i, i \in Hints
    PROVE  Proper(Result(draft, pending, i))
<1>1. PICK r : r = Result(draft, pending, i)
  OBVIOUS
<1>2. /\ WellFormed(r) /\ r.draft = draft /\ r.pending = pending /\ ~r.preview
  BY <1>1, ResultParts DEF IInv
<1>3. QED
  BY <1>1, <1>2 DEF Proper, BriefIsReady, FlagIsAsked, Flagged

\* A lookup on top of it.
LEMMA LookedUpProper ==
    ASSUME NEW r, Proper(r), NEW s \in LookedUp(r)
    PROVE  Proper(s)
<1>1. /\ WellFormed(s)
      /\ s.pending = r.pending /\ s.preview = r.preview
      /\ s.draft.awaiting = r.draft.awaiting /\ s.draft.type = r.draft.type
      /\ r.draft.name => s.draft.name
      /\ Plannable(r.draft) => Plannable(s.draft)
  BY LookedUpParts DEF Proper
<1>2. QED
  BY <1>1 DEF Proper, Flagged, Named

\* A question other than the planner's, about a draft that waits for a
\* confirmation if that is what is asked.
LEMMA AskingProper ==
    ASSUME NEW d, NEW p, NEW i, GoodDraft(d), GoodPending(p, d), i \in Hints,
           p.type # "BRIEF", FlagIsAsked => Flagged(d, p)
    PROVE  Proper(Result(d, p, i))
<1>1. PICK r : r = Result(d, p, i)
  OBVIOUS
<1>2. /\ WellFormed(r) /\ r.draft = d /\ r.pending = p /\ ~r.preview
  BY <1>1, ResultParts
<1>3. QED
  BY <1>1, <1>2 DEF Proper

\* An ad request on the draft as it is, that no planner has looked at.
LEMMA AdRequestProper ==
    ASSUME IInv, NEW p, Neutral(p), pending.type # "PRODUCT_CONFIRMATION", NEW i \in AdIntents,
           NEW r \in AdRequest(draft, p, i, FALSE, 0)
    PROVE  Proper(r)
<1>1. /\ Sound(r)
      /\ ~draft.awaiting => Flagged(r.draft, r.pending)
      /\ r.preview => Named(r.draft)
  BY AdRequestParts DEF IInv, Askable
<1>2. QED
  BY <1>1 DEF Proper, Sound, FlagIsAsked

\* So a text that leaves the question for another subject is proper.
LEMMA InterruptedProper ==
    ASSUME IInv, pending.type # "PRODUCT_CONFIRMATION", NEW r \in Interrupted
    PROVE  Proper(r)
<1>1. Neutral(NoQuestion) /\ NoQuestion.type = "NONE"
  BY Questions DEF Neutral
<1>2. CASE r = Result(draft, NoQuestion, "other")
  <2>1. GoodPending(NoQuestion, draft)
    BY <1>1, PlainQuestion DEF Neutral
  <2>2. FlagIsAsked => Flagged(draft, NoQuestion)
    BY <1>1 DEF FlagIsAsked, Flagged
  <2>3. QED
    BY <1>1, <1>2, <2>1, <2>2, AskingProper DEF IInv, Hints
<1>3. CASE \E i \in AdIntents : r \in AdRequest(draft, NoQuestion, i, FALSE, 0)
  BY <1>1, <1>3, AdRequestProper
<1>4. QED
  BY <1>2, <1>3 DEF Interrupted

\* The generation of a product that was confirmed.
LEMMA ConfirmedProper ==
    ASSUME IInv, pending.type = "PRODUCT_CONFIRMATION", NEW i \in Hints,
           NEW r \in Planned([draft EXCEPT !.awaiting = FALSE], 0, "create", i)
    PROVE  Proper(r)
<1> DEFINE d == [draft EXCEPT !.awaiting = FALSE]
<1>1. GoodDraft(d) /\ ~d.awaiting /\ d.type = draft.type
  BY DEF IInv, GoodDraft, Drafts
<1>2. draft.awaiting => draft.type # "UNSET"
  BY DEF IInv, GoodDraft
<1>3. r \in Planned(d, 0, "create", i)
  OBVIOUS
<1> HIDE DEF d
<1>4. /\ WellFormed(r)
      /\ ~r.draft.awaiting /\ r.pending.type # "PRODUCT_CONFIRMATION"
      /\ d.type # "UNSET" => Sound(r) /\ (r.preview => Named(r.draft))
  BY <1>1, <1>3, PlannedParts DEF Askable, Hints
<1>5. QED
  BY <1>1, <1>2, <1>4 DEF Proper, Sound, Flagged, Excused, ProductPurged

\* The refusal of a product.
LEMMA RefusedProper ==
    ASSUME IInv, NEW i \in Hints
    PROVE  Proper(Result(Refused(draft), NoQuestion, i))
<1>1. GoodDraft(Refused(draft)) /\ ~Refused(draft).awaiting
  BY DEF IInv, GoodDraft, Drafts, Refused
<1>2. GoodPending(NoQuestion, Refused(draft)) /\ NoQuestion.type = "NONE"
  BY Questions, PlainQuestion
<1>3. QED
  BY <1>1, <1>2, AskingProper DEF Flagged

-----------------------------------------------------------------------------
\* What a step does

BriefStays == BriefIsReady /\ ~BriefIsReady' => PurgeDraft \/ ProductPurged
FlagStays == FlagIsAsked /\ ~FlagIsAsked' => PurgeDraft \/ ~Onboarded
NamedPreview ==
    shown' # shown /\ ~(shown'.type # "UNSET" /\ (shown'.type = "SINGLE" => shown'.name)) => Excused

Step == IInv' /\ BriefStays /\ FlagStays /\ NamedPreview

\* Proper results make a step.
LEMMA ProperStep ==
    ASSUME IInv, NEW results, CommitResult(results), \A r \in results : Proper(r),
           profile' \subseteq Required, upload' \in BOOLEAN
    PROVE  Step
<1>1. PICK r \in results :
        /\ draft' = r.draft /\ pending' = r.pending /\ hint' = r.hint
        /\ shown' = IF r.preview THEN Essentials(r.draft) ELSE shown
  BY DEF CommitResult
<1>2. Proper(r) /\ WellFormed(r)
  BY DEF Proper
<1>3. GoodDraft(draft') /\ GoodPending(pending', draft') /\ hint' \in Hints
      /\ draft' \in Drafts /\ pending' \in Pendings
  BY <1>1, <1>2 DEF WellFormed, Results
<1>4. shown' \in {Essentials(d) : d \in Drafts}
  BY <1>1, <1>3 DEF IInv, TypeOK
<1>5. IInv'
  BY <1>3, <1>4 DEF IInv, TypeOK, GoodDraft, GoodPending
<1>6. BriefStays
  BY <1>1, <1>2 DEF Proper, BriefStays, BriefIsReady, Plannable
<1>7. FlagStays
  BY <1>1, <1>2 DEF Proper, FlagStays, FlagIsAsked, Flagged
<1>8. NamedPreview
  <2>1. Essentials(r.draft).type = r.draft.type /\ Essentials(r.draft).name = r.draft.name
    BY DEF Essentials
  <2>2. QED
    BY <1>1, <1>2, <2>1 DEF Proper, NamedPreview, Named
<1>9. QED
  BY <1>5, <1>6, <1>7, <1>8 DEF Step

\* A message past the gate is a step if all its results are proper.
LEMMA CommitStep ==
    ASSUME IInv, NEW results, Commit(results), \A r \in results : Proper(r)
    PROVE  Step
<1>1. CommitResult(results) /\ profile' \subseteq Required /\ upload' \in BOOLEAN
  BY DEF Commit, IInv, TypeOK
<1>2. QED
  BY <1>1, ProperStep

\* A lookup on the draft as it is.
LEMMA KeptLookup ==
    ASSUME IInv, NEW i, i \in Hints, NEW r \in LookedUp(Result(draft, pending, i))
    PROVE  Proper(r)
BY KeptProper, LookedUpProper

\* Texts that no question waits for.
LEMMA TextFreelyStep == IInv /\ TextFreely => Step
<1> SUFFICES ASSUME IInv, TextFreely PROVE Step
  OBVIOUS
<1> DEFINE results == (UNION {AdRequest(draft, pending, i, FALSE, 0) : i \in AdIntents})
                      \union {Result(draft, pending, "other")}
                      \union LookedUp(Result(draft, pending, "unknown"))
<1>1. Neutral(pending) /\ pending.type # "PRODUCT_CONFIRMATION"
  BY DEF TextFreely, Unanswered, Neutral, IInv, TypeOK
<1>2. ASSUME NEW r \in results PROVE Proper(r)
  <2>1. CASE \E i \in AdIntents : r \in AdRequest(draft, pending, i, FALSE, 0)
    BY <1>1, <2>1, AdRequestProper
  <2>2. CASE r = Result(draft, pending, "other")
    BY <2>2, KeptProper DEF Hints
  <2>3. CASE r \in LookedUp(Result(draft, pending, "unknown"))
    BY <2>3, KeptLookup DEF Hints
  <2>4. QED
    BY <2>1, <2>2, <2>3
<1>3. Commit(results)
  BY DEF TextFreely
<1> HIDE DEF results
<1>4. QED
  BY <1>2, <1>3, CommitStep

\* A request to clear branding, with the question about a field or a brief
\* forgotten.
LEMMA ClearBrandingStep == IInv /\ ClearBranding => Step
<1> SUFFICES ASSUME IInv, ClearBranding PROVE Step
  OBVIOUS
<1> DEFINE p == IF pending.type \in {"MISSING_INFO", "BRIEF"} THEN NoQuestion ELSE pending
<1>1. GoodPending(p, draft) /\ p.type # "BRIEF"
  BY Questions, PlainQuestion DEF IInv
<1>2. FlagIsAsked => Flagged(draft, p)
  BY Questions DEF FlagIsAsked, Flagged
<1>3. CommitResult({Result(draft, p, "other")})
  BY DEF ClearBranding
<1>4. profile' \subseteq Required /\ upload' \in BOOLEAN
  BY DEF ClearBranding, IInv, TypeOK
<1> HIDE DEF p
<1>5. Proper(Result(draft, p, "other"))
  BY <1>1, <1>2, AskingProper DEF IInv, Hints
<1>6. QED
  BY <1>3, <1>4, <1>5, ProperStep

\* The answers to the question about a product, by text or by button.
LEMMA ProductSteps == IInv /\ (AnswerProduct \/ ApproveProduct \/ RejectProduct) => Step
<1> DEFINE d == [draft EXCEPT !.awaiting = FALSE]
<1>1. ASSUME IInv, AnswerProduct PROVE Step
  <2> DEFINE results == Planned(d, 0, "create", "unknown")
                        \union {Result(Refused(draft), NoQuestion, "unknown")}
                        \union LookedUp(Result(draft, pending, "unknown"))
  <2>1. "unknown" \in Hints /\ pending.type = "PRODUCT_CONFIRMATION" /\ Commit(results)
    BY <1>1 DEF AnswerProduct, Hints
  <2>2. ASSUME NEW r \in results PROVE Proper(r)
    BY <1>1, <2>1, ConfirmedProper, RefusedProper, KeptLookup
  <2> HIDE DEF results
  <2>3. QED
    BY <1>1, <2>1, <2>2, CommitStep
<1>2. ASSUME IInv, ApproveProduct PROVE Step
  <2>1. /\ "label" \in Hints /\ pending.type = "PRODUCT_CONFIRMATION"
        /\ Commit(Planned(d, 0, "create", "label"))
    BY <1>2 DEF ApproveProduct, Hints
  <2>2. \A r \in Planned(d, 0, "create", "label") : Proper(r)
    BY <1>2, <2>1, ConfirmedProper
  <2>3. QED
    BY <1>2, <2>1, <2>2, CommitStep
<1>3. ASSUME IInv, RejectProduct PROVE Step
  <2>1. "label" \in Hints /\ Commit({Result(Refused(draft), NoQuestion, "label")})
    BY <1>3 DEF RejectProduct, Hints
  <2>2. QED
    BY <1>3, <2>1, RefusedProper, CommitStep
<1>4. QED
  BY <1>1, <1>2, <1>3

\* The answer to the type question, read with the intent of the message before.
LEMMA AnswerTypeStep == IInv /\ AnswerType => Step
<1> SUFFICES ASSUME IInv, AnswerType PROVE Step
  OBVIOUS
<1> DEFINE i == IF hint \in {"None", "label"} THEN "create" ELSE hint
<1>1. i \in Hints
  BY DEF IInv, TypeOK, Hints
<1>2. Neutral(pending) /\ pending.type # "PRODUCT_CONFIRMATION"
  BY DEF AnswerType, Neutral, IInv, TypeOK
<1>3. Commit(CASE i \in AdIntents -> AdRequest(draft, pending, i, FALSE, 0)
               [] i = "unknown" -> LookedUp(Result(draft, pending, i))
               [] OTHER -> {Result(draft, pending, i)})
  BY DEF AnswerType
<1>4. "unknown" \notin AdIntents
  BY DEF AdIntents
<1> HIDE DEF i
<1>5. CASE i \in AdIntents
  <2>1. Commit(AdRequest(draft, pending, i, FALSE, 0))
    BY <1>3, <1>4, <1>5
  <2>2. QED
    BY <1>2, <1>5, <2>1, AdRequestProper, CommitStep
<1>6. CASE i = "unknown"
  <2>1. Commit(LookedUp(Result(draft, pending, i)))
    BY <1>3, <1>4, <1>6
  <2>2. QED
    BY <1>1, <2>1, KeptLookup, CommitStep
<1>7. CASE i \notin AdIntents /\ i # "unknown"
  <2>1. Commit({Result(draft, pending, i)})
    BY <1>3, <1>7
  <2>2. QED
    BY <1>1, <2>1, KeptProper, CommitStep
<1>8. QED
  BY <1>5, <1>6, <1>7

\* The next question about a draft.
LEMMA NextQuestionParts ==
    ASSUME NEW d, GoodDraft(d), NEW asked, d.type = "UNSET" \/ Askable(d, asked),
           NEW q, q = NextQuestion(d, asked)
    PROVE  /\ GoodPending(q, d) /\ q.type # "BRIEF" /\ Flagged(d, q)
           /\ q = NoQuestion => d.type # "UNSET"
<1>1. d.awaiting => d.type # "UNSET"
  BY DEF GoodDraft
<1>2. \A p \in {NoQuestion, TypeQuestion, ProductQuestion} :
         GoodPending(p, d) /\ p.type # "BRIEF"
  BY Questions, PlainQuestion
<1>3. CASE d.type = "UNSET"
  <2>1. q = TypeQuestion
    BY <1>3 DEF NextQuestion
  <2>2. QED
    BY <1>1, <1>2, <1>3, <2>1, Questions DEF Flagged
<1>4. CASE d.type # "UNSET" /\ d.awaiting
  <2>1. q = ProductQuestion
    BY <1>4 DEF NextQuestion
  <2>2. QED
    BY <1>2, <1>4, <2>1, Questions DEF Flagged
<1>5. CASE d.type # "UNSET" /\ ~d.awaiting /\ MissingFields(d) # << >> /\ asked < MaxClarifications
  <2>1. q = Mandatory(MissingFields(d)[1], asked + 1)
    BY <1>5 DEF NextQuestion
  <2>2. GoodPending(q, d) /\ q.type = "MISSING_INFO"
    BY <1>5, <2>1, MandatoryParts DEF GoodDraft
  <2>3. QED
    BY <1>5, <2>2, Questions DEF Flagged
<1>6. CASE d.type # "UNSET" /\ ~d.awaiting /\ ~(MissingFields(d) # << >> /\ asked < MaxClarifications)
  <2>1. q = NoQuestion
    BY <1>6 DEF NextQuestion
  <2>2. QED
    BY <1>2, <1>6, <2>1, Questions DEF Flagged
<1>7. QED
  BY <1>3, <1>4, <1>5, <1>6

\* The answer to a question about a mandatory field.
LEMMA AnswerMandatoryStep == IInv /\ AnswerMandatory => Step
<1> SUFFICES ASSUME IInv, AnswerMandatory PROVE Step
  OBVIOUS
<1> DEFINE d == Filled(draft, pending.key)
           asked == pending.clarifications
           next == NextQuestion(d, asked)
           Answered == IF next # NoQuestion
                       THEN LookedUp(Result(d, next, "unknown"))
                       ELSE AdRequest(d, NoQuestion, "regenerate", FALSE, asked)
           Others == IF pending.key = "price"
                     THEN Interrupted \union LookedUp(Result(draft, Reprompted(pending), "unknown"))
                     ELSE {}
<1>1. /\ pending.type = "MISSING_INFO" /\ pending.key \in {"product_name", "price"}
      /\ pending.reprompts \in 0..MaxReprompts /\ asked \in 1..2
      /\ pending \in [type : {"MISSING_INFO"}, key : {"product_name", "price"},
                      reprompts : 0..MaxReprompts, clarifications : 1..2]
      /\ InOrder(pending, draft)
  BY Questions DEF AnswerMandatory, IInv, GoodPending, Pendings
<1>2. /\ GoodDraft(d) /\ d.type = draft.type /\ d.awaiting = draft.awaiting
      /\ d.type = "UNSET" \/ Askable(d, asked)
  BY <1>1 DEF Filled, IInv, GoodDraft, Drafts, InOrder, Askable, Types
<1>3. FlagIsAsked => ~draft.awaiting
  BY <1>1 DEF FlagIsAsked
<1>4. Commit(Answered \union Others)
  BY DEF AnswerMandatory
<1> HIDE DEF d, asked
<1>5. ASSUME NEW r \in Answered PROVE Proper(r)
  <2>1. /\ GoodPending(next, d) /\ next.type # "BRIEF" /\ Flagged(d, next)
        /\ next = NoQuestion => d.type # "UNSET"
    BY <1>2, NextQuestionParts
  <2> HIDE DEF next
  <2>2. CASE next # NoQuestion
    <3>1. Proper(Result(d, next, "unknown"))
      BY <1>2, <2>1, AskingProper DEF Hints
    <3>2. QED
      BY <2>2, <3>1, LookedUpProper
  <2>3. CASE next = NoQuestion
    <3>1. Neutral(NoQuestion)
      BY Questions DEF Neutral
    <3>2. r \in AdRequest(d, NoQuestion, "regenerate", FALSE, asked) /\ Askable(d, asked)
      BY <1>2, <2>1, <2>3
    <3>3. /\ Sound(r) /\ (~d.awaiting => Flagged(r.draft, r.pending))
          /\ r.preview => Named(r.draft)
      BY <1>2, <3>1, <3>2, AdRequestParts DEF AdIntents
    <3>4. QED
      BY <1>2, <1>3, <3>3 DEF Proper, Sound
  <2>4. QED
    BY <2>2, <2>3
<1>6. ASSUME NEW r \in Others PROVE Proper(r)
  <2>1. CASE r \in Interrupted
    BY <1>1, <2>1, InterruptedProper
  <2>2. CASE r \in LookedUp(Result(draft, Reprompted(pending), "unknown"))
    <3> DEFINE p == Reprompted(pending)
    <3>1. p = NoQuestion \/ /\ p = [pending EXCEPT !.reprompts = @ + 1]
                            /\ pending.reprompts + 1 \in 0..MaxReprompts
      BY <1>1 DEF Reprompted
    <3> HIDE DEF p
    <3>2. GoodPending(p, draft) /\ p.type \notin {"BRIEF", "PRODUCT_CONFIRMATION"}
      <4>1. CASE p = NoQuestion
        BY <4>1, Questions, PlainQuestion
      <4>2. CASE p # NoQuestion
        BY <1>1, <3>1, <4>2 DEF GoodPending, InOrder, Pendings
      <4>3. QED
        BY <4>1, <4>2
    <3>3. Proper(Result(draft, p, "unknown"))
      BY <1>3, <3>2, AskingProper DEF IInv, Hints, Flagged
    <3>4. QED
      BY <2>2, <3>3, LookedUpProper DEF p
  <2>3. QED
    BY <2>1, <2>2
<1>7. QED
  BY <1>4, <1>5, <1>6, CommitStep

\* The answer to a question of the planner.
LEMMA AnswerBriefStep == IInv /\ AnswerBrief => Step
<1> SUFFICES ASSUME IInv, AnswerBrief PROVE Step
  OBVIOUS
<1> DEFINE Resumed(source) ==
               CASE source \in AdIntents -> AdRequest(draft, NoQuestion, source, TRUE, 0)
                 [] source = "other" -> {Result(draft, NoQuestion, source)}
                 [] OTHER -> AdRequest(draft, NoQuestion, "regenerate", TRUE, 0)
           Answered(t) == IF t.ready THEN Resumed(t.source)
                          ELSE LookedUp(Result(draft, t.question, "unknown"))
           turns == Turns(draft, pending.brief, 0, hint, pending.brief.key)
           source0 == IF hint \in {"None", "unknown"} THEN pending.brief.source ELSE hint
           results == Interrupted \union UNION {Answered(t) : t \in turns}
<1>1. pending.type = "BRIEF" /\ Commit(results)
  BY DEF AnswerBrief
<1>2. /\ OpenBrief(pending.brief, pending.brief.key)
      /\ pending.brief.key \in Keys /\ pending.brief.source \in Hints /\ hint \in Hints
  BY <1>1, PendingBriefOpen DEF IInv, TypeOK
<1>3. FlagIsAsked => ~draft.awaiting
  BY <1>1 DEF FlagIsAsked
<1>4. GoodDraft(draft) /\ Askable(draft, 0) /\ Neutral(NoQuestion) /\ NoQuestion.type = "NONE"
  BY Questions DEF IInv, Askable, Neutral
<1>5. GoodPending(NoQuestion, draft)
  BY <1>4, PlainQuestion DEF Neutral
<1>6. ASSUME NEW t \in turns, NEW r \in Answered(t) PROVE Proper(r)
  <2>1. /\ GoodTurn(t, draft, source0)
        /\ t.ready \/ t.question.type = "BRIEF" => MissingFields(draft) = << >>
    BY <1>2, <1>4, TurnParts
  <2>2. CASE t.ready
    <3>1. MissingFields(draft) = << >> /\ t.source = source0 /\ source0 \in Hints
      BY <1>2, <2>1, <2>2 DEF GoodTurn
    <3>2. ~(draft.type = "SINGLE" /\ ~draft.name)
      BY <1>4, <3>1, Missing DEF GoodDraft
    <3>3. source0 = "create" => "create" \in {hint, pending.brief.source}
      OBVIOUS
    <3> HIDE DEF source0
    <3>4. r \in Resumed(source0)
      BY <1>6, <2>2, <3>1
    <3>5. ASSUME NEW i \in AdIntents, i = "create" => source0 = "create",
                 r \in AdRequest(draft, NoQuestion, i, TRUE, 0)
          PROVE  Proper(r)
      <4>1. /\ Sound(r)
            /\ ~draft.awaiting => Flagged(r.draft, r.pending)
            /\ r.preview => Named(r.draft) \/ i = "create" \/ draft.type = "UNSET"
        BY <1>4, <3>2, <3>5, AdRequestParts
      <4>2. QED
        BY <1>1, <1>3, <3>3, <3>5, <4>1 DEF Proper, Sound, Excused
    <3>6. CASE source0 \in AdIntents
      <4>1. r \in AdRequest(draft, NoQuestion, source0, TRUE, 0)
        BY <3>4, <3>6 DEF AdIntents
      <4>2. QED
        BY <3>5, <3>6, <4>1
    <3>7. CASE source0 = "other"
      <4>1. r = Result(draft, NoQuestion, source0)
        BY <3>4, <3>7 DEF AdIntents
      <4>2. QED
        BY <1>3, <1>4, <1>5, <3>1, <4>1, AskingProper DEF Flagged
    <3>8. CASE source0 \notin AdIntents \union {"other"}
      <4>1. r \in AdRequest(draft, NoQuestion, "regenerate", TRUE, 0)
        BY <3>4, <3>8
      <4>2. QED
        BY <3>5, <4>1 DEF AdIntents
    <3>9. QED
      BY <3>6, <3>7, <3>8
  <2>3. CASE ~t.ready
    <3>1. /\ t.question.type \in {"BRIEF", "MISSING_INFO"} /\ GoodPending(t.question, draft)
          /\ r \in LookedUp(Result(draft, t.question, "unknown"))
      BY <1>6, <2>1, <2>3 DEF GoodTurn
    <3>2. PICK x : x = Result(draft, t.question, "unknown")
      OBVIOUS
    <3>3. WellFormed(x) /\ x.draft = draft /\ x.pending = t.question /\ ~x.preview
      BY <1>4, <3>1, <3>2, ResultParts DEF Hints
    <3>4. Proper(x)
      BY <1>1, <1>3, <3>1, <3>3 DEF Proper, BriefIsReady, Flagged
    <3>5. QED
      BY <3>1, <3>2, <3>4, LookedUpProper
  <2>4. QED
    BY <2>1, <2>2, <2>3 DEF GoodTurn
<1>7. ASSUME NEW r \in results PROVE Proper(r)
  <2>1. CASE r \in Interrupted
    BY <1>1, <2>1, InterruptedProper
  <2>2. CASE \E t \in turns : r \in Answered(t)
    BY <1>6, <2>2
  <2>3. QED
    BY <2>1, <2>2
<1> HIDE DEF results
<1>8. QED
  BY <1>1, <1>7, CommitStep

\* Messages that keep the draft, the question or both.
LEMMA KeepingSteps ==
    IInv /\ (TextNotUnderstood \/ SetLogo \/ Reprompt \/ SendLogo \/ SelectVariant \/ DecidePublish)
       => Step
<1>1. \A i \in Hints : IInv => Proper(Result(draft, pending, i))
  BY KeptProper
<1>2. ASSUME IInv, TextNotUnderstood PROVE Step
  BY <1>1, <1>2, CommitStep DEF TextNotUnderstood, Hints
<1>3. ASSUME IInv, SetLogo PROVE Step
  <2>1. CommitResult({Result(draft, pending, "other")}) /\ "other" \in Hints
    BY <1>3 DEF SetLogo, Hints
  <2>2. profile' \subseteq Required /\ upload' \in BOOLEAN
    BY <1>3 DEF SetLogo, IInv, TypeOK
  <2>3. QED
    BY <1>1, <1>3, <2>1, <2>2, ProperStep
<1>4. ASSUME IInv, Reprompt PROVE Step
  <2>1. PICK i \in Hints : Commit({Result(draft, pending, i)})
    BY <1>4 DEF Reprompt, IInv, TypeOK, Hints
  <2>2. QED
    BY <1>1, <1>4, <2>1, CommitStep
<1>5. ASSUME IInv, SendLogo PROVE Step
  <2>1. CommitResult({Result(draft, pending, "label")}) /\ "label" \in Hints
    BY <1>5 DEF SendLogo, Hints
  <2>2. profile' \subseteq Required /\ upload' \in BOOLEAN
    BY <1>5 DEF SendLogo, IInv, TypeOK
  <2>3. QED
    BY <1>1, <1>5, <2>1, <2>2, ProperStep
<1>6. \A d : GoodPending(NoQuestion, d) /\ NoQuestion.type = "NONE"
  BY Questions, PlainQuestion
<1>7. ASSUME IInv, SelectVariant PROVE Step
  <2> DEFINE d == [draft EXCEPT !.image = TRUE]
  <2>1. "label" \in Hints /\ GoodDraft(d) /\ d.awaiting = draft.awaiting
    BY <1>7 DEF Hints, IInv, GoodDraft, Drafts
  <2>2. pending.type = "VARIANT_SELECTION"
    BY <1>7 DEF SelectVariant
  <2>3. Commit({IF pending.round THEN Result(d, NoQuestion, "label")
                                 ELSE Result(draft, pending, "label")})
    BY <1>7 DEF SelectVariant
  <2> HIDE DEF d
  <2>4. Proper(Result(d, NoQuestion, "label"))
    BY <1>6, <2>1, <2>2, AskingProper DEF Flagged, FlagIsAsked
  <2>5. QED
    BY <1>1, <1>7, <2>1, <2>3, <2>4, CommitStep
<1>8. ASSUME IInv, DecidePublish PROVE Step
  <2>1. "label" \in Hints
    BY DEF Hints
  <2>2. Proper(Result(Fresh, NoQuestion, "label"))
    BY <1>6, <2>1, FreshDraft, AskingProper DEF Flagged
  <2>3. Commit({Result(draft, pending, "label")} \union
               IF draft.image THEN {Result(Fresh, NoQuestion, "label")} ELSE {})
    BY <1>8 DEF DecidePublish
  <2>4. QED
    BY <1>1, <1>8, <2>1, <2>2, <2>3, CommitStep
<1>9. QED
  BY <1>2, <1>3, <1>4, <1>5, <1>7, <1>8

\* A photo of the product.
LEMMA SendPhotoStep == IInv /\ SendPhoto => Step
<1> SUFFICES ASSUME IInv, SendPhoto PROVE Step
  OBVIOUS
<1>0. PICK first \in BOOLEAN, i \in Hints :
         \E stored, toConfirm :
            /\ stored = Result([draft EXCEPT !.photo = TRUE], pending, i)
            /\ toConfirm = [stored EXCEPT !.pending = ProductQuestion, !.draft.type = "SINGLE",
                                          !.draft.awaiting = TRUE]
            /\ Commit({Result(draft, pending, i)}
                        \union LookedUp(IF first THEN toConfirm ELSE stored))
  BY DEF SendPhoto, Hints
<1>1. PICK stored, toConfirm :
         /\ stored = Result([draft EXCEPT !.photo = TRUE], pending, i)
         /\ toConfirm = [stored EXCEPT !.pending = ProductQuestion, !.draft.type = "SINGLE",
                                       !.draft.awaiting = TRUE]
         /\ Commit({Result(draft, pending, i)} \union LookedUp(IF first THEN toConfirm ELSE stored))
  BY <1>0
<1> DEFINE d1 == [draft EXCEPT !.photo = TRUE]
           d2 == [draft EXCEPT !.photo = TRUE, !.type = "SINGLE", !.awaiting = TRUE]
<1>2. /\ GoodDraft(d1) /\ d1.awaiting = draft.awaiting /\ d1.type = draft.type
      /\ d1.name = draft.name /\ d1.price = draft.price
      /\ GoodDraft(d2) /\ d2.awaiting
  BY DEF IInv, GoodDraft, Drafts, Types
<1>3. toConfirm = Result(d2, ProductQuestion, i)
  BY <1>1 DEF Result, IInv, GoodDraft, Drafts
<1>4. stored = Result(d1, pending, i)
  BY <1>1
<1> HIDE DEF d1, d2
<1>5. Proper(toConfirm)
  <2>1. GoodPending(ProductQuestion, d2) /\ ProductQuestion.type = "PRODUCT_CONFIRMATION"
    BY Questions, PlainQuestion
  <2>2. QED
    BY <1>2, <1>3, <2>1, AskingProper DEF Flagged
<1>6. Proper(stored)
  <2>1. GoodPending(pending, d1) /\ (Plannable(draft) => Plannable(d1))
    BY <1>2 DEF IInv, GoodPending, InOrder, Plannable
  <2>2. /\ WellFormed(stored) /\ stored.draft = d1 /\ stored.pending = pending /\ ~stored.preview
    BY <1>2, <1>4, <2>1, ResultParts
  <2>3. QED
    BY <1>2, <2>1, <2>2 DEF Proper, BriefIsReady, FlagIsAsked, Flagged
<1>7. \A r \in LookedUp(IF first THEN toConfirm ELSE stored) : Proper(r)
  BY <1>5, <1>6, LookedUpProper
<1>8. QED
  BY <1>1, <1>7, KeptProper, CommitStep

\* The onboarding gate keeps the draft.
LEMMA GateSteps == IInv /\ (NotOnboarded \/ GiveName \/ GiveLogo) => Step
<1> SUFFICES ASSUME IInv, NotOnboarded \/ GiveName \/ GiveLogo PROVE Step
  OBVIOUS
<1>1. /\ ~Onboarded /\ UNCHANGED <<draft, shown, upload>> /\ hint' = "label"
      /\ profile' \subseteq Required
      /\ pending' \in {pending, NoQuestion, OnboardingQuestion}
  BY DEF NotOnboarded, GiveName, GiveLogo, Gate, IInv, TypeOK, Required
<1>2. \A p \in {NoQuestion, OnboardingQuestion} : GoodPending(p, draft) /\ p.type # "BRIEF"
  BY Questions, PlainQuestion
<1>3. IInv'
  BY <1>1, <1>2 DEF IInv, TypeOK, GoodPending, GoodDraft, Hints
<1>4. BriefStays
  BY <1>1, <1>2 DEF BriefStays, BriefIsReady, Plannable
<1>5. QED
  BY <1>1, <1>3, <1>4 DEF Step, FlagStays, NamedPreview

\* The purges, which leave a draft or a session that fits nothing else.
LEMMA PurgeSteps == IInv /\ (PurgeSession \/ PurgeDraft) => Step
<1>1. ASSUME IInv, PurgeSession PROVE Step
  <2>1. /\ draft' = Fresh /\ pending' = NoQuestion /\ hint' = "None" /\ upload' = FALSE
        /\ UNCHANGED <<shown, profile>>
    BY <1>1 DEF PurgeSession
  <2>2. GoodPending(NoQuestion, Fresh) /\ NoQuestion.type = "NONE"
    BY Questions, PlainQuestion
  <2>3. IInv'
    BY <1>1, <2>1, <2>2, FreshDraft DEF IInv, TypeOK, GoodPending, GoodDraft, Hints
  <2>4. BriefIsReady' /\ FlagIsAsked'
    BY <2>1, <2>2, FreshDraft DEF BriefIsReady, FlagIsAsked
  <2>5. QED
    BY <2>1, <2>3, <2>4 DEF Step, BriefStays, FlagStays, NamedPreview
<1>2. ASSUME IInv, PurgeDraft PROVE Step
  <2>1. /\ draft' \in {draft, Fresh} /\ UNCHANGED <<hint, shown, profile, upload>>
        /\ pending' = IF pending.type = "VARIANT_SELECTION" THEN [pending EXCEPT !.round = FALSE]
                                                            ELSE pending
    BY <1>2 DEF PurgeDraft
  <2>2. GoodPending(pending', draft')
    <3>1. CASE pending.type = "VARIANT_SELECTION"
      <4>1. pending \in [type : {"VARIANT_SELECTION"}, round : BOOLEAN]
        BY <1>2, <3>1, Questions DEF IInv, GoodPending, Pendings
      <4>2. pending' \in Pendings /\ pending'.type = "VARIANT_SELECTION"
        BY <2>1, <3>1, <4>1 DEF Pendings
      <4>3. QED
        BY <4>2, PlainQuestion
    <3>2. CASE pending.type # "VARIANT_SELECTION"
      BY <1>2, <2>1, <3>2, FreshDraft DEF IInv, GoodPending, InOrder
    <3>3. QED
      BY <3>1, <3>2
  <2>3. IInv'
    BY <1>2, <2>1, <2>2, FreshDraft DEF IInv, TypeOK, GoodPending, GoodDraft
  <2>4. QED
    BY <1>2, <2>1, <2>3 DEF Step, BriefStays, FlagStays, NamedPreview
<1>3. QED
  BY <1>1, <1>2

-----------------------------------------------------------------------------
\* The theorems

\* A session without a message.
LEMMA InitInv == Init => IInv
<1> SUFFICES ASSUME Init PROVE IInv
  OBVIOUS
<1>1. GoodPending(NoQuestion, Fresh) /\ NoQuestion \in Pendings
  BY Questions, PlainQuestion
<1>2. QED
  BY <1>1, FreshDraft DEF Init, IInv, TypeOK, GoodDraft, Hints, Required

\* Every message keeps the invariant and agrees with the properties.
LEMMA Steps == IInv /\ [Next]_vars => IInv' /\ (Step \/ UNCHANGED vars)
<1>1. ASSUME IInv, Next PROVE Step
  BY <1>1, TextFreelyStep, ClearBrandingStep, ProductSteps, AnswerTypeStep, AnswerMandatoryStep,
     AnswerBriefStep, KeepingSteps, SendPhotoStep, GateSteps, PurgeSteps DEF Next
<1>2. ASSUME IInv, UNCHANGED vars PROVE IInv'
  BY <1>2 DEF vars, IInv, TypeOK, GoodDraft, GoodPending
<1>3. QED
  BY <1>1, <1>2 DEF Step

\* The inductive invariant: only a single product waits for a confirmation, a
\* brief knows what it has asked, mandatory fields are asked for in order.
THEOREM Invariant == Spec => []IInv
<1>1. IInv /\ [Next]_vars => IInv'
  BY Steps
<1>2. QED
  BY <1>1, InitInv, PTL DEF Spec

\* Drafts, questions and briefs are well-formed, and the counters of a question
\* stay within their caps (apply_planner_output, resolve_pending_question).
THEOREM TypeCorrect == Spec => []TypeOK
<1>1. IInv => TypeOK
  BY DEF IInv
<1>2. QED
  BY <1>1, Invariant, PTL

\* The planner repeats no question of a brief, for any cap
\* (apply_planner_output, its "ready" branch included).
THEOREM QuestionsAreNew == Spec => []EveryQuestionIsNew
<1>1. IInv => EveryQuestionIsNew
  BY DEF IInv, GoodPending, AskedOnce, EveryQuestionIsNew
<1>2. QED
  BY <1>1, Invariant, PTL

\* Only a purge takes a draft that the planner may ask about from its brief.
THEOREM BriefsFit == Spec => BriefOnReadyDraft
<1>1. IInv /\ [Next]_vars =>
         [BriefIsReady /\ ~BriefIsReady' => PurgeDraft \/ ProductPurged]_vars
  BY Steps DEF Step, BriefStays
<1>2. QED
  BY <1>1, Invariant, PTL DEF Spec, BriefOnReadyDraft

\* Only a purge or the onboarding gate parts the flag of the draft from the
\* question of the session.
THEOREM FlagsAgree == Spec => AwaitingIsAsked
<1>1. IInv /\ [Next]_vars => [FlagIsAsked /\ ~FlagIsAsked' => PurgeDraft \/ ~Onboarded]_vars
  BY Steps DEF Step, FlagStays
<1>2. QED
  BY <1>1, Invariant, PTL DEF Spec, AwaitingIsAsked

\* What is previewed has a type, and a name if it is a single product, but for
\* briefs that resume on a fresh draft and for purged drafts.
THEOREM PreviewsAreNamed == Spec => PreviewIsNamed
<1>1. IInv /\ [Next]_vars =>
         [shown' # shown /\ ~(shown'.type # "UNSET" /\ (shown'.type = "SINGLE" => shown'.name)) =>
             \/ pending.type = "BRIEF"
                /\ (draft.type = "UNSET" \/ "create" \in {hint, pending.brief.source})
             \/ ProductPurged]_vars
  BY Steps DEF Step, NamedPreview, Excused
<1>2. QED
  BY <1>1, Invariant, PTL DEF Spec, PreviewIsNamed

=============================================================================
