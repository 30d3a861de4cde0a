---------------------------- MODULE ProductLookup ----------------------------
(***************************************************************************)
(* How calls that overlap look up a product and store its photo in ONE     *)
(* draft: the answer of the LLM, product resolution (four retailers, then  *)
(* an image search), the lookup of a bar code, product discovery, the      *)
(* photo the operator sends, and the copy of a found image that the        *)
(* operator is asked to confirm.                                           *)
(*                                                                         *)
(* AdWorkflow takes a transaction as one action. Here every await is one:  *)
(* the first conditional update of a call locks the row of the draft until *)
(* the call commits or fails, the others wait or, if the row has changed   *)
(* since they loaded it, are refused and go on with their copy.            *)
(*                                                                         *)
(* A value has its origin only: nobody, the operator, or one of the        *)
(* searches; the name stands for the promo text and the brand, which are   *)
(* filled the same way. A text that starts another ad works on a draft of  *)
(* its own and is left out, and so are texts without a bar code that have  *)
(* nothing to do with an ad or a question, and what follows the lookup     *)
(* (questions and generation, see QuestionDialogue and AdWorkflow).        *)
(***************************************************************************)
EXTENDS Naturals, Sequences, FiniteSets, SequencesExt

CONSTANTS
    Workers,        \* concurrent calls of the worker endpoint
    Nobody,         \* not a worker
    MaxMsgs,        \* bound: messages in one behaviour
    MaxAborts,      \* bound: calls that raise or die
    MaxRetries,     \* max_retries of the LLM gateway
    MinimumScore,   \* minimum_score of the candidate selector
    MaxScore,       \* bound: the scores of candidates are 0..MaxScore
    MaxFound        \* bound: candidates that one search finds

ASSUME WorkersAssumption == Nobody \notin Workers
ASSUME NumbersAssumption ==
    /\ MaxMsgs \in Nat /\ MaxAborts \in Nat /\ MaxRetries \in Nat
    /\ MinimumScore \in Nat /\ MaxScore \in Nat /\ MaxFound \in Nat

VARIABLES
    row,        \* the committed ad_draft row
    tx,         \* who has the row locked, its contents in that transaction, and
                \* whether a notice was forgotten in it, as a product was found
    question,   \* the pending question of the session, with its photo
    lock,       \* who has the row of the session locked
    calls,      \* the call each worker runs
    store,      \* number of objects uploaded to the media store (external)
    stored,     \* those that a committed row has named
    notices,    \* "no details for this bar code": those sent so far
    forgotten,  \* committed transactions that made the draft forget a notice
    received,   \* messages received so far
    strained,   \* finished calls that had an update refused
    blind,      \* a call has changed the question without the draft
    aborts      \* calls that raised or died so far

vars == <<row, tx, question, lock, calls, store, stored, notices, forgotten, received, strained,
          blind, aborts>>

-----------------------------------------------------------------------------
\* LLM gateway

\* One chat completion: a model that refuses temperature 0 is asked again.
Chat(first, again) ==
    IF first # "no_zero" THEN first ELSE IF again = "no_zero" THEN "failed" ELSE again

Replies == {"valid", "garbled", "empty", "failed", "no_zero"}

\* An answer that is not the JSON expected is asked for again, up to the
\* budget; a request that fails, or returns nothing, ends it at once.
RequestJsonModel(answers) ==
    LET decisive == {i \in DOMAIN answers : answers[i] # "garbled"}
        first == CHOOSE i \in decisive : \A j \in decisive : i <= j
    IN  CASE decisive = {} -> "LLMSchemaError"
          [] decisive # {} /\ answers[first] = "valid" -> "ok"
          [] OTHER -> "LLMGatewayError"

LlmResults ==
    {RequestJsonModel(a) : a \in [1..MaxRetries + 1 -> {Chat(f, g) : f, g \in Replies}]}

-----------------------------------------------------------------------------
\* Searches

\* A candidate has a score and may be usable: it has a title and an image,
\* no template left in them, a source that is safe, no generic page title.
Candidates == [score : 0..MaxScore, usable : BOOLEAN]
Found == UNION {[1..n -> Candidates] : n \in 0..MaxFound}
NoCandidate == 0

\* The image search keeps what has a title and an image; an error is an
\* empty result.
ImagesFound == Found

\* The indices by descending score; equal scores keep their order.
Precedes(found, i, j) ==
    \/ found[i].score > found[j].score
    \/ found[i].score = found[j].score /\ i < j
Ranked(found) ==
    CHOOSE order \in Bijection(DOMAIN found, DOMAIN found) :
        \A m, n \in DOMAIN found : m < n => Precedes(found, order[m], order[n])

\* Mutant: an unusable candidate ends the search like one below the minimum.
SelectFirstOnly(found) ==
    LET ranked == Ranked(found)
    IN  IF found = <<>> \/ found[ranked[1]].score < MinimumScore \/ ~found[ranked[1]].usable
        THEN NoCandidate ELSE ranked[1]

\* select_best: down the ranking, until one is usable or below the minimum.
SelectBest(found) ==
    LET ranked == Ranked(found)
        stops == {n \in DOMAIN ranked :
                    found[ranked[n]].score < MinimumScore \/ found[ranked[n]].usable}
        first == CHOOSE n \in stops : \A m \in stops : n <= m
    IN  IF stops = {} \/ found[ranked[first]].score < MinimumScore
        THEN NoCandidate ELSE ranked[first]

\* What the extractor makes of the text, with the LLM or without it.
Queries == {"short", "broad", "specific"}

\* DefaultProductResolutionService.resolve. The results of the retailers are
\* taken together; the image search is a fallback.
Resolve(query, retailers, images) ==
    CASE query = "short" -> "needs_clarification"
      [] query # "short" /\ (SelectBest(retailers) # NoCandidate
                             \/ SelectBest(images) # NoCandidate) -> "resolved"
      [] query = "broad" /\ SelectBest(retailers) = NoCandidate
                         /\ SelectBest(images) = NoCandidate -> "needs_clarification"
      [] OTHER -> "not_found"

Resolutions == {Resolve(q, r, i) : q \in Queries, r \in Found, i \in ImagesFound}

\* A provider finds a product, nothing, or raises; a request that failed was
\* repeated within it. The chain of discovery takes the first product and
\* ignores exceptions, the chain of bar codes passes them on.
ProviderResults == {"product", "nothing", "raises"}
Providers == 1..2
FirstOf(results, passed) ==
    LET decisive == {p \in Providers : results[p] \in {"product"} \union passed}
    IN  IF decisive = {} THEN "nothing"
        ELSE results[CHOOSE p \in decisive : \A o \in decisive : p <= o]

Discoveries == {FirstOf(r, {}) : r \in [Providers -> ProviderResults]}
Enrichments == {FirstOf(r, {"raises"}) : r \in [Providers -> ProviderResults]}

-----------------------------------------------------------------------------
\* Data

\* Where a value comes from; "found" by a search, and the photo of a search
\* is a copy in the media store when it has an object.
Origins == {"none", "operator", "resolution", "barcode", "discovery"}
NoObject == 0
NoPhoto == [from |-> "none", object |-> NoObject]
External(search) == [from |-> search, object |-> NoObject]

Types == {"UNSET", "SINGLE", "GENERAL"}
NewDraft ==
    [version |-> 1, type |-> "UNSET", name |-> "none", photo |-> NoPhoto,
     ean |-> FALSE, awaiting |-> FALSE, notified |-> FALSE]

Questions == {"NONE", "CLASSIFICATION", "PRODUCT_CONFIRMATION", "MISSING_INFO"}
Asking(type) == [type |-> type, photo |-> NoPhoto]

\* create: the answer to the type question; regenerate: a text about the
\* draft; barcode: any other text with a bar code, or the answer to a
\* missing-info question; reject: "no" to the product found.
Kinds == {"create", "regenerate", "barcode", "photo", "approve", "reject"}

\* "writes": how the updates of the call fared so far; "torn" when one was
\* refused after another was accepted. "q": what it will do to the question.
IdleCall ==
    [pc |-> "idle", kind |-> "photo", asked |-> Asking("NONE"), mem |-> NewDraft,
     first |-> FALSE, type |-> "UNSET", ean |-> FALSE, replied |-> FALSE,
     notice |-> FALSE, object |-> NoObject, before |-> NoPhoto, writes |-> "none",
     q |-> "keep"]

NoTx == [by |-> Nobody, row |-> NewDraft, forgot |-> FALSE]

\* The first text has made the draft and left its type open.
Init ==
    /\ row = NewDraft
    /\ tx = NoTx
    /\ question = Asking("CLASSIFICATION")
    /\ lock = Nobody
    /\ calls = [k \in Workers |-> IdleCall]
    /\ store = 0 /\ stored = {} /\ notices = 0 /\ forgotten = 0
    /\ received = 0 /\ strained = 0 /\ blind = FALSE /\ aborts = 0

-----------------------------------------------------------------------------
\* Updates and commits

With(r, fields) == [x \in DOMAIN r |-> IF x \in DOMAIN fields THEN fields[x] ELSE r[x]]
NoFields == <<>>

\* The fields of both, of the first where both have one.
Also(fields, others) ==
    [x \in DOMAIN fields \union DOMAIN others |->
        IF x \in DOMAIN fields THEN fields[x] ELSE others[x]]

Mem(k) == calls[k].mem
At(k, pc) == calls[k].pc = pc

\* Mutant: every update is a transaction of its own.
UpdateAlone(k, fields, more) ==
    LET Apply(r) == [With(r, fields) EXCEPT !.version = r.version + 1]
        ok == Mem(k).version = row.version
        fared == CASE ok -> "accepted"
                   [] ~ok /\ calls[k].writes = "accepted" -> "torn"
                   [] OTHER -> "refused"
    IN  /\ row' = IF ok THEN Apply(row) ELSE row
        /\ calls' = [calls EXCEPT ![k] =
              With([@ EXCEPT !.mem = IF ok THEN Apply(@) ELSE @, !.writes = fared], more[ok])]
        /\ UNCHANGED <<tx, question, lock, store, stored, notices, forgotten, received, strained,
                       blind, aborts>>

\* The product that was found makes the next notice a new one.
Forgets(fields) == "notified" \in DOMAIN fields /\ ~fields.notified

\* update_for_operator_with_version, with what the call does when it is
\* accepted or refused. It waits for the lock of another transaction. An
\* update that is refused may nevertheless change the copy of the call, which
\* the ORM synchronises in memory (see AdWorkflow).
Update(k, fields, more) ==
    LET seen == IF tx.by = k THEN tx.row ELSE row
        Apply(r) == [With(r, fields) EXCEPT !.version = r.version + 1]
        ok == Mem(k).version = seen.version
        fared == CASE ok /\ calls[k].writes = "none" -> "accepted"
                   [] ok /\ calls[k].writes # "none" -> calls[k].writes
                   [] ~ok /\ calls[k].writes = "accepted" -> "torn"
                   [] OTHER -> "refused"
    IN  /\ tx.by \in {Nobody, k}
        /\ tx' = IF ok THEN [by |-> k, row |-> Apply(seen),
                          forgot |-> tx.forgot \/ (Forgets(fields) /\ seen.notified)]
                 ELSE tx
        /\ \E m \in IF ok THEN {Apply(Mem(k))} ELSE {Mem(k), Apply(Mem(k))} :
             calls' = [calls EXCEPT ![k] =
                With([@ EXCEPT !.mem = m, !.writes = fared], more[ok])]
        /\ UNCHANGED <<row, question, lock, store, stored, notices, forgotten, received, strained,
                       blind, aborts>>

\* The call goes on in the same way whether the update is accepted or not.
Either(more) == [ok \in BOOLEAN |-> more]

\* A step that touches nothing but the call.
Go(k, more) ==
    /\ calls' = [calls EXCEPT ![k] = With(@, more)]
    /\ UNCHANGED <<row, tx, question, lock, store, stored, notices, forgotten, received, strained,
                   blind, aborts>>

End(q) == [pc |-> "end", q |-> q]

\* Mutant: the draft is given an object that has not been uploaded.
UploadNothing(k, pc) ==
    /\ calls' = [calls EXCEPT ![k].pc = pc, ![k].object = store + 1]
    /\ UNCHANGED <<row, tx, question, lock, store, stored, notices, forgotten, received, strained,
                   blind, aborts>>

\* An object is uploaded under a name of its own.
Upload(k, pc) ==
    /\ store' = store + 1
    /\ calls' = [calls EXCEPT ![k].pc = pc, ![k].object = store + 1]
    /\ UNCHANGED <<row, tx, question, lock, stored, notices, forgotten, received, strained,
                   blind, aborts>>

Strained(k) == calls[k].writes \in {"refused", "torn"}

\* The question a call that ends leaves in the session.
Left(k) ==
    CASE calls[k].q = "keep" -> calls[k].asked
      [] calls[k].q = "product" -> [type |-> "PRODUCT_CONFIRMATION", photo |-> Mem(k).photo]
      [] OTHER -> Asking(calls[k].q)

\* Only the answer to a missing-info question, or a text instead of one, does.
Blind(k) == calls[k].writes = "none" /\ Left(k) # calls[k].asked

\* The end of a call: it writes the session, of which the columns it changed
\* are saved, and commits. The notice goes out with the reply, whether the
\* update that was to remember it was accepted or not.
Commit(k) ==
    /\ At(k, "end")
    /\ lock \in {Nobody, k}
    /\ LET new == IF tx.by = k THEN tx.row ELSE row
       IN  /\ row' = new
           /\ stored' = stored \union ({new.photo.object} \ {NoObject})
    /\ forgotten' = forgotten + IF tx.by = k /\ tx.forgot THEN 1 ELSE 0
    /\ notices' = notices + IF calls[k].notice THEN 1 ELSE 0
    /\ tx' = IF tx.by = k THEN NoTx ELSE tx
    /\ lock' = Nobody
    /\ question' = IF Left(k) # calls[k].asked THEN Left(k) ELSE question
    /\ strained' = strained + IF Strained(k) THEN 1 ELSE 0
    /\ blind' = (blind \/ Blind(k))
    /\ calls' = [calls EXCEPT ![k] = IdleCall]
    /\ UNCHANGED <<store, received, aborts>>

-----------------------------------------------------------------------------
\* A message

\* What a message may be, given the question.
KindsOn(type) ==
    CASE type = "CLASSIFICATION" -> {"create", "regenerate", "barcode", "photo"}
      [] type = "PRODUCT_CONFIRMATION" -> {"approve", "reject", "barcode", "photo"}
      [] OTHER -> {"regenerate", "barcode", "photo"}

FirstStep(kind, type) ==
    CASE kind = "photo" -> "ingest"
      [] type = "MISSING_INFO" /\ kind # "photo" -> "answer"
      [] type # "MISSING_INFO" /\ kind \in {"create", "regenerate"} -> "type"
      [] OTHER -> kind

\* A photo starts the flow of an ad that is not classified, or is empty.
StartsImageFlow ==
    \/ question.type = "CLASSIFICATION"
    \/ row.type = "UNSET"
    \/ question.type = "NONE" /\ ~row.awaiting /\ row.photo = NoPhoto

\* A text about an ad whose draft has a bar code falls back on that one, so a
\* bar code in it makes no difference.
Receive(k) ==
    /\ At(k, "idle")
    /\ received < MaxMsgs
    /\ received' = received + 1
    /\ \E kind \in KindsOn(question.type) :
       \E ean \in BOOLEAN :
          /\ ean => kind = "barcode" \/ (kind \in {"create", "regenerate"} /\ ~row.ean)
          /\ kind = "barcode" => ean \/ question.type = "MISSING_INFO"
          /\ calls' = [calls EXCEPT ![k] =
                [IdleCall EXCEPT !.pc = FirstStep(kind, question.type), !.kind = kind, !.ean = ean,
                                 !.asked = question, !.mem = row, !.before = row.photo,
                                 !.first = kind = "photo" /\ StartsImageFlow]]
    /\ UNCHANGED <<row, tx, question, lock, store, stored, notices, forgotten, strained, blind,
                   aborts>>

-----------------------------------------------------------------------------
\* Answer to a question

\* _resolve_pending_missing_info_answer: a price or the name goes to the
\* draft; other answers, and what is none, leave it alone. A refusal becomes
\* the reply. The question goes, unless another follows or it is put again.
AnswerQuestion(k) ==
    /\ At(k, "answer")
    /\ \E next \in IF calls[k].kind = "barcode"
                   THEN {[pc |-> "barcode", q |-> q] : q \in {"keep", "NONE"}}
                   ELSE {[pc |-> "type", q |-> "NONE"]} :
          \/ Go(k, next)
          \/ \E fields \in {NoFields, [name |-> "operator"]} :
                Update(k, fields, [ok \in BOOLEAN |-> Also(next, [replied |-> ~ok])])

-----------------------------------------------------------------------------
\* Text about an ad

\* Mutant: a type the draft has already is not written again.
DecideTypeOnce(k) ==
    /\ At(k, "type")
    /\ \E answer \in LlmResults :
          IF answer # "ok" THEN Go(k, [pc |-> "end"])
          ELSE IF Mem(k).type # "UNSET" THEN Go(k, [pc |-> "mark", type |-> Mem(k).type])
          ELSE \E type \in Types :
                 Update(k, [type |-> type], Either([pc |-> "mark", type |-> type]))

\* The LLM decides on the type of the ad. Whatever becomes of the update of
\* the draft, the decision goes to the session next.
DecideType(k) ==
    /\ At(k, "type")
    /\ \E answer \in LlmResults :
          IF answer # "ok" THEN Go(k, [pc |-> "end"])
          ELSE \E type \in IF Mem(k).type = "UNSET" THEN Types ELSE {Mem(k).type} :
                 Update(k, [type |-> type], Either([pc |-> "mark", type |-> type]))

\* _persist_request_type_state writes the session, which stays locked from
\* here on; a single product is looked up, unless a refused answer has been
\* replied to; the rest is answered.
MarkQuestion(k) ==
    /\ At(k, "mark")
    /\ lock \in {Nobody, k}
    /\ lock' = k
    /\ calls' = [calls EXCEPT ![k] = With(@,
                   CASE calls[k].type = "UNSET" -> End("CLASSIFICATION")
                     [] calls[k].type = "SINGLE" /\ ~calls[k].replied -> [pc |-> "fields"]
                     [] OTHER -> End("NONE"))]
    /\ UNCHANGED <<row, tx, question, store, stored, notices, forgotten, received, strained,
                   blind, aborts>>

Creates(k) == calls[k].kind = "create"

\* The fields the LLM extracts replace those of the draft. A refusal becomes
\* the reply, and there is no resolution then, but the bar code is looked up.
ExtractFields(k) ==
    /\ At(k, "fields")
    /\ LET next == [pc |-> IF Creates(k) THEN "resolve" ELSE "barcode"]
       IN  \E answer \in LlmResults :
             IF answer # "ok" THEN Go(k, End("NONE"))
             ELSE \/ Go(k, next)
                  \/ \E fields \in {NoFields, [name |-> "operator"]} :
                       Update(k, fields, [ok \in BOOLEAN |->
                          IF ok THEN next ELSE [pc |-> "barcode", replied |-> TRUE]])

\* Mutant: the photo of a product that was found is always taken.
MissingButPhoto(d, search, fields) ==
    [x \in {y \in fields : y = "photo" \/ d.name = "none"} |->
        IF x = "name" THEN search ELSE External(search)]

\* What a product that was found changes in a draft: what nobody has given.
Missing(d, search, fields) ==
    [x \in {y \in fields : \/ y = "name" /\ d.name = "none"
                           \/ y = "photo" /\ d.photo = NoPhoto} |->
        IF x = "name" THEN search ELSE External(search)]

\* _run_product_resolution_if_applicable: a photo that was found has to be
\* confirmed. Nothing is written when the draft knows everything already.
ResolveProduct(k) ==
    /\ At(k, "resolve")
    /\ LET next == [pc |-> "barcode"]
           missing == Missing(Mem(k), "resolution", {"name", "photo"})
           asks == IF "photo" \in DOMAIN missing THEN [awaiting |-> TRUE] ELSE NoFields
       IN  \E result \in Resolutions :
             CASE result = "resolved" ->
                    \/ /\ missing = NoFields /\ ~Mem(k).notified
                       /\ Go(k, next)
                    \/ Update(k, Also(missing, Also(asks, [notified |-> FALSE])),
                              [ok \in BOOLEAN |->
                                 IF ok THEN next ELSE [pc |-> "barcode", replied |-> TRUE]])
               [] result = "needs_clarification" ->
                    Go(k, IF Mem(k).name = "none" THEN [pc |-> "barcode", replied |-> TRUE]
                                                  ELSE next)
               [] OTHER -> Go(k, next)

\* Where a call goes on after the bar code.
Enriched(k) ==
    CASE calls[k].kind = "photo" -> [pc |-> "first"]
      [] calls[k].kind = "barcode" -> [pc |-> "end"]
      [] OTHER -> [pc |-> "discover"]

\* _enrich_current_draft: a text falls back on the bar code of the draft. A
\* refusal is ignored.
EnterBarcode(k) ==
    /\ At(k, "barcode")
    /\ LET known == Mem(k).ean /\ calls[k].kind \in {"create", "regenerate"}
       IN  IF ~(calls[k].ean \/ known) THEN Go(k, Enriched(k))
           ELSE IF Mem(k).ean THEN Go(k, [pc |-> "lookup"])
           ELSE Update(k, [ean |-> TRUE], Either([pc |-> "lookup"]))

\* Mutant: the draft does not remember that the operator was told.
LookUpBarcodeForgets(k) ==
    /\ At(k, "lookup")
    /\ \E result \in Enrichments :
          IF result = "nothing" THEN Go(k, Also([notice |-> TRUE], Enriched(k)))
          ELSE result = "product" /\ Go(k, Enriched(k))

\* The chain of providers. That nothing is known is said once; an exception
\* ends a text (see Abort) and is ignored after a photo.
LookUpBarcode(k) ==
    /\ At(k, "lookup")
    /\ LET next == Enriched(k)
       IN  \E result \in Enrichments :
             CASE result = "nothing" ->
                    IF Mem(k).notified THEN Go(k, next)
                    ELSE Update(k, [notified |-> TRUE], Either(Also([notice |-> TRUE], next)))
               [] result = "product" ->
                    \E fields \in SUBSET {"name", "photo"} :
                    LET missing == Missing(Mem(k), "barcode", fields)
                    IN  \/ missing = NoFields /\ ~Mem(k).notified /\ Go(k, next)
                        \/ Update(k, Also(missing, [notified |-> FALSE]), Either(next))
               [] OTHER -> calls[k].kind = "photo" /\ Go(k, next)

\* _discover_product_for_draft, for a single product without a photo and a
\* text that has no reply yet. It asks for no confirmation.
Discover(k) ==
    /\ At(k, "discover")
    /\ LET next == [pc |-> "settle"]
           applies == ~calls[k].replied /\ Mem(k).photo = NoPhoto /\ Mem(k).type = "SINGLE"
       IN  \/ ~applies /\ Go(k, next)
           \/ applies /\ \E answer \in LlmResults, result \in Discoveries :
                IF answer = "ok" /\ result = "product"
                THEN Update(k, Missing(Mem(k), "discovery", {"name", "photo"}), Either(next))
                ELSE Go(k, next)

\* What the text leads to: the confirmation of the product, a reply, another
\* question, or the planner and the generation.
Settle(k) ==
    /\ At(k, "settle")
    /\ CASE calls[k].replied -> Go(k, End("NONE"))
         [] ~calls[k].replied /\ Mem(k).awaiting ->
              Go(k, IF Creates(k) /\ Mem(k).type = "SINGLE" /\ Mem(k).photo # NoPhoto
                    THEN [pc |-> "prompt"] ELSE End("PRODUCT_CONFIRMATION"))
         [] OTHER -> \E q \in {"NONE", "MISSING_INFO"} : Go(k, End(q))

-----------------------------------------------------------------------------
\* Photo

\* The photo of the message is downloaded and uploaded, or unusable.
IngestPhoto(k) ==
    /\ At(k, "ingest")
    /\ Go(k, End("keep")) \/ Upload(k, "store")

\* The photo of the operator replaces the one of the draft; then the bar
\* code on it is read, errors ignored.
StorePhoto(k) ==
    /\ At(k, "store")
    /\ \E ean \in BOOLEAN :
          Update(k, [photo |-> [from |-> "operator", object |-> calls[k].object]],
                 [ok \in BOOLEAN |-> IF ok THEN [pc |-> "barcode", ean |-> ean]
                                           ELSE [pc |-> "first"]])

\* The first photo of an ad makes it a single product to be confirmed. The
\* photo counts as stored when the copy of the draft has another one.
FirstPhoto(k) ==
    /\ At(k, "first")
    /\ IF calls[k].first /\ Mem(k).photo \notin {NoPhoto, calls[k].before}
       THEN Update(k, [type |-> "SINGLE", awaiting |-> TRUE],
                   [ok \in BOOLEAN |-> IF ok THEN [pc |-> "prompt"] ELSE End("keep")])
       ELSE Go(k, End("keep"))

-----------------------------------------------------------------------------
\* Confirmation of a product

\* _prepare_product_confirmation_image: an image that cannot be sent as it
\* is, which one of the media store can, is copied there; when that fails
\* its link is sent.
ShowProduct(k) ==
    /\ At(k, "prompt")
    /\ \/ Go(k, End("product"))
       \/ Mem(k).photo.object = NoObject /\ Upload(k, "copied")

\* Mutant: the copy is shown but not stored in the draft.
StoreNoCopy(k) ==
    /\ At(k, "copied")
    /\ Go(k, End("product"))

StoreCopy(k) ==
    /\ At(k, "copied")
    /\ Update(k, [photo |-> [Mem(k).photo EXCEPT !.object = calls[k].object]],
              Either(End("product")))

\* "Yes", and the questions or the generation that follow.
ApproveProduct(k) ==
    /\ At(k, "approve")
    /\ \E q \in {"NONE", "MISSING_INFO"} :
          Update(k, [awaiting |-> FALSE], [ok \in BOOLEAN |-> End(IF ok THEN q ELSE "NONE")])

\* Mutant: the photo goes, but the confirmation is still awaited.
RejectProductAwaiting(k) ==
    /\ At(k, "reject")
    /\ Update(k, [photo |-> NoPhoto], Either(End("NONE")))

\* "No": the photo goes.
RejectProduct(k) ==
    /\ At(k, "reject")
    /\ Update(k, [awaiting |-> FALSE, photo |-> NoPhoto], Either(End("NONE")))

-----------------------------------------------------------------------------
\* Failures

\* What a call waits for that another has locked.
WaitsForDraft(k) == calls[k].pc \notin {"idle", "mark", "end"} /\ tx.by \notin {Nobody, k}
WaitsForSession(k) == calls[k].pc \in {"mark", "end"} /\ lock \notin {Nobody, k}

\* Two calls each of which has locked what the other waits for.
Deadlocked(j, k) ==
    /\ lock = j /\ WaitsForDraft(j)
    /\ tx.by = k /\ WaitsForSession(k)

\* A call raises, or its instance dies: its transaction is rolled back.
Fail(k) ==
    /\ tx' = IF tx.by = k THEN NoTx ELSE tx
    /\ lock' = IF lock = k THEN Nobody ELSE lock
    /\ calls' = [calls EXCEPT ![k] = IdleCall]
    /\ aborts' = aborts + 1
    /\ UNCHANGED <<row, question, store, stored, notices, forgotten, received, strained, blind>>

\* The database ends a deadlock: one of the calls raises.
ResolveDeadlock(k) == (\E j \in Workers : Deadlocked(j, k) \/ Deadlocked(k, j)) /\ Fail(k)

Abort(k) == calls[k].pc # "idle" /\ aborts < MaxAborts /\ Fail(k)

-----------------------------------------------------------------------------
TextSteps(k) ==
    \/ DecideType(k) \/ MarkQuestion(k) \/ ExtractFields(k) \/ ResolveProduct(k)
    \/ Discover(k) \/ Settle(k)
PhotoSteps(k) == IngestPhoto(k) \/ StorePhoto(k) \/ FirstPhoto(k)
BarcodeSteps(k) == EnterBarcode(k) \/ LookUpBarcode(k)
ProductSteps(k) == ShowProduct(k) \/ StoreCopy(k) \/ ApproveProduct(k) \/ RejectProduct(k)

\* Every message is handled and the operator sends no other.
Rest ==
    /\ received = MaxMsgs
    /\ \A k \in Workers : At(k, "idle")
    /\ UNCHANGED vars

Next ==
    \/ \E k \in Workers :
          \/ Receive(k) \/ AnswerQuestion(k) \/ TextSteps(k) \/ PhotoSteps(k)
          \/ BarcodeSteps(k) \/ ProductSteps(k)
          \/ Commit(k) \/ ResolveDeadlock(k) \/ Abort(k)
    \/ Rest

Spec == Init /\ [][Next]_vars

-----------------------------------------------------------------------------
\* Types

Photos == [from : Origins, object : Nat]
DraftRows ==
    [version : Nat \ {0}, type : Types, name : Origins, photo : Photos,
     ean : BOOLEAN, awaiting : BOOLEAN, notified : BOOLEAN]
Calls ==
    [pc : {"idle", "end", "type", "mark", "fields", "resolve", "barcode", "lookup", "discover",
           "settle", "ingest", "store", "first", "prompt", "copied", "approve", "reject", "answer"},
     kind : Kinds, asked : [type : Questions, photo : Photos], mem : DraftRows,
     first : BOOLEAN, type : Types, ean : BOOLEAN, replied : BOOLEAN, notice : BOOLEAN,
     object : 0..store, before : Photos, writes : {"none", "accepted", "refused", "torn"},
     q : {"keep", "product"} \union Questions]

TypeOK ==
    /\ row \in DraftRows
    /\ tx \in [by : Workers \union {Nobody}, row : DraftRows, forgot : BOOLEAN]
    /\ question \in [type : Questions, photo : Photos]
    /\ lock \in Workers \union {Nobody}
    /\ calls \in [Workers -> Calls]
    /\ store \in Nat /\ stored \subseteq 1..store
    /\ notices \in Nat /\ forgotten \in Nat /\ received \in 0..MaxMsgs
    /\ strained \in Nat /\ blind \in BOOLEAN /\ aborts \in Nat

-----------------------------------------------------------------------------
\* Properties

\* A call one of whose updates was accepted has the row of the draft locked
\* until it commits: all its later updates are accepted. "This draft was
\* already changed" is never said of half a change.
FirstWriteDecides == \A k \in Workers : calls[k].writes # "torn"

\* The order of locks, draft before session, holds for a call whose updates
\* are accepted. Only one whose update was refused has the session without
\* the draft and can deadlock with another call.
LockOrder == \A j, k \in Workers : Deadlocked(j, k) => Strained(j)

\* "never overwrite an operator-uploaded photo", and "the operator's
\* explicitly provided values always take precedence": what the operator gave
\* is replaced only by what the operator gives or refuses, unless the call had
\* an update refused and went on with a copy that is not the row.
OperatorValuesKept ==
    [][LET Writer(k) == tx.by = k /\ row' = tx.row
       IN  \/ \E k \in Workers : Writer(k) /\ Strained(k)
           \/ /\ row.name = "operator" => row'.name = "operator"
              /\ row.photo.from = "operator" =>
                    \/ row'.photo.from = "operator"
                    \/ \E k \in Workers : Writer(k) /\ calls[k].kind = "reject"]_vars

\* Every object in the media store has been the photo of the draft, or a call
\* is about to make it that, or its call failed or was refused an update.
UploadsAccounted ==
    LET held == {calls[k].object : k \in Workers}
    IN  Cardinality((1..store) \ (stored \union held)) <= strained + aborts

\* "Notify enrichment-unavailable at most once per draft." A product that was
\* found lets the draft forget the notice.
NoticeOnce == notices <= 1

\* Every notice of an unknown bar code has its reason: it is the first, or the
\* first since a product was found, or the call that sends it had an update
\* refused, perhaps the one that was to remember it. Calls that overlap do
\* not say twice what one of them committed.
NoticesExplained == notices <= 1 + forgotten + strained

\* A product waits for confirmation if and only if the operator is asked
\* about it, and what is asked about is the photo of the draft or one that the
\* operator has replaced by another; as long as no call lost an update, or
\* changed the question without an update that would have been refused.
AskedIsStored ==
    strained = 0 /\ ~blind =>
        /\ row.awaiting <=> question.type = "PRODUCT_CONFIRMATION"
        /\ question.type = "PRODUCT_CONFIRMATION" =>
              \/ question.photo = row.photo /\ row.photo # NoPhoto
              \/ row.photo.from = "operator"

\* Whatever the search of a resolution returns, the loop of select_best finds
\* the first of the usable candidates with the highest score, if that reaches
\* the minimum. It depends on nothing else, so it is checked once, before the
\* first message.
SelectionIsBest ==
    received = 0 =>
        \A found \in Found :
            LET good == {i \in DOMAIN found : found[i].usable /\ found[i].score >= MinimumScore}
                best == SelectBest(found)
            IN  IF good = {} THEN best = NoCandidate
                ELSE /\ best \in good
                     /\ \A i \in good : \/ found[i].score < found[best].score
                                        \/ found[i].score = found[best].score /\ best <= i

=============================================================================
