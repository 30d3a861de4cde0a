------------------------- MODULE ProductLookupProofs -------------------------
(***************************************************************************)
(* Proofs about ProductLookup, for any number of overlapping calls,        *)
(* messages and failures.                                                  *)
(***************************************************************************)
EXTENDS ProductLookup, FiniteSetTheorems, Induction, TLAPS

USE WorkersAssumption, NumbersAssumption

-----------------------------------------------------------------------------
\* The inductive invariant: what a call is at each of its steps

\* The kinds of messages that take a step, the question they answer, and what
\* has become of the updates of the call by then.
Flow(c) ==
    /\ c.pc \in {"type", "mark", "fields", "discover", "settle"} =>
          c.kind \in {"create", "regenerate"}
    /\ c.pc \in {"resolve", "copied"} => c.kind = "create"
    /\ c.pc = "answer" => c.kind \in {"regenerate", "barcode"}
    /\ c.pc = "type" /\ c.kind = "create" => c.writes = "none"
    /\ c.pc \in {"barcode", "lookup"} => c.kind \in {"create", "regenerate", "barcode", "photo"}
    /\ c.pc \in {"ingest", "store", "first"} => c.kind = "photo"
    /\ c.pc = "prompt" => c.kind \in {"create", "photo"}
    /\ c.pc = "approve" => c.kind = "approve"
    /\ c.pc = "reject" => c.kind = "reject"
    /\ c.kind \in {"create", "regenerate"} => c.asked.type # "PRODUCT_CONFIRMATION"
    /\ c.pc = "answer" => c.asked.type = "MISSING_INFO"
    /\ c.kind = "barcode" \/ c.pc = "type" =>
          c.q = "keep" \/ (c.q = "NONE" /\ c.asked.type = "MISSING_INFO")
    /\ c.kind \in {"approve", "reject"} => c.asked.type = "PRODUCT_CONFIRMATION"
    /\ c.pc \in {"idle", "answer", "ingest", "store", "approve", "reject"} => c.writes = "none"
    /\ c.pc \in {"mark", "fields", "resolve", "discover", "settle", "first", "prompt", "copied"} =>
          c.writes # "none"
    /\ c.pc \in {"barcode", "lookup"} /\ c.kind # "barcode" => c.writes # "none"
    /\ c.pc \in {"barcode", "lookup"} /\ c.kind = "photo" => c.writes = "accepted"
    /\ c.pc \in {"fields", "resolve"} => ~c.replied
    /\ c.notice => /\ c.pc \in {"first", "discover", "settle", "prompt", "copied", "end"}
                   /\ c.writes # "none"
    /\ c.writes # "torn"

\* The object a call has uploaded becomes the photo of its draft, unless an
\* update of the call is refused.
Placed(c) == c.object # NoObject /\ c.mem.photo.object = c.object
Objects(c) ==
    /\ c.kind # "photo" /\ c.pc \notin {"copied", "end"} => c.object = NoObject
    /\ c.pc \in {"idle", "ingest"} => c.object = NoObject
    /\ c.pc \in {"ingest", "store"} => c.mem.photo = c.before
    /\ c.pc \in {"store", "copied"} => c.object # NoObject
    /\ c.kind = "photo" /\ c.pc \in {"barcode", "lookup", "prompt"} => Placed(c)
    /\ c.pc = "first" => \/ Placed(c)
                         \/ c.mem.photo = c.before /\ c.writes # "accepted"
    /\ c.pc = "end" => \/ c.object = NoObject
                       \/ Placed(c) /\ c.writes # "none"
                       \/ c.writes \in {"refused", "torn"}

\* No call lost an update, or changed the question without one.
Clean == strained = 0 /\ ~blind

\* A draft waits for a confirmation if and only if a question asks for it.
Awaited(r, q) ==
    /\ r.awaiting <=> q.type = "PRODUCT_CONFIRMATION"
    /\ q.type = "PRODUCT_CONFIRMATION" =>
          \/ q.photo = r.photo /\ r.photo # NoPhoto
          \/ r.photo.from = "operator"

\* The question that a call leaves.
LeftBy(c) ==
    CASE c.q = "keep" -> c.asked
      [] c.q = "product" -> [type |-> "PRODUCT_CONFIRMATION", photo |-> c.mem.photo]
      [] OTHER -> Asking(c.q)

\* How the draft of a call comes to wait for a confirmation, and the call to
\* ask for it.
AwaitFlow(c) ==
    /\ c.pc # "idle" /\ c.writes = "none" => Awaited(c.mem, c.asked)
    /\ c.writes = "accepted" =>
          /\ c.kind = "regenerate" => ~c.mem.awaiting
          /\ c.kind = "barcode" => Awaited(c.mem, c.asked)
          /\ c.pc \in {"mark", "fields", "resolve"} => ~c.mem.awaiting
          /\ c.pc = "mark" => c.mem.type = c.type
          /\ c.kind = "create" /\ c.pc \in {"fields", "resolve", "barcode", "lookup",
                                            "discover", "settle"} =>
                /\ c.mem.type = "SINGLE"
                /\ c.mem.awaiting => c.mem.photo # NoPhoto /\ ~c.replied
          /\ c.pc \in {"prompt", "copied"} => c.mem.awaiting /\ c.mem.photo # NoPhoto
          /\ c.kind = "photo" /\ c.pc \in {"barcode", "lookup", "first"} =>
                /\ c.mem.photo.from = "operator"
                /\ c.mem.awaiting <=> c.asked.type = "PRODUCT_CONFIRMATION"
          /\ c.pc = "end" => Awaited(c.mem, LeftBy(c))

-----------------------------------------------------------------------------
\* The inductive invariant: calls, row and transaction

\* Photos are objects that have been uploaded.
PhotosStored ==
    /\ row.photo.object \in 0..store /\ tx.row.photo.object \in 0..store
    /\ \A k \in Workers : calls[k].mem.photo.object \in 0..store

\* The copy of a call that has not written is no newer than the row, and the
\* row as long as it has its version; then the question is still the one that
\* the call was received with, too. The copy of a call that writes is the row
\* of its transaction.
Copied(k) ==
    /\ calls[k].writes = "none" =>
          /\ tx.by # k /\ lock # k
          /\ calls[k].pc # "idle" =>
                /\ Mem(k).version <= row.version
                /\ Mem(k).version = row.version =>
                      Mem(k) = row /\ (Clean => calls[k].asked = question)
    /\ calls[k].writes = "accepted" =>
          /\ tx.by = k /\ Mem(k) = tx.row
          /\ Clean => calls[k].asked = question

\* What a transaction does to the row: a new version, no value of the
\* operator lost, and no notice without a reason.
TxInv ==
    /\ tx.by = Nobody => tx = NoTx
    /\ tx.by # Nobody => row.version < tx.row.version
    /\ tx.by # Nobody /\ row.notified /\ ~tx.row.notified => tx.forgot
    /\ \A k \in Workers : tx.by = k /\ calls[k].writes = "accepted" =>
          /\ row.name = "operator" => tx.row.name = "operator"
          /\ row.photo.from = "operator" =>
                tx.row.photo.from = "operator" \/ calls[k].kind = "reject"
          /\ calls[k].notice => tx.row.notified /\ (tx.forgot \/ ~row.notified)

\* The objects that no row has named and no call holds.
Unplaced == (1..store) \ (stored \union {calls[k].object : k \in Workers})

LossInv == IsFiniteSet(Unplaced) /\ Cardinality(Unplaced) <= strained + aborts

\* A draft that does not know of a notice has one to come without a reason.
NoticeInv == notices + (IF row.notified THEN 0 ELSE 1) <= 1 + forgotten + strained

IInv ==
    /\ TypeOK /\ PhotosStored /\ TxInv /\ LossInv /\ NoticeInv
    /\ \A k \in Workers : Flow(calls[k]) /\ Objects(calls[k]) /\ Copied(k)
    /\ Clean =>
          /\ Awaited(row, question)
          /\ \A k \in Workers : AwaitFlow(calls[k])

-----------------------------------------------------------------------------
\* Changed rows and calls

Pcs == {"idle", "end", "type", "mark", "fields", "resolve", "barcode", "lookup", "discover",
        "settle", "ingest", "store", "first", "prompt", "copied", "approve", "reject", "answer"}
Writes == {"none", "accepted", "refused", "torn"}
Leaves == {"keep", "product"} \union Questions
Asked == [type : Questions, photo : Photos]
CallsIn(n) ==
    [pc : Pcs, kind : Kinds, asked : Asked, mem : DraftRows, first : BOOLEAN, type : Types,
     ean : BOOLEAN, replied : BOOLEAN, notice : BOOLEAN, object : 0..n, before : Photos,
     writes : Writes, q : Leaves]

\* The fields that an update may change.
FieldSets(f) ==
    /\ DOMAIN f \subseteq {"type", "name", "photo", "ean", "awaiting", "notified"}
    /\ "type" \in DOMAIN f => f["type"] \in Types
    /\ "name" \in DOMAIN f => f["name"] \in Origins
    /\ "photo" \in DOMAIN f => f["photo"] \in Photos
    /\ "ean" \in DOMAIN f => f["ean"] \in BOOLEAN
    /\ "awaiting" \in DOMAIN f => f["awaiting"] \in BOOLEAN
    /\ "notified" \in DOMAIN f => f["notified"] \in BOOLEAN

\* A row after an update that is accepted.
Written(r, f) == [With(r, f) EXCEPT !.version = r.version + 1]

\* A field of a row with others is the other one, if there is one.
FieldOf(r, f, x) == IF x \in DOMAIN f THEN f[x] ELSE r[x]

\* An update that is accepted gives the row the fields it names.
LEMMA WrittenRow ==
    ASSUME NEW r \in DraftRows, NEW f, FieldSets(f)
    PROVE  /\ Written(r, f) \in DraftRows
           /\ Written(r, f).version = r.version + 1
           /\ Written(r, f).type = FieldOf(r, f, "type")
           /\ Written(r, f).name = FieldOf(r, f, "name")
           /\ Written(r, f).photo = FieldOf(r, f, "photo")
           /\ Written(r, f).ean = FieldOf(r, f, "ean")
           /\ Written(r, f).awaiting = FieldOf(r, f, "awaiting")
           /\ Written(r, f).notified = FieldOf(r, f, "notified")
<1> DEFINE Names == {"version", "type", "name", "photo", "ean", "awaiting", "notified"}
<1>1. DOMAIN r = Names
  BY DEF DraftRows
<1>2. PICK s : s = With(r, f)
  OBVIOUS
<1>3. s = [x \in Names |-> FieldOf(r, f, x)]
  BY <1>1, <1>2 DEF With, FieldOf
<1>4. /\ r.version \in Nat \ {0} /\ r["type"] \in Types /\ r["name"] \in Origins
      /\ r["photo"] \in Photos /\ r["ean"] \in BOOLEAN /\ r["awaiting"] \in BOOLEAN
      /\ r["notified"] \in BOOLEAN
  BY DEF DraftRows
<1>5. /\ s["type"] = FieldOf(r, f, "type") /\ s["name"] = FieldOf(r, f, "name")
      /\ s["photo"] = FieldOf(r, f, "photo") /\ s["ean"] = FieldOf(r, f, "ean")
      /\ s["awaiting"] = FieldOf(r, f, "awaiting") /\ s["notified"] = FieldOf(r, f, "notified")
      /\ s["version"] = r.version
  BY <1>3 DEF FieldSets, FieldOf
<1>6. /\ s["type"] \in Types /\ s["name"] \in Origins
      /\ s["photo"] \in Photos /\ s["ean"] \in BOOLEAN /\ s["awaiting"] \in BOOLEAN
      /\ s["notified"] \in BOOLEAN
  BY <1>4, <1>5 DEF FieldSets, FieldOf
<1>7. PICK v : v = r.version + 1
  OBVIOUS
<1>8. v \in Nat \ {0}
  BY <1>4, <1>7
<1>9. [s EXCEPT !.version = v] \in DraftRows
  BY <1>3, <1>6, <1>8 DEF DraftRows
<1>10. PICK w : w = [s EXCEPT !.version = v]
  OBVIOUS
<1>11. /\ w["type"] = s["type"] /\ w["name"] = s["name"] /\ w["photo"] = s["photo"]
       /\ w["ean"] = s["ean"] /\ w["awaiting"] = s["awaiting"] /\ w["notified"] = s["notified"]
       /\ w["version"] = v
  BY <1>3, <1>10
<1>12. Written(r, f) = w
  BY <1>2, <1>7, <1>10 DEF Written
<1>13. QED
  BY <1>5, <1>7, <1>9, <1>10, <1>11, <1>12

\* What does not change but when a message is received.
Same(d, c) ==
    /\ d.kind = c.kind /\ d.asked = c.asked /\ d.first = c.first /\ d.before = c.before
    /\ d.object = c.object

\* The fields of a call that a step names.
CallFields(x) ==
    /\ DOMAIN x \subseteq {"pc", "type", "ean", "replied", "notice", "q"}
    /\ "pc" \in DOMAIN x => x["pc"] \in Pcs
    /\ "type" \in DOMAIN x => x["type"] \in Types
    /\ "ean" \in DOMAIN x => x["ean"] \in BOOLEAN
    /\ "replied" \in DOMAIN x => x["replied"] \in BOOLEAN
    /\ "notice" \in DOMAIN x => x["notice"] \in BOOLEAN
    /\ "q" \in DOMAIN x => x["q"] \in Leaves

\* A step of a call changes the fields it names.
LEMMA WithCall ==
    ASSUME NEW n, NEW b \in CallsIn(n), NEW x, CallFields(x), NEW d, d = With(b, x)
    PROVE  /\ d \in CallsIn(n)
           /\ Same(d, b) /\ d.mem = b.mem /\ d.writes = b.writes
           /\ d.pc = FieldOf(b, x, "pc") /\ d.type = FieldOf(b, x, "type")
           /\ d.ean = FieldOf(b, x, "ean") /\ d.replied = FieldOf(b, x, "replied")
           /\ d.notice = FieldOf(b, x, "notice") /\ d.q = FieldOf(b, x, "q")
<1> DEFINE Names == {"pc", "kind", "asked", "mem", "first", "type", "ean", "replied", "notice",
                     "object", "before", "writes", "q"}
<1>1. DOMAIN b = Names
  BY DEF CallsIn
<1>2. d = [y \in Names |-> FieldOf(b, x, y)]
  BY <1>1 DEF With, FieldOf
<1>3. /\ b["pc"] \in Pcs /\ b["kind"] \in Kinds /\ b["asked"] \in Asked
      /\ b["mem"] \in DraftRows /\ b["first"] \in BOOLEAN /\ b["type"] \in Types
      /\ b["ean"] \in BOOLEAN /\ b["replied"] \in BOOLEAN /\ b["notice"] \in BOOLEAN
      /\ b["object"] \in 0..n /\ b["before"] \in Photos /\ b["writes"] \in Writes
      /\ b["q"] \in Leaves
  BY DEF CallsIn
<1>4. /\ d["pc"] = FieldOf(b, x, "pc") /\ d["type"] = FieldOf(b, x, "type")
      /\ d["ean"] = FieldOf(b, x, "ean") /\ d["replied"] = FieldOf(b, x, "replied")
      /\ d["notice"] = FieldOf(b, x, "notice") /\ d["q"] = FieldOf(b, x, "q")
      /\ d["kind"] = b["kind"] /\ d["asked"] = b["asked"] /\ d["mem"] = b["mem"]
      /\ d["first"] = b["first"] /\ d["object"] = b["object"] /\ d["before"] = b["before"]
      /\ d["writes"] = b["writes"]
  BY <1>2 DEF CallFields, FieldOf
<1>5. /\ d["pc"] \in Pcs /\ d["type"] \in Types /\ d["ean"] \in BOOLEAN
      /\ d["replied"] \in BOOLEAN /\ d["notice"] \in BOOLEAN /\ d["q"] \in Leaves
  BY <1>3, <1>4 DEF CallFields, FieldOf
<1>6. d \in CallsIn(n)
  BY <1>2, <1>3, <1>4, <1>5 DEF CallsIn
<1>7. QED
  BY <1>4, <1>6 DEF Same

-----------------------------------------------------------------------------
\* Steps of a call

ByFields(d, c, x) ==
    /\ d.pc = FieldOf(c, x, "pc") /\ d.type = FieldOf(c, x, "type")
    /\ d.ean = FieldOf(c, x, "ean") /\ d.replied = FieldOf(c, x, "replied")
    /\ d.notice = FieldOf(c, x, "notice") /\ d.q = FieldOf(c, x, "q")

\* A step that touches nothing but the call, an update that is accepted, and
\* one that is refused.
Went(c, d, x) == Same(d, c) /\ ByFields(d, c, x) /\ d.mem = c.mem /\ d.writes = c.writes
Accepted(c, d, f, x) ==
    /\ Same(d, c) /\ ByFields(d, c, x) /\ d.mem = Written(c.mem, f)
    /\ d.writes = IF c.writes = "none" THEN "accepted" ELSE c.writes
Refused(c, d, f, x) ==
    /\ Same(d, c) /\ ByFields(d, c, x) /\ d.mem \in {c.mem, Written(c.mem, f)}
    /\ c.writes # "accepted" /\ d.writes = "refused"

\* What the invariant says of a call alone.
Sound(c) == Flow(c) /\ Objects(c) /\ (Clean => AwaitFlow(c))

Txs == [by : Workers \union {Nobody}, row : DraftRows, forgot : BOOLEAN]

\* The types, as the proofs use them.
LEMMA Typed ==
    ASSUME IInv
    PROVE  /\ row \in DraftRows /\ tx \in Txs /\ store \in Nat
           /\ calls \in [Workers -> CallsIn(store)]
           /\ question \in Asked /\ lock \in Workers \union {Nobody}
           /\ stored \subseteq 1..store /\ notices \in Nat /\ strained \in Nat /\ aborts \in Nat
           /\ received \in 0..MaxMsgs /\ forgotten \in Nat /\ blind \in BOOLEAN
           /\ Nobody \notin Workers
           /\ \A k \in Workers : calls[k] \in CallsIn(store) /\ Sound(calls[k]) /\ Copied(k)
           /\ TxInv /\ LossInv /\ NoticeInv /\ PhotosStored /\ TypeOK
<1>1. calls \in [Workers -> CallsIn(store)]
  BY DEF IInv, TypeOK, Calls, CallsIn, Pcs, Writes, Leaves, Asked
<1>2. /\ row \in DraftRows /\ tx \in Txs /\ store \in Nat
      /\ question \in Asked /\ lock \in Workers \union {Nobody}
      /\ stored \subseteq 1..store /\ notices \in Nat /\ strained \in Nat /\ aborts \in Nat
      /\ received \in 0..MaxMsgs /\ forgotten \in Nat /\ blind \in BOOLEAN
  BY DEF IInv, TypeOK, Txs, Asked
<1>3. \A k \in Workers : Sound(calls[k]) /\ Copied(k)
  BY DEF IInv, Sound
<1>4. QED
  BY <1>1, <1>2, <1>3 DEF IInv, WorkersAssumption

\* What the steps before the commit leave alone.
Untouched ==
    <<row, question, store, stored, notices, forgotten, received, strained, blind, aborts>>

\* A step of one call that leaves the row, the session and the store alone.
LEMMA CallInv ==
    ASSUME IInv, NEW k \in Workers, NEW d \in CallsIn(store),
           calls' = [calls EXCEPT ![k] = d], d.object = calls[k].object, Sound(d),
           UNCHANGED Untouched,
           lock' = lock \/ (lock' = k /\ d.writes # "none"),
           NEW t \in Txs, tx' = t, t = tx \/ (tx.by \in {Nobody, k} /\ t.by = k),
           d.mem.photo.object \in 0..store, t.row.photo.object \in 0..store,
           TxInv', Copied(k)'
    PROVE  IInv'
<1>1. calls' \in [Workers -> CallsIn(store)] /\ calls'[k] = d
      /\ \A j \in Workers : j # k => calls'[j] = calls[j]
  BY Typed
<1>2. TypeOK'
  <2>1. lock' \in Workers \union {Nobody} /\ tx' \in Txs /\ calls' \in [Workers -> CallsIn(store)']
    BY <1>1, Typed DEF Untouched
  <2>2. TypeOK
    BY Typed
  <2>3. QED
    BY <2>1, <2>2 DEF Untouched, TypeOK, Txs, Calls, CallsIn, Pcs, Writes, Leaves, Asked
<1>3. PhotosStored'
  BY <1>1, Typed DEF PhotosStored, Untouched
<1>4. LossInv'
  <2>1. \A j \in Workers : calls'[j].object = calls[j].object
    BY <1>1
  <2>2. Unplaced' = Unplaced
    BY <2>1 DEF Unplaced, Untouched
  <2>3. QED
    BY <2>2, Typed DEF LossInv, Untouched
<1>5. NoticeInv'
  BY Typed DEF NoticeInv, Untouched
<1>6. ASSUME NEW j \in Workers PROVE Flow(calls'[j]) /\ Objects(calls'[j])
  BY <1>1, Typed DEF Sound
<1>7. ASSUME NEW j \in Workers PROVE Copied(j)'
  <2>1. CASE j = k
    BY <2>1
  <2>2. CASE j # k
    <3>1. calls'[j] = calls[j] /\ Copied(j) /\ Nobody \notin Workers
      BY <1>1, <2>2, Typed
    <3>2. calls[j].writes = "none" => tx'.by # j /\ lock' # j
      BY <2>2, <3>1 DEF Copied
    <3>3. calls[j].writes = "accepted" => tx' = tx
      BY <2>2, <3>1 DEF Copied
    <3>4. QED
      BY <3>1, <3>2, <3>3 DEF Copied, Mem, Clean, Untouched
  <2>3. QED
    BY <2>1, <2>2
<1>8. ASSUME Clean'
      PROVE  Awaited(row', question') /\ \A j \in Workers : AwaitFlow(calls'[j])
  <2>1. Clean
    BY <1>8 DEF Clean, Untouched
  <2>2. Awaited(row, question) /\ \A j \in Workers : AwaitFlow(calls[j])
    BY <2>1 DEF IInv
  <2>3. AwaitFlow(d)
    BY <2>1 DEF Sound
  <2>4. QED
    BY <1>1, <2>2, <2>3 DEF Untouched
<1>9. QED
  BY <1>2, <1>3, <1>4, <1>5, <1>6, <1>7, <1>8 DEF IInv

\* A step that touches nothing but the call.
LEMMA GoInv ==
    ASSUME IInv, NEW k \in Workers, NEW x, CallFields(x), calls[k].pc # "idle",
           calls' = [calls EXCEPT ![k] = With(@, x)], UNCHANGED tx, UNCHANGED Untouched,
           lock' = lock \/ (lock' = k /\ calls[k].writes # "none"),
           "notice" \notin DOMAIN x,
           \A d : Went(calls[k], d, x) => Sound(d)
    PROVE  IInv'
<1>1. PICK c : c = calls[k]
  OBVIOUS
<1>2. c \in CallsIn(store) /\ Sound(c) /\ Copied(k)
  BY <1>1, Typed
<1>3. PICK d : d = With(c, x)
  OBVIOUS
<1>4. d \in CallsIn(store) /\ Went(c, d, x)
  BY <1>2, <1>3, WithCall DEF Went, ByFields
<1>5. calls' = [calls EXCEPT ![k] = d] /\ calls'[k] = d
  BY <1>1, <1>3, Typed
<1>6. /\ Sound(d) /\ Same(d, c) /\ d.mem = c.mem /\ d.writes = c.writes
      /\ d.notice = c.notice
  BY <1>1, <1>4 DEF Went, ByFields, FieldOf
<1>7. Copied(k)'
  <2>1. c.pc # "idle" /\ (c.writes = "none" => lock' # k)
    BY <1>1, <1>2 DEF Copied
  <2>2. QED
    BY <1>1, <1>2, <1>5, <1>6, <2>1 DEF Copied, Mem, Same, Clean, Untouched
<1>8. TxInv'
  <2>1. \A j \in Workers : /\ calls'[j].notice = calls[j].notice
                           /\ calls'[j].writes = calls[j].writes
                           /\ calls'[j].kind = calls[j].kind
    BY <1>1, <1>5, <1>6, Typed DEF Same
  <2>2. TxInv
    BY Typed
  <2>3. QED
    BY <2>1, <2>2 DEF TxInv, Untouched
<1>9. PICK t : t = tx
  OBVIOUS
<1>10. /\ t \in Txs /\ tx' = t /\ t.row.photo.object \in 0..store
       /\ c.mem.photo.object \in 0..store
  BY <1>1, <1>9, Typed DEF PhotosStored
<1>11. QED
  BY <1>1, <1>4, <1>5, <1>6, <1>7, <1>8, <1>9, <1>10, CallInv DEF Same, Untouched

\* An update that is refused: the copy may change, the transaction does not.
LEMMA RefuseInv ==
    ASSUME IInv, NEW k \in Workers, NEW f, FieldSets(f),
           "photo" \in DOMAIN f => f["photo"].object \in 0..store,
           NEW x, NEW d \in CallsIn(store), Refused(calls[k], d, f, x),
           calls' = [calls EXCEPT ![k] = d], UNCHANGED <<tx, lock>>, UNCHANGED Untouched, Sound(d)
    PROVE  IInv'
<1>1. PICK c : c = calls[k]
  OBVIOUS
<1>2. c \in CallsIn(store) /\ c.mem \in DraftRows /\ c.mem.photo.object \in 0..store
  <2>1. c \in CallsIn(store) /\ c.mem.photo.object \in 0..store
    BY <1>1, Typed DEF PhotosStored
  <2>2. QED
    BY <2>1 DEF CallsIn
<1>3. d.mem.photo.object \in 0..store
  <2>1. Written(c.mem, f).photo = FieldOf(c.mem, f, "photo")
    BY <1>2, WrittenRow
  <2>2. QED
    BY <1>1, <1>2, <2>1 DEF Refused, FieldOf
<1>4. calls'[k] = d /\ d.writes = "refused" /\ Same(d, c) /\ c.writes # "accepted"
  BY <1>1, Typed DEF Refused
<1>5. Copied(k)'
  BY <1>4 DEF Copied
<1>6. TxInv'
  <2>1. \A j \in Workers : calls'[j] = calls[j] \/ (j = k /\ calls'[j].writes # "accepted")
    BY <1>4, Typed
  <2>2. TxInv
    BY Typed
  <2>3. QED
    BY <2>1, <2>2 DEF TxInv, Untouched
<1>7. PICK t : t = tx
  OBVIOUS
<1>8. t \in Txs /\ tx' = t /\ t.row.photo.object \in 0..store
  BY <1>7, Typed DEF PhotosStored
<1>9. QED
  BY <1>1, <1>3, <1>4, <1>5, <1>6, <1>7, <1>8, CallInv DEF Same, Untouched

\* What an update may do to the values of the operator and to the flag.
Fair(c, f) ==
    /\ "name" \in DOMAIN f => f["name"] = "operator" \/ c.mem.name # "operator"
    /\ "photo" \in DOMAIN f => \/ f["photo"].from = "operator"
                               \/ c.mem.photo.from # "operator"
                               \/ c.kind = "reject"
Tells(c, d, f) ==
    d.notice => \/ c.notice /\ "notified" \notin DOMAIN f
                \/ "notified" \in DOMAIN f /\ f["notified"] /\ ~c.mem.notified

\* An update that is accepted: the row of the transaction is the one that the
\* call has seen and changed.
LEMMA AcceptInv ==
    ASSUME IInv, NEW k \in Workers, calls[k].pc # "idle", NEW f, FieldSets(f),
           "photo" \in DOMAIN f => f["photo"].object \in 0..store,
           NEW x, NEW d \in CallsIn(store), Accepted(calls[k], d, f, x),
           NEW r, r = IF tx.by = k THEN tx.row ELSE row, Mem(k).version = r.version,
           tx.by \in {Nobody, k},
           tx' = [by |-> k, row |-> Written(r, f),
                  forgot |-> tx.forgot \/ (Forgets(f) /\ r.notified)],
           calls' = [calls EXCEPT ![k] = d], UNCHANGED lock, UNCHANGED Untouched, Sound(d),
           Fair(calls[k], f), Tells(calls[k], d, f)
    PROVE  IInv'
<1>1. PICK c : c = calls[k]
  OBVIOUS
<1>2. /\ c \in CallsIn(store) /\ Copied(k) /\ c.mem \in DraftRows
      /\ tx \in Txs /\ TxInv /\ k # Nobody /\ c.writes \in Writes /\ c.writes # "torn"
  <2>1. /\ c \in CallsIn(store) /\ Copied(k) /\ tx \in Txs /\ TxInv /\ k # Nobody /\ Flow(c)
    BY <1>1, Typed DEF Sound
  <2>2. QED
    BY <2>1 DEF CallsIn, Flow
<1>3. r \in DraftRows /\ r.photo.object \in 0..store
  BY Typed DEF Txs, PhotosStored
<1>4. c.writes \in {"none", "accepted"} => c.mem = r
  BY <1>1, <1>2 DEF Copied, Mem
<1>5. PICK w : w = Written(r, f)
  OBVIOUS
<1>6. /\ w \in DraftRows /\ w.version = r.version + 1
      /\ w.name = FieldOf(r, f, "name") /\ w.photo = FieldOf(r, f, "photo")
      /\ w.notified = FieldOf(r, f, "notified")
      /\ Written(c.mem, f).photo = FieldOf(c.mem, f, "photo")
      /\ c.mem.photo.object \in 0..store
  BY <1>1, <1>2, <1>3, <1>5, Typed, WrittenRow DEF PhotosStored
<1>7. /\ calls'[k] = d /\ Same(d, c) /\ d.mem = Written(c.mem, f)
      /\ d.writes \in {"accepted", "refused"}
      /\ d.writes = "accepted" => c.writes \in {"none", "accepted"} /\ c.mem = r /\ d.mem = w
      /\ \A j \in Workers : j # k => calls'[j] = calls[j]
  BY <1>1, <1>2, <1>4, <1>5, Typed DEF Accepted, Writes
<1>8. PICK b \in BOOLEAN : b = (tx.forgot \/ (Forgets(f) /\ r.notified))
  OBVIOUS
<1>9. PICK t : t = [by |-> k, row |-> w, forgot |-> b]
  OBVIOUS
<1>10. t \in Txs /\ tx' = t /\ t.by = k /\ t.row = w /\ t.forgot = b
  BY <1>5, <1>6, <1>8, <1>9 DEF Txs
<1>11. d.mem.photo.object \in 0..store /\ w.photo.object \in 0..store
  BY <1>3, <1>6, <1>7 DEF FieldOf
<1>12. Copied(k)'
  <2>1. d.writes = "accepted" /\ Clean => d.asked = question
    BY <1>1, <1>2, <1>4, <1>7 DEF Copied, Same, Mem
  <2>2. QED
    BY <1>7, <1>10, <2>1 DEF Copied, Mem, Clean, Untouched
<1>13. TxInv'
  <2>1. row.version < w.version
    BY <1>2, <1>3, <1>6, Typed DEF TxInv, DraftRows
  <2>2. row.notified /\ ~w.notified => b
    <3>1. CASE tx.by = k
      BY <1>2, <1>3, <1>6, <1>8, <3>1 DEF TxInv, FieldOf, Forgets, FieldSets
    <3>2. CASE tx.by # k
      BY <1>2, <1>3, <1>6, <1>8, <3>2 DEF TxInv, FieldOf, Forgets, FieldSets
    <3>3. QED
      BY <3>1, <3>2
  <2>3. ASSUME d.writes = "accepted"
        PROVE  /\ row.name = "operator" => w.name = "operator"
               /\ row.photo.from = "operator" => w.photo.from = "operator" \/ d.kind = "reject"
               /\ d.notice => w.notified /\ (b \/ ~row.notified)
    <3>1. c.mem = r /\ (c.writes = "accepted" \/ r = row) /\ (c.writes = "accepted" => tx.by = k)
      BY <1>1, <1>2, <1>7, <2>3 DEF Copied, Mem
    <3>2. /\ row.name = "operator" => r.name = "operator"
          /\ row.photo.from = "operator" => r.photo.from = "operator" \/ c.kind = "reject"
          /\ c.notice => r.notified /\ (b \/ ~row.notified)
      <4>1. CASE c.writes = "accepted"
        BY <1>1, <1>2, <1>8, <3>1, <4>1 DEF TxInv
      <4>2. CASE c.writes # "accepted"
        <5>1. c.writes = "none" /\ ~c.notice
          BY <1>1, <1>7, <2>3, <4>2, Typed DEF Sound, Flow
        <5>2. QED
          BY <3>1, <4>2, <5>1
      <4>3. QED
        BY <4>1, <4>2
    <3>3. ~r.notified => b \/ ~row.notified
      BY <1>2, <1>3, <1>8 DEF TxInv
    <3>4. row.name = "operator" => w.name = "operator"
      BY <1>1, <1>6, <3>1, <3>2 DEF FieldOf, Fair
    <3>5. row.photo.from = "operator" => w.photo.from = "operator" \/ d.kind = "reject"
      BY <1>1, <1>6, <1>7, <3>1, <3>2 DEF FieldOf, Fair, Same
    <3>6. d.notice => w.notified /\ (b \/ ~row.notified)
      BY <1>1, <1>6, <3>1, <3>2, <3>3 DEF FieldOf, Tells
    <3>7. QED
      BY <3>4, <3>5, <3>6
  <2>4. \A j \in Workers : tx'.by = j => j = k
    BY <1>10
  <2>5. QED
    BY <1>2, <1>7, <1>10, <2>1, <2>2, <2>3, <2>4 DEF TxInv, Untouched
<1>14. QED
  BY <1>1, <1>7, <1>10, <1>11, <1>12, <1>13, CallInv DEF Same, Untouched

\* An update, whatever becomes of it.
LEMMA UpdateInv ==
    ASSUME IInv, NEW k \in Workers, calls[k].pc # "idle", NEW f, FieldSets(f),
           "photo" \in DOMAIN f => f["photo"].object \in 0..store,
           NEW more, CallFields(more[TRUE]), CallFields(more[FALSE]),
           Update(k, f, more), Fair(calls[k], f),
           \A d : Accepted(calls[k], d, f, more[TRUE]) => Sound(d) /\ Tells(calls[k], d, f),
           \A d : Refused(calls[k], d, f, more[FALSE]) => Sound(d)
    PROVE  IInv'
<1>1. PICK c : c = calls[k]
  OBVIOUS
<1>2. PICK r : r = IF tx.by = k THEN tx.row ELSE row
  OBVIOUS
<1>3. /\ c \in CallsIn(store) /\ Copied(k) /\ c.mem \in DraftRows /\ c.writes \in Writes
      /\ r \in DraftRows
  <2>1. c \in CallsIn(store) /\ Copied(k) /\ row \in DraftRows /\ tx.row \in DraftRows
    BY <1>1, Typed DEF Txs
  <2>2. QED
    BY <1>2, <2>1 DEF CallsIn
<1>4. /\ tx.by \in {Nobody, k} /\ UNCHANGED lock /\ UNCHANGED Untouched
  BY DEF Update, Untouched
<1>5. Written(c.mem, f) \in DraftRows
  BY <1>3, WrittenRow
<1>6. CASE c.mem.version = r.version
  <2>1. PICK w : w = IF c.writes = "none" THEN "accepted" ELSE c.writes
    OBVIOUS
  <2>2. PICK b : b = [c EXCEPT !.mem = Written(c.mem, f), !.writes = w]
    OBVIOUS
  <2>3. tx' = [by |-> k, row |-> Written(r, f), forgot |-> tx.forgot \/ (Forgets(f) /\ r.notified)]
    BY <1>1, <1>2, <1>6 DEF Update, Mem, Written
  <2>4. PICK x : x = more[TRUE]
    OBVIOUS
  <2>5. calls' = [calls EXCEPT ![k] = With(b, x)]
    <3>1. (Mem(k).version = r.version) = TRUE
      BY <1>1, <1>6 DEF Mem
    <3>2. \E m \in {Written(c.mem, f)} :
             calls' = [calls EXCEPT ![k] = With([calls[k] EXCEPT !.mem = m, !.writes = w],
                                                more[Mem(k).version = r.version])]
      BY <1>1, <1>2, <1>3, <1>6, <2>1 DEF Update, Mem, Written
    <3>3. more[Mem(k).version = r.version] = x
      BY <3>1, <2>4
    <3>4. QED
      BY <1>1, <2>2, <3>2, <3>3
  <2>6. w \in Writes
    BY <1>3, <2>1 DEF Writes
  <2>7. b \in CallsIn(store) /\ b.mem = Written(c.mem, f) /\ b.writes = w
        /\ b.pc = c.pc /\ b.type = c.type /\ b.ean = c.ean /\ b.replied = c.replied
        /\ b.notice = c.notice /\ b.q = c.q /\ Same(b, c)
    BY <1>3, <1>5, <2>2, <2>6 DEF CallsIn, Same
  <2>8. PICK d : d = With(b, x)
    OBVIOUS
  <2>9. /\ d \in CallsIn(store) /\ Same(d, b) /\ d.mem = b.mem /\ d.writes = b.writes
        /\ ByFields(d, b, x)
    <3>1. CallFields(x)
      BY <2>4
    <3>2. QED
      BY <2>7, <2>8, <3>1, WithCall DEF ByFields
  <2>10. Accepted(c, d, f, x)
    BY <2>1, <2>7, <2>9 DEF Accepted, ByFields, FieldOf, Same
  <2>11. Sound(d) /\ Tells(c, d, f)
    BY <1>1, <2>4, <2>10
  <2>12. calls' = [calls EXCEPT ![k] = d]
    BY <2>5, <2>8
  <2>13. Mem(k).version = r.version
    BY <1>1, <1>6 DEF Mem
  <2>14. QED
    BY <1>1, <1>2, <1>4, <2>3, <2>9, <2>10, <2>11, <2>12, <2>13, AcceptInv
<1>7. CASE c.mem.version # r.version
  <2>1. c.writes # "accepted"
    BY <1>1, <1>2, <1>3, <1>7 DEF Copied, Mem
  <2>2. tx' = tx
    BY <1>1, <1>2, <1>7 DEF Update, Mem
  <2>3. PICK x : x = more[FALSE]
    OBVIOUS
  <2>4. PICK m \in {c.mem, Written(c.mem, f)} :
           calls' = [calls EXCEPT ![k] = With([c EXCEPT !.mem = m, !.writes = "refused"], x)]
    <3>1. (Mem(k).version = r.version) = FALSE
      BY <1>1, <1>7 DEF Mem
    <3>2. PICK m \in {c.mem, Written(c.mem, f)} :
             calls' = [calls EXCEPT ![k] = With([calls[k] EXCEPT !.mem = m, !.writes = "refused"],
                                                more[Mem(k).version = r.version])]
      BY <1>1, <1>2, <1>3, <1>7, <2>1 DEF Update, Mem, Written
    <3>3. more[Mem(k).version = r.version] = x
      BY <3>1, <2>3
    <3>4. QED
      BY <1>1, <3>2, <3>3
  <2>5. PICK b : b = [c EXCEPT !.mem = m, !.writes = "refused"]
    OBVIOUS
  <2>6. m \in DraftRows /\ "refused" \in Writes
    BY <1>3, <1>5 DEF Writes
  <2>7. b \in CallsIn(store) /\ b.mem = m /\ b.writes = "refused"
        /\ b.pc = c.pc /\ b.type = c.type /\ b.ean = c.ean /\ b.replied = c.replied
        /\ b.notice = c.notice /\ b.q = c.q /\ Same(b, c)
    BY <1>3, <2>5, <2>6 DEF CallsIn, Same
  <2>8. PICK d : d = With(b, x)
    OBVIOUS
  <2>9. /\ d \in CallsIn(store) /\ Same(d, b) /\ d.mem = b.mem /\ d.writes = b.writes
        /\ ByFields(d, b, x)
    <3>1. CallFields(x)
      BY <2>3
    <3>2. QED
      BY <2>7, <2>8, <3>1, WithCall DEF ByFields
  <2>10. Refused(c, d, f, x)
    BY <2>1, <2>7, <2>9 DEF Refused, ByFields, FieldOf, Same
  <2>11. Sound(d)
    BY <1>1, <2>3, <2>10
  <2>12. calls' = [calls EXCEPT ![k] = d]
    BY <2>4, <2>5, <2>8
  <2>13. QED
    BY <1>1, <1>4, <2>2, <2>9, <2>10, <2>11, <2>12, RefuseInv
<1>8. QED
  BY <1>6, <1>7

\* What is known of a call at a step of its own.
LEMMA CallAt ==
    ASSUME IInv, NEW k \in Workers
    PROVE  /\ calls[k] \in CallsIn(store) /\ Copied(k)
           /\ calls[k].mem \in DraftRows /\ calls[k].asked \in Asked
           /\ calls[k].object \in 0..store /\ calls[k].writes \in Writes
           /\ calls[k].mem.photo \in Photos /\ calls[k].mem.photo.object \in 0..store
           /\ Flow(calls[k]) /\ Objects(calls[k])
           /\ Clean => AwaitFlow(calls[k])
<1>1. PICK c : c = calls[k]
  OBVIOUS
<1>2. /\ c \in CallsIn(store) /\ Copied(k) /\ c.mem.photo.object \in 0..store
      /\ Flow(c) /\ Objects(c) /\ (Clean => AwaitFlow(c))
  BY <1>1, Typed DEF Sound, PhotosStored
<1>3. c.mem \in DraftRows /\ c.asked \in Asked /\ c.object \in 0..store /\ c.writes \in Writes
  BY <1>2 DEF CallsIn
<1>4. c.mem.photo \in Photos
  BY <1>3 DEF DraftRows
<1>5. QED
  BY <1>1, <1>2, <1>3, <1>4

\* What an update makes of a call, however it fares.
Updated(c, d, f, x) ==
    /\ Same(d, c) /\ ByFields(d, c, x) /\ d.mem \in {c.mem, Written(c.mem, f)}
    /\ d.writes \in {"accepted", "refused"}
    /\ c.writes = "accepted" => d.writes = "accepted"
    /\ d.writes = "accepted" =>
          c.writes \in {"none", "accepted"} /\ d.mem = Written(c.mem, f)

\* An update after which the call goes on in the same way.
LEMMA EitherInv ==
    ASSUME IInv, NEW k \in Workers, calls[k].pc # "idle", NEW f, FieldSets(f),
           "photo" \in DOMAIN f => f["photo"].object \in 0..store,
           NEW x, CallFields(x), Update(k, f, Either(x)), Fair(calls[k], f),
           \A d : Updated(calls[k], d, f, x) => Sound(d) /\ Tells(calls[k], d, f)
    PROVE  IInv'
<1>1. PICK c : c = calls[k]
  OBVIOUS
<1>2. PICK more : more = Either(x)
  OBVIOUS
<1>3. more[TRUE] = x /\ more[FALSE] = x
  BY <1>2 DEF Either
<1>4. c.writes \in {"none", "accepted", "refused"}
  BY <1>1, CallAt DEF Writes, Flow
<1>5. \A d : Accepted(c, d, f, x) => Updated(c, d, f, x)
  BY <1>4 DEF Accepted, Updated
<1>6. \A d : Refused(c, d, f, x) => Updated(c, d, f, x)
  BY DEF Refused, Updated
<1>7. \A d : Accepted(c, d, f, more[TRUE]) => Sound(d) /\ Tells(c, d, f)
  BY <1>1, <1>3, <1>5
<1>8. \A d : Refused(c, d, f, more[FALSE]) => Sound(d)
  BY <1>1, <1>3, <1>6
<1>9. CallFields(more[TRUE]) /\ CallFields(more[FALSE])
  BY <1>3
<1>10. Update(k, f, more)
  BY <1>2
<1>11. QED
  BY <1>1, <1>7, <1>8, <1>9, <1>10, UpdateInv

-----------------------------------------------------------------------------
\* The steps of a text

\* AnswerQuestion.
LEMMA AnswerQuestionInv ==
    ASSUME IInv, NEW k \in Workers, AnswerQuestion(k)
    PROVE  IInv'
<1>1. PICK c : c = calls[k]
  OBVIOUS
<1>2. /\ c.pc = "answer" /\ c \in CallsIn(store) /\ c.mem \in DraftRows /\ c.asked \in Asked
      /\ Flow(c) /\ Objects(c) /\ (Clean => AwaitFlow(c))
  BY <1>1, CallAt DEF AnswerQuestion, At
<1>3. PICK next \in IF c.kind = "barcode"
                    THEN {[pc |-> "barcode", q |-> q] : q \in {"keep", "NONE"}}
                    ELSE {[pc |-> "type", q |-> "NONE"]} :
         \/ Go(k, next)
         \/ \E fields \in {NoFields, [name |-> "operator"]} :
               Update(k, fields, [ok \in BOOLEAN |-> Also(next, [replied |-> ~ok])])
  BY <1>1 DEF AnswerQuestion
<1>4. /\ DOMAIN next = {"pc", "q"} /\ next["q"] \in {"keep", "NONE"}
      /\ next["pc"] = IF c.kind = "barcode" THEN "barcode" ELSE "type"
  <2>1. CASE c.kind = "barcode"
    <3>1. PICK q \in {"keep", "NONE"} : next = [pc |-> "barcode", q |-> q]
      BY <1>3, <2>1
    <3>2. QED
      BY <2>1, <3>1
  <2>2. CASE c.kind # "barcode"
    BY <1>3, <2>2
  <2>3. QED
    BY <2>1, <2>2
<1>5. CallFields(next)
  BY <1>4 DEF CallFields, Pcs, Leaves, Questions
<1>6. /\ c.kind \in {"regenerate", "barcode"} /\ c.asked.type = "MISSING_INFO"
      /\ c.writes = "none" /\ ~c.notice
  BY <1>2 DEF Flow
<1>7. CASE Go(k, next)
  <2>1. "notice" \notin DOMAIN next
    BY <1>4
  <2>2. ASSUME NEW d, Went(c, d, next) PROVE Sound(d)
    <3>1. /\ Same(d, c) /\ d.mem = c.mem /\ d.writes = c.writes
          /\ d.pc = IF c.kind = "barcode" THEN "barcode" ELSE "type"
          /\ d.q \in {"keep", "NONE"} /\ d.notice = c.notice
      BY <1>4, <2>2 DEF Went, ByFields, FieldOf
    <3>2. Flow(d)
      BY <1>2, <1>6, <3>1 DEF Flow, Same
    <3>3. Objects(d)
      BY <1>2, <1>6, <3>1 DEF Objects, Placed, Same
    <3>4. Clean => AwaitFlow(d)
      BY <1>2, <1>6, <3>1 DEF AwaitFlow, Awaited, Same
    <3>5. QED
      BY <3>2, <3>3, <3>4 DEF Sound
  <2>3. QED
    BY <1>1, <1>2, <1>5, <1>7, <2>1, <2>2, GoInv DEF Go, Untouched
<1>8. ASSUME NEW f \in {NoFields, [name |-> "operator"]},
             Update(k, f, [ok \in BOOLEAN |-> Also(next, [replied |-> ~ok])])
      PROVE  IInv'
  <2>1. PICK more : more = [ok \in BOOLEAN |-> Also(next, [replied |-> ~ok])]
    OBVIOUS
  <2>2. ASSUME NEW ok \in BOOLEAN
        PROVE  /\ CallFields(more[ok]) /\ DOMAIN more[ok] = {"pc", "q", "replied"}
               /\ more[ok]["pc"] = next["pc"] /\ more[ok]["q"] = next["q"]
    <3>1. PICK reply : reply = [replied |-> ~ok]
      OBVIOUS
    <3>2. DOMAIN reply = {"replied"} /\ reply["replied"] \in BOOLEAN
      BY <3>1
    <3>3. PICK x : x = Also(next, reply)
      OBVIOUS
    <3>4. /\ DOMAIN x = {"pc", "q", "replied"} /\ x["pc"] = next["pc"] /\ x["q"] = next["q"]
          /\ x["replied"] = reply["replied"]
      BY <1>4, <3>2, <3>3 DEF Also
    <3>5. CallFields(x)
      BY <1>5, <1>4, <3>2, <3>4 DEF CallFields
    <3>6. more[ok] = x
      BY <2>1, <3>1, <3>3
    <3>7. QED
      BY <3>4, <3>5, <3>6
  <2>3. /\ FieldSets(f) /\ "photo" \notin DOMAIN f /\ Fair(c, f)
        /\ "awaiting" \notin DOMAIN f /\ "type" \notin DOMAIN f
    BY <1>8 DEF FieldSets, Fair, NoFields, Origins
  <2>4. /\ Written(c.mem, f).type = c.mem.type /\ Written(c.mem, f).awaiting = c.mem.awaiting
        /\ Written(c.mem, f).photo = c.mem.photo
    BY <1>2, <2>3, WrittenRow DEF FieldOf
  <2>5. ASSUME NEW ok \in BOOLEAN, NEW d, Updated(c, d, f, more[ok])
        PROVE  Sound(d) /\ Tells(c, d, f)
    <3>1. /\ Same(d, c) /\ d.notice = c.notice /\ d.q \in {"keep", "NONE"}
          /\ d.pc = IF c.kind = "barcode" THEN "barcode" ELSE "type"
      BY <1>4, <2>2, <2>5 DEF Updated, ByFields, FieldOf
    <3>2. /\ d.mem \in {c.mem, Written(c.mem, f)} /\ d.writes \in {"accepted", "refused"}
          /\ d.mem.awaiting = c.mem.awaiting /\ d.mem.photo = c.mem.photo
      BY <2>4, <2>5 DEF Updated
    <3>3. Flow(d)
      BY <1>2, <1>6, <3>1, <3>2 DEF Flow, Same
    <3>4. Objects(d)
      BY <1>2, <1>6, <3>1, <3>2 DEF Objects, Placed, Same
    <3>5. Clean => AwaitFlow(d)
      BY <1>2, <1>6, <3>1, <3>2 DEF AwaitFlow, Awaited, Same
    <3>6. Tells(c, d, f)
      BY <1>6, <3>1 DEF Tells
    <3>7. QED
      BY <3>3, <3>4, <3>5, <3>6 DEF Sound
  <2>6. \A d : Accepted(c, d, f, more[TRUE]) => Updated(c, d, f, more[TRUE])
    BY <1>6 DEF Accepted, Updated
  <2>7. \A d : Refused(c, d, f, more[FALSE]) => Updated(c, d, f, more[FALSE])
    BY DEF Refused, Updated
  <2>8. \A d : Accepted(c, d, f, more[TRUE]) => Sound(d) /\ Tells(c, d, f)
    BY <2>5, <2>6
  <2>9. \A d : Refused(c, d, f, more[FALSE]) => Sound(d)
    BY <2>5, <2>7
  <2>10. CallFields(more[TRUE]) /\ CallFields(more[FALSE])
    BY <2>2
  <2>11. Update(k, f, more) /\ calls[k].pc # "idle"
    BY <1>1, <1>2, <1>8, <2>1
  <2>12. QED
    BY <1>1, <2>3, <2>8, <2>9, <2>10, <2>11, UpdateInv
<1>9. QED
  BY <1>3, <1>7, <1>8

\* DecideType.
LEMMA DecideTypeInv ==
    ASSUME IInv, NEW k \in Workers, DecideType(k)
    PROVE  IInv'
<1>1. PICK c : c = calls[k]
  OBVIOUS
<1>2. /\ c.pc = "type" /\ c \in CallsIn(store) /\ c.mem \in DraftRows /\ c.asked \in Asked
      /\ Flow(c) /\ Objects(c) /\ (Clean => AwaitFlow(c))
  BY <1>1, CallAt DEF DecideType, At
<1>3. PICK answer \in LlmResults :
         IF answer # "ok" THEN Go(k, [pc |-> "end"])
         ELSE \E type \in IF Mem(k).type = "UNSET" THEN Types ELSE {Mem(k).type} :
                Update(k, [type |-> type], Either([pc |-> "mark", type |-> type]))
  BY DEF DecideType
<1>4. CASE Go(k, [pc |-> "end"])
  <2>1. PICK x : x = [pc |-> "end"]
    OBVIOUS
  <2>2. CallFields(x) /\ "notice" \notin DOMAIN x
    BY <1>2, <2>1 DEF End, CallFields, Pcs, Leaves, Questions, Types
  <2>3. ASSUME NEW d, Went(c, d, x) PROVE Sound(d)
    <3>1. /\ Same(d, c) /\ d.mem = c.mem /\ d.writes = c.writes
          /\ d.pc = "end" /\ d.q = c.q
          /\ d.replied = c.replied /\ d.notice = c.notice
      BY <2>1, <2>3 DEF Went, ByFields, FieldOf, End
    <3>2. Flow(d)
      BY <1>2, <2>3, <3>1 DEF Flow, Same
    <3>3. Objects(d)
      BY <1>2, <2>3, <3>1 DEF Objects, Placed, Flow, Same
    <3>4. Clean => AwaitFlow(d)
      BY <1>2, <2>3, <3>1 DEF AwaitFlow, Awaited, Flow, Same, LeftBy, Asking
    <3>5. QED
      BY <3>2, <3>3, <3>4 DEF Sound
  <2>4. QED
    BY <1>1, <1>2, <1>4, <2>1, <2>2, <2>3, GoInv DEF Go, Untouched
<1>5. ASSUME NEW type \in Types, c.mem.type = "UNSET" \/ type = c.mem.type,
             Update(k, [type |-> type], Either([pc |-> "mark", type |-> type]))
      PROVE  IInv'
  <2>1. PICK f : f = [type |-> type]
    OBVIOUS
  <2>2. PICK x : x = [pc |-> "mark", type |-> type]
    OBVIOUS
  <2>3. CallFields(x)
    BY <1>2, <2>2 DEF CallFields, Pcs, Leaves, Questions, Types
  <2>4. FieldSets(f) /\ "photo" \notin DOMAIN f /\ Fair(c, f)
    BY <2>1 DEF FieldSets, Fair
  <2>5. ASSUME NEW d, Updated(c, d, f, x) PROVE Sound(d) /\ Tells(c, d, f)
    <3>1. /\ d.pc = "mark" /\ d.type = type
          /\ d.replied = c.replied /\ d.notice = c.notice
      BY <2>2, <2>5 DEF Updated, ByFields, FieldOf
    <3>2. /\ Written(c.mem, f).type = type /\ Written(c.mem, f).awaiting = c.mem.awaiting
          /\ Written(c.mem, f).photo = c.mem.photo
      BY <1>2, <2>1, <2>4, WrittenRow DEF FieldOf
    <3>3. Flow(d)
      BY <1>2, <2>5, <3>1, <3>2 DEF Flow, Same, Updated
    <3>4. Objects(d)
      BY <1>2, <2>5, <3>1, <3>2 DEF Objects, Placed, Flow, Same, Updated
    <3>5. Clean => AwaitFlow(d)
      BY <1>2, <2>5, <3>1, <3>2 DEF AwaitFlow, Awaited, Flow, Same, Updated
    <3>6. Tells(c, d, f)
      BY <1>2, <2>1, <2>4, <2>5, <3>1 DEF Flow, Tells
    <3>7. QED
      BY <3>3, <3>4, <3>5, <3>6 DEF Sound
  <2>6. Update(k, f, Either(x))
    BY <1>1, <1>5, <2>1, <2>2 DEF Mem
  <2>7. QED
    BY <1>1, <1>2, <2>3, <2>4, <2>5, <2>6, EitherInv
<1>6. QED
  BY <1>1, <1>2, <1>3, <1>4, <1>5 DEF Mem, DraftRows

\* MarkQuestion.
LEMMA MarkQuestionInv ==
    ASSUME IInv, NEW k \in Workers, MarkQuestion(k)
    PROVE  IInv'
<1>1. PICK c : c = calls[k]
  OBVIOUS
<1>2. /\ c.pc = "mark" /\ c \in CallsIn(store) /\ c.mem \in DraftRows /\ c.asked \in Asked
      /\ Flow(c) /\ Objects(c) /\ (Clean => AwaitFlow(c))
  BY <1>1, CallAt DEF MarkQuestion, At
<1> DEFINE Marks(x) == /\ calls' = [calls EXCEPT ![k] = With(@, x)] /\ lock' = k
                       /\ UNCHANGED tx /\ UNCHANGED Untouched
<1>3. /\ c.type \in Types /\ c.writes # "none"
      /\ c.type = "UNSET" => Marks(End("CLASSIFICATION"))
      /\ c.type = "GENERAL" \/ (c.type = "SINGLE" /\ c.replied) => Marks(End("NONE"))
      /\ c.type = "SINGLE" /\ ~c.replied => Marks([pc |-> "fields"])
  BY <1>1, <1>2 DEF MarkQuestion, CallsIn, Types, Flow, Untouched
<1>4. CASE c.type = "UNSET"
  <2>1. PICK x : x = End("CLASSIFICATION")
    OBVIOUS
  <2>2. CallFields(x) /\ "notice" \notin DOMAIN x
    BY <1>2, <2>1 DEF End, CallFields, Pcs, Leaves, Questions, Types
  <2>3. ASSUME NEW d, Went(c, d, x) PROVE Sound(d)
    <3>1. /\ Same(d, c) /\ d.mem = c.mem /\ d.writes = c.writes
          /\ d.pc = "end" /\ d.q = "CLASSIFICATION"
          /\ d.replied = c.replied /\ d.notice = c.notice
      BY <2>1, <2>3 DEF Went, ByFields, FieldOf, End
    <3>2. Flow(d)
      BY <1>2, <2>3, <3>1 DEF Flow, Same
    <3>3. Objects(d)
      BY <1>2, <2>3, <3>1 DEF Objects, Placed, Flow, Same
    <3>4. Clean => AwaitFlow(d)
      BY <1>2, <2>3, <3>1 DEF AwaitFlow, Awaited, Flow, Same, LeftBy, Asking
    <3>5. QED
      BY <3>2, <3>3, <3>4 DEF Sound
  <2>4. QED
    BY <1>1, <1>2, <1>3, <1>4, <2>1, <2>2, <2>3, GoInv
<1>5. CASE c.type = "GENERAL" \/ (c.type = "SINGLE" /\ c.replied)
  <2>1. PICK x : x = End("NONE")
    OBVIOUS
  <2>2. CallFields(x) /\ "notice" \notin DOMAIN x
    BY <1>2, <2>1 DEF End, CallFields, Pcs, Leaves, Questions, Types
  <2>3. ASSUME NEW d, Went(c, d, x) PROVE Sound(d)
    <3>1. /\ Same(d, c) /\ d.mem = c.mem /\ d.writes = c.writes
          /\ d.pc = "end" /\ d.q = "NONE"
          /\ d.replied = c.replied /\ d.notice = c.notice
      BY <2>1, <2>3 DEF Went, ByFields, FieldOf, End
    <3>2. Flow(d)
      BY <1>2, <2>3, <3>1 DEF Flow, Same
    <3>3. Objects(d)
      BY <1>2, <2>3, <3>1 DEF Objects, Placed, Flow, Same
    <3>4. Clean => AwaitFlow(d)
      BY <1>2, <2>3, <3>1 DEF AwaitFlow, Awaited, Flow, Same, LeftBy, Asking
    <3>5. QED
      BY <3>2, <3>3, <3>4 DEF Sound
  <2>4. QED
    BY <1>1, <1>2, <1>3, <1>5, <2>1, <2>2, <2>3, GoInv
<1>6. CASE c.type = "SINGLE" /\ ~c.replied
  <2>1. PICK x : x = [pc |-> "fields"]
    OBVIOUS
  <2>2. CallFields(x) /\ "notice" \notin DOMAIN x
    BY <1>2, <2>1 DEF CallFields, Pcs, Leaves, Questions, Types
  <2>3. ASSUME NEW d, Went(c, d, x) PROVE Sound(d)
    <3>1. /\ Same(d, c) /\ d.mem = c.mem /\ d.writes = c.writes /\ d.pc = "fields"
          /\ d.replied = c.replied /\ d.notice = c.notice
      BY <2>1, <2>3 DEF Went, ByFields, FieldOf
    <3>2. Flow(d)
      BY <1>2, <1>6, <2>3, <3>1 DEF Flow, Same
    <3>3. Objects(d)
      BY <1>2, <2>3, <3>1 DEF Objects, Placed, Flow, Same
    <3>4. Clean => AwaitFlow(d)
      BY <1>2, <1>6, <2>3, <3>1 DEF AwaitFlow, Awaited, Flow, Same
    <3>5. QED
      BY <3>2, <3>3, <3>4 DEF Sound
  <2>4. QED
    BY <1>1, <1>2, <1>3, <1>6, <2>1, <2>2, <2>3, GoInv
<1>7. QED
  BY <1>3, <1>4, <1>5, <1>6 DEF Types


\* ExtractFields.
LEMMA ExtractFieldsInv ==
    ASSUME IInv, NEW k \in Workers, ExtractFields(k)
    PROVE  IInv'
<1>1. PICK c : c = calls[k]
  OBVIOUS
<1>2. /\ c.pc = "fields" /\ c \in CallsIn(store) /\ c.mem \in DraftRows /\ c.asked \in Asked
      /\ Flow(c) /\ Objects(c) /\ (Clean => AwaitFlow(c))
  BY <1>1, CallAt DEF ExtractFields, At
<1>3. PICK next : next = [pc |-> IF Creates(k) THEN "resolve" ELSE "barcode"]
  OBVIOUS
<1>4. PICK answer \in LlmResults :
         IF answer # "ok" THEN Go(k, End("NONE"))
         ELSE \/ Go(k, next)
              \/ \E fields \in {NoFields, [name |-> "operator"]} :
                   Update(k, fields, [ok \in BOOLEAN |->
                      IF ok THEN next ELSE [pc |-> "barcode", replied |-> TRUE]])
  BY <1>3 DEF ExtractFields
<1>5. next = [pc |-> IF c.kind = "create" THEN "resolve" ELSE "barcode"]
  BY <1>1, <1>3 DEF Creates
<1>6. CASE Go(k, End("NONE"))
  <2>1. PICK x : x = End("NONE")
    OBVIOUS
  <2>2. CallFields(x) /\ "notice" \notin DOMAIN x
    BY <1>2, <2>1 DEF End, CallFields, Pcs, Leaves, Questions, Types
  <2>3. ASSUME NEW d, Went(c, d, x) PROVE Sound(d)
    <3>1. /\ Same(d, c) /\ d.mem = c.mem /\ d.writes = c.writes
          /\ d.pc = "end" /\ d.q = "NONE"
          /\ d.replied = c.replied /\ d.notice = c.notice
      BY <2>1, <2>3 DEF Went, ByFields, FieldOf, End
    <3>2. Flow(d)
      BY <1>2, <2>3, <3>1 DEF Flow, Same
    <3>3. Objects(d)
      BY <1>2, <2>3, <3>1 DEF Objects, Placed, Flow, Same
    <3>4. Clean => AwaitFlow(d)
      BY <1>2, <2>3, <3>1 DEF AwaitFlow, Awaited, Flow, Same, LeftBy, Asking
    <3>5. QED
      BY <3>2, <3>3, <3>4 DEF Sound
  <2>4. QED
    BY <1>1, <1>2, <1>6, <2>1, <2>2, <2>3, GoInv DEF Go, Untouched
<1>7. CASE Go(k, next)
  <2>1. PICK x : x = next
    OBVIOUS
  <2>2. CallFields(x) /\ "notice" \notin DOMAIN x
    BY <1>2, <1>5, <2>1 DEF CallFields, Pcs, Leaves, Questions, Types
  <2>3. ASSUME NEW d, Went(c, d, x) PROVE Sound(d)
    <3>1. /\ Same(d, c) /\ d.mem = c.mem /\ d.writes = c.writes
          /\ d.pc = IF c.kind = "create" THEN "resolve" ELSE "barcode"
          /\ d.replied = c.replied /\ d.notice = c.notice
      BY <1>5, <2>1, <2>3 DEF Went, ByFields, FieldOf
    <3>2. Flow(d)
      BY <1>2, <2>3, <3>1 DEF Flow, Same
    <3>3. Objects(d)
      BY <1>2, <2>3, <3>1 DEF Objects, Placed, Flow, Same
    <3>4. Clean => AwaitFlow(d)
      BY <1>2, <2>3, <3>1 DEF AwaitFlow, Awaited, Flow, Same
    <3>5. QED
      BY <3>2, <3>3, <3>4 DEF Sound
  <2>4. QED
    BY <1>1, <1>2, <1>7, <2>1, <2>2, <2>3, GoInv DEF Go, Untouched
<1>8. ASSUME NEW fields \in {NoFields, [name |-> "operator"]},
             Update(k, fields, [ok \in BOOLEAN |->
                IF ok THEN next ELSE [pc |-> "barcode", replied |-> TRUE]])
      PROVE  IInv'
  <2>1. PICK f : f = fields
    OBVIOUS
  <2>2. PICK x : x = next
    OBVIOUS
  <2>3. PICK y : y = [pc |-> "barcode", replied |-> TRUE]
    OBVIOUS
  <2>4. PICK more : more = [ok \in BOOLEAN |-> IF ok THEN x ELSE y]
    OBVIOUS
  <2>5. CallFields(x) /\ CallFields(y)
    BY <1>2, <1>5, <2>2, <2>3 DEF CallFields, Pcs, Leaves, Questions, Types
  <2>6. more[TRUE] = x /\ more[FALSE] = y
    BY <2>4
  <2>7. /\ FieldSets(f) /\ "photo" \notin DOMAIN f /\ Fair(c, f)
        /\ "awaiting" \notin DOMAIN f /\ "type" \notin DOMAIN f /\ "notified" \notin DOMAIN f
    BY <1>8, <2>1 DEF FieldSets, Fair, NoFields, Origins
  <2>8. ASSUME NEW d, Accepted(c, d, f, x) PROVE Sound(d) /\ Tells(c, d, f)
    <3>1. /\ Same(d, c) /\ d.pc = IF c.kind = "create" THEN "resolve" ELSE "barcode"
          /\ d.replied = c.replied /\ d.notice = c.notice
      BY <1>5, <2>2, <2>8 DEF Accepted, ByFields, FieldOf
    <3>2. /\ Written(c.mem, f).type = c.mem.type /\ Written(c.mem, f).awaiting = c.mem.awaiting
          /\ Written(c.mem, f).photo = c.mem.photo
      BY <1>2, <2>7, WrittenRow DEF FieldOf
    <3>3. Flow(d)
      BY <1>2, <2>8, <3>1, <3>2 DEF Flow, Same, Accepted, Refused
    <3>4. Objects(d)
      BY <1>2, <2>8, <3>1, <3>2 DEF Objects, Placed, Flow, Same, Accepted, Refused
    <3>5. Clean => AwaitFlow(d)
      BY <1>2, <2>8, <3>1, <3>2 DEF AwaitFlow, Awaited, Flow, Same, Accepted, Refused
    <3>6. Tells(c, d, f)
      BY <1>2, <2>1, <2>7, <2>8, <3>1 DEF Flow, Tells
    <3>7. QED
      BY <3>3, <3>4, <3>5, <3>6 DEF Sound
  <2>9. ASSUME NEW d, Refused(c, d, f, y) PROVE Sound(d)
    <3>1. /\ Same(d, c) /\ d.pc = "barcode" /\ d.writes = "refused"
          /\ d.replied = TRUE /\ d.notice = c.notice
      BY <2>3, <2>9 DEF Refused, ByFields, FieldOf
    <3>2. /\ Written(c.mem, f).type = c.mem.type /\ Written(c.mem, f).awaiting = c.mem.awaiting
          /\ Written(c.mem, f).photo = c.mem.photo
      BY <1>2, <2>7, WrittenRow DEF FieldOf
    <3>3. Flow(d)
      BY <1>2, <2>9, <3>1, <3>2 DEF Flow, Same, Accepted, Refused
    <3>4. Objects(d)
      BY <1>2, <2>9, <3>1, <3>2 DEF Objects, Placed, Flow, Same, Accepted, Refused
    <3>5. Clean => AwaitFlow(d)
      BY <1>2, <2>9, <3>1, <3>2 DEF AwaitFlow, Awaited, Flow, Same, Accepted, Refused
    <3>6. QED
      BY <3>3, <3>4, <3>5 DEF Sound
  <2>10. Update(k, f, more)
    BY <1>1, <1>8, <2>1, <2>2, <2>3, <2>4 DEF Mem
  <2>11. QED
    BY <1>1, <1>2, <2>5, <2>6, <2>7, <2>8, <2>9, <2>10, UpdateInv
<1>9. QED
  BY <1>4, <1>6, <1>7, <1>8


\* A product that was found changes what nobody has given.
LEMMA MissingFields ==
    ASSUME NEW r \in DraftRows, NEW search \in {"resolution", "barcode", "discovery"},
           NEW fields, fields \subseteq {"name", "photo"}, NEW m, m = Missing(r, search, fields)
    PROVE  /\ DOMAIN m \subseteq fields
           /\ "name" \in DOMAIN m => m["name"] = search /\ r.name = "none"
           /\ "photo" \in DOMAIN m =>
                 /\ m["photo"] = External(search) /\ r.photo = NoPhoto
                 /\ m["photo"] \in Photos /\ m["photo"] # NoPhoto
                 /\ m["photo"].from = search /\ m["photo"].object = 0
<1>1. External(search) \in Photos /\ External(search) # NoPhoto
      /\ External(search).from = search /\ External(search).object = 0
  BY DEF External, Photos, NoPhoto, NoObject, Origins
<1>2. PICK there : there = {y \in fields : \/ (y = "name" /\ r.name = "none")
                                          \/ (y = "photo" /\ r.photo = NoPhoto)}
  OBVIOUS
<1>3. /\ DOMAIN m = there
      /\ \A x \in there : m[x] = IF x = "name" THEN search ELSE External(search)
  BY <1>2 DEF Missing
<1>4. /\ DOMAIN m \subseteq fields
      /\ "name" \in DOMAIN m => m["name"] = search /\ r.name = "none"
      /\ "photo" \in DOMAIN m => m["photo"] = External(search) /\ r.photo = NoPhoto
  BY <1>2, <1>3
<1>5. QED
  BY <1>1, <1>4

\* ResolveProduct.
LEMMA ResolveProductInv ==
    ASSUME IInv, NEW k \in Workers, ResolveProduct(k)
    PROVE  IInv'
<1>1. PICK c : c = calls[k]
  OBVIOUS
<1>2. /\ c.pc = "resolve" /\ c \in CallsIn(store) /\ c.mem \in DraftRows /\ c.asked \in Asked
      /\ Flow(c) /\ Objects(c) /\ (Clean => AwaitFlow(c))
  BY <1>1, CallAt DEF ResolveProduct, At
<1> DEFINE replied == [pc |-> "barcode", replied |-> TRUE]
<1>3. PICK next : next = [pc |-> "barcode"]
  OBVIOUS
<1>4. PICK missing : missing = Missing(c.mem, "resolution", {"name", "photo"})
  OBVIOUS
<1>5. PICK asks : asks = IF "photo" \in DOMAIN missing THEN [awaiting |-> TRUE] ELSE NoFields
  OBVIOUS
<1>6. \/ Go(k, next)
      \/ Go(k, replied)
      \/ Update(k, Also(missing, Also(asks, [notified |-> FALSE])),
                [ok \in BOOLEAN |-> IF ok THEN next ELSE replied])
  <2>1. PICK result \in Resolutions :
          CASE result = "resolved" ->
                 \/ /\ missing = NoFields /\ ~Mem(k).notified
                    /\ Go(k, next)
                 \/ Update(k, Also(missing, Also(asks, [notified |-> FALSE])),
                           [ok \in BOOLEAN |-> IF ok THEN next ELSE replied])
            [] result = "needs_clarification" ->
                 Go(k, IF Mem(k).name = "none" THEN replied ELSE next)
            [] OTHER -> Go(k, next)
    BY <1>1, <1>3, <1>4, <1>5 DEF ResolveProduct, Mem
  <2>2. QED
    BY <2>1
<1>7. CASE Go(k, next)
  <2>1. PICK x : x = next
    OBVIOUS
  <2>2. CallFields(x) /\ "notice" \notin DOMAIN x
    BY <1>2, <1>3, <2>1 DEF CallFields, Pcs, Leaves, Questions, Types
  <2>3. ASSUME NEW d, Went(c, d, x) PROVE Sound(d)
    <3>1. /\ Same(d, c) /\ d.mem = c.mem /\ d.writes = c.writes /\ d.pc = "barcode"
          /\ d.replied = c.replied /\ d.notice = c.notice
      BY <1>3, <2>1, <2>3 DEF Went, ByFields, FieldOf
    <3>2. Flow(d)
      BY <1>2, <2>3, <3>1 DEF Flow, Same
    <3>3. Objects(d)
      BY <1>2, <2>3, <3>1 DEF Objects, Placed, Flow, Same
    <3>4. Clean => AwaitFlow(d)
      BY <1>2, <2>3, <3>1 DEF AwaitFlow, Awaited, Flow, Same
    <3>5. QED
      BY <3>2, <3>3, <3>4 DEF Sound
  <2>4. QED
    BY <1>1, <1>2, <1>7, <2>1, <2>2, <2>3, GoInv DEF Go, Untouched
<1>8. CASE Go(k, replied)
  <2>1. PICK x : x = replied
    OBVIOUS
  <2>2. CallFields(x) /\ "notice" \notin DOMAIN x
    BY <1>2, <2>1 DEF CallFields, Pcs, Leaves, Questions, Types
  <2>3. ASSUME NEW d, Went(c, d, x) PROVE Sound(d)
    <3>1. /\ Same(d, c) /\ d.mem = c.mem /\ d.writes = c.writes /\ d.pc = "barcode"
          /\ d.replied = TRUE /\ d.notice = c.notice
      BY <2>1, <2>3 DEF Went, ByFields, FieldOf
    <3>2. Flow(d)
      BY <1>2, <2>3, <3>1 DEF Flow, Same
    <3>3. Objects(d)
      BY <1>2, <2>3, <3>1 DEF Objects, Placed, Flow, Same
    <3>4. Clean => AwaitFlow(d)
      BY <1>2, <2>3, <3>1 DEF AwaitFlow, Awaited, Flow, Same
    <3>5. QED
      BY <3>2, <3>3, <3>4 DEF Sound
  <2>4. QED
    BY <1>1, <1>2, <1>8, <2>1, <2>2, <2>3, GoInv DEF Go, Untouched
<1>9. PICK f : f = Also(missing, Also(asks, [notified |-> FALSE]))
  OBVIOUS
<1>10. /\ DOMAIN f \subseteq {"name", "photo", "awaiting", "notified"}
       /\ "name" \in DOMAIN f => f["name"] = "resolution" /\ c.mem.name = "none"
       /\ "photo" \in DOMAIN f =>
             /\ c.mem.photo = NoPhoto /\ f["photo"] \in Photos /\ f["photo"] # NoPhoto
             /\ f["photo"].from = "resolution" /\ f["photo"].object = 0
             /\ "awaiting" \in DOMAIN f
       /\ "awaiting" \in DOMAIN f => f["awaiting"] = TRUE /\ "photo" \in DOMAIN f
       /\ "notified" \in DOMAIN f /\ f["notified"] = FALSE
  <2>1. /\ DOMAIN missing \subseteq {"name", "photo"}
        /\ "name" \in DOMAIN missing => missing["name"] = "resolution" /\ c.mem.name = "none"
        /\ "photo" \in DOMAIN missing =>
              /\ c.mem.photo = NoPhoto /\ missing["photo"] \in Photos
              /\ missing["photo"] # NoPhoto
              /\ missing["photo"].from = "resolution" /\ missing["photo"].object = 0
    <3>1. PICK search : search = "resolution"
      OBVIOUS
    <3>2. PICK fields : fields = {"name", "photo"}
      OBVIOUS
    <3>3. missing = Missing(c.mem, search, fields)
      BY <1>4, <3>1, <3>2
    <3>4. QED
      BY <1>2, <3>1, <3>2, <3>3, MissingFields
  <2>2. PICK g : g = Also(asks, [notified |-> FALSE])
    OBVIOUS
  <2>3. /\ DOMAIN asks \subseteq {"awaiting"}
        /\ "awaiting" \in DOMAIN asks <=> "photo" \in DOMAIN missing
        /\ "awaiting" \in DOMAIN asks => asks["awaiting"] = TRUE
    BY <1>5 DEF NoFields
  <2>4. PICK h : h = [notified |-> FALSE]
    OBVIOUS
  <2>5. DOMAIN h = {"notified"} /\ h["notified"] = FALSE
    BY <2>4
  <2>6. /\ DOMAIN g = DOMAIN asks \union {"notified"} /\ g["notified"] = FALSE
        /\ "awaiting" \in DOMAIN asks => g["awaiting"] = TRUE
    BY <2>2, <2>3, <2>4, <2>5 DEF Also
  <2>7. /\ DOMAIN f = DOMAIN missing \union DOMAIN g
        /\ \A x \in DOMAIN missing : f[x] = missing[x]
        /\ \A x \in DOMAIN g \ DOMAIN missing : f[x] = g[x]
    BY <1>9, <2>2 DEF Also
  <2>8. QED
    BY <2>1, <2>3, <2>6, <2>7
<1>11. CASE Update(k, Also(missing, Also(asks, [notified |-> FALSE])),
                  [ok \in BOOLEAN |-> IF ok THEN next ELSE replied])
  <2>1. PICK x : x = next
    OBVIOUS
  <2>2. PICK y : y = replied
    OBVIOUS
  <2>3. PICK more : more = [ok \in BOOLEAN |-> IF ok THEN x ELSE y]
    OBVIOUS
  <2>4. CallFields(x) /\ CallFields(y)
    BY <1>2, <1>3, <2>1, <2>2 DEF CallFields, Pcs, Leaves, Questions, Types
  <2>5. more[TRUE] = x /\ more[FALSE] = y
    BY <2>3
  <2>6. /\ FieldSets(f) /\ Fair(c, f) /\ "type" \notin DOMAIN f
        /\ "photo" \in DOMAIN f => f["photo"].object \in 0..store
    <3>1. FieldSets(f)
      BY <1>10 DEF FieldSets, Origins
    <3>2. Fair(c, f)
      BY <1>10 DEF Fair, NoPhoto
    <3>3. QED
      BY <1>10, <3>1, <3>2, Typed
  <2>7. ASSUME NEW d, Accepted(c, d, f, x) PROVE Sound(d) /\ Tells(c, d, f)
    <3>1. /\ Same(d, c) /\ d.pc = "barcode" /\ d.replied = c.replied /\ d.notice = c.notice
      BY <1>3, <2>1, <2>7 DEF Accepted, ByFields, FieldOf
    <3>2. /\ Written(c.mem, f).type = c.mem.type
          /\ Written(c.mem, f).awaiting = (IF "photo" \in DOMAIN f THEN TRUE ELSE c.mem.awaiting)
          /\ "photo" \in DOMAIN f => Written(c.mem, f).photo # NoPhoto
          /\ "photo" \notin DOMAIN f => Written(c.mem, f).photo = c.mem.photo
      BY <1>2, <1>10, <2>6, WrittenRow DEF FieldOf
    <3>3. Flow(d)
      BY <1>2, <2>7, <3>1, <3>2 DEF Flow, Same, Accepted, Refused
    <3>4. Objects(d)
      BY <1>2, <2>7, <3>1, <3>2 DEF Objects, Placed, Flow, Same, Accepted, Refused
    <3>5. Clean => AwaitFlow(d)
      BY <1>2, <2>7, <3>1, <3>2 DEF AwaitFlow, Awaited, Flow, Same, Accepted, Refused
    <3>6. Tells(c, d, f)
      BY <1>2, <2>6, <2>7, <3>1 DEF Flow, Tells
    <3>7. QED
      BY <3>3, <3>4, <3>5, <3>6 DEF Sound
  <2>8. ASSUME NEW d, Refused(c, d, f, y) PROVE Sound(d)
    <3>1. /\ Same(d, c) /\ d.pc = "barcode" /\ d.writes = "refused"
          /\ d.replied = TRUE /\ d.notice = c.notice
      BY <2>2, <2>8 DEF Refused, ByFields, FieldOf
    <3>2. /\ Written(c.mem, f).type = c.mem.type
          /\ Written(c.mem, f).awaiting = (IF "photo" \in DOMAIN f THEN TRUE ELSE c.mem.awaiting)
          /\ "photo" \in DOMAIN f => Written(c.mem, f).photo # NoPhoto
          /\ "photo" \notin DOMAIN f => Written(c.mem, f).photo = c.mem.photo
      BY <1>2, <1>10, <2>6, WrittenRow DEF FieldOf
    <3>3. Flow(d)
      BY <1>2, <2>8, <3>1, <3>2 DEF Flow, Same, Accepted, Refused
    <3>4. Objects(d)
      BY <1>2, <2>8, <3>1, <3>2 DEF Objects, Placed, Flow, Same, Accepted, Refused
    <3>5. Clean => AwaitFlow(d)
      BY <1>2, <2>8, <3>1, <3>2 DEF AwaitFlow, Awaited, Flow, Same, Accepted, Refused
    <3>6. QED
      BY <3>3, <3>4, <3>5 DEF Sound
  <2>9. Update(k, f, more)
    BY <1>1, <1>9, <1>11, <2>1, <2>2, <2>3 DEF Mem
  <2>10. QED
    BY <1>1, <1>2, <2>4, <2>5, <2>6, <2>7, <2>8, <2>9, UpdateInv
<1>12. QED
  BY <1>6, <1>7, <1>8, <1>11


-----------------------------------------------------------------------------
\* The bar code

\* Where a call goes on after the bar code.
LEMMA EnrichedFields ==
    ASSUME NEW k \in Workers, NEW c, c = calls[k], NEW x, x = Enriched(k),
           c.kind \in {"create", "regenerate", "barcode", "photo"}
    PROVE  /\ DOMAIN x = {"pc"} /\ CallFields(x)
           /\ c.kind = "photo" => x["pc"] = "first"
           /\ c.kind = "barcode" => x["pc"] = "end"
           /\ c.kind \in {"create", "regenerate"} => x["pc"] = "discover"
<1>1. CASE c.kind = "photo"
  <2>1. x = [pc |-> "first"]
    BY <1>1 DEF Enriched
  <2>2. QED
    BY <1>1, <2>1 DEF CallFields, Pcs
<1>2. CASE c.kind = "barcode"
  <2>1. x = [pc |-> "end"]
    BY <1>2 DEF Enriched
  <2>2. QED
    BY <1>2, <2>1 DEF CallFields, Pcs
<1>3. CASE c.kind \in {"create", "regenerate"}
  <2>1. x = [pc |-> "discover"]
    BY <1>3 DEF Enriched
  <2>2. QED
    BY <1>3, <2>1 DEF CallFields, Pcs
<1>4. QED
  BY <1>1, <1>2, <1>3

\* EnterBarcode.
LEMMA EnterBarcodeInv ==
    ASSUME IInv, NEW k \in Workers, EnterBarcode(k)
    PROVE  IInv'
<1>1. PICK c : c = calls[k]
  OBVIOUS
<1>2. /\ c.pc = "barcode" /\ c \in CallsIn(store) /\ c.mem \in DraftRows /\ c.asked \in Asked
      /\ Flow(c) /\ Objects(c) /\ (Clean => AwaitFlow(c))
  BY <1>1, CallAt DEF EnterBarcode, At
<1>3. PICK next : next = Enriched(k)
  OBVIOUS
<1>4. /\ DOMAIN next = {"pc"} /\ CallFields(next)
      /\ c.kind = "photo" => next["pc"] = "first"
      /\ c.kind = "barcode" => next["pc"] = "end"
      /\ c.kind \in {"create", "regenerate"} => next["pc"] = "discover"
      /\ c.kind \in {"create", "regenerate", "barcode", "photo"}
  BY <1>1, <1>2, <1>3, EnrichedFields DEF Flow
<1>5. \/ Go(k, next)
      \/ Go(k, [pc |-> "lookup"])
      \/ Update(k, [ean |-> TRUE], Either([pc |-> "lookup"]))
  BY <1>3 DEF EnterBarcode
<1>6. CASE Go(k, next)
  <2>1. PICK x : x = next
    OBVIOUS
  <2>2. CallFields(x) /\ "notice" \notin DOMAIN x
    BY <1>4, <2>1 DEF CallFields, Pcs, Leaves, Questions, Types
  <2>3. ASSUME NEW d, Went(c, d, x) PROVE Sound(d)
    <3>1. /\ Same(d, c) /\ d.mem = c.mem /\ d.writes = c.writes
          /\ c.kind = "photo" => d.pc = "first"
          /\ c.kind = "barcode" => d.pc = "end" /\ d.q = c.q
          /\ c.kind \in {"create", "regenerate"} => d.pc = "discover"
          /\ d.replied = c.replied /\ d.notice = c.notice
      BY <1>4, <2>1, <2>3 DEF Went, ByFields, FieldOf
    <3>2. Flow(d)
      BY <1>2, <1>4, <2>3, <3>1 DEF Flow, Same
    <3>3. Objects(d)
      BY <1>2, <1>4, <2>3, <3>1 DEF Objects, Placed, Flow, Same, NoObject
    <3>4. Clean => AwaitFlow(d)
      BY <1>2, <1>4, <2>3, <3>1 DEF AwaitFlow, Awaited, Flow, Same, LeftBy, Asking
    <3>5. QED
      BY <3>2, <3>3, <3>4 DEF Sound
  <2>4. QED
    BY <1>1, <1>2, <1>6, <2>1, <2>2, <2>3, GoInv DEF Go, Untouched
<1>7. CASE Go(k, [pc |-> "lookup"])
  <2>1. PICK x : x = [pc |-> "lookup"]
    OBVIOUS
  <2>2. CallFields(x) /\ "notice" \notin DOMAIN x
    BY <1>2, <2>1 DEF CallFields, Pcs, Leaves, Questions, Types
  <2>3. ASSUME NEW d, Went(c, d, x) PROVE Sound(d)
    <3>1. /\ Same(d, c) /\ d.mem = c.mem /\ d.writes = c.writes /\ d.pc = "lookup"
          /\ d.q = c.q /\ d.replied = c.replied /\ d.notice = c.notice
      BY <2>1, <2>3 DEF Went, ByFields, FieldOf
    <3>2. Flow(d)
      BY <1>2, <1>4, <2>3, <3>1 DEF Flow, Same
    <3>3. Objects(d)
      BY <1>2, <1>4, <2>3, <3>1 DEF Objects, Placed, Flow, Same
    <3>4. Clean => AwaitFlow(d)
      BY <1>2, <1>4, <2>3, <3>1 DEF AwaitFlow, Awaited, Flow, Same
    <3>5. QED
      BY <3>2, <3>3, <3>4 DEF Sound
  <2>4. QED
    BY <1>1, <1>2, <1>7, <2>1, <2>2, <2>3, GoInv DEF Go, Untouched
<1>8. CASE Update(k, [ean |-> TRUE], Either([pc |-> "lookup"]))
  <2>1. PICK f : f = [ean |-> TRUE]
    OBVIOUS
  <2>2. PICK x : x = [pc |-> "lookup"]
    OBVIOUS
  <2>3. CallFields(x)
    BY <1>2, <2>2 DEF CallFields, Pcs, Leaves, Questions, Types
  <2>4. /\ FieldSets(f) /\ Fair(c, f) /\ "photo" \notin DOMAIN f
        /\ "awaiting" \notin DOMAIN f /\ "type" \notin DOMAIN f
    BY <2>1 DEF FieldSets, Fair
  <2>5. ASSUME NEW d, Updated(c, d, f, x) PROVE Sound(d) /\ Tells(c, d, f)
    <3>1. /\ Same(d, c) /\ d.pc = "lookup"
          /\ d.q = c.q /\ d.replied = c.replied /\ d.notice = c.notice
      BY <2>2, <2>5 DEF Updated, ByFields, FieldOf
    <3>2. /\ Written(c.mem, f).type = c.mem.type /\ Written(c.mem, f).awaiting = c.mem.awaiting
          /\ Written(c.mem, f).photo = c.mem.photo
      BY <1>2, <2>4, WrittenRow DEF FieldOf
    <3>3. Flow(d)
      BY <1>2, <1>4, <2>5, <3>1, <3>2 DEF Flow, Same, Updated
    <3>4. Objects(d)
      BY <1>2, <1>4, <2>5, <3>1, <3>2 DEF Objects, Placed, Flow, Same, Updated
    <3>5. Clean => AwaitFlow(d)
      BY <1>2, <1>4, <2>5, <3>1, <3>2 DEF AwaitFlow, Awaited, Flow, Same, Updated
    <3>6. Tells(c, d, f)
      BY <1>2, <2>1, <2>4, <2>5, <3>1 DEF Flow, Tells
    <3>7. QED
      BY <3>3, <3>4, <3>5, <3>6 DEF Sound
  <2>6. Update(k, f, Either(x))
    BY <1>1, <1>8, <2>1, <2>2 DEF Mem
  <2>7. QED
    BY <1>1, <1>2, <2>3, <2>4, <2>5, <2>6, EitherInv
<1>9. QED
  BY <1>5, <1>6, <1>7, <1>8


\* LookUpBarcode.
LEMMA LookUpBarcodeInv ==
    ASSUME IInv, NEW k \in Workers, LookUpBarcode(k)
    PROVE  IInv'
<1>1. PICK c : c = calls[k]
  OBVIOUS
<1>2. /\ c.pc = "lookup" /\ c \in CallsIn(store) /\ c.mem \in DraftRows /\ c.asked \in Asked
      /\ Flow(c) /\ Objects(c) /\ (Clean => AwaitFlow(c))
  BY <1>1, CallAt DEF LookUpBarcode, At
<1>3. PICK next : next = Enriched(k)
  OBVIOUS
<1>4. /\ DOMAIN next = {"pc"} /\ CallFields(next)
      /\ c.kind = "photo" => next["pc"] = "first"
      /\ c.kind = "barcode" => next["pc"] = "end"
      /\ c.kind \in {"create", "regenerate"} => next["pc"] = "discover"
      /\ c.kind \in {"create", "regenerate", "barcode", "photo"}
  BY <1>1, <1>2, <1>3, EnrichedFields DEF Flow
<1>5. \/ Go(k, next)
      \/ ~c.mem.notified /\ Update(k, [notified |-> TRUE], Either(Also([notice |-> TRUE], next)))
      \/ \E fields \in SUBSET {"name", "photo"} :
            Update(k, Also(Missing(c.mem, "barcode", fields), [notified |-> FALSE]), Either(next))
  <2>1. PICK result \in Enrichments :
          CASE result = "nothing" ->
                 IF Mem(k).notified THEN Go(k, next)
                 ELSE Update(k, [notified |-> TRUE], Either(Also([notice |-> TRUE], next)))
            [] result = "product" ->
                 \E fields \in SUBSET {"name", "photo"} :
                 LET missing == Missing(Mem(k), "barcode", fields)
                 IN  \/ missing = NoFields /\ ~Mem(k).notified /\ Go(k, next)
                     \/ Update(k, Also(missing, [notified |-> FALSE]), Either(next))
            [] OTHER -> calls[k].kind = "photo" /\ Go(k, next)
    BY <1>3 DEF LookUpBarcode
  <2>2. Mem(k) = c.mem
    BY <1>1 DEF Mem
  <2>3. QED
    BY <2>1, <2>2
<1>6. CASE Go(k, next)
  <2>1. PICK x : x = next
    OBVIOUS
  <2>2. CallFields(x) /\ "notice" \notin DOMAIN x
    BY <1>4, <2>1 DEF CallFields, Pcs, Leaves, Questions, Types
  <2>3. ASSUME NEW d, Went(c, d, x) PROVE Sound(d)
    <3>1. /\ Same(d, c) /\ d.mem = c.mem /\ d.writes = c.writes
          /\ c.kind = "photo" => d.pc = "first"
          /\ c.kind = "barcode" => d.pc = "end" /\ d.q = c.q
          /\ c.kind \in {"create", "regenerate"} => d.pc = "discover"
          /\ d.replied = c.replied /\ d.notice = c.notice
      BY <1>4, <2>1, <2>3 DEF Went, ByFields, FieldOf
    <3>2. Flow(d)
      BY <1>2, <1>4, <2>3, <3>1 DEF Flow, Same
    <3>3. Objects(d)
      BY <1>2, <1>4, <2>3, <3>1 DEF Objects, Placed, Flow, Same, NoObject
    <3>4. Clean => AwaitFlow(d)
      BY <1>2, <1>4, <2>3, <3>1 DEF AwaitFlow, Awaited, Flow, Same, LeftBy, Asking
    <3>5. QED
      BY <3>2, <3>3, <3>4 DEF Sound
  <2>4. QED
    BY <1>1, <1>2, <1>6, <2>1, <2>2, <2>3, GoInv DEF Go, Untouched
<1>7. CASE /\ ~c.mem.notified
            /\ Update(k, [notified |-> TRUE], Either(Also([notice |-> TRUE], next)))
  <2>1. PICK f : f = [notified |-> TRUE]
    OBVIOUS
  <2>2. PICK x : x = Also([notice |-> TRUE], next)
    OBVIOUS
  <2>3. /\ CallFields(x)
        /\ DOMAIN x = DOMAIN next \union {"notice"} /\ x["notice"] = TRUE
        /\ \A y \in DOMAIN next : x[y] = next[y]
    <3>1. PICK told : told = [notice |-> TRUE]
      OBVIOUS
    <3>2. DOMAIN told = {"notice"} /\ told["notice"] = TRUE
      BY <3>1
    <3>3. x = Also(told, next)
      BY <2>2, <3>1
    <3>4. /\ DOMAIN x = DOMAIN next \union {"notice"} /\ x["notice"] = TRUE
          /\ \A y \in DOMAIN next : x[y] = next[y]
      BY <1>4, <3>2, <3>3 DEF Also
    <3>5. QED
      BY <1>4, <3>4 DEF CallFields
  <2>4. /\ FieldSets(f) /\ Fair(c, f) /\ "photo" \notin DOMAIN f
        /\ "awaiting" \notin DOMAIN f /\ "type" \notin DOMAIN f
        /\ "notified" \in DOMAIN f /\ f["notified"] = TRUE
    BY <2>1 DEF FieldSets, Fair
  <2>5. ASSUME NEW d, Updated(c, d, f, x) PROVE Sound(d) /\ Tells(c, d, f)
    <3>1. /\ c.kind = "photo" => d.pc = "first"
          /\ c.kind = "barcode" => d.pc = "end" /\ d.q = c.q
          /\ c.kind \in {"create", "regenerate"} => d.pc = "discover"
          /\ d.replied = c.replied /\ d.notice = TRUE
      BY <1>4, <2>3, <2>5 DEF Updated, ByFields, FieldOf
    <3>2. /\ Written(c.mem, f).type = c.mem.type /\ Written(c.mem, f).awaiting = c.mem.awaiting
          /\ Written(c.mem, f).photo = c.mem.photo
      BY <1>2, <2>4, WrittenRow DEF FieldOf
    <3>3. Flow(d)
      BY <1>2, <1>4, <2>5, <3>1, <3>2 DEF Flow, Same, Updated
    <3>4. Objects(d)
      BY <1>2, <1>4, <2>5, <3>1, <3>2 DEF Objects, Placed, Flow, Same, Updated, NoObject
    <3>5. Clean => AwaitFlow(d)
      BY <1>2, <1>4, <2>5, <3>1, <3>2 DEF AwaitFlow, Awaited, Flow, Same, Updated, LeftBy,
          Asking
    <3>6. Tells(c, d, f)
      BY <1>7, <2>4 DEF Tells
    <3>7. QED
      BY <3>3, <3>4, <3>5, <3>6 DEF Sound
  <2>6. Update(k, f, Either(x))
    BY <1>1, <1>7, <2>1, <2>2 DEF Mem
  <2>7. QED
    BY <1>1, <1>2, <2>3, <2>4, <2>5, <2>6, EitherInv
<1>8. ASSUME NEW fields \in SUBSET {"name", "photo"},
             Update(k, Also(Missing(c.mem, "barcode", fields), [notified |-> FALSE]), Either(next))
      PROVE  IInv'
  <2>1. PICK missing : missing = Missing(c.mem, "barcode", fields)
    OBVIOUS
  <2>2. PICK f : f = Also(missing, [notified |-> FALSE])
    OBVIOUS
  <2>3. /\ DOMAIN f \subseteq {"name", "photo", "notified"}
        /\ "name" \in DOMAIN f => f["name"] = "barcode" /\ c.mem.name = "none"
        /\ "photo" \in DOMAIN f =>
              /\ c.mem.photo = NoPhoto /\ f["photo"] \in Photos /\ f["photo"] # NoPhoto
              /\ f["photo"].from = "barcode" /\ f["photo"].object = 0
        /\ "notified" \in DOMAIN f /\ f["notified"] = FALSE
    <3>1. PICK search \in {"resolution", "barcode", "discovery"} : search = "barcode"
      OBVIOUS
    <3>2. PICK r \in DraftRows : r = c.mem
      BY <1>2
    <3>3. missing = Missing(r, search, fields) /\ fields \subseteq {"name", "photo"}
      BY <2>1, <3>1, <3>2
    <3>4. /\ DOMAIN missing \subseteq fields
          /\ "name" \in DOMAIN missing => missing["name"] = search /\ r.name = "none"
          /\ "photo" \in DOMAIN missing =>
                 /\ missing["photo"] = External(search) /\ r.photo = NoPhoto
                 /\ missing["photo"] \in Photos /\ missing["photo"] # NoPhoto
                 /\ missing["photo"].from = search /\ missing["photo"].object = 0
      BY <3>3, MissingFields
    <3>5. /\ DOMAIN missing \subseteq {"name", "photo"}
          /\ "name" \in DOMAIN missing => missing["name"] = "barcode" /\ c.mem.name = "none"
          /\ "photo" \in DOMAIN missing =>
                /\ c.mem.photo = NoPhoto /\ missing["photo"] \in Photos
                /\ missing["photo"] # NoPhoto
                /\ missing["photo"].from = "barcode" /\ missing["photo"].object = 0
      BY <3>1, <3>2, <3>3, <3>4
    <3>6. PICK renew : renew = [notified |-> FALSE]
      OBVIOUS
    <3>7. DOMAIN renew = {"notified"} /\ renew["notified"] = FALSE
      BY <3>6
    <3>8. /\ DOMAIN f = DOMAIN missing \union {"notified"} /\ f["notified"] = FALSE
          /\ \A x \in DOMAIN missing : f[x] = missing[x]
      BY <2>2, <3>5, <3>6, <3>7 DEF Also
    <3>9. QED
      BY <3>5, <3>8
  <2>4. /\ FieldSets(f) /\ Fair(c, f)
        /\ "type" \notin DOMAIN f /\ "awaiting" \notin DOMAIN f
        /\ "photo" \in DOMAIN f => f["photo"].object \in 0..store
    <3>1. FieldSets(f)
      BY <2>3 DEF FieldSets, Origins
    <3>2. Fair(c, f)
      BY <2>3 DEF Fair, NoPhoto
    <3>3. QED
      BY <2>3, <3>1, <3>2, Typed
  <2>5. /\ Written(c.mem, f).type = c.mem.type
        /\ Written(c.mem, f).awaiting = c.mem.awaiting
        /\ c.mem.photo # NoPhoto => Written(c.mem, f).photo = c.mem.photo
        /\ Written(c.mem, f).photo \in {c.mem.photo, f["photo"]}
        /\ Written(c.mem, f).photo # NoPhoto \/ Written(c.mem, f).photo = c.mem.photo
    BY <1>2, <2>3, <2>4, WrittenRow DEF FieldOf
  <2>6. c.kind = "photo" => c.mem.photo # NoPhoto
    BY <1>2 DEF Objects, Placed, NoPhoto
  <2>7. ASSUME NEW d, Updated(c, d, f, next) PROVE Sound(d) /\ Tells(c, d, f)
    <3>1. /\ c.kind = "photo" => d.pc = "first"
          /\ c.kind = "barcode" => d.pc = "end" /\ d.q = c.q
          /\ c.kind \in {"create", "regenerate"} => d.pc = "discover"
          /\ d.replied = c.replied /\ d.notice = c.notice
      BY <1>4, <2>7 DEF Updated, ByFields, FieldOf
    <3>2. Flow(d)
      BY <1>2, <1>4, <2>5, <2>6, <2>7, <3>1 DEF Flow, Same, Updated
    <3>3. Objects(d)
      BY <1>2, <1>4, <2>5, <2>6, <2>7, <3>1 DEF Objects, Placed, Flow, Same, Updated, NoObject
    <3>4. Tells(c, d, f)
      BY <1>2, <3>1 DEF Flow, Tells
    <3>5. Clean /\ c.kind = "barcode" /\ d.writes = "accepted" => Awaited(d.mem, c.asked)
      <4>1. Awaited(c.mem, c.asked) /\ c.asked.type = "PRODUCT_CONFIRMATION" =>
               c.mem.photo # NoPhoto
        BY DEF Awaited, NoPhoto
      <4>2. d.writes = "accepted" =>
              /\ c.writes \in {"none", "accepted"} /\ d.mem.awaiting = c.mem.awaiting
              /\ c.mem.photo # NoPhoto => d.mem.photo = c.mem.photo
        BY <2>5, <2>7 DEF Updated
      <4>3. QED
        BY <1>2, <4>1, <4>2 DEF AwaitFlow, Awaited
    <3>6. Clean => AwaitFlow(d)
      BY <1>2, <1>4, <2>5, <2>6, <2>7, <3>1, <3>5 DEF AwaitFlow, Awaited, Flow, Same, Updated,
          LeftBy, Asking
    <3>7. QED
      BY <3>2, <3>3, <3>4, <3>6 DEF Sound
  <2>8. Update(k, f, Either(next))
    BY <1>8, <2>1, <2>2
  <2>9. QED
    BY <1>1, <1>2, <1>4, <2>4, <2>7, <2>8, EitherInv
<1>9. QED
  BY <1>5, <1>6, <1>7, <1>8


-----------------------------------------------------------------------------
\* Discovery, and what a text leads to

\* Discover.
LEMMA DiscoverInv ==
    ASSUME IInv, NEW k \in Workers, Discover(k)
    PROVE  IInv'
<1>1. PICK c : c = calls[k]
  OBVIOUS
<1>2. /\ c.pc = "discover" /\ c \in CallsIn(store) /\ c.mem \in DraftRows /\ c.asked \in Asked
      /\ Flow(c) /\ Objects(c) /\ (Clean => AwaitFlow(c))
  BY <1>1, CallAt DEF Discover, At
<1>3. PICK next : next = [pc |-> "settle"]
  OBVIOUS
<1>4. \/ Go(k, next)
      \/ Update(k, Missing(c.mem, "discovery", {"name", "photo"}), Either(next))
  BY <1>1, <1>3 DEF Discover, Mem
<1>5. CASE Go(k, next)
  <2>1. PICK x : x = next
    OBVIOUS
  <2>2. CallFields(x) /\ "notice" \notin DOMAIN x
    BY <1>2, <1>3, <2>1 DEF CallFields, Pcs, Leaves, Questions, Types
  <2>3. ASSUME NEW d, Went(c, d, x) PROVE Sound(d)
    <3>1. /\ Same(d, c) /\ d.mem = c.mem /\ d.writes = c.writes /\ d.pc = "settle"
          /\ d.replied = c.replied /\ d.notice = c.notice
      BY <1>3, <2>1, <2>3 DEF Went, ByFields, FieldOf
    <3>2. Flow(d)
      BY <1>2, <2>3, <3>1 DEF Flow, Same
    <3>3. Objects(d)
      BY <1>2, <2>3, <3>1 DEF Objects, Placed, Flow, Same
    <3>4. Clean => AwaitFlow(d)
      BY <1>2, <2>3, <3>1 DEF AwaitFlow, Awaited, Flow, Same
    <3>5. QED
      BY <3>2, <3>3, <3>4 DEF Sound
  <2>4. QED
    BY <1>1, <1>2, <1>5, <2>1, <2>2, <2>3, GoInv DEF Go, Untouched
<1>6. CASE Update(k, Missing(c.mem, "discovery", {"name", "photo"}), Either(next))
  <2>1. PICK f : f = Missing(c.mem, "discovery", {"name", "photo"})
    OBVIOUS
  <2>2. /\ DOMAIN f \subseteq {"name", "photo"}
        /\ "name" \in DOMAIN f => f["name"] = "discovery" /\ c.mem.name = "none"
        /\ "photo" \in DOMAIN f =>
              /\ c.mem.photo = NoPhoto /\ f["photo"] \in Photos /\ f["photo"] # NoPhoto
              /\ f["photo"].from = "discovery" /\ f["photo"].object = 0
    <3>1. PICK search \in {"resolution", "barcode", "discovery"} : search = "discovery"
      OBVIOUS
    <3>2. PICK r \in DraftRows : r = c.mem
      BY <1>2
    <3>3. PICK fields : fields = {"name", "photo"}
      OBVIOUS
    <3>4. f = Missing(r, search, fields) /\ fields \subseteq {"name", "photo"}
      BY <2>1, <3>1, <3>2, <3>3
    <3>5. /\ DOMAIN f \subseteq fields
          /\ "name" \in DOMAIN f => f["name"] = search /\ r.name = "none"
          /\ "photo" \in DOMAIN f =>
                 /\ f["photo"] = External(search) /\ r.photo = NoPhoto
                 /\ f["photo"] \in Photos /\ f["photo"] # NoPhoto
                 /\ f["photo"].from = search /\ f["photo"].object = 0
      BY <3>3, <3>4, MissingFields
    <3>6. QED
      BY <3>1, <3>2, <3>3, <3>5
  <2>3. /\ FieldSets(f) /\ Fair(c, f) /\ "notified" \notin DOMAIN f
        /\ "type" \notin DOMAIN f /\ "awaiting" \notin DOMAIN f
        /\ "photo" \in DOMAIN f => f["photo"].object \in 0..store
    <3>1. FieldSets(f)
      BY <2>2 DEF FieldSets, Origins
    <3>2. Fair(c, f)
      BY <2>2 DEF Fair, NoPhoto
    <3>3. QED
      BY <2>2, <3>1, <3>2, Typed
  <2>4. /\ Written(c.mem, f).type = c.mem.type
        /\ Written(c.mem, f).awaiting = c.mem.awaiting
        /\ Written(c.mem, f).photo # NoPhoto \/ Written(c.mem, f).photo = c.mem.photo
    BY <1>2, <2>2, <2>3, WrittenRow DEF FieldOf
  <2>5. CallFields(next)
    BY <1>3 DEF CallFields, Pcs
  <2>6. ASSUME NEW d, Updated(c, d, f, next) PROVE Sound(d) /\ Tells(c, d, f)
    <3>1. d.pc = "settle" /\ d.replied = c.replied /\ d.notice = c.notice
      BY <1>3, <2>6 DEF Updated, ByFields, FieldOf
    <3>2. Flow(d)
      BY <1>2, <2>4, <2>6, <3>1 DEF Flow, Same, Updated
    <3>3. Objects(d)
      BY <1>2, <2>4, <2>6, <3>1 DEF Objects, Placed, Flow, Same, Updated
    <3>4. Clean => AwaitFlow(d)
      BY <1>2, <2>4, <2>6, <3>1 DEF AwaitFlow, Awaited, Flow, Same, Updated
    <3>5. Tells(c, d, f)
      BY <1>2, <2>3, <3>1 DEF Flow, Tells
    <3>6. QED
      BY <3>2, <3>3, <3>4, <3>5 DEF Sound
  <2>7. Update(k, f, Either(next))
    BY <1>6, <2>1
  <2>8. QED
    BY <1>1, <1>2, <2>3, <2>5, <2>6, <2>7, EitherInv
<1>7. QED
  BY <1>4, <1>5, <1>6

\* Settle.
LEMMA SettleInv ==
    ASSUME IInv, NEW k \in Workers, Settle(k)
    PROVE  IInv'
<1>1. PICK c : c = calls[k]
  OBVIOUS
<1>2. /\ c.pc = "settle" /\ c \in CallsIn(store) /\ c.mem \in DraftRows /\ c.asked \in Asked
      /\ Flow(c) /\ Objects(c) /\ (Clean => AwaitFlow(c))
  BY <1>1, CallAt DEF Settle, At
<1>3. \/ c.replied /\ Go(k, End("NONE"))
      \/ /\ ~c.replied /\ c.mem.awaiting
         /\ c.kind = "create" /\ c.mem.type = "SINGLE" /\ c.mem.photo # NoPhoto
         /\ Go(k, [pc |-> "prompt"])
      \/ /\ c.mem.awaiting
         /\ ~(c.kind = "create" /\ c.mem.type = "SINGLE" /\ c.mem.photo # NoPhoto)
         /\ Go(k, End("PRODUCT_CONFIRMATION"))
      \/ /\ ~c.replied /\ ~c.mem.awaiting
         /\ \E q \in {"NONE", "MISSING_INFO"} : Go(k, End(q))
  BY <1>1 DEF Settle, Mem, Creates
<1>4. CASE c.replied /\ Go(k, End("NONE"))
  <2>1. PICK x : x = End("NONE")
    OBVIOUS
  <2>2. CallFields(x) /\ "notice" \notin DOMAIN x
    BY <1>2, <2>1 DEF End, CallFields, Pcs, Leaves, Questions, Types
  <2>3. ASSUME NEW d, Went(c, d, x) PROVE Sound(d)
    <3>1. /\ Same(d, c) /\ d.mem = c.mem /\ d.writes = c.writes
          /\ d.pc = "end" /\ d.q = "NONE"
          /\ d.replied = c.replied /\ d.notice = c.notice
      BY <2>1, <2>3 DEF Went, ByFields, FieldOf, End
    <3>2. Flow(d)
      BY <1>2, <1>4, <2>3, <3>1 DEF Flow, Same
    <3>3. Objects(d)
      BY <1>2, <1>4, <2>3, <3>1 DEF Objects, Placed, Flow, Same
    <3>4. Clean => AwaitFlow(d)
      BY <1>2, <1>4, <2>3, <3>1 DEF AwaitFlow, Awaited, Flow, Same, LeftBy, Asking
    <3>5. QED
      BY <3>2, <3>3, <3>4 DEF Sound
  <2>4. QED
    BY <1>1, <1>2, <1>4, <2>1, <2>2, <2>3, GoInv DEF Go, Untouched
<1>5. CASE /\ ~c.replied /\ c.mem.awaiting
            /\ c.kind = "create" /\ c.mem.type = "SINGLE" /\ c.mem.photo # NoPhoto
            /\ Go(k, [pc |-> "prompt"])
  <2>1. PICK x : x = [pc |-> "prompt"]
    OBVIOUS
  <2>2. CallFields(x) /\ "notice" \notin DOMAIN x
    BY <1>2, <2>1 DEF CallFields, Pcs, Leaves, Questions, Types
  <2>3. ASSUME NEW d, Went(c, d, x) PROVE Sound(d)
    <3>1. /\ Same(d, c) /\ d.mem = c.mem /\ d.writes = c.writes /\ d.pc = "prompt"
          /\ d.replied = c.replied /\ d.notice = c.notice
      BY <2>1, <2>3 DEF Went, ByFields, FieldOf
    <3>2. Flow(d)
      BY <1>2, <1>5, <2>3, <3>1 DEF Flow, Same
    <3>3. Objects(d)
      BY <1>2, <1>5, <2>3, <3>1 DEF Objects, Placed, Flow, Same
    <3>4. Clean => AwaitFlow(d)
      BY <1>2, <1>5, <2>3, <3>1 DEF AwaitFlow, Awaited, Flow, Same
    <3>5. QED
      BY <3>2, <3>3, <3>4 DEF Sound
  <2>4. QED
    BY <1>1, <1>2, <1>5, <2>1, <2>2, <2>3, GoInv DEF Go, Untouched
<1>6. CASE /\ c.mem.awaiting
            /\ ~(c.kind = "create" /\ c.mem.type = "SINGLE" /\ c.mem.photo # NoPhoto)
            /\ Go(k, End("PRODUCT_CONFIRMATION"))
  <2>1. PICK x : x = End("PRODUCT_CONFIRMATION")
    OBVIOUS
  <2>2. CallFields(x) /\ "notice" \notin DOMAIN x
    BY <1>2, <2>1 DEF End, CallFields, Pcs, Leaves, Questions, Types
  <2>3. ASSUME NEW d, Went(c, d, x) PROVE Sound(d)
    <3>1. /\ Same(d, c) /\ d.mem = c.mem /\ d.writes = c.writes
          /\ d.pc = "end" /\ d.q = "PRODUCT_CONFIRMATION"
          /\ d.replied = c.replied /\ d.notice = c.notice
      BY <2>1, <2>3 DEF Went, ByFields, FieldOf, End
    <3>2. Flow(d)
      BY <1>2, <1>6, <2>3, <3>1 DEF Flow, Same
    <3>3. Objects(d)
      BY <1>2, <1>6, <2>3, <3>1 DEF Objects, Placed, Flow, Same
    <3>4. Clean => AwaitFlow(d)
      BY <1>2, <1>6, <2>3, <3>1 DEF AwaitFlow, Awaited, Flow, Same, LeftBy, Asking
    <3>5. QED
      BY <3>2, <3>3, <3>4 DEF Sound
  <2>4. QED
    BY <1>1, <1>2, <1>6, <2>1, <2>2, <2>3, GoInv DEF Go, Untouched
<1>7. ASSUME ~c.replied, ~c.mem.awaiting, NEW q \in {"NONE", "MISSING_INFO"}, Go(k, End(q))
      PROVE  IInv'
  <2>1. PICK x : x = End(q)
    OBVIOUS
  <2>2. CallFields(x) /\ "notice" \notin DOMAIN x
    BY <1>2, <2>1 DEF End, CallFields, Pcs, Leaves, Questions, Types
  <2>3. ASSUME NEW d, Went(c, d, x) PROVE Sound(d)
    <3>1. /\ Same(d, c) /\ d.mem = c.mem /\ d.writes = c.writes /\ d.pc = "end" /\ d.q = q
          /\ d.replied = c.replied /\ d.notice = c.notice
      BY <2>1, <2>3 DEF Went, ByFields, FieldOf, End
    <3>2. Flow(d)
      BY <1>2, <1>7, <2>3, <3>1 DEF Flow, Same
    <3>3. Objects(d)
      BY <1>2, <1>7, <2>3, <3>1 DEF Objects, Placed, Flow, Same
    <3>4. Clean => AwaitFlow(d)
      BY <1>2, <1>7, <2>3, <3>1 DEF AwaitFlow, Awaited, Flow, Same, LeftBy, Asking
    <3>5. QED
      BY <3>2, <3>3, <3>4 DEF Sound
  <2>4. QED
    BY <1>1, <1>2, <1>7, <2>1, <2>2, <2>3, GoInv DEF Go, Untouched
<1>8. QED
  BY <1>3, <1>4, <1>5, <1>6, <1>7


-----------------------------------------------------------------------------
\* The photo

Uploaded(c, pc) == [c EXCEPT !.pc = pc, !.object = store + 1]

\* An object that is uploaded is held by the call.
LEMMA UploadInv ==
    ASSUME IInv, NEW k \in Workers, NEW pc \in Pcs \ {"idle"}, Upload(k, pc),
           calls[k].object = NoObject, calls[k].pc # "idle",
           NEW d, d = Uploaded(calls[k], pc), Sound(d)
    PROVE  IInv'
<1>1. PICK c : c = calls[k]
  OBVIOUS
<1>2. PICK n : n = store + 1
  OBVIOUS
<1>3. /\ c \in CallsIn(store) /\ store \in Nat /\ n \in Nat /\ n = store + 1
      /\ calls \in [Workers -> CallsIn(store)]
      /\ d = [c EXCEPT !.pc = pc, !.object = n]
  BY <1>1, <1>2, Typed DEF Uploaded
<1>4. \A b \in CallsIn(store) : b \in CallsIn(n)
  <2>1. 0..store \subseteq 0..n
    BY <1>3
  <2>2. QED
    BY <2>1 DEF CallsIn
<1>5. /\ d \in CallsIn(n) /\ d.object = n /\ d.mem = c.mem /\ d.writes = c.writes
      /\ d.asked = c.asked /\ d.notice = c.notice /\ d.kind = c.kind /\ d.pc = pc
  <2>1. c \in CallsIn(n) /\ n \in 0..n /\ pc \in Pcs
    BY <1>3, <1>4
  <2>2. QED
    BY <1>3, <2>1 DEF CallsIn
<1>6. /\ store' = n /\ calls' = [calls EXCEPT ![k] = d]
      /\ UNCHANGED <<row, tx, question, lock, stored, notices, forgotten, received, strained, blind,
                   aborts>>
  BY <1>2 DEF Upload, Uploaded
<1>7. calls' \in [Workers -> CallsIn(n)] /\ calls'[k] = d
      /\ \A j \in Workers : j # k => calls'[j] = calls[j]
  BY <1>3, <1>4, <1>5, <1>6
<1>8. TypeOK'
  <2>1. stored' \subseteq 1..n
    BY <1>3, <1>6, Typed
  <2>2. TypeOK
    BY Typed
  <2>3. QED
    BY <1>3, <1>6, <1>7, <2>1, <2>2 DEF TypeOK, Calls, CallsIn, Pcs, Writes, Leaves, Asked
<1>9. PhotosStored'
  <2>1. 0..store \subseteq 0..n /\ PhotosStored
    BY <1>3, Typed
  <2>2. \A j \in Workers : calls'[j].mem = calls[j].mem
    BY <1>1, <1>5, <1>7
  <2>3. QED
    BY <1>6, <2>1, <2>2 DEF PhotosStored
<1>10. TxInv'
  <2>1. \A j \in Workers : /\ calls'[j].notice = calls[j].notice
                           /\ calls'[j].writes = calls[j].writes
                           /\ calls'[j].kind = calls[j].kind
    BY <1>1, <1>5, <1>7
  <2>2. TxInv
    BY Typed
  <2>3. QED
    BY <1>6, <2>1, <2>2 DEF TxInv
<1>11. LossInv'
  <2>1. Unplaced' = Unplaced
    <3>1. \A j \in Workers : calls[j].object \in 0..store
      BY CallAt
    <3>2. PICK H : H = {calls[j].object : j \in Workers}
      OBVIOUS
    <3>3. PICK G : G = {calls'[j].object : j \in Workers}
      OBVIOUS
    <3>4. n \in G /\ H \subseteq G \union {0} /\ G \subseteq H \union {n}
      <4>1. n \in G
        BY <1>5, <1>7, <3>3
      <4>2. \A j \in Workers : calls[j].object \in G \union {0}
        BY <1>7, <3>3 DEF NoObject
      <4>3. \A j \in Workers : calls'[j].object \in H \union {n}
        BY <1>5, <1>7, <3>2
      <4>4. QED
        BY <3>2, <3>3, <4>1, <4>2, <4>3
    <3>5. (1..n) \ (stored \union G) = (1..store) \ (stored \union H)
      <4>1. H \subseteq 0..store
        BY <3>1, <3>2
      <4>2. QED
        BY <1>3, <3>4, <4>1
    <3>6. QED
      BY <1>6, <3>2, <3>3, <3>5 DEF Unplaced
  <2>2. QED
    BY <1>6, <2>1, Typed DEF LossInv
<1>12. NoticeInv'
  BY <1>6, Typed DEF NoticeInv
<1>13. ASSUME NEW j \in Workers PROVE Flow(calls'[j]) /\ Objects(calls'[j])
  BY <1>7, Typed DEF Sound
<1>14. ASSUME NEW j \in Workers PROVE Copied(j)'
  <2>1. /\ calls'[j].writes = calls[j].writes /\ calls'[j].mem = calls[j].mem
        /\ calls'[j].asked = calls[j].asked
        /\ calls'[j].pc # "idle" => calls[j].pc # "idle"
    BY <1>1, <1>5, <1>7
  <2>2. Copied(j)
    BY Typed
  <2>3. QED
    BY <1>6, <2>1, <2>2 DEF Copied, Mem, Clean
<1>15. ASSUME Clean'
       PROVE  Awaited(row', question') /\ \A j \in Workers : AwaitFlow(calls'[j])
  <2>1. Clean
    BY <1>6, <1>15 DEF Clean
  <2>2. Awaited(row, question) /\ \A j \in Workers : AwaitFlow(calls[j])
    BY <2>1 DEF IInv
  <2>3. AwaitFlow(d)
    BY <2>1 DEF Sound
  <2>4. QED
    BY <1>6, <1>7, <2>2, <2>3
<1>16. QED
  BY <1>8, <1>9, <1>10, <1>11, <1>12, <1>13, <1>14, <1>15 DEF IInv

\* IngestPhoto.
LEMMA IngestPhotoInv ==
    ASSUME IInv, NEW k \in Workers, IngestPhoto(k)
    PROVE  IInv'
<1>1. PICK c : c = calls[k]
  OBVIOUS
<1>2. /\ c.pc = "ingest" /\ c \in CallsIn(store) /\ c.mem \in DraftRows /\ c.asked \in Asked
      /\ Flow(c) /\ Objects(c) /\ (Clean => AwaitFlow(c))
  BY <1>1, CallAt DEF IngestPhoto, At
<1>3. CASE Go(k, End("keep"))
  <2>1. PICK x : x = End("keep")
    OBVIOUS
  <2>2. CallFields(x) /\ "notice" \notin DOMAIN x
    BY <1>2, <2>1 DEF End, CallFields, Pcs, Leaves, Questions, Types
  <2>3. ASSUME NEW d, Went(c, d, x) PROVE Sound(d)
    <3>1. /\ Same(d, c) /\ d.mem = c.mem /\ d.writes = c.writes
          /\ d.pc = "end" /\ d.q = "keep"
          /\ d.replied = c.replied /\ d.notice = c.notice
      BY <2>1, <2>3 DEF Went, ByFields, FieldOf, End
    <3>2. Flow(d)
      BY <1>2, <2>3, <3>1 DEF Flow, Same
    <3>3. Objects(d)
      BY <1>2, <2>3, <3>1 DEF Objects, Placed, Flow, Same
    <3>4. Clean => AwaitFlow(d)
      BY <1>2, <2>3, <3>1 DEF AwaitFlow, Awaited, Flow, Same, LeftBy
    <3>5. QED
      BY <3>2, <3>3, <3>4 DEF Sound
  <2>4. QED
    BY <1>1, <1>2, <1>3, <2>1, <2>2, <2>3, GoInv DEF Go, Untouched
<1>4. CASE Upload(k, "store")
  <2>1. PICK d : d = [c EXCEPT !.pc = "store", !.object = store + 1]
    OBVIOUS
  <2>2. PICK pc \in Pcs \ {"idle"} : pc = "store"
    BY DEF Pcs
  <2>3. c.object = NoObject /\ store + 1 # NoObject
    BY <1>2, <1>4, Typed DEF Objects, Placed, Flow, NoObject
  <2>4. /\ d.pc = "store" /\ d.object = store + 1 /\ d.kind = c.kind /\ d.asked = c.asked
        /\ d.mem = c.mem /\ d.first = c.first /\ d.type = c.type /\ d.before = c.before
        /\ d.ean = c.ean /\ d.replied = c.replied /\ d.notice = c.notice
        /\ d.writes = c.writes /\ d.q = c.q
    BY <1>2, <2>1 DEF CallsIn
  <2>5. Flow(d)
    BY <1>2, <1>4, <2>4 DEF Flow
  <2>6. Objects(d)
    BY <1>2, <1>4, <2>3, <2>4 DEF Objects, Placed, Flow
  <2>7. Clean => AwaitFlow(d)
    BY <1>2, <2>4 DEF AwaitFlow, Flow
  <2>8. Sound(d)
    BY <2>5, <2>6, <2>7 DEF Sound
  <2>9. Upload(k, pc) /\ d = Uploaded(calls[k], pc)
    BY <1>1, <1>4, <2>1, <2>2 DEF Uploaded
  <2>10. calls[k].object = NoObject /\ calls[k].pc # "idle"
    BY <1>1, <1>2, <2>3
  <2>11. QED
    BY <2>2, <2>8, <2>9, <2>10, UploadInv
<1>5. QED
  BY <1>3, <1>4 DEF IngestPhoto

\* StorePhoto.
LEMMA StorePhotoInv ==
    ASSUME IInv, NEW k \in Workers, StorePhoto(k)
    PROVE  IInv'
<1>1. PICK c : c = calls[k]
  OBVIOUS
<1>2. /\ c.pc = "store" /\ c \in CallsIn(store) /\ c.mem \in DraftRows /\ c.asked \in Asked
      /\ Flow(c) /\ Objects(c) /\ (Clean => AwaitFlow(c))
  BY <1>1, CallAt DEF StorePhoto, At
<1>3. PICK p : p = [from |-> "operator", object |-> c.object]
  OBVIOUS
<1>4. /\ p \in Photos /\ p.from = "operator" /\ p.object = c.object /\ c.object \in 0..store
  BY <1>1, <1>3, CallAt, Typed DEF Photos, Origins
<1>5. ASSUME NEW ean \in BOOLEAN,
             Update(k, [photo |-> p], [ok \in BOOLEAN |-> IF ok THEN [pc |-> "barcode", ean |-> ean]
                                                       ELSE [pc |-> "first"]])
      PROVE  IInv'
  <2>1. PICK f : f = [photo |-> p]
    OBVIOUS
  <2>2. PICK x : x = [pc |-> "barcode", ean |-> ean]
    OBVIOUS
  <2>3. PICK y : y = [pc |-> "first"]
    OBVIOUS
  <2>4. PICK more : more = [ok \in BOOLEAN |-> IF ok THEN x ELSE y]
    OBVIOUS
  <2>5. CallFields(x) /\ CallFields(y)
    BY <1>2, <2>2, <2>3 DEF CallFields, Pcs, Leaves, Questions, Types
  <2>6. more[TRUE] = x /\ more[FALSE] = y
    BY <2>4
  <2>7. /\ FieldSets(f) /\ Fair(c, f) /\ DOMAIN f = {"photo"} /\ f["photo"] = p
    BY <1>4, <2>1 DEF FieldSets, Fair
  <2>8. ASSUME NEW d, Accepted(c, d, f, x) PROVE Sound(d) /\ Tells(c, d, f)
    <3>1. /\ Same(d, c) /\ d.pc = "barcode"
          /\ d.replied = c.replied /\ d.notice = c.notice
      BY <2>2, <2>8 DEF Accepted, ByFields, FieldOf
    <3>2. Written(c.mem, f).awaiting = c.mem.awaiting /\ Written(c.mem, f).photo = p
      BY <1>2, <2>7, WrittenRow DEF FieldOf
    <3>3. Flow(d)
      BY <1>2, <1>4, <2>8, <3>1, <3>2 DEF Flow, Same, Accepted, Refused
    <3>4. Objects(d)
      BY <1>2, <1>4, <2>8, <3>1, <3>2 DEF Objects, Placed, Flow, Same, Accepted, Refused
    <3>5. Clean => AwaitFlow(d)
      BY <1>2, <1>4, <2>8, <3>1, <3>2 DEF AwaitFlow, Awaited, Flow, Same, Accepted, Refused
    <3>6. Tells(c, d, f)
      BY <1>2, <2>1, <2>7, <2>8, <3>1 DEF Flow, Tells
    <3>7. QED
      BY <3>3, <3>4, <3>5, <3>6 DEF Sound
  <2>9. ASSUME NEW d, Refused(c, d, f, y) PROVE Sound(d)
    <3>1. /\ Same(d, c) /\ d.pc = "first" /\ d.writes = "refused"
          /\ d.replied = c.replied /\ d.notice = c.notice
      BY <2>3, <2>9 DEF Refused, ByFields, FieldOf
    <3>2. Written(c.mem, f).awaiting = c.mem.awaiting /\ Written(c.mem, f).photo = p
      BY <1>2, <2>7, WrittenRow DEF FieldOf
    <3>3. Flow(d)
      BY <1>2, <1>4, <2>9, <3>1, <3>2 DEF Flow, Same, Accepted, Refused
    <3>4. Objects(d)
      BY <1>2, <1>4, <2>9, <3>1, <3>2 DEF Objects, Placed, Flow, Same, Accepted, Refused
    <3>5. Clean => AwaitFlow(d)
      BY <1>2, <1>4, <2>9, <3>1, <3>2 DEF AwaitFlow, Awaited, Flow, Same, Accepted, Refused
    <3>6. QED
      BY <3>3, <3>4, <3>5 DEF Sound
  <2>10. Update(k, f, more)
    BY <1>1, <1>5, <2>1, <2>2, <2>3, <2>4 DEF Mem
  <2>11. QED
    BY <1>1, <1>2, <1>4, <2>5, <2>6, <2>7, <2>8, <2>9, <2>10, UpdateInv
<1>6. QED
  BY <1>1, <1>3, <1>5 DEF StorePhoto


\* FirstPhoto.
LEMMA FirstPhotoInv ==
    ASSUME IInv, NEW k \in Workers, FirstPhoto(k)
    PROVE  IInv'
<1>1. PICK c : c = calls[k]
  OBVIOUS
<1>2. /\ c.pc = "first" /\ c \in CallsIn(store) /\ c.mem \in DraftRows /\ c.asked \in Asked
      /\ Flow(c) /\ Objects(c) /\ (Clean => AwaitFlow(c))
  BY <1>1, CallAt DEF FirstPhoto, At
<1> DEFINE shown == c.first /\ c.mem.photo \notin {NoPhoto, c.before}
<1>3. IF shown
      THEN Update(k, [type |-> "SINGLE", awaiting |-> TRUE],
                  [ok \in BOOLEAN |-> IF ok THEN [pc |-> "prompt"] ELSE End("keep")])
      ELSE Go(k, End("keep"))
  BY <1>1 DEF FirstPhoto, Mem
<1>4. CASE /\ shown
            /\ Update(k, [type |-> "SINGLE", awaiting |-> TRUE],
                      [ok \in BOOLEAN |-> IF ok THEN [pc |-> "prompt"] ELSE End("keep")])
  <2>1. PICK f : f = [type |-> "SINGLE", awaiting |-> TRUE]
    OBVIOUS
  <2>2. PICK x : x = [pc |-> "prompt"]
    OBVIOUS
  <2>3. PICK y : y = End("keep")
    OBVIOUS
  <2>4. PICK more : more = [ok \in BOOLEAN |-> IF ok THEN x ELSE y]
    OBVIOUS
  <2>5. CallFields(x) /\ CallFields(y)
    BY <1>2, <2>2, <2>3 DEF CallFields, Pcs, Leaves, Questions, Types, End
  <2>6. more[TRUE] = x /\ more[FALSE] = y
    BY <2>4
  <2>7. /\ FieldSets(f) /\ Fair(c, f) /\ "photo" \notin DOMAIN f /\ "notified" \notin DOMAIN f
        /\ "awaiting" \in DOMAIN f /\ f["awaiting"] = TRUE
    BY <2>1 DEF FieldSets, Fair, Types
  <2>8. ASSUME NEW d, Accepted(c, d, f, x) PROVE Sound(d) /\ Tells(c, d, f)
    <3>1. /\ Same(d, c) /\ d.pc = "prompt"
          /\ d.replied = c.replied /\ d.notice = c.notice
      BY <2>2, <2>8 DEF Accepted, ByFields, FieldOf, End
    <3>2. /\ Written(c.mem, f).awaiting = TRUE /\ Written(c.mem, f).photo = c.mem.photo
      BY <1>2, <2>7, WrittenRow DEF FieldOf
    <3>3. Flow(d)
      BY <1>2, <1>4, <2>8, <3>1, <3>2 DEF Flow, Same, Accepted, Refused
    <3>4. Objects(d)
      BY <1>2, <1>4, <2>8, <3>1, <3>2 DEF Objects, Placed, Flow, Same, Accepted, Refused
    <3>5. Clean => AwaitFlow(d)
      BY <1>2, <1>4, <2>8, <3>1, <3>2 DEF AwaitFlow, Awaited, Flow, Same, Accepted, Refused
    <3>6. Tells(c, d, f)
      BY <1>2, <2>1, <2>7, <2>8, <3>1 DEF Flow, Tells
    <3>7. QED
      BY <3>3, <3>4, <3>5, <3>6 DEF Sound
  <2>9. ASSUME NEW d, Refused(c, d, f, y) PROVE Sound(d)
    <3>1. /\ Same(d, c) /\ d.writes = "refused" /\ d.pc = "end" /\ d.q = "keep"
          /\ d.replied = c.replied /\ d.notice = c.notice
      BY <2>3, <2>9 DEF Refused, ByFields, FieldOf, End
    <3>2. /\ Written(c.mem, f).awaiting = TRUE /\ Written(c.mem, f).photo = c.mem.photo
      BY <1>2, <2>7, WrittenRow DEF FieldOf
    <3>3. Flow(d)
      BY <1>2, <1>4, <2>9, <3>1, <3>2 DEF Flow, Same, Accepted, Refused
    <3>4. Objects(d)
      BY <1>2, <1>4, <2>9, <3>1, <3>2 DEF Objects, Placed, Flow, Same, Accepted, Refused
    <3>5. Clean => AwaitFlow(d)
      BY <1>2, <1>4, <2>9, <3>1, <3>2 DEF AwaitFlow, Awaited, Flow, Same, Accepted, Refused
    <3>6. QED
      BY <3>3, <3>4, <3>5 DEF Sound
  <2>10. Update(k, f, more)
    BY <1>1, <1>4, <2>1, <2>2, <2>3, <2>4 DEF Mem
  <2>11. QED
    BY <1>1, <1>2, <2>5, <2>6, <2>7, <2>8, <2>9, <2>10, UpdateInv
<1>5. CASE ~shown /\ Go(k, End("keep"))
  <2>1. PICK x : x = End("keep")
    OBVIOUS
  <2>2. CallFields(x) /\ "notice" \notin DOMAIN x
    BY <1>2, <2>1 DEF End, CallFields, Pcs, Leaves, Questions, Types
  <2>3. ASSUME NEW d, Went(c, d, x) PROVE Sound(d)
    <3>1. /\ Same(d, c) /\ d.mem = c.mem /\ d.writes = c.writes
          /\ d.pc = "end" /\ d.q = "keep"
          /\ d.replied = c.replied /\ d.notice = c.notice
      BY <2>1, <2>3 DEF Went, ByFields, FieldOf, End
    <3>2. Flow(d)
      BY <1>2, <1>5, <2>3, <3>1 DEF Flow, Same
    <3>3. Objects(d)
      BY <1>2, <1>5, <2>3, <3>1 DEF Objects, Placed, Flow, Same, NoPhoto, NoObject, CallsIn, Writes
    <3>4. Clean => AwaitFlow(d)
      BY <1>2, <1>5, <2>3, <3>1 DEF AwaitFlow, Awaited, Flow, Same, LeftBy
    <3>5. QED
      BY <3>2, <3>3, <3>4 DEF Sound
  <2>4. QED
    BY <1>1, <1>2, <1>5, <2>1, <2>2, <2>3, GoInv DEF Go, Untouched
<1>6. QED
  BY <1>3, <1>4, <1>5

-----------------------------------------------------------------------------
\* The confirmation

\* ShowProduct.
LEMMA ShowProductInv ==
    ASSUME IInv, NEW k \in Workers, ShowProduct(k)
    PROVE  IInv'
<1>1. PICK c : c = calls[k]
  OBVIOUS
<1>2. /\ c.pc = "prompt" /\ c \in CallsIn(store) /\ c.mem \in DraftRows /\ c.asked \in Asked
      /\ Flow(c) /\ Objects(c) /\ (Clean => AwaitFlow(c))
  BY <1>1, CallAt DEF ShowProduct, At
<1>3. \/ Go(k, End("product"))
      \/ c.mem.photo.object = NoObject /\ Upload(k, "copied")
  BY <1>1 DEF ShowProduct, Mem
<1>4. CASE Go(k, End("product"))
  <2>1. PICK x : x = End("product")
    OBVIOUS
  <2>2. CallFields(x) /\ "notice" \notin DOMAIN x
    BY <1>2, <2>1 DEF End, CallFields, Pcs, Leaves, Questions, Types
  <2>3. ASSUME NEW d, Went(c, d, x) PROVE Sound(d)
    <3>1. /\ Same(d, c) /\ d.mem = c.mem /\ d.writes = c.writes
          /\ d.pc = "end" /\ d.q = "product"
          /\ d.replied = c.replied /\ d.notice = c.notice
      BY <2>1, <2>3 DEF Went, ByFields, FieldOf, End
    <3>2. Flow(d)
      BY <1>2, <2>3, <3>1 DEF Flow, Same
    <3>3. Objects(d)
      BY <1>2, <2>3, <3>1 DEF Objects, Placed, Flow, Same
    <3>4. Clean => AwaitFlow(d)
      BY <1>2, <2>3, <3>1 DEF AwaitFlow, Awaited, Flow, Same, LeftBy
    <3>5. QED
      BY <3>2, <3>3, <3>4 DEF Sound
  <2>4. QED
    BY <1>1, <1>2, <1>4, <2>1, <2>2, <2>3, GoInv DEF Go, Untouched
<1>5. CASE c.mem.photo.object = NoObject /\ Upload(k, "copied")
  <2>1. PICK d : d = [c EXCEPT !.pc = "copied", !.object = store + 1]
    OBVIOUS
  <2>2. PICK pc \in Pcs \ {"idle"} : pc = "copied"
    BY DEF Pcs
  <2>3. c.object = NoObject /\ store + 1 # NoObject
    BY <1>2, <1>5, Typed DEF Objects, Placed, Flow, NoObject
  <2>4. /\ d.pc = "copied" /\ d.object = store + 1 /\ d.kind = c.kind /\ d.asked = c.asked
        /\ d.mem = c.mem /\ d.first = c.first /\ d.type = c.type /\ d.before = c.before
        /\ d.ean = c.ean /\ d.replied = c.replied /\ d.notice = c.notice
        /\ d.writes = c.writes /\ d.q = c.q
    BY <1>2, <2>1 DEF CallsIn
  <2>5. Flow(d)
    BY <1>2, <1>5, <2>4 DEF Flow, Objects, Placed
  <2>6. Objects(d)
    BY <1>2, <1>5, <2>3, <2>4 DEF Objects, Placed, Flow
  <2>7. Clean => AwaitFlow(d)
    BY <1>2, <2>4 DEF AwaitFlow, Flow
  <2>8. Sound(d)
    BY <2>5, <2>6, <2>7 DEF Sound
  <2>9. Upload(k, pc) /\ d = Uploaded(calls[k], pc)
    BY <1>1, <1>5, <2>1, <2>2 DEF Uploaded
  <2>10. calls[k].object = NoObject /\ calls[k].pc # "idle"
    BY <1>1, <1>2, <2>3
  <2>11. QED
    BY <2>2, <2>8, <2>9, <2>10, UploadInv
<1>6. QED
  BY <1>3, <1>4, <1>5

\* StoreCopy.
LEMMA StoreCopyInv ==
    ASSUME IInv, NEW k \in Workers, StoreCopy(k)
    PROVE  IInv'
<1>1. PICK c : c = calls[k]
  OBVIOUS
<1>2. /\ c.pc = "copied" /\ c \in CallsIn(store) /\ c.mem \in DraftRows /\ c.asked \in Asked
      /\ Flow(c) /\ Objects(c) /\ (Clean => AwaitFlow(c))
  BY <1>1, CallAt DEF StoreCopy, At
<1>3. PICK p : p = [c.mem.photo EXCEPT !.object = c.object]
  OBVIOUS
<1>4. /\ c.mem.photo \in Photos /\ c.object \in 0..store /\ store \in Nat
  BY <1>1, CallAt, Typed
<1>5. p \in Photos /\ p.from = c.mem.photo.from /\ p.object = c.object
  BY <1>3, <1>4 DEF Photos
<1>6. CASE Update(k, [photo |-> p], Either(End("product")))
  <2>1. PICK f : f = [photo |-> p]
    OBVIOUS
  <2>2. PICK x : x = End("product")
    OBVIOUS
  <2>3. CallFields(x)
    BY <1>2, <2>2 DEF CallFields, Pcs, Leaves, Questions, Types, End
  <2>4. /\ FieldSets(f) /\ Fair(c, f) /\ DOMAIN f = {"photo"} /\ f["photo"] = p
    BY <1>5, <2>1 DEF FieldSets, Fair
  <2>5. ASSUME NEW d, Updated(c, d, f, x) PROVE Sound(d) /\ Tells(c, d, f)
    <3>1. /\ Same(d, c) /\ d.pc = "end" /\ d.q = "product"
          /\ d.replied = c.replied /\ d.notice = c.notice
      BY <2>2, <2>5 DEF Updated, ByFields, FieldOf, End
    <3>2. Written(c.mem, f).awaiting = c.mem.awaiting /\ Written(c.mem, f).photo = p
      BY <1>2, <2>4, WrittenRow DEF FieldOf
    <3>3. Flow(d)
      BY <1>2, <1>5, <2>5, <3>1, <3>2 DEF Flow, Same, Updated
    <3>4. Objects(d)
      BY <1>2, <1>5, <2>5, <3>1, <3>2 DEF Objects, Placed, Flow, Same, Updated
    <3>5. Clean => AwaitFlow(d)
      BY <1>2, <1>5, <2>5, <3>1, <3>2
         DEF AwaitFlow, Awaited, Flow, Same, Updated, LeftBy, NoPhoto, Objects
    <3>6. Tells(c, d, f)
      BY <1>2, <2>1, <2>4, <2>5, <3>1 DEF Flow, Tells
    <3>7. QED
      BY <3>3, <3>4, <3>5, <3>6 DEF Sound
  <2>6. Update(k, f, Either(x))
    BY <1>1, <1>6, <2>1, <2>2 DEF Mem
  <2>7. QED
    BY <1>1, <1>2, <1>4, <1>5, <2>3, <2>4, <2>5, <2>6, EitherInv
<1>7. QED
  BY <1>1, <1>3, <1>6 DEF StoreCopy, Mem

\* ApproveProduct.
LEMMA ApproveProductInv ==
    ASSUME IInv, NEW k \in Workers, ApproveProduct(k)
    PROVE  IInv'
<1>1. PICK c : c = calls[k]
  OBVIOUS
<1>2. /\ c.pc = "approve" /\ c \in CallsIn(store) /\ c.mem \in DraftRows /\ c.asked \in Asked
      /\ Flow(c) /\ Objects(c) /\ (Clean => AwaitFlow(c))
  BY <1>1, CallAt DEF ApproveProduct, At
<1>3. ASSUME NEW q \in {"NONE", "MISSING_INFO"},
             Update(k, [awaiting |-> FALSE], [ok \in BOOLEAN |-> End(IF ok THEN q ELSE "NONE")])
      PROVE  IInv'
  <2>1. PICK f : f = [awaiting |-> FALSE]
    OBVIOUS
  <2>2. PICK x : x = End(q)
    OBVIOUS
  <2>3. PICK y : y = End("NONE")
    OBVIOUS
  <2>4. PICK more : more = [ok \in BOOLEAN |-> End(IF ok THEN q ELSE "NONE")]
    OBVIOUS
  <2>5. CallFields(x) /\ CallFields(y)
    BY <1>2, <2>2, <2>3 DEF CallFields, Pcs, Leaves, Questions, Types, End
  <2>6. more[TRUE] = x /\ more[FALSE] = y
    BY <2>2, <2>3, <2>4
  <2>7. /\ FieldSets(f) /\ Fair(c, f) /\ "photo" \notin DOMAIN f
        /\ "awaiting" \in DOMAIN f /\ f["awaiting"] = FALSE
    BY <2>1 DEF FieldSets, Fair
  <2>8. ASSUME NEW d, Accepted(c, d, f, x) PROVE Sound(d) /\ Tells(c, d, f)
    <3>1. /\ Same(d, c) /\ d.pc = "end" /\ d.q = q
          /\ d.replied = c.replied /\ d.notice = c.notice
      BY <2>2, <2>8 DEF Accepted, ByFields, FieldOf, End
    <3>2. Written(c.mem, f).awaiting = FALSE
      BY <1>2, <2>7, WrittenRow DEF FieldOf
    <3>3. Flow(d)
      BY <1>2, <2>8, <3>1, <3>2 DEF Flow, Same, Accepted, Refused
    <3>4. Objects(d)
      BY <1>2, <2>8, <3>1, <3>2 DEF Objects, Placed, Flow, Same, Accepted, Refused
    <3>5. Clean => AwaitFlow(d)
      BY <1>2, <2>8, <3>1, <3>2
         DEF AwaitFlow, Awaited, Flow, Same, Accepted, Refused, LeftBy, Asking
    <3>6. Tells(c, d, f)
      BY <1>2, <2>1, <2>7, <2>8, <3>1 DEF Flow, Tells
    <3>7. QED
      BY <3>3, <3>4, <3>5, <3>6 DEF Sound
  <2>9. ASSUME NEW d, Refused(c, d, f, y) PROVE Sound(d)
    <3>1. /\ Same(d, c) /\ d.writes = "refused" /\ d.pc = "end" /\ d.q = "NONE"
          /\ d.replied = c.replied /\ d.notice = c.notice
      BY <2>3, <2>9 DEF Refused, ByFields, FieldOf, End
    <3>2. Written(c.mem, f).awaiting = FALSE
      BY <1>2, <2>7, WrittenRow DEF FieldOf
    <3>3. Flow(d)
      BY <1>2, <2>9, <3>1, <3>2 DEF Flow, Same, Accepted, Refused
    <3>4. Objects(d)
      BY <1>2, <2>9, <3>1, <3>2 DEF Objects, Placed, Flow, Same, Accepted, Refused
    <3>5. Clean => AwaitFlow(d)
      BY <1>2, <2>9, <3>1, <3>2
         DEF AwaitFlow, Awaited, Flow, Same, Accepted, Refused, LeftBy, Asking
    <3>6. QED
      BY <3>3, <3>4, <3>5 DEF Sound
  <2>10. Update(k, f, more)
    BY <1>1, <1>3, <2>1, <2>2, <2>3, <2>4 DEF Mem
  <2>11. QED
    BY <1>1, <1>2, <2>5, <2>6, <2>7, <2>8, <2>9, <2>10, UpdateInv
<1>4. QED
  BY <1>3 DEF ApproveProduct

\* RejectProduct.
LEMMA RejectProductInv ==
    ASSUME IInv, NEW k \in Workers, RejectProduct(k)
    PROVE  IInv'
<1>1. PICK c : c = calls[k]
  OBVIOUS
<1>2. /\ c.pc = "reject" /\ c \in CallsIn(store) /\ c.mem \in DraftRows /\ c.asked \in Asked
      /\ Flow(c) /\ Objects(c) /\ (Clean => AwaitFlow(c))
  BY <1>1, CallAt DEF RejectProduct, At
<1>3. CASE Update(k, [awaiting |-> FALSE, photo |-> NoPhoto], Either(End("NONE")))
  <2>1. PICK f : f = [awaiting |-> FALSE, photo |-> NoPhoto]
    OBVIOUS
  <2>2. PICK x : x = End("NONE")
    OBVIOUS
  <2>3. CallFields(x)
    BY <1>2, <2>2 DEF CallFields, Pcs, Leaves, Questions, Types, End
  <2>4. /\ FieldSets(f) /\ Fair(c, f) /\ f["photo"].object \in 0..store
        /\ "awaiting" \in DOMAIN f /\ f["awaiting"] = FALSE
    BY <1>2, <2>1, Typed DEF FieldSets, Fair, NoPhoto, NoObject, Photos, Origins, Flow
  <2>5. ASSUME NEW d, Updated(c, d, f, x) PROVE Sound(d) /\ Tells(c, d, f)
    <3>1. /\ Same(d, c) /\ d.pc = "end" /\ d.q = "NONE"
          /\ d.replied = c.replied /\ d.notice = c.notice
      BY <2>2, <2>5 DEF Updated, ByFields, FieldOf, End
    <3>2. Written(c.mem, f).awaiting = FALSE
      BY <1>2, <2>4, WrittenRow DEF FieldOf
    <3>3. Flow(d)
      BY <1>2, <2>5, <3>1, <3>2 DEF Flow, Same, Updated
    <3>4. Objects(d)
      BY <1>2, <2>5, <3>1, <3>2 DEF Objects, Placed, Flow, Same, Updated
    <3>5. Clean => AwaitFlow(d)
      BY <1>2, <2>5, <3>1, <3>2 DEF AwaitFlow, Awaited, Flow, Same, Updated, LeftBy, Asking
    <3>6. Tells(c, d, f)
      BY <1>2, <2>1, <2>4, <2>5, <3>1 DEF Flow, Tells
    <3>7. QED
      BY <3>3, <3>4, <3>5, <3>6 DEF Sound
  <2>6. Update(k, f, Either(x))
    BY <1>1, <1>3, <2>1, <2>2 DEF Mem
  <2>7. QED
    BY <1>1, <1>2, <2>3, <2>4, <2>5, <2>6, EitherInv
<1>4. QED
  BY <1>3 DEF RejectProduct


-----------------------------------------------------------------------------
\* The beginning of a call

Fresh(kind, ean) ==
    [IdleCall EXCEPT !.pc = FirstStep(kind, question.type), !.kind = kind, !.ean = ean,
                     !.asked = question, !.mem = row, !.before = row.photo,
                     !.first = kind = "photo" /\ StartsImageFlow]

\* Receive: the call has the row and the question as they are committed.
LEMMA ReceiveInv ==
    ASSUME IInv, NEW k \in Workers, Receive(k)
    PROVE  IInv'
<1>1. PICK kind \in KindsOn(question.type) :
         \E ean \in BOOLEAN : calls' = [calls EXCEPT ![k] = Fresh(kind, ean)]
  BY Zenon DEF Receive, Fresh
<1>2. PICK ean \in BOOLEAN : calls' = [calls EXCEPT ![k] = Fresh(kind, ean)]
  BY <1>1
<1>3. /\ row \in DraftRows /\ question \in Asked /\ question.type \in Questions
      /\ row.photo \in Photos /\ row.photo.object \in 0..store /\ store \in Nat
  BY Typed DEF Asked, DraftRows, PhotosStored
<1>4. /\ kind \in Kinds /\ ean \in BOOLEAN
      /\ kind \in {"create", "regenerate"} => question.type # "PRODUCT_CONFIRMATION"
      /\ kind = "create" => question.type = "CLASSIFICATION"
      /\ kind \in {"approve", "reject"} => question.type = "PRODUCT_CONFIRMATION"
  BY <1>1, <1>3 DEF KindsOn, Kinds, Questions
<1>5. PICK pc : pc = FirstStep(kind, question.type)
  OBVIOUS
<1>6. /\ pc \in Pcs
      /\ kind = "create" => pc = "type"
      /\ kind = "regenerate" => pc = "type" \/ (pc = "answer" /\ question.type = "MISSING_INFO")
      /\ kind = "photo" => pc = "ingest"
      /\ kind = "barcode" => \/ pc = "barcode"
                             \/ pc = "answer" /\ question.type = "MISSING_INFO"
      /\ kind \in {"approve", "reject"} => pc = kind
  BY <1>4, <1>5 DEF FirstStep, Kinds, Pcs
<1>7. PICK first \in BOOLEAN : first = (kind = "photo" /\ StartsImageFlow)
  OBVIOUS
<1>8. PICK d : d = [IdleCall EXCEPT !.pc = pc, !.kind = kind, !.ean = ean,
                                    !.asked = question, !.mem = row, !.before = row.photo,
                                    !.first = first]
  OBVIOUS
<1>9. calls' = [calls EXCEPT ![k] = d]
  BY <1>5, <1>7, <1>8, <1>2 DEF Fresh
<1>10. /\ d.pc = pc /\ d.kind = kind /\ d.asked = question /\ d.mem = row
      /\ d.before = row.photo /\ d.object = NoObject /\ d.writes = "none" /\ d.q = "keep"
      /\ d.replied = FALSE /\ d.notice = FALSE
  BY <1>8 DEF IdleCall
<1>11. d \in CallsIn(store)
  <2>1. d = [pc |-> pc, kind |-> kind, asked |-> question, mem |-> row, first |-> first,
             type |-> "UNSET", ean |-> ean, replied |-> FALSE, notice |-> FALSE,
             object |-> 0, before |-> row.photo, writes |-> "none", q |-> "keep"]
    BY <1>8 DEF IdleCall, NoObject
  <2>2. 0 \in 0..store /\ "UNSET" \in Types /\ "none" \in Writes /\ "keep" \in Leaves
    BY <1>3 DEF Types, Writes, Leaves
  <2>3. QED
    BY <1>3, <1>4, <1>6, <1>2, <2>1, <2>2 DEF CallsIn
<1>12. Sound(d)
  <2>1. Flow(d)
    BY <1>4, <1>6, <1>10 DEF Flow, Kinds
  <2>2. Objects(d)
    BY <1>4, <1>6, <1>10 DEF Objects, Kinds
  <2>3. Clean => Awaited(row, question)
    BY DEF IInv
  <2>4. Clean => AwaitFlow(d)
    BY <1>10, <2>3 DEF AwaitFlow
  <2>5. QED
    BY <2>1, <2>2, <2>4 DEF Sound
<1>13. /\ calls[k].object = NoObject /\ calls[k].writes = "none"
       /\ tx.by # k /\ lock # k
  BY CallAt DEF Receive, At, Objects, Flow, Copied
<1>14. /\ UNCHANGED <<row, tx, question, lock, store, stored, notices, forgotten, strained, blind,
                    aborts>>
       /\ received' \in 0..MaxMsgs
  BY Typed DEF Receive
<1>15. calls' \in [Workers -> CallsIn(store)] /\ calls'[k] = d
       /\ \A j \in Workers : j # k => calls'[j] = calls[j]
  BY <1>9, <1>11, Typed
<1>16. QED
  <2>1. TypeOK'
    <3>1. TypeOK
      BY Typed
    <3>2. QED
      BY <1>14, <1>15, <3>1 DEF TypeOK, Calls, CallsIn, Pcs, Writes, Leaves, Asked
  <2>2. PhotosStored'
    BY <1>3, <1>10, <1>14, <1>15, Typed DEF PhotosStored
  <2>3. TxInv'
    <3>1. TxInv
      BY Typed
    <3>2. QED
      BY <1>13, <1>14, <1>15, <3>1 DEF TxInv
  <2>4. LossInv'
    <3>1. \A j \in Workers : calls'[j].object = calls[j].object
      BY <1>10, <1>13, <1>15
    <3>2. Unplaced' = Unplaced
      BY <1>14, <3>1 DEF Unplaced
    <3>3. QED
      BY <1>14, <3>2, Typed DEF LossInv
  <2>5. NoticeInv'
    BY <1>14, Typed DEF NoticeInv
  <2>6. ASSUME NEW j \in Workers PROVE Flow(calls'[j]) /\ Objects(calls'[j]) /\ Copied(j)'
    <3>1. CASE j = k
      <4>1. Copied(k)'
        BY <1>3, <1>10, <1>13, <1>14, <1>15 DEF Copied, Mem, DraftRows
      <4>2. QED
        BY <1>12, <1>15, <3>1, <4>1 DEF Sound
    <3>2. CASE j # k
      BY <1>14, <1>15, <3>2, CallAt DEF Copied, Mem, Clean
    <3>3. QED
      BY <3>1, <3>2
  <2>7. ASSUME Clean'
        PROVE  Awaited(row', question') /\ \A j \in Workers : AwaitFlow(calls'[j])
    <3>1. Clean
      BY <1>14, <2>7 DEF Clean
    <3>2. Awaited(row, question) /\ \A j \in Workers : AwaitFlow(calls[j])
      BY <3>1 DEF IInv
    <3>3. AwaitFlow(d)
      BY <1>12, <3>1 DEF Sound
    <3>4. QED
      BY <1>14, <1>15, <3>2, <3>3
  <2>8. QED
    BY <2>1, <2>2, <2>3, <2>4, <2>5, <2>6, <2>7 DEF IInv

-----------------------------------------------------------------------------
\* The end of a call

\* A call that ends is idle again, and its transaction is over.
Idles(k) ==
    /\ calls' = [calls EXCEPT ![k] = IdleCall]
    /\ tx' = IF tx.by = k THEN NoTx ELSE tx
    /\ UNCHANGED <<store, received>>

\* A call that ends, by a commit or a failure, keeps the invariant if what is left
\* of it does.
LEMMA IdleInv ==
    ASSUME IInv, NEW k \in Workers, Idles(k), lock' \in {Nobody, lock}, lock' # k,
           NEW r \in DraftRows, row' = r, r.photo.object \in 0..store,
           question' \in Asked, stored' \subseteq 1..store,
           notices' \in Nat, forgotten' \in Nat, strained' \in Nat, blind' \in BOOLEAN,
           aborts' \in Nat, tx.by # k => row' = row,
           LossInv', NoticeInv',
           Clean' => Clean /\ Awaited(row', question'),
           \A j \in Workers : j # k => Copied(j)'
    PROVE  IInv'
<1>1. /\ IdleCall \in CallsIn(store) /\ IdleCall.mem.photo.object \in 0..store
      /\ NoTx \in Txs /\ NoTx.row.photo.object \in 0..store /\ NoTx.by = Nobody
      /\ Flow(IdleCall) /\ Objects(IdleCall) /\ AwaitFlow(IdleCall)
      /\ IdleCall.writes = "none" /\ IdleCall.pc = "idle"
  <2>1. store \in Nat
    BY Typed
  <2>2. NewDraft \in DraftRows /\ NewDraft.photo.object \in 0..store /\ NoPhoto \in Photos
    BY <2>1 DEF NewDraft, DraftRows, Types, Origins, NoPhoto, Photos, NoObject
  <2>3. IdleCall \in CallsIn(store) /\ IdleCall.mem.photo.object \in 0..store
    BY <2>1, <2>2 DEF IdleCall, CallsIn, Pcs, Kinds, Asking, Asked, Questions, Types, Writes,
                      Leaves, NoObject
  <2>4. NoTx \in Txs /\ NoTx.row.photo.object \in 0..store /\ NoTx.by = Nobody
    BY <2>2 DEF NoTx, Txs
  <2>5. IdleCall.writes = "none" /\ IdleCall.pc = "idle"
    BY DEF IdleCall
  <2>6. Flow(IdleCall) /\ Objects(IdleCall) /\ AwaitFlow(IdleCall)
    BY DEF IdleCall, Flow, Objects, AwaitFlow, NoObject
  <2>7. QED
    BY <2>3, <2>4, <2>5, <2>6
<1>2. /\ calls' \in [Workers -> CallsIn(store)] /\ calls'[k] = IdleCall
      /\ \A j \in Workers : j # k => calls'[j] = calls[j]
  BY <1>1, Typed DEF Idles
<1>3. tx' \in Txs /\ tx'.row.photo.object \in 0..store /\ tx'.by # k
      /\ (tx.by = k => tx' = NoTx) /\ (tx.by # k => tx' = tx)
  BY <1>1, Typed DEF Idles, PhotosStored
<1>4. TypeOK'
  <2>1. TypeOK /\ UNCHANGED <<store, received>>
    BY Typed DEF Idles
  <2>2. lock' \in Workers \union {Nobody}
    BY Typed
  <2>3. QED
    BY <1>2, <1>3, <2>1, <2>2 DEF TypeOK, Calls, CallsIn, Pcs, Writes, Leaves, Asked, Txs
<1>5. PhotosStored'
  BY <1>1, <1>2, <1>3, Typed DEF PhotosStored, Idles
<1>6. TxInv'
  <2>1. CASE tx.by = k
    BY <1>1, <1>2, <1>3, <2>1, Typed DEF TxInv
  <2>2. CASE tx.by # k
    <3>1. TxInv /\ row' = row /\ tx' = tx
      BY <1>3, <2>2, Typed
    <3>2. QED
      BY <1>2, <2>2, <3>1 DEF TxInv
  <2>3. QED
    BY <2>1, <2>2
<1>7. ASSUME NEW j \in Workers PROVE Flow(calls'[j]) /\ Objects(calls'[j]) /\ Copied(j)'
  <2>1. CASE j = k
    <3>1. Copied(k)'
      BY <1>1, <1>2, <1>3 DEF Copied
    <3>2. QED
      BY <1>1, <1>2, <2>1, <3>1
  <2>2. CASE j # k
    BY <1>2, <2>2, CallAt
  <2>3. QED
    BY <2>1, <2>2
<1>8. ASSUME Clean'
      PROVE  Awaited(row', question') /\ \A j \in Workers : AwaitFlow(calls'[j])
  <2>1. \A j \in Workers : AwaitFlow(calls[j])
    BY <1>8 DEF IInv
  <2>2. QED
    BY <1>1, <1>2, <1>8, <2>1
<1>9. QED
  BY <1>4, <1>5, <1>6, <1>7, <1>8 DEF IInv

\* At most one object more is unplaced when a call ends.
LEMMA OneMore ==
    ASSUME IInv, NEW U, NEW o, U \subseteq Unplaced \union {o}
    PROVE  IsFiniteSet(U) /\ Cardinality(U) <= strained + aborts + 1
<1>1. IsFiniteSet(Unplaced) /\ Cardinality(Unplaced) <= strained + aborts
  BY Typed DEF LossInv
<1>2. PICK V : V = Unplaced \union {o}
  OBVIOUS
<1>3. IsFiniteSet(V) /\ Cardinality(V) \in {Cardinality(Unplaced), Cardinality(Unplaced) + 1}
  BY <1>1, <1>2, FS_AddElement
<1>4. IsFiniteSet(U) /\ Cardinality(U) <= Cardinality(V)
  BY <1>2, <1>3, FS_Subset
<1>5. /\ Cardinality(U) \in Nat /\ Cardinality(V) \in Nat /\ Cardinality(Unplaced) \in Nat
      /\ strained \in Nat /\ aborts \in Nat
  BY <1>1, <1>3, <1>4, FS_CardinalityType, Typed
<1>6. QED
  BY <1>1, <1>3, <1>4, <1>5

\* What is unplaced after a call has ended.
LEMMA LeftUnplaced ==
    ASSUME IInv, NEW k \in Workers, Idles(k), NEW S, stored' = S, stored \subseteq S,
           NEW U, U = Unplaced'
    PROVE  /\ U \subseteq Unplaced \union {calls[k].object}
           /\ calls[k].object \in S \union {NoObject} => U \subseteq Unplaced
<1>1. /\ calls \in [Workers -> CallsIn(store)] /\ store' = store
      /\ calls' = [calls EXCEPT ![k] = IdleCall]
  BY Typed DEF Idles
<1>2. PICK H : H = {calls[j].object : j \in Workers}
  OBVIOUS
<1>3. PICK G : G = {calls'[j].object : j \in Workers}
  OBVIOUS
<1>4. \A j \in Workers : calls[j].object \in G \union {calls[k].object}
  BY <1>1, <1>3
<1>5. H \subseteq G \union {calls[k].object}
  BY <1>2, <1>4
<1>6. U = (1..store) \ (S \union G) /\ Unplaced = (1..store) \ (stored \union H)
  BY <1>1, <1>2, <1>3 DEF Unplaced
<1>7. NoObject \notin 1..store
  BY Typed DEF NoObject
<1>8. QED
  BY <1>5, <1>6, <1>7


\* Fail: what the call has uploaded is lost at most.
LEMMA FailInv ==
    ASSUME IInv, NEW k \in Workers, Fail(k)
    PROVE  IInv'
<1>1. /\ Idles(k) /\ UNCHANGED <<row, question, stored, notices, forgotten, strained, blind>>
      /\ aborts' = aborts + 1
      /\ lock' = IF lock = k THEN Nobody ELSE lock
  BY DEF Fail, Idles
<1>2. lock' \in {Nobody, lock} /\ lock' # k
  BY <1>1, Typed
<1>3. PICK r \in DraftRows : r = row
  BY Typed
<1>4. /\ row' = r /\ row' = row /\ r.photo.object \in 0..store /\ question' \in Asked
      /\ stored' \subseteq 1..store /\ notices' \in Nat /\ forgotten' \in Nat
      /\ strained' \in Nat /\ blind' \in BOOLEAN /\ aborts' \in Nat
  BY <1>1, <1>3, Typed DEF PhotosStored
<1>5. LossInv'
  <2>1. PICK U : U = Unplaced'
    OBVIOUS
  <2>2. PICK S : S = stored
    OBVIOUS
  <2>3. U \subseteq Unplaced \union {calls[k].object}
    BY <1>1, <2>1, <2>2, LeftUnplaced
  <2>4. IsFiniteSet(U) /\ Cardinality(U) <= strained + aborts + 1
    BY <2>3, OneMore
  <2>5. strained' + aborts' = strained + aborts + 1
    BY <1>1, Typed
  <2>6. QED
    BY <2>1, <2>4, <2>5 DEF LossInv
<1>6. NoticeInv'
  BY <1>1, Typed DEF NoticeInv
<1>7. Clean' => Clean /\ Awaited(row', question')
  BY <1>1 DEF IInv, Clean
<1>8. ASSUME NEW j \in Workers, j # k PROVE Copied(j)'
  <2>1. /\ calls'[j] = calls[j] /\ Copied(j) /\ Nobody \notin Workers
        /\ UNCHANGED <<row, question, strained, blind>>
    BY <1>1, <1>8, Typed DEF Idles
  <2>2. calls[j].writes = "none" => tx'.by # j /\ lock' # j
    BY <1>1, <1>2, <1>8, <2>1 DEF Copied, Idles, NoTx
  <2>3. calls[j].writes = "accepted" => tx' = tx
    BY <1>1, <1>8, <2>1 DEF Copied, Idles
  <2>4. QED
    BY <2>1, <2>2, <2>3 DEF Copied, Mem, Clean
<1>9. QED
  BY <1>1, <1>2, <1>4, <1>5, <1>6, <1>7, <1>8, IdleInv

\* Commit: the row becomes the one of the transaction.
LEMMA CommitInv ==
    ASSUME IInv, NEW k \in Workers, Commit(k)
    PROVE  IInv'
<1>1. PICK c : c = calls[k]
  OBVIOUS
<1>2. PICK r : r = IF tx.by = k THEN tx.row ELSE row
  OBVIOUS
<1>4. /\ Idles(k) /\ lock' = Nobody /\ aborts' = aborts /\ row' = r
      /\ stored' = stored \union ({r.photo.object} \ {NoObject})
      /\ notices' = notices + IF c.notice THEN 1 ELSE 0
      /\ forgotten' = forgotten + IF tx.by = k /\ tx.forgot THEN 1 ELSE 0
      /\ blind' = (blind \/ (c.writes = "none" /\ Left(k) # c.asked))
      /\ strained' = strained + IF Strained(k) THEN 1 ELSE 0
      /\ question' = IF Left(k) # c.asked THEN Left(k) ELSE question
  BY <1>1, <1>2 DEF Commit, Idles, Blind
<1>5. /\ c.pc = "end" /\ c \in CallsIn(store) /\ c.mem \in DraftRows /\ c.asked \in Asked
      /\ c.writes \in {"none", "accepted", "refused"} /\ c.q \in Leaves /\ c.mem.photo \in Photos
      /\ c.object \in 0..store
      /\ Flow(c) /\ Objects(c) /\ Copied(k) /\ (Clean => AwaitFlow(c))
  <2>1. /\ c.pc = "end" /\ c \in CallsIn(store) /\ c.mem \in DraftRows /\ c.asked \in Asked
        /\ c.writes \in Writes /\ c.mem.photo \in Photos /\ c.object \in 0..store
        /\ Flow(c) /\ Objects(c) /\ Copied(k) /\ (Clean => AwaitFlow(c))
    BY <1>1, CallAt DEF Commit, At
  <2>2. c.writes # "torn"
    BY <2>1 DEF Flow
  <2>3. c.q \in Leaves
    BY <2>1 DEF CallsIn
  <2>4. QED
    BY <2>1, <2>2, <2>3 DEF Writes
<1>6. Strained(k) <=> c.writes = "refused"
  BY <1>1, <1>5 DEF Strained
<1>7. /\ c.writes = "none" => tx.by # k /\ r = row
      /\ c.writes = "accepted" =>
            tx.by = k /\ c.mem = r /\ (Clean => c.asked = question)
  BY <1>1, <1>2, <1>5 DEF Copied, Mem, Flow
<1>8. /\ r \in DraftRows /\ r.photo.object \in 0..store /\ store \in Nat
      /\ tx.by # k => r = row
      /\ tx.by = k => row.version < r.version
      /\ strained \in Nat /\ aborts \in Nat /\ notices \in Nat /\ forgotten \in Nat
  BY <1>2, Typed DEF Txs, PhotosStored, TxInv
<1>9. /\ Left(k) = LeftBy(c) /\ Left(k) \in Asked
      /\ c.q = "keep" => Left(k) = c.asked
  <2>1. Left(k) = LeftBy(c)
    BY <1>1 DEF Left, LeftBy, Mem
  <2>2. CASE c.q = "keep"
    BY <1>5, <2>1, <2>2 DEF LeftBy
  <2>3. CASE c.q = "product"
    <3>1. LeftBy(c) = [type |-> "PRODUCT_CONFIRMATION", photo |-> c.mem.photo]
      BY <2>3 DEF LeftBy
    <3>2. QED
      BY <1>5, <2>1, <2>3, <3>1 DEF Asked, Questions
  <2>4. CASE c.q \notin {"keep", "product"}
    <3>1. LeftBy(c) = [type |-> c.q, photo |-> NoPhoto]
      BY <2>4 DEF LeftBy, Asking
    <3>2. c.q \in Questions /\ NoPhoto \in Photos
      BY <1>5, <2>4 DEF Leaves, NoPhoto, Photos, Origins, NoObject
    <3>3. QED
      BY <2>1, <2>4, <3>1, <3>2 DEF Asked
  <2>5. QED
    BY <2>2, <2>3, <2>4, <2>1
<1>10. /\ question' \in Asked /\ stored' \subseteq 1..store
       /\ notices' \in Nat /\ forgotten' \in Nat /\ strained' \in Nat /\ blind' \in BOOLEAN
       /\ aborts' \in Nat
  <2>1. /\ question' \in Asked /\ notices' \in Nat /\ forgotten' \in Nat /\ strained' \in Nat
        /\ blind' \in BOOLEAN /\ aborts' \in Nat
    BY <1>4, <1>8, <1>9, Typed
  <2>2. stored' \subseteq 1..store
    BY <1>4, <1>8, Typed DEF NoObject
  <2>3. QED
    BY <2>1, <2>2
<1>11. LossInv'
  <2>1. PICK U : U = Unplaced'
    OBVIOUS
  <2>2. PICK S : S = stored \union ({r.photo.object} \ {NoObject})
    OBVIOUS
  <2>3. /\ U \subseteq Unplaced \union {c.object}
        /\ c.object \in S \union {NoObject} => U \subseteq Unplaced
    BY <1>1, <1>4, <2>1, <2>2, LeftUnplaced
  <2>4. CASE c.writes = "refused"
    <3>1. IsFiniteSet(U) /\ Cardinality(U) <= strained + aborts + 1
      BY <2>3, OneMore
    <3>2. strained' + aborts' = strained + aborts + 1
      BY <1>4, <1>6, <1>8, <2>4
    <3>3. QED
      BY <2>1, <3>1, <3>2 DEF LossInv
  <2>5. CASE c.writes # "refused"
    <3>1. c.object \in S \union {NoObject}
      <4>1. c.object = NoObject \/ (c.mem.photo.object = c.object /\ c.writes = "accepted")
        BY <1>5, <2>5 DEF Objects, Placed
      <4>2. QED
        BY <1>7, <2>2, <4>1
    <3>2. IsFiniteSet(Unplaced) /\ Cardinality(Unplaced) <= strained + aborts
      BY Typed DEF LossInv
    <3>3. IsFiniteSet(U) /\ Cardinality(U) <= Cardinality(Unplaced)
      BY <2>3, <3>1, <3>2, FS_Subset
    <3>4. Cardinality(U) \in Nat /\ Cardinality(Unplaced) \in Nat
      BY <3>2, <3>3, FS_CardinalityType
    <3>5. strained' + aborts' = strained + aborts
      BY <1>4, <1>6, <1>8, <2>5
    <3>6. Cardinality(U) <= strained' + aborts'
      BY <1>8, <3>2, <3>3, <3>4, <3>5
    <3>7. QED
      BY <2>1, <3>3, <3>6 DEF LossInv
  <2>6. QED
    BY <2>4, <2>5
<1>12. NoticeInv'
  <2>1. NoticeInv /\ TxInv /\ tx \in Txs /\ row \in DraftRows
    BY Typed
  <2>2. row.notified /\ ~r.notified => tx.by = k /\ tx.forgot
    BY <1>2, <2>1, Typed DEF TxInv
  <2>3. CASE c.writes = "refused"
    <3>1. strained' = strained + 1
      BY <1>4, <1>6, <2>3
    <3>2. QED
      BY <1>4, <1>8, <2>1, <2>2, <3>1 DEF NoticeInv
  <2>4. CASE c.writes = "accepted" /\ c.notice
    <3>1. tx.by = k /\ r.notified /\ (tx.forgot \/ ~row.notified)
      BY <1>1, <1>2, <1>7, <2>1, <2>4 DEF TxInv
    <3>2. PICK flag \in {0, 1} : flag = IF row.notified THEN 0 ELSE 1
      OBVIOUS
    <3>3. /\ notices + flag <= 1 + forgotten + strained /\ (flag = 0 => tx.forgot)
          /\ notices' = notices + 1 /\ strained' = strained
          /\ forgotten' = forgotten + (IF tx.forgot THEN 1 ELSE 0)
      BY <1>4, <1>6, <1>8, <2>1, <2>4, <3>1, <3>2 DEF NoticeInv
    <3>4. notices' <= 1 + forgotten' + strained'
      BY <1>8, <3>3
    <3>5. row'.notified
      BY <1>4, <3>1
    <3>6. notices' + (IF row'.notified THEN 0 ELSE 1) = notices'
      BY <1>8, <3>3, <3>5
    <3>7. (notices + (IF row.notified THEN 0 ELSE 1) <= 1 + forgotten + strained)'
      BY <3>4, <3>6
    <3>8. QED
      BY <3>7 DEF NoticeInv
  <2>5. CASE c.writes # "refused" /\ ~c.notice
    BY <1>4, <1>6, <1>8, <2>1, <2>2, <2>5 DEF NoticeInv
  <2>6. QED
    BY <1>5, <2>3, <2>4, <2>5 DEF Flow
<1>13. ASSUME Clean'
       PROVE  /\ Clean /\ Awaited(row', question')
              /\ tx.by # k => question' = question
  <2>1. /\ Clean /\ c.writes \in {"none", "accepted"}
        /\ c.writes = "none" => Left(k) = c.asked
    <3>1. strained' = 0 /\ blind' = FALSE
      BY <1>13 DEF Clean
    <3>2. blind = FALSE /\ (c.writes = "none" => Left(k) = c.asked)
      BY <1>4, <3>1, Typed
    <3>3. ~Strained(k) /\ strained = 0
      BY <1>4, <1>8, <3>1
    <3>4. QED
      BY <1>5, <1>6, <3>2, <3>3 DEF Clean
  <2>2. Awaited(row, question)
    BY <2>1 DEF IInv
  <2>3. CASE c.writes = "none"
    BY <1>4, <1>7, <1>9, <2>1, <2>2, <2>3
  <2>4. CASE c.writes = "accepted"
    <3>1. question' = LeftBy(c) /\ row' = c.mem /\ tx.by = k
      BY <1>4, <1>7, <1>9, <2>1, <2>4
    <3>2. Awaited(c.mem, LeftBy(c))
      BY <1>5, <2>1, <2>4 DEF AwaitFlow
    <3>3. QED
      BY <2>1, <3>1, <3>2
  <2>5. QED
    BY <2>1, <2>3, <2>4
<1>14. ASSUME NEW j \in Workers, j # k PROVE Copied(j)'
  <2>1. /\ calls'[j] = calls[j] /\ Copied(j) /\ Nobody \notin Workers /\ lock' = Nobody
        /\ calls[j].mem \in DraftRows
    BY <1>4, <1>14, CallAt, Typed DEF Idles
  <2>2. PICK m \in DraftRows : m = calls[j].mem
    BY <2>1
  <2>3. calls[j].writes = "none" => tx'.by # j /\ lock' # j
    BY <1>4, <1>14, <2>1 DEF Copied, Idles, NoTx
  <2>4. calls[j].writes = "accepted" => tx' = tx /\ tx.by # k
    BY <1>4, <1>14, <2>1 DEF Copied, Idles
  <2>5. CASE tx.by # k
    <3>1. row' = row /\ (Clean' => Clean /\ question' = question)
      BY <1>4, <1>8, <1>13, <2>5
    <3>2. QED
      BY <2>1, <2>3, <2>4, <3>1 DEF Copied, Mem
  <2>6. CASE tx.by = k
    <3>1. row.version < r.version /\ row.version \in Nat /\ r.version \in Nat /\ m.version \in Nat
      BY <1>8, <2>6, Typed DEF DraftRows
    <3>2. calls[j].writes = "none" /\ calls[j].pc # "idle" => m.version < r.version
      BY <2>1, <2>2, <3>1 DEF Copied, Mem
    <3>3. calls[j].writes = "none" /\ calls[j].pc # "idle" =>
             m.version <= r.version /\ m.version # r.version
      BY <3>1, <3>2
    <3>4. QED
      BY <1>4, <2>1, <2>2, <2>3, <2>4, <2>6, <3>3 DEF Copied, Mem
  <2>7. QED
    BY <2>5, <2>6
<1>15. lock' \in {Nobody, lock} /\ lock' # k
  BY <1>4, Typed
<1>16. (tx.by # k => row' = row) /\ (Clean' => Clean /\ Awaited(row', question'))
  BY <1>4, <1>8, <1>13
<1>17. QED
  BY <1>4, <1>8, <1>10, <1>11, <1>12, <1>14, <1>15, <1>16, IdleInv


-----------------------------------------------------------------------------
\* The invariant of the specification

\* The invariant holds when the first text has made the draft.
LEMMA InitInv == Init => IInv
<1> SUFFICES ASSUME Init PROVE IInv
  OBVIOUS
<1>1. /\ row = NewDraft /\ tx = NoTx /\ question = Asking("CLASSIFICATION") /\ lock = Nobody
      /\ calls = [k \in Workers |-> IdleCall] /\ store = 0 /\ stored = {} /\ notices = 0
      /\ received = 0 /\ strained = 0 /\ aborts = 0 /\ forgotten = 0 /\ blind = FALSE
  BY DEF Init
<1>2. NewDraft \in DraftRows /\ NewDraft.photo.object = 0 /\ NoPhoto \in Photos
  BY DEF NewDraft, DraftRows, Types, Origins, NoPhoto, Photos, NoObject
<1>3. /\ IdleCall \in CallsIn(store) /\ IdleCall.mem.photo.object = 0 /\ IdleCall.object = NoObject
      /\ IdleCall.writes = "none" /\ IdleCall.pc = "idle"
      /\ Flow(IdleCall) /\ Objects(IdleCall) /\ AwaitFlow(IdleCall)
  BY <1>1, <1>2 DEF IdleCall, CallsIn, Pcs, Kinds, Asking, Asked, Questions, Types, Writes,
                    Leaves, NoObject, Flow, Objects, AwaitFlow
<1>4. NoTx \in Txs /\ NoTx.by = Nobody /\ NoTx.row = NewDraft
  BY <1>2 DEF NoTx, Txs
<1>5. calls \in [Workers -> CallsIn(store)] /\ \A k \in Workers : calls[k] = IdleCall
  BY <1>1, <1>3
<1>6. TypeOK
  <2>1. question \in Asked
    BY <1>1, <1>2 DEF Asking, Asked, Questions
  <2>2. 0 \in 0..MaxMsgs
    BY DEF NumbersAssumption
  <2>3. QED
    BY <1>1, <1>2, <1>4, <1>5, <2>1, <2>2
       DEF TypeOK, Calls, CallsIn, Pcs, Writes, Leaves, Asked, Txs
<1>7. PhotosStored /\ NoticeInv
  BY <1>1, <1>2, <1>3, <1>4, <1>5 DEF PhotosStored, NoticeInv
<1>8. TxInv
  BY <1>1, <1>4, Nobody \notin Workers DEF TxInv, WorkersAssumption
<1>9. LossInv
  <2>1. Unplaced = {}
    BY <1>1 DEF Unplaced
  <2>2. QED
    BY <1>1, <2>1, FS_EmptySet DEF LossInv
<1>10. \A k \in Workers : Flow(calls[k]) /\ Objects(calls[k]) /\ AwaitFlow(calls[k]) /\ Copied(k)
  BY <1>1, <1>3, <1>4, <1>5 DEF Copied, WorkersAssumption
<1>11. Awaited(row, question)
  BY <1>1 DEF Awaited, NewDraft, Asking
<1>12. QED
  BY <1>6, <1>7, <1>8, <1>9, <1>10, <1>11 DEF IInv

\* Every step keeps the invariant.
LEMMA NextInv == IInv /\ [Next]_vars => IInv'
<1> SUFFICES ASSUME IInv, [Next]_vars PROVE IInv'
  OBVIOUS
<1>1. ASSUME NEW k \in Workers, TextSteps(k) PROVE IInv'
  BY <1>1, DecideTypeInv, MarkQuestionInv, ExtractFieldsInv, ResolveProductInv, DiscoverInv,
     SettleInv DEF TextSteps
<1>2. ASSUME NEW k \in Workers, PhotoSteps(k) PROVE IInv'
  BY <1>2, IngestPhotoInv, StorePhotoInv, FirstPhotoInv DEF PhotoSteps
<1>3. ASSUME NEW k \in Workers, BarcodeSteps(k) PROVE IInv'
  BY <1>3, EnterBarcodeInv, LookUpBarcodeInv DEF BarcodeSteps
<1>4. ASSUME NEW k \in Workers, ProductSteps(k) PROVE IInv'
  BY <1>4, ShowProductInv, StoreCopyInv, ApproveProductInv, RejectProductInv DEF ProductSteps
<1>5. ASSUME NEW k \in Workers, ResolveDeadlock(k) \/ Abort(k) PROVE IInv'
  BY <1>5, FailInv DEF ResolveDeadlock, Abort
<1>6. CASE UNCHANGED vars
  BY <1>6 DEF vars, IInv, TypeOK, Calls, PhotosStored, TxInv, LossInv, Unplaced, NoticeInv, Copied,
              Mem, Clean
<1>7. QED
  BY <1>1, <1>2, <1>3, <1>4, <1>5, <1>6, ReceiveInv, AnswerQuestionInv, CommitInv DEF Next, Rest

-----------------------------------------------------------------------------
\* The theorems

\* The inductive invariant holds in every behaviour.
THEOREM Invariant == Spec => []IInv
BY InitInv, NextInv, PTL DEF Spec

\* Rows, transactions and calls have their types, however many calls overlap.
THEOREM TypeCorrect == Spec => []TypeOK
<1>1. IInv => TypeOK
  BY DEF IInv
<1>2. QED
  BY <1>1, Invariant, PTL

\* The first update of a call decides on the others: none is refused after
\* one was accepted, because the row stays locked.
THEOREM NoHalfChange == Spec => []FirstWriteDecides
<1>1. IInv => FirstWriteDecides
  BY DEF IInv, Flow, FirstWriteDecides
<1>2. QED
  BY <1>1, Invariant, PTL

\* Only a call whose update was refused can have the session and wait for a
\* draft that another call has locked.
THEOREM LocksOrdered == Spec => []LockOrder
<1>1. IInv => LockOrder
  <2> SUFFICES ASSUME IInv, NEW j \in Workers, NEW k \in Workers, Deadlocked(j, k)
               PROVE  Strained(j)
    BY DEF LockOrder
  <2>1. lock = j /\ tx.by # j
    BY DEF Deadlocked, WaitsForDraft
  <2>2. calls[j].writes \notin {"none", "accepted"} /\ calls[j].writes \in Writes
    BY <2>1, CallAt DEF Copied
  <2>3. QED
    BY <2>2 DEF Strained, Writes
<1>2. QED
  BY <1>1, Invariant, PTL

\* Every object in the media store has been the photo of the draft, is held by
\* a call, or was lost by a call that failed or was refused an update.
THEOREM UploadsAreAccounted == Spec => []UploadsAccounted
<1>1. IInv => UploadsAccounted
  BY DEF IInv, LossInv, Unplaced, UploadsAccounted
<1>2. QED
  BY <1>1, Invariant, PTL

\* That there are no details for a bar code is said no more often than once,
\* once more for every committed transaction in which a product that was found
\* made the draft forget it, and once more for every call that had an update
\* refused, however many calls look the bar code up.
THEOREM NoticesAreExplained == Spec => []NoticesExplained
<1>1. IInv => NoticesExplained
  <2> SUFFICES ASSUME IInv PROVE NoticesExplained
    OBVIOUS
  <2>1. NoticeInv /\ notices \in Nat /\ forgotten \in Nat /\ strained \in Nat
    BY Typed
  <2>2. QED
    BY <2>1 DEF NoticeInv, NoticesExplained
<1>2. QED
  BY <1>1, Invariant, PTL

\* As long as no call lost an update or left the draft out, a draft waits for a
\* confirmation if and only if the operator is asked for it, about the photo of
\* the draft.
THEOREM AskedIsTheStored == Spec => []AskedIsStored
<1>1. IInv => AskedIsStored
  BY DEF IInv, Awaited, AskedIsStored, Clean
<1>2. QED
  BY <1>1, Invariant, PTL

\* The committed row changes when a call commits only.
LEMMA RowStays ==
    ASSUME [Next]_vars
    PROVE  row' = row \/ \E k \in Workers : Commit(k)
<1>1. ASSUME NEW k, NEW x, Go(k, x) PROVE row' = row
  BY <1>1 DEF Go
<1>2. ASSUME NEW k, NEW f, NEW more, Update(k, f, more) PROVE row' = row
  BY <1>2 DEF Update
<1>3. ASSUME NEW k, NEW pc, Upload(k, pc) PROVE row' = row
  BY <1>3 DEF Upload
<1>4. ASSUME NEW k, TextSteps(k) PROVE row' = row
  BY <1>1, <1>2, <1>4 DEF TextSteps, DecideType, MarkQuestion, ExtractFields, ResolveProduct,
                          Discover, Settle
<1>5. ASSUME NEW k, PhotoSteps(k) PROVE row' = row
  BY <1>1, <1>2, <1>3, <1>5 DEF PhotoSteps, IngestPhoto, StorePhoto, FirstPhoto
<1>6. ASSUME NEW k, BarcodeSteps(k) PROVE row' = row
  BY <1>1, <1>2, <1>6 DEF BarcodeSteps, EnterBarcode, LookUpBarcode
<1>7. ASSUME NEW k, ProductSteps(k) PROVE row' = row
  BY <1>1, <1>2, <1>3, <1>7 DEF ProductSteps, ShowProduct, StoreCopy, ApproveProduct, RejectProduct
<1>8. ASSUME NEW k, Receive(k) \/ ResolveDeadlock(k) \/ Abort(k) PROVE row' = row
  BY <1>8 DEF Receive, ResolveDeadlock, Abort, Fail
<1>9. ASSUME NEW k, AnswerQuestion(k) PROVE row' = row
  <2>1. PICK next \in IF calls[k].kind = "barcode"
                      THEN {[pc |-> "barcode", q |-> q] : q \in {"keep", "NONE"}}
                      ELSE {[pc |-> "type", q |-> "NONE"]} :
           \/ Go(k, next)
           \/ \E fields \in {NoFields, [name |-> "operator"]} :
                 Update(k, fields, [ok \in BOOLEAN |-> Also(next, [replied |-> ~ok])])
    BY <1>9 DEF AnswerQuestion
  <2>2. QED
    BY <1>1, <1>2, <2>1
<1>10. QED
  BY <1>4, <1>5, <1>6, <1>7, <1>8, <1>9 DEF Next, Rest, vars

\* What the operator gave is replaced by what the operator gives or refuses
\* only, unless a call commits that had an update refused.
THEOREM OperatorIsHeeded == Spec => OperatorValuesKept
<1> DEFINE Writer(k) == tx.by = k /\ row' = tx.row
           Heeds == \/ \E k \in Workers : Writer(k) /\ Strained(k)
                    \/ /\ row.name = "operator" => row'.name = "operator"
                       /\ row.photo.from = "operator" =>
                             \/ row'.photo.from = "operator"
                             \/ \E k \in Workers : Writer(k) /\ calls[k].kind = "reject"
<1>1. IInv /\ [Next]_vars => [Heeds]_vars
  <2> SUFFICES ASSUME IInv, [Next]_vars PROVE Heeds
    OBVIOUS
  <2>1. CASE row' = row
    BY <2>1
  <2>2. ASSUME NEW k \in Workers, Commit(k) PROVE Heeds
    <3>1. CASE tx.by # k
      BY <2>1, <2>2, <3>1 DEF Commit
    <3>2. CASE tx.by = k /\ Strained(k)
      BY <2>2, <3>2 DEF Commit
    <3>3. CASE tx.by = k /\ ~Strained(k)
      <4>1. row' = tx.row
        BY <2>2, <3>3 DEF Commit
      <4>2. calls[k].writes = "accepted"
        BY <3>3, CallAt DEF Copied, Strained, Writes
      <4>3. /\ row.name = "operator" => tx.row.name = "operator"
            /\ row.photo.from = "operator" =>
                  tx.row.photo.from = "operator" \/ calls[k].kind = "reject"
        BY <3>3, <4>2, Typed DEF TxInv
      <4>4. QED
        BY <3>3, <4>1, <4>3
    <3>4. QED
      BY <3>1, <3>2, <3>3
  <2>3. QED
    BY <2>1, <2>2, RowStays
<1>2. QED
  BY <1>1, Invariant, PTL DEF Spec, OperatorValuesKept

-----------------------------------------------------------------------------
\* The selection of a candidate

\* Candidates can be put in the order of the ranking: the last one goes before
\* the first of the others that has a lower score.
LEMMA OrderExists ==
    ASSUME NEW n \in Nat, NEW found \in [1..n -> Candidates]
    PROVE  \E order \in Bijection(1..n, 1..n) :
              \A l, m \in 1..n : l < m => Precedes(found, order[l], order[m])
<1> DEFINE Sorted(f, s, o) == \A l, m \in 1..s : l < m => Precedes(f, o[l], o[m])
           Good == {s \in Nat : \A f \in [1..s -> Candidates] :
                       \E o \in Bijection(1..s, 1..s) : Sorted(f, s, o)}
<1>1. 0 \in Good
  <2>1. [i \in 1..0 |-> i] \in Bijection(1..0, 1..0)
    BY DEF Bijection, Injection, Surjection, IsInjective
  <2> QED BY <2>1
<1>2. ASSUME NEW s \in Nat, s \in Good PROVE s + 1 \in Good
  <2> SUFFICES ASSUME NEW f \in [1..s + 1 -> Candidates]
               PROVE  \E o \in Bijection(1..s + 1, 1..s + 1) : Sorted(f, s + 1, o)
    OBVIOUS
  <2>1. PICK g : g = [i \in 1..s |-> f[i]]
    OBVIOUS
  <2>2. g \in [1..s -> Candidates] /\ \A i \in 1..s : g[i] = f[i]
    BY <2>1
  <2>3. PICK o \in Bijection(1..s, 1..s) : Sorted(g, s, o)
    BY <1>2, <2>2
  <2>4. o \in [1..s -> 1..s] /\ (\A i, j \in 1..s : o[i] = o[j] => i = j)
        /\ \A i \in 1..s : \E j \in 1..s : o[j] = i
    BY DEF Bijection, Injection, Surjection, IsInjective
  <2>5. \A i \in 1..s + 1 : f[i].score \in Nat
    BY DEF Candidates
  <2> DEFINE Lower == {p \in 1..s + 1 : p = s + 1 \/ f[o[p]].score < f[s + 1].score}
  <2>6. PICK q \in Lower : \A p \in Lower : q <= p
    <3>1. s + 1 \in Lower /\ Lower \subseteq Nat
      OBVIOUS
    <3> HIDE DEF Lower
    <3> QED BY <3>1, LeastElement
  <2>7. q \in 1..s + 1
    OBVIOUS
  <2>8. \A p \in 1..s : p < q => f[o[p]].score >= f[s + 1].score
    <3> TAKE p \in 1..s
    <3>1. HAVE p < q
    <3>2. p \notin Lower /\ p \in 1..s + 1 /\ p # s + 1
      BY <2>6, <2>7, <3>1
    <3>3. o[p] \in 1..s + 1
      BY <2>4
    <3> QED BY <3>2, <3>3, <2>5
  <2>9. \A p \in 1..s : p >= q => f[o[p]].score < f[s + 1].score
    <3> TAKE p \in 1..s
    <3>1. HAVE p >= q
    <3>2. q \in 1..s /\ f[o[q]].score < f[s + 1].score
      BY <2>7, <3>1
    <3>3. q = p \/ Precedes(g, o[q], o[p])
      BY <2>3, <3>1, <3>2
    <3>4. o[q] \in 1..s /\ o[p] \in 1..s
      BY <2>4, <3>2
    <3>5. q = p \/ f[o[q]].score >= f[o[p]].score
      BY <3>3, <3>4, <2>2, <2>5 DEF Precedes
    <3> QED BY <3>2, <3>4, <3>5, <2>5
  <2>10. PICK r : r = [p \in 1..s + 1 |-> IF p < q THEN o[p] ELSE IF p = q THEN s + 1
                                         ELSE o[p - 1]]
    OBVIOUS
  <2> HIDE DEF Lower
  <2>11. \A p \in 1..s + 1 : /\ p < q => p \in 1..s /\ r[p] = o[p]
                             /\ p = q => r[p] = s + 1
                             /\ p > q => p - 1 \in 1..s /\ r[p] = o[p - 1]
    BY <2>7, <2>10
  <2>12. r \in [1..s + 1 -> 1..s + 1]
    <3>1. \A p \in 1..s + 1 : r[p] \in 1..s + 1
      <4> TAKE p \in 1..s + 1
      <4>1. CASE p < q
        <5>1. p \in 1..s /\ r[p] = o[p]
          BY <4>1, <2>11
        <5> QED BY <5>1, <2>4
      <4>2. CASE p = q
        BY <4>2, <2>11
      <4>3. CASE p > q
        <5>1. p - 1 \in 1..s /\ r[p] = o[p - 1]
          BY <4>3, <2>11
        <5> QED BY <5>1, <2>4
      <4> QED BY <4>1, <4>2, <4>3, <2>7
    <3> QED BY <3>1, <2>10
  <2>13. \A i \in 1..s + 1 : \E p \in 1..s + 1 : r[p] = i
    <3> TAKE i \in 1..s + 1
    <3>1. CASE i = s + 1
      BY <3>1, <2>7, <2>11
    <3>2. CASE i \in 1..s
      <4>1. PICK j \in 1..s : o[j] = i
        BY <3>2, <2>4
      <4>2. CASE j < q
        BY <4>1, <4>2, <2>11
      <4>3. CASE j >= q
        <5>1. j + 1 \in 1..s + 1 /\ j + 1 > q /\ (j + 1) - 1 = j
          BY <4>3, <2>7
        <5> QED BY <5>1, <4>1, <2>11
      <4> QED BY <4>2, <4>3, <2>7
    <3> QED BY <3>1, <3>2
  <2>14. \A l, m \in 1..s + 1 : l < m => Precedes(f, r[l], r[m])
    <3> TAKE l, m \in 1..s + 1
    <3>1. HAVE l < m
    <3>2. ASSUME NEW i \in 1..s, NEW j \in 1..s, i < j
          PROVE  Precedes(f, o[i], o[j])
      <4>1. Precedes(g, o[i], o[j])
        BY <3>2, <2>3
      <4>2. o[i] \in 1..s /\ o[j] \in 1..s
        BY <2>4
      <4> QED BY <4>1, <4>2, <2>2 DEF Precedes
    <3>3. CASE m < q
      BY <3>1, <3>2, <3>3, <2>7, <2>11
    <3>4. CASE m = q
      <4>1. l \in 1..s /\ r[l] = o[l] /\ r[m] = s + 1
        BY <3>1, <3>4, <2>11
      <4>2. o[l] \in 1..s /\ f[o[l]].score >= f[s + 1].score
        BY <4>1, <3>1, <3>4, <2>8, <2>4
      <4> QED BY <4>1, <4>2, <2>5 DEF Precedes
    <3>5. CASE m > q /\ l < q
      <4>1. l \in 1..s /\ r[l] = o[l] /\ m - 1 \in 1..s /\ r[m] = o[m - 1] /\ l < m - 1
        BY <3>5, <2>11, <2>7
      <4> QED BY <4>1, <3>2
    <3>6. CASE m > q /\ l = q
      <4>1. r[l] = s + 1 /\ m - 1 \in 1..s /\ r[m] = o[m - 1] /\ m - 1 >= q
        BY <3>6, <2>11, <2>7
      <4>2. o[m - 1] \in 1..s /\ f[o[m - 1]].score < f[s + 1].score
        BY <4>1, <2>9, <2>4
      <4> QED BY <4>1, <4>2, <2>5 DEF Precedes
    <3>7. CASE m > q /\ l > q
      <4>1. /\ l - 1 \in 1..s /\ r[l] = o[l - 1]
            /\ m - 1 \in 1..s /\ r[m] = o[m - 1] /\ l - 1 < m - 1
        BY <3>1, <3>7, <2>11, <2>7
      <4> QED BY <4>1, <3>2
    <3> QED BY <3>3, <3>4, <3>5, <3>6, <3>7, <2>7
  <2>15. ASSUME NEW l \in 1..s + 1, NEW m \in 1..s + 1, r[l] = r[m] PROVE l = m
    <3>1. \A i \in 1..s + 1 : ~Precedes(f, i, i)
      BY <2>5 DEF Precedes
    <3>2. ~(l < m) /\ ~(m < l)
      BY <3>1, <2>12, <2>14, <2>15
    <3> QED BY <3>2
  <2>16. r \in Bijection(1..s + 1, 1..s + 1)
    BY <2>12, <2>13, <2>15 DEF Bijection, Injection, Surjection, IsInjective
  <2> QED BY <2>14, <2>16
<1>3. Nat \subseteq Good
  <2> HIDE DEF Good
  <2> QED BY <1>1, <1>2, NaturalInduction
<1>4. n \in Good
  BY <1>3
<1> QED BY <1>4

\* A list of candidates of any length: its indices, and the ranking of them.
LEMMA RankedOrder ==
    ASSUME NEW n \in Nat, NEW found \in [1..n -> Candidates]
    PROVE  \E r : /\ r = Ranked(found) /\ r \in [1..n -> 1..n]
                  /\ \A i \in 1..n : \E m \in 1..n : r[m] = i
                  /\ \A l, m \in 1..n : l < m => Precedes(found, r[l], r[m])
<1> DEFINE r == Ranked(found)
<1>1. DOMAIN found = 1..n
  OBVIOUS
<1>2. Ranked(found) = CHOOSE order \in Bijection(1..n, 1..n) :
             \A l, m \in 1..n : l < m => Precedes(found, order[l], order[m])
  BY <1>1 DEF Ranked
<1>4. r = Ranked(found)
  OBVIOUS
<1> HIDE DEF r
<1>3. /\ r \in Bijection(1..n, 1..n)
      /\ \A l, m \in 1..n : l < m => Precedes(found, r[l], r[m])
  BY <1>4, <1>2, OrderExists
<1> QED BY <1>4, <1>3 DEF Bijection, Injection, Surjection

\* Of the candidates of a list of any length, select_best returns the first
\* with the highest score among those that are usable and reach the minimum,
\* and none if there is no such candidate.
LEMMA BestSelected ==
    ASSUME NEW n \in Nat, NEW found \in [1..n -> Candidates],
           NEW good, good = {i \in 1..n : found[i].usable /\ found[i].score >= MinimumScore},
           NEW best, best = SelectBest(found)
    PROVE  IF good = {} THEN best = NoCandidate
           ELSE /\ best \in good
                /\ \A i \in good : \/ found[i].score < found[best].score
                                   \/ found[i].score = found[best].score /\ best <= i
<1>2. PICK r : /\ r = Ranked(found) /\ r \in [1..n -> 1..n]
               /\ \A i \in 1..n : \E m \in 1..n : r[m] = i
               /\ \A l, m \in 1..n : l < m => Precedes(found, r[l], r[m])
  BY RankedOrder, Zenon
<1>13. DOMAIN r = 1..n
  BY <1>2
<1>3. \A i \in 1..n : found[i].score \in Nat
  BY DEF Candidates
<1> DEFINE stops == {m \in DOMAIN r : found[r[m]].score < MinimumScore \/ found[r[m]].usable}
           first == CHOOSE m \in stops : \A l \in stops : m <= l
<1>4. best = IF stops = {} \/ found[r[first]].score < MinimumScore THEN NoCandidate ELSE r[first]
  <2>1. r = Ranked(found)
    BY <1>2
  <2>2. best = SelectBest(found)
    OBVIOUS
  <2>3. QED
    BY ONLY <2>1, <2>2 DEF SelectBest
<1>5. ASSUME stops # {} PROVE first \in stops /\ \A l \in stops : first <= l
  <2>1. stops \subseteq Nat
    BY <1>13
  <2> HIDE DEF stops
  <2>2. \E m \in stops : \A l \in stops : m <= l
    BY <1>5, <2>1, LeastElement
  <2> QED BY <2>2
<1>6. ASSUME NEW i \in good
      PROVE  \E m \in stops : r[m] = i
  BY <1>2, <1>13
<1>7. \A m \in stops : /\ m \in 1..n /\ r[m] \in 1..n
                       /\ found[r[m]].score < MinimumScore \/ found[r[m]].usable
  BY <1>2, <1>13
<1>8. \A l, m \in stops : l < m => Precedes(found, r[l], r[m])
  BY <1>2, <1>13
<1>9. stops \subseteq Nat /\ MinimumScore \in Nat
  BY <1>13, NumbersAssumption
<1> HIDE DEF stops, first
<1>10. CASE good = {}
  <2>1. ASSUME stops # {}, ~(found[r[first]].score < MinimumScore)
        PROVE  FALSE
    <3>1. r[first] \in 1..n /\ found[r[first]].usable
      BY <2>1, <1>5, <1>7
    <3> QED BY <3>1, <2>1, <1>10, <1>3, <1>9
  <2> QED BY <2>1, <1>10, <1>4
<1>11. CASE good # {}
  <2>1. first \in stops /\ (\A l \in stops : first <= l) /\ stops # {}
    BY <1>5, <1>6, <1>11
  <2>2. ASSUME NEW i \in good
        PROVE  i = r[first] \/ Precedes(found, r[first], i)
    <3>1. PICK m \in stops : r[m] = i
      BY <1>6
    <3>2. first = m \/ first < m
      BY <2>1, <3>1, <1>9
    <3> QED BY <3>1, <3>2, <2>1, <1>8
  <2>3. r[first] \in 1..n
    BY <2>1, <1>7
  <2>4. \A i \in good : i \in 1..n /\ found[i].score >= MinimumScore
    OBVIOUS
  <2>5. ~(found[r[first]].score < MinimumScore)
    BY <1>11, <2>2, <2>3, <2>4, <1>3, <1>9 DEF Precedes
  <2>6. best = r[first] /\ best \in good
    BY <2>1, <2>3, <2>5, <1>4, <1>7, <1>3, <1>9
  <2>7. ASSUME NEW i \in good
        PROVE  \/ found[i].score < found[best].score
               \/ found[i].score = found[best].score /\ best <= i
    BY <2>2, <2>3, <2>4, <2>6, <1>3 DEF Precedes
  <2> QED BY <1>11, <2>6, <2>7
<1> QED BY <1>10, <1>11

\* So it does in every search of the model.
THEOREM BestIsSelected == Spec => []SelectionIsBest
<1>1. SelectionIsBest
  <2> SUFFICES ASSUME NEW found \in Found
               PROVE  LET good == {i \in DOMAIN found :
                                     found[i].usable /\ found[i].score >= MinimumScore}
                          best == SelectBest(found)
                      IN  IF good = {} THEN best = NoCandidate
                          ELSE /\ best \in good
                               /\ \A i \in good :
                                     \/ found[i].score < found[best].score
                                     \/ found[i].score = found[best].score /\ best <= i
    BY DEF SelectionIsBest
  <2>1. PICK n \in Nat : found \in [1..n -> Candidates]
    BY DEF Found
  <2>2. DOMAIN found = 1..n
    BY <2>1
  <2> QED BY <2>1, <2>2, BestSelected
<1> QED BY <1>1, PTL
=============================================================================
