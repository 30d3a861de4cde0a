-------------------------- MODULE AdWorkflowProofs --------------------------
(***************************************************************************)
(* Proofs about AdWorkflow for any finite set of calls, any messages and   *)
(* any bounds.                                                             *)
(***************************************************************************)
EXTENDS AdWorkflow, FiniteSetTheorems, SequenceTheorems, WellFoundedInduction,
        TLAPS

USE KindsAssumption, BoundsAssumption

-----------------------------------------------------------------------------
\* Copies and updates of a draft

Ids == {New} \union DOMAIN drafts
Copies == [row : DraftRows(Ids), mem : DraftRows(Ids), ok : BOOLEAN]
FreshCopy == [row |-> FreshDraft, mem |-> FreshDraft, ok |-> TRUE]

\* Values of the right types for columns that an update may set.
Legitimate(fields) ==
    /\ DOMAIN fields \subseteq {"status", "image", "typed", "photo", "awaiting"}
    /\ "status" \in DOMAIN fields => fields["status"] \in Statuses
    /\ "image" \in DOMAIN fields => fields["image"] \in Images
    /\ "typed" \in DOMAIN fields => fields["typed"] \in BOOLEAN
    /\ "photo" \in DOMAIN fields => fields["photo"] \in BOOLEAN
    /\ "awaiting" \in DOMAIN fields => fields["awaiting"] \in BOOLEAN

\* A draft after an update.
Updated(r, fields) == [With(r, fields) EXCEPT !.version = r.version + 1]

\* The columns an update does not set are kept; it never sets the id.
LEMMA UpdatedTyped ==
    ASSUME NEW ids, NEW r \in DraftRows(ids), NEW fields, Legitimate(fields)
    PROVE  LET u == Updated(r, fields)
           IN  /\ u \in DraftRows(ids)
               /\ u.id = r.id /\ u.version = r.version + 1
               /\ u.status = IF "status" \in DOMAIN fields THEN fields["status"] ELSE r.status
               /\ u.image = IF "image" \in DOMAIN fields THEN fields["image"] ELSE r.image
<1> DEFINE w == With(r, fields)
<1>1. w \in DraftRows(ids) /\ w.id = r.id /\ w.version = r.version
  BY DEF Legitimate, DraftRows, With
<1>2. /\ w.status = IF "status" \in DOMAIN fields THEN fields["status"] ELSE r.status
      /\ w.image = IF "image" \in DOMAIN fields THEN fields["image"] ELSE r.image
  BY DEF DraftRows, With
<1> HIDE DEF w
<1>3. Updated(r, fields) = [w EXCEPT !.version = r.version + 1]
  BY DEF Updated, w
<1>4. QED
  BY <1>1, <1>2, <1>3 DEF DraftRows

\* c comes from the copy b by updates that set no image.
Derived(b, c) ==
    /\ c.row.id = b.row.id /\ c.mem.id = b.mem.id
    /\ c.row.image = b.row.image /\ c.mem.image = b.mem.image
    /\ c.row = b.row \/ c.row.version > b.row.version
    /\ c.row.status \in {b.row.status, "DRAFT", "GENERATING"}
    /\ c.mem.version <= c.row.version

Plain(fields) ==
    /\ Legitimate(fields)
    /\ "image" \notin DOMAIN fields
    /\ "status" \in DOMAIN fields => fields["status"] \in {"DRAFT", "GENERATING"}

\* A write keeps the ids and is done to row and copy together, or to the
\* row not at all.
LEMMA WriteTyped ==
    ASSUME NEW c \in Copies, NEW fields, Legitimate(fields), NEW w \in Write(c, fields)
    PROVE  /\ w \in Copies
           /\ w.row.id = c.row.id /\ w.mem.id = c.mem.id
           /\ w.ok => /\ c.mem.version = c.row.version
                      /\ w.row = Updated(c.row, fields)
                      /\ w.mem = Updated(c.mem, fields)
           /\ ~w.ok => /\ c.mem.version # c.row.version
                       /\ w.row = c.row
                       /\ w.mem \in {c.mem, Updated(c.mem, fields)}
<1>1. c.row \in DraftRows(Ids) /\ c.mem \in DraftRows(Ids)
  BY DEF Copies
<1>2. /\ Updated(c.row, fields) \in DraftRows(Ids) /\ Updated(c.row, fields).id = c.row.id
      /\ Updated(c.mem, fields) \in DraftRows(Ids) /\ Updated(c.mem, fields).id = c.mem.id
  BY <1>1, UpdatedTyped
<1>3. CASE c.mem.version = c.row.version
  <2>1. w = [row |-> Updated(c.row, fields), mem |-> Updated(c.mem, fields), ok |-> TRUE]
    BY <1>3 DEF Write, Updated
  <2>2. QED
    BY <1>2, <1>3, <2>1 DEF Copies
<1>4. CASE c.mem.version # c.row.version
  <2>1. PICK m \in {c.mem, Updated(c.mem, fields)} : w = [row |-> c.row, mem |-> m, ok |-> FALSE]
    BY <1>4 DEF Write, Updated
  <2>2. m \in DraftRows(Ids) /\ m.id = c.mem.id
    BY <1>1, <1>2
  <2>3. QED
    BY <1>1, <1>4, <2>1, <2>2 DEF Copies
<1>5. QED
  BY <1>3, <1>4

\* Derivation goes on through a write that sets no image.
LEMMA WriteDerived ==
    ASSUME NEW b \in Copies, NEW c \in Copies, Derived(b, c),
           NEW fields, Plain(fields), NEW w \in Write(c, fields)
    PROVE  w \in Copies /\ Derived(b, w)
<1>1. /\ w \in Copies
      /\ w.row.id = c.row.id /\ w.mem.id = c.mem.id
      /\ w.ok => /\ c.mem.version = c.row.version
                 /\ w.row = Updated(c.row, fields)
                 /\ w.mem = Updated(c.mem, fields)
      /\ ~w.ok => /\ c.mem.version # c.row.version
                  /\ w.row = c.row
                  /\ w.mem \in {c.mem, Updated(c.mem, fields)}
  BY WriteTyped DEF Plain
<1>2. /\ c.row \in DraftRows(Ids) /\ c.mem \in DraftRows(Ids)
      /\ b.row \in DraftRows(Ids) /\ b.mem \in DraftRows(Ids)
      /\ c.row.version \in Nat /\ c.mem.version \in Nat /\ b.row.version \in Nat
  BY DEF Copies, DraftRows
<1>3. ASSUME NEW r \in DraftRows(Ids)
      PROVE  /\ Updated(r, fields).version = r.version + 1
             /\ Updated(r, fields).status \in {r.status, "DRAFT", "GENERATING"}
             /\ Updated(r, fields).image = r.image
  <2>1. /\ Legitimate(fields)
        /\ "image" \notin DOMAIN fields
        /\ "status" \in DOMAIN fields => fields["status"] \in {"DRAFT", "GENERATING"}
    BY DEF Plain
  <2>2. QED
    BY <2>1, UpdatedTyped
<1>4. CASE w.ok
  <2>1. /\ w.row.version = c.row.version + 1 /\ w.mem.version = c.mem.version + 1
        /\ w.row.image = c.row.image /\ w.mem.image = c.mem.image
        /\ w.row.status \in {c.row.status, "DRAFT", "GENERATING"}
    BY <1>1, <1>2, <1>3, <1>4
  <2>2. QED
    BY <1>1, <1>2, <1>4, <2>1 DEF Derived
<1>5. CASE ~w.ok
  <2>1. w.mem.version <= w.row.version /\ w.mem.image = c.mem.image
    BY <1>1, <1>2, <1>3, <1>5 DEF Derived
  <2>2. QED
    BY <1>1, <1>2, <1>5, <2>1 DEF Derived
<1>6. QED
  BY <1>4, <1>5

-----------------------------------------------------------------------------
\* What a commit does to the rows of the drafts

GoodRows(rows) ==
    /\ rows \in Seq(DraftRows(DOMAIN rows))
    /\ \A d \in DOMAIN rows : rows[d].id = d

\* A row stays well-formed when rows are added.
LEMMA RowsGrow ==
    ASSUME NEW A, NEW B, A \subseteq B, NEW r \in DraftRows(A)
    PROVE  r \in DraftRows(B)
BY DEF DraftRows

\* A commit inserts the draft or replaces its row, and leaves the others.
LEMMA PutRows ==
    ASSUME GoodRows(drafts), NEW r \in DraftRows(Ids)
    PROVE  LET rows == Put(drafts, r)
               d == IdIn(drafts, r)
           IN  /\ GoodRows(rows)
               /\ d \in DOMAIN rows
               /\ DOMAIN rows = DOMAIN drafts \union {d}
               /\ r.id # New => d = r.id /\ d \in DOMAIN drafts
               /\ r.id = New => d \notin DOMAIN drafts
               /\ d # New
               /\ rows[d] = [r EXCEPT !.id = d]
               /\ \A x \in DOMAIN drafts : x # d => rows[x] = drafts[x]
<1> DEFINE n == Len(drafts)
<1>1. drafts \in Seq(DraftRows(DOMAIN drafts)) /\ n \in Nat /\ DOMAIN drafts = 1..n
  BY DEF GoodRows
<1>2. CASE r.id = New
  <2> DEFINE x == [r EXCEPT !.id = n + 1]
  <2>1. x \in DraftRows(1..(n+1)) /\ x.id = n + 1
    BY <1>1 DEF DraftRows
  <2> HIDE DEF x
  <2>2. \A d \in DOMAIN drafts : drafts[d] \in DraftRows(1..(n+1))
    BY <1>1, RowsGrow
  <2>3. drafts \in Seq(DraftRows(1..(n+1)))
    BY <1>1, <2>2
  <2>4. /\ Append(drafts, x) \in Seq(DraftRows(1..(n+1)))
        /\ DOMAIN Append(drafts, x) = 1..(n+1)
        /\ Append(drafts, x)[n+1] = x
        /\ \A d \in 1..n : Append(drafts, x)[d] = drafts[d]
    BY <1>1, <2>1, <2>3
  <2>5. Put(drafts, r) = Append(drafts, x) /\ IdIn(drafts, r) = n + 1
    BY <1>2 DEF Put, IdIn, x
  <2>6. GoodRows(Append(drafts, x))
    BY <1>1, <2>1, <2>4 DEF GoodRows
  <2>7. QED
    BY <1>1, <1>2, <2>4, <2>5, <2>6 DEF New, x
<1>3. CASE r.id # New
  <2>1. r.id \in DOMAIN drafts /\ r \in DraftRows(DOMAIN drafts)
    BY <1>3 DEF Ids, DraftRows
  <2>2. Put(drafts, r) = [drafts EXCEPT ![r.id] = r] /\ IdIn(drafts, r) = r.id
    BY <1>3 DEF Put, IdIn
  <2>3. r = [r EXCEPT !.id = r.id]
    BY DEF DraftRows
  <2>4. [drafts EXCEPT ![r.id] = r] \in Seq(DraftRows(DOMAIN drafts))
    BY <1>1, <2>1
  <2>5. GoodRows([drafts EXCEPT ![r.id] = r])
    BY <1>1, <2>1, <2>4 DEF GoodRows
  <2>6. QED
    BY <1>1, <1>3, <2>1, <2>2, <2>3, <2>5
<1>4. QED
  BY <1>2, <1>3

-----------------------------------------------------------------------------
\* The inductive invariant

Complete(r) == rounds[r].complete /\ rounds[r].status # "FAILED"
Undecided(r) == ~rounds[r].complete /\ rounds[r].status # "FAILED"
\* No generation of the draft was started after round r.
Current(r) ==
    /\ rounds[r].status = "ACTIVE"
    /\ \A s \in DOMAIN rounds : rounds[s].draft = rounds[r].draft => s <= r

Shown(image) == image # NoImage => Complete(image[1])
Offered(context) == context[1] = "round" => Complete(context[2])

RoundRows ==
    [draft : DOMAIN drafts, attempt : Nat \ {0},
     status : {"ACTIVE", "SUPERSEDED", "FAILED"}, complete : BOOLEAN]
AdRows == [draft : DOMAIN drafts, image : Images]

\* The tables, without the calls.
TablesInv ==
    /\ GoodRows(drafts)
    /\ rounds \in Seq(RoundRows)
    /\ session \in SessionRows
    /\ ads \in Seq(AdRows)
    /\ published \subseteq [ad : DOMAIN ads, draft : DOMAIN drafts]
    /\ IsFiniteSet(published)
    /\ received \in 0..MaxMsgs
    /\ aborts \in 0..MaxAborts
    /\ \A d \in DOMAIN drafts : Shown(drafts[d].image)
    /\ \A a \in DOMAIN ads : ads[a].image # NoImage /\ Shown(ads[a].image)
    /\ Offered(session.context)

\* A copy is never newer than its row; one that equals it in version and was
\* loaded, not written, equals it altogether.
CopyInv(x) ==
    /\ IF x.mem.id = New THEN x.mem.image = NoImage
       ELSE x.mem.version <= drafts[x.mem.id].version
    /\ Shown(x.mem.image)
    /\ Offered(x.row.context)
    /\ x.pc \in {"act", "cms", "record"} /\ x.mem.id # New =>
          (x.mem.version = drafts[x.mem.id].version => x.mem = drafts[x.mem.id])

\* A generation that is polled has a round of its own; while the draft has
\* the version the generation gave it, no other round was opened.
PollInv(x) ==
    x.pc = "poll" =>
       /\ x.mem.id # New /\ x.round # NoRound
       /\ rounds[x.round].draft = x.mem.id
       /\ Undecided(x.round)
       /\ x.mem.version = drafts[x.mem.id].version => Current(x.round)

\* A publish that is under way is of an image; one the CMS accepted has an
\* advertisement of its own that is not recorded yet.
PublishInv(x) ==
    /\ x.pc \in {"cms", "record"} => x.mem.id # New /\ x.mem.image # NoImage
    /\ x.pc = "record" =>
          /\ x.ad # 0
          /\ ads[x.ad] = [draft |-> x.mem.id, image |-> x.mem.image]
          /\ \A p \in published : p.ad # x.ad

CallInv(x) == x \in Calls /\ CopyInv(x) /\ PollInv(x) /\ PublishInv(x)

Distinct ==
    \A k, j \in Workers :
       \/ k = j
       \/ /\ h[k].pc = "poll" /\ h[j].pc = "poll" => h[k].round # h[j].round
          /\ h[k].pc = "record" /\ h[j].pc = "record" => h[k].ad # h[j].ad

IInv ==
    /\ TablesInv
    /\ h \in [Workers -> Calls]
    /\ \A k \in Workers : CallInv(h[k])
    /\ Distinct
    /\ Ledger!Legal

-----------------------------------------------------------------------------
\* What a step of one call leaves to the others

\* The tables after a step of call k, as far as they matter to other calls:
\* a row that changes gets a new version, a pair stays complete, only its
\* own generation decides a round, and only a write of its draft makes a
\* current round another one's.
World(k) ==
    /\ \A j \in Workers : j # k => h'[j] = h[j]
    /\ DOMAIN drafts \subseteq DOMAIN drafts'
    /\ \A d \in DOMAIN drafts :
          drafts'[d] = drafts[d] \/ drafts'[d].version > drafts[d].version
    /\ GoodRows(drafts)'
    /\ DOMAIN rounds \subseteq DOMAIN rounds'
    /\ \A r \in DOMAIN rounds :
          /\ rounds'[r].draft = rounds[r].draft
          /\ Complete(r) => Complete(r)'
          /\ Undecided(r) /\ ~(h[k].pc = "poll" /\ h[k].round = r) => Undecided(r)'
          /\ \/ Current(r) /\ ~(h[k].pc = "poll" /\ h[k].round = r) => Current(r)'
             \/ drafts'[rounds[r].draft].version > drafts[rounds[r].draft].version
    /\ DOMAIN ads \subseteq DOMAIN ads'
    /\ \A a \in DOMAIN ads : ads'[a] = ads[a]
    /\ \A p \in published' \ published : h[k].pc = "record" /\ p.ad = h[k].ad

\* What is well-formed stays so when rows are added to the tables.
LEMMA TypesGrow ==
    ASSUME DOMAIN drafts \subseteq DOMAIN drafts', DOMAIN rounds \subseteq DOMAIN rounds',
           DOMAIN ads \subseteq DOMAIN ads'
    PROVE  /\ Images \subseteq Images'
           /\ Contexts \subseteq Contexts'
           /\ SessionRows \subseteq SessionRows'
           /\ \A A : DraftRows(A) \subseteq DraftRows(A)'
           /\ DraftRows(Ids) \subseteq DraftRows(Ids)'
           /\ Calls \subseteq Calls'
<1>1. Rounds \subseteq Rounds'
  BY DEF Rounds
<1>2. Images \subseteq Images' /\ Contexts \subseteq Contexts'
  BY <1>1 DEF Images, Contexts
<1>3. SessionRows \subseteq SessionRows'
  BY <1>2 DEF SessionRows
<1>4. \A A : DraftRows(A) \subseteq DraftRows(A)'
  BY <1>2 DEF DraftRows
<1>5. DraftRows(Ids) \subseteq DraftRows(Ids)'
  BY <1>2 DEF DraftRows, Ids
<1>6. Calls \subseteq Calls'
  BY <1>1, <1>3, <1>5 DEF Calls, Ids
<1>7. QED
  BY <1>2, <1>3, <1>4, <1>5, <1>6

\* Members of a call's record.
LEMMA CallFields ==
    ASSUME NEW x \in Calls
    PROVE  /\ x.pc \in PCs /\ x.kind \in AllKinds
           /\ x.row \in SessionRows /\ x.row.context \in Contexts
           /\ x.mem \in DraftRows(Ids) /\ x.mem.id \in Ids
           /\ x.mem.version \in Nat /\ x.mem.image \in Images
           /\ x.round \in {NoRound} \union DOMAIN rounds
           /\ x.ad \in {0} \union DOMAIN ads
BY DEF Calls, SessionRows, DraftRows, Ids, Rounds

\* A step of call k keeps the invariant of every other call.
LEMMA OthersKeep ==
    ASSUME IInv, NEW k \in Workers, World(k), NEW j \in Workers, j # k
    PROVE  CallInv(h[j])' /\ h'[j] = h[j]
<1> DEFINE x == h[j]
<1>1. CallInv(x) /\ h'[j] = x /\ h \in [Workers -> Calls]
  BY DEF IInv, World
<1>2. /\ x \in Calls
      /\ x.mem.id \in Ids /\ x.mem.version \in Nat /\ x.mem.image \in Images
      /\ x.row.context \in Contexts
      /\ x.round \in {NoRound} \union DOMAIN rounds /\ x.ad \in {0} \union DOMAIN ads
  BY <1>1, CallFields DEF CallInv
<1>3. x \in Calls'
  BY <1>2, TypesGrow DEF World
<1>4. /\ \A d \in DOMAIN drafts : /\ drafts[d].version \in Nat
                                  /\ drafts'[d].version \in Nat
  <2>1. GoodRows(drafts) /\ GoodRows(drafts)' /\ DOMAIN drafts \subseteq DOMAIN drafts'
    BY DEF IInv, TablesInv, World
  <2>2. /\ \A d \in DOMAIN drafts : drafts[d] \in DraftRows(DOMAIN drafts)
        /\ \A d \in DOMAIN drafts' : drafts'[d] \in DraftRows(DOMAIN drafts)'
    BY <2>1 DEF GoodRows
  <2>3. QED
    BY <2>1, <2>2 DEF DraftRows
<1>5. \A image \in Images : Shown(image) => Shown(image)'
  BY DEF World, Shown, Images, Rounds, NoImage
<1>6. \A context \in Contexts : Offered(context) => Offered(context)'
  BY DEF World, Offered, Contexts, NoContext, OtherContext, RoundContext, Rounds
<1>7. x.mem.id # New => x.mem.id \in DOMAIN drafts
  BY <1>2 DEF Ids
<1>8. CopyInv(x)'
  <2>1. CopyInv(x)
    BY <1>1 DEF CallInv
  <2>2. Shown(x.mem.image)' /\ Offered(x.row.context)'
    BY <2>1, <1>1, <1>2, <1>5, <1>6 DEF CopyInv
  <2>3. CASE x.mem.id = New
    BY <2>1, <2>2, <2>3, <1>1 DEF CopyInv
  <2>4. CASE x.mem.id # New
    <3>1. \/ drafts'[x.mem.id] = drafts[x.mem.id]
          \/ drafts'[x.mem.id].version > drafts[x.mem.id].version
      BY <2>4, <1>7 DEF World
    <3>2. QED
      BY <2>1, <2>2, <2>4, <3>1, <1>1, <1>2, <1>4, <1>7 DEF CopyInv
  <2>5. QED
    BY <2>3, <2>4
<1>9. PollInv(x)'
  <2> SUFFICES ASSUME x.pc = "poll"
               PROVE  PollInv(x)'
    BY <1>1 DEF PollInv
  <2>1. /\ x.mem.id # New /\ x.round # NoRound
        /\ rounds[x.round].draft = x.mem.id
        /\ Undecided(x.round)
        /\ x.mem.version = drafts[x.mem.id].version => Current(x.round)
    BY <1>1 DEF CallInv, PollInv
  <2>2. x.round \in DOMAIN rounds /\ x.mem.id \in DOMAIN drafts
    BY <2>1, <1>2, <1>7
  <2>3. ~(h[k].pc = "poll" /\ h[k].round = x.round)
    BY DEF IInv, Distinct
  <2>4. /\ rounds'[x.round].draft = x.mem.id
        /\ Undecided(x.round)'
        /\ \/ Current(x.round) => Current(x.round)'
           \/ drafts'[x.mem.id].version > drafts[x.mem.id].version
    BY <2>1, <2>2, <2>3, <1>1 DEF World, Undecided, Current
  <2>5. x.mem.version <= drafts[x.mem.id].version
    BY <2>1, <1>1 DEF CallInv, CopyInv
  <2>6. \/ drafts'[x.mem.id] = drafts[x.mem.id]
        \/ drafts'[x.mem.id].version > drafts[x.mem.id].version
    BY <2>2 DEF World
  <2>7. (x.mem.version = drafts'[x.mem.id].version) => Current(x.round)'
    BY <2>1, <2>2, <2>4, <2>5, <2>6, <1>2, <1>4
  <2>8. QED
    BY <2>1, <2>4, <2>7, <1>1 DEF PollInv
<1>10. PublishInv(x)'
  <2>1. PublishInv(x) /\ h[k] \in Calls
    BY <1>1 DEF CallInv
  <2>2. x.pc = "record" => ~(h[k].pc = "record" /\ h[k].ad = x.ad)
    BY DEF IInv, Distinct
  <2>3. QED
    BY <2>1, <2>2, <1>1, <1>2 DEF PublishInv, World
<1>11. QED
  BY <1>1, <1>3, <1>8, <1>9, <1>10 DEF CallInv

-----------------------------------------------------------------------------
\* Steps that open and decide no round and give the CMS nothing

\* r is the row b, or b after updates that end no generation with a preview
\* and publish nothing.
Kin(b, r) ==
    \/ r = b
    \/ r.version > b.version /\ Shown(r.image) /\ r.status \in {b.status, "DRAFT", "GENERATING"}

Follows(rows) ==
    /\ GoodRows(rows)
    /\ DOMAIN drafts \subseteq DOMAIN rows
    /\ \A d \in DOMAIN drafts : Kin(drafts[d], rows[d])
    /\ \A d \in DOMAIN rows \ DOMAIN drafts : Shown(rows[d].image)

Quiet(k) ==
    /\ UNCHANGED <<rounds, published, ads>>
    /\ received' \in 0..MaxMsgs /\ aborts' \in 0..MaxAborts
    /\ aborts' >= aborts
    /\ h[k].pc = "record" => aborts' = aborts + 1
    /\ Follows(drafts')
    /\ session' \in SessionRows' /\ Offered(session'.context)
    /\ \E x : /\ h' = [h EXCEPT ![k] = x]
              /\ x.pc \notin {"poll", "record"}
              /\ x \in Calls' /\ CopyInv(x)' /\ PublishInv(x)'

\* A quiet step leaves to the others what they need.
LEMMA QuietWorld ==
    ASSUME IInv, NEW k \in Workers, Quiet(k)
    PROVE  World(k)
<1>1. rounds' = rounds /\ ads' = ads /\ published' = published
  BY DEF Quiet
<1>2. \A j \in Workers : j # k => h'[j] = h[j]
  BY DEF Quiet, IInv
<1>3. Follows(drafts')
  BY DEF Quiet
<1>4. /\ DOMAIN drafts \subseteq DOMAIN drafts'
      /\ \A d \in DOMAIN drafts :
            drafts'[d] = drafts[d] \/ drafts'[d].version > drafts[d].version
  BY <1>3 DEF Follows, Kin
<1>5. GoodRows(drafts)'
  BY <1>1, <1>3 DEF Follows, GoodRows, DraftRows, Images, Rounds
<1>6. QED
  BY <1>1, <1>2, <1>4, <1>5 DEF World, Complete, Undecided, Current

\* A quiet step keeps the invariant.
LEMMA QuietKeeps ==
    ASSUME IInv, NEW k \in Workers, Quiet(k)
    PROVE  IInv'
<1>1. World(k)
  BY QuietWorld
<1>2. rounds' = rounds /\ ads' = ads /\ published' = published
  BY DEF Quiet
<1>3. TablesInv /\ h \in [Workers -> Calls] /\ Distinct /\ Ledger!Legal
  BY DEF IInv
<1>4. \A image : Shown(image)' <=> Shown(image)
  BY <1>2 DEF Shown, Complete
<1>5. TablesInv'
  <2>1. GoodRows(drafts)' /\ DOMAIN drafts \subseteq DOMAIN drafts'
    BY <1>1 DEF World
  <2>2. rounds' \in Seq(RoundRows)'
    <3>1. RoundRows \subseteq RoundRows'
      BY <2>1 DEF RoundRows
    <3>2. QED
      BY <1>2, <1>3, <3>1 DEF TablesInv
  <2>3. ads' \in Seq(AdRows)'
    <3>1. AdRows \subseteq AdRows'
      BY <1>2, <2>1 DEF AdRows, Images, Rounds
    <3>2. QED
      BY <1>2, <1>3, <3>1 DEF TablesInv
  <2>4. (published \subseteq [ad : DOMAIN ads, draft : DOMAIN drafts])' /\ IsFiniteSet(published)'
    BY <1>2, <1>3, <2>1 DEF TablesInv
  <2>5. (\A d \in DOMAIN drafts : Shown(drafts[d].image))'
    <3>1. Follows(drafts')
      BY DEF Quiet
    <3>2. \A d \in DOMAIN drafts : Shown(drafts'[d].image)
      BY <1>3, <3>1 DEF Follows, Kin, TablesInv
    <3>3. \A d \in DOMAIN drafts' \ DOMAIN drafts : Shown(drafts'[d].image)
      BY <3>1 DEF Follows
    <3>4. QED
      BY <1>4, <3>2, <3>3
  <2>6. (\A a \in DOMAIN ads : ads[a].image # NoImage /\ Shown(ads[a].image))'
    BY <1>2, <1>3, <1>4 DEF TablesInv
  <2>7. session' \in SessionRows' /\ Offered(session.context)'
    BY <1>2 DEF Quiet, Offered, Complete
  <2>8. QED
    BY <2>1, <2>2, <2>3, <2>4, <2>5, <2>6, <2>7 DEF TablesInv, Quiet
<1>6. PICK x : /\ h' = [h EXCEPT ![k] = x]
               /\ x.pc \notin {"poll", "record"}
               /\ x \in Calls' /\ CopyInv(x)' /\ PublishInv(x)'
  BY DEF Quiet
<1>7. h'[k] = x /\ \A j \in Workers \ {k} : CallInv(h[j])' /\ h'[j] = h[j]
  BY <1>1, <1>3, <1>6, OthersKeep
<1>8. \A j \in Workers : CallInv(h[j])'
  BY <1>6, <1>7 DEF CallInv, PollInv, CopyInv, PublishInv
<1>9. (h \in [Workers -> Calls])'
  BY <1>3, <1>6, <1>8 DEF CallInv
<1>10. Distinct'
  BY <1>3, <1>6, <1>7 DEF Distinct
<1>11. Ledger!Legal'
  BY <1>2, <1>3 DEF Ledger!Legal, Ledger!Of
<1>12. QED
  BY <1>5, <1>8, <1>9, <1>10, <1>11 DEF IInv

-----------------------------------------------------------------------------
\* The commits that handlers end with

Origins(k) == {Loaded(k), FreshCopy}

\* What is known of a row.
LEMMA DraftFields ==
    ASSUME IInv, NEW d \in DOMAIN drafts
    PROVE  /\ drafts[d] \in DraftRows(DOMAIN drafts) /\ drafts[d] \in DraftRows(Ids)
           /\ drafts[d].id = d /\ d # New
           /\ drafts[d].version \in Nat
           /\ drafts[d].image \in Images /\ Shown(drafts[d].image)
<1>1. GoodRows(drafts) /\ Shown(drafts[d].image)
  BY DEF IInv, TablesInv
<1>2. drafts[d] \in DraftRows(DOMAIN drafts) /\ drafts[d].id = d /\ d # New
  BY <1>1 DEF GoodRows, New
<1>3. QED
  BY <1>1, <1>2, RowsGrow DEF Ids, DraftRows

\* Both origins are well-formed, and equal the row they come from.
LEMMA OriginTyped ==
    ASSUME IInv, NEW k \in Workers, NEW b \in Origins(k)
    PROVE  /\ b \in Copies
           /\ Derived(b, b)
           /\ b.row.id = b.mem.id
           /\ Shown(b.row.image) /\ Shown(b.mem.image)
           /\ IF b.row.id = New THEN b.row.image = NoImage
              ELSE b = Loaded(k) /\ b.row = drafts[b.row.id]
<1>1. CASE b = FreshCopy
  <2>1. FreshDraft \in DraftRows(Ids) /\ FreshDraft.version <= FreshDraft.version
    BY DEF FreshDraft, DraftRows, Statuses, Images, Ids
  <2>2. QED
    BY <1>1, <2>1 DEF FreshCopy, Copies, Derived, Shown, FreshDraft
<1>2. CASE b = Loaded(k)
  <2>1. h[k] \in Calls /\ CopyInv(h[k])
    BY DEF IInv, CallInv
  <2>2. h[k].mem \in DraftRows(Ids) /\ h[k].mem.id \in Ids /\ h[k].mem.version \in Nat
    BY <2>1, CallFields
  <2>3. CASE h[k].mem.id = New
    <3>1. b = [row |-> h[k].mem, mem |-> h[k].mem, ok |-> TRUE]
      BY <1>2, <2>3 DEF Loaded
    <3>2. QED
      BY <2>1, <2>2, <2>3, <3>1 DEF Copies, Derived, CopyInv
  <2>4. CASE h[k].mem.id # New
    <3>1. b = [row |-> drafts[h[k].mem.id], mem |-> h[k].mem, ok |-> TRUE]
      BY <1>2, <2>4 DEF Loaded
    <3>2. h[k].mem.id \in DOMAIN drafts
      BY <2>2, <2>4 DEF Ids
    <3>3. QED
      BY <1>2, <2>1, <2>2, <2>4, <3>1, <3>2, DraftFields DEF Copies, Derived, CopyInv
  <2>5. QED
    BY <2>3, <2>4
<1>3. QED
  BY <1>1, <1>2 DEF Origins

\* Committing what is derived from an origin gives rows that follow the old
\* ones, and names a draft at least as new as the call's copy.
LEMMA CommitFollows ==
    ASSUME IInv, NEW k \in Workers, NEW b \in Origins(k), NEW c \in Copies, Derived(b, c)
    PROVE  LET rows == Put(drafts, c.row)
               cur == IdIn(drafts, c.mem)
           IN  /\ Follows(rows)
               /\ cur \in DOMAIN rows /\ cur # New
               /\ c.mem.version <= rows[cur].version
               /\ Shown(c.mem.image)
               /\ IdIn(drafts, c.row) = cur
<1> DEFINE rows == Put(drafts, c.row)
           cur == IdIn(drafts, c.mem)
<1>1. /\ b \in Copies
      /\ b.row.id = b.mem.id
      /\ Shown(b.row.image) /\ Shown(b.mem.image)
      /\ IF b.row.id = New THEN b.row.image = NoImage
         ELSE b = Loaded(k) /\ b.row = drafts[b.row.id]
  BY OriginTyped
<1>2. c.row \in DraftRows(Ids) /\ c.row.id = c.mem.id /\ c.row.id = b.row.id
  BY <1>1 DEF Copies, Derived
<1>3. IdIn(drafts, c.row) = cur
  BY <1>2 DEF IdIn
<1>4. GoodRows(drafts)
  BY DEF IInv, TablesInv
<1>5. /\ GoodRows(rows)
      /\ cur \in DOMAIN rows
      /\ DOMAIN rows = DOMAIN drafts \union {cur}
      /\ c.row.id # New => cur = c.row.id /\ cur \in DOMAIN drafts
      /\ c.row.id = New => cur \notin DOMAIN drafts
      /\ cur # New
      /\ rows[cur] = [c.row EXCEPT !.id = cur]
      /\ \A x \in DOMAIN drafts : x # cur => rows[x] = drafts[x]
  BY <1>2, <1>3, <1>4, PutRows
<1>6. /\ rows[cur].version = c.row.version /\ rows[cur].image = c.row.image
      /\ rows[cur].status = c.row.status
      /\ c.row.id # New => rows[cur] = c.row
  BY <1>2, <1>5 DEF DraftRows
<1> HIDE DEF rows, cur
<1>7. CASE c.row.id = New
  <2>1. \A d \in DOMAIN drafts : Kin(drafts[d], rows[d])
    BY <1>5, <1>7 DEF Kin
  <2>2. \A d \in DOMAIN rows \ DOMAIN drafts : Shown(rows[d].image)
    BY <1>1, <1>2, <1>5, <1>6, <1>7 DEF Derived
  <2>3. QED
    BY <1>1, <1>3, <1>5, <1>6, <2>1, <2>2 DEF Follows, Derived, rows, cur
<1>8. CASE c.row.id # New
  <2>1. b.row = drafts[cur]
    BY <1>1, <1>2, <1>5, <1>8
  <2>2. Kin(drafts[cur], rows[cur])
    BY <1>1, <1>6, <1>8, <2>1 DEF Kin, Derived
  <2>3. \A d \in DOMAIN drafts : Kin(drafts[d], rows[d])
    BY <1>5, <2>2 DEF Kin
  <2>4. QED
    BY <1>1, <1>3, <1>5, <1>6, <1>8, <2>3 DEF Follows, Derived, rows, cur
<1>9. QED
  BY <1>7, <1>8

\* The drafts of these rows show what they showed, new ones nothing.
KeepsImages(rows) ==
    \A d \in DOMAIN rows :
        rows[d].image = IF d \in DOMAIN drafts THEN drafts[d].image ELSE NoImage

\* Such a commit shows no other image, and its draft is the one the call
\* works on or a new one.
LEMMA CommitKeepsImages ==
    ASSUME IInv, NEW k \in Workers, NEW b \in Origins(k), NEW c \in Copies, Derived(b, c)
    PROVE  LET rows == Put(drafts, c.row)
               cur == IdIn(drafts, c.mem)
           IN  /\ KeepsImages(rows)
               /\ cur \in DOMAIN rows /\ cur # New
               /\ \/ cur \notin DOMAIN drafts /\ c.mem.id = New
                  \/ cur = h[k].mem.id /\ c.mem.id = h[k].mem.id /\ cur \in DOMAIN drafts
<1> DEFINE rows == Put(drafts, c.row)
           cur == IdIn(drafts, c.mem)
<1>1. /\ b \in Copies
      /\ b.row.id = b.mem.id
      /\ IF b.row.id = New THEN b.row.image = NoImage
         ELSE b = Loaded(k) /\ b.row = drafts[b.row.id]
  BY OriginTyped
<1>2. /\ c.row \in DraftRows(Ids) /\ c.row.id = c.mem.id /\ c.row.id = b.row.id
      /\ c.row.image = b.row.image
  BY <1>1 DEF Copies, Derived
<1>3. IdIn(drafts, c.row) = cur
  BY <1>2 DEF IdIn
<1>4. GoodRows(drafts)
  BY DEF IInv, TablesInv
<1>5. /\ cur \in DOMAIN rows
      /\ DOMAIN rows = DOMAIN drafts \union {cur}
      /\ c.row.id # New => cur = c.row.id /\ cur \in DOMAIN drafts
      /\ c.row.id = New => cur \notin DOMAIN drafts
      /\ cur # New
      /\ rows[cur] = [c.row EXCEPT !.id = cur]
      /\ \A x \in DOMAIN drafts : x # cur => rows[x] = drafts[x]
  BY <1>2, <1>3, <1>4, PutRows
<1>6. rows[cur].image = b.row.image
  BY <1>2, <1>5 DEF DraftRows
<1>7. b.row.id # New => b.mem.id = h[k].mem.id
  BY <1>1 DEF Loaded
<1> HIDE DEF rows, cur
<1>8. KeepsImages(rows)
  BY <1>1, <1>2, <1>5, <1>6 DEF KeepsImages
<1>9. QED
  BY <1>1, <1>2, <1>5, <1>7, <1>8 DEF rows, cur

\* An idle call has nothing to keep.
LEMMA IdleIsFine ==
    ASSUME IInv, NEW k \in Workers, rounds' = rounds, h' = [h EXCEPT ![k] = IdleCall]
    PROVE  /\ IdleCall \in Calls' /\ IdleCall.pc \notin {"poll", "record"}
           /\ CopyInv(IdleCall)' /\ PublishInv(IdleCall)'
<1>1. FreshDraft \in DraftRows({New} \union DOMAIN drafts)'
  BY DEF FreshDraft, DraftRows, Statuses, Images
<1>2. NoSession \in SessionRows'
  BY DEF NoSession, SessionRows, Pendings, Contexts
<1>3. IdleCall \in Calls'
  BY <1>1, <1>2 DEF IdleCall, Calls, PCs, AllKinds
<1>4. QED
  BY <1>3 DEF IdleCall, CopyInv, PublishInv, NoSession, FreshDraft, Shown, Offered, NoContext

SessionsOver(rows) ==
    [draft : {New} \union DOMAIN rows, pending : Pendings, context : Contexts]

\* The session row after a commit that decides on the pending question.
LEMMA SavedTyped ==
    ASSUME IInv, NEW k \in Workers, NEW rows, DOMAIN drafts \subseteq DOMAIN rows,
           NEW cur \in {New} \union DOMAIN rows, NEW pending \in Pendings,
           NEW context \in Contexts
    PROVE  \A s \in Saved(h[k].row, cur, pending, context) :
              s \in SessionsOver(rows) /\ s.context \in {session.context, context}
<1>1. session \in SessionRows
  BY DEF IInv, TablesInv
<1> DEFINE byColumn == ByColumn(h[k].row, cur, pending, context)
           whole == [draft |-> cur, pending |-> pending, context |-> context]
<1>2. byColumn \in SessionsOver(rows) /\ byColumn.context \in {session.context, context}
  BY <1>1 DEF SessionRows, SessionsOver, ByColumn
<1>3. whole \in SessionsOver(rows) /\ whole.context = context
  BY DEF SessionsOver
<1>4. Saved(h[k].row, cur, pending, context) \subseteq {byColumn, whole}
  BY DEF Saved
<1> HIDE DEF byColumn, whole
<1>5. QED
  BY <1>2, <1>3, <1>4

\* The session row after a commit that leaves the pending question.
LEMMA SessionKept ==
    ASSUME IInv, NEW k \in Workers, NEW rows, DOMAIN drafts \subseteq DOMAIN rows,
           NEW cur \in {New} \union DOMAIN rows, FinishKeeping(k, rows, cur)
    PROVE  /\ session' \in SessionsOver(rows)
           /\ session'.context \in {session.context, NoContext}
<1>1. session \in SessionRows
  BY DEF IInv, TablesInv
<1>2. CASE session' = [session EXCEPT !.draft = IF cur # h[k].row.draft THEN cur ELSE @]
  BY <1>1, <1>2 DEF SessionRows, SessionsOver
<1>3. CASE session' = [NoSession EXCEPT !.draft = cur]
  BY <1>3 DEF NoSession, SessionsOver, Pendings, Contexts
<1>4. QED
  BY <1>2, <1>3 DEF FinishKeeping

\* A call that ends with the commit of drafts that show no new image.
LEMMA FinishQuiet ==
    ASSUME IInv, NEW k \in Workers, h[k].pc # "record", Kept,
           NEW rows, Follows(rows), NEW cur \in {New} \union DOMAIN rows,
           \/ FinishKeeping(k, rows, cur)
           \/ \E pending \in Pendings, context \in {NoContext, OtherContext} :
                 Finish(k, rows, cur, pending, context)
    PROVE  Quiet(k)
<1>1. drafts' = rows /\ rounds' = rounds /\ h' = [h EXCEPT ![k] = IdleCall]
  BY DEF FinishKeeping, Finish, Kept
<1>2. DOMAIN drafts \subseteq DOMAIN rows
  BY DEF Follows
<1>3. Offered(session.context) /\ Offered(NoContext) /\ Offered(OtherContext)
  BY DEF IInv, TablesInv, Offered, NoContext, OtherContext
<1>4. NoContext \in Contexts /\ OtherContext \in Contexts /\ "NONE" \in Pendings
  BY DEF Contexts, Pendings
<1>5. session' \in SessionRows' /\ Offered(session'.context)
  <2>1. SessionRows' = SessionsOver(rows)
    BY <1>1 DEF SessionRows, SessionsOver, Contexts, Rounds
  <2>2. CASE FinishKeeping(k, rows, cur)
    BY <1>2, <1>3, <2>1, <2>2, SessionKept
  <2>3. ASSUME NEW pending \in Pendings, NEW context \in {NoContext, OtherContext},
               Finish(k, rows, cur, pending, context)
        PROVE  session' \in SessionRows' /\ Offered(session'.context)
    <3>1. session' \in Saved(h[k].row, cur, pending, context)
      BY <2>3 DEF Finish
    <3>2. \A s \in Saved(h[k].row, cur, pending, context) :
             s \in SessionsOver(rows) /\ s.context \in {session.context, context}
      BY <1>2, <1>4, SavedTyped
    <3>3. QED
      BY <1>3, <2>1, <3>1, <3>2
  <2>4. QED
    BY <2>2, <2>3
<1>6. /\ received' \in 0..MaxMsgs /\ aborts' \in 0..MaxAborts /\ aborts' >= aborts
      /\ rounds' = rounds /\ published' = published /\ ads' = ads
  BY DEF IInv, TablesInv, Kept
<1>7. QED
  BY <1>1, <1>5, <1>6, IdleIsFine DEF Quiet

\* The call k ends with the commit of its copy c. It leaves the pending
\* question only with the draft that it loaded.
Ends(k, c) ==
    LET rows == Put(drafts, c.row)
        cur == IdIn(drafts, c.mem)
    IN  \/ /\ h[k].pc \in {"act", "cms"} /\ c.mem.id = h[k].mem.id
           /\ FinishKeeping(k, rows, cur)
        \/ \E pending \in Pendings, context \in {NoContext, OtherContext} :
              Finish(k, rows, cur, pending, context)

From(k, c) == c \in Copies /\ \E b \in Origins(k) : Derived(b, c)

\* A call that ends with such a commit of such a copy is quiet.
LEMMA EndsQuiet ==
    ASSUME IInv, NEW k \in Workers, h[k].pc # "record", Kept, NEW c, From(k, c), Ends(k, c)
    PROVE  Quiet(k)
<1> DEFINE rows == Put(drafts, c.row)
           cur == IdIn(drafts, c.mem)
<1>1. Follows(rows) /\ cur \in DOMAIN rows
  BY CommitFollows DEF From
<1>2. \/ FinishKeeping(k, rows, cur)
      \/ \E pending \in Pendings, context \in {NoContext, OtherContext} :
            Finish(k, rows, cur, pending, context)
  BY DEF Ends
<1> HIDE DEF rows, cur
<1>3. QED
  BY <1>1, <1>2, FinishQuiet

\* The origins themselves come from an origin.
LEMMA OriginFrom ==
    ASSUME IInv, NEW k \in Workers
    PROVE  From(k, Loaded(k)) /\ From(k, FreshCopy)
BY OriginTyped DEF From, Origins

\* So does what a plain write makes of a copy that does.
LEMMA WriteFrom ==
    ASSUME IInv, NEW k \in Workers, NEW c, From(k, c),
           NEW fields, Plain(fields), NEW w \in Write(c, fields)
    PROVE  From(k, w)
BY OriginTyped, WriteDerived DEF From

\* A plain write keeps the id of the copy.
LEMMA WriteKeepsId ==
    ASSUME IInv, NEW k \in Workers, NEW c, From(k, c),
           NEW fields, Plain(fields), NEW w \in Write(c, fields)
    PROVE  w.mem.id = c.mem.id
BY WriteTyped DEF From, Plain

\* The updates of the handlers, but for those that show an image or publish.
LEMMA PlainFields ==
    /\ Plain(NoFields)
    /\ Plain([awaiting |-> FALSE, photo |-> FALSE])
    /\ Plain([awaiting |-> FALSE])
    /\ Plain([photo |-> TRUE])
    /\ Plain([photo |-> TRUE, awaiting |-> TRUE])
    /\ Plain([typed |-> TRUE, awaiting |-> TRUE])
    /\ \A typed \in BOOLEAN : Plain([typed |-> typed])
    /\ Plain([status |-> "DRAFT", awaiting |-> FALSE])
    /\ Plain([status |-> "GENERATING", awaiting |-> FALSE])
BY DEF Plain, Legitimate, NoFields, Statuses

\* The questions and the refusal all end the call that way.
LEMMA AsksEnd ==
    ASSUME NEW k, NEW c
    PROVE  LET rows == Put(drafts, c.row)
               cur == IdIn(drafts, c.mem)
           IN  /\ /\ h[k].pc \in {"act", "cms"} /\ c.mem.id = h[k].mem.id
                  /\ FinishKeeping(k, rows, cur)
                  => Ends(k, c)
               /\ AskNothing(k, rows, cur) => Ends(k, c)
               /\ AskProduct(k, rows, cur) => Ends(k, c)
               /\ AskProductAgain(k, rows, cur) => Ends(k, c)
               /\ AskType(k, rows, cur) => Ends(k, c)
               /\ AskMissing(k, rows, cur) => Ends(k, c)
BY DEF Ends, AskNothing, AskProduct, AskProductAgain, AskType, AskMissing, Pendings

\* Committing and going on to the planner is quiet.
LEMMA PlanQuiet ==
    ASSUME IInv, NEW k \in Workers, h[k].pc # "record", Kept, NEW c, From(k, c),
           NEW kind \in AllKinds, NEW cleared \in BOOLEAN, CommitAndPlan(k, c, kind, cleared)
    PROVE  Quiet(k)
<1> DEFINE rows == Put(drafts, c.row)
           cur == IdIn(drafts, c.mem)
<1>1. /\ Follows(rows) /\ cur \in DOMAIN rows /\ cur # New
      /\ c.mem.version <= rows[cur].version /\ Shown(c.mem.image)
  BY CommitFollows DEF From
<1>2. h[k] \in Calls /\ CopyInv(h[k]) /\ h \in [Workers -> Calls]
  BY DEF IInv, CallInv
<1> PICK mem : mem = [c.mem EXCEPT !.id = cur]
  OBVIOUS
<1> PICK row : row = IF cleared THEN [h[k].row EXCEPT !.pending = "NONE", !.context = NoContext]
                     ELSE h[k].row
  OBVIOUS
<1>3. PICK x :
         /\ x = [h[k] EXCEPT !.pc = "plan", !.kind = kind, !.mem = mem, !.row = row]
         /\ h' = [h EXCEPT ![k] = x]
         /\ drafts' = rows
         /\ session' \in {session, [session EXCEPT !.pending = "NONE", !.context = NoContext]}
  BY <1>2 DEF CommitAndPlan
<1>4. rounds' = rounds /\ published' = published /\ ads' = ads
  BY DEF Kept
<1>5. /\ mem \in DraftRows(DOMAIN rows) /\ mem.id = cur
      /\ mem.version = c.mem.version /\ mem.image = c.mem.image
  BY <1>1 DEF From, Copies, DraftRows
<1>6. row \in SessionRows /\ Offered(row.context)
  BY <1>2, CallFields DEF SessionRows, Pendings, Contexts, CopyInv, Offered, NoContext
<1> HIDE DEF rows, cur
<1>7. /\ x.pc = "plan" /\ x.mem = mem /\ x.row = row
      /\ x.kind = kind /\ x.round = h[k].round /\ x.ad = h[k].ad
  BY <1>2, <1>3 DEF Calls
<1>8. x \in Calls'
  <2>1. row \in SessionRows' /\ mem \in DraftRows({New} \union DOMAIN drafts)'
    BY <1>1, <1>3, <1>4, <1>5, <1>6 DEF Follows, SessionRows, Contexts, DraftRows, Images, Rounds
  <2>2. /\ h[k].round \in ({NoRound} \union Rounds)' /\ h[k].ad \in ({0} \union DOMAIN ads)'
    BY <1>2, <1>4 DEF Calls, Rounds
  <2>3. x \in [pc : PCs, kind : AllKinds, row : {row}, mem : {mem},
               round : {h[k].round}, ad : {h[k].ad}]
    BY <1>2, <1>3 DEF Calls, PCs
  <2>4. QED
    BY <2>1, <2>2, <2>3 DEF Calls
<1>9. CopyInv(x)' /\ PublishInv(x)'
  <2>1. Shown(mem.image)' /\ Offered(row.context)'
    BY <1>1, <1>4, <1>5, <1>6 DEF Shown, Offered, Complete
  <2>2. QED
    BY <1>1, <1>3, <1>5, <1>7, <2>1 DEF CopyInv, PublishInv
<1>10. session' \in SessionRows' /\ Offered(session'.context)
  <2>1. session \in SessionRows /\ Offered(session.context)
    BY DEF IInv, TablesInv
  <2>2. LET s == [session EXCEPT !.pending = "NONE", !.context = NoContext]
        IN  s \in SessionRows /\ s.context = NoContext
    BY <2>1 DEF SessionRows, Pendings, Contexts
  <2>3. Offered(NoContext)
    BY DEF Offered, NoContext
  <2>4. SessionRows \subseteq SessionRows'
    BY <1>1, <1>3, <1>4 DEF Follows, SessionRows, Contexts, Rounds
  <2>5. QED
    BY <1>3, <2>1, <2>2, <2>3, <2>4
<1>11. received' \in 0..MaxMsgs /\ aborts' \in 0..MaxAborts /\ aborts' >= aborts
  BY DEF IInv, TablesInv, Kept
<1>12. QED
  BY <1>1, <1>3, <1>4, <1>7, <1>8, <1>9, <1>10, <1>11 DEF Quiet

\* The commit of a copy that comes from an origin. It ends the call or goes
\* on to the planner.
Commits(k) ==
    /\ h[k].pc \in {"act", "plan", "poll", "cms"} /\ Kept
    /\ \E c : /\ From(k, c)
              /\ \/ Ends(k, c)
                 \/ /\ h[k].pc = "act"
                    /\ \E kind \in AllKinds, cleared \in BOOLEAN :
                          CommitAndPlan(k, c, kind, cleared)

\* Such a commit is quiet.
LEMMA CommitsQuiet ==
    ASSUME IInv, NEW k \in Workers, Commits(k)
    PROVE  Quiet(k)
BY EndsQuiet, PlanQuiet DEF Commits

\* Ending a call with such a copy commits.
LEMMA EndsCommit ==
    ASSUME NEW k, h[k].pc \in {"act", "plan", "poll", "cms"}, Kept, NEW c, From(k, c), Ends(k, c)
    PROVE  Commits(k)
BY DEF Commits

\* So does going on to the planner with one.
LEMMA PlanCommits ==
    ASSUME NEW k, h[k].pc = "act", Kept, NEW c, From(k, c),
           NEW kind \in AllKinds, NEW cleared \in BOOLEAN, CommitAndPlan(k, c, kind, cleared)
    PROVE  Commits(k)
BY DEF Commits

\* Leaving everything as it is is such a commit.
LEMMA LeaveCommits ==
    ASSUME IInv, NEW k \in Workers, h[k].pc \in {"act", "cms"}, LeaveAsIs(k)
    PROVE  Commits(k)
<1>1. Loaded(k).mem = h[k].mem
  BY DEF Loaded
<1>2. Ends(k, Loaded(k)) /\ Kept
  BY <1>1, AsksEnd DEF LeaveAsIs
<1>3. QED
  BY <1>2, OriginFrom, EndsCommit

\* Unchanged rows follow themselves.
LEMMA SameFollows ==
    ASSUME IInv
    PROVE  Follows(drafts)
<1>1. GoodRows(drafts)
  BY DEF IInv, TablesInv
<1>2. QED
  BY <1>1 DEF Follows, Kin

\* A new empty draft after the others.
LEMMA FreshRows ==
    ASSUME NEW rows, GoodRows(rows)
    PROVE  LET all == Append(rows, [FreshDraft EXCEPT !.id = Len(rows) + 1])
           IN  /\ GoodRows(all)
               /\ Len(all) = Len(rows) + 1 /\ Len(all) \in DOMAIN all
               /\ DOMAIN all = DOMAIN rows \union {Len(rows) + 1}
               /\ Len(rows) + 1 \notin DOMAIN rows
               /\ \A d \in DOMAIN rows : all[d] = rows[d]
               /\ all[Len(rows) + 1].image = NoImage
<1> DEFINE n == Len(rows)
           fresh == [FreshDraft EXCEPT !.id = n + 1]
           all == Append(rows, fresh)
<1>1. rows \in Seq(DraftRows(DOMAIN rows)) /\ n \in Nat /\ DOMAIN rows = 1..n
  BY DEF GoodRows
<1>2. fresh \in DraftRows(1..(n+1)) /\ fresh.id = n + 1 /\ fresh.image = NoImage
  <2>1. FreshDraft \in DraftRows({New}) /\ FreshDraft.image = NoImage
    BY DEF FreshDraft, DraftRows, Statuses, Images
  <2>2. n + 1 \in 1..(n+1)
    BY <1>1
  <2>3. QED
    BY <2>1, <2>2 DEF DraftRows
<1> HIDE DEF fresh
<1>3. \A d \in DOMAIN rows : rows[d] \in DraftRows(1..(n+1))
  BY <1>1, RowsGrow
<1>4. rows \in Seq(DraftRows(1..(n+1)))
  BY <1>1, <1>3
<1>5. /\ all \in Seq(DraftRows(1..(n+1)))
      /\ DOMAIN all = 1..(n+1) /\ Len(all) = n + 1
      /\ all[n+1] = fresh
      /\ \A d \in 1..n : all[d] = rows[d]
  BY <1>1, <1>2, <1>4
<1>6. GoodRows(all)
  BY <1>1, <1>2, <1>5 DEF GoodRows
<1>7. QED
  BY <1>1, <1>2, <1>5, <1>6 DEF fresh

\* The rows after one update of the draft a call works on.
LEMMA UpdateRows ==
    ASSUME IInv, NEW k \in Workers, NEW fields, Legitimate(fields),
           NEW c \in Write(Loaded(k), fields)
    PROVE  LET rows == Put(drafts, c.row)
               d == IdIn(drafts, c.mem)
               mem == h[k].mem
           IN  /\ c \in Copies
               /\ GoodRows(rows)
               /\ DOMAIN rows = DOMAIN drafts \union {d}
               /\ c.mem.id = mem.id
               /\ \A x \in DOMAIN drafts : x # d => rows[x] = drafts[x]
               /\ mem.id = New => /\ d \notin DOMAIN drafts
                                  /\ rows[d] = [Updated(mem, fields) EXCEPT !.id = d]
               /\ mem.id # New => d = mem.id /\ d \in DOMAIN drafts
               /\ mem.id # New /\ c.ok => /\ mem.version = drafts[d].version
                                          /\ rows[d] = Updated(drafts[d], fields)
                                          /\ c.mem = Updated(mem, fields)
               /\ mem.id = New => c.ok
               /\ ~c.ok => rows[d] = drafts[d]
<1> DEFINE mem == h[k].mem
           rows == Put(drafts, c.row)
           d == IdIn(drafts, c.mem)
           b == Loaded(k)
<1>1. /\ b \in Copies /\ b.row.id = b.mem.id /\ b.mem = mem
      /\ b.row.id # New => b.row = drafts[b.row.id]
      /\ b.row.id = New => b.row = mem
  BY OriginTyped DEF Origins, Loaded
<1>0. c \in Write(b, fields)
  OBVIOUS
<1> HIDE DEF b, mem, rows, d
<1>2. /\ c \in Copies
      /\ c.row.id = b.row.id /\ c.mem.id = b.mem.id
      /\ c.ok => /\ b.mem.version = b.row.version
                 /\ c.row = Updated(b.row, fields)
                 /\ c.mem = Updated(b.mem, fields)
      /\ ~c.ok => /\ b.mem.version # b.row.version
                  /\ c.row = b.row
  BY <1>1, <1>0, WriteTyped
<1>3. c.row \in DraftRows(Ids) /\ c.row.id = mem.id /\ c.mem.id = mem.id
  BY <1>1, <1>2 DEF Copies
<1>4. IdIn(drafts, c.row) = d
  BY <1>3 DEF IdIn, d
<1>5. GoodRows(drafts)
  BY DEF IInv, TablesInv
<1>6. /\ GoodRows(rows)
      /\ DOMAIN rows = DOMAIN drafts \union {d}
      /\ c.row.id # New => d = c.row.id /\ d \in DOMAIN drafts
      /\ c.row.id = New => d \notin DOMAIN drafts
      /\ rows[d] = [c.row EXCEPT !.id = d]
      /\ \A x \in DOMAIN drafts : x # d => rows[x] = drafts[x]
  BY <1>3, <1>4, <1>5, PutRows DEF rows
<1>7. mem.id # New => rows[d] = c.row
  BY <1>3, <1>6 DEF DraftRows
<1>8. QED
  BY <1>1, <1>2, <1>3, <1>6, <1>7 DEF rows, d, mem

-----------------------------------------------------------------------------
\* The quiet actions

\* A call that goes on without a commit.
LEMMA GoOnQuiet ==
    ASSUME IInv, NEW k \in Workers, h[k].pc # "record",
           NEW x, h' = [h EXCEPT ![k] = x], x \in Calls,
           x.pc \notin {"poll", "record"}, CopyInv(x), PublishInv(x),
           UNCHANGED <<session, drafts, rounds, published, ads, aborts>>,
           received' \in 0..MaxMsgs
    PROVE  Quiet(k)
<1>1. Calls' = Calls /\ SessionRows' = SessionRows
  BY DEF Calls, SessionRows, DraftRows, Contexts, Images, Rounds
<1>2. CopyInv(x)' /\ PublishInv(x)'
  BY DEF CopyInv, PublishInv, Shown, Offered, Complete
<1>3. session \in SessionRows /\ Offered(session.context) /\ aborts \in 0..MaxAborts
  BY DEF IInv, TablesInv
<1>4. Follows(drafts')
  BY SameFollows
<1>5. aborts' \in 0..MaxAborts /\ aborts' >= aborts
  BY <1>3
<1>6. session' \in SessionRows' /\ Offered(session'.context)
  BY <1>1, <1>3
<1>7. QED
  BY <1>1, <1>2, <1>4, <1>5, <1>6 DEF Quiet

\* The idle call and the fresh draft are well-formed.
LEMMA IdleTyped ==
    /\ IdleCall \in Calls
    /\ FreshDraft \in DraftRows(Ids)
    /\ CopyInv(IdleCall) /\ PublishInv(IdleCall)
<1>1. FreshDraft \in DraftRows(Ids)
  BY DEF FreshDraft, DraftRows, Statuses, Images, Ids
<1>2. NoSession \in SessionRows
  BY DEF NoSession, SessionRows, Pendings, Contexts
<1>3. IdleCall \in Calls
  BY <1>1, <1>2 DEF IdleCall, Calls, PCs, AllKinds, Ids
<1>4. QED
  BY <1>1, <1>3 DEF IdleCall, CopyInv, PublishInv, NoSession, FreshDraft, Shown, Offered, NoContext

\* Receiving a message is quiet.
LEMMA ReceiveQuiet ==
    ASSUME IInv, NEW k \in Workers, NEW kind \in Kinds, Receive(k, kind)
    PROVE  Quiet(k)
<1> DEFINE x == [IdleCall EXCEPT !.pc = "session", !.kind = kind]
<1>1. x \in Calls /\ x.pc = "session" /\ x.mem = IdleCall.mem /\ x.row = IdleCall.row
  BY IdleTyped DEF Calls, PCs
<1>2. CopyInv(x) /\ PublishInv(x)
  BY <1>1, IdleTyped DEF CopyInv, PublishInv, IdleCall
<1>3. received' \in 0..MaxMsgs
  BY DEF Receive, IInv, TablesInv
<1> HIDE DEF x
<1>4. h' = [h EXCEPT ![k] = x]
  BY DEF Receive, x
<1>5. QED
  BY <1>1, <1>2, <1>3, <1>4, GoOnQuiet DEF Receive

\* Loading is quiet: the copy is the row.
LEMMA LoadsQuiet ==
    ASSUME IInv, NEW k \in Workers, Loads(k)
    PROVE  Quiet(k)
<1>1. h[k] \in Calls /\ CopyInv(h[k]) /\ h \in [Workers -> Calls] /\ received \in 0..MaxMsgs
  BY DEF IInv, CallInv, TablesInv
<1>2. CASE LoadSession(k)
  <2> DEFINE x == [h[k] EXCEPT !.pc = "draft", !.row = session]
  <2>1. session \in SessionRows /\ Offered(session.context)
    BY DEF IInv, TablesInv
  <2>2. x \in Calls /\ x.pc = "draft" /\ x.mem = h[k].mem /\ x.row = session
    BY <1>1, <2>1 DEF Calls, PCs
  <2>3. h' = [h EXCEPT ![k] = x]
    BY <1>1, <1>2 DEF LoadSession
  <2> HIDE DEF x
  <2>4. CopyInv(x) /\ PublishInv(x)
    BY <1>1, <2>1, <2>2 DEF CopyInv, PublishInv
  <2>5. QED
    BY <1>1, <1>2, <2>2, <2>3, <2>4, GoOnQuiet DEF LoadSession, Kept
<1>3. CASE LoadDraft(k)
  <2> DEFINE mem == IF h[k].row.draft = New THEN FreshDraft ELSE drafts[h[k].row.draft]
             x == [h[k] EXCEPT !.pc = "act", !.mem = mem]
  <2>1. h[k].row \in SessionRows
    BY <1>1, CallFields
  <2>2. /\ mem \in DraftRows(Ids) /\ Shown(mem.image)
        /\ IF mem.id = New THEN mem.image = NoImage
           ELSE mem = drafts[mem.id] /\ mem.version <= drafts[mem.id].version
    <3>1. CASE h[k].row.draft = New
      BY <3>1, IdleTyped DEF FreshDraft, Shown
    <3>2. CASE h[k].row.draft # New
      BY <2>1, <3>2, DraftFields DEF SessionRows
    <3>3. QED
      BY <3>1, <3>2
  <2>3. h' = [h EXCEPT ![k] = x]
    BY <1>1, <1>3 DEF LoadDraft
  <2> HIDE DEF mem
  <2>4. x \in Calls /\ x.pc = "act" /\ x.mem = mem /\ x.row = h[k].row
    BY <1>1, <2>2 DEF Calls, PCs, Ids
  <2> HIDE DEF x
  <2>5. CopyInv(x) /\ PublishInv(x)
    BY <1>1, <2>2, <2>4 DEF CopyInv, PublishInv
  <2>6. QED
    BY <1>1, <1>3, <2>3, <2>4, <2>5, GoOnQuiet DEF LoadDraft, Kept
<1>4. QED
  BY <1>2, <1>3 DEF Loads

\* Answering the product question is such a commit.
LEMMA QuestionsCommit ==
    ASSUME IInv, NEW k \in Workers, Questions(k)
    PROVE  Commits(k)
<1>1. h[k].pc = "act" /\ Kept
  BY DEF Questions, Reprompt, RejectProduct, RepeatProductQuestion, ApproveProduct, Acts, LeaveAsIs
<1>2. From(k, Loaded(k))
  BY OriginFrom
<1>3. CASE Reprompt(k) \/ RepeatProductQuestion(k)
  BY <1>1, <1>3, LeaveCommits DEF Reprompt, RepeatProductQuestion
<1>4. CASE RejectProduct(k)
  <2>1. PICK c \in Write(Loaded(k), [awaiting |-> FALSE, photo |-> FALSE]) :
           AskNothing(k, Put(drafts, c.row), IdIn(drafts, c.mem))
    BY <1>4 DEF RejectProduct
  <2>2. From(k, c)
    BY <1>2, WriteFrom, PlainFields
  <2>3. QED
    BY <1>1, <2>1, <2>2, AsksEnd, EndsCommit
<1>5. CASE ApproveProduct(k)
  <2>1. PICK c \in Write(Loaded(k), [awaiting |-> FALSE]) :
           \/ AskNothing(k, Put(drafts, c.row), IdIn(drafts, c.mem))
           \/ AskMissing(k, Put(drafts, c.row), IdIn(drafts, c.mem))
           \/ CommitAndPlan(k, c, "approve", FALSE)
    BY <1>5 DEF ApproveProduct
  <2>2. From(k, c)
    BY <1>2, WriteFrom, PlainFields
  <2>3. CASE \/ AskNothing(k, Put(drafts, c.row), IdIn(drafts, c.mem))
             \/ AskMissing(k, Put(drafts, c.row), IdIn(drafts, c.mem))
    BY <1>1, <2>2, <2>3, AsksEnd, EndsCommit
  <2>4. CASE CommitAndPlan(k, c, "approve", FALSE)
    BY <1>1, <2>2, <2>4, PlanCommits DEF AllKinds
  <2>5. QED
    BY <2>1, <2>3, <2>4
<1>6. QED
  BY <1>3, <1>4, <1>5 DEF Questions

\* So is handling a photo.
LEMMA PhotosCommit ==
    ASSUME IInv, NEW k \in Workers, Photos(k)
    PROVE  Commits(k)
<1>1. h[k].pc = "act" /\ Kept
  BY DEF Photos, PhotoUnusable, PhotoIngested, Acts, LeaveAsIs
<1>2. From(k, Loaded(k))
  BY OriginFrom
<1>3. CASE PhotoUnusable(k)
  BY <1>1, <1>3, LeaveCommits DEF PhotoUnusable
<1>4. CASE PhotoIngested(k)
  <2>1. PICK c1 \in Write(Loaded(k), [photo |-> TRUE]) :
           \/ \E c2 \in Write(c1, [typed |-> TRUE, awaiting |-> TRUE]) :
                 \/ \E c3 \in {c2} \union Write(c2, NoFields) :
                       AskProduct(k, Put(drafts, c3.row), IdIn(drafts, c3.mem))
                 \/ FinishKeeping(k, Put(drafts, c2.row), IdIn(drafts, c2.mem))
           \/ FinishKeeping(k, Put(drafts, c1.row), IdIn(drafts, c1.mem))
    BY <1>4 DEF PhotoIngested
  <2>2. From(k, c1)
    BY <1>2, WriteFrom, PlainFields
  <2>0. c1.mem.id = h[k].mem.id
    BY <1>2, WriteKeepsId, PlainFields DEF Loaded
  <2>3. CASE FinishKeeping(k, Put(drafts, c1.row), IdIn(drafts, c1.mem))
    BY <1>1, <2>0, <2>2, <2>3, AsksEnd, EndsCommit
  <2>4. ASSUME NEW c2 \in Write(c1, [typed |-> TRUE, awaiting |-> TRUE]),
               \/ \E c3 \in {c2} \union Write(c2, NoFields) :
                     AskProduct(k, Put(drafts, c3.row), IdIn(drafts, c3.mem))
               \/ FinishKeeping(k, Put(drafts, c2.row), IdIn(drafts, c2.mem))
        PROVE  Commits(k)
    <3>1. From(k, c2)
      BY <2>2, WriteFrom, PlainFields
    <3>2. \A c3 \in {c2} \union Write(c2, NoFields) : From(k, c3)
      BY <3>1, WriteFrom, PlainFields
    <3>0. c2.mem.id = h[k].mem.id
      BY <2>0, <2>2, WriteKeepsId, PlainFields
    <3>3. QED
      BY <1>1, <2>4, <3>0, <3>1, <3>2, AsksEnd, EndsCommit
  <2>5. QED
    BY <2>1, <2>3, <2>4
<1>5. QED
  BY <1>3, <1>4 DEF Photos

\* What a description makes of a draft is derived from it.
LEMMA DescribedDerived ==
    ASSUME NEW b \in Copies, NEW c \in Copies, Derived(b, c), NEW new,
           NEW w \in Described(c, new)
    PROVE  w \in Copies /\ Derived(b, w)
<1>1. \/ w = c
      \/ w \in Write(c, NoFields)
      \/ w \in Write(c, [photo |-> TRUE])
      \/ w \in Write(c, [photo |-> TRUE, awaiting |-> TRUE])
  BY DEF Described
<1>2. QED
  BY <1>1, WriteDerived, PlainFields

\* So is handling a text.
LEMMA TextsCommit ==
    ASSUME IInv, NEW k \in Workers, Texts(k)
    PROVE  Commits(k)
<1>1. h[k].pc = "act" /\ Kept
  BY DEF Texts, Chat, TextAboutAd, AnswerPlanner, Acts, LeaveAsIs
<1>2. From(k, Loaded(k)) /\ From(k, FreshCopy)
  BY OriginFrom
<1>3. CASE Chat(k)
  <2>1. Loaded(k).mem = h[k].mem
    BY DEF Loaded
  <2>2. Ends(k, Loaded(k))
    BY <1>1, <1>3, <2>1, AsksEnd DEF Chat
  <2>3. QED
    BY <1>1, <1>2, <2>2, EndsCommit
<1>4. CASE TextAboutAd(k)
  <2>1. PICK newAd \in BOOLEAN, typed \in BOOLEAN :
           \E c1 \in Write(AdDraft(k, newAd), [typed |-> typed]) :
              \/ AskType(k, Put(drafts, c1.row), IdIn(drafts, c1.mem))
              \/ \E c2 \in Described(c1, newAd \/ h[k].row.pending = "CLASSIFICATION") :
                    LET rows == Put(drafts, c2.row)
                        cur == IdIn(drafts, c2.mem)
                    IN  \/ AskNothing(k, rows, cur)
                        \/ AskProduct(k, rows, cur) \/ AskProductAgain(k, rows, cur)
                        \/ AskMissing(k, rows, cur) \/ CommitAndPlan(k, c2, "text", TRUE)
    BY <1>4 DEF TextAboutAd
  <2>2. PICK c1 \in Write(AdDraft(k, newAd), [typed |-> typed]) :
           \/ AskType(k, Put(drafts, c1.row), IdIn(drafts, c1.mem))
           \/ \E c2 \in Described(c1, newAd \/ h[k].row.pending = "CLASSIFICATION") :
                 LET rows == Put(drafts, c2.row)
                     cur == IdIn(drafts, c2.mem)
                 IN  \/ AskNothing(k, rows, cur)
                     \/ AskProduct(k, rows, cur) \/ AskProductAgain(k, rows, cur)
                     \/ AskMissing(k, rows, cur) \/ CommitAndPlan(k, c2, "text", TRUE)
    BY <2>1
  <2>3. From(k, c1)
    <3>1. From(k, AdDraft(k, newAd))
      BY <1>2 DEF AdDraft, FreshCopy
    <3>2. QED
      BY <3>1, WriteFrom, PlainFields
  <2>4. \A new : \A c2 \in Described(c1, new) : From(k, c2)
    BY <2>3, OriginTyped, DescribedDerived DEF From
  <2>5. CASE AskType(k, Put(drafts, c1.row), IdIn(drafts, c1.mem))
    BY <1>1, <2>3, <2>5, AsksEnd, EndsCommit
  <2>6. ASSUME NEW c2 \in Described(c1, newAd \/ h[k].row.pending = "CLASSIFICATION"),
               LET rows == Put(drafts, c2.row)
                   cur == IdIn(drafts, c2.mem)
               IN  \/ AskNothing(k, rows, cur)
                   \/ AskProduct(k, rows, cur) \/ AskProductAgain(k, rows, cur)
                   \/ AskMissing(k, rows, cur) \/ CommitAndPlan(k, c2, "text", TRUE)
        PROVE  Commits(k)
    <3>1. From(k, c2)
      BY <2>4
    <3>2. CASE CommitAndPlan(k, c2, "text", TRUE)
      BY <1>1, <3>1, <3>2, PlanCommits DEF AllKinds
    <3>3. CASE ~CommitAndPlan(k, c2, "text", TRUE)
      <4>1. Ends(k, c2)
        BY <2>6, <3>3, AsksEnd
      <4>2. QED
        BY <1>1, <3>1, <4>1, EndsCommit
    <3>4. QED
      BY <3>2, <3>3
  <2>7. QED
    BY <2>2, <2>5, <2>6
<1>5. CASE AnswerPlanner(k)
  BY <1>1, <1>2, <1>5, PlanCommits DEF AnswerPlanner, AllKinds
<1>6. QED
  BY <1>3, <1>4, <1>5 DEF Texts

\* The copy before the submission comes from the call's own.
LEMMA PreparedFrom ==
    ASSUME IInv, NEW k \in Workers, NEW c \in Prepared(k)
    PROVE  From(k, c)
BY OriginFrom, WriteFrom, PlainFields DEF Prepared

\* Another question of the planner is quiet.
LEMMA PlannerAsksQuiet ==
    ASSUME IInv, NEW k \in Workers, PlannerAsks(k)
    PROVE  Quiet(k)
<1>1. h[k].mem.id \in Ids
  BY CallFields DEF IInv
<1>2. /\ h[k].pc = "plan" /\ Kept
      /\ Finish(k, drafts, h[k].mem.id, "MISSING_INFO", OtherContext)
  BY DEF PlannerAsks, AskMissing
<1>3. "MISSING_INFO" \in Pendings
  BY DEF Pendings
<1>4. QED
  BY <1>1, <1>2, <1>3, SameFollows, FinishQuiet DEF Ids

\* A call that resumes as a new ad without a question goes on with a draft
\* that it has not inserted yet.
Resumes(k) ==
    /\ h[k].pc = "plan" /\ Kept
    /\ UNCHANGED <<session, drafts>>
    /\ \E mem \in DraftRows(Ids) :
          mem.id = New /\ mem.image = NoImage /\ h' = [h EXCEPT ![k].mem = mem]

\* Resuming as a new ad ends with a question or goes on.
LEMMA ResumeAsNewAdCommits ==
    ASSUME IInv, NEW k \in Workers, ResumeAsNewAd(k)
    PROVE  Commits(k) \/ Resumes(k)
<1>1. h[k].pc = "plan" /\ Kept
  BY DEF ResumeAsNewAd
<1>0. PICK typed \in BOOLEAN : \E c1 \in Write(FreshCopy, [typed |-> typed]) :
         \/ AskType(k, Put(drafts, c1.row), IdIn(drafts, c1.mem))
         \/ \E c2 \in Described(c1, TRUE) :
               LET rows == Put(drafts, c2.row)
                   cur == IdIn(drafts, c2.mem)
               IN  \/ AskNothing(k, rows, cur)
                   \/ AskProduct(k, rows, cur)
                   \/ h' = [h EXCEPT ![k].mem = c2.mem] /\ UNCHANGED <<session, drafts>>
  BY DEF ResumeAsNewAd, FreshCopy
<1>2. PICK c1 \in Write(FreshCopy, [typed |-> typed]) :
         \/ AskType(k, Put(drafts, c1.row), IdIn(drafts, c1.mem))
         \/ \E c2 \in Described(c1, TRUE) :
               LET rows == Put(drafts, c2.row)
                   cur == IdIn(drafts, c2.mem)
               IN  \/ AskNothing(k, rows, cur)
                   \/ AskProduct(k, rows, cur)
                   \/ h' = [h EXCEPT ![k].mem = c2.mem] /\ UNCHANGED <<session, drafts>>
  BY <1>0
<1>3. FreshCopy \in Copies /\ Derived(FreshCopy, FreshCopy) /\ FreshCopy \in Origins(k)
  BY OriginTyped DEF Origins
<1>4. c1 \in Copies /\ Derived(FreshCopy, c1) /\ From(k, c1)
  BY <1>3, WriteDerived, PlainFields DEF From
<1>5. \A c2 \in Described(c1, TRUE) : c2 \in Copies /\ Derived(FreshCopy, c2) /\ From(k, c2)
  BY <1>3, <1>4, DescribedDerived DEF From
<1>6. CASE AskType(k, Put(drafts, c1.row), IdIn(drafts, c1.mem))
  BY <1>1, <1>4, <1>6, AsksEnd, EndsCommit
<1>7. ASSUME NEW c2 \in Described(c1, TRUE),
             \/ AskNothing(k, Put(drafts, c2.row), IdIn(drafts, c2.mem))
             \/ AskProduct(k, Put(drafts, c2.row), IdIn(drafts, c2.mem))
      PROVE  Commits(k)
  <2>1. Ends(k, c2)
    BY <1>7, AsksEnd
  <2>2. From(k, c2)
    BY <1>5
  <2>3. QED
    BY <1>1, <2>1, <2>2, EndsCommit
<1>8. ASSUME NEW c2 \in Described(c1, TRUE),
             h' = [h EXCEPT ![k].mem = c2.mem], UNCHANGED <<session, drafts>>
      PROVE  Resumes(k)
  <2>1. c2.mem \in DraftRows(Ids) /\ c2.mem.id = New /\ c2.mem.image = NoImage
    BY <1>5 DEF Copies, Derived, FreshCopy, FreshDraft
  <2>2. QED
    BY <1>1, <1>8, <2>1 DEF Resumes
<1>9. QED
  BY <1>2, <1>6, <1>7, <1>8

\* Both are quiet.
LEMMA ResumesQuiet ==
    ASSUME IInv, NEW k \in Workers, ResumeAsNewAd(k)
    PROVE  Quiet(k)
<1>1. CASE Commits(k)
  BY <1>1, CommitsQuiet
<1>2. CASE Resumes(k)
  <2>1. PICK mem \in DraftRows(Ids) :
           mem.id = New /\ mem.image = NoImage /\ h' = [h EXCEPT ![k].mem = mem]
    BY <1>2 DEF Resumes
  <2> DEFINE x == [h[k] EXCEPT !.mem = mem]
  <2>2. h[k] \in Calls /\ CopyInv(h[k]) /\ PublishInv(h[k]) /\ h \in [Workers -> Calls]
    BY DEF IInv, CallInv
  <2>3. h' = [h EXCEPT ![k] = x]
    BY <2>1, <2>2
  <2>4. x \in Calls /\ x.pc = "plan" /\ x.mem = mem /\ x.row = h[k].row
    BY <1>2, <2>1, <2>2 DEF Calls, Ids, Resumes
  <2> HIDE DEF x
  <2>5. CopyInv(x) /\ PublishInv(x)
    BY <2>1, <2>2, <2>4 DEF CopyInv, PublishInv, Shown
  <2>6. received' \in 0..MaxMsgs
    BY <1>2 DEF Resumes, Kept, IInv, TablesInv
  <2>7. QED
    BY <1>2, <2>3, <2>4, <2>5, <2>6, GoOnQuiet DEF Kept, Resumes
<1>3. QED
  BY <1>1, <1>2, ResumeAsNewAdCommits

\* A submission that fails commits.
LEMMA SubmitFailsCommits ==
    ASSUME IInv, NEW k \in Workers, SubmitFails(k)
    PROVE  Commits(k)
<1>1. h[k].pc = "plan" /\ Kept
  BY DEF SubmitFails
<1>2. PICK c \in Prepared(k) :
         \E e \in {c} \union Write(c, [status |-> "DRAFT", awaiting |-> FALSE]) :
            AskNothing(k, Put(drafts, e.row), IdIn(drafts, e.mem))
  BY DEF SubmitFails
<1>3. From(k, c)
  BY PreparedFrom
<1>4. \A e \in {c} \union Write(c, [status |-> "DRAFT", awaiting |-> FALSE]) : From(k, e)
  BY <1>3, WriteFrom, PlainFields
<1>5. QED
  BY <1>1, <1>2, <1>4, AsksEnd, EndsCommit

\* A poll that fails commits: it leaves the round undecided.
LEMMA PollFailsCommits ==
    ASSUME IInv, NEW k \in Workers, PollFails(k)
    PROVE  Commits(k)
<1>1. h[k].pc = "poll" /\ Kept
  BY DEF PollFails
<1>2. PICK c \in Write(Loaded(k), [status |-> "DRAFT", awaiting |-> FALSE]) :
         AskNothing(k, Put(drafts, c.row), c.mem.id)
  BY DEF PollFails
<1>3. From(k, c)
  BY OriginFrom, WriteFrom, PlainFields
<1>4. Legitimate([status |-> "DRAFT", awaiting |-> FALSE])
  BY PlainFields DEF Plain
<1>5. c.mem.id = h[k].mem.id /\ c.mem.id # New
  <2>1. h[k].mem.id # New
    BY <1>1 DEF IInv, CallInv, PollInv
  <2>2. Loaded(k) \in Copies /\ Loaded(k).mem = h[k].mem
    BY OriginTyped DEF Origins, Loaded
  <2>3. c.mem.id = Loaded(k).mem.id
    BY <1>4, <2>2, WriteTyped
  <2>4. QED
    BY <2>1, <2>2, <2>3
<1>6. IdIn(drafts, c.mem) = c.mem.id
  BY <1>5 DEF IdIn
<1>7. QED
  BY <1>1, <1>2, <1>3, <1>6, AsksEnd, EndsCommit

\* The operator selects from a round that the call loaded with the session;
\* only complete rounds are offered.
LEMMA SelectVariantQuiet ==
    ASSUME IInv, NEW k \in Workers, SelectVariant(k)
    PROVE  Quiet(k)
<1> DEFINE context == h[k].row.context
<1>1. /\ h[k].pc = "act" /\ Kept
      /\ context[1] = "round"
  BY DEF SelectVariant, Acts
<1>2. h[k] \in Calls /\ CopyInv(h[k])
  BY DEF IInv, CallInv
<1>3. context[2] \in Rounds /\ Complete(context[2])
  <2>1. context \in Contexts /\ Offered(context)
    BY <1>2, CallFields DEF CopyInv
  <2>2. QED
    BY <1>1, <2>1 DEF Contexts, NoContext, OtherContext, RoundContext, Offered
<1>4. PICK slot \in Slots : \E c \in Write(Loaded(k), [image |-> <<context[2], slot>>]) :
         IF c.ok THEN AskNothing(k, Put(drafts, c.row), c.mem.id)
                 ELSE FinishKeeping(k, Put(drafts, c.row), c.mem.id)
  BY DEF SelectVariant
<1> DEFINE image == <<context[2], slot>>
           fields == [image |-> image]
<1>5. image \in Images /\ Shown(image)
  BY <1>3 DEF Images, Shown
<1>6. Legitimate(fields)
  BY <1>5 DEF Legitimate
<1>7. PICK c \in Write(Loaded(k), fields) :
         IF c.ok THEN AskNothing(k, Put(drafts, c.row), c.mem.id)
                 ELSE FinishKeeping(k, Put(drafts, c.row), c.mem.id)
  BY <1>4
<1> DEFINE rows == Put(drafts, c.row)
           d == IdIn(drafts, c.mem)
           mem == h[k].mem
<1>8. /\ GoodRows(rows)
      /\ DOMAIN rows = DOMAIN drafts \union {d}
      /\ c.mem.id = mem.id
      /\ \A x \in DOMAIN drafts : x # d => rows[x] = drafts[x]
      /\ mem.id = New => d \notin DOMAIN drafts /\ rows[d] = [Updated(mem, fields) EXCEPT !.id = d]
      /\ mem.id # New => d = mem.id /\ d \in DOMAIN drafts
      /\ mem.id # New /\ c.ok => rows[d] = Updated(drafts[d], fields)
      /\ mem.id = New => c.ok
      /\ ~c.ok => rows[d] = drafts[d]
  BY <1>6, UpdateRows
<1>9. \A A : \A r \in DraftRows(A) :
         /\ Updated(r, fields) \in DraftRows(A)
         /\ Updated(r, fields).version = r.version + 1
         /\ Updated(r, fields).status = r.status
         /\ Updated(r, fields).image = image
  BY <1>6, UpdatedTyped
<1>10. mem \in DraftRows(Ids)
  BY <1>2, CallFields
<1> HIDE DEF rows, d, mem, image, fields
<1>11. Follows(rows)
  <2>1. CASE mem.id = New
    <3>1. rows[d].image = image
      BY <1>8, <1>9, <1>10, <2>1 DEF DraftRows
    <3>2. QED
      BY <1>5, <1>8, <2>1, <3>1 DEF Follows, Kin
  <2>2. CASE mem.id # New /\ c.ok
    <3>1. Kin(drafts[d], rows[d])
      BY <1>5, <1>8, <1>9, <2>2, DraftFields DEF Kin
    <3>2. QED
      BY <1>8, <2>2, <3>1 DEF Follows, Kin
  <2>3. CASE mem.id # New /\ ~c.ok
    BY <1>8, <2>3 DEF Follows, Kin
  <2>4. QED
    BY <1>8, <2>1, <2>2, <2>3
<1>12. c.mem.id \in {New} \union DOMAIN rows
  BY <1>8, <1>10 DEF Ids
<1>13. \/ FinishKeeping(k, rows, c.mem.id)
       \/ \E pending \in Pendings, any \in {NoContext, OtherContext} :
             Finish(k, rows, c.mem.id, pending, any)
  BY <1>7 DEF AskNothing, Pendings, rows
<1>14. QED
  BY <1>1, <1>11, <1>12, <1>13, FinishQuiet

\* A decision that leaves the drafts as they are and adds an empty one.
LEMMA ResolveQuiet ==
    ASSUME IInv, NEW k \in Workers, h[k].pc # "record", Kept, Resolve(k, drafts)
    PROVE  Quiet(k)
<1> DEFINE all == Append(drafts, [FreshDraft EXCEPT !.id = Len(drafts) + 1])
<1>1. GoodRows(drafts)
  BY DEF IInv, TablesInv
<1>2. /\ GoodRows(all)
      /\ Len(all) \in DOMAIN all
      /\ DOMAIN all = DOMAIN drafts \union {Len(drafts) + 1}
      /\ \A d \in DOMAIN drafts : all[d] = drafts[d]
      /\ all[Len(drafts) + 1].image = NoImage
  BY <1>1, FreshRows
<1>3. Finish(k, all, Len(all), "NONE", NoContext)
  BY DEF Resolve, AskNothing
<1> HIDE DEF all
<1>4. Follows(all)
  BY <1>2 DEF Follows, Kin, Shown
<1>5. "NONE" \in Pendings
  BY DEF Pendings
<1>6. QED
  BY <1>2, <1>3, <1>4, <1>5, FinishQuiet

\* Publishing is quiet but for the CMS's advertisement and its record.
LEMMA PublishingQuiet ==
    ASSUME IInv, NEW k \in Workers,
           \/ SelectVariant(k) \/ SelectNothing(k) \/ CannotPublish(k) \/ SkipPublish(k)
           \/ CallCms(k) \/ CmsRefuses(k) \/ CancelPublish(k)
    PROVE  Quiet(k)
<1>1. CASE SelectVariant(k)
  BY <1>1, SelectVariantQuiet
<1>2. CASE SelectNothing(k) \/ CannotPublish(k)
  BY <1>2, LeaveCommits, CommitsQuiet DEF SelectNothing, CannotPublish, Confirms, Acts
<1>3. CASE SkipPublish(k)
  BY <1>3, ResolveQuiet DEF SkipPublish, Confirms, Acts
<1>4. CASE CallCms(k)
  <2> DEFINE x == [h[k] EXCEPT !.pc = "cms"]
  <2>1. h[k] \in Calls /\ CopyInv(h[k]) /\ h \in [Workers -> Calls]
    BY DEF IInv, CallInv
  <2>2. /\ h[k].pc = "act" /\ h[k].mem.image # NoImage /\ h' = [h EXCEPT ![k] = x]
        /\ UNCHANGED <<session, drafts>> /\ Kept
    BY <1>4, <2>1 DEF CallCms, Confirms, Acts
  <2>3. /\ x \in Calls /\ x.pc = "cms" /\ x.mem = h[k].mem /\ x.row = h[k].row
    BY <2>1 DEF Calls, PCs
  <2> HIDE DEF x
  <2>4. CopyInv(x) /\ PublishInv(x)
    BY <2>1, <2>2, <2>3 DEF CopyInv, PublishInv
  <2>5. received' \in 0..MaxMsgs
    BY <2>2 DEF Kept, IInv, TablesInv
  <2>6. QED
    BY <2>2, <2>3, <2>4, <2>5, GoOnQuiet DEF Kept
<1>5. CASE CmsRefuses(k)
  BY <1>5, LeaveCommits, CommitsQuiet DEF CmsRefuses
<1>6. CASE CancelPublish(k)
  <2>1. h[k].pc = "act"
    BY <1>6 DEF CancelPublish, Acts
  <2>2. CASE h[k].mem.image # NoImage \/ h[k].mem.status \in {"PREVIEW_READY", "PUBLISHED"}
    BY <1>6, <2>1, <2>2, ResolveQuiet DEF CancelPublish
  <2>3. CASE ~(h[k].mem.image # NoImage \/ h[k].mem.status \in {"PREVIEW_READY", "PUBLISHED"})
    BY <1>6, <2>1, <2>3, LeaveCommits, CommitsQuiet DEF CancelPublish
  <2>4. QED
    BY <2>2, <2>3
<1>7. QED
  BY <1>1, <1>2, <1>3, <1>4, <1>5, <1>6

\* A call that dies is quiet.
LEMMA AbortQuiet ==
    ASSUME IInv, NEW k \in Workers, Abort(k)
    PROVE  Quiet(k)
<1>1. /\ rounds' = rounds /\ h' = [h EXCEPT ![k] = IdleCall]
      /\ UNCHANGED <<session, drafts, rounds, published, ads, received>>
      /\ aborts < MaxAborts /\ aborts' = aborts + 1
  BY DEF Abort
<1>2. /\ IdleCall \in Calls' /\ IdleCall.pc \notin {"poll", "record"}
      /\ CopyInv(IdleCall)' /\ PublishInv(IdleCall)'
  BY <1>1, IdleIsFine
<1>3. /\ session \in SessionRows /\ Offered(session.context)
      /\ received \in 0..MaxMsgs /\ aborts \in 0..MaxAborts
  BY DEF IInv, TablesInv
<1>4. SessionRows' = SessionRows
  BY <1>1 DEF SessionRows, Contexts, Rounds
<1>5. Follows(drafts')
  BY <1>1, SameFollows
<1>6. aborts' \in 0..MaxAborts /\ aborts' >= aborts
  BY <1>1, <1>3
<1>7. QED
  BY <1>1, <1>2, <1>3, <1>4, <1>5, <1>6 DEF Quiet

-----------------------------------------------------------------------------
\* The other actions

\* The invariant after a step, from its parts: the tables, the call itself,
\* and what the step leaves to the others.
LEMMA Assemble ==
    ASSUME IInv, NEW k \in Workers, World(k), TablesInv', Ledger!Legal',
           NEW x, h' = [h EXCEPT ![k] = x], CallInv(x)',
           \A j \in Workers \ {k} :
              /\ x.pc = "poll" /\ h[j].pc = "poll" => x.round # h[j].round
              /\ x.pc = "record" /\ h[j].pc = "record" => x.ad # h[j].ad
    PROVE  IInv'
<1>1. h \in [Workers -> Calls] /\ Distinct
  BY DEF IInv
<1>2. h'[k] = x /\ \A j \in Workers \ {k} : CallInv(h[j])' /\ h'[j] = h[j]
  BY <1>1, OthersKeep
<1>3. \A j \in Workers : CallInv(h[j])'
  BY <1>2 DEF CallInv, PollInv, CopyInv, PublishInv
<1>4. (h \in [Workers -> Calls])'
  BY <1>1, <1>3 DEF CallInv
<1>5. Distinct'
  BY <1>1, <1>2 DEF Distinct
<1>6. QED
  BY <1>3, <1>4, <1>5 DEF IInv

\* A call is idle after its last commit.
LEMMA IdleAfter == CallInv(IdleCall)'
<1>1. FreshDraft \in DraftRows({New} \union DOMAIN drafts)'
  BY DEF FreshDraft, DraftRows, Statuses, Images
<1>2. NoSession \in SessionRows'
  BY DEF NoSession, SessionRows, Pendings, Contexts
<1>3. IdleCall \in Calls'
  BY <1>1, <1>2 DEF IdleCall, Calls, PCs, AllKinds
<1>4. QED
  BY <1>3 DEF IdleCall, CallInv, CopyInv, PollInv, PublishInv, NoSession, FreshDraft,
              Shown, Offered, NoContext

\* The CMS has a new advertisement with the image of the copy of call k.
LEMMA AdAppended ==
    ASSUME IInv, NEW k \in Workers, h[k].pc = "cms",
           ads' = Append(ads, [draft |-> h[k].mem.id, image |-> h[k].mem.image]),
           UNCHANGED <<rounds, published>>,
           GoodRows(drafts)', DOMAIN drafts \subseteq DOMAIN drafts'
    PROVE  /\ ads' \in Seq(AdRows)'
           /\ Len(ads) \in Nat /\ DOMAIN ads = 1..Len(ads) /\ DOMAIN ads' = 1..(Len(ads) + 1)
           /\ Len(ads') = Len(ads) + 1
           /\ \A a \in DOMAIN ads : ads'[a] = ads[a]
           /\ ads'[Len(ads) + 1] = [draft |-> h[k].mem.id, image |-> h[k].mem.image]
           /\ (\A a \in DOMAIN ads : ads[a].image # NoImage /\ Shown(ads[a].image))'
           /\ (published \subseteq [ad : DOMAIN ads, draft : DOMAIN drafts])'
<1> DEFINE new == [draft |-> h[k].mem.id, image |-> h[k].mem.image]
<1>1. ads \in Seq(AdRows) /\ published \subseteq [ad : DOMAIN ads, draft : DOMAIN drafts]
      /\ \A a \in DOMAIN ads : ads[a].image # NoImage /\ Shown(ads[a].image)
  BY DEF IInv, TablesInv
<1>2. h[k] \in Calls /\ CopyInv(h[k]) /\ PublishInv(h[k])
  BY DEF IInv, CallInv
<1>3. /\ h[k].mem.id \in DOMAIN drafts
      /\ h[k].mem.image \in Images /\ h[k].mem.image # NoImage /\ Shown(h[k].mem.image)
  BY <1>2, CallFields DEF CopyInv, PublishInv, Ids
<1>4. new \in AdRows /\ new.image = h[k].mem.image
  BY <1>3 DEF AdRows
<1>5. AdRows \subseteq AdRows'
  BY DEF AdRows, Images, Rounds
<1> HIDE DEF new
<1>6. ads' = Append(ads, new)
  BY DEF new
<1>7. /\ ads' \in Seq(AdRows)
      /\ Len(ads) \in Nat /\ DOMAIN ads = 1..Len(ads) /\ DOMAIN ads' = 1..(Len(ads) + 1)
      /\ Len(ads') = Len(ads) + 1
      /\ \A a \in DOMAIN ads : ads'[a] = ads[a]
      /\ ads'[Len(ads) + 1] = new
  BY <1>1, <1>4, <1>6
<1>8. \A a \in DOMAIN ads' : ads'[a].image # NoImage /\ Shown(ads'[a].image)
  BY <1>1, <1>3, <1>4, <1>7
<1>9. (\A a \in DOMAIN ads : ads[a].image # NoImage /\ Shown(ads[a].image))'
  BY <1>8 DEF Shown, Complete
<1>10. (published \subseteq [ad : DOMAIN ads, draft : DOMAIN drafts])'
  BY <1>1, <1>7
<1>11. ads' \in Seq(AdRows)'
  BY <1>5, <1>7
<1>12. QED
  BY <1>7, <1>9, <1>10, <1>11 DEF new

\* A new advertisement is the call's own until it is recorded.
LEMMA CmsAcceptsKeeps ==
    ASSUME IInv, NEW k \in Workers, CmsAccepts(k)
    PROVE  IInv' /\ World(k)
<1> DEFINE n == Len(ads) + 1
           x == [h[k] EXCEPT !.pc = "record", !.ad = n]
<1>1. h[k] \in Calls /\ CallInv(h[k]) /\ h \in [Workers -> Calls] /\ TablesInv /\ Ledger!Legal
  BY DEF IInv, CallInv
<1>2. /\ h[k].pc = "cms"
      /\ ads' = Append(ads, [draft |-> h[k].mem.id, image |-> h[k].mem.image])
      /\ UNCHANGED <<session, drafts, rounds, published, received, aborts>>
      /\ h' = [h EXCEPT ![k] = x]
  BY <1>1 DEF CmsAccepts
<1>3. GoodRows(drafts)'
  BY <1>1, <1>2 DEF TablesInv, GoodRows, DraftRows, Images, Rounds
<1>4. /\ ads' \in Seq(AdRows)'
      /\ Len(ads) \in Nat /\ DOMAIN ads = 1..Len(ads) /\ DOMAIN ads' = 1..(Len(ads) + 1)
      /\ \A a \in DOMAIN ads : ads'[a] = ads[a]
      /\ ads'[Len(ads) + 1] = [draft |-> h[k].mem.id, image |-> h[k].mem.image]
      /\ (\A a \in DOMAIN ads : ads[a].image # NoImage /\ Shown(ads[a].image))'
      /\ (published \subseteq [ad : DOMAIN ads, draft : DOMAIN drafts])'
  BY <1>2, <1>3, AdAppended
<1>5. World(k)
  BY <1>1, <1>2, <1>3, <1>4 DEF World, Complete, Undecided, Current
<1>6. (\A d \in DOMAIN drafts : Shown(drafts[d].image))' /\ Offered(session.context)'
  BY <1>1, <1>2 DEF TablesInv, Shown, Offered, Complete
<1>7. TablesInv'
  <2>1. session' \in SessionRows' /\ rounds' \in Seq(RoundRows)'
    BY <1>1, <1>2 DEF TablesInv, SessionRows, Contexts, Rounds, RoundRows
  <2>2. IsFiniteSet(published)' /\ received' \in 0..MaxMsgs /\ aborts' \in 0..MaxAborts
    BY <1>1, <1>2 DEF TablesInv
  <2>3. QED
    BY <1>3, <1>4, <1>6, <2>1, <2>2 DEF TablesInv
<1>8. Ledger!Legal'
  BY <1>1, <1>2 DEF Ledger!Legal, Ledger!Of
<1> HIDE DEF x
<1>9. PICK y : y = x
  OBVIOUS
<1>10. /\ y \in Calls' /\ y.pc = "record" /\ y.ad = n /\ y.mem = h[k].mem /\ y.row = h[k].row
  <2>1. /\ y.pc = "record" /\ y.ad = n /\ y.mem = h[k].mem /\ y.row = h[k].row
        /\ y \in [pc : PCs, kind : AllKinds, row : SessionRows,
                  mem : DraftRows({New} \union DOMAIN drafts),
                  round : {NoRound} \union Rounds, ad : {n}]
    BY <1>1, <1>9 DEF Calls, PCs, x
  <2>2. Calls' = [pc : PCs, kind : AllKinds, row : SessionRows,
                  mem : DraftRows({New} \union DOMAIN drafts),
                  round : {NoRound} \union Rounds, ad : {0} \union DOMAIN ads']
    BY <1>2 DEF Calls, SessionRows, DraftRows, Contexts, Images, Rounds
  <2>3. QED
    BY <1>4, <2>1, <2>2
<1>11. CallInv(y)'
  <2>1. CopyInv(h[k]) /\ PublishInv(h[k])
    BY <1>1 DEF CallInv
  <2>2. CopyInv(y)'
    BY <1>2, <1>10, <2>1 DEF CopyInv, Shown, Offered, Complete
  <2>3. \A p \in published' : p.ad # n
    BY <1>1, <1>2, <1>4 DEF TablesInv
  <2>4. PublishInv(y)'
    BY <1>2, <1>4, <1>10, <2>1, <2>3 DEF PublishInv
  <2>5. QED
    BY <1>10, <2>2, <2>4 DEF CallInv, PollInv
<1>12. \A j \in Workers : h[j].ad # n
  <2>1. \A j \in Workers : h[j].ad \in {0} \union DOMAIN ads
    BY <1>1, CallFields
  <2>2. QED
    BY <1>4, <2>1
<1>13. h' = [h EXCEPT ![k] = y]
  BY <1>2, <1>9 DEF x
<1>14. QED
  BY <1>5, <1>7, <1>8, <1>10, <1>11, <1>12, <1>13, Assemble

\* The answer of the CMS is lost: the call ends, the advertisement is there.
LEMMA CmsAnswerUnusableKeeps ==
    ASSUME IInv, NEW k \in Workers, CmsAnswerUnusable(k)
    PROVE  IInv' /\ World(k)
<1> DEFINE rows == Put(drafts, Loaded(k).row)
           cur == IdIn(drafts, h[k].mem)
<1>1. h \in [Workers -> Calls] /\ TablesInv /\ Ledger!Legal
  BY DEF IInv
<1>2. /\ h[k].pc = "cms"
      /\ ads' = Append(ads, [draft |-> h[k].mem.id, image |-> h[k].mem.image])
      /\ FinishKeeping(k, rows, cur)
      /\ aborts < MaxAborts /\ aborts' = aborts + 1
      /\ UNCHANGED <<rounds, published, received>>
  BY DEF CmsAnswerUnusable
<1>3. Loaded(k).mem = h[k].mem
  BY DEF Loaded
<1>4. Follows(rows) /\ cur \in DOMAIN rows
  BY <1>3, OriginFrom, CommitFollows DEF From
<1> HIDE DEF rows, cur
<1>5. drafts' = rows /\ h' = [h EXCEPT ![k] = IdleCall]
  BY <1>2 DEF FinishKeeping
<1>6. GoodRows(drafts)' /\ DOMAIN drafts \subseteq DOMAIN drafts'
  BY <1>2, <1>4, <1>5 DEF Follows, GoodRows, DraftRows, Images, Rounds
<1>7. /\ ads' \in Seq(AdRows)'
      /\ Len(ads) \in Nat /\ DOMAIN ads = 1..Len(ads) /\ DOMAIN ads' = 1..(Len(ads) + 1)
      /\ \A a \in DOMAIN ads : ads'[a] = ads[a]
      /\ (\A a \in DOMAIN ads : ads[a].image # NoImage /\ Shown(ads[a].image))'
      /\ (published \subseteq [ad : DOMAIN ads, draft : DOMAIN drafts])'
  BY <1>2, <1>6, AdAppended
<1>8. World(k)
  <2>1. \A d \in DOMAIN drafts : drafts'[d] = drafts[d] \/ drafts'[d].version > drafts[d].version
    BY <1>4, <1>5 DEF Follows, Kin
  <2>2. QED
    BY <1>1, <1>2, <1>5, <1>6, <1>7, <2>1 DEF World, Complete, Undecided, Current
<1>9. (\A d \in DOMAIN drafts : Shown(drafts[d].image))'
  <2>1. \A d \in DOMAIN drafts' : Shown(drafts'[d].image)
    BY <1>1, <1>4, <1>5 DEF TablesInv, Follows, Kin
  <2>2. QED
    BY <1>2, <2>1 DEF Shown, Complete
<1>10. session' \in SessionRows' /\ Offered(session.context)'
  <2>1. session' \in SessionsOver(rows) /\ session'.context \in {session.context, NoContext}
    BY <1>2, <1>4, SessionKept DEF Follows
  <2>2. SessionRows' = SessionsOver(rows)
    BY <1>2, <1>5 DEF SessionRows, SessionsOver, Contexts, Rounds
  <2>3. QED
    BY <1>1, <1>2, <2>1, <2>2 DEF TablesInv, Offered, Complete, NoContext
<1>11. rounds' \in Seq(RoundRows)'
  <2>1. RoundRows \subseteq RoundRows'
    BY <1>6 DEF RoundRows
  <2>2. QED
    BY <1>1, <1>2, <2>1 DEF TablesInv
<1>12. IsFiniteSet(published)' /\ received' \in 0..MaxMsgs /\ aborts' \in 0..MaxAborts
  BY <1>1, <1>2 DEF TablesInv
<1>13. TablesInv'
  BY <1>6, <1>7, <1>9, <1>10, <1>11, <1>12 DEF TablesInv
<1>14. Ledger!Legal'
  BY <1>1, <1>2 DEF Ledger!Legal, Ledger!Of
<1>15. IdleCall.pc = "idle"
  BY DEF IdleCall
<1>16. QED
  BY <1>5, <1>8, <1>13, <1>14, <1>15, IdleAfter, Assemble

\* One update of the inserted draft of a call.
LEMMA OwnUpdate ==
    ASSUME IInv, NEW k \in Workers, h[k].mem.id # New,
           NEW fields, Legitimate(fields), NEW c \in Write(Loaded(k), fields)
    PROVE  LET rows == Put(drafts, c.row)
               d == h[k].mem.id
           IN  /\ GoodRows(rows)
               /\ DOMAIN rows = DOMAIN drafts
               /\ c.mem.id = d /\ d \in DOMAIN drafts
               /\ \A x \in DOMAIN drafts :
                     rows[x] = drafts[x] \/ (x = d /\ rows[x].version > drafts[x].version)
               /\ c.ok => /\ h[k].mem.version = drafts[d].version
                          /\ rows[d] = Updated(drafts[d], fields)
                          /\ rows[d].version > drafts[d].version
                          /\ rows[d].image = IF "image" \in DOMAIN fields THEN fields["image"]
                                             ELSE drafts[d].image
                          /\ rows[d].status = IF "status" \in DOMAIN fields THEN fields["status"]
                                              ELSE drafts[d].status
               /\ ~c.ok => rows = drafts
<1> DEFINE rows == Put(drafts, c.row)
           cur == IdIn(drafts, c.mem)
           d == h[k].mem.id
<1>0. /\ GoodRows(rows)
      /\ DOMAIN rows = DOMAIN drafts \union {cur}
      /\ c.mem.id = d
      /\ \A x \in DOMAIN drafts : x # cur => rows[x] = drafts[x]
      /\ d = New => /\ cur \notin DOMAIN drafts
                   /\ rows[cur] = [Updated(h[k].mem, fields) EXCEPT !.id = cur]
      /\ d # New => cur = d /\ cur \in DOMAIN drafts
      /\ d # New /\ c.ok => /\ h[k].mem.version = drafts[cur].version
                            /\ rows[cur] = Updated(drafts[cur], fields)
      /\ ~c.ok => rows[cur] = drafts[cur]
  BY UpdateRows
<1> HIDE DEF rows, d, cur
<1>1. /\ GoodRows(rows)
      /\ DOMAIN rows = DOMAIN drafts
      /\ c.mem.id = d /\ d \in DOMAIN drafts
      /\ \A x \in DOMAIN drafts : x # d => rows[x] = drafts[x]
      /\ c.ok => /\ h[k].mem.version = drafts[d].version
                 /\ rows[d] = Updated(drafts[d], fields)
      /\ ~c.ok => rows[d] = drafts[d]
  <2>1. d # New
    BY DEF d
  <2>2. QED
    BY <1>0, <2>1
<1>2. drafts[d] \in DraftRows(Ids) /\ drafts[d].version \in Nat
  BY <1>1, DraftFields
<1>3. /\ Updated(drafts[d], fields).version = drafts[d].version + 1
      /\ Updated(drafts[d], fields).image = IF "image" \in DOMAIN fields THEN fields["image"]
                                            ELSE drafts[d].image
      /\ Updated(drafts[d], fields).status = IF "status" \in DOMAIN fields THEN fields["status"]
                                             ELSE drafts[d].status
  BY <1>2, UpdatedTyped
<1>4. GoodRows(drafts)
  BY DEF IInv, TablesInv
<1>5. ~c.ok => rows = drafts
  <2>1. /\ rows \in Seq(DraftRows(DOMAIN drafts)) /\ drafts \in Seq(DraftRows(DOMAIN drafts))
    BY <1>1, <1>4 DEF GoodRows
  <2>2. ~c.ok => \A x \in DOMAIN drafts : rows[x] = drafts[x]
    BY <1>1
  <2>3. Len(rows) = Len(drafts) /\ DOMAIN drafts = 1..Len(drafts)
    BY <1>1, <2>1, LenProperties
  <2>4. SUFFICES ASSUME ~c.ok PROVE rows = drafts
    OBVIOUS
  <2>5. \A x \in 1..Len(rows) : rows[x] = drafts[x]
    BY <2>2, <2>3, <2>4
  <2>6. QED
    BY <2>1, <2>3, <2>5, SeqEqual
<1>6. QED
  BY <1>1, <1>2, <1>3, <1>5 DEF rows, d

\* The ledger's invariant, for any table of rounds.
Earlier(table, r) == {s \in DOMAIN table : table[s].draft = table[r].draft /\ s < r}
LegalTable(table) ==
    \A r \in DOMAIN table :
        /\ table[r].attempt = Cardinality(Earlier(table, r)) + 1
        /\ \A s \in Earlier(table, r) : table[s].status # "ACTIVE"

\* The ledger's own notion of a legal table is LegalTable.
LEMMA LegalIs ==
    /\ Ledger!Legal <=> LegalTable(rounds)
    /\ Ledger!Legal' <=> LegalTable(rounds')
<1>0. \A S : Ledger!Cardinality(S) = Cardinality(S)
  BY DEF Ledger!Cardinality, Cardinality
<1>1. ASSUME NEW r \in DOMAIN rounds
      PROVE  {s \in Ledger!Of(rounds[r].draft) : s < r} = Earlier(rounds, r)
  BY DEF Ledger!Of, Earlier
<1>2. Ledger!Legal <=> LegalTable(rounds)
  BY <1>0, <1>1 DEF Ledger!Legal, LegalTable
<1>3. ASSUME NEW r \in DOMAIN rounds'
      PROVE  ({s \in Ledger!Of(rounds[r].draft) : s < r} = Earlier(rounds, r))'
  BY DEF Ledger!Of, Earlier
<1>4. Ledger!Legal' <=> LegalTable(rounds)'
  BY <1>0, <1>3 DEF Ledger!Legal, LegalTable
<1>5. QED
  BY <1>2, <1>4

\* A call decides the round it polls: nothing is complete that was not,
\* except that round, and the attempts of the draft stay legal.
LEMMA RoundDecided ==
    ASSUME IInv, NEW k \in Workers, h[k].pc = "poll",
           \/ rounds' = [rounds EXCEPT ![h[k].round].complete = TRUE]
           \/ rounds' = [rounds EXCEPT ![h[k].round].status = "FAILED"]
    PROVE  /\ h[k].mem.id # New /\ h[k].mem.id \in DOMAIN drafts
           /\ h[k].round \in DOMAIN rounds /\ DOMAIN rounds' = DOMAIN rounds
           /\ DOMAIN drafts' = DOMAIN drafts => rounds' \in Seq(RoundRows)'
           /\ \A s \in DOMAIN rounds :
                 /\ rounds'[s].draft = rounds[s].draft
                 /\ rounds'[s].attempt = rounds[s].attempt
                 /\ Complete(s) => Complete(s)'
                 /\ s # h[k].round => rounds'[s] = rounds[s]
                 /\ Current(s) /\ s # h[k].round => Current(s)'
           /\ rounds' = [rounds EXCEPT ![h[k].round].complete = TRUE] =>
                 \A s \in {h[k].round} : Complete(s)'
           /\ Ledger!Legal'
<1> DEFINE r == h[k].round
<1>1. /\ rounds \in Seq(RoundRows) /\ Ledger!Legal /\ h[k] \in Calls /\ PollInv(h[k])
  BY DEF IInv, TablesInv, CallInv
<1>2. /\ h[k].mem.id # New /\ h[k].mem.id \in Ids /\ r \in DOMAIN rounds /\ Undecided(r)
  BY <1>1, CallFields DEF PollInv
<1> HIDE DEF r
<1>3. \/ rounds' = [rounds EXCEPT ![r].complete = TRUE]
      \/ rounds' = [rounds EXCEPT ![r].status = "FAILED"]
  BY DEF r
<1>4. /\ DOMAIN rounds' = DOMAIN rounds
      /\ \A s \in DOMAIN rounds : s # r => rounds'[s] = rounds[s]
  BY <1>1, <1>3
<1>5. rounds[r] \in RoundRows
  BY <1>1, <1>2
<1>6. \/ rounds'[r] = [rounds[r] EXCEPT !.complete = TRUE]
      \/ rounds'[r] = [rounds[r] EXCEPT !.status = "FAILED"]
  BY <1>1, <1>2, <1>3
<1>7. /\ rounds'[r] \in RoundRows
      /\ rounds'[r].draft = rounds[r].draft /\ rounds'[r].attempt = rounds[r].attempt
      /\ rounds'[r].status = rounds[r].status \/ rounds'[r].status = "FAILED"
  BY <1>5, <1>6 DEF RoundRows
<1>8. rounds' \in Seq(RoundRows)
  BY <1>1, <1>3, <1>5, <1>6, <1>7
<1>9. DOMAIN drafts' = DOMAIN drafts => rounds' \in Seq(RoundRows)'
  BY <1>8 DEF RoundRows
<1>10. \A s \in DOMAIN rounds :
          /\ rounds'[s].draft = rounds[s].draft
          /\ rounds'[s].attempt = rounds[s].attempt
          /\ rounds'[s].status = rounds[s].status \/ rounds'[s].status = "FAILED"
  BY <1>4, <1>7
<1>11. \A s \in DOMAIN rounds : Complete(s) => Complete(s)'
  BY <1>2, <1>4 DEF Complete, Undecided
<1>12. \A s \in DOMAIN rounds : Current(s) /\ s # r => Current(s)'
  BY <1>4, <1>10 DEF Current
<1>13. rounds' = [rounds EXCEPT ![r].complete = TRUE] => \A s \in {r} : Complete(s)'
  BY <1>1, <1>2, <1>5 DEF Complete, Undecided, RoundRows
<1>14. Ledger!Legal'
  <2>1. \A s \in DOMAIN rounds : Earlier(rounds', s) = Earlier(rounds, s)
    BY <1>4, <1>10 DEF Earlier
  <2>2. LegalTable(rounds)
    BY <1>1, LegalIs
  <2>3. LegalTable(rounds')
    BY <1>4, <1>10, <2>1, <2>2 DEF LegalTable, Earlier
  <2>4. QED
    BY <2>3, LegalIs
<1>15. QED
  BY <1>2, <1>4, <1>9, <1>10, <1>11, <1>12, <1>13, <1>14 DEF Ids, r

\* A generation comes back: the call updates its draft, or finds it changed,
\* and commits.
LEMMA PairKeeps ==
    ASSUME IInv, NEW k \in Workers, PairCompleted(k) \/ PairFailed(k)
    PROVE  IInv' /\ World(k)
<1> DEFINE r == h[k].round
           d == h[k].mem.id
           completed == [status |-> "PREVIEW_READY", awaiting |-> FALSE, image |-> <<r, 1>>]
           failed == [status |-> "DRAFT", awaiting |-> FALSE]
<1>1. /\ h[k].pc = "poll" /\ UNCHANGED <<published, ads, received, aborts>>
      /\ \/ rounds' = [rounds EXCEPT ![r].complete = TRUE]
         \/ rounds' = [rounds EXCEPT ![r].status = "FAILED"]
  BY DEF PairCompleted, PairFailed
<1>2. h \in [Workers -> Calls] /\ TablesInv /\ h[k] \in Calls /\ CopyInv(h[k])
  BY DEF IInv, CallInv
<1>3. /\ d # New /\ d \in DOMAIN drafts
      /\ r \in DOMAIN rounds /\ DOMAIN rounds' = DOMAIN rounds
      /\ DOMAIN drafts' = DOMAIN drafts => rounds' \in Seq(RoundRows)'
      /\ \A s \in DOMAIN rounds :
            /\ rounds'[s].draft = rounds[s].draft
            /\ Complete(s) => Complete(s)'
            /\ s # r => rounds'[s] = rounds[s]
            /\ Current(s) /\ s # r => Current(s)'
      /\ rounds' = [rounds EXCEPT ![r].complete = TRUE] => \A s \in {r} : Complete(s)'
      /\ Ledger!Legal'
  BY <1>1, RoundDecided
<1> HIDE DEF r, d
<1>4. <<r, 1>> \in Images
  BY <1>3 DEF Images, Rounds, Slots
<1>5. Legitimate(completed) /\ Legitimate(failed)
  BY <1>4 DEF Legitimate, Statuses
<1>6. PICK rows, pending, context :
         /\ pending \in Pendings /\ context \in Contexts
         /\ Finish(k, rows, d, pending, context)
         /\ GoodRows(rows) /\ DOMAIN rows = DOMAIN drafts
         /\ \A x \in DOMAIN drafts :
               rows[x] = drafts[x] \/ (x = d /\ rows[x].version > drafts[x].version)
         /\ \/ rows[d].image = drafts[d].image
            \/ rows[d].image = <<r, 1>> /\ rounds' = [rounds EXCEPT ![r].complete = TRUE]
         /\ \/ context = NoContext
            \/ context = RoundContext(r) /\ rounds' = [rounds EXCEPT ![r].complete = TRUE]
  <2>1. NoContext \in Contexts /\ RoundContext(r) \in Contexts
        /\ "NONE" \in Pendings /\ "VARIANT_SELECTION" \in Pendings
    BY <1>3 DEF Contexts, Rounds, Pendings
  <2>2. CASE PairCompleted(k)
    <3>1. PICK c \in Write(Loaded(k), completed) :
             IF c.ok
             THEN Finish(k, Put(drafts, c.row), c.mem.id, "VARIANT_SELECTION", RoundContext(r))
             ELSE AskNothing(k, Put(drafts, c.row), c.mem.id)
      BY <2>2 DEF PairCompleted, r
    <3> DEFINE rows == Put(drafts, c.row)
    <3>2. /\ GoodRows(rows) /\ DOMAIN rows = DOMAIN drafts /\ c.mem.id = d
          /\ \A x \in DOMAIN drafts :
                rows[x] = drafts[x] \/ (x = d /\ rows[x].version > drafts[x].version)
          /\ c.ok => rows[d].image = <<r, 1>>
          /\ ~c.ok => rows = drafts
      <4>1. h[k].mem.id # New
        BY <1>3 DEF d
      <4>2. /\ GoodRows(rows) /\ DOMAIN rows = DOMAIN drafts /\ c.mem.id = d
            /\ \A x \in DOMAIN drafts :
                  rows[x] = drafts[x] \/ (x = d /\ rows[x].version > drafts[x].version)
            /\ c.ok => rows[d].image = IF "image" \in DOMAIN completed THEN completed["image"]
                                       ELSE drafts[d].image
            /\ ~c.ok => rows = drafts
        BY <4>1, <1>5, OwnUpdate DEF d
      <4>3. QED
        BY <4>2
    <3>3. rounds' = [rounds EXCEPT ![r].complete = TRUE]
      BY <2>2 DEF PairCompleted, r
    <3> HIDE DEF rows
    <3>4. CASE c.ok
      <4>1. Finish(k, rows, d, "VARIANT_SELECTION", RoundContext(r))
        BY <3>1, <3>2, <3>4 DEF rows
      <4>2. QED
        BY <2>1, <3>2, <3>3, <3>4, <4>1
    <3>5. CASE ~c.ok
      <4>1. Finish(k, rows, d, "NONE", NoContext)
        BY <3>1, <3>2, <3>5 DEF rows, AskNothing
      <4>2. QED
        BY <2>1, <3>2, <3>5, <4>1
    <3>6. QED
      BY <3>4, <3>5
  <2>3. CASE PairFailed(k)
    <3>1. PICK c \in Write(Loaded(k), failed) : AskNothing(k, Put(drafts, c.row), c.mem.id)
      BY <2>3 DEF PairFailed
    <3> DEFINE rows == Put(drafts, c.row)
    <3>2. /\ GoodRows(rows) /\ DOMAIN rows = DOMAIN drafts /\ c.mem.id = d
          /\ \A x \in DOMAIN drafts :
                rows[x] = drafts[x] \/ (x = d /\ rows[x].version > drafts[x].version)
          /\ rows[d].image = drafts[d].image
      <4>1. h[k].mem.id # New
        BY <1>3 DEF d
      <4>2. /\ GoodRows(rows) /\ DOMAIN rows = DOMAIN drafts /\ c.mem.id = d
            /\ \A x \in DOMAIN drafts :
                  rows[x] = drafts[x] \/ (x = d /\ rows[x].version > drafts[x].version)
            /\ c.ok => rows[d].image = IF "image" \in DOMAIN failed THEN failed["image"]
                                       ELSE drafts[d].image
            /\ ~c.ok => rows = drafts
        BY <4>1, <1>5, OwnUpdate DEF d
      <4>3. QED
        BY <4>2
    <3>3. Finish(k, rows, d, "NONE", NoContext)
      BY <3>1, <3>2 DEF AskNothing
    <3> HIDE DEF rows
    <3>4. QED
      BY <2>1, <3>2, <3>3
  <2>4. QED
    BY <2>2, <2>3
<1>7. /\ drafts' = rows /\ h' = [h EXCEPT ![k] = IdleCall]
      /\ session' \in Saved(h[k].row, d, pending, context)
  BY <1>6 DEF Finish
<1>8. GoodRows(drafts)'
  BY <1>3, <1>6, <1>7 DEF GoodRows, DraftRows, Images, Rounds
<1>9. \A image \in Images : Shown(image) => Shown(image)'
  BY <1>3 DEF Shown, Images, Rounds, NoImage
<1>10. World(k)
  <2>1. \A s \in DOMAIN rounds : Undecided(s) /\ s # r => Undecided(s)'
    BY <1>3 DEF Undecided
  <2>2. \A j \in Workers : j # k => h'[j] = h[j]
    BY <1>2, <1>7
  <2>3. QED
    BY <1>1, <1>3, <1>6, <1>7, <1>8, <2>1, <2>2 DEF World, r
<1>11. (\A x \in DOMAIN drafts : Shown(drafts[x].image))'
  <2>1. \A x \in DOMAIN drafts : drafts[x].image \in Images /\ Shown(drafts[x].image)
    BY DraftFields
  <2>2. \A image \in {<<r, 1>>} : rounds' = [rounds EXCEPT ![r].complete = TRUE] => Shown(image)'
    BY <1>3 DEF Shown
  <2>3. ASSUME NEW x \in DOMAIN drafts'
        PROVE  Shown(drafts[x].image)'
    <3>1. PICK image : image = drafts'[x].image
      OBVIOUS
    <3>2. x \in DOMAIN drafts /\ image = rows[x].image
      BY <1>6, <1>7, <2>3, <3>1
    <3>3. \/ image = drafts[x].image
          \/ image = <<r, 1>> /\ rounds' = [rounds EXCEPT ![r].complete = TRUE]
      BY <1>6, <3>2
    <3>4. Shown(image)'
      BY <1>9, <2>1, <2>2, <3>2, <3>3
    <3>5. QED
      BY <3>1, <3>4 DEF Shown
  <2>4. QED
    BY <2>3
<1>12. (\A a \in DOMAIN ads : ads[a].image # NoImage /\ Shown(ads[a].image))'
  <2>1. \A a \in DOMAIN ads : ads[a].image \in Images
    <3>1. \A a \in DOMAIN ads : ads[a] \in AdRows
      BY <1>2 DEF TablesInv
    <3>2. QED
      BY <3>1 DEF AdRows
  <2>2. QED
    BY <1>1, <1>2, <1>9, <2>1 DEF TablesInv, Shown
<1>13. session' \in SessionRows' /\ Offered(session.context)'
  <2>1. DOMAIN drafts \subseteq DOMAIN rows /\ d \in {New} \union DOMAIN rows
    BY <1>3, <1>6
  <2>2. session' \in SessionsOver(rows) /\ session'.context \in {session.context, context}
    BY <1>6, <1>7, <2>1, SavedTyped
  <2>3. SessionRows' = SessionsOver(rows)
    BY <1>3, <1>7 DEF SessionRows, SessionsOver, Contexts, Rounds
  <2>4. session.context \in Contexts /\ Offered(session.context)
    BY <1>2 DEF TablesInv, SessionRows
  <2>5. \A any \in Contexts : Offered(any) => Offered(any)'
    BY <1>3 DEF Offered, Contexts, NoContext, OtherContext, RoundContext, Rounds
  <2>6. Offered(context)'
    BY <1>3, <1>6 DEF Offered, NoContext, RoundContext
  <2>7. Offered(session.context)'
    BY <2>2, <2>4, <2>5, <2>6 DEF Offered
  <2>8. QED
    BY <2>2, <2>3, <2>7
<1>14. TablesInv'
  <2>1. ads' \in Seq(AdRows)'
    <3>1. AdRows' = AdRows
      BY <1>3, <1>6, <1>7 DEF AdRows, Images, Rounds
    <3>2. QED
      BY <1>1, <1>2, <3>1 DEF TablesInv
  <2>2. /\ (published \subseteq [ad : DOMAIN ads, draft : DOMAIN drafts])'
        /\ IsFiniteSet(published)' /\ received' \in 0..MaxMsgs /\ aborts' \in 0..MaxAborts
    BY <1>1, <1>2, <1>6, <1>7 DEF TablesInv
  <2>3. rounds' \in Seq(RoundRows)'
    BY <1>3, <1>6, <1>7
  <2>4. QED
    BY <1>8, <1>11, <1>12, <1>13, <2>1, <2>2, <2>3 DEF TablesInv
<1>15. IdleCall.pc = "idle"
  BY DEF IdleCall
<1>16. QED
  BY <1>3, <1>7, <1>10, <1>14, <1>15, IdleAfter, Assemble

\* What the record of a publish does to the drafts: the published one gets
\* its status if the call knows its latest version, and a new one follows.
LEMMA RecordPublishRows ==
    ASSUME IInv, NEW k \in Workers, RecordPublish(k)
    PROVE  LET d == h[k].mem.id
           IN  /\ d # New /\ d \in DOMAIN drafts
               /\ GoodRows(drafts') /\ DOMAIN drafts \subseteq DOMAIN drafts'
               /\ \A x \in DOMAIN drafts :
                     \/ drafts'[x] = drafts[x]
                     \/ /\ x = d /\ drafts'[x].version > drafts[x].version
                        /\ drafts'[x].image = drafts[x].image
                        /\ h[k].mem.version = drafts[x].version
               /\ \A x \in DOMAIN drafts' \ DOMAIN drafts : drafts'[x].image = NoImage
               /\ \E cur \in DOMAIN drafts' \ DOMAIN drafts :
                     Finish(k, drafts', cur, "NONE", NoContext)
<1> DEFINE d == h[k].mem.id
           fields == [status |-> "PUBLISHED"]
<1>1. d # New
  BY DEF RecordPublish, IInv, CallInv, PublishInv
<1>2. Legitimate(fields)
  BY DEF Legitimate, Statuses
<1>3. PICK c \in Write(Loaded(k), fields) : Resolve(k, Put(drafts, c.row))
  BY DEF RecordPublish
<1> DEFINE rows == Put(drafts, c.row)
           all == Append(rows, [FreshDraft EXCEPT !.id = Len(rows) + 1])
<1>4. /\ GoodRows(rows) /\ DOMAIN rows = DOMAIN drafts /\ d \in DOMAIN drafts
      /\ \A x \in DOMAIN drafts :
            rows[x] = drafts[x] \/ (x = d /\ rows[x].version > drafts[x].version)
      /\ c.ok => /\ h[k].mem.version = drafts[d].version
                 /\ rows[d].image = IF "image" \in DOMAIN fields THEN fields["image"]
                                    ELSE drafts[d].image
      /\ ~c.ok => rows = drafts
  BY <1>1, <1>2, OwnUpdate
<1>5. c.ok => rows[d].image = drafts[d].image
  BY <1>4
<1> HIDE DEF rows, d, fields
<1>6. /\ GoodRows(all) /\ Len(all) \in DOMAIN all \ DOMAIN rows
      /\ DOMAIN all = DOMAIN rows \union {Len(rows) + 1}
      /\ \A x \in DOMAIN rows : all[x] = rows[x]
      /\ all[Len(rows) + 1].image = NoImage
  BY <1>4, FreshRows
<1>7. Finish(k, all, Len(all), "NONE", NoContext) /\ drafts' = all
  BY <1>3 DEF Resolve, AskNothing, Finish, rows
<1> HIDE DEF all
<1>8. \A x \in DOMAIN drafts :
         \/ all[x] = drafts[x]
         \/ /\ x = d /\ all[x].version > drafts[x].version
            /\ all[x].image = drafts[x].image
            /\ h[k].mem.version = drafts[x].version
  BY <1>4, <1>5, <1>6
<1>9. \A x \in DOMAIN all \ DOMAIN drafts : all[x].image = NoImage
  BY <1>4, <1>6
<1>10. QED
  BY <1>1, <1>4, <1>6, <1>7, <1>8, <1>9 DEF d

\* Recording a publish keeps the invariant: the record names the new
\* advertisement, which no other call holds.
LEMMA RecordPublishKeeps ==
    ASSUME IInv, NEW k \in Workers, RecordPublish(k)
    PROVE  IInv' /\ World(k)
<1> DEFINE d == h[k].mem.id
           new == [ad |-> h[k].ad, draft |-> h[k].mem.id]
<1>1. /\ h[k].pc = "record" /\ published' = published \union {new}
      /\ UNCHANGED <<rounds, ads, received, aborts>>
  BY DEF RecordPublish
<1>2. /\ h \in [Workers -> Calls] /\ TablesInv /\ Ledger!Legal
      /\ h[k] \in Calls /\ PublishInv(h[k])
  BY DEF IInv, CallInv
<1>3. /\ d # New /\ d \in DOMAIN drafts
      /\ GoodRows(drafts') /\ DOMAIN drafts \subseteq DOMAIN drafts'
      /\ \A x \in DOMAIN drafts :
            \/ drafts'[x] = drafts[x]
            \/ drafts'[x].version > drafts[x].version /\ drafts'[x].image = drafts[x].image
      /\ \A x \in DOMAIN drafts' \ DOMAIN drafts : drafts'[x].image = NoImage
      /\ \E cur \in DOMAIN drafts' : Finish(k, drafts', cur, "NONE", NoContext)
  BY RecordPublishRows
<1>4. PICK cur \in DOMAIN drafts' : Finish(k, drafts', cur, "NONE", NoContext)
  BY <1>3
<1>5. /\ h' = [h EXCEPT ![k] = IdleCall]
      /\ session' \in Saved(h[k].row, cur, "NONE", NoContext)
  BY <1>4 DEF Finish
<1>6. h[k].ad \in DOMAIN ads
  BY <1>1, <1>2, CallFields DEF PublishInv
<1>7. new.ad = h[k].ad /\ new \in [ad : DOMAIN ads, draft : DOMAIN drafts']
  BY <1>3, <1>6
<1> HIDE DEF d, new
<1>8. GoodRows(drafts)'
  BY <1>1, <1>3 DEF GoodRows, DraftRows, Images, Rounds
<1>9. World(k)
  <2>1. \A p \in published' \ published : h[k].pc = "record" /\ p.ad = h[k].ad
    BY <1>1, <1>7
  <2>2. \A j \in Workers : j # k => h'[j] = h[j]
    BY <1>2, <1>5
  <2>3. QED
    BY <1>1, <1>3, <1>8, <2>1, <2>2 DEF World, Complete, Undecided, Current
<1>10. (\A x \in DOMAIN drafts : Shown(drafts[x].image))'
  <2>1. \A x \in DOMAIN drafts' : Shown(drafts'[x].image)
    BY <1>2, <1>3 DEF TablesInv, Shown
  <2>2. QED
    BY <1>1, <2>1 DEF Shown, Complete
<1>11. session' \in SessionRows' /\ Offered(session.context)'
  <2>1. NoContext \in Contexts /\ "NONE" \in Pendings /\ Offered(NoContext)
    BY DEF Contexts, Pendings, Offered, NoContext
  <2>2. session' \in SessionsOver(drafts') /\ session'.context \in {session.context, NoContext}
    BY <1>3, <1>5, <2>1, SavedTyped
  <2>3. SessionRows' = SessionsOver(drafts')
    BY <1>1 DEF SessionRows, SessionsOver, Contexts, Rounds
  <2>4. Offered(session'.context)
    BY <1>2, <2>1, <2>2 DEF TablesInv
  <2>5. QED
    BY <1>1, <2>2, <2>3, <2>4 DEF Offered, Complete
<1>12. TablesInv'
  <2>1. rounds' \in Seq(RoundRows)'
    <3>1. RoundRows \subseteq RoundRows'
      BY <1>3 DEF RoundRows
    <3>2. QED
      BY <1>1, <1>2, <3>1 DEF TablesInv
  <2>2. ads' \in Seq(AdRows)'
    <3>1. AdRows \subseteq AdRows'
      BY <1>1, <1>3 DEF AdRows, Images, Rounds
    <3>2. QED
      BY <1>1, <1>2, <3>1 DEF TablesInv
  <2>3. (published \subseteq [ad : DOMAIN ads, draft : DOMAIN drafts])'
    BY <1>1, <1>2, <1>3, <1>7 DEF TablesInv
  <2>4. IsFiniteSet(published)'
    BY <1>1, <1>2, FS_AddElement DEF TablesInv
  <2>5. received' \in 0..MaxMsgs /\ aborts' \in 0..MaxAborts
    BY <1>1, <1>2 DEF TablesInv
  <2>6. (\A a \in DOMAIN ads : ads[a].image # NoImage /\ Shown(ads[a].image))'
    BY <1>1, <1>2 DEF TablesInv, Shown, Complete
  <2>7. QED
    BY <1>8, <1>10, <1>11, <2>1, <2>2, <2>3, <2>4, <2>5, <2>6 DEF TablesInv
<1>13. Ledger!Legal'
  BY <1>1, <1>2 DEF Ledger!Legal, Ledger!Of
<1>14. IdleCall.pc = "idle"
  BY DEF IdleCall
<1>15. QED
  BY <1>5, <1>9, <1>12, <1>13, <1>14, IdleAfter, Assemble

-----------------------------------------------------------------------------
\* Opening a round

\* The rounds of a draft are finitely many positions of the table.
LEMMA RoundsFinite ==
    ASSUME rounds \in Seq(RoundRows), NEW d
    PROVE  IsFiniteSet(RoundsOf(d)) /\ RoundsOf(d) \subseteq 1..Len(rounds) /\ Len(rounds) \in Nat
<1>1. DOMAIN rounds = 1..Len(rounds) /\ Len(rounds) \in Nat
  OBVIOUS
<1>2. RoundsOf(d) \subseteq 1..Len(rounds)
  BY <1>1 DEF RoundsOf
<1>3. IsFiniteSet(1..Len(rounds))
  BY <1>1, FS_Interval
<1>4. QED
  BY <1>1, <1>2, <1>3, FS_Subset

\* A finite set of numbers has a greatest one: of the sets of the numbers
\* above x, one is minimal.
LEMMA GreatestOf ==
    ASSUME NEW S \in SUBSET Nat, IsFiniteSet(S), S # {}
    PROVE  \E x \in S : \A y \in S : y <= x
<1> DEFINE Above(x) == {y \in S : x < y}
           T == {Above(x) : x \in S}
           R == StrictSubsetOrdering(S)
<1>1. T \subseteq FiniteSubsetsOf(S) /\ T # {}
  <2>1. \A x \in S : Above(x) \subseteq S
    OBVIOUS
  <2>2. \A x \in S : IsFiniteSet(Above(x))
    <3> HIDE DEF Above
    <3>1. QED
     BY <2>1, FS_Subset
  <2>3. QED
    BY <2>1, <2>2 DEF FiniteSubsetsOf
<1>2. \E a \in T : \A b \in T : ~ (<<b, a>> \in R)
  <2> HIDE DEF T
  <2>1. IsWellFoundedOn(R, FiniteSubsetsOf(S))
    BY FS_StrictSubsetOrderingWellFounded DEF R
  <2> HIDE DEF R
  <2>2. QED
    BY <1>1, <2>1, WFMin
<1>3. PICK x \in S : \A y \in S : ~ (<<Above(y), Above(x)>> \in R)
  BY <1>2
<1>4. \A y \in S : ~(x < y)
  <2>1. ASSUME NEW y \in S, x < y PROVE FALSE
    <3>1. x \in Nat /\ S \subseteq Nat
      OBVIOUS
    <3>2. y \in Above(x) /\ y \notin Above(y)
      BY <2>1, <3>1
    <3>3. \A z \in Above(y) : z \in Above(x)
      BY <2>1, <3>1
    <3>4. Above(x) \in SUBSET S /\ Above(y) \in SUBSET S
      OBVIOUS
    <3>5. <<Above(y), Above(x)>> \in R
      <4> HIDE DEF Above
      <4>1. QED
        BY <3>2, <3>3, <3>4 DEF StrictSubsetOrdering
    <3>6. QED
      BY <3>5, <1>3
  <2>2. QED
    BY <2>1
<1>5. QED
  BY <1>4

\* The highest attempt of a draft is the number of its rounds.
LEMMA LastAttemptCounts ==
    ASSUME rounds \in Seq(RoundRows), LegalTable(rounds), NEW d
    PROVE  LastAttempt(d) = Cardinality(RoundsOf(d)) /\ Cardinality(RoundsOf(d)) \in Nat
<1> DEFINE n == Cardinality(RoundsOf(d))
           A == {0} \union {rounds[r].attempt : r \in RoundsOf(d)}
<1>1. IsFiniteSet(RoundsOf(d)) /\ n \in Nat /\ RoundsOf(d) \subseteq 1..Len(rounds)
  BY RoundsFinite, FS_CardinalityType
<1>2. CASE RoundsOf(d) = {}
  <2>1. n = 0 /\ A = {0}
    BY <1>2, FS_EmptySet
  <2>2. \A m \in A : (\A r \in RoundsOf(d) : rounds[r].attempt <= m) => m = 0
    BY <2>1
  <2>3. QED
    BY <1>2, <2>1 DEF LastAttempt
<1>3. CASE RoundsOf(d) # {}
  <2>1. PICK last \in RoundsOf(d) : \A s \in RoundsOf(d) : s <= last
    <3>1. 1..Len(rounds) \in SUBSET Nat
      BY RoundsFinite
    <3>2. RoundsOf(d) \in SUBSET Nat
      BY <1>1, <3>1
    <3>3. QED
      BY <1>1, <1>3, <3>2, GreatestOf
  <2> DEFINE before == RoundsOf(d) \ {last}
  <2>2. IsFiniteSet(before) /\ Cardinality(before) = n - 1
    BY <1>1, FS_RemoveElement
  <2>3. \A r \in RoundsOf(d) : r \in DOMAIN rounds /\ rounds[r].draft = d
    BY DEF RoundsOf
  <2>4. Earlier(rounds, last) = before
    <3>1. \A s \in before : s \in Nat /\ last \in Nat /\ s <= last /\ s # last
      BY <1>1, <2>1, RoundsFinite
    <3>2. \A s \in before : s < last
      BY <3>1
    <3>4. \A s : s \in Earlier(rounds, last) <=> s \in RoundsOf(d) /\ s < last
      BY <2>3 DEF Earlier, RoundsOf
    <3>5. ~(last < last)
      BY <1>1, <2>1, RoundsFinite
    <3>6. \A s : s \in Earlier(rounds, last) <=> s \in before
      BY <3>2, <3>4, <3>5
    <3>7. QED
      BY <3>6
  <2>5. rounds[last].attempt = n
    <3>1. rounds[last].attempt = Cardinality(Earlier(rounds, last)) + 1
      BY <2>1, <2>3 DEF LegalTable
    <3>2. Cardinality(Earlier(rounds, last)) = n - 1
      BY <2>2, <2>4
    <3> HIDE DEF n
    <3>3. QED
      BY <1>1, <3>1, <3>2
  <2>6. ASSUME NEW r \in RoundsOf(d)
        PROVE  rounds[r].attempt <= n /\ rounds[r].attempt \in Nat
    <3>1. CASE r = last
      BY <1>1, <2>5, <3>1
    <3>2. CASE r # last
      <4>1. Earlier(rounds, r) \subseteq before
        BY <1>1, <2>1, <2>3, <3>2 DEF Earlier, RoundsOf
      <4>2. Cardinality(Earlier(rounds, r)) <= n - 1 /\ Cardinality(Earlier(rounds, r)) \in Nat
        BY <2>2, <4>1, FS_Subset, FS_CardinalityType
      <4>3. rounds[r].attempt = Cardinality(Earlier(rounds, r)) + 1
        BY <2>3 DEF LegalTable
      <4>4. QED
        BY <1>1, <4>2, <4>3
    <3>3. QED
      BY <3>1, <3>2
  <2>7. n \in A /\ \A r \in RoundsOf(d) : rounds[r].attempt <= n
    BY <2>1, <2>5, <2>6
  <2>8. \A m \in A : (\A r \in RoundsOf(d) : rounds[r].attempt <= m) => m = n
    BY <1>1, <2>1, <2>5, <2>6
  <2>9. LastAttempt(d) \in A /\ \A r \in RoundsOf(d) : rounds[r].attempt <= LastAttempt(d)
    BY <2>7 DEF LastAttempt
  <2>10. QED
    BY <1>1, <2>8, <2>9
<1>4. QED
  BY <1>2, <1>3

\* A new round is the only active one of its draft, and the next attempt.
LEMMA RoundOpened ==
    ASSUME rounds \in Seq(RoundRows), LegalTable(rounds), NEW d \in DOMAIN drafts', AddRound(d),
           DOMAIN drafts \subseteq DOMAIN drafts'
    PROVE  LET n == Len(rounds)
           IN  /\ n \in Nat /\ DOMAIN rounds = 1..n /\ DOMAIN rounds' = 1..(n+1)
               /\ rounds' \in Seq(RoundRows)'
               /\ \A r \in 1..n :
                     /\ rounds'[r].draft = rounds[r].draft
                     /\ rounds'[r].attempt = rounds[r].attempt
                     /\ rounds'[r].complete = rounds[r].complete
                     /\ rounds'[r].status = IF rounds[r].draft = d /\ rounds[r].status = "ACTIVE"
                                            THEN "SUPERSEDED" ELSE rounds[r].status
               /\ rounds'[n+1] = [draft |-> d, attempt |-> Cardinality(RoundsOf(d)) + 1,
                                  status |-> "ACTIVE", complete |-> FALSE]
               /\ LegalTable(rounds')
<1> DEFINE n == Len(rounds)
           Supersede(r) == IF rounds[r].draft = d /\ rounds[r].status = "ACTIVE"
                           THEN [rounds[r] EXCEPT !.status = "SUPERSEDED"] ELSE rounds[r]
           table == [r \in DOMAIN rounds |-> Supersede(r)]
           new == [draft |-> d, attempt |-> Cardinality(RoundsOf(d)) + 1,
                   status |-> "ACTIVE", complete |-> FALSE]
<1>1. n \in Nat /\ DOMAIN rounds = 1..n /\ \A r \in 1..n : rounds[r] \in RoundRows
  OBVIOUS
<1>2. LastAttempt(d) = Cardinality(RoundsOf(d)) /\ Cardinality(RoundsOf(d)) \in Nat
  BY LastAttemptCounts
<1>3. rounds' = Append(table, new)
  BY <1>2 DEF AddRound
<1>4. ASSUME NEW r \in 1..n
      PROVE  /\ Supersede(r) \in RoundRows'
             /\ Supersede(r).draft = rounds[r].draft
             /\ Supersede(r).attempt = rounds[r].attempt
             /\ Supersede(r).complete = rounds[r].complete
             /\ Supersede(r).status = IF rounds[r].draft = d /\ rounds[r].status = "ACTIVE"
                                      THEN "SUPERSEDED" ELSE rounds[r].status
  BY <1>1 DEF RoundRows
<1>5. new \in RoundRows'
  BY <1>2 DEF RoundRows
<1>6. table \in [1..n -> RoundRows'] /\ \A r \in 1..n : table[r] = Supersede(r)
  BY <1>1, <1>4
<1>7. table \in Seq(RoundRows') /\ Len(table) = n
  BY <1>1, <1>6
<1> HIDE DEF table, new, Supersede
<1>8. /\ rounds' \in Seq(RoundRows')
      /\ DOMAIN rounds' = 1..(n+1)
      /\ rounds'[n+1] = new
      /\ \A r \in 1..n : rounds'[r] = Supersede(r)
  BY <1>1, <1>3, <1>5, <1>6, <1>7
<1>9. LegalTable(rounds')
  <2>1. ASSUME NEW r \in 1..n
        PROVE  /\ rounds'[r].attempt = Cardinality(Earlier(rounds', r)) + 1
               /\ \A s \in Earlier(rounds', r) : rounds'[s].status # "ACTIVE"
    <3>1. Earlier(rounds', r) = Earlier(rounds, r)
      BY <1>1, <1>4, <1>8 DEF Earlier
    <3>2. \A s \in Earlier(rounds, r) : s \in 1..n /\ rounds[s].status # "ACTIVE"
      BY <1>1 DEF LegalTable, Earlier
    <3>3. rounds[r].attempt = Cardinality(Earlier(rounds, r)) + 1
      BY <1>1 DEF LegalTable
    <3>4. QED
      BY <1>4, <1>8, <3>1, <3>2, <3>3
  <2>2. /\ rounds'[n+1].attempt = Cardinality(Earlier(rounds', n+1)) + 1
        /\ \A s \in Earlier(rounds', n+1) : rounds'[s].status # "ACTIVE"
    <3>1. new.draft = d /\ new.attempt = Cardinality(RoundsOf(d)) + 1
      BY DEF new
    <3>2. Earlier(rounds', n+1) = RoundsOf(d)
      BY <1>1, <1>4, <1>8, <3>1 DEF Earlier, RoundsOf
    <3>3. \A s \in RoundsOf(d) : rounds'[s].status # "ACTIVE"
      BY <1>1, <1>4, <1>8 DEF RoundsOf
    <3>4. QED
      BY <1>8, <3>1, <3>2, <3>3
  <2>3. QED
    BY <1>1, <1>8, <2>1, <2>2 DEF LegalTable
<1>10. QED
  BY <1>1, <1>4, <1>8, <1>9 DEF new

\* The write that makes the draft GENERATING gives its row a new version,
\* which the call's copy shares.
LEMMA GeneratingRows ==
    ASSUME IInv, NEW k \in Workers, NEW c \in Prepared(k),
           NEW g \in Write(c, [status |-> "GENERATING", awaiting |-> FALSE]), g.ok
    PROVE  LET rows == Put(drafts, g.row)
               cur == IdIn(drafts, g.mem)
           IN  /\ Follows(rows)
               /\ cur \in DOMAIN rows /\ cur # New
               /\ g.mem \in DraftRows(Ids)
               /\ g.mem.version <= rows[cur].version
               /\ Shown(g.mem.image)
               /\ cur \in DOMAIN drafts => rows[cur].version > drafts[cur].version
<1> DEFINE fields == [status |-> "GENERATING", awaiting |-> FALSE]
           rows == Put(drafts, g.row)
           cur == IdIn(drafts, g.mem)
<1>1. From(k, c)
  BY PreparedFrom
<1>2. PICK b \in Origins(k) : c \in Copies /\ Derived(b, c)
  BY <1>1 DEF From
<1>3. b \in Copies /\ IF b.row.id = New THEN b.row.image = NoImage
                      ELSE b = Loaded(k) /\ b.row = drafts[b.row.id]
  BY OriginTyped
<1>4. Plain(fields)
  BY PlainFields
<1>5. g \in Copies /\ Derived(b, g)
  BY <1>2, <1>3, <1>4, WriteDerived
<1>6. g.row = Updated(c.row, fields)
  BY <1>2, <1>4, WriteTyped DEF Plain
<1>7. /\ g.row \in DraftRows(Ids) /\ c.row \in DraftRows(Ids) /\ b.row \in DraftRows(Ids)
      /\ g.mem \in DraftRows(Ids)
      /\ c.row.version \in Nat /\ b.row.version \in Nat
  BY <1>2, <1>3, <1>5 DEF Copies, DraftRows
<1>8. g.row.version = c.row.version + 1
  BY <1>4, <1>6, <1>7, UpdatedTyped DEF Plain
<1>9. g.row.version > b.row.version /\ g.row.id = b.row.id
  BY <1>2, <1>5, <1>7, <1>8 DEF Derived
<1>10. /\ Follows(rows) /\ cur \in DOMAIN rows /\ cur # New
       /\ g.mem.version <= rows[cur].version /\ Shown(g.mem.image)
       /\ IdIn(drafts, g.row) = cur
  BY <1>5, CommitFollows
<1>11. ASSUME cur \in DOMAIN drafts
       PROVE  rows[cur].version > drafts[cur].version
  <2>1. GoodRows(drafts)
    BY DEF IInv, TablesInv
  <2>2. /\ rows[cur] = [g.row EXCEPT !.id = cur]
        /\ g.row.id # New => cur = g.row.id
        /\ g.row.id = New => cur \notin DOMAIN drafts
    BY <1>7, <1>10, <2>1, PutRows
  <2>3. rows[cur].version = g.row.version
    BY <1>7, <2>2 DEF DraftRows
  <2>4. b.row = drafts[cur]
    BY <1>3, <1>9, <1>11, <2>2
  <2>5. QED
    BY <1>9, <2>3, <2>4
<1>12. QED
  BY <1>7, <1>10, <1>11

\* A session row without its question.
Cleared(s) == [s EXCEPT !.pending = "NONE", !.context = NoContext]

\* A generation starts: its call polls a round of its own, of the draft it
\* works on or has just inserted.
Opens(k) ==
    /\ UNCHANGED <<published, ads, received, aborts>>
    /\ h[k].pc = "plan"
    /\ Follows(drafts') /\ KeepsImages(drafts')
    /\ \E cur \in DOMAIN drafts' :
          /\ AddRound(cur)
          /\ cur = h[k].mem.id \/ cur \notin DOMAIN drafts
          /\ \E x : /\ h' = [h EXCEPT ![k] = x]
                    /\ x.pc = "poll" /\ x.round = Len(rounds) + 1 /\ x.mem.id = cur
                    /\ \/ x.row = h[k].row /\ session' = session
                       \/ /\ x.row = Cleared(h[k].row)
                          /\ session' = IF h[k].row.pending # "NONE" THEN Cleared(session)
                                        ELSE session

\* Superseding and opening in one transaction keep the invariant.
LEMMA OpenKeeps ==
    ASSUME IInv, NEW k \in Workers, h[k].pc = "plan", NEW c \in Prepared(k),
           NEW g \in Write(c, [status |-> "GENERATING", awaiting |-> FALSE]), g.ok,
           NEW cleared \in BOOLEAN,
           NEW cur, cur = IdIn(drafts, g.mem),
           drafts' = Put(drafts, g.row), AddRound(cur),
           session' = IF cleared /\ h[k].row.pending # "NONE"
                      THEN [session EXCEPT !.pending = "NONE", !.context = NoContext]
                      ELSE session,
           h' = [h EXCEPT ![k].pc = "poll", ![k].mem = [g.mem EXCEPT !.id = cur],
                          ![k].round = Len(rounds) + 1,
                          ![k].row = IF cleared THEN [@ EXCEPT !.pending = "NONE",
                                                               !.context = NoContext] ELSE @],
           UNCHANGED <<published, ads, received, aborts>>
    PROVE  IInv' /\ World(k) /\ Opens(k)
<1> DEFINE n == Len(rounds)
<1>1. /\ h \in [Workers -> Calls] /\ TablesInv /\ h[k] \in Calls /\ CopyInv(h[k])
      /\ LegalTable(rounds)
  BY LegalIs DEF IInv, CallInv
<1>2. /\ Follows(drafts') /\ cur \in DOMAIN drafts' /\ cur # New
      /\ g.mem \in DraftRows(Ids) /\ g.mem.version <= drafts'[cur].version
      /\ Shown(g.mem.image)
      /\ cur \in DOMAIN drafts => drafts'[cur].version > drafts[cur].version
  BY GeneratingRows
<1>3. DOMAIN drafts \subseteq DOMAIN drafts'
  BY <1>2 DEF Follows
<1>4. /\ n \in Nat /\ DOMAIN rounds = 1..n /\ DOMAIN rounds' = 1..(n+1)
      /\ rounds' \in Seq(RoundRows)'
      /\ \A r \in 1..n :
            /\ rounds'[r].draft = rounds[r].draft
            /\ rounds'[r].attempt = rounds[r].attempt
            /\ rounds'[r].complete = rounds[r].complete
            /\ rounds'[r].status = IF rounds[r].draft = cur /\ rounds[r].status = "ACTIVE"
                                   THEN "SUPERSEDED" ELSE rounds[r].status
      /\ rounds'[n+1] = [draft |-> cur, attempt |-> Cardinality(RoundsOf(cur)) + 1,
                         status |-> "ACTIVE", complete |-> FALSE]
      /\ LegalTable(rounds')
  <2>1. rounds \in Seq(RoundRows)
    BY <1>1 DEF TablesInv
  <2>2. QED
    BY <1>1, <1>2, <1>3, <2>1, RoundOpened
<1> PICK mem : mem = [g.mem EXCEPT !.id = cur]
  OBVIOUS
<1> PICK row : row = IF cleared THEN [h[k].row EXCEPT !.pending = "NONE", !.context = NoContext]
                     ELSE h[k].row
  OBVIOUS
<1>5. PICK x : /\ x = [h[k] EXCEPT !.pc = "poll", !.mem = mem, !.round = n + 1, !.row = row]
               /\ h' = [h EXCEPT ![k] = x]
  BY <1>1
<1> HIDE DEF n
<1>6. /\ mem \in DraftRows(DOMAIN drafts') /\ mem.id = cur
      /\ mem.version = g.mem.version /\ mem.image = g.mem.image
  BY <1>2 DEF DraftRows
<1>7. row \in SessionRows /\ Offered(row.context)
  BY <1>1, CallFields DEF SessionRows, Pendings, Contexts, CopyInv, Offered, NoContext
<1>8. /\ x.pc = "poll" /\ x.mem = mem /\ x.row = row
      /\ x.kind = h[k].kind /\ x.round = n + 1 /\ x.ad = h[k].ad
  BY <1>1, <1>5 DEF Calls
<1>9. /\ Images \subseteq Images' /\ Contexts \subseteq Contexts'
      /\ SessionRows \subseteq SessionRows'
      /\ \A A : DraftRows(A) \subseteq DraftRows(A)'
  BY <1>3, <1>4, TypesGrow
<1>10. \A r \in DOMAIN rounds : /\ Complete(r) => Complete(r)'
                                /\ Undecided(r) => Undecided(r)'
  BY <1>4 DEF Complete, Undecided
<1>11. \A image \in Images : Shown(image) => Shown(image)'
  BY <1>10 DEF Shown, Images, Rounds, NoImage
<1>12. \A any \in Contexts : Offered(any) => Offered(any)'
  BY <1>10 DEF Offered, Contexts, NoContext, OtherContext, RoundContext, Rounds
<1>13. GoodRows(drafts)'
  <2>1. GoodRows(drafts')
    BY <1>2 DEF Follows
  <2>2. \E A : /\ drafts' \in Seq(A) /\ A = DraftRows(DOMAIN drafts')
               /\ A \subseteq DraftRows(DOMAIN drafts)'
    BY <1>9, <2>1 DEF GoodRows
  <2>3. drafts' \in Seq(DraftRows(DOMAIN drafts))'
    BY <2>2
  <2>4. QED
    BY <2>1, <2>3 DEF GoodRows
<1>14. World(k)
  <2>1. ASSUME NEW r \in DOMAIN rounds
        PROVE  \/ Current(r) => Current(r)'
               \/ drafts'[rounds[r].draft].version > drafts[rounds[r].draft].version
    <3>1. CASE rounds[r].draft = cur
      <4>1. rounds[r] \in RoundRows
        BY <1>1 DEF TablesInv
      <4>2. cur \in DOMAIN drafts
        BY <3>1, <4>1 DEF RoundRows
      <4>3. QED
        BY <1>2, <3>1, <4>2
    <3>2. CASE rounds[r].draft # cur
      <4>1. \A s \in DOMAIN rounds' : s \in DOMAIN rounds \/ s = n + 1
        BY <1>4
      <4>2. rounds'[n+1].draft = cur
        BY <1>4
      <4>3. \A s \in DOMAIN rounds : rounds'[s].draft = rounds[s].draft
        BY <1>4
      <4>4. rounds'[r].status = rounds[r].status
        BY <1>4, <3>2
      <4>5. QED
        BY <3>2, <4>1, <4>2, <4>3, <4>4 DEF Current
    <3>3. QED
      BY <3>1, <3>2
  <2>2. \A d \in DOMAIN drafts :
           drafts'[d] = drafts[d] \/ drafts'[d].version > drafts[d].version
    BY <1>2 DEF Follows, Kin
  <2>3. \A j \in Workers : j # k => h'[j] = h[j]
    BY <1>1, <1>5
  <2>4. DOMAIN rounds \subseteq DOMAIN rounds'
        /\ \A r \in DOMAIN rounds : rounds'[r].draft = rounds[r].draft
    BY <1>4
  <2>5. published' = published /\ ads' = ads
    OBVIOUS
  <2>6. QED
    BY <1>3, <1>10, <1>13, <2>1, <2>2, <2>3, <2>4, <2>5 DEF World
<1>15. CallInv(x)'
  <2>1. x \in Calls'
    <3>1. row \in SessionRows' /\ mem \in DraftRows({New} \union DOMAIN drafts)'
      <4>1. \E A : mem \in DraftRows(A)' /\ A = DOMAIN drafts'
        BY <1>6, <1>9
      <4>2. QED
        BY <1>7, <1>9, <4>1 DEF DraftRows
    <3>2. n + 1 \in ({NoRound} \union Rounds)' /\ h[k].ad \in ({0} \union DOMAIN ads)'
      BY <1>1, <1>4 DEF Calls, Rounds
    <3>3. x \in [pc : PCs, kind : AllKinds, row : {row}, mem : {mem},
                 round : {n + 1}, ad : {h[k].ad}]
      BY <1>1, <1>5 DEF Calls, PCs
    <3>4. QED
      BY <3>1, <3>2, <3>3 DEF Calls
  <2>2. Shown(mem.image)' /\ Offered(row.context)'
    <3>1. mem.image \in Images /\ row.context \in Contexts /\ Shown(mem.image)
      BY <1>2, <1>6, <1>7 DEF DraftRows, SessionRows
    <3>2. QED
      BY <1>7, <1>11, <1>12, <3>1
  <2>3. CopyInv(x)'
    BY <1>2, <1>6, <1>8, <2>2 DEF CopyInv
  <2>4. PollInv(x)'
    <3>1. \A s \in {n + 1} : Undecided(s)' /\ Current(s)'
      <4>1. \A s \in DOMAIN rounds' : s <= n + 1
        BY <1>4
      <4>2. QED
        BY <1>4, <4>1 DEF Undecided, Current
    <3>2. n + 1 # NoRound /\ rounds'[n + 1].draft = cur
      BY <1>4 DEF NoRound
    <3>3. x.round \in {n + 1} /\ Undecided(x.round)' /\ Current(x.round)'
      BY <1>8, <3>1 DEF Undecided, Current
    <3>4. QED
      BY <1>2, <1>6, <1>8, <3>2, <3>3 DEF PollInv
  <2>5. PublishInv(x)'
    BY <1>8 DEF PublishInv
  <2>6. QED
    BY <2>1, <2>3, <2>4, <2>5 DEF CallInv
<1>16. (\A d \in DOMAIN drafts : Shown(drafts[d].image))'
  <2>1. ASSUME NEW d \in DOMAIN drafts'
        PROVE  Shown(drafts[d].image)'
    <3>1. PICK image : image = drafts'[d].image
      OBVIOUS
    <3>2. Shown(image)
      BY <1>1, <1>2, <3>1 DEF Follows, Kin, TablesInv
    <3>3. drafts'[d] \in DraftRows(DOMAIN drafts')
      BY <1>2 DEF Follows, GoodRows
    <3>4. image \in Images
      BY <3>1, <3>3 DEF DraftRows
    <3>5. Shown(image)'
      BY <1>11, <3>2, <3>4
    <3>6. QED
      BY <3>1, <3>5 DEF Shown
  <2>2. QED
    BY <2>1
<1>17. (\A a \in DOMAIN ads : ads[a].image # NoImage /\ Shown(ads[a].image))'
  <2>1. \A a \in DOMAIN ads : ads[a] \in AdRows
    BY <1>1 DEF TablesInv
  <2>2. \A a \in DOMAIN ads : ads[a].image \in Images
    BY <2>1 DEF AdRows
  <2>3. QED
    BY <1>1, <1>11, <2>2 DEF TablesInv, Shown
<1>18. session' \in SessionRows' /\ Offered(session.context)'
  <2>1. session \in SessionRows /\ Offered(session.context)
    BY <1>1 DEF TablesInv
  <2>2. LET s == [session EXCEPT !.pending = "NONE", !.context = NoContext]
        IN  s \in SessionRows /\ s.context = NoContext
    BY <2>1 DEF SessionRows, Pendings, Contexts
  <2>3. session' \in SessionRows /\ session'.context \in {session.context, NoContext}
    BY <2>1, <2>2
  <2>4. session.context \in Contexts /\ NoContext \in Contexts /\ Offered(NoContext)
    BY <2>1 DEF SessionRows, Contexts, Offered, NoContext
  <2>5. PICK context : context = session'.context
    OBVIOUS
  <2>6. Offered(context)'
    BY <1>12, <2>1, <2>3, <2>4, <2>5
  <2>7. QED
    BY <1>9, <2>3, <2>5, <2>6 DEF Offered
<1>19. TablesInv'
  <2>1. ads' \in Seq(AdRows)'
    <3>1. AdRows \subseteq AdRows'
      BY <1>3, <1>9 DEF AdRows
    <3>2. QED
      BY <1>1, <3>1 DEF TablesInv
  <2>2. /\ (published \subseteq [ad : DOMAIN ads, draft : DOMAIN drafts])'
        /\ IsFiniteSet(published)' /\ received' \in 0..MaxMsgs /\ aborts' \in 0..MaxAborts
    BY <1>1, <1>3 DEF TablesInv
  <2>3. QED
    BY <1>4, <1>13, <1>16, <1>17, <1>18, <2>1, <2>2 DEF TablesInv
<1>20. \A j \in Workers \ {k} :
          /\ x.pc = "poll" /\ h[j].pc = "poll" => x.round # h[j].round
          /\ x.pc = "record" /\ h[j].pc = "record" => x.ad # h[j].ad
  <2>1. ASSUME NEW j \in Workers, h[j].pc = "poll"
        PROVE  h[j].round \in 1..n
    <3>1. h[j] \in Calls /\ PollInv(h[j])
      BY DEF IInv, CallInv
    <3>2. QED
      BY <1>4, <2>1, <3>1, CallFields DEF PollInv
  <2>2. QED
    BY <1>4, <1>8, <2>1
<1>21. Ledger!Legal'
  BY <1>4, LegalIs
<1>22. h' = [h EXCEPT ![k] = x]
  BY <1>5
<1>23. IInv'
  BY <1>14, <1>15, <1>19, <1>20, <1>21, <1>22, Assemble
<1>24. Opens(k)
  <2>1. From(k, g)
    BY PreparedFrom, WriteFrom, PlainFields
  <2>2. KeepsImages(drafts') /\ (cur = h[k].mem.id \/ cur \notin DOMAIN drafts)
    BY <2>1, CommitKeepsImages DEF From
  <2>3. \/ x.row = h[k].row /\ session' = session
        \/ /\ x.row = Cleared(h[k].row)
           /\ session' = IF h[k].row.pending # "NONE" THEN Cleared(session) ELSE session
    BY <1>8 DEF Cleared
  <2>4. /\ h' = [h EXCEPT ![k] = x]
        /\ x.pc = "poll" /\ x.round = Len(rounds) + 1 /\ x.mem.id = cur
    BY <1>6, <1>8, <1>22 DEF n
  <2>5. /\ cur \in DOMAIN drafts' /\ AddRound(cur) /\ h[k].pc = "plan" /\ Follows(drafts')
        /\ UNCHANGED <<published, ads, received, aborts>>
    BY <1>2
  <2>6. QED
    BY <2>2, <2>3, <2>4, <2>5, Zenon DEF Opens
<1>25. QED
  BY <1>14, <1>23, <1>24

\* Starting a generation ends the call when its write is refused, else it
\* opens a round.
LEMMA StartGenerationKeeps ==
    ASSUME IInv, NEW k \in Workers, StartGeneration(k)
    PROVE  Commits(k) \/ (IInv' /\ World(k) /\ Opens(k))
<1> DEFINE fields == [status |-> "GENERATING", awaiting |-> FALSE]
<1>1. h[k].pc = "plan" /\ UNCHANGED <<published, ads, received, aborts>>
  BY DEF StartGeneration
<1>2. PICK c \in Prepared(k), cleared \in BOOLEAN :
         /\ cleared = (h[k].kind = "text")
         /\ \E g \in Write(c, fields) :
               IF ~g.ok
               THEN AskNothing(k, Put(drafts, g.row), IdIn(drafts, g.mem)) /\ UNCHANGED rounds
               ELSE LET cur == IdIn(drafts, g.mem)
                    IN /\ drafts' = Put(drafts, g.row)
                       /\ AddRound(cur)
                       /\ session' = IF cleared /\ h[k].row.pending # "NONE"
                                     THEN [session EXCEPT !.pending = "NONE", !.context = NoContext]
                                     ELSE session
                       /\ h' = [h EXCEPT ![k].pc = "poll", ![k].mem = [g.mem EXCEPT !.id = cur],
                                         ![k].round = Len(rounds) + 1,
                                         ![k].row = IF cleared
                                                    THEN [@ EXCEPT !.pending = "NONE",
                                                                   !.context = NoContext] ELSE @]
  BY DEF StartGeneration
<1>3. PICK g \in Write(c, fields) :
         IF ~g.ok
         THEN AskNothing(k, Put(drafts, g.row), IdIn(drafts, g.mem)) /\ UNCHANGED rounds
         ELSE LET cur == IdIn(drafts, g.mem)
              IN /\ drafts' = Put(drafts, g.row)
                 /\ AddRound(cur)
                 /\ session' = IF cleared /\ h[k].row.pending # "NONE"
                               THEN [session EXCEPT !.pending = "NONE", !.context = NoContext]
                               ELSE session
                 /\ h' = [h EXCEPT ![k].pc = "poll", ![k].mem = [g.mem EXCEPT !.id = cur],
                                   ![k].round = Len(rounds) + 1,
                                   ![k].row = IF cleared
                                              THEN [@ EXCEPT !.pending = "NONE",
                                                             !.context = NoContext] ELSE @]
  BY <1>2
<1>4. CASE g.ok
  <2>1. PICK cur : cur = IdIn(drafts, g.mem)
    OBVIOUS
  <2>2. /\ drafts' = Put(drafts, g.row) /\ AddRound(cur)
        /\ session' = IF cleared /\ h[k].row.pending # "NONE"
                      THEN [session EXCEPT !.pending = "NONE", !.context = NoContext]
                      ELSE session
        /\ h' = [h EXCEPT ![k].pc = "poll", ![k].mem = [g.mem EXCEPT !.id = cur],
                          ![k].round = Len(rounds) + 1,
                          ![k].row = IF cleared THEN [@ EXCEPT !.pending = "NONE",
                                                               !.context = NoContext] ELSE @]
    BY <1>3, <1>4, <2>1
  <2>3. QED
    BY <1>1, <1>4, <2>1, <2>2, OpenKeeps
<1>5. CASE ~g.ok
  <2>1. From(k, g)
    BY PreparedFrom, WriteFrom, PlainFields
  <2>2. Ends(k, g) /\ Kept
    BY <1>1, <1>3, <1>5, AsksEnd DEF Kept
  <2>3. QED
    BY <1>1, <2>1, <2>2, EndsCommit
<1>6. QED
  BY <1>4, <1>5

-----------------------------------------------------------------------------
\* The invariant holds

\* The empty tables satisfy the invariant.
LEMMA InitInv == Init => IInv
<1> SUFFICES ASSUME Init
             PROVE  IInv
  OBVIOUS
<1>1. /\ session = NoSession /\ drafts = <<>> /\ rounds = <<>> /\ published = {} /\ ads = <<>>
      /\ h = [k \in Workers |-> IdleCall] /\ received = 0 /\ aborts = 0
  BY DEF Init
<1>2. TablesInv
  <2>1. DOMAIN drafts = {} /\ DOMAIN rounds = {} /\ DOMAIN ads = {}
    BY <1>1
  <2>2. drafts \in Seq(DraftRows(DOMAIN drafts)) /\ rounds \in Seq(RoundRows) /\ ads \in Seq(AdRows)
    BY <1>1
  <2>3. session \in SessionRows /\ Offered(session.context)
    BY <1>1 DEF NoSession, SessionRows, Pendings, Contexts, Offered, NoContext
  <2>4. IsFiniteSet(published)
    BY <1>1, FS_EmptySet
  <2>5. QED
    BY <1>1, <2>1, <2>2, <2>3, <2>4 DEF TablesInv, GoodRows
<1>3. IdleCall \in Calls /\ CopyInv(IdleCall) /\ PublishInv(IdleCall)
  BY IdleTyped
<1>4. IdleCall.pc = "idle"
  BY DEF IdleCall
<1>5. \A k \in Workers : CallInv(h[k])
  BY <1>1, <1>3, <1>4 DEF CallInv, PollInv
<1>6. Distinct
  BY <1>1, <1>4 DEF Distinct
<1>7. Ledger!Legal
  BY <1>1, LegalIs DEF LegalTable
<1>8. QED
  BY <1>1, <1>2, <1>3, <1>5, <1>6, <1>7 DEF IInv

\* The steps that are neither quiet nor the start of a generation.
Loud(k) ==
    CmsAccepts(k) \/ CmsAnswerUnusable(k) \/ PairCompleted(k) \/ PairFailed(k) \/ RecordPublish(k)

\* Every step keeps the invariant, and is of one of three sorts.
LEMMA Steps ==
    ASSUME IInv, [Next]_vars
    PROVE  /\ IInv'
           /\ \/ UNCHANGED vars
              \/ \E k \in Workers : Quiet(k) \/ Opens(k) \/ Loud(k)
<1>1. CASE UNCHANGED vars
  <2>1. /\ session' = session /\ drafts' = drafts /\ rounds' = rounds /\ published' = published
        /\ ads' = ads /\ h' = h /\ received' = received /\ aborts' = aborts
    BY <1>1 DEF vars
  <2>2. TablesInv' /\ Distinct' /\ (h \in [Workers -> Calls])'
    BY <2>1 DEF IInv, TablesInv, GoodRows, Distinct, DraftRows, Images, Rounds, RoundRows,
                SessionRows, Contexts, AdRows, Shown, Offered, Complete, Calls
  <2>3. ASSUME NEW k \in Workers
        PROVE  CallInv(h[k])'
    <3>1. CallInv(h[k])
      BY DEF IInv
    <3>2. QED
      BY <2>1, <3>1 DEF CallInv, CopyInv, PollInv, PublishInv, Calls, DraftRows, Images, Rounds,
                        SessionRows, Contexts, Shown, Offered, Complete, Undecided, Current
  <2>4. Ledger!Legal'
    BY <2>1, LegalIs DEF IInv
  <2>5. QED
    BY <1>1, <2>2, <2>3, <2>4 DEF IInv
<1>2. ASSUME NEW k \in Workers, Quiet(k) \/ (Opens(k) /\ IInv') \/ Loud(k)
      PROVE  IInv'
  BY <1>2, QuietKeeps, CmsAcceptsKeeps, CmsAnswerUnusableKeeps, PairKeeps, RecordPublishKeeps
     DEF Loud
<1>3. ASSUME NEW k \in Workers,
             \/ \E kind \in Kinds : Receive(k, kind)
             \/ Loads(k) \/ Questions(k) \/ Texts(k) \/ Photos(k)
             \/ Generation(k) \/ Publishing(k) \/ Abort(k)
      PROVE  Quiet(k) \/ (Opens(k) /\ IInv') \/ Loud(k)
  <2>1. CASE \E kind \in Kinds : Receive(k, kind)
    BY <2>1, ReceiveQuiet
  <2>2. CASE Loads(k) \/ Questions(k) \/ Texts(k) \/ Photos(k) \/ Abort(k)
    BY <2>2, LoadsQuiet, QuestionsCommit, TextsCommit, PhotosCommit, CommitsQuiet, AbortQuiet
  <2>3. CASE Generation(k)
    BY <2>3, PlannerAsksQuiet, ResumesQuiet, SubmitFailsCommits, StartGenerationKeeps,
       PollFailsCommits, CommitsQuiet DEF Generation, Loud
  <2>4. CASE Publishing(k)
    BY <2>4, PublishingQuiet DEF Publishing, Loud
  <2>5. QED
    BY <1>3, <2>1, <2>2, <2>3, <2>4
<1>4. CASE \E k \in Workers :
              \/ \E kind \in Kinds : Receive(k, kind)
              \/ Loads(k) \/ Questions(k) \/ Texts(k) \/ Photos(k)
              \/ Generation(k) \/ Publishing(k) \/ Abort(k)
  BY <1>2, <1>3, <1>4
<1>5. CASE Rest
  BY <1>1, <1>5 DEF Rest
<1>6. QED
  BY <1>1, <1>4, <1>5 DEF Next

\* IInv holds throughout: rows and copies are well-formed, a copy is never
\* newer than its row, each polled round belongs to one call and each
\* unrecorded advertisement to one call.
THEOREM Invariant == Spec => []IInv
<1>1. IInv /\ [Next]_vars => IInv'
  BY Steps
<1>2. QED
  BY InitInv, <1>1, PTL DEF Spec

\* Whatever messages arrive and however the calls overlap, every row and
\* every copy of one is well-formed and refers only to rows that exist.
THEOREM TypeCorrect == Spec => []TypeOK
<1>1. IInv => TypeOK
  BY DEF IInv, TablesInv, GoodRows, RoundRows, AdRows, TypeOK
<1>2. QED
  BY Invariant, <1>1, PTL

\* What a draft shows, what the CMS was given and what the operator may
\* select from is a variant of a pair that completed
\* (wait_for_variant_pair_and_notify, select_variant), although selection,
\* generation and publishing of the same draft overlap.
THEOREM OnlyComplete == Spec => []OnlyCompletePairs
<1>1. IInv => OnlyCompletePairs
  BY DEF IInv, TablesInv, OnlyCompletePairs, Shown, Offered, Complete
<1>2. QED
  BY Invariant, <1>1, PTL

-----------------------------------------------------------------------------
\* The rounds implement a RoundLedger

Running == {h[k].round : k \in {x \in Workers : h[x].pc = "poll"}}

\* A round leaves the running ones with the call that polls it.
LEMMA RunningAfter ==
    ASSUME IInv, NEW k \in Workers, NEW x, h' = [h EXCEPT ![k] = x]
    PROVE  Running' = (IF h[k].pc = "poll" THEN Running \ {h[k].round} ELSE Running)
                         \union (IF x.pc = "poll" THEN {x.round} ELSE {})
<1>1. h'[k] = x /\ \A j \in Workers : j # k => h'[j] = h[j]
  BY DEF IInv
<1>2. ASSUME NEW j \in Workers, h[j].pc = "poll", j # k, h[k].pc = "poll"
      PROVE  h[j].round # h[k].round
  BY <1>2 DEF IInv, Distinct
<1>3. ASSUME NEW r
      PROVE  r \in Running' <=> \/ x.pc = "poll" /\ r = x.round
                                \/ /\ r \in Running
                                   /\ h[k].pc = "poll" => r # h[k].round
  <2>1. r \in Running' <=> \E j \in Workers : h'[j].pc = "poll" /\ r = h'[j].round
    BY DEF Running
  <2>2. r \in Running <=> \E j \in Workers : h[j].pc = "poll" /\ r = h[j].round
    BY DEF Running
  <2>3. QED
    BY <1>1, <1>2, <2>1, <2>2
<1>4. QED
  BY <1>3

\* Every step is a step of the ledger or leaves it alone.
LEMMA LedgerStep ==
    ASSUME IInv, [Next]_vars
    PROVE  [Ledger!Next(DOMAIN drafts')]_(Ledger!ledgerVars)
<1>1. CASE UNCHANGED vars
  BY <1>1 DEF vars, Ledger!ledgerVars
<1>2. ASSUME NEW k \in Workers, NEW x, h' = [h EXCEPT ![k] = x], x.pc # "poll",
             h[k].pc # "poll", rounds' = rounds
      PROVE  UNCHANGED Ledger!ledgerVars
  <2>1. Running' = Running
    BY <1>2, RunningAfter
  <2>2. QED
    BY <1>2, <2>1 DEF Running, Ledger!ledgerVars
<1>3. ASSUME NEW k \in Workers, NEW x, h' = [h EXCEPT ![k] = x], x.pc # "poll",
             h[k].pc = "poll",
             \/ rounds' = rounds
             \/ rounds' = [rounds EXCEPT ![h[k].round].complete = TRUE]
             \/ rounds' = [rounds EXCEPT ![h[k].round].status = "FAILED"]
      PROVE  Ledger!Next(DOMAIN drafts')
  <2>1. Running' = Running \ {h[k].round} /\ h[k].round \in Running
    <3>1. Running' = (Running \ {h[k].round}) \union {}
      BY <1>3, RunningAfter
    <3>2. h[k].round \in Running
      BY <1>3 DEF Running
    <3>3. QED
      BY <3>1, <3>2
  <2>2. PICK r \in Running : r = h[k].round /\ Running' = Running \ {r}
    BY <2>1
  <2>3. Ledger!Leave(r) \/ Ledger!Complete(r) \/ Ledger!Fail(r)
    BY <1>3, <2>2 DEF Running, Ledger!Leave, Ledger!Complete, Ledger!Fail
  <2>4. QED
    BY <2>2, <2>3 DEF Running, Ledger!Next
<1>4. ASSUME NEW k \in Workers, Quiet(k)
      PROVE  [Ledger!Next(DOMAIN drafts')]_(Ledger!ledgerVars)
  BY <1>2, <1>3, <1>4 DEF Quiet
<1>5. ASSUME NEW k \in Workers, Opens(k)
      PROVE  Ledger!Next(DOMAIN drafts')
  <2>1. PICK cur \in DOMAIN drafts' : AddRound(cur)
    BY <1>5 DEF Opens
  <2>2. Running' = Running \union {Len(rounds) + 1}
    <3>1. PICK x : /\ h' = [h EXCEPT ![k] = x] /\ x.pc = "poll" /\ x.round = Len(rounds) + 1
                   /\ h[k].pc = "plan"
      BY <1>5, Zenon DEF Opens
    <3>2. QED
      BY <3>1, RunningAfter
  <2>3. rounds' = Append([r \in DOMAIN rounds |-> Ledger!Supersede(rounds[r], cur)],
                         Ledger!Opened(cur))
    <3>1. LastAttempt(cur) = Cardinality(RoundsOf(cur))
      BY LastAttemptCounts, LegalIs DEF IInv, TablesInv
    <3>2. \A S : Ledger!Cardinality(S) = Cardinality(S)
      BY DEF Ledger!Cardinality, Cardinality
    <3>3. Ledger!Opened(cur) = [draft |-> cur, attempt |-> LastAttempt(cur) + 1,
                                status |-> "ACTIVE", complete |-> FALSE]
      BY <3>1, <3>2 DEF Ledger!Opened, Ledger!Of, RoundsOf
    <3>4. QED
      BY <2>1, <3>3 DEF AddRound, Ledger!Supersede
  <2>4. Ledger!Open(cur)
    BY <2>2, <2>3 DEF Running, Ledger!Open
  <2>5. QED
    BY <2>4 DEF Ledger!Next
<1> IdleCall.pc = "idle"
  BY DEF IdleCall
<1>6. ASSUME NEW k \in Workers, Loud(k)
      PROVE  [Ledger!Next(DOMAIN drafts')]_(Ledger!ledgerVars)
  <2>1. CASE CmsAccepts(k)
    <3>1. PICK x : x = [h[k] EXCEPT !.pc = "record", !.ad = Len(ads) + 1]
      OBVIOUS
    <3>2. h[k] \in Calls /\ h \in [Workers -> Calls]
      BY DEF IInv
    <3>3. h' = [h EXCEPT ![k] = x] /\ x.pc = "record" /\ h[k].pc = "cms" /\ rounds' = rounds
      BY <2>1, <3>1, <3>2 DEF CmsAccepts, Calls
    <3>4. QED
      BY <1>2, <3>3
  <2>2. CASE CmsAnswerUnusable(k)
    <3>1. h' = [h EXCEPT ![k] = IdleCall] /\ h[k].pc = "cms" /\ rounds' = rounds
      BY <2>2 DEF CmsAnswerUnusable, FinishKeeping
    <3>2. QED
      BY <1>2, <3>1
  <2>3. CASE PairCompleted(k) \/ PairFailed(k)
    <3>1. /\ h' = [h EXCEPT ![k] = IdleCall] /\ h[k].pc = "poll"
          /\ \/ rounds' = [rounds EXCEPT ![h[k].round].complete = TRUE]
             \/ rounds' = [rounds EXCEPT ![h[k].round].status = "FAILED"]
      BY <2>3 DEF PairCompleted, PairFailed, AskNothing, Finish
    <3>2. QED
      BY <1>3, <3>1
  <2>4. CASE RecordPublish(k)
    <3>1. h' = [h EXCEPT ![k] = IdleCall] /\ h[k].pc = "record" /\ rounds' = rounds
      BY <2>4 DEF RecordPublish, Resolve, AskNothing, Finish
    <3>2. QED
      BY <1>2, <3>1
  <2>5. QED
    BY <1>6, <2>1, <2>2, <2>3, <2>4 DEF Loud
<1>7. QED
  BY <1>1, <1>4, <1>5, <1>6, Steps

\* The table of variant rounds does what RoundLedger promises
\* (VariantRoundRepository): attempts without a gap, one ACTIVE round at
\* most, each round decided once and by the generation that opened it.
THEOREM LedgerImplemented == Spec => ImplementsLedger
<1>1. Init => Ledger!Init
  <2>1. Init => Ledger!Legal
    BY InitInv DEF IInv
  <2>2. Init => {h[k].round : k \in {x \in Workers : h[x].pc = "poll"}} = {}
    BY DEF Init, IdleCall
  <2>3. QED
    BY <2>1, <2>2 DEF Ledger!Init
<1>2. IInv /\ [Next]_vars => [Ledger!Next(DOMAIN drafts')]_(Ledger!ledgerVars)
  BY LedgerStep
<1>3. QED
  BY Invariant, <1>1, <1>2, PTL DEF Spec, ImplementsLedger


-----------------------------------------------------------------------------
\* The advertisements are accounted for

Recording == {k \in Workers : h[k].pc = "record"}

\* How the number of calls with an unrecorded advertisement changes.
LEMMA RecordingAfter ==
    ASSUME IInv, NEW k \in Workers, NEW x, h' = [h EXCEPT ![k] = x]
    PROVE  LET n == Cardinality(Recording)
           IN  /\ n \in Nat
               /\ Cardinality(Recording') =
                     IF h[k].pc = "record" THEN (IF x.pc = "record" THEN n ELSE n - 1)
                                           ELSE (IF x.pc = "record" THEN n + 1 ELSE n)
<1>1. h'[k] = x /\ \A j \in Workers : j # k => h'[j] = h[j]
  BY DEF IInv
<1>2. IsFiniteSet(Recording) /\ Cardinality(Recording) \in Nat
  <2>1. Recording \subseteq Workers
    BY DEF Recording
  <2>2. QED
    BY <2>1, WorkersAssumption, FS_Subset, FS_CardinalityType
<1>3. CASE h[k].pc = "record" /\ x.pc = "record"
  <2>1. Recording' = Recording
    BY <1>1, <1>3 DEF Recording
  <2>2. QED
    BY <1>2, <1>3, <2>1
<1>4. CASE h[k].pc = "record" /\ x.pc # "record"
  <2>1. Recording' = Recording \ {k} /\ k \in Recording
    BY <1>1, <1>4 DEF Recording
  <2>2. QED
    BY <1>2, <1>4, <2>1, FS_RemoveElement
<1>5. CASE h[k].pc # "record" /\ x.pc = "record"
  <2>1. Recording' = Recording \union {k} /\ k \notin Recording
    BY <1>1, <1>5 DEF Recording
  <2>2. QED
    BY <1>2, <1>5, <2>1, FS_AddElement
<1>6. CASE h[k].pc # "record" /\ x.pc # "record"
  <2>1. Recording' = Recording
    BY <1>1, <1>6 DEF Recording
  <2>2. QED
    BY <1>2, <1>6, <2>1
<1>7. QED
  BY <1>3, <1>4, <1>5, <1>6

\* Every step keeps the account of the advertisements.
LEMMA AccountedStep ==
    ASSUME IInv, AdsAccounted, [Next]_vars
    PROVE  AdsAccounted'
<1> DEFINE n == Cardinality(Recording)
           p == Cardinality(published)
<1>1. /\ AdsAccounted <=> Len(ads) <= p + n + aborts
      /\ AdsAccounted' <=> Len(ads') <= p' + n' + aborts'
  BY DEF AdsAccounted, Recording
<1>2. /\ n \in Nat /\ p \in Nat /\ Len(ads) \in Nat /\ aborts \in Nat
      /\ IsFiniteSet(published)
  <2>1. IsFiniteSet(Recording)
    BY WorkersAssumption, FS_Subset DEF Recording
  <2>2. IsFiniteSet(published) /\ ads \in Seq(AdRows) /\ aborts \in Nat
    BY DEF IInv, TablesInv
  <2>3. QED
    BY <2>1, <2>2, FS_CardinalityType
<1>3. CASE UNCHANGED vars
  BY <1>3 DEF vars, AdsAccounted
<1>4. ASSUME NEW k \in Workers, Quiet(k)
      PROVE  AdsAccounted'
  <2>1. PICK x : h' = [h EXCEPT ![k] = x] /\ x.pc # "record"
    BY <1>4 DEF Quiet
  <2>2. /\ ads' = ads /\ p' = p /\ aborts' \in Nat /\ aborts' >= aborts
        /\ h[k].pc = "record" => aborts' = aborts + 1
    BY <1>4 DEF Quiet
  <2>3. n' = IF h[k].pc = "record" THEN n - 1 ELSE n
    BY <2>1, RecordingAfter
  <2> HIDE DEF n, p
  <2>4. QED
    BY <1>1, <1>2, <2>2, <2>3
<1>5. ASSUME NEW k \in Workers, Opens(k)
      PROVE  AdsAccounted'
  <2>1. PICK x : h' = [h EXCEPT ![k] = x] /\ x.pc = "poll" /\ h[k].pc = "plan"
    BY <1>5 DEF Opens
  <2>2. ads' = ads /\ p' = p /\ aborts' = aborts
    BY <1>5 DEF Opens
  <2>3. n' = n
    BY <2>1, RecordingAfter
  <2> HIDE DEF n, p
  <2>4. QED
    BY <1>1, <1>2, <2>2, <2>3
<1>6. ASSUME NEW k \in Workers, Loud(k)
      PROVE  AdsAccounted'
  <2>0. IdleCall.pc = "idle"
    BY DEF IdleCall
  <2>1. CASE CmsAccepts(k)
    <3>1. PICK x : x = [h[k] EXCEPT !.pc = "record", !.ad = Len(ads) + 1]
      OBVIOUS
    <3>2. h[k] \in Calls /\ h \in [Workers -> Calls]
      BY DEF IInv
    <3>3. h' = [h EXCEPT ![k] = x] /\ x.pc = "record" /\ h[k].pc = "cms"
      BY <2>1, <3>1, <3>2 DEF CmsAccepts, Calls
    <3>4. n' = n + 1
      BY <3>3, RecordingAfter
    <3>5. Len(ads') = Len(ads) + 1 /\ p' = p /\ aborts' = aborts
      BY <2>1 DEF CmsAccepts, IInv, TablesInv
    <3> HIDE DEF n, p
    <3>6. QED
      BY <1>1, <1>2, <3>4, <3>5
  <2>2. CASE CmsAnswerUnusable(k)
    <3>1. h' = [h EXCEPT ![k] = IdleCall] /\ h[k].pc = "cms"
      BY <2>2 DEF CmsAnswerUnusable, FinishKeeping
    <3>2. n' = n
      BY <2>0, <3>1, RecordingAfter
    <3>3. Len(ads') = Len(ads) + 1 /\ p' = p /\ aborts' = aborts + 1
      BY <2>2 DEF CmsAnswerUnusable, IInv, TablesInv
    <3> HIDE DEF n, p
    <3>4. QED
      BY <1>1, <1>2, <3>2, <3>3
  <2>3. CASE PairCompleted(k) \/ PairFailed(k)
    <3>1. /\ h' = [h EXCEPT ![k] = IdleCall] /\ h[k].pc = "poll"
          /\ ads' = ads /\ p' = p /\ aborts' = aborts
      BY <2>3 DEF PairCompleted, PairFailed, AskNothing, Finish
    <3>2. n' = n
      BY <2>0, <3>1, RecordingAfter
    <3> HIDE DEF n, p
    <3>3. QED
      BY <1>1, <1>2, <3>1, <3>2
  <2>4. CASE RecordPublish(k)
    <3>1. /\ h' = [h EXCEPT ![k] = IdleCall] /\ h[k].pc = "record"
          /\ ads' = ads /\ aborts' = aborts
          /\ published' = published \union {[ad |-> h[k].ad, draft |-> h[k].mem.id]}
      BY <2>4 DEF RecordPublish, Resolve, AskNothing, Finish
    <3>2. n' = n - 1
      BY <2>0, <3>1, RecordingAfter
    <3>3. [ad |-> h[k].ad, draft |-> h[k].mem.id] \notin published
      BY <3>1 DEF IInv, CallInv, PublishInv
    <3>4. p' = p + 1
      BY <1>2, <3>1, <3>3, FS_AddElement
    <3> HIDE DEF n, p
    <3>5. QED
      BY <1>1, <1>2, <3>1, <3>2, <3>4
  <2>5. QED
    BY <1>6, <2>1, <2>2, <2>3, <2>4 DEF Loud
<1>7. QED
  BY <1>3, <1>4, <1>5, <1>6, Steps

\* Every advertisement the CMS made (_confirm_publish_to_cms) has a
\* published_ad row, is about to get one, or is the loss of a call that died
\* or was told that the publish had failed.
THEOREM Accounted == Spec => []AdsAccounted
<1>1. ASSUME Init
      PROVE  AdsAccounted
  <2>1. Len(ads) = 0 /\ published = {} /\ Recording = {} /\ aborts = 0
    BY <1>1 DEF Init, IdleCall, Recording
  <2>2. Cardinality(published) = 0 /\ Cardinality(Recording) = 0
    BY <2>1, FS_EmptySet
  <2>3. AdsAccounted <=> Len(ads) <= Cardinality(published) + Cardinality(Recording) + aborts
    BY DEF AdsAccounted, Recording
  <2>4. QED
    BY <2>1, <2>2, <2>3
<1>2. IInv /\ AdsAccounted /\ [Next]_vars => AdsAccounted'
  BY AccountedStep
<1>3. QED
  BY Invariant, <1>1, <1>2, PTL DEF Spec


-----------------------------------------------------------------------------
\* What a preview shows and what a publish marks

\* A step of the others makes no draft PREVIEW_READY or PUBLISHED.
LEMMA StatusStep ==
    ASSUME IInv, [Next]_vars, NEW d \in DOMAIN drafts,
           NEW status \in {"PREVIEW_READY", "PUBLISHED"},
           drafts'[d].status = status, drafts[d].status # status
    PROVE  \E k \in Workers : \/ status = "PREVIEW_READY" /\ PairCompleted(k)
                              \/ status = "PUBLISHED" /\ RecordPublish(k)
<1>1. ~ UNCHANGED vars
  BY DEF vars
<1>2. ~ Follows(drafts')
  BY DEF Follows, Kin
<1>3. PICK k \in Workers : Loud(k)
  BY <1>1, <1>2, Steps DEF Quiet, Opens
<1>4. ~ CmsAccepts(k)
  BY DEF CmsAccepts
<1>5. ~ CmsAnswerUnusable(k)
  <2>1. From(k, Loaded(k)) /\ Loaded(k).mem = h[k].mem
    BY OriginFrom DEF Loaded
  <2>2. Follows(Put(drafts, Loaded(k).row))
    BY <2>1, CommitFollows DEF From
  <2>3. QED
    BY <1>2, <2>2 DEF CmsAnswerUnusable, FinishKeeping
<1>6. ASSUME PairCompleted(k) \/ PairFailed(k)
      PROVE  PairCompleted(k) /\ status = "PREVIEW_READY"
  <2> DEFINE completed == [status |-> "PREVIEW_READY", awaiting |-> FALSE,
                           image |-> <<h[k].round, 1>>]
             failed == [status |-> "DRAFT", awaiting |-> FALSE]
  <2>1. h[k].mem.id # New /\ h[k].round \in Rounds
    <3>1. h[k].pc = "poll" /\ h[k] \in Calls /\ PollInv(h[k])
      BY <1>6 DEF PairCompleted, PairFailed, IInv, CallInv
    <3>2. QED
      BY <3>1, CallFields DEF PollInv, Rounds
  <2>2. Legitimate(completed) /\ Legitimate(failed)
    BY <2>1 DEF Legitimate, Statuses, Images, Slots
  <2>3. CASE PairCompleted(k)
    <3>1. PICK c \in Write(Loaded(k), completed) : drafts' = Put(drafts, c.row)
      BY <2>3 DEF PairCompleted, AskNothing, Finish
    <3> DEFINE rows == Put(drafts, c.row)
               own == h[k].mem.id
    <3>2. /\ \A x \in DOMAIN drafts :
                rows[x] = drafts[x] \/ (x = own /\ rows[x].version > drafts[x].version)
          /\ c.ok => rows[own].status = "PREVIEW_READY"
          /\ ~c.ok => rows = drafts
      <4> HIDE DEF completed
      <4>1. /\ \A x \in DOMAIN drafts :
                  rows[x] = drafts[x] \/ (x = own /\ rows[x].version > drafts[x].version)
            /\ c.ok => rows[own].status = IF "status" \in DOMAIN completed
                                          THEN completed["status"] ELSE drafts[own].status
            /\ ~c.ok => rows = drafts
        BY <2>1, <2>2, OwnUpdate
      <4>2. QED
        BY <4>1 DEF completed
    <3> HIDE DEF rows, own
    <3>3. QED
      BY <2>3, <3>1, <3>2 DEF rows
  <2>4. CASE PairFailed(k)
    <3>1. PICK c \in Write(Loaded(k), failed) : drafts' = Put(drafts, c.row)
      BY <2>4 DEF PairFailed, AskNothing, Finish
    <3> DEFINE rows == Put(drafts, c.row)
               own == h[k].mem.id
    <3>2. /\ \A x \in DOMAIN drafts :
                rows[x] = drafts[x] \/ (x = own /\ rows[x].version > drafts[x].version)
          /\ c.ok => rows[own].status = "DRAFT"
          /\ ~c.ok => rows = drafts
      <4> HIDE DEF failed
      <4>1. /\ \A x \in DOMAIN drafts :
                  rows[x] = drafts[x] \/ (x = own /\ rows[x].version > drafts[x].version)
            /\ c.ok => rows[own].status = IF "status" \in DOMAIN failed
                                          THEN failed["status"] ELSE drafts[own].status
            /\ ~c.ok => rows = drafts
        BY <2>1, <2>2, OwnUpdate
      <4>2. QED
        BY <4>1 DEF failed
    <3> HIDE DEF rows, own
    <3>3. QED
      BY <3>1, <3>2 DEF rows
  <2>5. QED
    BY <1>6, <2>3, <2>4
<1>7. ASSUME RecordPublish(k)
      PROVE  status = "PUBLISHED"
  <2>1. PICK c \in Write(Loaded(k), [status |-> "PUBLISHED"]) : Resolve(k, Put(drafts, c.row))
    BY <1>7 DEF RecordPublish
  <2> DEFINE fields == [status |-> "PUBLISHED"]
             rows == Put(drafts, c.row)
             own == h[k].mem.id
             all == Append(rows, [FreshDraft EXCEPT !.id = Len(rows) + 1])
  <2>2. own # New /\ Legitimate(fields)
    BY <1>7 DEF RecordPublish, IInv, CallInv, PublishInv, Legitimate, Statuses
  <2>3. /\ GoodRows(rows) /\ DOMAIN rows = DOMAIN drafts
        /\ \A x \in DOMAIN drafts :
              rows[x] = drafts[x] \/ (x = own /\ rows[x].version > drafts[x].version)
        /\ c.ok => rows[own].status = "PUBLISHED"
        /\ ~c.ok => rows = drafts
    <3> HIDE DEF fields
    <3>1. /\ GoodRows(rows) /\ DOMAIN rows = DOMAIN drafts
          /\ \A x \in DOMAIN drafts :
                rows[x] = drafts[x] \/ (x = own /\ rows[x].version > drafts[x].version)
          /\ c.ok => rows[own].status = IF "status" \in DOMAIN fields
                                        THEN fields["status"] ELSE drafts[own].status
          /\ ~c.ok => rows = drafts
      BY <2>1, <2>2, OwnUpdate DEF fields
    <3>2. QED
      BY <3>1 DEF fields
  <2>4. drafts' = all
    BY <2>1 DEF Resolve, AskNothing, Finish
  <2> HIDE DEF rows, own, fields
  <2>5. \A x \in DOMAIN rows : all[x] = rows[x]
    BY <2>3, FreshRows
  <2> HIDE DEF all
  <2>6. drafts'[d] = rows[d]
    BY <2>3, <2>4, <2>5
  <2>7. QED
    BY <2>3, <2>6
<1>8. QED
  BY <1>3, <1>4, <1>5, <1>6, <1>7 DEF Loud


\* The last round of a draft has its last attempt.
LEMMA CurrentIsLast ==
    ASSUME IInv, NEW r \in DOMAIN rounds, Current(r)
    PROVE  rounds[r].attempt = LastAttempt(rounds[r].draft)
<1> DEFINE d == rounds[r].draft
           n == Cardinality(RoundsOf(d))
<1>1. rounds \in Seq(RoundRows) /\ LegalTable(rounds)
  BY LegalIs DEF IInv, TablesInv
<1>2. LastAttempt(d) = n /\ n \in Nat /\ IsFiniteSet(RoundsOf(d))
  BY <1>1, LastAttemptCounts, RoundsFinite
<1>3. r \in RoundsOf(d) /\ \A s \in RoundsOf(d) : s \in Nat /\ s <= r
  <2>1. DOMAIN rounds = 1..Len(rounds) /\ Len(rounds) \in Nat
    BY <1>1
  <2>2. QED
    BY <2>1 DEF RoundsOf, Current
<1>4. Earlier(rounds, r) = RoundsOf(d) \ {r}
  <2>1. \A s : s \in Earlier(rounds, r) <=> s \in RoundsOf(d) /\ s < r
    BY DEF Earlier, RoundsOf
  <2>2. \A s \in RoundsOf(d) : s < r <=> s # r
    BY <1>3
  <2>3. \A s : s \in Earlier(rounds, r) <=> s \in RoundsOf(d) \ {r}
    BY <2>1, <2>2
  <2>4. QED
    BY <2>3
<1>5. rounds[r].attempt = Cardinality(Earlier(rounds, r)) + 1
  BY <1>1 DEF LegalTable
<1>6. Cardinality(RoundsOf(d) \ {r}) = n - 1
  BY <1>2, <1>3, FS_RemoveElement
<1> HIDE DEF n
<1>7. QED
  BY <1>2, <1>4, <1>5, <1>6

\* A pair that comes back is shown (mark_preview_ready_if_current) only if
\* no other round of the draft was opened since: the version that the write
\* expects is the one that opening the round gave the draft.
THEOREM LatestPreview == Spec => PreviewIsLatest
<1> DEFINE Shows(d) ==
             drafts'[d].status = "PREVIEW_READY" /\ drafts[d].status # "PREVIEW_READY" =>
                LET r == drafts'[d].image[1]
                IN  rounds[r].status = "ACTIVE" /\ rounds[r].attempt = LastAttempt(d)
<1>1. ASSUME IInv, [Next]_vars, NEW d \in DOMAIN drafts,
             drafts'[d].status = "PREVIEW_READY", drafts[d].status # "PREVIEW_READY"
      PROVE  Shows(d)
  <2>1. PICK k \in Workers : PairCompleted(k)
    BY <1>1, StatusStep
  <2> DEFINE completed == [status |-> "PREVIEW_READY", awaiting |-> FALSE,
                           image |-> <<h[k].round, 1>>]
             own == h[k].mem.id
  <2>2. PICK c \in Write(Loaded(k), completed) : drafts' = Put(drafts, c.row)
    BY <2>1 DEF PairCompleted, AskNothing, Finish
  <2>3. /\ own # New /\ h[k].round \in DOMAIN rounds /\ rounds[h[k].round].draft = own
        /\ h[k].mem.version = drafts[own].version => Current(h[k].round)
    <3>1. h[k].pc = "poll" /\ h[k] \in Calls /\ PollInv(h[k])
      BY <1>1, <2>1 DEF PairCompleted, IInv, CallInv
    <3>2. QED
      BY <3>1, CallFields DEF PollInv
  <2>4. Legitimate(completed)
    BY <2>3 DEF Legitimate, Statuses, Images, Slots, Rounds
  <2>5. /\ \A x \in DOMAIN drafts :
              drafts'[x] = drafts[x] \/ (x = own /\ drafts'[x].version > drafts[x].version)
        /\ c.ok => h[k].mem.version = drafts[own].version /\ drafts'[own].image = <<h[k].round, 1>>
        /\ ~c.ok => drafts' = drafts
    <3> DEFINE rows == Put(drafts, c.row)
    <3> HIDE DEF completed
    <3>1. /\ \A x \in DOMAIN drafts :
                rows[x] = drafts[x] \/ (x = own /\ rows[x].version > drafts[x].version)
          /\ c.ok => /\ h[k].mem.version = drafts[own].version
                     /\ rows[own].image = IF "image" \in DOMAIN completed
                                          THEN completed["image"] ELSE drafts[own].image
          /\ ~c.ok => rows = drafts
      BY <1>1, <2>2, <2>3, <2>4, OwnUpdate
    <3>2. rows = drafts'
      BY <2>2
    <3> HIDE DEF rows
    <3>3. QED
      BY <3>1, <3>2 DEF completed
  <2>6. d = own /\ Current(h[k].round) /\ drafts'[d].image[1] = h[k].round
    BY <1>1, <2>3, <2>5
  <2>7. rounds[h[k].round].attempt = LastAttempt(d)
    BY <1>1, <2>3, <2>6, CurrentIsLast
  <2>8. QED
    BY <2>6, <2>7 DEF Current
<1>2. ASSUME IInv, [Next]_vars
      PROVE  \A d \in DOMAIN drafts : Shows(d)
  <2>1. TAKE d \in DOMAIN drafts
  <2>2. CASE drafts'[d].status = "PREVIEW_READY" /\ drafts[d].status # "PREVIEW_READY"
    BY <1>1, <1>2, <2>2
  <2>3. CASE ~(drafts'[d].status = "PREVIEW_READY" /\ drafts[d].status # "PREVIEW_READY")
    BY <2>3
  <2>4. QED
    BY <2>2, <2>3
<1>3. IInv /\ [Next]_vars => [\A d \in DOMAIN drafts : Shows(d)]_vars
  BY <1>2
<1> HIDE DEF Shows
<1>4. Spec => [][\A d \in DOMAIN drafts : Shows(d)]_vars
  BY Invariant, <1>3, PTL DEF Spec
<1>5. QED
  BY <1>4 DEF PreviewIsLatest, Shows

\* A draft is marked PUBLISHED (_confirm_publish_to_cms) only with the image
\* of the advertisement that is recorded for it in the same step, and that
\* advertisement had no record before.
THEOREM SentIsPublished == Spec => PublishedAsSent
<1> DEFINE Sent(d) ==
             drafts'[d].status = "PUBLISHED" /\ drafts[d].status # "PUBLISHED" =>
                \E p \in published' \ published :
                   p.draft = d /\ ads[p.ad] = [draft |-> d, image |-> drafts'[d].image]
<1>1. ASSUME IInv, [Next]_vars, NEW d \in DOMAIN drafts,
             drafts'[d].status = "PUBLISHED", drafts[d].status # "PUBLISHED"
      PROVE  Sent(d)
  <2>1. PICK k \in Workers : RecordPublish(k)
    BY <1>1, StatusStep
  <2> DEFINE p == [ad |-> h[k].ad, draft |-> h[k].mem.id]
  <2>2. /\ d = h[k].mem.id /\ drafts'[d].image = drafts[d].image
        /\ h[k].mem.version = drafts[d].version /\ h[k].mem.id # New
    BY <1>1, <2>1, RecordPublishRows
  <2>3. /\ h[k].mem = drafts[d]
        /\ ads[h[k].ad] = [draft |-> h[k].mem.id, image |-> h[k].mem.image]
        /\ \A q \in published : q.ad # h[k].ad
    <3>1. h[k].pc = "record" /\ CopyInv(h[k]) /\ PublishInv(h[k])
      BY <1>1, <2>1 DEF RecordPublish, IInv, CallInv
    <3>2. QED
      BY <2>2, <3>1 DEF CopyInv, PublishInv
  <2>4. p \in published' \ published
    BY <2>1, <2>3 DEF RecordPublish
  <2>5. p.draft = d /\ ads[p.ad] = [draft |-> d, image |-> drafts'[d].image]
    BY <2>2, <2>3
  <2>6. QED
    BY <2>4, <2>5
<1>2. ASSUME IInv, [Next]_vars
      PROVE  \A d \in DOMAIN drafts : Sent(d)
  <2>1. TAKE d \in DOMAIN drafts
  <2>2. CASE drafts'[d].status = "PUBLISHED" /\ drafts[d].status # "PUBLISHED"
    BY <1>1, <1>2, <2>2
  <2>3. CASE ~(drafts'[d].status = "PUBLISHED" /\ drafts[d].status # "PUBLISHED")
    BY <2>3
  <2>4. QED
    BY <2>2, <2>3
<1>3. IInv /\ [Next]_vars => [\A d \in DOMAIN drafts : Sent(d)]_vars
  BY <1>2
<1> HIDE DEF Sent
<1>4. Spec => [][\A d \in DOMAIN drafts : Sent(d)]_vars
  BY Invariant, <1>3, PTL DEF Spec
<1>5. QED
  BY <1>4 DEF PublishedAsSent, Sent

-----------------------------------------------------------------------------
\* One call at a time

\* At most one call is at work, as if the queue waited for each call before
\* it dispatched the next one of the operator.
Serial == \A j, k \in Workers : h[j].pc # "idle" /\ h[k].pc # "idle" => j = k

\* The round that the session offers is of the current draft.
SessionFits ==
    session.context[1] = "round" =>
       /\ session.pending = "VARIANT_SELECTION"
       /\ rounds[session.context[2]].draft = session.draft

\* The copy of the session is the row, or the row with the question cleared;
\* a call acts on the current draft, or has made a later one.
CallFits(x) ==
    /\ x.pc \notin {"idle", "session"} =>
          /\ x.row.draft = session.draft
          /\ \/ x.row = session
             \/ /\ x.row.pending = "NONE" /\ x.row.context = NoContext
                /\ session.context[1] # "round"
    /\ x.pc \in {"act", "cms", "record"} => x.mem.id = x.row.draft
    /\ x.pc \in {"plan", "poll"} => x.mem.id = New \/ x.mem.id >= x.row.draft

\* A publish of the draft has been recorded or is about to be: another draft
\* is, or will be, the current one.
Decided(d) == d < session.draft \/ \E k \in Workers : h[k].pc = "record" /\ h[k].mem.id = d

\* The advertisements of a draft: one, and one for each call that died or lost
\* the CMS's answer. Two calls at a time may publish twice without either.
AdsOf(d) == {a \in DOMAIN ads : ads[a].draft = d}
RepeatsExplained == \A d \in DOMAIN drafts : Cardinality(AdsOf(d)) <= 1 + aborts

\* Its inductive form: until it is decided, a draft has one less.
RepeatsCounted ==
    \A d \in Nat :
        \/ Cardinality(AdsOf(d)) <= aborts
        \/ Decided(d) /\ Cardinality(AdsOf(d)) <= aborts + 1

SerialInv ==
    /\ SessionFits
    /\ \A k \in Workers : CallFits(h[k])
    /\ ImageOfOwnRound
    /\ RepeatsCounted

\* What is known of the ids in the session.
LEMMA SessionIds ==
    ASSUME IInv
    PROVE  /\ session \in SessionRows
           /\ session.draft \in Nat /\ session.draft \in {New} \union DOMAIN drafts
           /\ session.context \in Contexts
           /\ \A r \in DOMAIN rounds : rounds[r].draft \in DOMAIN drafts
           /\ session.context[1] = "round" => session.context[2] \in DOMAIN rounds
           /\ \A d \in DOMAIN drafts : d \in Nat /\ d # New
           /\ \A d \in Nat : d \notin DOMAIN drafts /\ d # New => d >= session.draft
<1>1. /\ session \in SessionRows /\ GoodRows(drafts)
      /\ rounds \in Seq(RoundRows)
  BY DEF IInv, TablesInv
<1>2. Len(drafts) \in Nat /\ DOMAIN drafts = 1..Len(drafts)
  BY <1>1 DEF GoodRows
<1>3. \A r \in DOMAIN rounds : rounds[r].draft \in DOMAIN drafts
  <2>1. \A r \in DOMAIN rounds : rounds[r] \in RoundRows
    BY <1>1
  <2>2. QED
    BY <2>1 DEF RoundRows
<1>4. session.draft \in {New} \union DOMAIN drafts /\ session.context \in Contexts
  BY <1>1 DEF SessionRows
<1>5. session.context[1] = "round" => session.context[2] \in DOMAIN rounds
  BY <1>4 DEF Contexts, NoContext, OtherContext, RoundContext, Rounds
<1>6. QED
  BY <1>1, <1>2, <1>3, <1>4, <1>5 DEF New

\* The last commit of a call makes its draft the current one. It offers no
\* round, or goes on to offer the one of the same draft.
LEMMA FinishFits ==
    ASSUME IInv, SessionFits, NEW k \in Workers, CallFits(h[k]),
           h[k].pc \notin {"idle", "session"},
           \A r \in DOMAIN rounds : rounds'[r].draft = rounds[r].draft,
           NEW rows, NEW cur,
           \/ FinishKeeping(k, rows, cur) /\ (session.draft # New => cur = session.draft)
           \/ \E pending \in Pendings, context \in {NoContext, OtherContext} :
                 Finish(k, rows, cur, pending, context)
    PROVE  session'.draft = cur /\ SessionFits'
<1> DEFINE row == h[k].row
<1>1. /\ session \in SessionRows
      /\ \A r \in DOMAIN rounds : rounds[r].draft \in DOMAIN drafts
      /\ session.context[1] = "round" => session.context[2] \in DOMAIN rounds
      /\ New \notin DOMAIN drafts
  BY SessionIds
<1>2. /\ row.draft = session.draft
      /\ row = session \/ (row.context = NoContext /\ session.context[1] # "round")
  BY DEF CallFits
<1> HIDE DEF row
<1>3. CASE FinishKeeping(k, rows, cur) /\ (session.draft # New => cur = session.draft)
  <2>1. CASE session' = [session EXCEPT !.draft = IF cur # row.draft THEN cur ELSE @]
    <3>1. /\ session'.draft = cur
          /\ session'.pending = session.pending /\ session'.context = session.context
      BY <1>1, <1>2, <2>1 DEF SessionRows
    <3>2. QED
      BY <1>1, <1>3, <3>1 DEF SessionFits
  <2>2. CASE session' = [NoSession EXCEPT !.draft = cur]
    BY <2>2 DEF NoSession, NoContext, SessionFits
  <2>3. QED
    BY <1>3, <2>1, <2>2 DEF FinishKeeping, row
<1>4. ASSUME NEW pending \in Pendings, NEW context \in {NoContext, OtherContext},
             Finish(k, rows, cur, pending, context)
      PROVE  session'.draft = cur /\ SessionFits'
  <2>1. \/ /\ session'.draft = IF cur # row.draft THEN cur ELSE session.draft
           /\ session'.context = IF context # row.context \/ context = OtherContext
                                 THEN context ELSE session.context
        \/ session' = [draft |-> cur, pending |-> pending, context |-> context]
    BY <1>4 DEF Finish, Saved, ByColumn, row
  <2>2. session'.draft = cur /\ session'.context[1] # "round"
    BY <1>2, <2>1 DEF NoContext, OtherContext
  <2>3. QED
    BY <2>2 DEF SessionFits
<1>5. QED
  BY <1>3, <1>4

\* How many advertisements a draft has.
LEMMA AdsOfFinite ==
    ASSUME IInv, NEW d
    PROVE  IsFiniteSet(AdsOf(d)) /\ Cardinality(AdsOf(d)) \in Nat
<1>1. ads \in Seq(AdRows)
  BY DEF IInv, TablesInv
<1>2. DOMAIN ads = 1..Len(ads) /\ Len(ads) \in Nat
  BY <1>1
<1>3. IsFiniteSet(DOMAIN ads)
  BY <1>2, FS_Interval
<1>4. QED
  BY <1>3, FS_Subset, FS_CardinalityType DEF AdsOf

\* A step forgets no decision, or is an abort; a publish of d is decided, or
\* the step is an abort.
DecisionsStay == \A d \in Nat : Decided(d) => Decided(d)'
Remembers == aborts' > aborts \/ DecisionsStay
Settles(d) == aborts' > aborts \/ Decided(d)'

\* A bound that grows still bounds.
LEMMA BoundGrows ==
    ASSUME NEW n \in Nat, NEW a \in Nat, NEW b \in Nat, b >= a
    PROVE  /\ n <= a => n <= b /\ n + 1 <= b + 1
           /\ n <= a + 1 => n <= b + 1
           /\ b > a /\ n <= a => n + 1 <= b
           /\ b > a /\ n <= a + 1 => n <= b
OBVIOUS

\* A step that makes no advertisement keeps the count, unless it forgets a
\* publish that is not recorded without being an abort.
LEMMA CountKept ==
    ASSUME IInv, RepeatsCounted, ads' = ads, aborts' \in Nat, aborts' >= aborts,
           Remembers
    PROVE  RepeatsCounted'
<1>1. ASSUME NEW d \in Nat
      PROVE  \/ Cardinality(AdsOf(d))' <= aborts'
             \/ Decided(d)' /\ Cardinality(AdsOf(d))' <= aborts' + 1
  <2>1. PICK n : n = Cardinality(AdsOf(d))
    OBVIOUS
  <2>2. n \in Nat /\ aborts \in Nat
    BY <2>1, AdsOfFinite DEF IInv, TablesInv
  <2>3. AdsOf(d)' = AdsOf(d)
    BY DEF AdsOf
  <2>4. Cardinality(AdsOf(d))' = n
    BY <2>1, <2>3
  <2>5. n <= aborts \/ (Decided(d) /\ n <= aborts + 1)
    BY <2>1 DEF RepeatsCounted
  <2>6. CASE n <= aborts
    <3>1. n <= aborts'
      BY <2>2, <2>6, BoundGrows, Zenon
    <3>2. QED
      BY <2>4, <3>1
  <2>7. CASE Decided(d) /\ n <= aborts + 1
    <3>1. n <= aborts + 1
      BY <2>7, Zenon
    <3>2. n <= aborts' + 1 /\ (aborts' > aborts => n <= aborts')
      BY <2>2, <3>1, BoundGrows, Zenon
    <3>3. QED
      BY <2>4, <2>7, <3>2, Zenon DEF Remembers, DecisionsStay
  <2>8. QED
    BY <2>5, <2>6, <2>7
<1>2. QED
  BY <1>1 DEF RepeatsCounted

\* A step that gives the CMS an advertisement of draft d and makes the
\* publish decided, or counts as an abort, keeps the count.
LEMMA CountGrows ==
    ASSUME IInv, RepeatsCounted, NEW ad, ads' = Append(ads, ad),
           aborts' \in Nat, aborts' >= aborts,
           ~Decided(ad.draft),
           Settles(ad.draft),
           DecisionsStay
    PROVE  RepeatsCounted'
<1> DEFINE n == Len(ads)
<1>1. /\ ads \in Seq(AdRows) /\ n \in Nat /\ DOMAIN ads = 1..n
      /\ aborts \in Nat
  BY DEF IInv, TablesInv
<1>2. /\ DOMAIN ads' = 1..(n + 1) /\ ads'[n + 1] = ad
      /\ \A a \in DOMAIN ads : ads'[a] = ads[a]
  BY <1>1
<1> HIDE DEF n
<1>3. ASSUME NEW d \in Nat
      PROVE  \/ Cardinality(AdsOf(d))' <= aborts'
             \/ Decided(d)' /\ Cardinality(AdsOf(d))' <= aborts' + 1
  <2>1. PICK m : m = Cardinality(AdsOf(d))
    OBVIOUS
  <2>2. m \in Nat /\ IsFiniteSet(AdsOf(d))
    BY <2>1, AdsOfFinite
  <2>3. m <= aborts \/ (Decided(d) /\ m <= aborts + 1)
    BY <2>1 DEF RepeatsCounted
  <2>4. CASE d = ad.draft
    <3>1. AdsOf(d)' = AdsOf(d) \union {n + 1} /\ n + 1 \notin AdsOf(d)
      BY <1>1, <1>2, <2>4 DEF AdsOf
    <3>2. Cardinality(AdsOf(d))' = m + 1
      BY <2>1, <2>2, <3>1, FS_AddElement
    <3>3. m <= aborts
      BY <2>3, <2>4
    <3>4. m + 1 <= aborts' + 1 /\ (aborts' > aborts => m + 1 <= aborts')
      BY <1>1, <2>2, <3>3, BoundGrows, Zenon
    <3>5. QED
      BY <2>4, <3>2, <3>4, Zenon DEF Settles
  <2>5. CASE d # ad.draft
    <3>1. AdsOf(d)' = AdsOf(d)
      BY <1>1, <1>2, <2>5 DEF AdsOf
    <3>2. /\ m <= aborts => m <= aborts'
          /\ m <= aborts + 1 => m <= aborts' + 1
          /\ aborts' > aborts /\ m <= aborts + 1 => m <= aborts'
      BY <1>1, <2>2, BoundGrows, Zenon
    <3>3. QED
      BY <2>1, <2>3, <3>1, <3>2, Zenon DEF DecisionsStay
  <2>6. QED
    BY <2>4, <2>5
<1>4. QED
  BY <1>3 DEF RepeatsCounted

\* Rounds stay with their drafts, and a draft goes on to show what it showed,
\* or nothing, or a round of its own.
ShowsOwn ==
    /\ \A r \in DOMAIN rounds : r \in DOMAIN rounds' /\ rounds'[r].draft = rounds[r].draft
    /\ \A d \in DOMAIN drafts' :
          LET image == drafts'[d].image
          IN  \/ image = NoImage
              \/ d \in DOMAIN drafts /\ image = drafts[d].image
              \/ rounds'[image[1]].draft = d

\* What any step of the only call does: nor does it go back to an older draft.
Advances == session.draft <= session'.draft /\ ShowsOwn

\* The invariant after a step of the only call at work.
LEMMA Turned ==
    ASSUME IInv, SerialInv, Serial, NEW k \in Workers, h[k].pc # "idle",
           NEW x, h' = [h EXCEPT ![k] = x], CallFits(x)', SessionFits', Advances, RepeatsCounted'
    PROVE  SerialInv'
<1>1. /\ h \in [Workers -> Calls]
      /\ \A d \in DOMAIN drafts : drafts[d].image \in Images
  <2>1. \A d \in DOMAIN drafts : drafts[d] \in DraftRows(DOMAIN drafts)
    BY DEF IInv, TablesInv, GoodRows
  <2>2. QED
    BY <2>1 DEF DraftRows, IInv
<1>2. \A j \in Workers : CallFits(h[j])'
  <2>1. TAKE j \in Workers
  <2>2. CASE j = k
    BY <1>1, <2>2
  <2>3. CASE j # k
    <3>1. h'[j] = h[j] /\ h[j].pc = "idle"
      BY <1>1, <2>3 DEF Serial
    <3>2. QED
      BY <3>1 DEF CallFits
  <2>4. QED
    BY <2>2, <2>3
<1>3. ImageOfOwnRound'
  <2>1. ASSUME NEW d \in DOMAIN drafts', drafts'[d].image # NoImage
        PROVE  rounds'[drafts'[d].image[1]].draft = d
    <3>1. CASE d \in DOMAIN drafts /\ drafts'[d].image = drafts[d].image
      <4>1. drafts[d].image[1] \in DOMAIN rounds
        BY <1>1, <2>1, <3>1 DEF Images, Rounds
      <4>2. rounds[drafts[d].image[1]].draft = d
        BY <2>1, <3>1 DEF SerialInv, ImageOfOwnRound
      <4>3. QED
        BY <3>1, <4>1, <4>2 DEF Advances, ShowsOwn
    <3>2. CASE rounds'[drafts'[d].image[1]].draft = d
      BY <3>2
    <3>3. QED
      BY <2>1, <3>1, <3>2 DEF Advances, ShowsOwn
  <2>2. QED
    BY <2>1 DEF ImageOfOwnRound
<1>4. QED
  BY <1>2, <1>3 DEF SerialInv

\* A call that has no publish to record forgets none.
LEMMA NothingForgotten ==
    ASSUME IInv, NEW k \in Workers, h[k].pc # "record",
           NEW x, h' = [h EXCEPT ![k] = x], session'.draft \in Nat, session.draft <= session'.draft
    PROVE  DecisionsStay
<1>1. h \in [Workers -> Calls] /\ session.draft \in Nat
  BY SessionIds DEF IInv
<1>2. ASSUME NEW d \in Nat, Decided(d)
      PROVE  Decided(d)'
  <2>1. CASE d < session.draft
    <3>1. d < session'.draft
      BY <1>1, <2>1
    <3>2. QED
      BY <3>1 DEF Decided
  <2>2. ASSUME NEW j \in Workers, h[j].pc = "record", h[j].mem.id = d
        PROVE  Decided(d)'
    <3>1. h'[j] = h[j]
      BY <1>1, <2>2
    <3>2. QED
      BY <2>2, <3>1 DEF Decided
  <2>3. QED
    BY <1>2, <2>1, <2>2 DEF Decided
<1>3. QED
  BY <1>2 DEF DecisionsStay

\* The invariant after a step of the only call that publishes nothing.
LEMMA QuietTurn ==
    ASSUME IInv, SerialInv, Serial, NEW k \in Workers, h[k].pc \notin {"idle", "record"},
           NEW x, h' = [h EXCEPT ![k] = x], CallFits(x)', SessionFits', Advances,
           session'.draft \in Nat, ads' = ads, aborts' = aborts
    PROVE  SerialInv'
<1>1. DecisionsStay
  BY NothingForgotten DEF Advances
<1>2. aborts' \in Nat /\ aborts' >= aborts
  BY DEF IInv, TablesInv
<1>3. RepeatsCounted'
  BY <1>1, <1>2, CountKept DEF Remembers, SerialInv
<1>4. QED
  BY <1>3, Turned

\* Drafts that keep their images do.
LEMMA SameShowsOwn ==
    ASSUME KeepsImages(drafts'),
           \A r \in DOMAIN rounds : r \in DOMAIN rounds' /\ rounds'[r].draft = rounds[r].draft
    PROVE  ShowsOwn
BY DEF ShowsOwn, KeepsImages

\* The invariant after a step that changes only the call itself.
LEMMA GoesOn ==
    ASSUME IInv, SerialInv, NEW k \in Workers, h[k].pc # "record",
           NEW x, h' = [h EXCEPT ![k] = x], CallFits(x),
           UNCHANGED <<session, drafts, rounds, ads, aborts>>
    PROVE  SerialInv'
<1>1. h \in [Workers -> Calls] /\ session.draft \in Nat
  BY SessionIds DEF IInv
<1>2. \A j \in Workers : CallFits(h[j])'
  BY <1>1 DEF SerialInv, CallFits
<1>3. SessionFits' /\ ImageOfOwnRound'
  <2>1. session' = session /\ drafts' = drafts /\ rounds' = rounds
    OBVIOUS
  <2>2. SessionFits'
    BY <2>1 DEF SerialInv, SessionFits
  <2>3. ImageOfOwnRound'
    BY <2>1 DEF SerialInv, ImageOfOwnRound
  <2>4. QED
    BY <2>2, <2>3
<1>4. DecisionsStay
  <2>1. session'.draft \in Nat /\ session.draft <= session'.draft
    BY <1>1
  <2>2. QED
    BY <2>1, NothingForgotten
<1>5. aborts' \in Nat /\ aborts' >= aborts
  BY DEF IInv, TablesInv
<1>6. RepeatsCounted'
  BY <1>4, <1>5, CountKept DEF Remembers, SerialInv
<1>7. QED
  BY <1>2, <1>3, <1>6 DEF SerialInv

\* The invariant after the last commit of the only call, if that offers no
\* new round.
LEMMA FinishTurn ==
    ASSUME IInv, SerialInv, Serial, NEW k \in Workers,
           h[k].pc \notin {"idle", "session", "record"},
           ads' = ads, aborts' = aborts, ShowsOwn,
           NEW rows, NEW cur \in Nat, session.draft <= cur,
           \/ FinishKeeping(k, rows, cur) /\ (session.draft # New => cur = session.draft)
           \/ \E pending \in Pendings, context \in {NoContext, OtherContext} :
                 Finish(k, rows, cur, pending, context)
    PROVE  SerialInv'
<1>1. SessionFits /\ CallFits(h[k])
  BY DEF SerialInv
<1>2. \A r \in DOMAIN rounds : rounds'[r].draft = rounds[r].draft
  BY DEF ShowsOwn
<1>3. session'.draft = cur /\ SessionFits'
  BY <1>1, <1>2, FinishFits
<1>4. h' = [h EXCEPT ![k] = IdleCall]
  BY DEF FinishKeeping, Finish
<1>5. CallFits(IdleCall)'
  BY DEF CallFits, IdleCall
<1>6. QED
  BY <1>3, <1>4, <1>5, QuietTurn DEF Advances

\* What the call at work knows: its session is the row, up to the question
\* it cleared, and the draft of its commit is the current or a later one.
LEMMA AtWork ==
    ASSUME IInv, SerialInv, NEW k \in Workers, h[k].pc \notin {"idle", "session"}
    PROVE  /\ h[k].row.draft = session.draft
           /\ \/ h[k].row = session
              \/ /\ h[k].row.pending = "NONE" /\ h[k].row.context = NoContext
                 /\ session.context[1] # "round"
           /\ h[k].pc \in {"act", "cms", "record"} => h[k].mem.id = session.draft
           /\ h[k].pc \in {"plan", "poll"} => h[k].mem.id = New \/ h[k].mem.id >= session.draft
BY DEF SerialInv, CallFits

\* The session row with the question cleared.
LEMMA ClearedSession ==
    ASSUME NEW s \in SessionRows
    PROVE  /\ Cleared(s).draft = s.draft /\ Cleared(s).pending = "NONE"
           /\ Cleared(s).context = NoContext
BY DEF Cleared, SessionRows

\* A call that cleared the question it loaded leaves a session that fits.
LEMMA ClearingFits ==
    ASSUME IInv, SerialInv, NEW k \in Workers, h[k].pc \notin {"idle", "session"},
           NEW row, \A r \in DOMAIN rounds : rounds'[r].draft = rounds[r].draft,
           \/ row = h[k].row /\ session' = session
           \/ /\ row = Cleared(h[k].row)
              /\ session' = IF h[k].row.pending # "NONE" THEN Cleared(session) ELSE session
    PROVE  /\ session'.draft = session.draft /\ row.draft = session.draft
           /\ SessionFits'
           /\ \/ row = session'
              \/ row.pending = "NONE" /\ row.context = NoContext /\ session'.context[1] # "round"
<1>1. /\ h[k].row.draft = session.draft
      /\ \/ h[k].row = session
         \/ /\ h[k].row.pending = "NONE" /\ h[k].row.context = NoContext
            /\ session.context[1] # "round"
  BY AtWork
<1>2. /\ session \in SessionRows /\ h[k].row \in SessionRows
      /\ session.context[1] = "round" => session.context[2] \in DOMAIN rounds
  BY SessionIds, CallFields DEF IInv
<1>3. /\ Cleared(session).draft = session.draft /\ Cleared(session).context = NoContext
      /\ Cleared(h[k].row).draft = session.draft
      /\ Cleared(h[k].row).pending = "NONE" /\ Cleared(h[k].row).context = NoContext
  BY <1>1, <1>2, ClearedSession
<1>4. NoContext[1] # "round"
  BY DEF NoContext
<1>5. SessionFits
  BY DEF SerialInv
<1>6. CASE session' = session
  <2>1. SessionFits'
    BY <1>2, <1>5, <1>6 DEF SessionFits
  <2>2. QED
    BY <1>1, <1>3, <1>5, <1>6, <2>1 DEF SessionFits
<1>7. CASE session' = Cleared(session) /\ row = Cleared(h[k].row)
  BY <1>3, <1>4, <1>7 DEF SessionFits
<1>8. QED
  BY <1>6, <1>7

\* A commit of the draft, or of a new one, by the only call.
LEMMA CommitsTurn ==
    ASSUME IInv, IInv', SerialInv, Serial, NEW k \in Workers, Commits(k)
    PROVE  SerialInv'
<1>1. PICK c : /\ From(k, c)
               /\ \/ Ends(k, c)
                  \/ /\ h[k].pc = "act"
                     /\ \E kind \in AllKinds, cleared \in BOOLEAN :
                           CommitAndPlan(k, c, kind, cleared)
  BY DEF Commits
<1> DEFINE rows == Put(drafts, c.row)
           cur == IdIn(drafts, c.mem)
<1>2. /\ h[k].pc \in {"act", "plan", "poll", "cms"}
      /\ rounds' = rounds /\ ads' = ads /\ aborts' = aborts
  BY DEF Commits, Kept
<1>3. /\ KeepsImages(rows) /\ cur \in DOMAIN rows /\ cur # New
      /\ \/ cur \notin DOMAIN drafts /\ c.mem.id = New
         \/ cur = h[k].mem.id /\ c.mem.id = h[k].mem.id /\ cur \in DOMAIN drafts
  BY <1>1, CommitKeepsImages DEF From
<1>4. drafts' = rows
  BY <1>1 DEF Ends, FinishKeeping, Finish, CommitAndPlan
<1>5. cur \in Nat /\ session.draft \in Nat
  <2>1. GoodRows(drafts)'
    BY DEF IInv, TablesInv
  <2>2. \A d \in DOMAIN drafts' : d \in Nat
    BY <2>1 DEF GoodRows
  <2>3. QED
    BY <1>3, <1>4, <2>2, SessionIds
<1>6. session.draft <= cur
  <2>1. CASE cur \notin DOMAIN drafts
    BY <1>3, <1>5, <2>1, SessionIds
  <2>2. CASE cur = h[k].mem.id
    BY <1>2, <1>3, <1>5, <2>2, AtWork
  <2>3. QED
    BY <1>3, <2>1, <2>2
<1>7. h \in [Workers -> Calls]
  BY DEF IInv
<1>8. CASE Ends(k, c)
  <2>1. \/ /\ h[k].pc \in {"act", "cms"} /\ c.mem.id = h[k].mem.id
           /\ FinishKeeping(k, rows, cur)
        \/ \E pending \in Pendings, context \in {NoContext, OtherContext} :
              Finish(k, rows, cur, pending, context)
    BY <1>8 DEF Ends
  <2>2. h[k].pc \in {"act", "cms"} /\ c.mem.id = h[k].mem.id =>
           (session.draft # New => cur = session.draft)
    BY <1>3, AtWork
  <2> HIDE DEF rows, cur
  <2>3. ShowsOwn
    BY <1>2, <1>3, <1>4, SameShowsOwn
  <2>4. QED
    BY <1>2, <1>5, <1>6, <2>1, <2>2, <2>3, FinishTurn
<1>9. ASSUME h[k].pc = "act",
             NEW kind \in AllKinds, NEW cleared \in BOOLEAN, CommitAndPlan(k, c, kind, cleared)
      PROVE  SerialInv'
  <2> PICK mem : mem = [c.mem EXCEPT !.id = cur]
    OBVIOUS
  <2> PICK row : row = IF cleared THEN Cleared(h[k].row) ELSE h[k].row
    OBVIOUS
  <2>1. PICK x :
           /\ x = [h[k] EXCEPT !.pc = "plan", !.kind = kind, !.mem = mem, !.row = row]
           /\ h' = [h EXCEPT ![k] = x]
    BY <1>7, <1>9 DEF CommitAndPlan, Cleared
  <2>2. mem.id = cur
    BY <1>1 DEF From, Copies, DraftRows
  <2>3. x.pc = "plan" /\ x.mem = mem /\ x.row = row
    BY <1>7, <2>1 DEF Calls
  <2>4. session' = IF cleared /\ h[k].row.pending # "NONE" THEN Cleared(session) ELSE session
    BY <1>9 DEF CommitAndPlan, Cleared
  <2> HIDE DEF rows, cur
  <2>5. /\ session'.draft = session.draft /\ row.draft = session.draft
        /\ SessionFits'
        /\ \/ row = session'
           \/ row.pending = "NONE" /\ row.context = NoContext /\ session'.context[1] # "round"
    <3>1. \/ row = h[k].row /\ session' = session
          \/ /\ row = Cleared(h[k].row)
             /\ session' = IF h[k].row.pending # "NONE" THEN Cleared(session) ELSE session
      BY <2>4
    <3>2. QED
      BY <1>2, <3>1, ClearingFits
  <2>6. CallFits(x)'
    BY <1>6, <2>2, <2>3, <2>5 DEF CallFits
  <2>7. Advances
    BY <1>2, <1>3, <1>4, <1>5, <2>5, SameShowsOwn DEF Advances
  <2>8. QED
    BY <1>2, <1>5, <2>1, <2>5, <2>6, <2>7, QuietTurn
<1>10. QED
  BY <1>1, <1>8, <1>9

\* Receiving, loading, resuming and calling the CMS change only the call.
LEMMA GoingOnTurns ==
    ASSUME IInv, SerialInv, NEW k \in Workers,
           \/ \E kind \in Kinds : Receive(k, kind)
           \/ Loads(k) \/ Resumes(k) \/ CallCms(k)
    PROVE  SerialInv'
<1>1. h \in [Workers -> Calls] /\ h[k] \in Calls /\ CallFits(h[k])
  BY DEF IInv, SerialInv
<1>2. CASE \E kind \in Kinds : Receive(k, kind)
  <2>1. PICK kind \in Kinds : Receive(k, kind)
    BY <1>2
  <2> DEFINE x == [IdleCall EXCEPT !.pc = "session", !.kind = kind]
  <2>2. x.pc = "session"
    BY DEF IdleCall
  <2>3. /\ h[k].pc = "idle" /\ h' = [h EXCEPT ![k] = x]
        /\ UNCHANGED <<session, drafts, rounds, ads, aborts>>
    BY <2>1 DEF Receive
  <2> HIDE DEF x
  <2>4. CallFits(x)
    BY <2>2 DEF CallFits
  <2>5. QED
    BY <2>3, <2>4, GoesOn
<1>3. CASE LoadSession(k)
  <2> DEFINE x == [h[k] EXCEPT !.pc = "draft", !.row = session]
  <2>1. /\ h[k].pc = "session" /\ h' = [h EXCEPT ![k] = x]
        /\ UNCHANGED <<session, drafts, rounds, ads, aborts>>
    BY <1>1, <1>3 DEF LoadSession, Kept
  <2>2. x.pc = "draft" /\ x.row = session
    BY <1>1 DEF Calls
  <2> HIDE DEF x
  <2>3. CallFits(x)
    BY <2>2 DEF CallFits
  <2>4. QED
    BY <2>1, <2>3, GoesOn
<1>4. CASE LoadDraft(k)
  <2> PICK mem : mem = IF h[k].row.draft = New THEN FreshDraft ELSE drafts[h[k].row.draft]
    OBVIOUS
  <2> DEFINE x == [h[k] EXCEPT !.pc = "act", !.mem = mem]
  <2>1. /\ h[k].pc = "draft" /\ h' = [h EXCEPT ![k] = x]
        /\ UNCHANGED <<session, drafts, rounds, ads, aborts>>
    BY <1>1, <1>4 DEF LoadDraft, Kept
  <2>2. x.pc = "act" /\ x.row = h[k].row /\ x.mem = mem
    BY <1>1 DEF Calls
  <2>3. mem.id = h[k].row.draft
    <3>1. h[k].row.draft \in {New} \union DOMAIN drafts
      BY CallFields DEF IInv, SessionRows
    <3>2. \A d \in DOMAIN drafts : drafts[d].id = d
      BY DEF IInv, TablesInv, GoodRows
    <3>3. QED
      BY <3>1, <3>2 DEF FreshDraft
  <2> HIDE DEF x
  <2>4. CallFits(x)
    BY <1>1, <2>1, <2>2, <2>3 DEF CallFits
  <2>5. QED
    BY <2>1, <2>4, GoesOn
<1>5. CASE Resumes(k)
  <2>1. PICK mem : mem.id = New /\ h' = [h EXCEPT ![k].mem = mem]
    BY <1>5 DEF Resumes
  <2> DEFINE x == [h[k] EXCEPT !.mem = mem]
  <2>2. /\ h[k].pc = "plan" /\ h' = [h EXCEPT ![k] = x]
        /\ UNCHANGED <<session, drafts, rounds, ads, aborts>>
    BY <1>1, <1>5, <2>1 DEF Resumes, Kept
  <2>3. x.pc = "plan" /\ x.row = h[k].row /\ x.mem = mem
    BY <1>1, <2>2 DEF Calls
  <2> HIDE DEF x
  <2>4. CallFits(x)
    BY <1>1, <2>1, <2>2, <2>3 DEF CallFits
  <2>5. QED
    BY <2>2, <2>4, GoesOn
<1>6. CASE CallCms(k)
  <2> DEFINE x == [h[k] EXCEPT !.pc = "cms"]
  <2>1. /\ h[k].pc = "act" /\ h' = [h EXCEPT ![k] = x]
        /\ UNCHANGED <<session, drafts, rounds, ads, aborts>>
    BY <1>1, <1>6 DEF CallCms, Confirms, Acts, Kept
  <2>2. x.pc = "cms" /\ x.row = h[k].row /\ x.mem = h[k].mem
    BY <1>1 DEF Calls
  <2> HIDE DEF x
  <2>3. CallFits(x)
    BY <1>1, <2>1, <2>2 DEF CallFits
  <2>4. QED
    BY <2>1, <2>3, GoesOn
<1>7. QED
  BY <1>2, <1>3, <1>4, <1>5, <1>6 DEF Loads

\* The planner's question leaves the draft.
LEMMA PlannerAsksTurn ==
    ASSUME IInv, SerialInv, Serial, NEW k \in Workers, PlannerAsks(k)
    PROVE  SerialInv'
<1>1. /\ h[k].pc = "plan" /\ h[k].mem.id # New
      /\ Finish(k, drafts, h[k].mem.id, "MISSING_INFO", OtherContext)
      /\ rounds' = rounds /\ ads' = ads /\ aborts' = aborts
  BY DEF PlannerAsks, AskMissing, Kept
<1>2. h[k].mem.id \in Nat /\ session.draft <= h[k].mem.id
  <2>1. h[k].mem.id \in Ids /\ session.draft \in Nat
    BY CallFields, SessionIds DEF IInv
  <2>2. QED
    BY <1>1, <2>1, AtWork, SessionIds DEF Ids
<1>3. drafts' = drafts
  BY <1>1 DEF Finish
<1>4. ShowsOwn
  BY <1>1, <1>3, SameShowsOwn DEF KeepsImages
<1>5. "MISSING_INFO" \in Pendings
  BY DEF Pendings
<1>6. QED
  BY <1>1, <1>2, <1>4, <1>5, FinishTurn

\* The round that the operator selects from is of the current draft.
LEMMA SelectVariantTurn ==
    ASSUME IInv, SerialInv, Serial, NEW k \in Workers, SelectVariant(k)
    PROVE  SerialInv'
<1> DEFINE r == h[k].row.context[2]
           d == h[k].mem.id
<1>1. /\ h[k].pc = "act" /\ h[k].row.pending = "VARIANT_SELECTION"
      /\ h[k].row.context[1] = "round"
      /\ rounds' = rounds /\ ads' = ads /\ aborts' = aborts
  BY DEF SelectVariant, Acts, Kept
<1>2. h[k].row = session /\ d = session.draft
  BY <1>1, AtWork
<1>3. /\ r \in DOMAIN rounds /\ rounds[r].draft = d
      /\ d \in DOMAIN drafts /\ d # New /\ d \in Nat
  BY <1>1, <1>2, SessionIds DEF SerialInv, SessionFits
<1>4. PICK slot \in Slots : \E c \in Write(Loaded(k), [image |-> <<r, slot>>]) :
         IF c.ok THEN AskNothing(k, Put(drafts, c.row), c.mem.id)
                 ELSE FinishKeeping(k, Put(drafts, c.row), c.mem.id)
  BY DEF SelectVariant
<1> DEFINE image == <<r, slot>>
           fields == [image |-> image]
<1>5. Legitimate(fields)
  BY <1>3 DEF Legitimate, Images, Rounds
<1>6. PICK c \in Write(Loaded(k), fields) :
         IF c.ok THEN AskNothing(k, Put(drafts, c.row), c.mem.id)
                 ELSE FinishKeeping(k, Put(drafts, c.row), c.mem.id)
  BY <1>4
<1> DEFINE rows == Put(drafts, c.row)
<1>7. /\ DOMAIN rows = DOMAIN drafts /\ c.mem.id = d
      /\ \A x \in DOMAIN drafts :
            rows[x] = drafts[x] \/ (x = d /\ rows[x].version > drafts[x].version)
      /\ c.ok => rows[d].image = IF "image" \in DOMAIN fields THEN fields["image"]
                                 ELSE drafts[d].image
      /\ ~c.ok => rows = drafts
  BY <1>3, <1>5, OwnUpdate
<1>8. c.ok => rows[d].image = image
  BY <1>7
<1>9. drafts' = rows
  BY <1>6 DEF AskNothing, Finish, FinishKeeping
<1>10. image[1] = r
  OBVIOUS
<1>11. \/ FinishKeeping(k, rows, d)
       \/ \E pending \in Pendings, context \in {NoContext, OtherContext} :
             Finish(k, rows, d, pending, context)
  BY <1>6, <1>7 DEF AskNothing, Pendings
<1> HIDE DEF rows, image, fields, r, d
<1>12. ShowsOwn
  BY <1>1, <1>3, <1>7, <1>8, <1>9, <1>10 DEF ShowsOwn
<1>13. QED
  BY <1>1, <1>2, <1>3, <1>11, <1>12, FinishTurn

\* A decision makes a new draft the current one.
LEMMA ResolveTurn ==
    ASSUME IInv, SerialInv, Serial, NEW k \in Workers,
           h[k].pc = "act", Kept, Resolve(k, drafts)
    PROVE  SerialInv'
<1> DEFINE all == Append(drafts, [FreshDraft EXCEPT !.id = Len(drafts) + 1])
<1>1. GoodRows(drafts)
  BY DEF IInv, TablesInv
<1>2. /\ GoodRows(all)
      /\ Len(all) = Len(drafts) + 1
      /\ DOMAIN all = DOMAIN drafts \union {Len(drafts) + 1}
      /\ Len(drafts) + 1 \notin DOMAIN drafts
      /\ \A d \in DOMAIN drafts : all[d] = drafts[d]
      /\ all[Len(drafts) + 1].image = NoImage
  BY <1>1, FreshRows
<1>3. Finish(k, all, Len(all), "NONE", NoContext)
  BY DEF Resolve, AskNothing
<1>4. Len(drafts) \in Nat /\ session.draft \in Nat
  BY <1>1, SessionIds DEF GoodRows
<1> HIDE DEF all
<1>5. Len(all) \in Nat /\ session.draft <= Len(all)
  BY <1>2, <1>4, SessionIds DEF New
<1>6. KeepsImages(drafts')
  BY <1>2, <1>3 DEF Finish, KeepsImages
<1>7. /\ rounds' = rounds /\ ads' = ads /\ aborts' = aborts
      /\ "NONE" \in Pendings
  BY DEF Kept, Pendings
<1>8. ShowsOwn
  BY <1>6, <1>7, SameShowsOwn
<1>9. QED
  BY <1>3, <1>5, <1>7, <1>8, FinishTurn

\* A generation that starts offers no round yet.
LEMMA OpensTurn ==
    ASSUME IInv, IInv', SerialInv, Serial, NEW k \in Workers, World(k), Opens(k)
    PROVE  SerialInv'
<1>1. /\ h[k].pc = "plan" /\ KeepsImages(drafts')
      /\ ads' = ads /\ aborts' = aborts
  BY DEF Opens
<1>0. PICK cur \in DOMAIN drafts' :
         /\ cur = h[k].mem.id \/ cur \notin DOMAIN drafts
         /\ \E x : /\ h' = [h EXCEPT ![k] = x]
                  /\ x.pc = "poll" /\ x.mem.id = cur
                  /\ \/ x.row = h[k].row /\ session' = session
                     \/ /\ x.row = Cleared(h[k].row)
                        /\ session' = IF h[k].row.pending # "NONE" THEN Cleared(session)
                                      ELSE session
  BY DEF Opens
<1>2. PICK x :
         /\ cur \in DOMAIN drafts'
         /\ cur = h[k].mem.id \/ cur \notin DOMAIN drafts
         /\ h' = [h EXCEPT ![k] = x]
         /\ x.pc = "poll" /\ x.mem.id = cur
         /\ \/ x.row = h[k].row /\ session' = session
            \/ /\ x.row = Cleared(h[k].row)
               /\ session' = IF h[k].row.pending # "NONE" THEN Cleared(session) ELSE session
  BY <1>0
<1>3. \A r \in DOMAIN rounds : r \in DOMAIN rounds' /\ rounds'[r].draft = rounds[r].draft
  BY DEF World
<1>4. /\ session'.draft = session.draft /\ x.row.draft = session.draft
      /\ SessionFits'
      /\ \/ x.row = session'
         \/ x.row.pending = "NONE" /\ x.row.context = NoContext /\ session'.context[1] # "round"
  BY <1>1, <1>2, <1>3, ClearingFits
<1>5. cur \in Nat /\ cur # New
  <2>1. GoodRows(drafts)'
    BY DEF IInv, TablesInv
  <2>2. QED
    BY <1>2, <2>1 DEF GoodRows, New
<1>6. session.draft \in Nat /\ session.draft <= cur
  <2>1. CASE cur \notin DOMAIN drafts
    BY <1>5, <2>1, SessionIds
  <2>2. CASE cur = h[k].mem.id
    BY <1>1, <1>5, <2>2, AtWork, SessionIds
  <2>3. QED
    BY <1>2, <2>1, <2>2
<1>7. CallFits(x)'
  BY <1>2, <1>4, <1>6 DEF CallFits
<1>8. ShowsOwn
  BY <1>1, <1>3, SameShowsOwn
<1>9. Advances
  BY <1>4, <1>6, <1>8 DEF Advances
<1>10. QED
  BY <1>1, <1>2, <1>4, <1>6, <1>7, <1>9, QuietTurn

\* A preview is of a round of the call's draft, which becomes the current one.
LEMMA PairTurn ==
    ASSUME IInv, SerialInv, Serial, NEW k \in Workers, World(k),
           PairCompleted(k) \/ PairFailed(k)
    PROVE  SerialInv'
<1> DEFINE r == h[k].round
           d == h[k].mem.id
           completed == [status |-> "PREVIEW_READY", awaiting |-> FALSE, image |-> <<r, 1>>]
           failed == [status |-> "DRAFT", awaiting |-> FALSE]
<1>1. h[k].pc = "poll" /\ ads' = ads /\ aborts' = aborts
  BY DEF PairCompleted, PairFailed
<1>2. /\ d # New /\ rounds[r].draft = d /\ r \in DOMAIN rounds
      /\ d \in DOMAIN drafts /\ d \in Nat
  <2>1. h[k] \in Calls /\ PollInv(h[k])
    BY DEF IInv, CallInv
  <2>2. d # New /\ r # NoRound /\ rounds[r].draft = d
    BY <1>1, <2>1 DEF PollInv
  <2>3. r \in {NoRound} \union Rounds /\ d \in {New} \union DOMAIN drafts
    BY <2>1 DEF Calls, DraftRows
  <2>4. QED
    BY <2>2, <2>3, SessionIds DEF Rounds
<1>3. session.draft \in Nat /\ session.draft <= d
  BY <1>1, <1>2, AtWork, SessionIds
<1>4. \A s \in DOMAIN rounds : s \in DOMAIN rounds' /\ rounds'[s].draft = rounds[s].draft
  BY DEF World
<1>5. Legitimate(completed) /\ Legitimate(failed)
  <2>1. <<r, 1>> \in Images
    BY <1>2 DEF Images, Rounds, Slots
  <2>2. QED
    BY <2>1 DEF Legitimate, Statuses
<1>6. ASSUME NEW fields \in {completed, failed}, NEW c \in Write(Loaded(k), fields),
             drafts' = Put(drafts, c.row)
      PROVE  c.mem.id = d /\ ShowsOwn
  <2> DEFINE rows == Put(drafts, c.row)
  <2>1. Legitimate(fields)
    BY <1>5, <1>6
  <2>2. /\ DOMAIN rows = DOMAIN drafts /\ c.mem.id = d
        /\ \A x \in DOMAIN drafts :
              rows[x] = drafts[x] \/ (x = d /\ rows[x].version > drafts[x].version)
        /\ c.ok => rows[d].image = IF "image" \in DOMAIN fields THEN fields["image"]
                                   ELSE drafts[d].image
        /\ ~c.ok => rows = drafts
    BY <1>2, <2>1, OwnUpdate
  <2>3. c.ok => rows[d].image \in {<<r, 1>>, drafts[d].image}
    BY <1>6, <2>2
  <2> HIDE DEF rows, r, d
  <2>4. rounds'[r].draft = d
    BY <1>2, <1>4
  <2>5. drafts' = rows
    BY <1>6 DEF rows
  <2>6. QED
    BY <1>4, <2>2, <2>3, <2>4, <2>5 DEF ShowsOwn
<1>7. ASSUME NEW fields \in {completed, failed}, NEW c \in Write(Loaded(k), fields),
             AskNothing(k, Put(drafts, c.row), c.mem.id)
      PROVE  SerialInv'
  <2>1. Finish(k, Put(drafts, c.row), c.mem.id, "NONE", NoContext) /\ "NONE" \in Pendings
    BY <1>7 DEF AskNothing, Pendings
  <2>2. drafts' = Put(drafts, c.row)
    BY <2>1 DEF Finish
  <2>3. c.mem.id = d /\ ShowsOwn
    BY <1>6, <2>2
  <2>4. QED
    BY <1>1, <1>2, <1>3, <2>1, <2>3, FinishTurn
<1>8. ASSUME NEW c \in Write(Loaded(k), completed),
             Finish(k, Put(drafts, c.row), c.mem.id, "VARIANT_SELECTION", RoundContext(r))
      PROVE  SerialInv'
  <2>1. /\ drafts' = Put(drafts, c.row)
        /\ session' \in Saved(h[k].row, c.mem.id, "VARIANT_SELECTION", RoundContext(r))
        /\ h' = [h EXCEPT ![k] = IdleCall]
    BY <1>8 DEF Finish
  <2>2. c.mem.id = d /\ ShowsOwn
    BY <1>6, <2>1
  <2>3. /\ h[k].row.draft = session.draft
        /\ \/ h[k].row = session
           \/ h[k].row.pending = "NONE" /\ h[k].row.context = NoContext
    BY <1>1, AtWork
  <2>4. RoundContext(r)[1] = "round" /\ RoundContext(r)[2] = r /\ RoundContext(r) # NoContext
    BY DEF RoundContext, NoContext
  <2>5. /\ session'.draft = d /\ session'.pending = "VARIANT_SELECTION"
        /\ session'.context = RoundContext(r)
    BY <2>1, <2>2, <2>3, <2>4 DEF Saved, ByColumn
  <2>6. SessionFits'
    BY <1>2, <1>4, <2>4, <2>5 DEF SessionFits
  <2>7. CallFits(IdleCall)'
    BY DEF CallFits, IdleCall
  <2>8. Advances
    BY <1>3, <2>2, <2>5 DEF Advances
  <2>9. QED
    BY <1>1, <1>2, <2>1, <2>5, <2>6, <2>7, <2>8, QuietTurn
<1>9. CASE PairCompleted(k)
  <2>1. PICK c \in Write(Loaded(k), completed) :
           IF c.ok
           THEN Finish(k, Put(drafts, c.row), c.mem.id, "VARIANT_SELECTION", RoundContext(r))
           ELSE AskNothing(k, Put(drafts, c.row), c.mem.id)
    BY <1>9 DEF PairCompleted
  <2> HIDE DEF completed, r
  <2>2. QED
    BY <1>7, <1>8, <2>1
<1>10. CASE PairFailed(k)
  <2>1. PICK c \in Write(Loaded(k), failed) : AskNothing(k, Put(drafts, c.row), c.mem.id)
    BY <1>10 DEF PairFailed
  <2> HIDE DEF failed
  <2>2. QED
    BY <1>7, <2>1
<1>11. QED
  BY <1>9, <1>10

\* The only call at work, before its publish: the draft is not decided.
LEMMA NotDecided ==
    ASSUME IInv, SerialInv, Serial, NEW k \in Workers, h[k].pc = "cms"
    PROVE  h[k].mem.id = session.draft /\ ~Decided(h[k].mem.id)
<1>1. h[k].mem.id = session.draft /\ session.draft \in Nat
  BY AtWork, SessionIds
<1>2. \A j \in Workers : h[j].pc # "record"
  BY DEF Serial
<1>3. QED
  BY <1>1, <1>2 DEF Decided

\* The CMS takes the advertisement of a draft that is not decided, and then
\* it is.
LEMMA CmsAcceptsTurn ==
    ASSUME IInv, SerialInv, Serial, NEW k \in Workers, CmsAccepts(k)
    PROVE  SerialInv'
<1> PICK ad : ad = [draft |-> h[k].mem.id, image |-> h[k].mem.image]
  OBVIOUS
<1> DEFINE x == [h[k] EXCEPT !.pc = "record", !.ad = Len(ads) + 1]
<1>1. h \in [Workers -> Calls] /\ h[k] \in Calls /\ CallFits(h[k]) /\ SessionFits /\ RepeatsCounted
  BY DEF IInv, SerialInv
<1>2. /\ h[k].pc = "cms" /\ ads' = Append(ads, ad)
      /\ h' = [h EXCEPT ![k] = x]
      /\ UNCHANGED <<session, drafts, rounds, aborts>>
  BY <1>1 DEF CmsAccepts
<1>3. x.pc = "record" /\ x.row = h[k].row /\ x.mem = h[k].mem
  BY <1>1 DEF Calls
<1>4. session' = session /\ drafts' = drafts /\ rounds' = rounds /\ aborts' = aborts
  BY <1>2
<1>5. session.draft \in Nat /\ aborts \in Nat
  BY SessionIds DEF IInv, TablesInv
<1> HIDE DEF x
<1> PICK y : y = x
  OBVIOUS
<1>6. CallFits(y)' /\ SessionFits'
  <2>1. CallFits(y)'
    BY <1>1, <1>2, <1>3, <1>4 DEF CallFits
  <2>2. SessionFits'
    BY <1>1, <1>4 DEF SessionFits
  <2>3. QED
    BY <2>1, <2>2
<1>7. Advances
  <2>1. ShowsOwn
    BY <1>4, SameShowsOwn DEF KeepsImages
  <2>2. QED
    BY <1>4, <1>5, <2>1 DEF Advances
<1>8. ad.draft = h[k].mem.id
  OBVIOUS
<1>9. ~Decided(ad.draft)
  BY <1>2, <1>8, NotDecided
<1>10. Decided(ad.draft)'
  <2>1. h'[k].pc = "record" /\ h'[k].mem.id = ad.draft
    BY <1>1, <1>2, <1>3, <1>8
  <2>2. QED
    BY <1>2, <2>1 DEF Decided
<1>11. DecisionsStay
  <2>1. session'.draft \in Nat /\ session.draft <= session'.draft
    BY <1>4, <1>5
  <2>2. QED
    BY <1>2, <2>1, NothingForgotten
<1>12. aborts' \in Nat /\ aborts' >= aborts
  BY <1>4, <1>5
<1>13. Settles(ad.draft)
  BY <1>10 DEF Settles
<1>14. RepeatsCounted'
  BY <1>1, <1>2, <1>9, <1>11, <1>12, <1>13, CountGrows, Zenon
<1>15. QED
  BY <1>2, <1>6, <1>7, <1>14, Turned

\* A publish whose answer is lost counts as an abort.
LEMMA CmsAnswerUnusableTurn ==
    ASSUME IInv, SerialInv, Serial, NEW k \in Workers, CmsAnswerUnusable(k)
    PROVE  SerialInv'
<1> PICK ad : ad = [draft |-> h[k].mem.id, image |-> h[k].mem.image]
  OBVIOUS
<1> DEFINE rows == Put(drafts, Loaded(k).row)
           cur == IdIn(drafts, h[k].mem)
<1>1. /\ h[k].pc = "cms" /\ ads' = Append(ads, ad)
      /\ FinishKeeping(k, rows, cur)
      /\ aborts' = aborts + 1 /\ rounds' = rounds
  BY DEF CmsAnswerUnusable
<1>2. /\ Loaded(k) \in Copies /\ Derived(Loaded(k), Loaded(k)) /\ Loaded(k) \in Origins(k)
      /\ Loaded(k).mem = h[k].mem
  BY OriginTyped DEF Origins, Loaded
<1>3. KeepsImages(rows)
  BY <1>2, CommitKeepsImages
<1>4. h[k].mem.id = session.draft /\ h[k].mem.id # New /\ cur = h[k].mem.id
  <2>1. h[k].mem.id # New
    BY <1>1 DEF IInv, CallInv, PublishInv
  <2>2. QED
    BY <1>1, <2>1, NotDecided DEF IdIn
<1>5. ~Decided(ad.draft)
  BY <1>1, NotDecided
<1> HIDE DEF rows, cur
<1>6. drafts' = rows /\ h' = [h EXCEPT ![k] = IdleCall]
  BY <1>1 DEF FinishKeeping
<1>7. session'.draft = session.draft /\ SessionFits'
  <2>1. SessionFits /\ CallFits(h[k])
    BY DEF SerialInv
  <2>2. QED
    BY <1>1, <1>4, <2>1, FinishFits
<1>8. session.draft \in Nat /\ aborts \in Nat
  BY SessionIds DEF IInv, TablesInv
<1>9. Advances
  BY <1>1, <1>3, <1>6, <1>7, <1>8, SameShowsOwn DEF Advances
<1>10. DecisionsStay
  <2>1. session'.draft \in Nat /\ session.draft <= session'.draft
    BY <1>7, <1>8
  <2>2. QED
    BY <1>1, <1>6, <2>1, NothingForgotten
<1>11. aborts' \in Nat /\ aborts' > aborts /\ aborts' >= aborts
  BY <1>1, <1>8
<1>12. RepeatsCounted /\ Settles(ad.draft)
  BY <1>11 DEF SerialInv, Settles
<1>13. RepeatsCounted'
  BY <1>1, <1>5, <1>10, <1>11, <1>12, CountGrows, Zenon
<1>14. CallFits(IdleCall)'
  BY DEF CallFits, IdleCall
<1>15. QED
  BY <1>1, <1>6, <1>7, <1>9, <1>13, <1>14, Turned

\* The record of a publish makes a new draft the current one: the published
\* draft stays decided.
LEMMA RecordPublishTurn ==
    ASSUME IInv, SerialInv, Serial, NEW k \in Workers, RecordPublish(k)
    PROVE  SerialInv'
<1> DEFINE d == h[k].mem.id
<1>1. h[k].pc = "record" /\ UNCHANGED <<rounds, ads, aborts>>
  BY DEF RecordPublish
<1>2. /\ d # New /\ d \in DOMAIN drafts
      /\ GoodRows(drafts')
      /\ \A x \in DOMAIN drafts :
            \/ drafts'[x] = drafts[x]
            \/ /\ x = d /\ drafts'[x].version > drafts[x].version
               /\ drafts'[x].image = drafts[x].image
               /\ h[k].mem.version = drafts[x].version
      /\ \A x \in DOMAIN drafts' \ DOMAIN drafts : drafts'[x].image = NoImage
      /\ \E cur \in DOMAIN drafts' \ DOMAIN drafts : Finish(k, drafts', cur, "NONE", NoContext)
  BY RecordPublishRows
<1>3. PICK cur \in DOMAIN drafts' \ DOMAIN drafts : Finish(k, drafts', cur, "NONE", NoContext)
  BY <1>2
<1> HIDE DEF d
<1>4. d = session.draft /\ session.draft \in Nat
  BY <1>1, AtWork, SessionIds DEF d
<1>5. cur \in Nat /\ cur # New
  BY <1>2, <1>3 DEF GoodRows, New
<1>6. d < cur
  <2>1. cur >= session.draft
    BY <1>3, <1>5, SessionIds
  <2>2. QED
    BY <1>2, <1>3, <1>4, <1>5, <2>1
<1>7. session'.draft = cur /\ SessionFits'
  <2>1. SessionFits /\ CallFits(h[k])
    BY DEF SerialInv
  <2>2. \A r \in DOMAIN rounds : rounds'[r].draft = rounds[r].draft
    BY <1>1
  <2>3. "NONE" \in Pendings
    BY DEF Pendings
  <2>4. QED
    BY <1>1, <1>3, <2>1, <2>2, <2>3, FinishFits
<1>8. h' = [h EXCEPT ![k] = IdleCall]
  BY <1>3 DEF Finish
<1>9. Advances
  <2>1. ShowsOwn
    BY <1>1, <1>2 DEF ShowsOwn
  <2>2. QED
    BY <1>4, <1>5, <1>6, <1>7, <2>1 DEF Advances
<1>10. DecisionsStay
  <2>1. ASSUME NEW e \in Nat, Decided(e)
        PROVE  e < cur
    <3>1. CASE e < session.draft
      BY <1>4, <1>5, <1>6, <3>1
    <3>2. ASSUME NEW j \in Workers, h[j].pc = "record", h[j].mem.id = e
          PROVE  e < cur
      BY <1>1, <1>6, <3>2 DEF Serial, d
    <3>3. QED
      BY <2>1, <3>1, <3>2 DEF Decided
  <2>2. QED
    BY <1>7, <2>1 DEF DecisionsStay, Decided
<1>11. aborts' \in Nat /\ aborts' >= aborts
  BY <1>1 DEF IInv, TablesInv
<1>12. RepeatsCounted'
  BY <1>1, <1>10, <1>11, CountKept DEF Remembers, SerialInv
<1>13. CallFits(IdleCall)'
  BY DEF CallFits, IdleCall
<1>14. QED
  BY <1>1, <1>7, <1>8, <1>9, <1>12, <1>13, Turned

\* A call that dies with a publish unrecorded is an abort.
LEMMA AbortTurn ==
    ASSUME IInv, SerialInv, Serial, NEW k \in Workers, Abort(k)
    PROVE  SerialInv'
<1>1. /\ h[k].pc # "idle" /\ aborts' = aborts + 1
      /\ h' = [h EXCEPT ![k] = IdleCall]
      /\ session' = session /\ drafts' = drafts /\ rounds' = rounds /\ ads' = ads
  BY DEF Abort
<1>2. session.draft \in Nat /\ aborts \in Nat
  BY SessionIds DEF IInv, TablesInv
<1>3. SessionFits'
  BY <1>1 DEF SerialInv, SessionFits
<1>4. Advances
  BY <1>1, <1>2, SameShowsOwn DEF Advances, KeepsImages
<1>5. aborts' \in Nat /\ aborts' >= aborts /\ aborts' > aborts
  BY <1>1, <1>2
<1>6. Remembers
  BY <1>5 DEF Remembers
<1>7. RepeatsCounted'
  BY <1>1, <1>5, <1>6, CountKept DEF SerialInv
<1>8. CallFits(IdleCall)'
  BY DEF CallFits, IdleCall
<1>9. QED
  BY <1>1, <1>3, <1>4, <1>7, <1>8, Turned

\* The empty tables satisfy the invariant.
LEMMA InitSerial == Init => SerialInv
<1> SUFFICES ASSUME Init
             PROVE  SerialInv
  OBVIOUS
<1>1. /\ session = NoSession /\ drafts = <<>> /\ rounds = <<>> /\ ads = <<>> /\ aborts = 0
      /\ h = [k \in Workers |-> IdleCall]
  BY DEF Init
<1>2. SessionFits /\ ImageOfOwnRound
  BY <1>1 DEF SessionFits, NoSession, NoContext, ImageOfOwnRound
<1>3. \A k \in Workers : CallFits(h[k])
  BY <1>1 DEF CallFits, IdleCall
<1>4. ASSUME NEW d \in Nat
      PROVE  Cardinality(AdsOf(d)) <= aborts
  <2>1. AdsOf(d) = {}
    BY <1>1 DEF AdsOf
  <2>2. QED
    BY <1>1, <2>1, FS_EmptySet
<1>5. QED
  BY <1>2, <1>3, <1>4 DEF SerialInv, RepeatsCounted

\* Every step of the only call at work keeps the invariant.
LEMMA SerialSteps ==
    ASSUME IInv, Serial, SerialInv, [Next]_vars
    PROVE  SerialInv'
<1>1. IInv'
  BY Steps
<1>2. CASE UNCHANGED vars
  <2>1. session' = session /\ drafts' = drafts /\ rounds' = rounds /\ ads' = ads /\ h' = h
        /\ aborts' = aborts
    BY <1>2 DEF vars
  <2>2. SessionFits' /\ (\A k \in Workers : CallFits(h[k]))'
    BY <2>1 DEF SerialInv, SessionFits, CallFits
  <2>3. ImageOfOwnRound'
    BY <2>1 DEF SerialInv, ImageOfOwnRound
  <2>4. RepeatsCounted'
    BY <2>1 DEF SerialInv, RepeatsCounted, AdsOf, Decided
  <2>5. QED
    BY <2>2, <2>3, <2>4 DEF SerialInv
<1>3. ASSUME NEW k \in Workers, Commits(k)
      PROVE  SerialInv'
  BY <1>1, <1>3, CommitsTurn
<1>4. ASSUME NEW k \in Workers,
             \/ \E kind \in Kinds : Receive(k, kind)
             \/ Loads(k) \/ Questions(k) \/ Texts(k) \/ Photos(k)
             \/ Generation(k) \/ Publishing(k) \/ Abort(k)
      PROVE  SerialInv'
  <2>1. CASE (\E kind \in Kinds : Receive(k, kind)) \/ Loads(k)
    BY <2>1, GoingOnTurns
  <2>2. CASE Questions(k) \/ Texts(k) \/ Photos(k)
    BY <1>3, <2>2, QuestionsCommit, TextsCommit, PhotosCommit
  <2>3. CASE Abort(k)
    BY <2>3, AbortTurn
  <2>4. CASE PlannerAsks(k)
    BY <2>4, PlannerAsksTurn
  <2>5. CASE ResumeAsNewAd(k)
    BY <1>3, <2>5, ResumeAsNewAdCommits, GoingOnTurns
  <2>6. CASE SubmitFails(k) \/ PollFails(k)
    BY <1>3, <2>6, SubmitFailsCommits, PollFailsCommits
  <2>7. CASE StartGeneration(k)
    BY <1>1, <1>3, <2>7, StartGenerationKeeps, OpensTurn
  <2>8. CASE PairCompleted(k) \/ PairFailed(k)
    BY <2>8, PairKeeps, PairTurn
  <2>9. CASE SelectVariant(k)
    BY <2>9, SelectVariantTurn
  <2>10. CASE SelectNothing(k) \/ CannotPublish(k) \/ CmsRefuses(k)
    BY <1>3, <2>10, LeaveCommits DEF SelectNothing, CannotPublish, CmsRefuses, Confirms, Acts
  <2>11. CASE SkipPublish(k)
    BY <2>11, ResolveTurn DEF SkipPublish, Confirms, Acts
  <2>12. CASE CallCms(k)
    BY <2>12, GoingOnTurns
  <2>13. CASE CmsAccepts(k) \/ CmsAnswerUnusable(k) \/ RecordPublish(k)
    BY <2>13, CmsAcceptsTurn, CmsAnswerUnusableTurn, RecordPublishTurn
  <2>14. CASE CancelPublish(k)
    <3>1. h[k].pc = "act" /\ ((Resolve(k, drafts) /\ Kept) \/ LeaveAsIs(k))
      BY <2>14 DEF CancelPublish, Acts
    <3>2. QED
      BY <1>3, <3>1, ResolveTurn, LeaveCommits
  <2>15. QED
    BY <1>4, <2>1, <2>2, <2>3, <2>4, <2>5, <2>6, <2>7, <2>8, <2>9, <2>10, <2>11, <2>12, <2>13,
       <2>14 DEF Generation, Publishing
<1>5. CASE Rest
  BY <1>2, <1>5 DEF Rest
<1>6. CASE \E k \in Workers :
              \/ \E kind \in Kinds : Receive(k, kind)
              \/ Loads(k) \/ Questions(k) \/ Texts(k) \/ Photos(k)
              \/ Generation(k) \/ Publishing(k) \/ Abort(k)
  BY <1>4, <1>6
<1>7. QED
  BY <1>2, <1>5, <1>6 DEF Next

\* While at most one call is at work, SerialInv holds: the session is the one
\* the call loaded, and the call works on the current draft or on a new one.
THEOREM SerialInvariant == Spec /\ []Serial => []SerialInv
<1>1. IInv /\ Serial /\ SerialInv /\ [Next]_vars => SerialInv'
  BY SerialSteps
<1>2. QED
  BY Invariant, InitSerial, <1>1, PTL DEF Spec

\* One call at a time never shows a draft an image of another ad's round.
THEOREM OwnImages == Spec /\ []Serial => []ImageOfOwnRound
<1>1. SerialInv => ImageOfOwnRound
  BY DEF SerialInv
<1>2. QED
  BY SerialInvariant, <1>1, PTL

\* One call at a time publishes a draft once, and once more for each call that
\* died or lost the CMS's answer, because the record of a publish makes a new
\* draft the current one.
THEOREM RepeatsAreExplained == Spec /\ []Serial => []RepeatsExplained
<1>1. ASSUME IInv, SerialInv
      PROVE  RepeatsExplained
  <2>1. ASSUME NEW d \in DOMAIN drafts
        PROVE  Cardinality(AdsOf(d)) <= 1 + aborts
    <3>1. d \in Nat /\ aborts \in Nat /\ Cardinality(AdsOf(d)) \in Nat
      BY <1>1, SessionIds, AdsOfFinite DEF IInv, TablesInv
    <3>2. Cardinality(AdsOf(d)) <= aborts \/ Cardinality(AdsOf(d)) <= aborts + 1
      BY <1>1, <3>1 DEF SerialInv, RepeatsCounted
    <3>3. QED
      BY <3>1, <3>2
  <2>2. QED
    BY <2>1 DEF RepeatsExplained
<1>2. IInv /\ SerialInv => RepeatsExplained
  BY <1>1
<1>3. QED
  BY Invariant, SerialInvariant, <1>2, PTL

\* So one call at a time publishes each draft once, if no call dies and the
\* CMS's answers arrive.
COROLLARY PublishesOnce ==
    ASSUME MaxAborts = 0
    PROVE  Spec /\ []Serial => []OnePublishPerDraft
<1>1. ASSUME IInv, RepeatsExplained
      PROVE  OnePublishPerDraft
  <2>1. ASSUME NEW a \in DOMAIN ads, NEW b \in DOMAIN ads, ads[a].draft = ads[b].draft, a # b
        PROVE  FALSE
    <3>1. PICK d : d = ads[a].draft
      OBVIOUS
    <3>2. d \in DOMAIN drafts
      <4>1. ads \in Seq(AdRows)
        BY <1>1 DEF IInv, TablesInv
      <4>2. ads[a] \in AdRows
        BY <2>1, <4>1
      <4>3. QED
        BY <3>1, <4>2 DEF AdRows
    <3>3. aborts = 0
      BY <1>1 DEF IInv, TablesInv
    <3>4. IsFiniteSet(AdsOf(d)) /\ Cardinality(AdsOf(d)) <= 1
      BY <1>1, <3>2, <3>3, AdsOfFinite DEF RepeatsExplained
    <3>5. {a, b} \subseteq AdsOf(d)
      BY <2>1, <3>1 DEF AdsOf
    <3>6. Cardinality({a, b}) = 2
      <4>1. IsFiniteSet({a}) /\ Cardinality({a}) = 1
        BY FS_Singleton
      <4>2. {a, b} = {a} \union {b} /\ b \notin {a}
        BY <2>1
      <4>3. QED
        BY <4>1, <4>2, FS_AddElement
    <3>7. Cardinality({a, b}) <= Cardinality(AdsOf(d))
      BY <3>4, <3>5, FS_Subset
    <3>8. Cardinality(AdsOf(d)) \in Nat
      BY <3>4, FS_CardinalityType
    <3>9. QED
      BY <3>4, <3>6, <3>7, <3>8
  <2>2. QED
    BY <2>1 DEF OnePublishPerDraft
<1>2. IInv /\ RepeatsExplained => OnePublishPerDraft
  BY <1>1
<1>3. QED
  BY Invariant, RepeatsAreExplained, <1>2, PTL

=============================================================================
