--------------------------- MODULE CmsPublishProofs ---------------------------
(***************************************************************************)
(* Proofs about CmsPublish. For any number of overlapping publishers: the  *)
(* types and the order of the weights. For publishers that take turns with *)
(* the playlist: nothing that was reported is lost, and every change of    *)
(* the playlist is at its end.                                             *)
(***************************************************************************)
EXTENDS CmsPublish, Induction, FiniteSetTheorems

USE BoundsAssumption DEF NoAd

-----------------------------------------------------------------------------
\* Lists of slots

\* What the loop of Kept has after i slots, given what it has before each.
Entry(s, f, i) ==
    IF i = 0 THEN << >>
    ELSE IF s[i].ad = NoAd THEN f[i - 1]
    ELSE Append(f[i - 1], s[i])

Table(s, n, f) == f = [i \in 0..n |-> Entry(s, f, i)]

\* An element of the table is what the loop makes of the one before it.
LEMMA TableEntry ==
    ASSUME NEW s, NEW n, NEW f, Table(s, n, f), NEW i \in 0..n
    PROVE  f[i] = Entry(s, f, i)
<1> DEFINE g == [j \in 0..n |-> Entry(s, f, j)]
<1>1. g[i] = Entry(s, f, i)
  OBVIOUS
<1>2. f = g
  BY DEF Table
<1> HIDE DEF g
<1>3. QED
  BY <1>1, <1>2

\* The table that defines Kept exists: a shortest length without one would
\* have one, an entry longer than that of the length before it.
LEMMA TableExists ==
    ASSUME NEW s, NEW n \in Nat
    PROVE  \E f : Table(s, n, f)
<1> DEFINE P == {m \in Nat : \E f : Table(s, m, f)}
<1>1. 0 \in P
  <2> DEFINE f == [i \in 0..0 |-> << >>]
  <2>1. f = [i \in 0..0 |-> Entry(s, f, i)]
    BY DEF Entry
  <2>2. Table(s, 0, f)
    BY <2>1 DEF Table
  <2>3. QED
    BY <2>2
<1>2. ASSUME NEW k \in Nat, k \in P PROVE k + 1 \in P
  <2>1. PICK m : m = k + 1
    OBVIOUS
  <2>2. m \in Nat /\ m # 0 /\ m - 1 = k
    BY <2>1
  <2>3. PICK f : Table(s, k, f)
    BY <1>2
  <2> DEFINE g == [i \in 0..m |-> IF i = m THEN Entry(s, f, m) ELSE f[i]]
  <2>4. ASSUME NEW i \in 0..m PROVE g[i] = Entry(s, g, i)
    <3>1. CASE i = m
      <4>1. m - 1 \in 0..m /\ m - 1 # m
        BY <2>2
      <4>2. g[m - 1] = f[m - 1]
        BY <4>1
      <4>3. Entry(s, g, m) = Entry(s, f, m)
        <5> HIDE DEF g
        <5>1. QED
          BY <4>2 DEF Entry
      <4>4. QED
        BY <3>1, <4>3
    <3>2. CASE i # m
      <4>1. i \in 0..k /\ (i = 0 \/ (i - 1 \in 0..m /\ i - 1 # m))
        BY <3>2, <2>2
      <4>2. f[i] = Entry(s, f, i)
        BY <2>3, <4>1, TableEntry
      <4>3. i = 0 \/ g[i - 1] = f[i - 1]
        BY <4>1
      <4>4. Entry(s, g, i) = Entry(s, f, i)
        <5> HIDE DEF g
        <5>1. QED
          BY <4>3 DEF Entry
      <4>5. QED
        BY <3>2, <4>2, <4>4
    <3>3. QED
      BY <3>1, <3>2
  <2>5. g = [i \in 0..m |-> g[i]]
    OBVIOUS
  <2> HIDE DEF g
  <2>6. Table(s, m, g)
    BY <2>4, <2>5 DEF Table
  <2>7. QED
    BY <2>1, <2>2, <2>6
<1>3. Nat \subseteq P
  <2> HIDE DEF P
  <2>1. QED
    BY <1>1, <1>2, NaturalInduction
<1>4. QED
  BY <1>3

\* Kept is the last entry of a table.
LEMMA KeptEntry ==
    ASSUME NEW s, Len(s) \in Nat
    PROVE  \E f : Table(s, Len(s), f) /\ Kept(s) = f[Len(s)]
<1> DEFINE Loop(f) == [i \in 0..Len(s) |-> IF i = 0 THEN << >>
                                           ELSE IF s[i].ad = NoAd THEN f[i - 1]
                                           ELSE Append(f[i - 1], s[i])]
<1>1. \E f : Table(s, Len(s), f)
  BY TableExists
<1>2. \E f : f = Loop(f)
  BY <1>1 DEF Table, Entry
<1>3. PICK f : f = Loop(f) /\ Kept(s) = f[Len(s)]
  BY <1>2 DEF Kept
<1>4. QED
  BY <1>3 DEF Table, Entry

\* Of slots that two lists share the same are kept.
LEMMA TableUnique ==
    ASSUME NEW s, NEW t, NEW n \in Nat, NEW m \in Nat, n <= m, NEW f, NEW g,
           Table(s, n, f), Table(t, m, g), \A i \in 1..n : s[i] = t[i]
    PROVE  f[n] = g[n]
<1> DEFINE P == {k \in Nat : k <= n => f[k] = g[k]}
<1>1. 0 \in P
  <2>1. f[0] = Entry(s, f, 0) /\ g[0] = Entry(t, g, 0)
    BY TableEntry
  <2>2. QED
    BY <2>1 DEF Entry
<1>2. ASSUME NEW k \in Nat, k \in P PROVE k + 1 \in P
  <2> SUFFICES ASSUME k + 1 <= n PROVE f[k + 1] = g[k + 1]
    OBVIOUS
  <2>1. PICK j : j = k + 1
    OBVIOUS
  <2>2. j \in 1..n /\ j \in 0..n /\ j \in 0..m /\ j - 1 = k /\ k <= n /\ j # 0
    BY <2>1
  <2>3. f[j] = Entry(s, f, j) /\ g[j] = Entry(t, g, j)
    BY <2>2, TableEntry
  <2>4. f[k] = g[k] /\ s[j] = t[j]
    BY <1>2, <2>2
  <2>5. QED
    BY <2>1, <2>2, <2>3, <2>4 DEF Entry
<1>3. Nat \subseteq P
  <2> HIDE DEF P
  <2>1. QED
    BY <1>1, <1>2, NaturalInduction
<1>4. QED
  BY <1>3

\* Of no slots none are kept.
LEMMA KeptEmpty == Kept(<< >>) = << >>
<1>1. Len(<< >>) = 0
  OBVIOUS
<1>2. PICK f : Table(<< >>, 0, f) /\ Kept(<< >>) = f[0]
  BY <1>1, KeptEntry
<1>3. f[0] = Entry(<< >>, f, 0)
  BY <1>2, TableEntry
<1>4. QED
  BY <1>2, <1>3 DEF Entry

\* A slot at the end of a list is kept if it has an advertisement.
LEMMA KeptAppend ==
    ASSUME NEW S, NEW s \in Seq(S), NEW e \in S
    PROVE  Kept(Append(s, e)) = IF e.ad = NoAd THEN Kept(s) ELSE Append(Kept(s), e)
<1> DEFINE t == Append(s, e)
<1>1. PICK n \in Nat : n = Len(s)
  OBVIOUS
<1>2. Len(t) = n + 1 /\ t[n + 1] = e /\ \A i \in 1..n : s[i] = t[i]
  BY <1>1
<1> HIDE DEF t
<1>3. PICK f : Table(s, n, f) /\ Kept(s) = f[n]
  BY <1>1, KeptEntry
<1>4. PICK g : Table(t, n + 1, g) /\ Kept(t) = g[n + 1]
  BY <1>2, KeptEntry
<1>5. f[n] = g[n]
  <2>1. n + 1 \in Nat /\ n <= n + 1
    OBVIOUS
  <2>2. QED
    BY <1>2, <1>3, <1>4, <2>1, TableUnique
<1>6. g[n + 1] = Entry(t, g, n + 1)
  BY <1>4, TableEntry
<1>7. n + 1 # 0 /\ (n + 1) - 1 = n
  OBVIOUS
<1>8. Kept(t) = IF e.ad = NoAd THEN Kept(s) ELSE Append(Kept(s), e)
  BY <1>2, <1>3, <1>4, <1>5, <1>6, <1>7 DEF Entry
<1>9. QED
  BY <1>8 DEF t

\* What is kept are the slots with an advertisement, all of them; keeping
\* them again changes nothing.
LEMMA KeptSlots ==
    ASSUME NEW S, NEW s \in Seq(S)
    PROVE  /\ Kept(s) \in Seq(S)
           /\ \A i \in DOMAIN Kept(s) :
                 Kept(s)[i].ad # NoAd /\ \E j \in DOMAIN s : s[j] = Kept(s)[i]
           /\ \A i \in DOMAIN s : s[i].ad # NoAd => \E j \in DOMAIN Kept(s) : Kept(s)[j] = s[i]
           /\ Kept(Kept(s)) = Kept(s)
<1> DEFINE Whole(x, k) == \A i \in DOMAIN x : x[i].ad # NoAd => \E j \in DOMAIN k : k[j] = x[i]
           Part(x, k) ==
               \A i \in DOMAIN k : k[i].ad # NoAd /\ \E j \in DOMAIN x : x[j] = k[i]
           P == {x \in Seq(S) : /\ Kept(x) \in Seq(S)
                                /\ Part(x, Kept(x)) /\ Whole(x, Kept(x))
                                /\ Kept(Kept(x)) = Kept(x)}
<1>1. << >> \in P
  <2>1. << >> \in Seq(S) /\ \A i \in DOMAIN << >> : FALSE
    OBVIOUS
  <2>2. PICK x : x = << >>
    OBVIOUS
  <2>3. x \in Seq(S) /\ Kept(x) = x /\ \A i \in DOMAIN x : FALSE
    BY <2>1, <2>2, KeptEmpty
  <2>4. QED
    BY <2>2, <2>3
<1>2. ASSUME NEW x \in Seq(S), NEW e \in S, x \in P PROVE Append(x, e) \in P
  <2>1. PICK y : y = Append(x, e)
    OBVIOUS
  <2>2. PICK k : k = Kept(x)
    OBVIOUS
  <2>3. k \in Seq(S) /\ Part(x, k) /\ Whole(x, k) /\ Kept(k) = k
    BY <1>2, <2>2
  <2>4. /\ y \in Seq(S) /\ Len(y) = Len(x) + 1 /\ y[Len(x) + 1] = e
        /\ \A i \in DOMAIN x : i \in DOMAIN y /\ y[i] = x[i]
        /\ \A i \in DOMAIN y : i \in DOMAIN x \/ i = Len(x) + 1
        /\ Len(x) + 1 \in DOMAIN y
    BY <2>1
  <2>5. CASE e.ad = NoAd
    <3>1. Kept(y) = k
      BY <2>1, <2>2, <2>5, KeptAppend
    <3>2. Part(y, k) /\ Whole(y, k)
      BY <2>3, <2>4, <2>5
    <3>3. QED
      BY <2>1, <2>3, <2>4, <3>1, <3>2
  <2>6. CASE e.ad # NoAd
    <3>1. PICK h : h = Append(k, e)
      OBVIOUS
    <3>2. Kept(y) = h /\ Kept(h) = h
      BY <2>1, <2>2, <2>3, <2>6, <3>1, KeptAppend
    <3>3. /\ h \in Seq(S) /\ Len(h) = Len(k) + 1 /\ h[Len(k) + 1] = e
          /\ \A i \in DOMAIN k : i \in DOMAIN h /\ h[i] = k[i]
          /\ \A i \in DOMAIN h : i \in DOMAIN k \/ i = Len(k) + 1
          /\ Len(k) + 1 \in DOMAIN h
      BY <2>3, <3>1
    <3>4. Part(y, h)
      BY <2>3, <2>4, <2>6, <3>3
    <3>5. Whole(y, h)
      BY <2>3, <2>4, <3>3
    <3>6. QED
      BY <2>1, <2>4, <3>2, <3>3, <3>4, <3>5
  <2>7. QED
    BY <2>5, <2>6
<1>3. Seq(S) \subseteq P
  <2> HIDE DEF P
  <2>1. QED
    BY <1>1, <1>2, SequenceInduction
<1>4. QED
  BY <1>3

\* Slots whose weights are naturals.
Weighted(S) == \A e \in S : e.weight \in Nat

Candidates(s) == {0} \union {s[i].weight + 1 : i \in DOMAIN s}

\* The next weight is a natural above every weight of the list: the list has
\* a heaviest slot, if it has any.
LEMMA NextWeightAbove ==
    ASSUME NEW S, Weighted(S), NEW s \in Seq(S)
    PROVE  NextWeight(s) \in Nat /\ \A i \in DOMAIN s : s[i].weight < NextWeight(s)
<1> DEFINE Above(x, w) == \A i \in DOMAIN x : x[i].weight < w
           P == {x \in Seq(S) : \E w \in Candidates(x) : Above(x, w)}
<1>1. << >> \in P
  BY DEF Candidates
<1>2. ASSUME NEW x \in Seq(S), NEW e \in S, x \in P PROVE Append(x, e) \in P
  <2>1. PICK w \in Candidates(x) : Above(x, w)
    BY <1>2
  <2>2. PICK y : y = Append(x, e)
    OBVIOUS
  <2>3. /\ y \in Seq(S) /\ Len(x) + 1 \in DOMAIN y /\ y[Len(x) + 1] = e
        /\ \A i \in DOMAIN x : i \in DOMAIN y /\ y[i] = x[i]
        /\ \A i \in DOMAIN y : i \in DOMAIN x \/ i = Len(x) + 1
    BY <2>2
  <2>4. w \in Nat /\ e.weight \in Nat /\ w \in Candidates(y) /\ e.weight + 1 \in Candidates(y)
    BY <2>1, <2>3 DEF Candidates, Weighted
  <2>5. \A i \in DOMAIN x : x[i].weight \in Nat
    BY DEF Weighted
  <2>6. CASE e.weight < w
    <3>1. Above(y, w)
      BY <2>1, <2>3, <2>6
    <3>2. QED
      BY <2>2, <2>3, <2>4, <3>1
  <2>7. CASE ~(e.weight < w)
    <3>1. Above(y, e.weight + 1)
      BY <2>1, <2>3, <2>4, <2>5, <2>7
    <3>2. QED
      BY <2>2, <2>3, <2>4, <3>1
  <2>8. QED
    BY <2>6, <2>7
<1>3. Seq(S) \subseteq P
  <2> HIDE DEF P
  <2>1. QED
    BY <1>1, <1>2, SequenceInduction
<1>4. \E w \in Candidates(s) : \A i \in DOMAIN s : s[i].weight < w
  BY <1>3
<1>5. NextWeight(s) \in Candidates(s) /\ \A i \in DOMAIN s : s[i].weight < NextWeight(s)
  BY <1>4 DEF NextWeight, Candidates
<1>6. Candidates(s) \subseteq Nat
  BY DEF Candidates, Weighted
<1>7. QED
  BY <1>5, <1>6

\* Slots the code made are heavier than those before them.
Ordered(s) ==
    \A i, j \in DOMAIN s : i < j /\ s[j].ad > OldAds => s[i].weight < s[j].weight

\* The first slots of an ordered list are in order.
LEMMA OrderedFront ==
    ASSUME NEW S, NEW s \in Seq(S), NEW e \in S, Ordered(Append(s, e))
    PROVE  /\ Ordered(s)
           /\ e.ad > OldAds => \A i \in DOMAIN s : s[i].weight < e.weight
<1>1. PICK y : y = Append(s, e)
  OBVIOUS
<1>2. /\ Len(s) + 1 \in DOMAIN y /\ y[Len(s) + 1] = e
      /\ \A i \in DOMAIN s : i \in DOMAIN y /\ y[i] = s[i] /\ i < Len(s) + 1
  BY <1>1
<1>3. Ordered(y)
  BY <1>1
<1>4. QED
  BY <1>2, <1>3 DEF Ordered

\* A slot heavier than the others may follow an ordered list.
LEMMA OrderedAppend ==
    ASSUME NEW S, NEW s \in Seq(S), NEW e \in S, Ordered(s),
           e.ad > OldAds => \A i \in DOMAIN s : s[i].weight < e.weight
    PROVE  Ordered(Append(s, e))
<1>1. PICK y : y = Append(s, e)
  OBVIOUS
<1>2. /\ y[Len(s) + 1] = e /\ DOMAIN s = 1..Len(s) /\ DOMAIN y = 1..(Len(s) + 1)
      /\ \A i \in DOMAIN s : y[i] = s[i]
  BY <1>1
<1>3. Ordered(y)
  <2> SUFFICES ASSUME NEW i \in DOMAIN y, NEW j \in DOMAIN y, i < j, y[j].ad > OldAds
               PROVE  y[i].weight < y[j].weight
    BY DEF Ordered
  <2>1. i \in DOMAIN s /\ (j \in DOMAIN s \/ j = Len(s) + 1)
    BY <1>2
  <2>2. QED
    BY <1>2, <2>1 DEF Ordered
<1>4. QED
  BY <1>1, <1>3

\* The slots that are kept stay in order.
LEMMA OrderedKept ==
    ASSUME NEW S, NEW s \in Seq(S), Ordered(s)
    PROVE  Ordered(Kept(s))
<1> DEFINE P == {x \in Seq(S) : Ordered(x) => Ordered(Kept(x))}
<1>1. << >> \in P
  BY KeptEmpty
<1>2. ASSUME NEW x \in Seq(S), NEW e \in S, x \in P PROVE Append(x, e) \in P
  <2> SUFFICES ASSUME Ordered(Append(x, e)) PROVE Ordered(Kept(Append(x, e)))
    OBVIOUS
  <2>1. Ordered(x) /\ (e.ad > OldAds => \A i \in DOMAIN x : x[i].weight < e.weight)
    BY OrderedFront
  <2>2. PICK k : k = Kept(x)
    OBVIOUS
  <2>3. Ordered(k) /\ k \in Seq(S) /\ \A i \in DOMAIN k : \E j \in DOMAIN x : x[j] = k[i]
    BY <1>2, <2>1, <2>2, KeptSlots
  <2>4. Ordered(Append(k, e))
    BY <2>1, <2>3, OrderedAppend
  <2>5. Kept(Append(x, e)) = k \/ Kept(Append(x, e)) = Append(k, e)
    BY <2>2, KeptAppend
  <2>6. QED
    BY <2>3, <2>4, <2>5
<1>3. Seq(S) \subseteq P
  <2> HIDE DEF P
  <2>1. QED
    BY <1>1, <1>2, SequenceInduction
<1>4. QED
  BY <1>3

-----------------------------------------------------------------------------
\* Any number of publishers

\* A publish call that has its advertisement holds the id of one.
HoldsAd == \A p \in Publishers : pub[p].pc \in {"load", "append"} => pub[p].ad \in 1..ads

\* The weights agree with the places in the playlist and in every copy of it.
WeightsInOrder == Ordered(playlist) /\ \A p \in Publishers : Ordered(pub[p].copy)

IInv == TypeOK /\ HoldsAd /\ WeightsInOrder

\* What a publish call can be.
CallStages == {"idle", "upload", "create", "load", "append"}
SlotLists(n) == Seq([ad : {NoAd} \union 1..n, weight : Nat])
Calls(n) == [pc : CallStages, ad : {NoAd} \union 1..n, copy : SlotLists(n)]

\* A list of slots stays one when the CMS gets another advertisement.
LEMMA SlotsGrow ==
    ASSUME NEW n \in Nat, NEW m \in Nat, n <= m,
           NEW s \in SlotLists(n)
    PROVE  s \in SlotLists(m)
<1>1. PICK S, T : /\ S = [ad : {NoAd} \union 1..n, weight : Nat]
                   /\ T = [ad : {NoAd} \union 1..m, weight : Nat]
  OBVIOUS
<1>2. S \subseteq T /\ s \in Seq(S)
  BY <1>1 DEF SlotLists
<1>3. s \in Seq(T)
  BY <1>2
<1>4. QED
  BY <1>1, <1>3 DEF SlotLists

\* A publish call stays one too.
LEMMA CallsGrow ==
    ASSUME NEW n \in Nat, NEW m \in Nat, n <= m, NEW c \in Calls(n)
    PROVE  c \in Calls(m)
<1>1. PICK s : s = c.copy
  OBVIOUS
<1>2. s \in SlotLists(n)
  BY <1>1 DEF Calls
<1>3. s \in SlotLists(m)
  BY <1>2, SlotsGrow
<1>4. QED
  BY <1>1, <1>3 DEF Calls

\* Extending a list keeps it a list of slots, and in order.
LEMMA ExtendedSlots ==
    ASSUME NEW n \in Nat, NEW s \in SlotLists(n), NEW ad \in 1..n
    PROVE  /\ Extended(s, ad) \in SlotLists(n)
           /\ \E e : e.ad = ad /\ Extended(s, ad) = Append(s, e)
                     /\ e \in [ad : {NoAd} \union 1..n, weight : Nat]
           /\ Ordered(s) => Ordered(Extended(s, ad))
<1>1. PICK S : S = [ad : {NoAd} \union 1..n, weight : Nat]
  OBVIOUS
<1>2. Weighted(S) /\ s \in Seq(S)
  BY <1>1 DEF Weighted, SlotLists
<1>3. PICK w : w = NextWeight(s)
  OBVIOUS
<1>4. w \in Nat /\ \A i \in DOMAIN s : s[i].weight < w
  BY <1>2, <1>3, NextWeightAbove
<1>5. PICK e : e = [ad |-> ad, weight |-> w]
  OBVIOUS
<1>6. e \in S /\ e.ad = ad /\ e.weight = w
  BY <1>1, <1>4, <1>5
<1>7. Extended(s, ad) = Append(s, e)
  BY <1>3, <1>5 DEF Extended
<1>8. Ordered(s) => Ordered(Append(s, e))
  BY <1>2, <1>4, <1>6, OrderedAppend
<1>9. QED
  BY <1>1, <1>2, <1>6, <1>7, <1>8 DEF SlotLists

\* The invariant holds at the start, where the code has made no slot.
LEMMA InitInv == Init => IInv
<1> SUFFICES ASSUME Init PROVE IInv
  OBVIOUS
<1>1. playlist \in Seq(Slots) /\ ads \in Nat /\ ads = OldAds
  BY SlotsAssumption DEF Init, Slots
<1>2. << >> \in Seq(Slots)
  OBVIOUS
<1>3. IdleCall \in [pc : CallStages, ad : {NoAd} \union 1..ads, copy : Seq(Slots)]
  BY <1>2 DEF IdleCall, CallStages
<1>4. TypeOK
  BY <1>1, <1>3 DEF Init, TypeOK, CallStages
<1>5. HoldsAd
  BY DEF Init, HoldsAd, IdleCall
<1>6. Ordered(playlist)
  <2>1. \A j \in DOMAIN playlist : playlist[j] \in Slots
    BY <1>1
  <2>2. \A j \in DOMAIN playlist : ~(playlist[j].ad > OldAds)
    BY <1>1, <2>1 DEF Slots
  <2>3. QED
    BY <2>2 DEF Ordered
<1>7. Ordered(<< >>)
  BY DEF Ordered
<1>8. WeightsInOrder
  BY <1>6, <1>7 DEF Init, WeightsInOrder, IdleCall
<1>9. QED
  BY <1>4, <1>5, <1>8 DEF IInv

\* The invariant after a step that leaves a publish call in a state of a call,
\* and the playlist in order.
LEMMA StepInv ==
    ASSUME IInv, NEW p \in Publishers, NEW c, pub' = [pub EXCEPT ![p] = c],
           NEW n \in Nat, ads' = n, ads <= n, c \in Calls(n), Ordered(c.copy),
           c.pc \in {"load", "append"} => c.ad \in 1..n,
           NEW s \in SlotLists(n), playlist' = s, Ordered(s),
           reported' \subseteq 1..n, publishes' \in 0..MaxPublishes,
           faults' \in 0..MaxFaults
    PROVE  IInv'
<1>1. ads \in Nat /\ pub \in [Publishers -> Calls(ads)]
  BY DEF IInv, TypeOK, Calls, Slots, SlotLists, CallStages
<1>3. \A q \in Publishers : pub[q] \in Calls(n)
  BY <1>1, CallsGrow
<1>4. pub' \in [Publishers -> Calls(n)]
  BY <1>1, <1>3
<1>5. TypeOK'
  BY <1>4 DEF TypeOK, Calls, Slots, SlotLists, CallStages
<1>6. \A q \in Publishers : pub'[q] = IF q = p THEN c ELSE pub[q]
  BY <1>1
<1>7. HoldsAd'
  <2>1. \A q \in Publishers : pub[q].pc \in {"load", "append"} => pub[q].ad \in 1..n
    BY <1>1 DEF IInv, HoldsAd
  <2>2. QED
    BY <1>6, <2>1 DEF HoldsAd
<1>8. WeightsInOrder'
  <2>1. \A q \in Publishers : Ordered(pub'[q].copy)
    BY <1>6 DEF IInv, WeightsInOrder
  <2>2. QED
    BY <2>1 DEF WeightsInOrder, Ordered
<1>9. QED
  BY <1>5, <1>7, <1>8 DEF IInv

\* The same for a step without a new advertisement.
LEMMA OldAdsStepInv ==
    ASSUME IInv, NEW p \in Publishers, NEW c, pub' = [pub EXCEPT ![p] = c],
           ads' = ads, c \in Calls(ads), Ordered(c.copy),
           c.pc \in {"load", "append"} => c.ad \in 1..ads,
           NEW s \in SlotLists(ads), playlist' = s, Ordered(s),
           reported' \subseteq 1..ads, publishes' \in 0..MaxPublishes,
           faults' \in 0..MaxFaults
    PROVE  IInv'
<1>1. PICK n \in Nat : n = ads
  BY DEF IInv, TypeOK
<1>2. /\ ads' = n /\ ads <= n /\ c \in Calls(n) /\ s \in SlotLists(n) /\ reported' \subseteq 1..n
      /\ c.pc \in {"load", "append"} => c.ad \in 1..n
  BY <1>1
<1>3. QED
  BY <1>2, StepInv

\* Every step keeps the invariant.
LEMMA NextInv == ASSUME IInv, [Next]_vars PROVE IInv'
<1>1. /\ ads \in Nat /\ pub \in [Publishers -> Calls(ads)] /\ playlist \in SlotLists(ads)
      /\ reported \subseteq 1..ads /\ publishes \in 0..MaxPublishes /\ faults \in 0..MaxFaults
      /\ Ordered(playlist) /\ HoldsAd /\ \A p \in Publishers : Ordered(pub[p].copy)
  BY DEF IInv, TypeOK, Calls, Slots, SlotLists, CallStages, WeightsInOrder
<1>2. IdleCall \in Calls(ads) /\ IdleCall \in Calls(ads + 1) /\ IdleCall.pc = "idle"
      /\ Ordered(IdleCall.copy)
  BY <1>1 DEF IdleCall, Calls, SlotLists, CallStages, Ordered
<1>3. CASE UNCHANGED vars \/ Rest
  BY <1>3 DEF IInv, TypeOK, Slots, HoldsAd, WeightsInOrder, Ordered, vars, Rest
<1>4. ASSUME NEW p \in Publishers, Start(p) \/ UploadPicture(p) PROVE IInv'
  <2>1. PICK x : x = IF pub[p].pc = "idle" THEN "upload" ELSE "create"
    OBVIOUS
  <2>2. pub' = [pub EXCEPT ![p] = [pub[p] EXCEPT !.pc = x]]
    BY <1>1, <1>4, <2>1 DEF Start, UploadPicture, Goto
  <2>3. PICK c : c = [pub[p] EXCEPT !.pc = x]
    OBVIOUS
  <2>4. c \in Calls(ads) /\ c.pc = x /\ c.copy = pub[p].copy /\ x \notin {"load", "append"}
    BY <1>1, <2>1, <2>3 DEF Calls, CallStages
  <2>5. /\ ads' = ads /\ playlist' = playlist /\ reported' = reported /\ faults' = faults
        /\ publishes' \in 0..MaxPublishes
    BY <1>1, <1>4 DEF Start, UploadPicture
  <2>6. QED
    BY <1>1, <2>2, <2>3, <2>4, <2>5, OldAdsStepInv
<1>5. ASSUME NEW p \in Publishers, CreateAdvertisement(p) PROVE IInv'
  <2>1. PICK n \in Nat : n = ads + 1
    BY <1>1
  <2>2. pub' = [pub EXCEPT ![p] = [pub[p] EXCEPT !.pc = "load", !.ad = n]]
    BY <1>1, <1>5, <2>1 DEF CreateAdvertisement
  <2>3. PICK c : c = [pub[p] EXCEPT !.pc = "load", !.ad = n]
    OBVIOUS
  <2>4. ads <= n /\ n \in 1..n /\ pub[p] \in Calls(n)
    BY <1>1, <2>1, CallsGrow
  <2>5. c \in Calls(n) /\ c.ad = n /\ c.copy = pub[p].copy
    BY <2>3, <2>4 DEF Calls, CallStages
  <2>6. /\ ads' = n /\ playlist' = playlist /\ reported' = reported /\ faults' = faults
        /\ publishes' = publishes
    BY <1>5, <2>1 DEF CreateAdvertisement
  <2>7. playlist \in SlotLists(n) /\ reported \subseteq 1..n
    BY <1>1, <2>4, SlotsGrow
  <2>8. QED
    BY <1>1, <2>1, <2>2, <2>3, <2>4, <2>5, <2>6, <2>7, StepInv
<1>6. ASSUME NEW p \in Publishers, LoadPlaylist(p) PROVE IInv'
  <2>1. PICK k : k = Kept(playlist)
    OBVIOUS
  <2>2. k \in SlotLists(ads) /\ Ordered(k)
    BY <1>1, <2>1, KeptSlots, OrderedKept DEF SlotLists
  <2>3. pub' = [pub EXCEPT ![p] = [pub[p] EXCEPT !.pc = "append", !.copy = k]]
    BY <1>1, <1>6, <2>1 DEF LoadPlaylist
  <2>4. PICK c : c = [pub[p] EXCEPT !.pc = "append", !.copy = k]
    OBVIOUS
  <2>5. c \in Calls(ads) /\ c.copy = k /\ c.ad = pub[p].ad
    BY <1>1, <2>2, <2>4 DEF Calls, CallStages
  <2>6. pub[p].ad \in 1..ads
    BY <1>1, <1>6 DEF LoadPlaylist, HoldsAd
  <2>7. /\ ads' = ads /\ playlist' = playlist /\ reported' = reported /\ faults' = faults
        /\ publishes' = publishes
    BY <1>6 DEF LoadPlaylist
  <2>8. QED
    BY <1>1, <2>2, <2>3, <2>4, <2>5, <2>6, <2>7, OldAdsStepInv
<1>7. ASSUME NEW p \in Publishers, pub[p].pc = "append"
      PROVE  /\ pub[p].ad \in 1..ads
             /\ Extended(pub[p].copy, pub[p].ad) \in SlotLists(ads)
             /\ Ordered(Extended(pub[p].copy, pub[p].ad))
  <2>1. PICK s, a : s = pub[p].copy /\ a = pub[p].ad
    OBVIOUS
  <2>2. a \in 1..ads /\ s \in SlotLists(ads) /\ Ordered(s)
    BY <1>1, <1>7, <2>1 DEF HoldsAd, Calls
  <2>3. Extended(s, a) \in SlotLists(ads) /\ Ordered(Extended(s, a))
    BY <1>1, <2>2, ExtendedSlots
  <2>4. QED
    BY <2>1, <2>2, <2>3
<1>8. ASSUME NEW p \in Publishers, UpdatePlaylist(p) PROVE IInv'
  <2>1. PICK t : t = Extended(pub[p].copy, pub[p].ad)
    OBVIOUS
  <2>2. t \in SlotLists(ads) /\ Ordered(t) /\ pub[p].ad \in 1..ads
    BY <1>7, <1>8, <2>1 DEF UpdatePlaylist
  <2>3. /\ ads' = ads /\ playlist' = t /\ reported' = reported \union {pub[p].ad}
        /\ faults' = faults /\ publishes' = publishes /\ pub' = [pub EXCEPT ![p] = IdleCall]
    BY <1>8, <2>1 DEF UpdatePlaylist, Return
  <2>4. reported' \subseteq 1..ads
    BY <1>1, <2>2, <2>3
  <2>5. QED
    BY <1>1, <1>2, <2>2, <2>3, <2>4, OldAdsStepInv
<1>9. ASSUME NEW p \in Publishers, StepFails(p) PROVE IInv'
  <2>1. /\ ads' = ads \/ ads' = ads + 1
        /\ faults' = faults + 1 /\ faults < MaxFaults /\ reported' = reported
        /\ publishes' = publishes /\ pub' = [pub EXCEPT ![p] = IdleCall]
    BY <1>9 DEF StepFails, Return
  <2>2. PICK n \in Nat : n = ads'
    BY <1>1, <2>1
  <2>3. ads <= n /\ reported \subseteq 1..n /\ IdleCall \in Calls(n) /\ faults' \in 0..MaxFaults
    BY <1>1, <1>2, <2>1, <2>2
  <2>4. \/ playlist' = playlist
        \/ playlist' = Extended(pub[p].copy, pub[p].ad) /\ pub[p].pc = "append"
    BY <1>9 DEF StepFails
  <2>5. PICK t : t = playlist'
    OBVIOUS
  <2>6. t \in SlotLists(ads) /\ Ordered(t)
    BY <1>1, <1>7, <2>4, <2>5
  <2>7. t \in SlotLists(n)
    BY <1>1, <2>3, <2>6, SlotsGrow
  <2>8. publishes' \in 0..MaxPublishes /\ reported' \subseteq 1..n /\ ads' = n /\ playlist' = t
    BY <1>1, <2>1, <2>2, <2>3, <2>5
  <2>9. QED
    BY <1>2, <2>1, <2>3, <2>6, <2>7, <2>8, StepInv
<1>10. QED
  BY <1>3, <1>4, <1>5, <1>6, <1>8, <1>9 DEF Next

\* The types, the advertisements of the publish calls and the order of the
\* weights in the playlist and its copies hold in every reachable state.
THEOREM Invariant == Spec => []IInv
<1>1. QED
  BY InitInv, NextInv, PTL DEF Spec

\* The type invariant, for any number of publishers and faults.
THEOREM TypeCorrect == Spec => []TypeOK
<1>1. IInv => TypeOK
  BY DEF IInv
<1>2. QED
  BY <1>1, Invariant, PTL

\* The weights of the slots agree with their places, for any number of
\* publishers that overwrite each other's lists, and any faults.
THEOREM WeightsAgree == Spec => []NewSlotsLast
<1>1. IInv => NewSlotsLast
  BY DEF IInv, WeightsInOrder, Ordered, NewSlotsLast
<1>2. QED
  BY <1>1, Invariant, PTL

-----------------------------------------------------------------------------
\* Publishers that take turns with the playlist

\* No publish call reads the playlist while another one is between its read and
\* its write: what a lock around the two requests would achieve. Uploads, new
\* advertisements and failures overlap as before.
TakeTurns ==
    \A p, q \in Publishers : pub[p].pc = "append" /\ pub[q].pc = "append" => p = q

\* What is written back is what the playlist shows.
CopyFresh == \A p \in Publishers : pub[p].pc = "append" => pub[p].copy = Kept(playlist)

\* The advertisements that no slot shows and no publish call will show.
Lost == {ad \in (OldAds + 1)..ads :
            /\ ~IsShown(ad)
            /\ \A p \in Publishers : pub[p].pc \in {"load", "append"} => pub[p].ad # ad}

\* Every lost advertisement is the loss of a failed call.
LossesExplained == IsFiniteSet(Lost) /\ Cardinality(Lost) <= faults

\* The publish calls that have an advertisement without a slot.
Busy == {p \in Publishers : pub[p].pc \in {"load", "append"}}

TurnInv == IInv /\ PublishedIsShown /\ CopyFresh /\ LossesExplained /\ IsFiniteSet(Busy)

ShownIn(s, ad) == \E i \in DOMAIN s : s[i].ad = ad

\* A publish call that has the playlist adds its advertisement to it and takes
\* none away: what it shows is what it showed and the new one behind it.
LEMMA PostAppends ==
    ASSUME IInv, CopyFresh, NEW p \in Publishers, pub[p].pc = "append",
           NEW t, t = Extended(pub[p].copy, pub[p].ad)
    PROVE  /\ pub[p].ad \in 1..ads
           /\ ShownIn(t, pub[p].ad)
           /\ \A ad \in 1..ads : IsShown(ad) => ShownIn(t, ad)
           /\ Shown(t) = Append(Shown(playlist), pub[p].ad)
<1>1. PICK n, k, a : n = ads /\ k = Kept(playlist) /\ a = pub[p].ad
  OBVIOUS
<1>2. n \in Nat /\ playlist \in SlotLists(n) /\ a \in 1..n /\ t = Extended(k, a)
  BY <1>1 DEF IInv, TypeOK, Slots, SlotLists, HoldsAd, CopyFresh
<1>3. PICK S : S = [ad : {NoAd} \union 1..n, weight : Nat]
  OBVIOUS
<1>4. /\ k \in Seq(S) /\ Kept(k) = k
      /\ \A i \in DOMAIN playlist :
            playlist[i].ad # NoAd => \E j \in DOMAIN k : k[j] = playlist[i]
  BY <1>1, <1>2, <1>3, KeptSlots DEF SlotLists
<1>5. k \in SlotLists(n)
  BY <1>3, <1>4 DEF SlotLists
<1>6. PICK e \in S : e.ad = a /\ t = Append(k, e)
  <2>1. \E e : e.ad = a /\ Extended(k, a) = Append(k, e)
               /\ e \in [ad : {NoAd} \union 1..n, weight : Nat]
    BY <1>2, <1>5, ExtendedSlots
  <2>2. QED
    BY <1>2, <1>3, <2>1
<1>7. /\ t \in Seq(S) /\ Len(t) = Len(k) + 1 /\ t[Len(k) + 1] = e
      /\ DOMAIN t = 1..(Len(k) + 1) /\ DOMAIN k = 1..Len(k) /\ Len(k) \in Nat
      /\ \A i \in DOMAIN k : t[i] = k[i]
  BY <1>4, <1>6
<1>8. ShownIn(t, a)
  BY <1>6, <1>7 DEF ShownIn
<1>9. ASSUME NEW ad \in 1..n, IsShown(ad) PROVE ShownIn(t, ad)
  <2>1. PICK i \in DOMAIN playlist : playlist[i].ad = ad
    BY <1>9 DEF IsShown
  <2>2. PICK j \in DOMAIN k : k[j] = playlist[i]
    BY <1>2, <1>4, <2>1
  <2>3. j \in DOMAIN t /\ t[j].ad = ad
    BY <1>7, <2>1, <2>2
  <2>4. QED
    BY <2>3 DEF ShownIn
<1>10. Shown(t) = Append(Shown(playlist), a)
  <2>1. Kept(t) = t
    BY <1>2, <1>4, <1>6, KeptAppend
  <2>2. PICK x : x = Shown(playlist)
    OBVIOUS
  <2>3. x = [i \in 1..Len(k) |-> k[i].ad]
    BY <1>1, <1>7, <2>2 DEF Shown
  <2>4. \A i \in 1..Len(k) : k[i].ad \in {NoAd} \union 1..n
    <3>1. \A i \in 1..Len(k) : k[i] \in S
      BY <1>4
    <3>2. QED
      BY <1>3, <3>1
  <2>5. PICK l, A : l = Len(k) /\ A = {NoAd} \union 1..n
    OBVIOUS
  <2>6. x \in Seq(A) /\ Len(x) = l /\ a \in A /\ l \in Nat
    <3>1. x \in [1..l -> A] /\ l \in Nat
      BY <1>7, <2>3, <2>4, <2>5
    <3>2. QED
      BY <1>2, <2>5, <3>1
  <2>10. Append(x, a) = [i \in 1..(l + 1) |-> IF i = l + 1 THEN a ELSE x[i]]
    <3>1. PICK y : y = Append(x, a)
      OBVIOUS
    <3>2. y \in Seq(A) /\ Len(y) = l + 1
      BY <2>6, <3>1
    <3>3. y = [i \in 1..(l + 1) |-> y[i]]
      BY <3>2
    <3>4. \A i \in 1..(l + 1) : y[i] = IF i = l + 1 THEN a ELSE x[i]
      BY <2>6, <3>1
    <3>5. QED
      BY <3>1, <3>3, <3>4
  <2>7. Shown(t) = [i \in 1..(Len(k) + 1) |-> t[i].ad]
    BY <1>7, <2>1 DEF Shown
  <2>8. ASSUME NEW i \in 1..(Len(k) + 1)
        PROVE  t[i].ad = IF i = Len(k) + 1 THEN a ELSE x[i]
    BY <1>6, <1>7, <2>3
  <2>9. QED
    BY <2>2, <2>5, <2>7, <2>8, <2>10
<1>11. QED
  BY <1>1, <1>2, <1>8, <1>9, <1>10

\* Losses stay explained when at most one advertisement is lost in a step, and
\* none without a failure.
LEMMA LossesStep ==
    ASSUME LossesExplained, faults \in Nat, NEW x,
           \/ Lost' \subseteq Lost /\ faults' = faults
           \/ Lost' \subseteq Lost \union {x} /\ faults' = faults + 1
    PROVE  LossesExplained'
<1>1. PICK A, n : A = Lost /\ n = Cardinality(A)
  OBVIOUS
<1>2. IsFiniteSet(A) /\ n <= faults /\ n \in Nat
  BY <1>1, FS_CardinalityType DEF LossesExplained
<1>3. PICK B : B = Lost'
  OBVIOUS
<1>4. CASE B \subseteq A /\ faults' = faults
  <2>1. IsFiniteSet(B) /\ Cardinality(B) <= n
    BY <1>1, <1>2, <1>4, FS_Subset
  <2>2. Cardinality(B) <= faults'
    BY <1>2, <1>4, <2>1, FS_CardinalityType
  <2>3. QED
    BY <1>3, <2>1, <2>2 DEF LossesExplained
<1>5. CASE B \subseteq A \union {x} /\ faults' = faults + 1
  <2>1. IsFiniteSet(A \union {x}) /\ Cardinality(A \union {x}) <= n + 1
    BY <1>1, <1>2, FS_AddElement
  <2>2. /\ IsFiniteSet(B) /\ Cardinality(B) <= Cardinality(A \union {x})
        /\ Cardinality(B) \in Nat /\ Cardinality(A \union {x}) \in Nat
    BY <1>5, <2>1, FS_Subset, FS_CardinalityType
  <2>3. Cardinality(B) <= faults'
    BY <1>2, <1>5, <2>1, <2>2
  <2>4. QED
    BY <1>3, <2>2, <2>3 DEF LossesExplained
<1>6. QED
  BY <1>1, <1>3, <1>4, <1>5

\* At the start no advertisement of the code is in the CMS.
LEMMA TurnInit == Init => TurnInv
<1> SUFFICES ASSUME Init PROVE TurnInv
  OBVIOUS
<1>1. IInv
  BY InitInv
<1>2. PublishedIsShown /\ CopyFresh
  BY DEF Init, PublishedIsShown, CopyFresh, IdleCall
<1>3. Lost = {}
  BY DEF Init, Lost
<1>4. LossesExplained
  BY <1>3, FS_EmptySet DEF Init, LossesExplained
<1>5. Busy = {}
  BY DEF Init, Busy, IdleCall
<1>6. QED
  BY <1>1, <1>2, <1>4, <1>5, FS_EmptySet DEF TurnInv

\* A step makes one more call busy at most.
LEMMA BusyStep == ASSUME TypeOK, IsFiniteSet(Busy), [Next]_vars PROVE IsFiniteSet(Busy')
<1>1. \E p : Busy' \subseteq Busy \union {p}
  <2>1. CASE UNCHANGED vars
    BY <2>1 DEF vars, Busy
  <2>2. CASE Rest
    BY <2>2 DEF Rest, vars, Busy
  <2>3. ASSUME NEW p \in Publishers,
               \/ Start(p) \/ UploadPicture(p) \/ CreateAdvertisement(p)
               \/ LoadPlaylist(p) \/ UpdatePlaylist(p) \/ StepFails(p)
        PROVE  Busy' \subseteq Busy \union {p}
    <3>1. \A q \in Publishers : q # p => pub'[q] = pub[q]
      BY <2>3 DEF Start, UploadPicture, CreateAdvertisement, LoadPlaylist, UpdatePlaylist,
                  StepFails, Goto, Return, TypeOK
    <3>2. QED
      BY <3>1 DEF Busy
  <2>4. QED
    BY <2>1, <2>2, <2>3 DEF Next
<1>2. PICK p : Busy' \subseteq Busy \union {p}
  BY <1>1
<1>3. IsFiniteSet(Busy \union {p})
  BY FS_AddElement
<1>4. QED
  BY <1>2, <1>3, FS_Subset

\* A step of publishers that take turns keeps what was reported in the
\* playlist, and loses an advertisement only when it fails.
LEMMA TurnStep ==
    ASSUME TakeTurns, TurnInv, Next PROVE TurnInv'
<1>1. /\ IInv /\ IInv' /\ PublishedIsShown /\ CopyFresh /\ LossesExplained
      /\ ads \in Nat /\ faults \in Nat /\ HoldsAd /\ reported \subseteq 1..ads
      /\ pub \in [Publishers -> Calls(ads)]
  <2>1. IInv'
    BY NextInv DEF TurnInv
  <2>2. /\ ads \in Nat /\ faults \in Nat /\ HoldsAd /\ reported \subseteq 1..ads
        /\ pub \in [Publishers -> Calls(ads)]
    <3>1. TypeOK /\ HoldsAd
      BY DEF TurnInv, IInv
    <3>2. ads \in Nat /\ faults \in Nat /\ reported \subseteq 1..ads
      BY <3>1 DEF TypeOK
    <3>3. pub \in [Publishers -> Calls(ads)]
      BY <3>1 DEF TypeOK, Calls, Slots, SlotLists, CallStages
    <3>4. QED
      BY <3>1, <3>2, <3>3
  <2>3. QED
    BY <2>1, <2>2 DEF TurnInv
<1>12. IsFiniteSet(Busy')
  BY BusyStep DEF TurnInv, IInv
<1>2. SUFFICES PublishedIsShown' /\ CopyFresh' /\ LossesExplained'
  BY <1>1, <1>12 DEF TurnInv
<1>3. CASE Rest
  BY <1>1, <1>3
     DEF Rest, vars, PublishedIsShown, IsShown, CopyFresh, LossesExplained, Lost
<1>4. ASSUME NEW p \in Publishers, pub' = [pub EXCEPT ![p] = pub'[p]], playlist' = playlist,
             reported' = reported
      PROVE  /\ PublishedIsShown'
             /\ \A ad : IsShown(ad)' <=> IsShown(ad)
             /\ \A q \in Publishers : q # p => pub'[q] = pub[q]
  BY <1>1, <1>4 DEF PublishedIsShown, IsShown
<1>5. ASSUME NEW p \in Publishers, Start(p) \/ UploadPicture(p)
      PROVE  PublishedIsShown' /\ CopyFresh' /\ LossesExplained'
  <2>1. PICK x : x = IF pub[p].pc = "idle" THEN "upload" ELSE "create"
    OBVIOUS
  <2>2. /\ pub' = [pub EXCEPT ![p] = [pub[p] EXCEPT !.pc = x]]
        /\ x \notin {"load", "append"} /\ pub[p].pc \notin {"load", "append"}
        /\ playlist' = playlist /\ reported' = reported /\ ads' = ads /\ faults' = faults
    BY <1>1, <1>5, <2>1 DEF Start, UploadPicture, Goto
  <2>3. pub'[p].pc = x /\ pub' = [pub EXCEPT ![p] = pub'[p]]
    BY <1>1, <2>2 DEF Calls
  <2>4. /\ PublishedIsShown'
        /\ \A ad : IsShown(ad)' <=> IsShown(ad)
        /\ \A q \in Publishers : q # p => pub'[q] = pub[q]
    BY <1>4, <2>2, <2>3
  <2>5. CopyFresh'
    BY <1>1, <2>2, <2>3, <2>4 DEF CopyFresh
  <2>6. Lost' \subseteq Lost
    BY <2>2, <2>3, <2>4 DEF Lost
  <2>7. QED
    BY <1>1, <2>2, <2>4, <2>5, <2>6, LossesStep
<1>6. ASSUME NEW p \in Publishers, CreateAdvertisement(p)
      PROVE  PublishedIsShown' /\ CopyFresh' /\ LossesExplained'
  <2>1. PICK n \in Nat : n = ads + 1
    BY <1>1
  <2>2. /\ pub' = [pub EXCEPT ![p] = [pub[p] EXCEPT !.pc = "load", !.ad = n]]
        /\ pub[p].pc = "create"
        /\ playlist' = playlist /\ reported' = reported /\ ads' = n /\ faults' = faults
    BY <1>1, <1>6, <2>1 DEF CreateAdvertisement
  <2>3. pub'[p].pc = "load" /\ pub'[p].ad = n /\ pub' = [pub EXCEPT ![p] = pub'[p]]
    BY <1>1, <2>2 DEF Calls
  <2>4. /\ PublishedIsShown'
        /\ \A ad : IsShown(ad)' <=> IsShown(ad)
        /\ \A q \in Publishers : q # p => pub'[q] = pub[q]
    BY <1>4, <2>2, <2>3
  <2>5. CopyFresh'
    BY <1>1, <2>2, <2>3, <2>4 DEF CopyFresh
  <2>6. Lost' \subseteq Lost
    <3> SUFFICES ASSUME NEW ad \in Lost' PROVE ad \in Lost
      OBVIOUS
    <3>1. ad \in (OldAds + 1)..n /\ ~IsShown(ad)' /\ ad # n
      BY <2>2, <2>3 DEF Lost
    <3>2. ad \in (OldAds + 1)..ads /\ ~IsShown(ad)
      BY <1>1, <2>1, <2>4, <3>1
    <3>3. QED
      BY <2>2, <2>4, <3>2 DEF Lost
  <2>7. QED
    BY <1>1, <2>2, <2>4, <2>5, <2>6, LossesStep
<1>7. ASSUME NEW p \in Publishers, LoadPlaylist(p)
      PROVE  PublishedIsShown' /\ CopyFresh' /\ LossesExplained'
  <2>1. PICK k : k = Kept(playlist)
    OBVIOUS
  <2>2. /\ pub' = [pub EXCEPT ![p] = [pub[p] EXCEPT !.pc = "append", !.copy = k]]
        /\ pub[p].pc = "load"
        /\ playlist' = playlist /\ reported' = reported /\ ads' = ads /\ faults' = faults
    BY <1>1, <1>7, <2>1 DEF LoadPlaylist
  <2>3. /\ pub'[p].pc = "append" /\ pub'[p].ad = pub[p].ad /\ pub'[p].copy = k
        /\ pub' = [pub EXCEPT ![p] = pub'[p]]
    BY <1>1, <2>2 DEF Calls
  <2>4. /\ PublishedIsShown'
        /\ \A ad : IsShown(ad)' <=> IsShown(ad)
        /\ \A q \in Publishers : q # p => pub'[q] = pub[q]
    BY <1>4, <2>2, <2>3
  <2>5. CopyFresh'
    BY <1>1, <2>1, <2>2, <2>3, <2>4 DEF CopyFresh
  <2>6. Lost' \subseteq Lost
    BY <2>2, <2>3, <2>4 DEF Lost
  <2>7. QED
    BY <1>1, <2>2, <2>4, <2>5, <2>6, LossesStep
<1>8. ASSUME NEW p \in Publishers, pub[p].pc = "append",
             playlist' = Extended(pub[p].copy, pub[p].ad)
      PROVE  /\ pub[p].ad \in 1..ads
             /\ \A ad \in 1..ads : IsShown(ad) \/ ad = pub[p].ad => IsShown(ad)'
  <2>1. PICK t : t = playlist'
    OBVIOUS
  <2>2. /\ pub[p].ad \in 1..ads
        /\ ShownIn(t, pub[p].ad)
        /\ \A ad \in 1..ads : IsShown(ad) => ShownIn(t, ad)
    BY <1>1, <1>8, <2>1, PostAppends
  <2>3. \A ad : IsShown(ad)' <=> ShownIn(t, ad)
    BY <2>1 DEF IsShown, ShownIn
  <2>4. QED
    BY <2>2, <2>3
<1>9. ASSUME NEW p \in Publishers, UpdatePlaylist(p)
      PROVE  PublishedIsShown' /\ CopyFresh' /\ LossesExplained'
  <2>1. PICK a : a = pub[p].ad
    OBVIOUS
  <2>2. /\ pub' = [pub EXCEPT ![p] = IdleCall] /\ pub[p].pc = "append"
        /\ playlist' = Extended(pub[p].copy, a)
        /\ reported' = reported \union {a} /\ ads' = ads /\ faults' = faults
    BY <1>9, <2>1 DEF UpdatePlaylist, Return
  <2>3. /\ \A q \in Publishers : q # p => pub'[q] = pub[q] /\ pub[q].pc # "append"
        /\ pub'[p].pc = "idle"
    BY <1>1, <2>2 DEF TakeTurns, IdleCall
  <2>4. /\ a \in 1..ads
        /\ \A ad \in 1..ads : IsShown(ad) \/ ad = a => IsShown(ad)'
    BY <1>8, <2>1, <2>2
  <2>5. PublishedIsShown'
    BY <1>1, <2>2, <2>4 DEF PublishedIsShown
  <2>6. CopyFresh'
    BY <1>1, <2>3 DEF CopyFresh
  <2>7. Lost' \subseteq Lost
    <3> SUFFICES ASSUME NEW ad \in Lost' PROVE ad \in Lost
      OBVIOUS
    <3>1. ad \in (OldAds + 1)..ads /\ ~IsShown(ad)' /\ ad \in 1..ads
      BY <1>1, <2>2 DEF Lost
    <3>2. ~IsShown(ad) /\ ad # a
      BY <2>4, <3>1
    <3>3. QED
      BY <2>1, <2>3, <3>1, <3>2 DEF Lost
  <2>8. QED
    BY <1>1, <2>2, <2>5, <2>6, <2>7, LossesStep
<1>10. ASSUME NEW p \in Publishers, StepFails(p)
       PROVE  PublishedIsShown' /\ CopyFresh' /\ LossesExplained'
  <2>1. /\ pub' = [pub EXCEPT ![p] = IdleCall] /\ reported' = reported /\ faults' = faults + 1
        /\ \/ ads' = ads
           \/ ads' = ads + 1 /\ pub[p].pc = "create"
        /\ \/ playlist' = playlist
           \/ playlist' = Extended(pub[p].copy, pub[p].ad) /\ pub[p].pc = "append"
    BY <1>10 DEF StepFails, Return
  <2>2. /\ \A q \in Publishers :
              q # p => /\ pub'[q] = pub[q]
                       /\ playlist' # playlist => pub[q].pc # "append"
        /\ pub'[p].pc = "idle"
    BY <1>1, <2>1 DEF TakeTurns, IdleCall
  <2>3. \A ad \in 1..ads : IsShown(ad) => IsShown(ad)'
    BY <1>8, <2>1 DEF IsShown
  <2>4. PublishedIsShown'
    BY <1>1, <2>1, <2>3 DEF PublishedIsShown
  <2>5. CopyFresh'
    BY <1>1, <2>2 DEF CopyFresh
  <2>6. PICK x : x = IF pub[p].pc = "create" THEN ads + 1 ELSE pub[p].ad
    OBVIOUS
  <2>7. Lost' \subseteq Lost \union {x}
    <3> SUFFICES ASSUME NEW ad \in Lost', ad # x PROVE ad \in Lost
      OBVIOUS
    <3>1. ad \in (OldAds + 1)..ads' /\ ~IsShown(ad)'
      BY DEF Lost
    <3>2. ad \in (OldAds + 1)..ads /\ ad \in 1..ads
      BY <1>1, <2>1, <2>6, <3>1
    <3>3. ~IsShown(ad)
      BY <2>3, <3>1, <3>2
    <3>4. pub[p].pc \in {"load", "append"} => pub[p].ad # ad
      BY <2>6
    <3>5. QED
      BY <2>2, <3>2, <3>3, <3>4 DEF Lost
  <2>8. QED
    BY <1>1, <2>1, <2>4, <2>5, <2>7, LossesStep
<1>11. QED
  BY <1>3, <1>5, <1>6, <1>7, <1>9, <1>10 DEF Next

\* A step that changes nothing keeps the invariant of the turns too.
LEMMA TurnNext == ASSUME TakeTurns, TurnInv, [Next]_vars PROVE TurnInv'
<1>1. CASE UNCHANGED vars
  <2>1. IInv'
    BY <1>1, NextInv DEF TurnInv
  <2>2. QED
    BY <1>1, <2>1
       DEF TurnInv, vars, PublishedIsShown, IsShown, CopyFresh, LossesExplained, Lost, Busy
<1>2. QED
  BY <1>1, TurnStep

\* The invariant of publishers that take turns.
THEOREM TurnsInvariant == Spec /\ []TakeTurns => []TurnInv
<1>1. TakeTurns /\ TurnInv /\ [Next]_vars => TurnInv'
  BY TurnNext
<1>2. QED
  BY <1>1, TurnInit, PTL DEF Spec

\* While publishers take turns with the playlist, what was reported to the
\* operator as published stays in it, whatever steps fail.
THEOREM PublishedStays == Spec /\ []TakeTurns => []PublishedIsShown
<1>1. TurnInv => PublishedIsShown
  BY DEF TurnInv
<1>2. QED
  BY <1>1, TurnsInvariant, PTL

\* While publishers take turns with the playlist, every advertisement that no
\* slot shows belongs to a call under way or to a failed one of its own.
THEOREM OrphansCounted == Spec /\ []TakeTurns => []OrphansExplained
<1>1. ASSUME TurnInv PROVE OrphansExplained
  <2>1. PICK A, n : A = Lost /\ n = Cardinality(A)
    OBVIOUS
  <2>2. IsFiniteSet(A) /\ n <= faults /\ n \in Nat /\ faults \in Nat
    BY <1>1, <2>1, FS_CardinalityType DEF TurnInv, LossesExplained, IInv, TypeOK
  <2>3. PICK O, B : /\ O = {ad \in (OldAds + 1)..ads : ~IsShown(ad)}
                    /\ B = {p \in Publishers : pub[p].pc \in {"load", "append"}}
    OBVIOUS
  <2>4. IsFiniteSet(B) /\ Cardinality(B) \in Nat
    BY <1>1, <2>3, FS_CardinalityType DEF TurnInv, Busy
  <2>5. PICK f, T : f = [p \in B |-> pub[p].ad] /\ T = {f[p] : p \in B}
    OBVIOUS
  <2>6. f \in Surjection(B, T)
    <3>1. f \in [B -> T] /\ \A t \in T : \E p \in B : f[p] = t
      BY <2>5
    <3>2. QED
      BY <3>1 DEF Surjection
  <2>7. IsFiniteSet(T) /\ Cardinality(T) <= Cardinality(B) /\ Cardinality(T) \in Nat
    BY <2>4, <2>6, FS_Surjection, FS_CardinalityType
  <2>8. O \subseteq A \union T
    BY <2>1, <2>3, <2>5 DEF Lost
  <2>9. /\ IsFiniteSet(A \union T)
        /\ Cardinality(A \union T) <= n + Cardinality(T)
        /\ Cardinality(A \union T) \in Nat
    <3>1. /\ IsFiniteSet(A \union T)
          /\ Cardinality(A \union T) = Cardinality(A) + Cardinality(T) - Cardinality(A \cap T)
      BY <2>2, <2>7, FS_Union
    <3>2. Cardinality(A \cap T) \in Nat /\ Cardinality(A \union T) \in Nat
      BY <2>2, <3>1, FS_Intersection, FS_CardinalityType
    <3>3. QED
      BY <2>1, <2>2, <2>7, <3>1, <3>2
  <2>10. Cardinality(O) <= Cardinality(A \union T) /\ Cardinality(O) \in Nat
    BY <2>8, <2>9, FS_Subset, FS_CardinalityType
  <2>11. Cardinality(O) <= faults + Cardinality(B)
    BY <2>2, <2>4, <2>7, <2>9, <2>10
  <2>12. QED
    BY <2>3, <2>11 DEF OrphansExplained
<1>2. QED
  BY <1>1, TurnsInvariant, PTL

\* While publishers take turns with the playlist, every change of it puts one
\* advertisement behind those it shows, and moves or removes none.
THEOREM AppendsOnly == Spec /\ []TakeTurns => AlwaysAppended
<1>1. ASSUME TurnInv, [Next]_vars
      PROVE  [playlist' # playlist =>
                \E ad \in 1..ads : Shown(playlist') = Append(Shown(playlist), ad)]_vars
  <2> SUFFICES ASSUME playlist' # playlist
               PROVE  \E ad \in 1..ads : Shown(playlist') = Append(Shown(playlist), ad)
    OBVIOUS
  <2>1. PICK p \in Publishers : pub[p].pc = "append"
                                /\ playlist' = Extended(pub[p].copy, pub[p].ad)
    BY <1>1 DEF Next, vars, Rest, Start, UploadPicture, CreateAdvertisement, LoadPlaylist,
                UpdatePlaylist, StepFails
  <2>2. PICK t : t = playlist'
    OBVIOUS
  <2>3. pub[p].ad \in 1..ads /\ Shown(t) = Append(Shown(playlist), pub[p].ad)
    BY <1>1, <2>1, <2>2, PostAppends DEF TurnInv
  <2>4. QED
    BY <2>2, <2>3
<1>2. QED
  BY <1>1, TurnsInvariant, PTL DEF Spec, AlwaysAppended

\* A publisher alone always has its turn: with publish calls that follow one
\* another nothing has to be assumed.
COROLLARY OnePublisher ==
    ASSUME \A p, q \in Publishers : p = q
    PROVE  Spec => [](PublishedIsShown /\ OrphansExplained) /\ AlwaysAppended
<1>1. TakeTurns
  BY DEF TakeTurns
<1>2. QED
  BY <1>1, PublishedStays, OrphansCounted, AppendsOnly, PTL

=============================================================================
