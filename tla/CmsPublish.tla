------------------------------ MODULE CmsPublish ------------------------------
(***************************************************************************)
(* Publishing an image to the CMS (CityScreenCMSPublisher): upload it,     *)
(* create an advertisement, GET the playlist, and POST the whole slot list *)
(* back with a slot for the advertisement at its end. The steps are HTTP   *)
(* calls of their own, so publishers overlap, and each may fail before or  *)
(* after it took effect; nothing is undone then, and the operator or the   *)
(* queue starts again with a new advertisement.                            *)
(*                                                                         *)
(* The CMS is modelled from how the code uses it: advertisements get fresh *)
(* ids and a POST replaces the slots. Of a slot only its advertisement and *)
(* its weight are kept.                                                    *)
(***************************************************************************)
EXTENDS Integers, Sequences, FiniteSets

CONSTANTS
    Publishers,     \* publish calls that may overlap
    InitialSlots,   \* what the playlist shows before: [ad, weight]
    OldAds,         \* advertisements 1..OldAds exist before
    MaxPublishes,   \* bound: publish calls
    MaxFaults       \* bound: steps that fail

NoAd == 0           \* a slot without a parseable advertisement id

ASSUME BoundsAssumption == MaxPublishes \in Nat /\ MaxFaults \in Nat /\ OldAds \in Nat
ASSUME SlotsAssumption ==
    InitialSlots \in Seq([ad : {NoAd} \union 1..OldAds, weight : Nat])

VARIABLES
    playlist,   \* the slots of the playlist (external)
    ads,        \* number of advertisements in the CMS (external)
    pub,        \* what each publish call does
    reported,   \* advertisements whose publish call returned
    publishes,  \* publish calls so far
    faults      \* failed steps so far

vars == <<playlist, ads, pub, reported, publishes, faults>>

Slots == [ad : {NoAd} \union 1..ads, weight : Nat]
IdleCall == [pc |-> "idle", ad |-> NoAd, copy |-> <<>>]

TypeOK ==
    /\ ads \in Nat
    /\ playlist \in Seq(Slots)
    /\ pub \in [Publishers -> [pc : {"idle", "upload", "create", "load", "append"},
                               ad : {NoAd} \union 1..ads, copy : Seq(Slots)]]
    /\ reported \subseteq 1..ads
    /\ publishes \in 0..MaxPublishes
    /\ faults \in 0..MaxFaults

Init ==
    /\ playlist = InitialSlots
    /\ ads = OldAds
    /\ pub = [p \in Publishers |-> IdleCall]
    /\ reported = {}
    /\ publishes = 0
    /\ faults = 0

-----------------------------------------------------------------------------
\* Slot lists

\* _normalize_playlist_slot drops a slot whose advertisement has no id.
Kept(slots) ==
    LET kept[n \in 0..Len(slots)] ==
            IF n = 0 THEN << >>
            ELSE IF slots[n].ad = NoAd THEN kept[n - 1]
            ELSE Append(kept[n - 1], slots[n])
    IN  kept[Len(slots)]

\* Mutant: the weight is the position.
NextWeightByLength(slots) == Len(slots)

\* One more than the largest weight, 0 for an empty list.
NextWeight(slots) ==
    CHOOSE w \in {0} \union {slots[i].weight + 1 : i \in DOMAIN slots} :
        \A i \in DOMAIN slots : slots[i].weight < w

\* Mutant: the slot is put in front.
ExtendedInFront(slots, ad) == <<[ad |-> ad, weight |-> NextWeight(slots)]>> \o slots

Extended(slots, ad) == Append(slots, [ad |-> ad, weight |-> NextWeight(slots)])

-----------------------------------------------------------------------------
\* Steps

Goto(p, pc) == pub' = [pub EXCEPT ![p].pc = pc]
Return(p) == pub' = [pub EXCEPT ![p] = IdleCall]

Start(p) ==
    /\ pub[p].pc = "idle"
    /\ publishes < MaxPublishes
    /\ publishes' = publishes + 1
    /\ Goto(p, "upload")
    /\ UNCHANGED <<playlist, ads, reported, faults>>

\* The image is downloaded, fitted to the screen and uploaded.
UploadPicture(p) ==
    /\ pub[p].pc = "upload"
    /\ Goto(p, "create")
    /\ UNCHANGED <<playlist, ads, reported, publishes, faults>>

\* Mutant: the id is made up before the CMS has the advertisement.
CreateUnconfirmed(p) ==
    /\ pub[p].pc = "create"
    /\ pub' = [pub EXCEPT ![p].pc = "load", ![p].ad = ads + 1]
    /\ UNCHANGED <<playlist, ads, reported, publishes, faults>>

CreateAdvertisement(p) ==
    /\ pub[p].pc = "create"
    /\ ads' = ads + 1
    /\ pub' = [pub EXCEPT ![p].pc = "load", ![p].ad = ads + 1]
    /\ UNCHANGED <<playlist, reported, publishes, faults>>

LoadPlaylist(p) ==
    /\ pub[p].pc = "load"
    /\ pub' = [pub EXCEPT ![p].pc = "append", ![p].copy = Kept(playlist)]
    /\ UNCHANGED <<playlist, ads, reported, publishes, faults>>

\* Mutant: the slots are written back as they were read.
UpdateWithoutSlot(p) ==
    /\ pub[p].pc = "append"
    /\ playlist' = pub[p].copy
    /\ reported' = reported \union {pub[p].ad}
    /\ Return(p)
    /\ UNCHANGED <<ads, publishes, faults>>

UpdatePlaylist(p) ==
    /\ pub[p].pc = "append"
    /\ playlist' = Extended(pub[p].copy, pub[p].ad)
    /\ reported' = reported \union {pub[p].ad}
    /\ Return(p)
    /\ UNCHANGED <<ads, publishes, faults>>

\* A step raises: the CMS refused it, or did it and its answer is lost or
\* not understood.
StepFails(p) ==
    /\ pub[p].pc # "idle"
    /\ faults < MaxFaults
    /\ faults' = faults + 1
    /\ Return(p)
    /\ ads' \in IF pub[p].pc = "create" THEN {ads, ads + 1} ELSE {ads}
    /\ playlist' \in IF pub[p].pc = "append"
                     THEN {playlist, Extended(pub[p].copy, pub[p].ad)} ELSE {playlist}
    /\ UNCHANGED <<reported, publishes>>

Rest ==
    /\ publishes = MaxPublishes
    /\ \A p \in Publishers : pub[p].pc = "idle"
    /\ UNCHANGED vars

Next ==
    \/ \E p \in Publishers :
          \/ Start(p) \/ UploadPicture(p) \/ CreateAdvertisement(p)
          \/ LoadPlaylist(p) \/ UpdatePlaylist(p) \/ StepFails(p)
    \/ Rest

Spec == Init /\ [][Next]_vars

-----------------------------------------------------------------------------
\* Properties

\* The advertisements the playlist shows, in order.
Shown(slots) == [i \in DOMAIN Kept(slots) |-> Kept(slots)[i].ad]
IsShown(ad) == \E i \in DOMAIN playlist : playlist[i].ad = ad

\* "New advertisements are always appended to the existing CMS playlist": a
\* change of the playlist puts one advertisement behind those it shows.
AlwaysAppended ==
    [][playlist' # playlist =>
          \E ad \in 1..ads : Shown(playlist') = Append(Shown(playlist), ad)]_vars

\* What was reported to the operator as published is in the playlist.
PublishedIsShown == \A ad \in reported : IsShown(ad)

\* The weight of a slot agrees with its place: every slot the code made is
\* heavier than the slots before it, also when publishers overwrite each
\* other's lists.
NewSlotsLast ==
    \A i, j \in DOMAIN playlist :
        i < j /\ playlist[j].ad > OldAds => playlist[i].weight < playlist[j].weight

\* An advertisement that no slot shows belongs to a publish call under way
\* or to one that failed.
OrphansExplained ==
    Cardinality({ad \in (OldAds + 1)..ads : ~IsShown(ad)})
        <= faults + Cardinality({p \in Publishers : pub[p].pc \in {"load", "append"}})

=============================================================================
