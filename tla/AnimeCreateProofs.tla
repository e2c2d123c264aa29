------------------------- MODULE AnimeCreateProofs -------------------------
(***************************************************************************)
(* Theorems of AnimeCreate, for any files, hits, folders, anime and number *)
(* of visits.  The state falls into two halves that share only the timers: *)
(* the page, which every handler changes, and the submissions.             *)
(***************************************************************************)
EXTENDS AnimeCreate, TLAPS

VisitTypes ==
  /\ page \in {"open", "elsewhere", "left"} /\ navigating \in BOOLEAN
  /\ visit \in Visit
  /\ lateHits \subseteq Hit /\ lateLookups \subseteq 1 .. visit

PageTypes ==
  /\ cover \in Image
  /\ stagedCover \in Asset \cup {None} /\ stagedAssets \subseteq Asset
  /\ live \subseteq Asset /\ picked \subseteq Asset
  /\ search \in [kind : {"none", "cover", "single", "list"}, hits : SUBSET Hit]
  /\ adopted \in BOOLEAN /\ snapshot \in Image /\ slotCover \in BOOLEAN
  /\ adoption \in
       [Candidate -> [running : BOOLEAN, fill : BOOLEAN, cover : Image]]
  /\ draftResult \in BOOLEAN /\ lookup \in [running : BOOLEAN, cover : Image]

PageOK == PageTypes /\ DraftNamesStagedCover /\ FilePreviewsNotLeaked

SubmissionTypes ==
  /\ phase \in [Visit -> {"idle", "creating", "uploading"}]
  /\ sent \in [Visit -> [cover : Asset \cup {None}, assets : SUBSET Asset]]
  /\ created \subseteq Anime
  /\ wanted \in [Anime -> SUBSET Asset] /\ linked \in [Anime -> SUBSET Asset]
  /\ timer \in [Visit -> Anime \cup {None}]
  /\ current \in [Visit -> Anime \cup {None}]
  /\ \A v \in Visit : current[v] # None =>
       phase[v] = "uploading" /\ Missing(v) # {}
  /\ \A v \in Visit : phase[v] = "uploading" => current[v] # None

(* Files are linked only to anime that exist and were submitted with them,  *)
(* and only for such an anime files are uploaded, by one visit.             *)
LinkedWereWanted ==
  /\ \A a \in Anime : linked[a] \subseteq wanted[a]
  /\ \A a \in Anime \ created : linked[a] = {}
  /\ \A v \in Visit : current[v] # None => current[v] \in created
  /\ \A v, w \in Visit : current[v] # None /\ current[v] = current[w] => v = w

SubmissionOK ==
  /\ SubmissionTypes /\ LinkedWereWanted
  /\ RedirectComplete /\ RedirectSparesOwnSubmission

IInv == VisitTypes /\ PageOK /\ SubmissionOK

(* What the page does to the timers: one of them, or all, may be stopped.   *)
TimersStop ==
  \/ timer' = timer
  \/ \E v \in Visit : timer' = [timer EXCEPT ![v] = None]
  \/ timer' = [v \in Visit |-> None]

(* The page opens in the inductive invariant.                               *)
LEMMA InitIInv == Init => IInv
<1> SUFFICES ASSUME Init PROVE IInv
  OBVIOUS
<1>0. VisitTypes
  <2>1. 1 \in Visit
    BY VisitAssumption DEF Visit
  <2> QED  BY <2>1 DEF Init, VisitTypes
<1>1. PageTypes
  BY DEF Init, PageTypes, Image, NoSearch, NoAdoption, NoLookup
<1>2. DraftNamesStagedCover /\ FilePreviewsNotLeaked
  BY DEF Init, DraftNamesStagedCover, FilePreviewsNotLeaked
<1>3. SubmissionTypes
  BY DEF Init, SubmissionTypes, NoFiles
<1>4. LinkedWereWanted /\ RedirectComplete /\ RedirectSparesOwnSubmission
  BY DEF Init, LinkedWereWanted, RedirectComplete, RedirectSparesOwnSubmission
<1> QED  BY <1>0, <1>1, <1>2, <1>3, <1>4 DEF IInv, PageOK, SubmissionOK

-----------------------------------------------------------------------------
(* Restaging keeps the previews of picked files to what is staged, provided *)
(* that every fresh one is.                                                 *)
LEMMA RestageKeeps ==
  ASSUME VisitTypes, PageOK, NEW c \in Asset \cup {None}, NEW as \in SUBSET Asset,
         NEW fresh \in SUBSET Asset, fresh \cap File \subseteq Elements(c, as),
         Restage(c, as, fresh)
  PROVE  /\ stagedCover' \in Asset \cup {None} /\ stagedAssets' \subseteq Asset
         /\ live' \subseteq Asset
         /\ FilePreviewsNotLeaked'
         /\ TimersStop
BY DEF Restage, VisitTypes, PageOK, PageTypes, FilePreviewsNotLeaked, Held,
       Elements, TimersStop

(* Applying a draft to the page drops the staged cover with its preview.    *)
LEMMA ApplyKeeps ==
  ASSUME VisitTypes, PageOK, NEW c \in Image, Apply(c)
  PROVE  /\ cover' \in Image /\ stagedCover' = None
         /\ stagedAssets' \subseteq Asset /\ live' \subseteq Asset
         /\ picked' \subseteq Asset
         /\ DraftNamesStagedCover' /\ FilePreviewsNotLeaked'
         /\ TimersStop
<1>1. Restage(None, stagedAssets, {}) /\ cover' = c /\ picked' = picked
  BY DEF Apply
<1>2. stagedAssets \in SUBSET Asset /\ picked \subseteq Asset
  BY DEF PageOK, PageTypes
<1>3. /\ stagedAssets' \subseteq Asset /\ live' \subseteq Asset
      /\ FilePreviewsNotLeaked' /\ TimersStop
  BY <1>1, <1>2, RestageKeeps
<1>4. stagedCover' = None
  BY <1>1 DEF Restage
<1> QED  BY <1>1, <1>2, <1>3, <1>4 DEF DraftNamesStagedCover

(* Staging, adopting search hits and the draft: no such step leaves the     *)
(* page's half of the invariant, and timers are at most stopped.            *)
LEMMA StagingStep ==
  ASSUME VisitTypes, PageOK,
         \/ \E f \in File : PickCover(f) \/ StageFile(f)
         \/ \E g \in Asset : RemoveStaged(g)
         \/ \E kind \in {"cover", "single", "list"}, hits \in SUBSET Hit :
              StartSearchAdoption(kind, hits)
         \/ SearchAdopted
         \/ SearchFails
         \/ \E h \in Hit : LateHit(h)
  PROVE  PageOK' /\ TimersStop /\ UNCHANGED <<submit, server>>
<1> USE DEF Asset
<1>1. ASSUME NEW f \in File, PickCover(f) PROVE PageOK' /\ TimersStop
  <2>1. stagedAssets \in SUBSET Asset  BY DEF PageOK, PageTypes
  <2>2. {f} \cap File \subseteq Elements(f, stagedAssets)
    BY AssetAssumption DEF Elements
  <2>3. Restage(f, stagedAssets, {f})  BY <1>1 DEF PickCover
  <2>4. /\ stagedCover' \in Asset \cup {None} /\ stagedAssets' \subseteq Asset
        /\ live' \subseteq Asset /\ FilePreviewsNotLeaked'
        /\ TimersStop
    BY <2>1, <2>2, <2>3, RestageKeeps
  <2> QED
    BY <1>1, <2>3, <2>4
       DEF PickCover, Restage, PageOK, PageTypes, DraftNamesStagedCover, Image,
           jelly, ani
<1>2. ASSUME NEW f \in File, StageFile(f) PROVE PageOK' /\ TimersStop
  <2>1. PICK r \in {{}} \cup {{g} : g \in stagedAssets} :
          Restage(stagedCover, (stagedAssets \ r) \cup {f}, {f})
    BY <1>2 DEF StageFile
  <2>2. /\ (stagedAssets \ r) \cup {f} \in SUBSET Asset
        /\ stagedCover \in Asset \cup {None}
    BY DEF PageOK, PageTypes
  <2>3. {f} \cap File \subseteq Elements(stagedCover, (stagedAssets \ r) \cup {f})
    BY DEF Elements
  <2>4. /\ stagedCover' \in Asset \cup {None} /\ stagedAssets' \subseteq Asset
        /\ live' \subseteq Asset /\ FilePreviewsNotLeaked'
        /\ TimersStop
    BY <2>1, <2>2, <2>3, RestageKeeps
  <2>5. stagedCover' = stagedCover  BY <2>1 DEF Restage
  <2> QED
    BY <1>2, <2>4, <2>5
       DEF StageFile, PageOK, PageTypes, DraftNamesStagedCover, jelly, ani
<1>3. ASSUME NEW g \in Asset, RemoveStaged(g)
      PROVE  PageOK' /\ TimersStop
  <2>1. Restage(stagedCover, stagedAssets \ {g}, {})  BY <1>3 DEF RemoveStaged
  <2>2. /\ stagedAssets \ {g} \in SUBSET Asset
        /\ stagedCover \in Asset \cup {None}
        /\ {} \in SUBSET Asset
        /\ {} \cap File \subseteq Elements(stagedCover, stagedAssets \ {g})
    BY DEF PageOK, PageTypes
  <2>3. /\ stagedCover' \in Asset \cup {None} /\ stagedAssets' \subseteq Asset
        /\ live' \subseteq Asset /\ FilePreviewsNotLeaked'
        /\ TimersStop
    BY <2>1, <2>2, RestageKeeps
  <2>4. stagedCover' = stagedCover  BY <2>1 DEF Restage
  <2> QED
    BY <1>3, <2>3, <2>4
       DEF RemoveStaged, PageOK, PageTypes, DraftNamesStagedCover, jelly, ani
<1>4. ASSUME NEW kind \in {"cover", "single", "list"}, NEW hits \in SUBSET Hit,
             StartSearchAdoption(kind, hits)
      PROVE  PageOK' /\ TimersStop
  BY <1>4
     DEF StartSearchAdoption, PageOK, PageTypes, DraftNamesStagedCover,
         FilePreviewsNotLeaked, Held, Elements, jelly, ani, TimersStop
<1>5. ASSUME SearchAdopted PROVE PageOK' /\ TimersStop
  <2>1. search.hits \subseteq Hit /\ search.hits \in SUBSET Asset
        /\ search.hits \cap File = {}
    BY AssetAssumption DEF PageOK, PageTypes
  <2>2. stagedAssets \in SUBSET Asset /\ stagedCover \in Asset \cup {None}
    BY DEF PageOK, PageTypes
  <2>3. /\ cover' \in Image /\ DraftNamesStagedCover'
        /\ stagedCover' \in Asset \cup {None} /\ stagedAssets' \subseteq Asset
        /\ live' \subseteq Asset /\ FilePreviewsNotLeaked'
        /\ TimersStop
    <3>2. CASE \E h \in search.hits :
                 cover' = h /\ Restage(h, stagedAssets, search.hits)
      <4>1. PICK h \in search.hits :
              cover' = h /\ Restage(h, stagedAssets, search.hits)
        BY <3>2
      <4>2. /\ stagedCover' \in Asset \cup {None} /\ stagedAssets' \subseteq Asset
            /\ live' \subseteq Asset /\ FilePreviewsNotLeaked'
            /\ TimersStop
        <5>1. h \in Asset \cup {None}
              /\ search.hits \cap File \subseteq Elements(h, stagedAssets)
          BY <2>1
        <5> QED  BY <2>1, <2>2, <4>1, <5>1, RestageKeeps
      <4> QED
        BY <2>1, <4>1, <4>2 DEF Restage, DraftNamesStagedCover, Image
    <3>3. ASSUME NEW as \in SUBSET Asset,
                 Restage(stagedCover, as, search.hits), UNCHANGED cover
          PROVE  /\ cover' \in Image /\ DraftNamesStagedCover'
                 /\ stagedCover' \in Asset \cup {None}
                 /\ stagedAssets' \subseteq Asset
                 /\ live' \subseteq Asset /\ FilePreviewsNotLeaked'
                 /\ TimersStop
      <4>1. search.hits \cap File \subseteq Elements(stagedCover, as)
        BY <2>1
      <4>2. /\ stagedCover' \in Asset \cup {None} /\ stagedAssets' \subseteq Asset
            /\ live' \subseteq Asset /\ FilePreviewsNotLeaked'
            /\ TimersStop
        BY <2>1, <2>2, <3>3, <4>1, RestageKeeps
      <4> QED
        BY <3>3, <4>2 DEF Restage, PageOK, PageTypes, DraftNamesStagedCover
    <3>4. CASE \E r \in {{}} \cup {{g} : g \in stagedAssets} :
                 /\ Restage(stagedCover, (stagedAssets \ r) \cup search.hits,
                            search.hits)
                 /\ UNCHANGED cover
      <4>1. PICK r \in {{}} \cup {{g} : g \in stagedAssets} :
                 /\ Restage(stagedCover, (stagedAssets \ r) \cup search.hits,
                            search.hits)
                 /\ UNCHANGED cover
        BY <3>4
      <4>2. (stagedAssets \ r) \cup search.hits \in SUBSET Asset
        BY <2>1, <2>2
      <4> QED  BY <3>3, <4>1, <4>2
    <3>5. CASE /\ Restage(stagedCover, stagedAssets \cup search.hits, search.hits)
               /\ UNCHANGED cover
      <4>1. stagedAssets \cup search.hits \in SUBSET Asset  BY <2>1, <2>2
      <4> QED  BY <3>3, <3>5, <4>1
    <3> QED  BY <1>5, <3>2, <3>4, <3>5 DEF SearchAdopted
  <2> QED
    BY <1>5, <2>3
       DEF SearchAdopted, PageOK, PageTypes, NoSearch, jelly, ani
<1>6. ASSUME SearchFails PROVE PageOK' /\ TimersStop
  <2>1. search.hits \subseteq Hit  BY DEF PageOK, PageTypes
  <2> QED
    BY <1>6, <2>1, AssetAssumption
       DEF SearchFails, PageOK, PageTypes, DraftNamesStagedCover,
           FilePreviewsNotLeaked, Held, Elements, NoSearch, jelly, ani, TimersStop
<1>7. ASSUME NEW h \in Hit, LateHit(h) PROVE PageOK' /\ TimersStop
  BY <1>7, AssetAssumption
     DEF LateHit, PageOK, PageTypes, DraftNamesStagedCover,
         FilePreviewsNotLeaked, Held, Elements, jelly, ani, TimersStop
<1>8. UNCHANGED <<submit, server>>
  BY DEF PickCover, StageFile, RemoveStaged, StartSearchAdoption,
         SearchAdopted, SearchFails, LateHit
<1> QED  BY <1>1, <1>2, <1>3, <1>4, <1>5, <1>6, <1>7, <1>8

(* The providers, and coming and going: the same.                           *)
LEMMA SourceStep ==
  ASSUME VisitTypes, PageOK,
         \/ \E c \in Candidate :
              AdoptJellyfin(c) \/ JellyfinAnswered(c) \/ JellyfinFails(c)
         \/ DiscardJellyfin \/ RemoveCover \/ RemoveOtherSlot
         \/ ClearAniSearch \/ LoadAniSearch
         \/ AniSearchAnswered \/ AniSearchConflict \/ AniSearchFails
         \/ \E v \in Visit : LateLookup(v) \/ Redirect(v)
         \/ GoElsewhere \/ ComeBack \/ LeaveDocument
  PROVE  PageOK' /\ TimersStop /\ UNCHANGED <<submit, server>>
<1>1. ASSUME NEW c \in Candidate,
             AdoptJellyfin(c) \/ JellyfinAnswered(c) \/ JellyfinFails(c)
      PROVE  PageOK' /\ TimersStop
  <2>1. adoption[c] \in [running : BOOLEAN, fill : BOOLEAN, cover : Image]
    BY DEF PageOK, PageTypes
  <2>2. CASE AdoptJellyfin(c)
    BY <2>2
       DEF AdoptJellyfin, PageOK, PageTypes, DraftNamesStagedCover,
           FilePreviewsNotLeaked, Held, Elements, staging, ani, TimersStop
  <2>3. CASE JellyfinFails(c)
    BY <2>3
       DEF JellyfinFails, PageOK, PageTypes, DraftNamesStagedCover,
           FilePreviewsNotLeaked, Held, Elements, staging, ani, NoAdoption, Image,
           TimersStop
  <2>4. CASE JellyfinAnswered(c)
    <3>1. adoption' \in
            [Candidate -> [running : BOOLEAN, fill : BOOLEAN, cover : Image]]
      BY <2>4 DEF JellyfinAnswered, PageOK, PageTypes, NoAdoption, Image
    <3>2. PICK image \in {None, "jellyfin"} :
            /\ Apply(JellyfinDraftCover(adoption[c].fill, adoption[c].cover,
                                        image))
            /\ slotCover' = (image # None)
      BY <2>4 DEF JellyfinAnswered
    <3>3. JellyfinDraftCover(adoption[c].fill, adoption[c].cover, image) \in Image
      BY <2>1 DEF JellyfinDraftCover, Or, Image
    <3>4. /\ cover' \in Image /\ stagedCover' = None
          /\ stagedAssets' \subseteq Asset /\ live' \subseteq Asset
          /\ picked' \subseteq Asset
          /\ DraftNamesStagedCover' /\ FilePreviewsNotLeaked' /\ TimersStop
      BY <3>2, <3>3, ApplyKeeps
    <3> QED
      BY <2>1, <2>4, <3>1, <3>2, <3>4 DEF JellyfinAnswered, PageOK, PageTypes, ani
  <2> QED  BY <1>1, <2>2, <2>3, <2>4
<1>2. ASSUME NEW c \in Image, Apply(c),
             search' = search /\ adoption' = adoption
             /\ lookup' \in [running : BOOLEAN, cover : Image]
             /\ draftResult' \in BOOLEAN
             /\ adopted' \in BOOLEAN /\ slotCover' \in BOOLEAN
             /\ snapshot' \in Image
      PROVE  PageOK' /\ TimersStop
  <2>1. /\ cover' \in Image /\ stagedCover' = None
        /\ stagedAssets' \subseteq Asset /\ live' \subseteq Asset
        /\ picked' \subseteq Asset
        /\ DraftNamesStagedCover' /\ FilePreviewsNotLeaked'
        /\ TimersStop
    BY <1>2, ApplyKeeps
  <2> QED  BY <1>2, <2>1 DEF PageOK, PageTypes
<1>3. CASE DiscardJellyfin
  <2>1. snapshot \in Image  BY DEF PageOK, PageTypes
  <2>2. /\ None \in Image /\ draftResult' \in BOOLEAN
        /\ lookup' \in [running : BOOLEAN, cover : Image]
    BY <1>3 DEF DiscardJellyfin, ani, PageOK, PageTypes, Image
  <2> QED  BY <1>2, <1>3, <2>1, <2>2 DEF DiscardJellyfin
<1>4. CASE RemoveCover
  <2>1. /\ cover \in Image /\ None \in Image /\ snapshot \in Image
        /\ adopted \in BOOLEAN /\ draftResult \in BOOLEAN
        /\ lookup \in [running : BOOLEAN, cover : Image]
    BY DEF PageOK, PageTypes, Image
  <2> QED  BY <1>2, <1>4, <2>1 DEF RemoveCover, ani
<1>5. CASE RemoveOtherSlot
  <2>1. cover \in Image /\ snapshot \in Image /\ adopted \in BOOLEAN
        /\ slotCover \in BOOLEAN /\ draftResult \in BOOLEAN
        /\ lookup \in [running : BOOLEAN, cover : Image]
    BY DEF PageOK, PageTypes
  <2> QED  BY <1>2, <1>5, <2>1 DEF RemoveOtherSlot, ani, jelly
<1>6. CASE AniSearchAnswered
  <2>1. /\ lookup.cover \in Image /\ snapshot \in Image
        /\ adopted \in BOOLEAN /\ slotCover \in BOOLEAN
        /\ lookup' \in [running : BOOLEAN, cover : Image]
    BY <1>6 DEF AniSearchAnswered, NoLookup, PageOK, PageTypes, Image
  <2> QED  BY <1>2, <1>6, <2>1 DEF AniSearchAnswered, jelly
<1>7. CASE ClearAniSearch \/ AniSearchFails \/ AniSearchConflict
           \/ \E v \in Visit : LateLookup(v)
  <2>1. lookup' \in [running : BOOLEAN, cover : Image]
    <3>1. /\ lookup \in [running : BOOLEAN, cover : Image]
          /\ NoLookup \in [running : BOOLEAN, cover : Image]
      BY DEF PageOK, PageTypes, NoLookup, Image
    <3>2. lookup' = lookup \/ lookup' = NoLookup
      BY <1>7 DEF ClearAniSearch, AniSearchFails, AniSearchConflict, LateLookup, ani
    <3> QED  BY <3>1, <3>2
  <2>2. /\ draftResult' \in BOOLEAN
        /\ UNCHANGED <<cover, staging, search, jelly, submit, server, timer>>
    BY <1>7
       DEF ClearAniSearch, AniSearchFails, AniSearchConflict, LateLookup, ani,
           PageOK, PageTypes
  <2>3. PageTypes'
    BY <2>1, <2>2 DEF PageOK, PageTypes, staging, jelly
  <2>4. DraftNamesStagedCover' /\ FilePreviewsNotLeaked'
    BY <2>2
       DEF PageOK, DraftNamesStagedCover, FilePreviewsNotLeaked, Held, Elements,
           staging
  <2> QED  BY <2>2, <2>3, <2>4 DEF PageOK, TimersStop
<1>8. CASE LoadAniSearch
  <2>1. lookup' \in [running : BOOLEAN, cover : Image]
    BY <1>8 DEF LoadAniSearch, AniSearchDraftCover, PageOK, PageTypes, Or, Image
  <2> QED
    BY <1>8, <2>1
       DEF LoadAniSearch, PageOK, PageTypes, DraftNamesStagedCover,
           FilePreviewsNotLeaked, Held, Elements, staging, jelly, TimersStop
<1>9. CASE LeaveDocument
  BY <1>9
     DEF LeaveDocument, Unmounted, PageOK, PageTypes, DraftNamesStagedCover,
         FilePreviewsNotLeaked, Held, Elements, NoSearch, NoAdoption, NoLookup,
         Image, TimersStop
<1>10. CASE GoElsewhere
  BY <1>10
     DEF GoElsewhere, Unmounted, VisitTypes, PageOK, PageTypes,
         DraftNamesStagedCover, FilePreviewsNotLeaked, Held, Elements, NoSearch,
         NoAdoption, NoLookup, Image, TimersStop
<1>11. ASSUME ComeBack \/ \E v \in Visit : Redirect(v)
       PROVE  PageOK' /\ TimersStop
  BY <1>11
     DEF Redirect, ComeBack, PageOK, PageTypes, DraftNamesStagedCover,
         FilePreviewsNotLeaked, Held, Elements, staging, jelly, ani, TimersStop
<1>12. UNCHANGED <<submit, server>>
  BY DEF AdoptJellyfin, JellyfinAnswered, JellyfinFails, DiscardJellyfin,
         RemoveCover, RemoveOtherSlot, ClearAniSearch, LoadAniSearch,
         AniSearchAnswered, AniSearchConflict, AniSearchFails, LateLookup,
         Redirect, ComeBack, GoElsewhere, LeaveDocument
<1> QED
  BY <1>1, <1>3, <1>4, <1>5, <1>6, <1>7, <1>8, <1>9, <1>10, <1>11, <1>12

(* Whatever the page does, its effect on submissions and on redirects is at *)
(* most that redirects are stopped.                                         *)
LEMMA StoppedTimerKeeps ==
  ASSUME SubmissionOK, TimersStop, UNCHANGED <<submit, server>>
  PROVE  SubmissionOK'
<1>1. /\ timer' \in [Visit -> Anime \cup {None}]
      /\ \A v \in Visit : timer'[v] \in {timer[v], None}
  BY DEF TimersStop, SubmissionOK, SubmissionTypes
<1> QED
  BY <1>1
     DEF SubmissionOK, SubmissionTypes, Missing, LinkedWereWanted,
         RedirectComplete, RedirectSparesOwnSubmission, submit, server

(* Visits are only begun, and what outlives them was running when they      *)
(* ended.                                                                   *)
LEMMA VisitStep == VisitTypes /\ PageOK /\ [Next]_vars => VisitTypes'
<1> SUFFICES ASSUME VisitTypes, PageOK, [Next]_vars PROVE VisitTypes'
  OBVIOUS
<1>1. CASE UNCHANGED visits
  BY <1>1 DEF visits, VisitTypes
<1>2. ASSUME NEW h \in Hit, LateHit(h) PROVE VisitTypes'
  BY <1>2 DEF LateHit, VisitTypes
<1>3. CASE AniSearchConflict
  BY <1>3 DEF AniSearchConflict, VisitTypes
<1>4. ASSUME NEW v \in Visit, LateLookup(v) \/ Redirect(v)
      PROVE  VisitTypes'
  BY <1>4 DEF LateLookup, Redirect, VisitTypes
<1>5. CASE GoElsewhere
  <2>1. search.hits \subseteq Hit
    BY DEF PageOK, PageTypes
  <2>2. visit \in 1 .. visit
    BY VisitAssumption DEF VisitTypes, Visit
  <2> QED  BY <1>5, <2>1, <2>2 DEF GoElsewhere, VisitTypes
<1>6. CASE ComeBack
  <2>1. visit' \in Visit /\ 1 .. visit \subseteq 1 .. visit'
    BY <1>6, VisitAssumption DEF ComeBack, VisitTypes, Visit
  <2> QED  BY <1>6, <2>1 DEF ComeBack, VisitTypes
<1>7. CASE LeaveDocument
  BY <1>7 DEF LeaveDocument, VisitTypes
<1>8. CASE \/ \E f \in File : PickCover(f) \/ StageFile(f)
           \/ \E g \in Asset : RemoveStaged(g)
           \/ \E kind \in {"cover", "single", "list"}, hits \in SUBSET Hit :
                StartSearchAdoption(kind, hits)
           \/ SearchAdopted
           \/ SearchFails
           \/ \E c \in Candidate :
                AdoptJellyfin(c) \/ JellyfinAnswered(c) \/ JellyfinFails(c)
           \/ DiscardJellyfin \/ RemoveCover \/ RemoveOtherSlot
           \/ ClearAniSearch \/ LoadAniSearch
           \/ AniSearchAnswered \/ AniSearchFails
           \/ Submit \/ SubmitRefused
           \/ \E v \in Visit :
                \/ CreateFails(v)
                \/ \E a \in Anime : CreateSucceeds(v, a)
                \/ \E f \in Asset : UploadLinks(v, f) \/ UploadFails(v, f)
           \/ UNCHANGED vars
  <2>1. UNCHANGED visits
    BY <1>8
       DEF PickCover, StageFile, RemoveStaged, StartSearchAdoption,
           SearchAdopted, SearchFails, AdoptJellyfin, JellyfinAnswered,
           JellyfinFails, DiscardJellyfin, RemoveCover, RemoveOtherSlot,
           ClearAniSearch, LoadAniSearch, AniSearchAnswered, AniSearchFails,
           Submit, SubmitRefused, CreateFails, CreateSucceeds, UploadLinks,
           UploadFails, vars
  <2> QED  BY <1>1, <2>1
<1> QED  BY <1>2, <1>3, <1>4, <1>5, <1>6, <1>7, <1>8 DEF Next

-----------------------------------------------------------------------------
(* The steps of a submission keep its half of the invariant.                *)
LEMMA SubmissionStep ==
  ASSUME VisitTypes, PageOK, SubmissionOK,
         \/ Submit \/ SubmitRefused
         \/ \E v \in Visit :
              \/ CreateFails(v)
              \/ \E a \in Anime : CreateSucceeds(v, a)
              \/ \E f \in Asset : UploadLinks(v, f) \/ UploadFails(v, f)
  PROVE  PageOK' /\ SubmissionOK'
<1> USE DEF SubmissionOK, SubmissionTypes, LinkedWereWanted, RedirectComplete,
            RedirectSparesOwnSubmission, Missing, submit
<1>1. PageOK'
  <2>1. UNCHANGED <<cover, staging, search, jelly, ani>>
    BY DEF Submit, SubmitRefused, CreateFails, CreateSucceeds, UploadLinks,
           UploadFails
  <2> QED
    BY <2>1
       DEF PageOK, PageTypes, DraftNamesStagedCover, FilePreviewsNotLeaked,
           Held, Elements, staging, jelly, ani
<1>2. ASSUME Submit PROVE SubmissionOK'
  <2>1. /\ visit \in Visit /\ phase[visit] = "idle"
        /\ phase' = [phase EXCEPT ![visit] = "creating"]
        /\ timer' = [timer EXCEPT ![visit] = None]
        /\ sent' \in [Visit -> [cover : Asset \cup {None}, assets : SUBSET Asset]]
        /\ UNCHANGED <<current, created, wanted, linked>>
    BY <1>2 DEF Submit, CanCreate, VisitTypes, PageOK, PageTypes, server
  <2>2. current[visit] = None
    BY <2>1
  <2> QED  BY <2>1, <2>2
<1>3. ASSUME SubmitRefused PROVE SubmissionOK'
  <2>1. TimersStop
    BY <1>3 DEF SubmitRefused, TimersStop, VisitTypes
  <2> QED  BY <1>3, <2>1, StoppedTimerKeeps DEF SubmitRefused
<1>4. ASSUME NEW v \in Visit
      PROVE  Elements(sent[v].cover, sent[v].assets) \subseteq Asset
  BY <1>4 DEF Elements
<1>5. ASSUME NEW v \in Visit, NEW a \in Anime, Created(v, a)
      PROVE  /\ a \notin created /\ created' = created \cup {a}
             /\ linked[a] = {}
             /\ wanted' \in [Anime -> SUBSET Asset]
             /\ wanted'[a] = Elements(sent[v].cover, sent[v].assets)
             /\ \A b \in Anime \ {a} : wanted'[b] = wanted[b]
  BY <1>4, <1>5 DEF Created
<1>6. ASSUME NEW v \in Visit, CreateFails(v) PROVE SubmissionOK'
  <2>1. /\ phase[v] = "creating" /\ timer[v] = None /\ current[v] = None
        /\ phase' = [phase EXCEPT ![v] = "idle"] /\ current' = current
        /\ sent' \in [Visit -> [cover : Asset \cup {None}, assets : SUBSET Asset]]
        /\ UNCHANGED <<linked, timer>>
    BY <1>6 DEF CreateFails, Idle, NoFiles
  <2>2. CASE UNCHANGED <<created, wanted>>
    BY <2>1, <2>2
  <2>3. ASSUME NEW a \in Anime, Created(v, a) PROVE SubmissionOK'
    <3>1. /\ a \notin created /\ created' = created \cup {a}
          /\ linked[a] = {}
          /\ wanted' \in [Anime -> SUBSET Asset]
          /\ \A b \in Anime \ {a} : wanted'[b] = wanted[b]
      BY <1>5, <2>3
    <3>2. \A w \in Visit : current[w] # None =>
            phase'[w] = "uploading" /\ wanted'[current[w]] = wanted[current[w]]
      BY <2>1, <3>1
    <3>11. SubmissionTypes'
      BY <2>1, <3>1, <3>2
    <3>12. LinkedWereWanted'
      BY <2>1, <3>1
    <3>13. RedirectComplete' /\ RedirectSparesOwnSubmission'
      BY <2>1, <3>1
    <3> QED  BY <3>11, <3>12, <3>13
  <2> QED  BY <1>6, <2>2, <2>3 DEF CreateFails
<1>7. ASSUME NEW v \in Visit, NEW a \in Anime, CreateSucceeds(v, a)
      PROVE  SubmissionOK'
  <2>1. /\ phase[v] = "creating" /\ timer[v] = None /\ current[v] = None
        /\ Created(v, a) /\ UNCHANGED linked
    BY <1>7 DEF CreateSucceeds
  <2>2. /\ a \notin created /\ created' = created \cup {a}
        /\ linked[a] = {}
        /\ wanted' \in [Anime -> SUBSET Asset]
        /\ wanted'[a] = Elements(sent[v].cover, sent[v].assets)
        /\ \A b \in Anime \ {a} : wanted'[b] = wanted[b]
    BY <1>5, <2>1
  <2>3. CASE Elements(sent[v].cover, sent[v].assets) = {} /\ Finish(v, a)
    <3>1. /\ current' = current /\ phase' = [phase EXCEPT ![v] = "idle"]
          /\ timer' \in [Visit -> Anime \cup {None}]
          /\ sent' \in [Visit -> [cover : Asset \cup {None}, assets : SUBSET Asset]]
      BY <2>1, <2>3 DEF Finish, Idle, NoFiles
    <3>11. SubmissionTypes'
      BY <2>1, <2>2, <3>1
    <3>12. LinkedWereWanted'
      BY <2>1, <2>2, <2>3, NoneAssumption DEF Finish, Idle
    <3>13. RedirectComplete'
      BY <2>1, <2>2, <2>3, NoneAssumption DEF Finish, Idle
    <3>14. RedirectSparesOwnSubmission'
      BY <2>1, <2>2, <2>3, NoneAssumption DEF Finish, Idle
    <3> QED  BY <3>11, <3>12, <3>13, <3>14
  <2>4. CASE /\ Elements(sent[v].cover, sent[v].assets) # {}
             /\ phase' = [phase EXCEPT ![v] = "uploading"]
             /\ current' = [current EXCEPT ![v] = a]
             /\ UNCHANGED <<sent, timer>>
    <3>1. \A w \in Visit \ {v} :
            /\ phase'[w] = phase[w] /\ current'[w] = current[w]
            /\ current[w] # None => wanted'[current[w]] = wanted[current[w]]
      BY <2>1, <2>2, <2>4
    <3>2. /\ phase'[v] = "uploading" /\ current'[v] = a /\ a # None
          /\ wanted'[a] \ linked'[a] # {}
      BY <2>1, <2>2, <2>4, NoneAssumption
    <3>11. SubmissionTypes'
      BY <2>1, <2>2, <2>4, <3>1, <3>2
    <3>12. LinkedWereWanted'
      BY <2>1, <2>2, <2>4, NoneAssumption
    <3>13. RedirectComplete'
      BY <2>1, <2>2, <2>4, NoneAssumption
    <3>14. RedirectSparesOwnSubmission'
      BY <2>1, <2>2, <2>4, NoneAssumption
    <3> QED  BY <3>11, <3>12, <3>13, <3>14
  <2> QED  BY <1>7, <2>3, <2>4 DEF CreateSucceeds
<1>8. ASSUME NEW v \in Visit, NEW f \in Asset, Due(v, f) PROVE
        /\ timer[v] = None /\ current[v] \in Anime /\ current[v] \in created
        /\ phase[v] = "uploading" /\ f \in wanted[current[v]] \ linked[current[v]]
        /\ \A w \in Visit : timer[w] # current[v]
        /\ \A w \in Visit \ {v} : current[w] # current[v]
  BY <1>8, NoneAssumption DEF Due
<1>9. ASSUME NEW v \in Visit, NEW f \in Asset, UploadLinks(v, f)
      PROVE  SubmissionOK'
  <2>1. /\ timer[v] = None /\ current[v] \in Anime /\ current[v] \in created
        /\ phase[v] = "uploading" /\ f \in wanted[current[v]] \ linked[current[v]]
        /\ \A w \in Visit : timer[w] # current[v]
        /\ \A w \in Visit \ {v} : current[w] # current[v]
    BY <1>8, <1>9 DEF UploadLinks
  <2>2. /\ linked' \in [Anime -> SUBSET Asset]
        /\ linked'[current[v]] = linked[current[v]] \cup {f}
        /\ \A b \in Anime \ {current[v]} : linked'[b] = linked[b]
        /\ UNCHANGED <<created, wanted>>
    BY <1>9, <2>1 DEF UploadLinks, Link
  <2>3. CASE wanted[current[v]] \ linked[current[v]] = {f} /\ Finish(v, current[v])
    <3>1. linked'[current[v]] = wanted[current[v]]
      BY <2>1, <2>2, <2>3
    <3>2. /\ phase' = [phase EXCEPT ![v] = "idle"]
          /\ current' = [current EXCEPT ![v] = None]
          /\ timer' = [timer EXCEPT ![v] = current[v]]
          /\ sent' \in [Visit -> [cover : Asset \cup {None}, assets : SUBSET Asset]]
      BY <2>3 DEF Finish, Idle, NoFiles
    <3>3. ASSUME NEW w \in Visit, current'[w] # None
          PROVE  /\ w # v /\ current'[w] = current[w] /\ phase'[w] = "uploading"
                 /\ wanted[current[w]] \ linked'[current[w]] # {}
      BY <2>1, <2>2, <3>2, <3>3
    <3>4. ASSUME NEW b \in Anime
          PROVE  linked'[b] \subseteq wanted'[b] /\ (b \notin created' => linked'[b] = {})
      <4>1. CASE b = current[v]
        BY <2>1, <2>2, <4>1
      <4>2. CASE b # current[v]
        BY <2>2, <4>2
      <4> QED  BY <4>1, <4>2
    <3>11. SubmissionTypes'
      BY <2>1, <2>2, <3>2, <3>3
    <3>12. LinkedWereWanted'
      BY <2>2, <3>2, <3>3, <3>4
    <3>13. RedirectComplete'
      BY <2>1, <2>2, <3>1, <3>2
    <3>14. RedirectSparesOwnSubmission'
      BY <2>1, <3>2
    <3> QED  BY <3>11, <3>12, <3>13, <3>14
  <2>4. CASE /\ wanted[current[v]] \ linked[current[v]] # {f}
             /\ UNCHANGED <<submit, timer>>
    <3>1. wanted[current[v]] \ linked'[current[v]] # {}
      BY <2>1, <2>2, <2>4
    <3>2. ASSUME NEW w \in Visit, current[w] # None
          PROVE  phase[w] = "uploading" /\ wanted[current[w]] \ linked'[current[w]] # {}
      BY <2>1, <2>2, <3>1, <3>2
    <3>4. /\ \A w \in Visit : current'[w] # None =>
               phase'[w] = "uploading" /\ wanted'[current'[w]] \ linked'[current'[w]] # {}
          /\ \A w \in Visit : phase'[w] = "uploading" => current'[w] # None
      BY <2>2, <2>4, <3>2
    <3>11. SubmissionTypes'
      BY <2>2, <2>4, <3>4
    <3>3. ASSUME NEW a \in Anime
          PROVE  linked'[a] \subseteq wanted'[a] /\ (a \notin created' => linked'[a] = {})
      <4>1. CASE a = current[v]
        BY <2>1, <2>2, <4>1
      <4>2. CASE a # current[v]
        BY <2>2, <4>2
      <4> QED  BY <4>1, <4>2
    <3>12. LinkedWereWanted'
      BY <2>2, <2>4, <3>3
    <3>13. RedirectComplete'
      BY <2>1, <2>2, <2>4
    <3>14. RedirectSparesOwnSubmission'
      BY <2>1, <2>2, <2>4
    <3> QED  BY <3>11, <3>12, <3>13, <3>14
  <2> QED  BY <1>9, <2>3, <2>4 DEF UploadLinks
<1>10. ASSUME NEW v \in Visit, NEW f \in Asset, UploadFails(v, f)
       PROVE  SubmissionOK'
  <2>1. /\ timer[v] = None /\ current[v] \in Anime /\ current[v] \in created
        /\ phase[v] = "uploading" /\ f \in wanted[current[v]] \ linked[current[v]]
        /\ \A w \in Visit : timer[w] # current[v]
        /\ \A w \in Visit \ {v} : current[w] # current[v]
    BY <1>8, <1>10 DEF UploadFails
  <2>2. /\ linked' \in [Anime -> SUBSET Asset]
        /\ linked'[current[v]] \in {linked[current[v]], linked[current[v]] \cup {f}}
        /\ \A b \in Anime \ {current[v]} : linked'[b] = linked[b]
        /\ phase' = [phase EXCEPT ![v] = "idle"]
        /\ current' = [current EXCEPT ![v] = None]
        /\ sent' \in [Visit -> [cover : Asset \cup {None}, assets : SUBSET Asset]]
        /\ UNCHANGED <<created, wanted, timer>>
    BY <1>10, <2>1 DEF UploadFails, Link, Idle, NoFiles
  <2>3. ASSUME NEW w \in Visit, current'[w] # None
        PROVE  /\ w # v /\ current'[w] = current[w] /\ phase'[w] = "uploading"
               /\ wanted[current[w]] \ linked'[current[w]] # {}
    BY <2>1, <2>2, <2>3
  <2>11. SubmissionTypes'
    BY <2>2, <2>3
  <2>4. ASSUME NEW a \in Anime
        PROVE  linked'[a] \subseteq wanted'[a] /\ (a \notin created' => linked'[a] = {})
    <3>1. CASE a = current[v]
      BY <2>1, <2>2, <3>1
    <3>2. CASE a # current[v]
      BY <2>2, <3>2
    <3> QED  BY <3>1, <3>2
  <2>12. LinkedWereWanted'
    BY <2>2, <2>3, <2>4
  <2>13. RedirectComplete'
    BY <2>1, <2>2
  <2>14. RedirectSparesOwnSubmission'
    BY <2>1, <2>2
  <2> QED  BY <2>11, <2>12, <2>13, <2>14
<1> QED  BY <1>1, <1>2, <1>3, <1>6, <1>7, <1>9, <1>10

(* The invariant is inductive.                                              *)
LEMMA StepIInv == IInv /\ [Next]_vars => IInv'
<1> SUFFICES ASSUME IInv, [Next]_vars PROVE IInv'
  OBVIOUS
<1> USE DEF IInv
<1>1. VisitTypes'
  BY VisitStep
<1>2. CASE UNCHANGED vars
  <2>1. PageOK'
    BY <1>2
       DEF vars, staging, jelly, ani, PageOK, PageTypes, DraftNamesStagedCover,
           FilePreviewsNotLeaked, Held, Elements
  <2>2. TimersStop /\ UNCHANGED <<submit, server>>
    BY <1>2 DEF vars, TimersStop
  <2> QED  BY <1>1, <2>1, <2>2, StoppedTimerKeeps
<1>3. CASE \/ \E f \in File : PickCover(f) \/ StageFile(f)
           \/ \E g \in Asset : RemoveStaged(g)
           \/ \E kind \in {"cover", "single", "list"}, hits \in SUBSET Hit :
                StartSearchAdoption(kind, hits)
           \/ SearchAdopted
           \/ SearchFails
           \/ \E h \in Hit : LateHit(h)
  BY <1>1, <1>3, StagingStep, StoppedTimerKeeps
<1>4. CASE \/ \E c \in Candidate :
                AdoptJellyfin(c) \/ JellyfinAnswered(c) \/ JellyfinFails(c)
           \/ DiscardJellyfin \/ RemoveCover \/ RemoveOtherSlot
           \/ ClearAniSearch \/ LoadAniSearch
           \/ AniSearchAnswered \/ AniSearchConflict \/ AniSearchFails
           \/ \E v \in Visit : LateLookup(v) \/ Redirect(v)
           \/ GoElsewhere \/ ComeBack \/ LeaveDocument
  BY <1>1, <1>4, SourceStep, StoppedTimerKeeps
<1>5. CASE \/ Submit \/ SubmitRefused
           \/ \E v \in Visit :
                \/ CreateFails(v)
                \/ \E a \in Anime : CreateSucceeds(v, a)
                \/ \E f \in Asset : UploadLinks(v, f) \/ UploadFails(v, f)
  BY <1>1, <1>5, SubmissionStep
<1> QED  BY <1>2, <1>3, <1>4, <1>5 DEF Next

(* The invariant holds in every state of every behaviour.                   *)
LEMMA Invariant == Spec => []IInv
BY InitIInv, StepIInv, PTL DEF Spec

-----------------------------------------------------------------------------
(* Types are kept, and an upload part always has a file left to upload.     *)
THEOREM CreateTypes == Spec => []CreateTypeOK
<1>1. IInv => CreateTypeOK
  BY DEF IInv, VisitTypes, PageOK, PageTypes, SubmissionOK, SubmissionTypes,
         Missing, CreateTypeOK
<1> QED  BY <1>1, Invariant, PTL

(* The preview of a picked file is revoked once the file is not staged.     *)
THEOREM PreviewsRevoked == Spec => []FilePreviewsNotLeaked
<1>1. IInv => FilePreviewsNotLeaked
  BY DEF IInv, PageOK
<1> QED  BY <1>1, Invariant, PTL

(* A staged cover is the one that the draft names.                          *)
THEOREM StagedCoverNamed == Spec => []DraftNamesStagedCover
<1>1. IInv => DraftNamesStagedCover
  BY DEF IInv, PageOK
<1> QED  BY <1>1, Invariant, PTL

(* The browser goes on only to an anime with all the files submitted.       *)
THEOREM RedirectsComplete == Spec => []RedirectComplete
<1>1. IInv => RedirectComplete
  BY DEF IInv, SubmissionOK
<1> QED  BY <1>1, Invariant, PTL

(* While the submission of a visit runs, a redirect may be due only of      *)
(* another visit: its own has been stopped.                                 *)
THEOREM OwnUploadsNotCut == Spec => []RedirectSparesOwnSubmission
<1>1. IInv => RedirectSparesOwnSubmission
  BY DEF IInv, SubmissionOK
<1> QED  BY <1>1, Invariant, PTL

-----------------------------------------------------------------------------
(* How a submission goes on.                                               *)

(* Whatever page and sources do, the submissions and the server stay.      *)
LEMMA OnlySubmissionSteps ==
  ASSUME IInv, [Next]_vars
  PROVE  \/ UNCHANGED <<submit, server>>
         \/ Submit
         \/ \E v \in Visit :
              \/ CreateFails(v)
              \/ \E a \in Anime : CreateSucceeds(v, a)
              \/ \E f \in Asset : UploadLinks(v, f) \/ UploadFails(v, f)
<1>1. CASE \/ \E f \in File : PickCover(f) \/ StageFile(f)
           \/ \E g \in Asset : RemoveStaged(g)
           \/ \E kind \in {"cover", "single", "list"}, hits \in SUBSET Hit :
                StartSearchAdoption(kind, hits)
           \/ SearchAdopted
           \/ SearchFails
           \/ \E h \in Hit : LateHit(h)
  BY <1>1, StagingStep DEF IInv
<1>2. CASE \/ \E c \in Candidate :
                AdoptJellyfin(c) \/ JellyfinAnswered(c) \/ JellyfinFails(c)
           \/ DiscardJellyfin \/ RemoveCover \/ RemoveOtherSlot
           \/ ClearAniSearch \/ LoadAniSearch
           \/ AniSearchAnswered \/ AniSearchConflict \/ AniSearchFails
           \/ \E v \in Visit : LateLookup(v) \/ Redirect(v)
           \/ GoElsewhere \/ ComeBack \/ LeaveDocument
  BY <1>2, SourceStep DEF IInv
<1>3. CASE SubmitRefused \/ UNCHANGED vars
  BY <1>3 DEF SubmitRefused, vars, submit, server
<1> QED  BY <1>1, <1>2, <1>3 DEF Next

(* Behind SubmissionEnds: the submission of a visit does not turn back, on  *)
(* whatever page the browser is by then.  Its request is sent once; while   *)
(* it uploads, it stays with its anime and with the files that were         *)
(* captured, and each answer ends it or takes one file off what is missing, *)
(* so that it has ended after as many answers as it had files.              *)
THEOREM SubmissionAdvances ==
  Spec => [][ \A v \in Visit :
                /\ phase[v] = "creating" /\ phase'[v] # "creating" =>
                     CreateAnswered(v)
                /\ CreateAnswered(v) => phase'[v] # "creating"
                /\ phase[v] = "uploading" =>
                     \/ phase'[v] = "idle" /\ UploadAnswered(v)
                     \/ /\ phase'[v] = "uploading"
                        /\ current'[v] = current[v] /\ sent'[v] = sent[v]
                        /\ \/ Missing(v)' = Missing(v) /\ ~UploadAnswered(v)
                           \/ \E f \in Missing(v) :
                                Missing(v)' = Missing(v) \ {f} ]_vars
<1>1. ASSUME IInv, [Next]_vars, NEW v \in Visit
      PROVE  /\ phase[v] = "creating" /\ phase'[v] # "creating" =>
                  CreateAnswered(v)
             /\ CreateAnswered(v) => phase'[v] # "creating"
  <2>0. SubmissionTypes
    BY <1>1 DEF IInv, SubmissionOK
  <2>1. CreateAnswered(v) => phase'[v] # "creating"
    BY <2>0
       DEF CreateAnswered, CreateSucceeds, CreateFails, Finish, Idle,
           SubmissionTypes
  <2>2. ASSUME phase[v] = "creating", phase'[v] # "creating"
        PROVE  CreateAnswered(v)
    <3>1. CASE UNCHANGED <<submit, server>> \/ Submit
      BY <2>0, <2>2, <3>1 DEF Submit, submit, SubmissionTypes
    <3>2. ASSUME NEW w \in Visit, NEW f \in Asset,
                 UploadLinks(w, f) \/ UploadFails(w, f)
          PROVE  FALSE
      BY <2>0, <2>2, <3>2
         DEF UploadLinks, UploadFails, Due, Finish, Idle, SubmissionTypes, submit
    <3>3. ASSUME NEW w \in Visit,
                 CreateFails(w) \/ \E a \in Anime : CreateSucceeds(w, a)
          PROVE  CreateAnswered(v)
      <4>1. w = v
        BY <2>0, <2>2, <3>3
           DEF CreateFails, CreateSucceeds, Finish, Idle, SubmissionTypes
      <4> QED  BY <3>3, <4>1 DEF CreateAnswered
    <3> QED  BY <1>1, <3>1, <3>2, <3>3, OnlySubmissionSteps
  <2> QED  BY <2>1, <2>2
<1>2. ASSUME IInv, [Next]_vars, NEW v \in Visit, phase[v] = "uploading"
      PROVE  \/ phase'[v] = "idle" /\ UploadAnswered(v)
             \/ /\ phase'[v] = "uploading"
                /\ current'[v] = current[v] /\ sent'[v] = sent[v]
                /\ \/ Missing(v)' = Missing(v) /\ ~UploadAnswered(v)
                   \/ \E f \in Missing(v) : Missing(v)' = Missing(v) \ {f}
  <2>0. SubmissionTypes /\ LinkedWereWanted
    BY <1>2 DEF IInv, SubmissionOK
  <2>1. ASSUME NEW f \in Asset, UploadLinks(v, f)
        PROVE  \/ phase'[v] = "idle" /\ UploadAnswered(v)
               \/ /\ phase'[v] = "uploading"
                  /\ current'[v] = current[v] /\ sent'[v] = sent[v]
                  /\ f \in Missing(v) /\ Missing(v)' = Missing(v) \ {f}
    <3>1. /\ current[v] \in Anime /\ wanted' = wanted /\ f \in Missing(v)
          /\ linked'[current[v]] = linked[current[v]] \cup {f}
      BY <2>0, <2>1 DEF UploadLinks, Due, Link, SubmissionTypes
    <3>2. CASE Finish(v, current[v])
      BY <2>0, <2>1, <3>2 DEF Finish, Idle, UploadAnswered, SubmissionTypes
    <3>3. CASE UNCHANGED <<submit, timer>>
      BY <1>2, <3>1, <3>3 DEF Missing, submit
    <3> QED  BY <2>1, <3>2, <3>3 DEF UploadLinks
  <2>2. ASSUME NEW f \in Asset, UploadFails(v, f)
        PROVE  phase'[v] = "idle" /\ UploadAnswered(v)
    BY <2>0, <2>2 DEF UploadFails, Idle, UploadAnswered, SubmissionTypes
  <2>3. ASSUME /\ phase'[v] = phase[v] /\ current'[v] = current[v]
               /\ sent'[v] = sent[v] /\ Missing(v)' = Missing(v)
        PROVE  \/ phase'[v] = "idle" /\ UploadAnswered(v)
               \/ /\ phase'[v] = "uploading"
                  /\ current'[v] = current[v] /\ sent'[v] = sent[v]
                  /\ \/ Missing(v)' = Missing(v) /\ ~UploadAnswered(v)
                     \/ \E f \in Missing(v) : Missing(v)' = Missing(v) \ {f}
    BY <1>2, <2>1, <2>2, <2>3 DEF UploadAnswered
  <2>4. CASE UNCHANGED <<submit, server>>
    BY <2>3, <2>4 DEF submit, server, Missing
  <2>5. CASE Submit
    <3>1. visit # v /\ UNCHANGED <<current, server>>
      BY <1>2, <2>5 DEF Submit, CanCreate
    <3> QED
      BY <2>0, <2>3, <2>5, <3>1 DEF Submit, Missing, server, SubmissionTypes
  <2>6. ASSUME NEW w \in Visit,
               CreateFails(w) \/ \E a \in Anime : CreateSucceeds(w, a)
        PROVE  /\ phase'[v] = phase[v] /\ current'[v] = current[v]
               /\ sent'[v] = sent[v] /\ Missing(v)' = Missing(v)
    <3>1. w # v /\ UNCHANGED linked
      BY <1>2, <2>6 DEF CreateFails, CreateSucceeds
    <3>2. /\ phase'[v] = phase[v] /\ current'[v] = current[v]
          /\ sent'[v] = sent[v]
      BY <2>0, <2>6, <3>1
         DEF CreateFails, CreateSucceeds, Finish, Idle, SubmissionTypes
    <3>3. UNCHANGED wanted \/ \E a \in Anime : Created(w, a)
      BY <2>6 DEF CreateFails, CreateSucceeds
    <3>4. current[v] \in Anime /\ current[v] \in created
      BY <1>2, <2>0 DEF SubmissionTypes, LinkedWereWanted
    <3>5. wanted'[current[v]] = wanted[current[v]]
      BY <2>0, <3>3, <3>4 DEF Created, SubmissionTypes
    <3> QED  BY <3>1, <3>2, <3>5 DEF Missing
  <2>7. ASSUME NEW w \in Visit \ {v}, NEW f \in Asset,
               UploadLinks(w, f) \/ UploadFails(w, f)
        PROVE  /\ phase'[v] = phase[v] /\ current'[v] = current[v]
               /\ sent'[v] = sent[v] /\ Missing(v)' = Missing(v)
    <3>1. current[w] # None /\ UNCHANGED <<created, wanted>>
      BY <2>7 DEF UploadLinks, UploadFails, Due
    <3>2. /\ phase'[v] = phase[v] /\ current'[v] = current[v]
          /\ sent'[v] = sent[v]
      BY <2>0, <2>7
         DEF UploadLinks, UploadFails, Finish, Idle, SubmissionTypes, submit
    <3>3. linked' = linked \/ Link(w, f)
      BY <2>7 DEF UploadLinks, UploadFails
    <3>4. current[v] \in Anime /\ current[w] # current[v]
      BY <1>2, <2>0, <2>7 DEF SubmissionTypes, LinkedWereWanted
    <3>5. linked'[current[v]] = linked[current[v]]
      BY <2>0, <3>3, <3>4 DEF Link, SubmissionTypes
    <3> QED  BY <3>1, <3>2, <3>5 DEF Missing
  <2>8. CASE \E w \in Visit, f \in Asset : UploadLinks(w, f) \/ UploadFails(w, f)
    <3>1. PICK w \in Visit, f \in Asset : UploadLinks(w, f) \/ UploadFails(w, f)
      BY <2>8
    <3>2. CASE w = v
      BY <2>1, <2>2, <3>1, <3>2
    <3>3. CASE w # v
      BY <2>3, <2>7, <3>1, <3>3
    <3> QED  BY <3>2, <3>3
  <2>9. CASE \E w \in Visit :
               CreateFails(w) \/ \E a \in Anime : CreateSucceeds(w, a)
    BY <2>3, <2>6, <2>9
  <2> QED  BY <1>2, <2>4, <2>5, <2>8, <2>9, OnlySubmissionSteps
<1>3. IInv /\ [Next]_vars =>
        [ \A v \in Visit :
            /\ phase[v] = "creating" /\ phase'[v] # "creating" =>
                 CreateAnswered(v)
            /\ CreateAnswered(v) => phase'[v] # "creating"
            /\ phase[v] = "uploading" =>
                 \/ phase'[v] = "idle" /\ UploadAnswered(v)
                 \/ /\ phase'[v] = "uploading"
                    /\ current'[v] = current[v] /\ sent'[v] = sent[v]
                    /\ \/ Missing(v)' = Missing(v) /\ ~UploadAnswered(v)
                       \/ \E f \in Missing(v) :
                            Missing(v)' = Missing(v) \ {f} ]_vars
  BY <1>1, <1>2
<1> QED  BY <1>3, Invariant, PTL DEF Spec

(* An anime that no submission uploads for is never touched again: what     *)
(* failed to arrive stays missing, and a new submission, of this visit or   *)
(* of another, makes a new anime.                                           *)
THEOREM EndedSubmissionIsFinal ==
  Spec => [][ \A a \in created \ {current[v] : v \in Visit} :
                /\ a \in created' \ {current'[v] : v \in Visit}
                /\ wanted'[a] = wanted[a] /\ linked'[a] = linked[a] ]_vars
<1>1. ASSUME IInv, [Next]_vars, NEW a \in created, \A v \in Visit : current[v] # a
      PROVE  /\ a \in created' /\ \A v \in Visit : current'[v] # a
             /\ wanted'[a] = wanted[a] /\ linked'[a] = linked[a]
  <2>0. a \in Anime /\ a # None /\ SubmissionTypes
    BY <1>1, NoneAssumption DEF IInv, SubmissionOK, SubmissionTypes
  <2>1. CASE UNCHANGED <<submit, server>> \/ Submit
    BY <1>1, <2>1 DEF Submit, submit, server
  <2>2. ASSUME NEW v \in Visit, CreateFails(v)
        PROVE  /\ a \in created' /\ \A w \in Visit : current'[w] # a
               /\ wanted'[a] = wanted[a] /\ linked'[a] = linked[a]
    BY <1>1, <2>0, <2>2 DEF CreateFails, Created, Idle, SubmissionTypes
  <2>3. ASSUME NEW v \in Visit, NEW b \in Anime, CreateSucceeds(v, b)
        PROVE  /\ a \in created' /\ \A w \in Visit : current'[w] # a
               /\ wanted'[a] = wanted[a] /\ linked'[a] = linked[a]
    <3>1. b # a /\ created' = created \cup {b}
          /\ wanted'[a] = wanted[a] /\ linked' = linked
      BY <1>1, <2>0, <2>3 DEF CreateSucceeds, Created, SubmissionTypes
    <3>2. \A w \in Visit : current'[w] \in {current[w], b, None}
      BY <2>0, <2>3 DEF CreateSucceeds, Finish, Idle, SubmissionTypes
    <3> QED  BY <1>1, <2>0, <3>1, <3>2
  <2>4. ASSUME NEW v \in Visit, NEW f \in Asset, UploadLinks(v, f) \/ UploadFails(v, f)
        PROVE  /\ a \in created' /\ \A w \in Visit : current'[w] # a
               /\ wanted'[a] = wanted[a] /\ linked'[a] = linked[a]
    <3>1. linked' = linked \/ Link(v, f)
      BY <2>4 DEF UploadLinks, UploadFails
    <3>2. linked'[a] = linked[a]
      BY <1>1, <2>0, <3>1 DEF Link, SubmissionTypes
    <3>3. \A w \in Visit : current'[w] \in {current[w], None}
      BY <2>0, <2>4
         DEF UploadLinks, UploadFails, Finish, Idle, SubmissionTypes, submit
    <3> QED  BY <1>1, <2>0, <2>4, <3>2, <3>3 DEF UploadLinks, UploadFails
  <2> QED  BY <1>1, <2>1, <2>2, <2>3, <2>4, OnlySubmissionSteps
<1>2. IInv /\ [Next]_vars =>
        [ \A a \in created \ {current[v] : v \in Visit} :
            /\ a \in created' \ {current'[v] : v \in Visit}
            /\ wanted'[a] = wanted[a] /\ linked'[a] = linked[a] ]_vars
  BY <1>1
<1> QED  BY <1>2, Invariant, PTL DEF Spec
=============================================================================
