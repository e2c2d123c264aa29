---------------------------- MODULE AnimeCreate ----------------------------
(***************************************************************************)
(* The page that creates an anime: useAdminAnimeCreateController.ts with   *)
(* the helpers it calls.  An administrator prepares files, takes data over *)
(* from Jellyfin and AniSearch, and submits; the anime is created and then *)
(* every prepared file is uploaded and linked, one after the other.        *)
(*                                                                         *)
(* Every request runs in a closure of the render in which it was started:  *)
(* what it reads of the draft when its answer arrives is the draft of that *)
(* render, and what it sets replaces the draft of today.                   *)
(*                                                                         *)
(* Of the draft the cover image is kept, the one field that files and      *)
(* providers both set; the title is taken as given.  Banner, logo,         *)
(* backgrounds and background videos are one set of staged assets.         *)
(*                                                                         *)
(* The page may be left by a link and opened again in the same document:   *)
(* its state starts anew, while the closures of the visits before go on.   *)
(* Only some of what these do can still be seen: a download makes an       *)
(* object URL, a lookup may navigate, and a submission uploads and sets    *)
(* its timer.                                                              *)
(***************************************************************************)
EXTENDS Integers, FiniteSets

CONSTANTS
  File,       \* files picked from the disk, each at most once (a bound)
  Hit,        \* images of the asset search, each adopted at most once (a bound)
  Candidate,  \* Jellyfin folders
  Visits,     \* how often the page is opened in one document (a bound)
  Listed,     \* Listed[v]: the folders that the search lists in visit v
  Anime,      \* ids of the anime that can be created, in this order (a bound)
  None        \* no image, no anime

Visit == 1 .. Visits

ASSUME AssetAssumption ==
  /\ File \cap Hit = {} /\ None \notin File \cup Hit
  /\ "jellyfin" \notin File \cup Hit
ASSUME VisitAssumption ==
  Visits \in Nat \ {0} /\ Listed \in [Visit -> SUBSET Candidate]
ASSUME NoneAssumption ==
  Anime \subseteq Nat /\ None \notin Anime /\ None # "jellyfin"

VARIABLES
  page,          \* "open", "elsewhere": unmounted, "left": another document
  visit,         \* the last visit
  lateHits,      \* hits that are downloaded for visits that are over
  lateLookups,   \* visits that are over and whose AniSearch lookup runs
  navigating,    \* window.location.href is set, the document still there
  cover,         \* createCoverImage: a file name, a Jellyfin URL or nothing
  stagedCover,   \* stagedCover
  stagedAssets,  \* stagedAssets, of all kinds
  live,          \* files with an object URL that is not revoked
  picked,        \* files and hits used so far
  search,        \* the running adoption of asset search hits
  adopted,       \* hasAdoptedJellyfinPreview; preview and snapshot are set
  snapshot,      \* the cover image in jellyfinDraftSnapshot
  slotCover,     \* jellyfinAssetSlots.cover is present
  adoption,      \* adoption[c]: the running handleJellyfinCandidateAdopt of c
  draftResult,   \* aniSearchDraftResult is set
  lookup,        \* the running loadAniSearchDraftByID
  phase,         \* phase[v]: where handleCreateSubmit of visit v stands
  sent,          \* sent[v]: the files it has captured
  current,       \* current[v]: the anime it uploads for
  created,       \* server: the anime created from this document
  wanted,        \* wanted[a]: the files submitted with anime a
  linked,        \* linked[a]: server: the files linked to anime a
  timer          \* timer[v]: createRedirectTimeoutRef of visit v: the anime
                 \* that a redirect will show

visits  == <<page, visit, lateHits, lateLookups, navigating>>
staging == <<stagedCover, stagedAssets, live, picked>>
jelly   == <<adopted, snapshot, slotCover, adoption>>
ani     == <<draftResult, lookup>>
submit  == <<phase, sent, current>>
server  == <<created, wanted, linked>>
vars    == <<visits, cover, staging, search, jelly, ani, submit, server, timer>>

-----------------------------------------------------------------------------
Asset == File \cup Hit
Image == Asset \cup {None, "jellyfin"}

NoSearch   == [kind |-> "none", hits |-> {}]
NoAdoption == [running |-> FALSE, fill |-> FALSE, cover |-> None]
NoLookup   == [running |-> FALSE, cover |-> None]
NoFiles    == [cover |-> None, assets |-> {}]

Elements(c, as) == as \cup ({c} \ {None})
Held == Elements(stagedCover, stagedAssets)

(* The type invariant; it includes that an anime is uploaded for only in    *)
(* the upload part of a submission, and while a file is left to upload.     *)
CreateTypeOK ==
  /\ page \in {"open", "elsewhere", "left"} /\ navigating \in BOOLEAN
  /\ visit \in Visit
  /\ lateHits \subseteq Hit /\ lateLookups \subseteq 1 .. visit
  /\ cover \in Image
  /\ stagedCover \in Asset \cup {None} /\ stagedAssets \subseteq Asset
  /\ live \subseteq Asset /\ picked \subseteq Asset
  /\ search \in [kind : {"none", "cover", "single", "list"}, hits : SUBSET Hit]
  /\ adopted \in BOOLEAN /\ snapshot \in Image /\ slotCover \in BOOLEAN
  /\ adoption \in
       [Candidate -> [running : BOOLEAN, fill : BOOLEAN, cover : Image]]
  /\ draftResult \in BOOLEAN /\ lookup \in [running : BOOLEAN, cover : Image]
  /\ phase \in [Visit -> {"idle", "creating", "uploading"}]
  /\ sent \in [Visit -> [cover : Asset \cup {None}, assets : SUBSET Asset]]
  /\ created \subseteq Anime
  /\ wanted \in [Anime -> SUBSET Asset] /\ linked \in [Anime -> SUBSET Asset]
  /\ timer \in [Visit -> Anime \cup {None}]
  /\ current \in [Visit -> Anime \cup {None}]
  /\ \A v \in Visit : current[v] # None =>
       phase[v] = "uploading" /\ wanted[current[v]] \ linked[current[v]] # {}

Init ==
  /\ page = "open" /\ visit = 1
  /\ lateHits = {} /\ lateLookups = {} /\ navigating = FALSE
  /\ cover = None
  /\ stagedCover = None /\ stagedAssets = {} /\ live = {} /\ picked = {}
  /\ search = NoSearch
  /\ adopted = FALSE /\ snapshot = None /\ slotCover = FALSE
  /\ adoption = [c \in Candidate |-> NoAdoption]
  /\ draftResult = FALSE /\ lookup = NoLookup
  /\ phase = [v \in Visit |-> "idle"] /\ current = [v \in Visit |-> None]
  /\ sent = [v \in Visit |-> NoFiles]
  /\ created = {} /\ timer = [v \in Visit |-> None]
  /\ wanted = [a \in Anime |-> {}] /\ linked = [a \in Anime |-> {}]

-----------------------------------------------------------------------------
(* The page is unmounted: its state is gone, and what answers of Jellyfin   *)
(* and AniSearch would do to it.                                            *)
Unmounted ==
  /\ cover' = None /\ stagedCover' = None /\ stagedAssets' = {}
  /\ adopted' = FALSE /\ snapshot' = None /\ slotCover' = FALSE
  /\ adoption' = [c \in Candidate |-> NoAdoption]
  /\ draftResult' = FALSE /\ lookup' = NoLookup /\ search' = NoSearch

(* A navigation commits: the browser shows another document.  The closures  *)
(* and object URLs of this one are gone, and what was sent of a submission  *)
(* stays sent.                                                              *)
LeaveDocument ==
  /\ page # "left" /\ navigating
  /\ page' = "left" /\ navigating' = FALSE
  /\ Unmounted /\ live' = {} /\ lateHits' = {} /\ lateLookups' = {}
  /\ timer' = [v \in Visit |-> None]
  /\ UNCHANGED <<visit, picked, submit, server>>

-----------------------------------------------------------------------------
(* Staging.                                                                *)

(* The staged assets change to c and as, new object URLs are made for       *)
(* fresh.  On every change the clean-up of the effect over both of them     *)
(* revokes the URLs of the values before the change, the ones that stay     *)
(* staged included, and stops the redirect.  What a handler revokes itself  *)
(* is always among these values or revoked before.                          *)
Restage(c, as, fresh) ==
  LET same == c = stagedCover /\ as = stagedAssets IN
  /\ stagedCover' = c /\ stagedAssets' = as
  /\ live' = (live \ (IF same THEN {} ELSE Held)) \cup fresh
  /\ timer' = IF same THEN timer ELSE [timer EXCEPT ![visit] = None]

(* handleCoverUpload *)
PickCover(f) ==
  /\ page = "open" /\ f \in File \ picked
  /\ Restage(f, stagedAssets, {f})
  /\ cover' = f /\ picked' = picked \cup {f}
  /\ UNCHANGED <<visits, search, jelly, ani, submit, server>>

(* A file for a slot: banner and logo replace what is in the slot,          *)
(* backgrounds and videos are appended.                                     *)
StageFile(f) ==
  /\ page = "open" /\ f \in File \ picked
  /\ \E replaced \in {{}} \cup {{g} : g \in stagedAssets} :
       Restage(stagedCover, (stagedAssets \ replaced) \cup {f}, {f})
  /\ picked' = picked \cup {f}
  /\ UNCHANGED <<visits, cover, search, jelly, ani, submit, server>>

RemoveStaged(g) ==
  /\ page = "open" /\ g \in stagedAssets
  /\ Restage(stagedCover, stagedAssets \ {g}, {})
  /\ UNCHANGED <<visits, cover, picked, search, jelly, ani, submit, server>>

(* handleAssetCandidateAdoption: the hits are downloaded first.             *)
StartSearchAdoption(kind, hits) ==
  /\ page = "open" /\ search = NoSearch
  /\ hits # {} /\ hits \cap picked = {}
  /\ kind # "list" => Cardinality(hits) = 1
  /\ search' = [kind |-> kind, hits |-> hits] /\ picked' = picked \cup hits
  /\ UNCHANGED <<visits, cover, stagedCover, stagedAssets, live, jelly, ani,
                 submit, server, timer>>

(* All of them have arrived.                                                *)
SearchAdopted ==
  /\ page = "open" /\ search # NoSearch
  /\ \/ /\ search.kind = "cover"
        /\ \E h \in search.hits :
             cover' = h /\ Restage(h, stagedAssets, search.hits)
     \/ /\ search.kind = "single"
        /\ \E replaced \in {{}} \cup {{g} : g \in stagedAssets} :
             Restage(stagedCover, (stagedAssets \ replaced) \cup search.hits,
                     search.hits)
        /\ UNCHANGED cover
     \/ /\ search.kind = "list"
        /\ Restage(stagedCover, stagedAssets \cup search.hits, search.hits)
        /\ UNCHANGED cover
  /\ search' = NoSearch
  /\ UNCHANGED <<visits, picked, jelly, ani, submit, server>>

(* One download fails: nothing is staged, and the object URLs of the others *)
(* belong to nobody.                                                        *)
SearchFails ==
  /\ page = "open" /\ search # NoSearch
  /\ \E made \in SUBSET search.hits :
       made # search.hits /\ live' = live \cup made
  /\ search' = NoSearch
  /\ UNCHANGED <<visits, cover, stagedCover, stagedAssets, picked, jelly, ani,
                 submit, server, timer>>

(* A hit arrives for a visit that is over, or fails: nobody will hold it.   *)
LateHit(h) ==
  /\ page # "left" /\ h \in lateHits /\ lateHits' = lateHits \ {h}
  /\ live' \in {live, live \cup {h}}
  /\ UNCHANGED <<page, visit, lateLookups, navigating, cover,
                 stagedCover, stagedAssets, picked, search, jelly, ani, submit,
                 server, timer>>

-----------------------------------------------------------------------------
(* The draft and its sources.                                              *)

Or(x, y) == IF x # None THEN x ELSE y

(* hydrateManualDraftFromJellyfinPreview: after an AniSearch result (fill)  *)
(* the folder only supplies what is missing, otherwise it wins.             *)
JellyfinDraftCover(fill, old, image) ==
  IF fill THEN Or(old, image) ELSE Or(image, old)

(* resolveCreateAniSearchDraftMergeInputs and the backend, which answers    *)
(* with the cover of the draft it was sent: AniSearch has none.  What is    *)
(* sent is the draft of before the adoption, if there is one, and an empty  *)
(* answer leaves the draft of the click.                                    *)
AniSearchDraftCover == IF adopted THEN Or(snapshot, cover) ELSE cover

(* applyManualDraftValues mutated: the staged cover stays.                  *)
ApplyKeepsStaged(c) ==
  /\ cover' = c /\ UNCHANGED <<staging, timer>>

(* applyManualDraftValues: the staged cover is dropped, whatever the draft  *)
(* that is applied says about the cover.                                    *)
Apply(c) ==
  /\ Restage(None, stagedAssets, {}) /\ cover' = c /\ UNCHANGED picked

(* handleJellyfinCandidateAdopt; the list is hidden once one is adopted.    *)
AdoptJellyfin(c) ==
  /\ page = "open" /\ c \in Listed[visit] /\ ~adopted /\ ~adoption[c].running
  /\ adoption' = [adoption EXCEPT ![c] =
                    [running |-> TRUE, fill |-> draftResult, cover |-> cover]]
  /\ UNCHANGED <<visits, cover, staging, search, adopted, snapshot, slotCover,
                 ani, submit, server, timer>>

(* The preview has arrived: the draft of the click, completed by it, is     *)
(* applied.                                                                 *)
JellyfinAnswered(c) ==
  /\ page = "open" /\ adoption[c].running
  /\ adoption' = [adoption EXCEPT ![c] = NoAdoption]
  /\ \E image \in {None, "jellyfin"} :
       /\ Apply(JellyfinDraftCover(adoption[c].fill, adoption[c].cover, image))
       /\ slotCover' = (image # None)
  /\ adopted' = TRUE /\ snapshot' = adoption[c].cover
  /\ UNCHANGED <<visits, search, ani, submit, server>>

JellyfinFails(c) ==
  /\ page = "open" /\ adoption[c].running
  /\ adoption' = [adoption EXCEPT ![c] = NoAdoption]
  /\ UNCHANGED <<visits, cover, staging, search, adopted, snapshot, slotCover,
                 ani, submit, server, timer>>

(* handleDiscardJellyfinPreview: back to the draft of before the adoption.  *)
DiscardJellyfin ==
  /\ page = "open" /\ adopted /\ Apply(snapshot)
  /\ adopted' = FALSE /\ snapshot' = None /\ slotCover' = FALSE
  /\ UNCHANGED <<visits, search, adoption, ani, submit, server>>

(* handleRemoveJellyfinAsset for the cover, which is also the only button   *)
(* for a staged cover.  The draft keeps its image unless that is the URL of *)
(* the slot, which it is not if a public API host is configured.            *)
RemoveCover ==
  /\ page = "open" /\ adopted /\ (slotCover \/ stagedCover # None)
  /\ \/ Apply(cover)
     \/ slotCover /\ cover = "jellyfin" /\ Apply(None)
  /\ slotCover' = FALSE
  /\ UNCHANGED <<visits, search, adopted, snapshot, adoption, ani, submit,
                 server>>

(* handleRemoveJellyfinAsset for another slot applies the draft as well.    *)
RemoveOtherSlot ==
  /\ page = "open" /\ adopted /\ stagedCover # None /\ Apply(cover)
  /\ UNCHANGED <<visits, search, jelly, ani, submit, server>>

(* clearAniSearchState: a candidate search, or "Suche verfeinern".          *)
ClearAniSearch ==
  /\ page = "open" /\ draftResult /\ draftResult' = FALSE
  /\ UNCHANGED <<visits, cover, staging, search, jelly, lookup, submit, server,
                 timer>>

(* loadAniSearchDraftByID, one at a time (a bound).                         *)
LoadAniSearch ==
  /\ page = "open" /\ ~lookup.running
  /\ draftResult' = FALSE
  /\ lookup' = [running |-> TRUE, cover |-> AniSearchDraftCover]
  /\ UNCHANGED <<visits, cover, staging, search, jelly, submit, server, timer>>

AniSearchAnswered ==
  /\ page = "open" /\ lookup.running /\ lookup' = NoLookup
  /\ draftResult' = TRUE /\ Apply(lookup.cover)
  /\ UNCHANGED <<visits, search, jelly, submit, server>>

AniSearchFails ==
  /\ page = "open" /\ lookup.running /\ lookup' = NoLookup
  /\ UNCHANGED <<visits, cover, staging, search, jelly, draftResult, submit,
                 server, timer>>

(* The id belongs to an anime already: the browser goes there, whatever the *)
(* administrator and the page are doing by now.                             *)
AniSearchConflict ==
  /\ page = "open" /\ lookup.running /\ lookup' = NoLookup
  /\ navigating' = TRUE
  /\ UNCHANGED <<page, visit, lateHits, lateLookups, cover, staging,
                 search, jelly, draftResult, submit, server, timer>>

(* The lookup of a visit that is over ends: it navigates just as well.      *)
LateLookup(v) ==
  /\ page # "left" /\ v \in lateLookups /\ lateLookups' = lateLookups \ {v}
  /\ navigating' \in {navigating, TRUE}
  /\ UNCHANGED <<page, visit, lateHits, cover, staging, search, jelly,
                 ani, submit, server, timer>>

-----------------------------------------------------------------------------
(* The submission.                                                         *)

(* resolveCreateCoverState and the button of the review section             *)
CanCreate ==
  /\ page = "open" /\ phase[visit] = "idle"
  /\ stagedCover # None \/ cover # None \/ slotCover

(* handleCreateSubmit mutated: a redirect that is due is not stopped.       *)
SubmitKeepsTimer ==
  /\ CanCreate
  /\ phase' = [phase EXCEPT ![visit] = "creating"]
  /\ sent' = [sent EXCEPT ![visit] =
                [cover |-> stagedCover, assets |-> stagedAssets]]
  /\ UNCHANGED <<visits, cover, staging, search, jelly, ani, current, server,
                 timer>>

(* handleCreateSubmit up to the request: what it will upload is captured.   *)
Submit ==
  /\ CanCreate
  /\ phase' = [phase EXCEPT ![visit] = "creating"]
  /\ sent' = [sent EXCEPT ![visit] =
                [cover |-> stagedCover, assets |-> stagedAssets]]
  /\ timer' = [timer EXCEPT ![visit] = None]
  /\ UNCHANGED <<visits, cover, staging, search, jelly, ani, current, server>>

(* No token, or a year or a number of episodes that is not positive.        *)
SubmitRefused ==
  /\ CanCreate /\ timer[visit] # None
  /\ timer' = [timer EXCEPT ![visit] = None]
  /\ UNCHANGED <<visits, cover, staging, search, jelly, ani, submit, server>>

(* handleCreateSubmit of visit v ends, after the last upload or an error.   *)
Idle(v) ==
  /\ phase' = [phase EXCEPT ![v] = "idle"]
  /\ sent' = [sent EXCEPT ![v] = NoFiles]
  /\ current' = [current EXCEPT ![v] = None]
Finish(v, a) == Idle(v) /\ timer' = [timer EXCEPT ![v] = a]

(* Anime a exists, with the files of visit v to come; ids are counted up.   *)
Created(v, a) ==
  /\ a \notin created /\ \A b \in Anime : b < a => b \in created
  /\ created' = created \cup {a}
  /\ wanted' = [wanted EXCEPT ![a] = Elements(sent[v].cover, sent[v].assets)]

(* The anime exists; the upload of its files begins, if it has any.         *)
CreateSucceeds(v, a) ==
  /\ page # "left" /\ phase[v] = "creating" /\ Created(v, a)
  /\ IF Elements(sent[v].cover, sent[v].assets) = {} THEN Finish(v, a)
     ELSE /\ phase' = [phase EXCEPT ![v] = "uploading"]
          /\ current' = [current EXCEPT ![v] = a] /\ UNCHANGED <<sent, timer>>
  /\ UNCHANGED <<visits, cover, staging, search, jelly, ani, linked>>

(* The request fails, or its answer is lost after the anime was created.    *)
CreateFails(v) ==
  /\ page # "left" /\ phase[v] = "creating" /\ Idle(v)
  /\ UNCHANGED <<created, wanted>> \/ \E a \in Anime : Created(v, a)
  /\ UNCHANGED <<visits, cover, staging, search, jelly, ani, linked, timer>>

(* What a submission that uploads has to bring, and the next file of        *)
(* uploadCreatedAnimeAssets: the cover goes first.                          *)
Missing(v) == wanted[current[v]] \ linked[current[v]]
Due(v, f) ==
  /\ page # "left" /\ current[v] # None /\ f \in Missing(v)
  /\ sent[v].cover \in Missing(v) => f = sent[v].cover

Link(v, f) == linked' = [linked EXCEPT ![current[v]] = @ \cup {f}]

(* uploadCreatedAnimeAssets mutated: its end is missed.                     *)
UploadLinksOn(v, f) ==
  /\ Due(v, f) /\ Link(v, f)
  /\ UNCHANGED <<visits, cover, staging, search, jelly, ani, submit, created,
                 wanted, timer>>

UploadLinks(v, f) ==
  /\ Due(v, f) /\ Link(v, f)
  /\ IF Missing(v) = {f} THEN Finish(v, current[v])
     ELSE UNCHANGED <<submit, timer>>
  /\ UNCHANGED <<visits, cover, staging, search, jelly, ani, created, wanted>>

(* uploadCreatedAnimeAssets mutated: a failed upload ends as a success.     *)
UploadFailsQuietly(v, f) ==
  /\ Due(v, f) /\ Finish(v, current[v])
  /\ UNCHANGED <<visits, cover, staging, search, jelly, ani, server>>

(* handleCreateSubmit mutated: the submission is not ended by an error.     *)
UploadFailsForGood(v, f) ==
  /\ Due(v, f) /\ current' = [current EXCEPT ![v] = None]
  /\ UNCHANGED <<visits, cover, staging, search, jelly, ani, phase, sent,
                 server, timer>>

(* The upload or the link fails, or its answer is lost: the rest is skipped.*)
UploadFails(v, f) ==
  /\ Due(v, f) /\ Idle(v)
  /\ UNCHANGED linked \/ Link(v, f)
  /\ UNCHANGED <<visits, cover, staging, search, jelly, ani, created, wanted,
                 timer>>

(* After CREATE_REDIRECT_DELAY_MS.  The timer of a visit that was over when *)
(* it was set is in a ref that nobody reads any more, and not stopped.      *)
Redirect(v) ==
  /\ page # "left" /\ timer[v] # None
  /\ timer' = [timer EXCEPT ![v] = None] /\ navigating' = TRUE
  /\ UNCHANGED <<page, visit, lateHits, lateLookups, cover, staging,
                 search, jelly, ani, submit, server>>

-----------------------------------------------------------------------------
(* Coming and going.                                                       *)

(* The clean-up mutated: only the preview of the cover is revoked.          *)
GoElsewhereCoverOnly ==
  /\ page = "open" /\ page' = "elsewhere" /\ Unmounted
  /\ live' = live \ {stagedCover} /\ timer' = [timer EXCEPT ![visit] = None]
  /\ lateHits' = lateHits \cup search.hits
  /\ lateLookups' = lateLookups \cup {v \in {visit} : lookup.running}
  /\ UNCHANGED <<visit, navigating, picked, submit, server>>

(* A link of the application: the page is unmounted, its state and its      *)
(* timer are gone, its requests go on.                                      *)
GoElsewhere ==
  /\ page = "open" /\ page' = "elsewhere" /\ Unmounted
  /\ live' = live \ Held /\ timer' = [timer EXCEPT ![visit] = None]
  /\ lateHits' = lateHits \cup search.hits
  /\ lateLookups' = lateLookups \cup {v \in {visit} : lookup.running}
  /\ UNCHANGED <<visit, navigating, picked, submit, server>>

(* The link that leads back to the page, which starts anew.                 *)
ComeBack ==
  /\ page = "elsewhere" /\ visit < Visits
  /\ page' = "open" /\ visit' = visit + 1
  /\ UNCHANGED <<lateHits, lateLookups, navigating, cover, staging, search,
                 jelly, ani, submit, server, timer>>

-----------------------------------------------------------------------------
Next ==
  \/ \E f \in File : PickCover(f) \/ StageFile(f)
  \/ \E g \in Asset : RemoveStaged(g)
  \/ \E kind \in {"cover", "single", "list"}, hits \in SUBSET Hit :
       StartSearchAdoption(kind, hits)
  \/ SearchAdopted \/ SearchFails
  \/ \E h \in Hit : LateHit(h)
  \/ \E c \in Candidate :
       AdoptJellyfin(c) \/ JellyfinAnswered(c) \/ JellyfinFails(c)
  \/ DiscardJellyfin \/ RemoveCover \/ RemoveOtherSlot
  \/ ClearAniSearch \/ LoadAniSearch
  \/ AniSearchAnswered \/ AniSearchConflict \/ AniSearchFails
  \/ Submit \/ SubmitRefused
  \/ \E v \in Visit :
       \/ LateLookup(v) \/ Redirect(v) \/ CreateFails(v)
       \/ \E a \in Anime : CreateSucceeds(v, a)
       \/ \E f \in Asset : UploadLinks(v, f) \/ UploadFails(v, f)
  \/ GoElsewhere \/ ComeBack \/ LeaveDocument

Spec == Init /\ [][Next]_vars

(* Every request of a submission is answered or fails at last.              *)
CreateAnswered(v) == (\E a \in Anime : CreateSucceeds(v, a)) \/ CreateFails(v)
UploadAnswered(v) == \E f \in Asset : UploadLinks(v, f) \/ UploadFails(v, f)
FairSpec ==
  /\ Spec
  /\ \A v \in Visit : WF_vars(CreateAnswered(v) \/ UploadAnswered(v))

-----------------------------------------------------------------------------
(* The object URL of a picked file lives only as long as the file is        *)
(* staged, whatever is replaced, removed, reset by a late answer of a       *)
(* provider, or abandoned with the page.                                    *)
FilePreviewsNotLeaked == live \cap File \subseteq Held

(* The file that will be uploaded as cover is the one the draft names, no   *)
(* matter which late answer has set one of the two.                         *)
DraftNamesStagedCover == stagedCover # None => cover = stagedCover

(* The browser is only sent on to an anime that exists and has every file   *)
(* that was submitted with it, by whichever visit of the page.              *)
RedirectComplete ==
  \A v \in Visit : timer[v] # None =>
    timer[v] \in created /\ linked[timer[v]] = wanted[timer[v]]

(* The redirect of a visit is never due while a submission of that visit    *)
(* runs, whose uploads it would cut: a submission that starts stops the     *)
(* redirect of the one before.  It does so only for its own visit.          *)
RedirectSparesOwnSubmission ==
  \A v \in Visit : timer[v] # None => phase[v] = "idle"

(* A submission comes to an end: the button can be used again, or the       *)
(* browser has gone to another document.                                    *)
SubmissionEnds ==
  \A v \in Visit :
    (phase[v] # "idle") ~> (phase[v] = "idle" \/ page = "left")
=============================================================================
