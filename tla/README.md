# Team4s: a TLA+ model of memberships, claims, sessions and the create page

Team4s is a portal for fansub groups: a Go backend (`src/backend`) over
PostgreSQL and Redis, and a Next.js frontend (`src/frontend`). Two things in it
are delicate. In the backend: **who belongs to a group, who may manage it, and
which account a historical member belongs to** - decided by requests that run at
the same time, mostly as several SQL statements without a common transaction.
In the browser: **whose session the tabs hold, and what a page does with answers
that come late** - decided by asynchronous calls that share cookies, local
storage and the state of a page. This directory models the former statement by
statement and the latter from one `await` to the next, checks them with TLC and
proves their safety properties with TLAPS.

## The system's parts

| Part | State | Operations | Interacts with | Hard because |
|---|---|---|---|---|
| Group membership (`fansub_group_app_members_repository.go`) | `fansub_group_members`, `fansub_group_member_roles` | Create, SetRole, UpdateStatus, SetMediaPermissions | written by invitations and claims; archives into the historical roles | guard and write are separate statements; archive is fail-open |
| Group invitations (`fansub_group_invitations_repository.go`, `app_auth.go`) | `fansub_group_invitations` | Create + mail, Accept, Cancel, List, lazy expiry | Accept calls the membership on other connections while it holds a row lock | nested commits, two clocks, compensation after a failed mail |
| Member claims (`member_claims_repository.go`, `member_claim_invitations_repository.go`) | `member_claims`, `member_claim_invitations`, `members.profile_status/noindex` | Submit, Verify, Reject, claim invitations, memorial, noindex | Create with a historical member verifies a claim too | three paths to "verified", each locking a different row |
| Member requests, role activation | claims without a member; group roles | Submit/Approve/Reject; activation after a verification | claims, membership | best effort after COMMIT |
| Auth sessions (`auth.go`) | refresh and session keys in Redis | create, rotate, revoke | every authenticated call | GET, then MULTI |
| Connection pool (`database/postgres.go`) | 20 connections | acquire, release | every repository | calls that hold one and need more |
| Release-version media and cleanup | media rows, files on disk | upload, patch, soft delete, sweep | upload races with the sweep | two stores without a common transaction |
| Playback and stream grants | used grants, slots | issue, use | auth | check, then mark |
| Browser session client (`lib/api.ts`, `keycloakAuth.ts`, `AuthSessionSwitchGuard.tsx`, `/login`) | two token cookies, session meta, one refresh promise per tab | calls with a retry, uploads, refresh, login, logout, switch of users | Keycloak; `/me` of the backend; the other tabs, over cookies and storage events | calls share a refresh, tabs do not; a refresh, login or logout ends after another has begun |
| Anime create page (`useAdminAnimeCreateController.ts` and helpers) | draft, staged files, object URLs, adopted previews, redirect timer | stage, remove, adopt, discard, look up, submit, upload, redirect | backend; Jellyfin and AniSearch through it | late answers apply the draft of an old render; an upload fails half way; the page is left, and opened again, while its requests go on |
| Release media upload page (`useReleaseVersionMedia.ts`) | batch of images, optimistic state | upload, patch, delete | backend | as on the create page |
| Other pages and the typed calls of `api.ts` | forms and lists | one request per function | session client | nothing beyond it |
| Fansub merge, contributions and proposals, asset lifecycle, migrations, permissions, comments, imports, badges, notes, admin, mailer | own tables | mostly one-statement CRUD | | see `components` in `PROJECT.json` |

What makes each of the first three correct: a group never loses its last lead
or manager to a call that saw another one; an invitation is settled once, by
its addressee, with its roles granted; a historical member has one claimant, and
a claim invitation names a real one. A browser is correct when its two cookies
belong to one session and its meta to the owner of that session, when a session
that has ended does not come back, and when every call ends; the create page
when it sends the user on only to a complete anime, uploads the cover it names,
and gives up the object URLs it made. `PROJECT.json` lists the hazards at their
lines, with the property that watches each one or the reason why none does yet.

## Modules

| Module | Models |
|---|---|
| `GroupMembership` | Create, SetRole and UpdateStatus of one group, one action per SQL statement |
| `GroupMembershipProofs` | the inductive invariant of `GroupMembership`, its safety properties, and what a lock around the guard would give |
| `InvitationPromise` | abstract specification: what an invitation promises |
| `GroupInvitations` | the invitations, on top of `GroupMembership`; implements `InvitationPromise` |
| `GroupInvitationsProofs` | the invariant of `GroupInvitations`, its safety properties, the refinement of `InvitationPromise` and that of `GroupMembership` |
| `ClaimPromise` | abstract specification: what the claims on a member promise |
| `MemberClaims` | the claims on one historical member, on all three paths; implements `ClaimPromise` |
| `MemberClaimsProofs` | its invariant over row locks and paths, its safety properties and the refinement |
| `BrowserSession` | the session layer of the browser, over any number of tabs and calls |
| `BrowserSessionProofs` | its invariant, its safety properties, and how a call goes on |
| `AnimeCreate` | the page that creates an anime |
| `AnimeCreateProofs` | its invariant in two halves, its safety properties, and how a submission goes on |
| `MC_*` | instances for TLC, with one `.cfg` per run |

### How state and actions correspond to the code

*A request* is a goroutine serving a handler; a slot of `Requests` serves one
call after another. The repositories run under READ COMMITTED. A statement
outside a transaction is an action of its own. Inside a transaction, reads and
locks are actions; the last writes and the COMMIT are one action, because
nobody sees the former without the latter. `SELECT ... FOR UPDATE` is an action
that waits for the row's holder; a conditional `UPDATE` waits for it too and
re-evaluates its WHERE, as PostgreSQL does. A lock is released by COMMIT or by
the deferred rollback. At any point a call may fail (`Abort`, `GiveUp`): a
statement error, a caller who goes away or a crash of the process, after which
what has been committed stays. The database itself does not lose commits.

*GroupMembership.* `memberStatus`, `memberRoles` and `histRoles` are the tables;
`job`, `pc`, `seen`, `result` a request's call, its next statement, the
`memberGuardState` it has read, and its answer. `ReadTarget` and `ReadCounts`
are the two queries of `loadGuardState`, the latter with
`evaluateMemberMutationConflict` (`Conflict`); `Write` is the INSERT, DELETE or
UPDATE that follows, and acts on the current row whatever the guard had read.
`ReadTenure`, `Archive` and `Touch` are the rest of SetRole. A call's answer
rereads the member and may fail after everything is committed (`Answer`).

*GroupInvitations.* `inv` is the table, `expired` the clocks that are past
`expires_at` (Accept uses the application's, the other statements the
database's), `holder` the row locks, `errand` and `at` a request's invitation
call and its next step. Accept locks the row, then calls
`EnsureInvitationAcceptance`, whose membership calls run in the membership layer
of the same slot (`at = "nested"`) and commit by themselves. `held` is a history
variable: the roles the acceptor has had since the row was locked. The
membership calls of admins run beside it (`AdminCalls`).

*MemberClaims.* One member, of the archive (`Historical`) or created by
`ApproveRequest` for the user who asked for it (`Requested`); `Groups` are the
groups that list the member.
`claim`, `memorial`, `noindex` and `invite` are the tables, `claimLock`,
`histLock` and `inviteLock` the row locks. `via` (which path verified a claim)
and `claimed` (whose claim has ever been verified) are history. The EXISTS of
the historical branch of Create is evaluated before its statement waits for the
lock (`Snapshot`, then `LockLinkHist`), unlike that of VerifyClaim, which is a
statement of its own after the lock (`Check`). A statement waits for a row lock
by its guard; `WaitsFor` says which request it then waits for. A deadlock, which
PostgreSQL ends with an error, is an `Abort`.

*BrowserSession.* JavaScript runs to completion, so an action is the code
between two awaits. A token is represented by the Keycloak session it belongs
to: `access` and `refresh` are the cookies, `meta` the user in local storage,
`due` that the access token is inside the refresh buffer. `stage[t]` is
`runtimeSessionRefreshPromise` of tab t: the single-flight slot is a variable
of the module, so every tab has its own, while cookies and storage are shared.
A slot of `Flow` is an open call of one tab, at a `Place`: sent, repeated, or
awaiting the refresh. `Resume` is what happens in the turn in which the refresh
settles. `pending` are switch events on their way to the guards. Keycloak and
the API are outside: `alive` are the sessions whose refresh token is honoured,
and the API may answer 401 to any bearer. A guard that signs its tab out
(`HandleSwitch`) clears the session and navigates; the page goes on until the
navigation commits, which is a `Reload`. What time, the identity provider and
the user may do are the actions `NearExpiry`, `AccessExpires`,
`RefreshExpires`, `SessionEnds`, `Reload`.

*AnimeCreate.* A request runs in a closure of the render that started it, so
`adoption[c]` and `lookup` carry the draft they will merge with. Of the draft
the cover is kept: the one field that files, Jellyfin and AniSearch all set, and
that a submission both names and uploads. Banner, logo, backgrounds and videos
are one set `stagedAssets`. `live` are the object URLs not yet revoked;
`Restage` includes the clean-up of the effect over the staged files, which runs
on every change of them. `created`, `wanted`, `linked` are the server's side.
`navigating` is `window.location.href` having been set (`Redirect`,
`AniSearchConflict`): the document goes on until `LeaveDocument`, the commit of
the navigation, replaces it.

The page may be left by a link (`elsewhere`) and opened again in the same
document (`ComeBack`): `create/page.tsx:434` links to the list of anime, and
that links back to `/admin/anime/create`, both without a page load. Every
opening is a *visit*. What the page shows (draft, staged files, adoptions) is
the state of the visit that is open; the closures of visits that are over go on.
Where they can still be noticed they stay in the model: a download that arrives
late makes an object URL (`LateHit`), a lookup may navigate (`LateLookup`), and
a submission, with `phase[v]`, `sent[v]`, `current[v]` and `timer[v]` of its
own visit, uploads to its end and sets its timer. `timer[visit]` is the only timer that a
submission, a restaging or an unmounting stops, as each visit has its own
`createRedirectTimeoutRef`. What else they do is to set the state of a component that
is gone. A behaviour is one document; a page load begins another.

## Runs

| Run | Shows | Bounds |
|---|---|---|
| `membership` | types; the last lead and the last manager are lost only by a write whose guard acted on a stale view | 2 users, 2 managing roles, 2 racing requests, all calls |
| `membership_last_lead` | violation: two requests remove both leads | same |
| `membership_archive` | violation: the archive of an ended role is refused by a CHECK and the error dropped | same |
| `invitations` | locks belong to acceptances; an invitation is settled once; accepted only with its roles granted; to the membership tables the whole is `GroupMembership` | 2 users sharing an address, 1 invitation of 2 roles, 2 requests, an admin who creates, disables or strips the invitee |
| `invitations_live` | implements `InvitationPromise`; every acceptance is answered | 1 user, 2 addresses, 2 invitations, 2 requests |
| `invitations_mail` | violation: mail broken off with the request leaves the invitation pending | same |
| `claims` | types and locks; one verified claim per path; an unclaimed member stays noindex; claim invitations settled once, in a real claimant's name; no circle of waiting calls but of a review and the creation of an app member; implements `ClaimPromise` | 2 users, 2 groups, 1 invitation, 2 requests, all operations |
| `claims_one_verified` | violation: two groups verify two claims on one member | submissions and reviews |
| `claims_memorial` | violation: a pending claim is verified after the member became a memorial | submissions and reviews |
| `session` | no waiting call is forgotten; cookies of one session; tokens stored with their owner; an ended session stays out; a request is repeated once; calls hang only behind a refresh that awaits itself | 2 tabs, 2 users with a session each; a call and an upload at a time in one tab, a login or logout in the other |
| `session_hang` | violation: a refresh that awaits itself never settles, and every call of its tab waits for it | 1 tab, 2 calls, 1 user |
| `anime_create` | object URLs of files revoked; staged cover is the one named; a redirect leads only to a complete anime and is never due under a submission of its own visit; submissions end, also those of a visit that is over | 2 visits, 1 file, 1 search hit, 1 Jellyfin folder, listed in the first visit, 2 anime |

Two requests are enough for every hazard of the list, because each of them is a
race of two calls over one row or one count; two users make "the other lead",
"another user with the address" and "another claimant" possible; two
roles tell a granted role from a missing one. A slot serves any number of calls
in sequence, so histories are not bounded: only invitations are used up, and an
invitation that has been settled is never reused by the code either. In
`invitations` the memberships the admin changes are those of the invitee, which
are the only ones the acceptance looks at.

In `session` the browser starts empty or with either session, and logins bring
the second one, so that a refresh of the first can end before, between and after
a login or logout of the other tab; the three slots are the least with which a
call joins another's refresh while the other tab acts. A slot serves any number of
calls and a session may be signed in to again, so histories are unbounded.

In `anime_create` two visits are the least with which the closure of one that is
over runs beside a new one. A file and a hit are used once each, which admits every pair of
sources for the cover, and makes two assets, so that an upload may fail half way and
the submissions of both visits may upload at once. The second anime is for a submission
after one that failed, after one whose redirect is due, or beside that of the other visit; ids
are taken in order, as the sequence of the table counts them. `Listed` gives the Jellyfin
folder to the first visit only, because a visit starts anew and does with a folder what
the one before did. One lookup and one asset search run at a time. More visits, anime
and folders are the proofs' part.

`claims` has one invitation, so that what its properties say of two invitations
(accepted by two users, or one cancelled for the other) rests on the proofs alone.

Deadlock is checked in every run but `anime_create`, whose page may be left for good. Symmetry is
used for requests (and users, groups, invitations of `claims`) in runs that
check safety only.

### Fairness

`invitations_live` assumes weak fairness of every statement of a
running call (goroutines are scheduled, PostgreSQL answers) and strong fairness
of the row lock (PostgreSQL queues the waiters of a row, so a waiter whose row
is released again and again is served). Nothing is assumed about callers: calls
may never begin, mails may fail, clocks may never pass. A nested call is assumed to get its
connection from the pool; that twenty acceptances may exhaust it is in the plan.

`session` and `session_hang` assume that every request sent is answered or fails
(`FlowAnswered`, `RefreshAnswered`: fetch and XMLHttpRequest settle), and nothing
about users, tabs, time or Keycloak. `anime_create` assumes the same of the
requests of each submission, whichever visit it is of. That is an assumption on the layer below: the requests
of the page go through the session client, where `session_hang` shows how a call
may wait for ever; `SubmissionEnds` holds when none does.

## What the violations show

- **Last lead.** The guard `ensureMemberMutationAllowed` and the write are not
  one transaction. This is the *only* thing wrong: `LeadLostOnlyToRaceHolds` says
  that the decision is right for what it has read, and `LastLeadKeptAlone` that
  the last lead is never lost when no two requests are between their guard and
  their write. A lock on the group would do, also under acceptances
  (`InvitedLastLeadKeptAlone`).
- **Archive.** SetRole inserts status `'ended'`; migration 0083 admits draft,
  historical, confirmed and disputed. The error is dropped, the role is gone; no
  behaviour archives anything (`NothingArchived`).
- **Mail.** D-12 wants no silent pending invitation; the cancellation runs on
  the context whose end made the mail fail.
- **One claimant.** VerifyClaim locks the claim and the reviewing group's
  membership row, not the member. Over all paths a member keeps one claimant when
  no two requests are between check and write (`OneVerifiedPerMemberAlone`): the
  lock on the member that 66-RESEARCH.md asks for.
- **Memorial.** D-17 is enforced where claims begin, not where they are verified.
- **Refresh that awaits itself.** A refresh asks `/me` through the same
  `authorizedFetch` as every call. If that is answered with an auth-related 401,
  the call asks for a refresh and receives the promise it is running in. The slot
  is not emptied until the page is loaded anew.
  `HangsOnlyBehindItself` says that calls hang for no other reason, and
  `StuckUntilPageLeft` that nothing but a page load helps.

An acceptance that fails half way is not a violation of anything the code says,
but a reader should know it: the member is then active without all roles, and a
retry answers `already_active_member`. `AcceptedRolesGranted` shows that such
an invitation never counts as accepted.

The browser models, too, reach states that a reader should know; but for the cover
picked by hand they contradict no text:

- A refresh without a refresh token throws before its `try`, so the rejected
  promise stays in the slot (`stage = "rejected"`): the page cannot refresh again
  after a login in another tab, until it is loaded anew.
- A refresh that fails clears the session that is in the browser by then, also one
  that another tab has just stored (`RefreshFails`). `EndedSessionStaysOut` is about
  sessions that come back, not about this loss of a new one.
- A login whose `/me` is repeated asks with the token of the browser, so one
  user's tokens may be stored with the other's meta. `IdentityStoredWithTokens`
  excepts just this case, so it says that there is no other.
- The login path clears the meta before it stores the new session, so that
  `persistAuthSession` finds nothing to compare and announces no switch
  (`LoginResolved`, `Persist`).
- A draft applied over a staged cover drops the file, whoever picked it
  (`applyManualDraftValues`, `Apply`). A cover picked before a Jellyfin folder is taken over
  is replaced by the folder's, although the hint under the AniSearch field says
  "Manuell > AniSearch > Jellyfin" and phase 12 of the roadmap promises that
  precedence. After an AniSearch result, or a folder without an image, only the
  file's name stays, which passes the check of the submission and is sent as the
  cover of a file nobody uploads (`CanCreate`).
- Removing any Jellyfin slot applies the draft and so drops the staged cover
  (`RemoveOtherSlot`). With a public API host configured, removing the cover
  slot leaves its URL in the draft (`RemoveCover`).
- The clean-up revokes previews of files that stay staged, and stops a redirect
  that is due (`Restage`).
- A submission that goes on after its page was left sets its timer in a ref that no
  clean-up and no later submission reads (`Finish`, then `Redirect`). If the
  page has been opened again by then, the browser is sent to the first anime under
  the new visit: what that has prepared is gone, and the uploads of its submission
  are cut (`anime_create` reaches it: submit, leave, come back, submit, and
  the last upload of the first submission ends). `RedirectSparesOwnSubmission` is
  therefore about one visit; across visits the uploads are not safe.
- After an upload that failed, a second submission creates a second anime.
  An AniSearch conflict leaves the page in the middle of a submission, even that of a
  visit which is over (`LateLookup`), and so does a navigation already begun when
  the button is pressed.

## What is proved

`GroupMembershipProofs`, for all values of the constants, from the assumptions
of `GroupMembership` (finitely many users, the lead role and the managing roles
are roles, `NoJob` is not a call):

- `MembershipInvariant`: `IInv` is an invariant. `TypeOK` alone is not enough:
  that a write does not act on a missing row needs `TargetExists` (past the
  guard the target has a row, and rows never go away), and the theorems below need
  `GuardPassed` (what the guard has read does not conflict with the job).
  `IInv` is their conjunction. Preservation is shown per statement, with one
  lemma for the statements that end a call (`ReturnIInv`) and one for those
  that go on (`MoveIInv`).
- `MembershipTypes`: the type invariant, from `IInv`.
- `LeadLostOnlyToRaceHolds`, `ManagerLostOnlyToRaceHolds`: only `Write` can
  empty a set of active role holders, and only if its target was the last of
  them (`OnlyWriteEmpties`); if the target and the count were as seen, the
  count was at most one and the guard would have refused
  (`EmptyingWriteHadOneLeft`).
- `LastLeadKeptAlone`, `LastManagerKeptAlone`: with `GuardsAlone` (no two requests
  are between `ReadTarget` and `Write`) as a hypothesis on the behaviour, every
  view is as good as the table (`AllFresh`, inductive under the hypothesis), so
  the exception of the theorems above never occurs. The hypothesis is what a lock
  would enforce; the code does not, which is what `membership_last_lead` shows.
- `NothingArchived`: no step changes the table of historical roles.

`GroupInvitationsProofs`, for all values of the constants, from those
assumptions and from the ones of `GroupInvitations` (every user has an address,
invitations offer roles, `Nobody` is nobody):

- `InvitationInvariant`: `InvIInv` is an invariant. It takes over `IInv` for
  the membership layer and adds three things `InvTypeOK` does not imply but
  needs or the theorems below need: `ErrandFits` (a request at a step serves an
  errand of that kind), `LockFits` (an acceptance past its row lock holds
  exactly its row, and that row is pending and made out to its address: the
  other statements wait for locked rows) and `Granting` (what the
  invitation offers is at any time held, planned in `todo`, or in the hands of
  the nested call, and a nested call that has returned ok leaves nothing out).
  Each invitation step is proved against `Core`, the membership steps by
  the lemmas of `GroupMembershipProofs`, and one lemma (`TurnKeeps`) says what a
  turn of a request leaves to the others.
- `InvitationTypes`, `AcceptedRolesGrantedHolds`: from `InvIInv`.
- `SettledOnceHolds`, `KeepsPromiseHolds`: a step changes the rows in one of four
  ways (`RowsStep`), none of which touches a settled row, and each of which
  is an action of `InvitationPromise`.
- `MembersOnlyByCallsHolds`: hiding the invitations, the composed system implements
  `GroupMembership`: an acceptance reaches the tables through a membership call
  (`ServeCalls`) or not at all. With it the membership theorems hold
  here as well: `InvitedLeadLostOnlyToRace`, `InvitedManagerLostOnlyToRace`,
  `InvitedLastLeadKeptAlone`.

`MemberClaimsProofs`, from the assumptions of `MemberClaims` (`Nobody` is
nobody, no group has the name of another path):

- `Invariant`: what a request has checked must hold when it writes. `RequestsOK`
  says which lock it holds from then on, `InvitesOK` that a locked invitation is
  the open one, `ClaimantsOK` that everybody found, named or verified has had a
  verified claim, and `PathsOK` that the path on which a request is about to
  write is clear. Actions are grouped by what they do to the rows: those that
  only look (`LookKeeps`), verify a claim (`VerifiedKeeps`), take a claim back
  (`UnverifiedKeeps`) or change invitations (`InviteKeeps`).
- `ClaimTypes`, `VerifiedOncePerPath`, `NoindexUntilClaimed`,
  `InvitationsSettleOnce`: from it.
- `OnlyReviewAndLinkWait`: from it and from `Owners`, which says at which
  statements a claim row or a membership row may be held. The theorem is about
  circles of any length, of any number of requests: `WaitInCircle(C)` says that
  everybody in `C` waits for somebody in `C` and is waited for by somebody in it.
- `OneVerifiedPerMemberAlone`: `OneClaimant` (one claimant, and none while somebody
  is about to write) is inductive if no two requests are between check and write.
- `ClaimPromiseKept`: each statement changes what a user sees in one of the ways
  of `ClaimPromise` (`NextRows`): one claimant per path that locks its row and one
  path per claimant, a profile opened to search engines by a claim or a
  claimant, invitations open alone, settled together, and accepted only in the
  name of somebody who has had the claim. `ViaOK` (a verified claim came
  on a path) is needed beside `IInv`.

`BrowserSessionProofs`, from the assumptions of `BrowserSession`:

- `SpecIInv`: to typing, `WaitersHaveARefresh` and `TokensOfOneSession` it adds
  that a running refresh has read a token (`RunningHasToken`) and that a login has
  its tokens, and only a login switches (`LoginHasTokens`).
- `SessionTypes`, `NoLostWaiter`, `OneSessionInCookies`: parts of it.
- `IdentityWithTokens`: only `RefreshCompletes`, `LoginResolved` and
  `SwitchCompletes` store tokens (`WhoStores`), each with the owner it was told.
- `EndedStaysOut`: an ended session comes back neither through Keycloak
  (`EndedAtKeycloak`), nor a refresh (`NoRefreshOfEnded`), nor a login
  (`NoLoginIntoEnded`).
- `RetriedOnceHolds`: a call only goes forward. `SentAdvances` says where a call
  goes from a request, `WaiterAdvances` where from a wait: on once the slot is
  emptied, and not before.
- `OnlySelfHangs`: every call ends or waits for a refresh that waits for itself, in any
  number of tabs, *if every request settles*. `ENABLED`, and so weak fairness, is out of
  the prover's reach; the theorem therefore assumes `RequestsSettle`, that a
  call leaves each place at which a request of it is open ("sent", "resent",
  "switch", "logout") and a refresh leaves "token" and "me". That is what
  `FairSpec` gives there: at each of them `FlowAnswered` or
  `RefreshAnswered` is enabled (`AnswerEnds`, `SwitchCompletes`, `LogoutCompletes`,
  `RefreshFails`) and none of its steps stays, though this last step is an argument
  and not a proof. The two lemmas bound where a call goes, and temporal logic does the rest.
- `StuckUntilPageLeft`: the general form of what `session_hang` shows on an instance,
  and of the rejected promise: both stay until the page is left.

`AnimeCreateProofs`, from the assumptions of `AnimeCreate`, for any number of
visits: the state falls into `PageOK`, which handlers and late answers disturb, and
`SubmissionOK`, which adds `LinkedWereWanted` to typing (files are linked only to
anime that were submitted with them, and no two visits upload for the same anime:
without this a second visit could link or end what the first reported complete).
They share nothing but the timers, which the page can only stop (`TimersStop`). `VisitTypes`
is about coming and going. `CreateTypes`, `PreviewsRevoked`, `StagedCoverNamed`,
`RedirectsComplete` and `OwnUploadsNotCut` follow; the last is about a submission and
the redirect of the same visit, as its property is. The two halves also show that only
the steps of a submission change it (`OnlySubmissionSteps`), and with that:

- `SubmissionAdvances`: while it uploads, the submission of a visit keeps its anime
  and its files, and an answer ends it or takes one file off what is missing, whatever
  other visits do. What lacks to `SubmissionEnds` is fairness and the induction over
  the number of files.
- `EndedSubmissionIsFinal`: an anime that no submission uploads for is never touched
  again, so files that failed to arrive stay missing.

Every safety property of a passing run is proved, and both abstract specifications
are shown to be implemented for all values of the constants. Only model-checked
are `AcceptAnswered` and `SubmissionEnds`, which need fairness and an induction over
the roles or files still to come; `HangsOnlyBehindItself` is model-checked under
`FairSpec` and proved under `RequestsSettle`. The violated properties are of
course not proved; for three of them the proofs say what they lack (above).

## Plan

1. *Done:* membership, invitations and claims with their proofs, the abstract
   specifications of the invitations and of the claims with the refinements; the
   browser's session layer and the anime create page with their proofs.
2. `AuthSessions`: one session of the backend, its rotation and revocation in
   Redis (the current token is live; how many tokens can be), and its composition
   with `BrowserSession` for the branch without Keycloak, whose refresh token does
   rotate and which two tabs may rotate at once.
3. `MediaCleanup` (upload, preview and sweep) with the release media page on top,
   `ConnectionPool`, `Playback`: two or three actors each.
4. In `MemberClaims`: requests before they are approved (the unique index
   `uq_member_claim_requests_pending_user` of migration 0094 admits one pending
   request of a user) and the activation of roles after a verification.

## Not modelled

The other components are listed in `PROJECT.json` with the reason: plain CRUD
over the catalogue, pure I/O (mail, external catalogues, identity provider),
derived data (badges, audit log). Most of the frontend is of that kind too: of
`api.ts` only the session layer has state, the several hundred typed calls below
it build one request and normalise one answer each, and the pages around them are
forms and lists. The directory `.codex` holds a development tool that is no part
of the program. The models therefore cover a small share of the frontend's
lines: the part whose steps can come in more than one order.

Inside the modelled parts, left out are: `SetMediaPermissions`; permission checks
(they only narrow who may call, and a platform admin may call everything); tokens
and their hashes (an invitation is named directly); validation of requests; audit
entries; deletion of a group, which removes all of its rows at once; in the
browser the branch without Keycloak, the PKCE state of a login, the text fields,
tags and lists of the create page, and what a message says.

## Running

    tlc -config MC_GroupMembership.cfg MC_GroupMembership
    tlc -workers 2 -config MC_BrowserSession.cfg MC_BrowserSession
    tlc -workers 2 -config MC_AnimeCreate.cfg MC_AnimeCreate
    tlapm GroupMembershipProofs.tla

and likewise for the other configurations and the other `*Proofs` modules.
`invitations_live` and `anime_create` take two and a half minutes, `session` two,
`claims` and `membership` one to two, every other run and every proof less than one.
