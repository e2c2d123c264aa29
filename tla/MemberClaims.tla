----------------------------- MODULE MemberClaims -----------------------------
(***************************************************************************)
(* The claims of app users on ONE historical member: member_claims,        *)
(* member_claim_invitations, and the member's profile_status and noindex   *)
(* (member_claims_repository.go, member_claim_invitations_repository.go,   *)
(* member_memorial_repository.go, and the historical branch of Create in   *)
(* fansub_group_app_members_repository.go).                                *)
(*                                                                         *)
(* A claim gets verified on three paths: a review by a group that lists    *)
(* the member, a claim invitation, and the creation of an app member from  *)
(* the historical one.  Each path locks a row of its own before it looks   *)
(* for a verified claim.  A member an admin created on the request of a    *)
(* user (member_requests_repository.go) begins with that user's claim      *)
(* verified.  An action is one statement, under READ COMMITTED; the last   *)
(* writes of a transaction are one action with its COMMIT.                 *)
(***************************************************************************)
EXTENDS Integers, FiniteSets

CONSTANTS
    Users,          \* app_users
    Groups,         \* groups whose hist_fansub_group_members list the member
    Invitations,    \* ids of rows of member_claim_invitations
    Requests,       \* requests being served at the same time
    TaskOps,        \* bound: the operations those requests call
    Nobody          \* no user, no request, no task

ASSUME UsersFinite == IsFiniteSet(Users)
ASSUME NobodyAssumption == Nobody \notin Users \cup Groups \cup Requests
ASSUME OpsAssumption == TaskOps \subseteq {"submit", "verify", "link", "accept", "invite", "list"}
ASSUME GroupAssumption == Groups \cap {"invite", "link", "request"} = {}

VARIABLES
    claim,          \* claim_status of the row (member, user); "none": no row
    memorial,       \* members.profile_status = 'memorial'
    noindex,        \* members.noindex
    invite,         \* the invitation rows
    late,           \* the clocks ("app", "db") that are past expires_at
    claimLock,      \* the transaction holding the claim row of a user
    histLock,       \* ... the historical membership row of a group
    inviteLock,     \* ... an invitation row
    task,           \* the call a request is serving
    at,             \* its next statement
    found,          \* a verified claimant its check has found, or Nobody
    via,            \* history: the path that verified a user's claim, if it is verified
    claimed         \* history: the users whose claim has ever been verified

tables == <<claim, memorial, noindex, invite, late>>
locks == <<claimLock, histLock, inviteLock>>
tasks == <<task, at, found>>
vars == <<tables, locks, tasks, via, claimed>>

ClaimStatuses == {"none", "pending", "verified", "rejected"}
Settled == {"accepted", "cancelled", "expired"}
Invites == [status : {"none", "pending"} \cup Settled, by : Users \cup {Nobody}]
Clocks == {"app", "db"}
Channels == Groups \cup {"invite", "link", "request"}

Tasks == [op : TaskOps \cap {"submit"}, user : Users]
    \cup [op : TaskOps \cap {"verify", "link"}, user : Users, group : Groups]
    \cup [op : TaskOps \cap {"accept"}, user : Users, inv : Invitations]
    \cup [op : TaskOps \cap {"invite", "list"}]

Labels == {"idle", "checkMemorial", "upsert",
           "lockClaim", "lockHist", "check", "verify",
           "snapshot", "lockLinkHist", "link",
           "lockInvite", "checkVerified", "markAccepted", "checkMemorialInvite", "accept",
           "expire", "reconcile", "vacancy", "insert"}

Verified == {u \in Users : claim[u] = "verified"}
Open == {i \in Invitations : invite[i].status = "pending"}

-----------------------------------------------------------------------------
Goto(r, label) ==
    /\ at' = [at EXCEPT ![r] = label]
    /\ UNCHANGED <<task, found>>

\* The call returns; what it has locked is released (COMMIT or rollback).
Finish(r) ==
    /\ at' = [at EXCEPT ![r] = "idle"]
    /\ task' = [task EXCEPT ![r] = Nobody]
    /\ found' = [found EXCEPT ![r] = Nobody]
    /\ claimLock' = [u \in Users |-> IF claimLock[u] = r THEN Nobody ELSE claimLock[u]]
    /\ histLock' = [g \in Groups |-> IF histLock[g] = r THEN Nobody ELSE histLock[g]]
    /\ inviteLock' = [i \in Invitations |-> IF inviteLock[i] = r THEN Nobody ELSE inviteLock[i]]

FirstLabel(t) == CASE t.op = "submit" -> "checkMemorial"
                   [] t.op = "verify" -> "lockClaim"
                   [] t.op = "link"   -> "snapshot"
                   [] t.op = "accept" -> "lockInvite"
                   [] OTHER           -> "expire"

Begin(r, t) ==
    /\ at[r] = "idle"
    /\ t.op = "accept" => invite[t.inv].status # "none"
    /\ t.op = "verify" => claim[t.user] # "none"
    /\ task' = [task EXCEPT ![r] = t]
    /\ at' = [at EXCEPT ![r] = FirstLabel(t)]
    /\ UNCHANGED <<tables, locks, found, via, claimed>>

\* An existing verified claim's user, or Nobody (the code takes the latest).
FindVerified(r) ==
    \/ Verified = {} /\ found' = [found EXCEPT ![r] = Nobody]
    \/ \E u \in Verified : found' = [found EXCEPT ![r] = u]

\* The verified claim of u, the member made indexable, and the history.
SetVerified(u, channel) ==
    /\ claim' = [claim EXCEPT ![u] = "verified"]
    /\ noindex' = FALSE
    /\ via' = [via EXCEPT ![u] = channel]
    /\ claimed' = claimed \cup {u}

-----------------------------------------------------------------------------
(***************************************************************************)
(* SubmitClaim: two statements without a transaction                       *)
(***************************************************************************)

CheckMemorial(r) ==
    /\ at[r] = "checkMemorial"
    /\ \/ memorial /\ Finish(r)
       \/ ~memorial /\ Goto(r, "upsert") /\ UNCHANGED locks
    /\ UNCHANGED <<tables, via, claimed>>

Upsert(r) ==
    /\ at[r] = "upsert"
    /\ claimLock[task[r].user] = Nobody
    /\ claim' = [claim EXCEPT ![task[r].user] = "pending"]
    /\ via' = [via EXCEPT ![task[r].user] = Nobody]
    /\ Finish(r)
    /\ UNCHANGED <<memorial, noindex, invite, late, claimed>>

-----------------------------------------------------------------------------
(***************************************************************************)
(* VerifyClaim: SELECT ... FOR UPDATE on claim and membership row, EXISTS, *)
(* UPDATE and COMMIT                                                       *)
(***************************************************************************)

LockClaim(r) ==
    /\ at[r] = "lockClaim"
    /\ claimLock[task[r].user] = Nobody
    /\ claimLock' = [claimLock EXCEPT ![task[r].user] = r]
    /\ Goto(r, "lockHist")
    /\ UNCHANGED <<tables, histLock, inviteLock, via, claimed>>

\* LockHist mutated: FOR UPDATE OF mc, which leaves the membership row alone.
LockHistNot(r) ==
    /\ at[r] = "lockHist"
    /\ Goto(r, "check")
    /\ UNCHANGED <<tables, locks, via, claimed>>

\* LockHist mutated: FOR UPDATE of every membership row of the member, in no
\* particular order.
LockHistEach(r) ==
    /\ at[r] = "lockHist"
    /\ \E g \in Groups :
         /\ histLock[g] = Nobody
         /\ histLock' = [histLock EXCEPT ![g] = r]
    /\ IF \A g \in Groups : histLock'[g] = r THEN Goto(r, "check")
                                             ELSE UNCHANGED tasks
    /\ UNCHANGED <<tables, claimLock, inviteLock, via, claimed>>

LockHist(r) ==
    /\ at[r] = "lockHist"
    /\ histLock[task[r].group] = Nobody
    /\ histLock' = [histLock EXCEPT ![task[r].group] = r]
    /\ Goto(r, "check")
    /\ UNCHANGED <<tables, claimLock, inviteLock, via, claimed>>

Check(r) ==
    /\ at[r] = "check"
    /\ \/ Verified # {} /\ Finish(r)
       \/ Verified = {} /\ Goto(r, "verify") /\ UNCHANGED locks
    /\ UNCHANGED <<tables, via, claimed>>

Verify(r) ==
    /\ at[r] = "verify"
    /\ SetVerified(task[r].user, task[r].group)
    /\ Finish(r)
    /\ UNCHANGED <<memorial, invite, late>>

-----------------------------------------------------------------------------
(***************************************************************************)
(* Create with a historical member: the EXISTS is part of the locking      *)
(* SELECT and sees the snapshot from before the wait for the lock          *)
(***************************************************************************)

Snapshot(r) ==
    /\ at[r] = "snapshot"
    /\ FindVerified(r)
    /\ at' = [at EXCEPT ![r] = "lockLinkHist"]
    /\ UNCHANGED <<tables, locks, task, via, claimed>>

LockLinkHist(r) ==
    /\ at[r] = "lockLinkHist"
    /\ histLock[task[r].group] = Nobody
    /\ \/ found[r] # Nobody /\ Finish(r)
       \/ /\ found[r] = Nobody
          /\ histLock' = [histLock EXCEPT ![task[r].group] = r]
          /\ Goto(r, "link")
          /\ UNCHANGED <<claimLock, inviteLock>>
    /\ UNCHANGED <<tables, via, claimed>>

Link(r) ==
    /\ at[r] = "link"
    /\ claimLock[task[r].user] = Nobody
    /\ SetVerified(task[r].user, "link")
    /\ Finish(r)
    /\ UNCHANGED <<memorial, invite, late>>

-----------------------------------------------------------------------------
(***************************************************************************)
(* AcceptInvitation                                                        *)
(***************************************************************************)

\* LockInvite mutated: SELECT without FOR UPDATE.
ReadInvite(r) ==
    /\ at[r] = "lockInvite"
    /\ LET i == task[r].inv IN
       \/ invite[i].status # "pending" /\ Finish(r)
       \/ /\ invite[i].status = "pending"
          /\ Goto(r, "checkVerified")
          /\ UNCHANGED locks
    /\ UNCHANGED <<tables, via, claimed>>

\* The mark "expired" of an overdue invitation is rolled back with the error.
LockInvite(r) ==
    /\ at[r] = "lockInvite"
    /\ LET i == task[r].inv IN
       /\ inviteLock[i] = Nobody
       /\ \/ /\ invite[i].status # "pending" \/ "app" \in late[i]
             /\ Finish(r)
          \/ /\ invite[i].status = "pending" /\ "app" \notin late[i]
             /\ inviteLock' = [inviteLock EXCEPT ![i] = r]
             /\ Goto(r, "checkVerified")
             /\ UNCHANGED <<claimLock, histLock>>
    /\ UNCHANGED <<tables, via, claimed>>

CheckVerified(r) ==
    /\ at[r] = "checkVerified"
    /\ FindVerified(r)
    /\ at' = [at EXCEPT ![r] = IF Verified # {} THEN "markAccepted" ELSE "checkMemorialInvite"]
    /\ UNCHANGED <<tables, locks, task, via, claimed>>

AcceptFor(i, u) == invite' = [invite EXCEPT ![i] = [status |-> "accepted", by |-> u]]

\* Already claimed: the invitation is settled in the claimant's name.
MarkAccepted(r) ==
    /\ at[r] = "markAccepted"
    /\ AcceptFor(task[r].inv, found[r])
    /\ Finish(r)
    /\ UNCHANGED <<claim, memorial, noindex, late, via, claimed>>

CheckMemorialInvite(r) ==
    /\ at[r] = "checkMemorialInvite"
    /\ \/ memorial /\ Finish(r)
       \/ ~memorial /\ Goto(r, "accept") /\ UNCHANGED locks
    /\ UNCHANGED <<tables, via, claimed>>

\* Accept mutated: the claim is entered as pending, and noindex is cleared.
AcceptUnverified(r) ==
    /\ at[r] = "accept"
    /\ claimLock[task[r].user] = Nobody
    /\ claim' = [claim EXCEPT ![task[r].user] = "pending"]
    /\ noindex' = FALSE
    /\ AcceptFor(task[r].inv, task[r].user)
    /\ Finish(r)
    /\ UNCHANGED <<memorial, late, via, claimed>>

Accept(r) ==
    /\ at[r] = "accept"
    /\ claimLock[task[r].user] = Nobody
    /\ SetVerified(task[r].user, "invite")
    /\ AcceptFor(task[r].inv, task[r].user)
    /\ Finish(r)
    /\ UNCHANGED <<memorial, late>>

-----------------------------------------------------------------------------
(***************************************************************************)
(* CreateInvitation and ListInvitationsForMember                           *)
(***************************************************************************)

Overdue == {i \in Open : "db" \in late[i]}

Expire(r) ==
    /\ at[r] = "expire"
    /\ \A i \in Overdue : inviteLock[i] = Nobody
    /\ invite' = [i \in Invitations |->
                    IF i \in Overdue THEN [invite[i] EXCEPT !.status = "expired"] ELSE invite[i]]
    /\ Goto(r, "reconcile")
    /\ UNCHANGED <<claim, memorial, noindex, late, locks, via, claimed>>

\* Open invitations to a claimed member are accepted in the claimant's name.
Reconcile(r) ==
    /\ at[r] = "reconcile"
    /\ \/ Verified = {} /\ UNCHANGED invite
       \/ /\ \A i \in Open : inviteLock[i] = Nobody
          /\ \E u \in Verified :
                invite' = [i \in Invitations |->
                             IF i \in Open THEN [status |-> "accepted", by |-> u] ELSE invite[i]]
    /\ \/ task[r].op = "list" /\ Finish(r)
       \/ task[r].op = "invite" /\ Goto(r, "vacancy") /\ UNCHANGED locks
    /\ UNCHANGED <<claim, memorial, noindex, late, via, claimed>>

CheckVacancy(r) ==
    /\ at[r] = "vacancy"
    /\ \/ Verified # {} /\ Finish(r)
       \/ Verified = {} /\ Goto(r, "insert") /\ UNCHANGED locks
    /\ UNCHANGED <<tables, via, claimed>>

\* uq_member_claim_invitations_pending_member admits one open invitation.
Insert(r) ==
    /\ at[r] = "insert"
    /\ \/ Open # {} /\ UNCHANGED invite
       \/ /\ Open = {}
          /\ \E i \in Invitations :
                /\ invite[i].status = "none"
                /\ invite' = [invite EXCEPT ![i].status = "pending"]
    /\ Finish(r)
    /\ UNCHANGED <<claim, memorial, noindex, late, via, claimed>>

-----------------------------------------------------------------------------
(***************************************************************************)
(* Calls of one statement                                                  *)
(***************************************************************************)

RejectClaim(u) ==
    /\ claim[u] = "pending" /\ claimLock[u] = Nobody
    /\ claim' = [claim EXCEPT ![u] = "rejected"]
    /\ UNCHANGED <<memorial, noindex, invite, late, locks, tasks, via, claimed>>

\* CancelInvitation mutated: WHERE without the status.
CancelInvitationAny(i) ==
    /\ invite[i].status # "none" /\ inviteLock[i] = Nobody
    /\ invite' = [invite EXCEPT ![i].status = "cancelled"]
    /\ UNCHANGED <<claim, memorial, noindex, late, locks, tasks, via, claimed>>

CancelInvitation(i) ==
    /\ invite[i].status = "pending" /\ inviteLock[i] = Nobody
    /\ invite' = [invite EXCEPT ![i].status = "cancelled"]
    /\ UNCHANGED <<claim, memorial, noindex, late, locks, tasks, via, claimed>>

SetMemorial ==
    /\ memorial' = TRUE
    /\ UNCHANGED <<claim, noindex, invite, late, locks, tasks, via, claimed>>

\* UpdateNoindex mutated: a claim of any status will do, if it was verified once.
UpdateNoindexFormer ==
    /\ claimed # {}
    /\ \E b \in BOOLEAN : noindex' = b
    /\ UNCHANGED <<claim, memorial, invite, late, locks, tasks, via, claimed>>

\* By a verified claimant whose latest verified claim is this one.
UpdateNoindex ==
    /\ Verified # {}
    /\ \E b \in BOOLEAN : noindex' = b
    /\ UNCHANGED <<claim, memorial, invite, late, locks, tasks, via, claimed>>

\* expires_at passes on one of the two clocks, which need not agree.
ExpiryPasses(i) ==
    /\ invite[i].status = "pending"
    /\ \E c \in Clocks \ late[i] : late' = [late EXCEPT ![i] = @ \cup {c}]
    /\ UNCHANGED <<claim, memorial, noindex, invite, locks, tasks, via, claimed>>

\* A statement fails (PostgreSQL breaks a deadlock this way), the caller goes
\* away or the process dies: an open transaction is rolled back.
Abort(r) ==
    /\ at[r] # "idle"
    /\ Finish(r)
    /\ UNCHANGED <<tables, via, claimed>>

Step(r) ==
    \/ CheckMemorial(r) \/ Upsert(r)
    \/ LockClaim(r) \/ LockHist(r) \/ Check(r) \/ Verify(r)
    \/ Snapshot(r) \/ LockLinkHist(r) \/ Link(r)
    \/ LockInvite(r) \/ CheckVerified(r) \/ MarkAccepted(r)
    \/ CheckMemorialInvite(r) \/ Accept(r)
    \/ Expire(r) \/ Reconcile(r) \/ CheckVacancy(r) \/ Insert(r)
    \/ Abort(r)

-----------------------------------------------------------------------------
\* A member of the archive, whom nobody has claimed.
Historical ==
    /\ claim = [u \in Users |-> "none"]
    /\ noindex = TRUE
    /\ via = [u \in Users |-> Nobody]
    /\ claimed = {}

\* ApproveRequest: one transaction turns the request of u into a member and
\* u's verified claim on it.
Requested(u) ==
    /\ claim = [v \in Users |-> IF v = u THEN "verified" ELSE "none"]
    /\ noindex = FALSE
    /\ via = [v \in Users |-> IF v = u THEN "request" ELSE Nobody]
    /\ claimed = {u}

Init ==
    /\ Historical \/ \E u \in Users : Requested(u)
    /\ memorial = FALSE
    /\ invite = [i \in Invitations |-> [status |-> "none", by |-> Nobody]]
    /\ late = [i \in Invitations |-> {}]
    /\ claimLock = [u \in Users |-> Nobody]
    /\ histLock = [g \in Groups |-> Nobody]
    /\ inviteLock = [i \in Invitations |-> Nobody]
    /\ task = [r \in Requests |-> Nobody]
    /\ at = [r \in Requests |-> "idle"]
    /\ found = [r \in Requests |-> Nobody]

Next ==
    \/ \E r \in Requests : (\E t \in Tasks : Begin(r, t)) \/ Step(r)
    \/ \E u \in Users : RejectClaim(u)
    \/ \E i \in Invitations : CancelInvitation(i) \/ ExpiryPasses(i)
    \/ SetMemorial
    \/ UpdateNoindex

Spec == Init /\ [][Next]_vars

-----------------------------------------------------------------------------
(***************************************************************************)
(* Properties                                                              *)
(***************************************************************************)

\* The next statement of r waits for a row that q has locked.
WaitsFor(r, q) ==
    /\ q # r
    /\ \/ at[r] \in {"upsert", "lockClaim", "link", "accept"} /\ claimLock[task[r].user] = q
       \/ at[r] \in {"lockHist", "lockLinkHist"} /\ histLock[task[r].group] = q
       \/ at[r] = "lockInvite" /\ inviteLock[task[r].inv] = q
       \/ at[r] = "expire" /\ \E i \in Overdue : inviteLock[i] = q
       \/ at[r] = "reconcile" /\ \E i \in Open : inviteLock[i] = q

\* Types, and a lock is only held by a request that is past taking it.
TypeOK ==
    /\ claim \in [Users -> ClaimStatuses]
    /\ memorial \in BOOLEAN /\ noindex \in BOOLEAN
    /\ invite \in [Invitations -> Invites]
    /\ late \in [Invitations -> SUBSET Clocks]
    /\ claimLock \in [Users -> Requests \cup {Nobody}]
    /\ histLock \in [Groups -> Requests \cup {Nobody}]
    /\ inviteLock \in [Invitations -> Requests \cup {Nobody}]
    /\ task \in [Requests -> Tasks \cup {Nobody}]
    /\ at \in [Requests -> Labels]
    /\ found \in [Requests -> Users \cup {Nobody}]
    /\ via \in [Users -> Channels \cup {Nobody}]
    /\ claimed \subseteq Users
    /\ \A r \in Requests, i \in Invitations :
          inviteLock[i] = r <=>
             /\ at[r] \in {"checkVerified", "markAccepted", "checkMemorialInvite", "accept"}
             /\ task[r].inv = i

\* "check verified invariant" within one path: no two claims on the member
\* are verified by reviews of the same group, nor by two claim invitations.
OneVerifiedPerPath ==
    \A c \in Groups \cup {"invite"} :
        Cardinality({u \in Verified : via[u] = c}) <= 1

\* "Zwei Admins bestätigen parallel zwei Claims auf denselben historischen
\* Member" must not happen: at most one claim on a member is verified.
OneVerifiedPerMember == Cardinality(Verified) <= 1

\* D-17, "Claim-Flows gegen ein memorial-Profil werden im Backend abgelehnt":
\* nobody becomes the claimant of a memorial profile.
MemorialNotClaimed == [][memorial => Verified' \subseteq Verified]_vars

\* A claim invitation is settled once, and one that counts as accepted names
\* a user whose claim has really been verified, whichever of acceptance,
\* cancellation, expiry and reconciliation comes late.
InvitesSettledOnce ==
    [][\A i \in Invitations :
         /\ invite[i].status \in Settled => invite'[i] = invite[i]
         /\ invite'[i].status = "accepted" => invite'[i].by \in claimed']_vars

\* Every member of C waits for a member of C and keeps one waiting, as the
\* members of a cycle of any length do.
WaitInCircle(C) ==
    /\ C # {}
    /\ \A r \in C : (\E q \in C : WaitsFor(r, q)) /\ (\E q \in C : WaitsFor(q, r))

\* However many calls are in a deadlock, it consists of reviews and creations
\* of app members (claim row, then membership row, against the opposite order):
\* no acceptance, submission or listing is ever its victim.
OnlyReviewAndLinkDeadlock ==
    \A C \in SUBSET Requests :
        WaitInCircle(C) => {at[r] : r \in C} = {"lockHist", "link"}

\* The profile becomes visible to search engines only through a verified
\* claim: a member nobody has ever claimed stays noindex.
UnclaimedStaysNoindex == claimed = {} => noindex

\* What a user sees: the claimants on each path and the settled invitations.
Claimants == [c \in Channels |-> {u \in Verified : via[u] = c}]
Offer == [i \in Invitations |->
            [status |-> invite[i].status,
             by |-> IF invite[i].status = "accepted" THEN invite[i].by ELSE Nobody]]

\* The claims keep the promise of ClaimPromise.
Promise == INSTANCE ClaimPromise
             WITH claimants <- Claimants, shown <- ~noindex, ever <- claimed, offer <- Offer
KeepsClaimPromise == Promise!Spec
=============================================================================
