-------------------------- MODULE MemberClaimsProofs --------------------------
(***************************************************************************)
(* The invariants of MemberClaims, for any users, groups, invitations and  *)
(* requests.  TypeOK and the properties are not inductive: what a request  *)
(* has checked must still hold when it writes, and that is the work of the *)
(* row locks.  IInv says which lock each check relies on, and what can     *)
(* have happened to the rows while it was held.                            *)
(***************************************************************************)
EXTENDS MemberClaims, FiniteSetTheorems, TLAPS

-----------------------------------------------------------------------------
(* The inductive invariant.                                                *)

Accepting == {"checkVerified", "markAccepted", "checkMemorialInvite", "accept"}

\* The types of the tables and of the history.
RowTypes ==
  /\ claim \in [Users -> ClaimStatuses]
  /\ memorial \in BOOLEAN /\ noindex \in BOOLEAN
  /\ invite \in [Invitations -> Invites]
  /\ late \in [Invitations -> SUBSET Clocks]
  /\ via \in [Users -> Channels \cup {Nobody}]
  /\ claimed \subseteq Users

\* The types of the requests and of the locks.
RequestTypes ==
  /\ claimLock \in [Users -> Requests \cup {Nobody}]
  /\ histLock \in [Groups -> Requests \cup {Nobody}]
  /\ inviteLock \in [Invitations -> Requests \cup {Nobody}]
  /\ task \in [Requests -> Tasks \cup {Nobody}]
  /\ at \in [Requests -> Labels]
  /\ found \in [Requests -> Users \cup {Nobody}]

\* A request at a statement serves a call that has this statement.
TaskFits(r) ==
  /\ at[r] # "idle" => task[r] \in Tasks
  /\ at[r] \in {"checkMemorial", "upsert"} => task[r].op = "submit"
  /\ at[r] \in {"lockClaim", "lockHist", "check", "verify"} =>
       task[r].op = "verify"
  /\ at[r] \in {"snapshot", "lockLinkHist", "link"} => task[r].op = "link"
  /\ at[r] \in {"lockInvite"} \cup Accepting => task[r].op = "accept"

\* A review from its check on holds the membership row of its group.
HoldsHist(r) == at[r] \in {"check", "verify"} => histLock[task[r].group] = r

\* An invitation row is held by exactly the acceptance that is past its lock.
HoldsInvite(r) ==
  \A i \in Invitations :
    inviteLock[i] = r <=> at[r] \in Accepting /\ task[r].inv = i

RequestsOK ==
  RequestTypes /\ \A r \in Requests : TaskFits(r) /\ HoldsHist(r) /\ HoldsInvite(r)

\* One open invitation, and a locked one is open.
InvitesOK ==
  /\ \A i, j \in Open : i = j
  /\ \A i \in Invitations : inviteLock[i] # Nobody => invite[i].status = "pending"

\* Whoever is, was found, or is named as claimant has had a verified claim.
ClaimantsOK ==
  /\ Verified \subseteq claimed
  /\ \A r \in Requests : found[r] # Nobody => found[r] \in claimed
  /\ \A r \in Requests : at[r] = "markAccepted" => found[r] # Nobody
  /\ \A i \in Invitations :
       invite[i].status = "accepted" => invite[i].by \in claimed
  /\ claimed = {} => noindex

VerifiedBy(c) == {u \in Verified : via[u] = c}

\* Nobody has become a claimant on the path on which r is about to write.
PathClear(r) ==
  /\ at[r] = "verify" => VerifiedBy(task[r].group) = {}
  /\ at[r] \in {"checkMemorialInvite", "accept"} => VerifiedBy("invite") = {}

PathsOK ==
  /\ \A r \in Requests : PathClear(r)
  /\ \A c \in Groups \cup {"invite"} : \A u, v \in VerifiedBy(c) : u = v

IInv == RowTypes /\ RequestsOK /\ InvitesOK /\ ClaimantsOK /\ PathsOK

-----------------------------------------------------------------------------
(* Tasks and turns.                                                        *)

\* A call carries the parameters of its operation.
LEMMA TaskFields ==
  ASSUME NEW t \in Tasks
  PROVE  /\ t.op \in {"submit", "verify", "link", "accept"} => t.user \in Users
         /\ t.op \in {"verify", "link"} => t.group \in Groups
         /\ t.op = "accept" => t.inv \in Invitations
<1>1. CASE t \in [op : TaskOps \cap {"submit"}, user : Users]
  BY <1>1
<1>2. CASE t \in [op : TaskOps \cap {"verify", "link"}, user : Users, group : Groups]
  BY <1>2
<1>3. CASE t \in [op : TaskOps \cap {"accept"}, user : Users, inv : Invitations]
  BY <1>3
<1>4. CASE t \in [op : TaskOps \cap {"invite", "list"}]
  BY <1>4
<1> QED  BY <1>1, <1>2, <1>3, <1>4 DEF Tasks

\* What a call that returns leaves behind: its locks are free, the other
\* requests and their locks are as before.
LEMMA FinishKeeps ==
  ASSUME RequestsOK, NEW r \in Requests, Finish(r)
  PROVE  /\ RequestsOK'
         /\ at'[r] = "idle" /\ found'[r] = Nobody
         /\ \A q \in Requests \ {r} :
              at'[q] = at[q] /\ task'[q] = task[q] /\ found'[q] = found[q]
         /\ \A i \in Invitations : inviteLock'[i] \in {inviteLock[i], Nobody}
<1>1. /\ at'[r] = "idle" /\ found'[r] = Nobody /\ task'[r] = Nobody
      /\ \A q \in Requests \ {r} :
           at'[q] = at[q] /\ task'[q] = task[q] /\ found'[q] = found[q]
      /\ \A i \in Invitations :
           inviteLock'[i] = IF inviteLock[i] = r THEN Nobody ELSE inviteLock[i]
      /\ \A g \in Groups :
           histLock'[g] = IF histLock[g] = r THEN Nobody ELSE histLock[g]
  BY DEF Finish, RequestsOK, RequestTypes
<1>2. RequestTypes'
  BY DEF Finish, RequestsOK, RequestTypes, Labels
<1>3. ASSUME NEW q \in Requests
      PROVE  TaskFits(q)' /\ HoldsHist(q)' /\ HoldsInvite(q)'
  <2>1. CASE q = r
    BY <1>1, <2>1, NobodyAssumption
       DEF TaskFits, HoldsHist, HoldsInvite, Accepting
  <2>2. CASE q # r
    <3>1. TaskFits(q)'
      BY <1>1, <2>2 DEF RequestsOK, TaskFits, Accepting
    <3>2. HoldsHist(q)'
      <4>1. SUFFICES ASSUME at[q] \in {"check", "verify"}
                     PROVE  histLock'[task[q].group] = q
        BY <1>1, <2>2 DEF HoldsHist
      <4>2. task[q].group \in Groups /\ histLock[task[q].group] = q
        BY <4>1, TaskFields DEF RequestsOK, TaskFits, HoldsHist
      <4> QED  BY <1>1, <2>2, <4>2
    <3>3. HoldsInvite(q)'
      BY <1>1, <2>2, NobodyAssumption DEF RequestsOK, HoldsInvite
    <3> QED  BY <3>1, <3>2, <3>3
  <2> QED  BY <2>1, <2>2
<1> QED  BY <1>1, <1>2, <1>3 DEF RequestsOK

\* A request that goes on, its locks as they are, at a statement that needs
\* no new lock.
LEMMA MoveKeeps ==
  ASSUME RequestsOK, NEW r \in Requests, NEW label \in Labels,
         at[r] # "idle", label # "idle",
         at' = [at EXCEPT ![r] = label], task' = task, UNCHANGED locks,
         found' \in [Requests -> Users \cup {Nobody}],
         \/ {at[r], label} \subseteq {"checkMemorial", "upsert"}
         \/ {at[r], label} \subseteq {"check", "verify"}
         \/ {at[r], label} \subseteq {"snapshot", "lockLinkHist"}
         \/ {at[r], label} \subseteq Accepting
         \/ {at[r], label} \subseteq {"expire", "reconcile", "vacancy", "insert"}
  PROVE  RequestsOK'
<1>1. RequestTypes'
  BY DEF RequestsOK, RequestTypes, locks
<1>2. at'[r] = label /\ \A q \in Requests \ {r} : at'[q] = at[q]
  BY DEF RequestsOK, RequestTypes
<1>3. ASSUME NEW q \in Requests
      PROVE  TaskFits(q)' /\ HoldsHist(q)' /\ HoldsInvite(q)'
  <2>1. TaskFits(q) /\ HoldsHist(q) /\ HoldsInvite(q)
    BY DEF RequestsOK
  <2>2. CASE q # r
    BY <1>2, <2>1, <2>2 DEF TaskFits, HoldsHist, HoldsInvite, locks
  <2>3. CASE q = r
    BY <1>2, <2>1, <2>3 DEF TaskFits, HoldsHist, HoldsInvite, locks, Accepting
  <2> QED  BY <2>2, <2>3
<1> QED  BY <1>1, <1>3 DEF RequestsOK

-----------------------------------------------------------------------------
(* The steps, by what they do to the rows.                                 *)

\* The claims and the invitations are as they are, and r, if it is about to
\* write, has just looked.
LEMMA LookKeeps ==
  ASSUME IInv, NEW r \in Requests, RequestsOK',
         UNCHANGED <<claim, noindex, invite, via, claimed>>,
         memorial' \in BOOLEAN, late' \in [Invitations -> SUBSET Clocks],
         \A q \in Requests \ {r} :
           at'[q] = at[q] /\ task'[q] = task[q] /\ found'[q] = found[q],
         \A i \in Invitations :
           inviteLock'[i] \in {inviteLock[i], Nobody}
             \/ invite[i].status = "pending",
         found'[r] # Nobody => found'[r] \in Verified \cup {found[r]},
         at'[r] = "markAccepted" => found'[r] # Nobody,
         at'[r] = "verify" => Verified = {},
         at'[r] = "checkMemorialInvite" => Verified = {},
         at'[r] = "accept" => at[r] = "checkMemorialInvite"
  PROVE  IInv'
<1>1. RowTypes'
  BY DEF IInv, RowTypes
<1>2. Verified' = Verified /\ Open' = Open
  BY DEF Verified, Open
<1>3. InvitesOK'
  BY <1>2 DEF IInv, InvitesOK
<1>4. ClaimantsOK'
  BY <1>2 DEF IInv, ClaimantsOK
<1>5. \A c : VerifiedBy(c)' = VerifiedBy(c)
  BY <1>2 DEF VerifiedBy
<1>6. ASSUME NEW q \in Requests  PROVE PathClear(q)'
  <2>1. PathClear(q)
    BY DEF IInv, PathsOK
  <2>2. CASE q # r
    BY <1>5, <2>1, <2>2 DEF PathClear
  <2>3. CASE q = r
    BY <1>5, <2>1, <2>3 DEF PathClear, VerifiedBy
  <2> QED  BY <2>2, <2>3
<1>7. PathsOK'
  BY <1>5, <1>6 DEF IInv, PathsOK
<1> QED  BY <1>1, <1>3, <1>4, <1>7 DEF IInv

\* The claim of u is verified on the path c, which nobody else is about to
\* write on and nobody has been verified on.
LEMMA VerifiedKeeps ==
  ASSUME IInv, NEW r \in Requests, NEW u \in Users, NEW c \in Channels,
         SetVerified(u, c), Finish(r), RowTypes', InvitesOK',
         \A i \in Invitations :
           invite'[i].status = "accepted" => invite'[i].by \in claimed',
         c \in Groups \cup {"invite"} => VerifiedBy(c) = {},
         \A q \in Requests \ {r} : at[q] = "verify" => task[q].group # c,
         \A q \in Requests \ {r} :
           at[q] \in {"checkMemorialInvite", "accept"} => c # "invite"
  PROVE  IInv'
<1>1. /\ RequestsOK'
      /\ at'[r] = "idle" /\ found'[r] = Nobody
      /\ \A q \in Requests \ {r} :
           at'[q] = at[q] /\ task'[q] = task[q] /\ found'[q] = found[q]
  BY FinishKeeps DEF IInv
<1>2. /\ claimed' = claimed \cup {u} /\ noindex' = FALSE
      /\ Verified' = Verified \cup {u}
      /\ via'[u] = c /\ \A v \in Users \ {u} : via'[v] = via[v]
  BY DEF SetVerified, Verified, IInv, RowTypes
<1>3. ClaimantsOK'
  BY <1>1, <1>2 DEF IInv, ClaimantsOK
<1>4. \A d : d # c => VerifiedBy(d)' \subseteq VerifiedBy(d)
  BY <1>2 DEF VerifiedBy, Verified
<1>5. VerifiedBy(c)' \subseteq VerifiedBy(c) \cup {u}
  BY <1>2 DEF VerifiedBy, Verified
<1>6. ASSUME NEW q \in Requests  PROVE PathClear(q)'
  <2>1. PathClear(q)
    BY DEF IInv, PathsOK
  <2>2. CASE q = r
    BY <1>1, <2>2 DEF PathClear
  <2>3. CASE q # r
    <3>1. at[q] = "verify" => VerifiedBy(task[q].group)' = {}
      BY <1>1, <1>4, <2>1, <2>3 DEF PathClear
    <3>2. at[q] \in {"checkMemorialInvite", "accept"} =>
            VerifiedBy("invite")' = {}
      BY <1>4, <2>1, <2>3 DEF PathClear
    <3>3. at'[q] = at[q] /\ task'[q] = task[q]
      BY <1>1, <2>3
    <3> QED  BY <3>1, <3>2, <3>3 DEF PathClear, VerifiedBy, Verified
  <2> QED  BY <2>2, <2>3
<1>7. ASSUME NEW d \in Groups \cup {"invite"},
             NEW v \in VerifiedBy(d)', NEW w \in VerifiedBy(d)'
      PROVE  v = w
  <2>1. \A x, y \in VerifiedBy(d) : x = y
    BY DEF IInv, PathsOK
  <2>2. CASE d = c
    BY <1>5, <1>7, <2>2
  <2>3. CASE d # c
    BY <1>4, <1>7, <2>1, <2>3
  <2> QED  BY <2>2, <2>3
<1>8. PathsOK'
  BY <1>6, <1>7 DEF PathsOK
<1> QED  BY <1>1, <1>3, <1>8 DEF IInv

\* A claim that is verified no longer, or never was.
LEMMA UnverifiedKeeps ==
  ASSUME IInv, RequestsOK', RowTypes', InvitesOK',
         UNCHANGED <<noindex, invite, claimed>>,
         Verified' \subseteq Verified,
         \A u \in Verified' : via'[u] = via[u],
         \A q \in Requests :
           \/ at'[q] = "idle" /\ found'[q] = Nobody
           \/ at'[q] = at[q] /\ task'[q] = task[q] /\ found'[q] = found[q]
  PROVE  IInv'
<1>1. \A c : VerifiedBy(c)' \subseteq VerifiedBy(c)
  BY DEF VerifiedBy
<1>2. ClaimantsOK'
  BY DEF IInv, ClaimantsOK
<1>3. \A c \in Groups \cup {"invite"} : \A u, v \in VerifiedBy(c)' : u = v
  BY <1>1 DEF IInv, PathsOK
<1>4. ASSUME NEW q \in Requests  PROVE PathClear(q)'
  <2>1. PathClear(q)
    BY DEF IInv, PathsOK
  <2>2. CASE at'[q] = "idle"
    BY <2>2 DEF PathClear
  <2>3. CASE at'[q] = at[q] /\ task'[q] = task[q]
    <3>1. at[q] = "verify" => VerifiedBy(task[q].group)' = {}
      BY <1>1, <2>1, <2>3 DEF PathClear
    <3>2. at[q] \in {"checkMemorialInvite", "accept"} =>
            VerifiedBy("invite")' = {}
      BY <1>1, <2>1 DEF PathClear
    <3> QED  BY <2>3, <3>1, <3>2 DEF PathClear, VerifiedBy, Verified
  <2> QED  BY <2>2, <2>3
<1> QED  BY <1>2, <1>3, <1>4 DEF IInv, PathsOK

\* The invitations change, and the claims do not.
LEMMA InviteKeeps ==
  ASSUME IInv, RequestsOK', InvitesOK', invite' \in [Invitations -> Invites],
         UNCHANGED <<claim, memorial, noindex, late, via, claimed>>,
         \A i \in Invitations :
           invite'[i].status = "accepted" => invite'[i].by \in claimed,
         \A q \in Requests :
           /\ at'[q] = at[q] \/ at'[q] \in {"idle", "reconcile", "vacancy", "insert"}
           /\ \/ found'[q] = Nobody
              \/ found'[q] = found[q]
           /\ at'[q] = "markAccepted" => found'[q] = found[q]
           /\ at'[q] = "verify" => task'[q] = task[q]
  PROVE  IInv'
<1>1. Verified' = Verified /\ \A c : VerifiedBy(c)' = VerifiedBy(c)
  BY DEF Verified, VerifiedBy
<1>2. RowTypes'
  BY DEF IInv, RowTypes
<1>3. ClaimantsOK'
  BY <1>1 DEF IInv, ClaimantsOK
<1>4. ASSUME NEW q \in Requests  PROVE PathClear(q)'
  <2>1. PathClear(q)
    BY DEF IInv, PathsOK
  <2> QED  BY <1>1, <2>1 DEF PathClear
<1> QED  BY <1>1, <1>2, <1>3, <1>4 DEF IInv, PathsOK

-----------------------------------------------------------------------------
(* Initial states.                                                         *)

\* No request and no invitation; no claimant, or the one whose request
\* created the member.
LEMMA InitIInv == Init => IInv
<1> SUFFICES ASSUME Init  PROVE IInv
  OBVIOUS
<1>1. Open = {}
  BY DEF Init, Open
<1>2. RequestsOK
  BY NobodyAssumption DEF Init, RequestsOK, RequestTypes, Labels, TaskFits,
     HoldsHist, HoldsInvite, Accepting
<1>3. InvitesOK
  BY <1>1 DEF Init, InvitesOK
<1>4. \A r \in Requests : PathClear(r)
  BY DEF Init, PathClear
<1>5. CASE Historical
  <2>1. Verified = {}
    BY <1>5 DEF Historical, Verified
  <2>2. RowTypes
    BY <1>5 DEF Init, Historical, RowTypes, ClaimStatuses, Invites
  <2>3. ClaimantsOK
    BY <1>5, <2>1 DEF Init, Historical, ClaimantsOK
  <2>4. PathsOK
    BY <1>4, <2>1 DEF PathsOK, VerifiedBy
  <2> QED  BY <1>2, <1>3, <2>2, <2>3, <2>4 DEF IInv
<1>6. ASSUME NEW u \in Users, Requested(u)  PROVE IInv
  <2>1. Verified = {u}
    BY <1>6 DEF Requested, Verified
  <2>2. RowTypes
    BY <1>6 DEF Init, Requested, RowTypes, ClaimStatuses, Channels, Invites
  <2>3. ClaimantsOK
    BY <1>6, <2>1 DEF Init, Requested, ClaimantsOK
  <2>4. PathsOK
    BY <1>4, <2>1 DEF PathsOK, VerifiedBy
  <2> QED  BY <1>2, <1>3, <2>2, <2>3, <2>4 DEF IInv
<1> QED  BY <1>5, <1>6 DEF Init

-----------------------------------------------------------------------------
(* One lemma per group of actions.                                         *)

\* What a return leaves of the invitations.
LEMMA FinishInvites ==
  ASSUME IInv, NEW r \in Requests, Finish(r), UNCHANGED invite
  PROVE  InvitesOK'
<1>1. Open' = Open /\ \A i \in Invitations : inviteLock'[i] \in {inviteLock[i], Nobody}
  BY FinishKeeps DEF IInv, Open
<1> QED  BY <1>1 DEF IInv, InvitesOK

\* A call that returns without having written anything.
LEMMA ReturnKeeps ==
  ASSUME IInv, NEW r \in Requests, Finish(r), UNCHANGED <<tables, via, claimed>>
  PROVE  IInv'
<1>1. RequestsOK' /\ InvitesOK'
  BY FinishKeeps, FinishInvites DEF IInv, tables
<1>2. RowTypes' /\ Verified' = Verified
  BY DEF IInv, RowTypes, Verified, tables
<1>3. \A q \in Requests :
         \/ at'[q] = "idle" /\ found'[q] = Nobody
         \/ at'[q] = at[q] /\ task'[q] = task[q] /\ found'[q] = found[q]
  BY FinishKeeps DEF IInv
<1> QED  BY <1>1, <1>2, <1>3, UnverifiedKeeps DEF tables

\* A call begins.
LEMMA BeginKeeps ==
  ASSUME IInv, NEW r \in Requests, NEW t \in Tasks, Begin(r, t)
  PROVE  IInv'
<1>1. /\ at[r] = "idle" /\ at'[r] = FirstLabel(t) /\ task'[r] = t
      /\ \A q \in Requests \ {r} : at'[q] = at[q] /\ task'[q] = task[q]
      /\ UNCHANGED <<tables, locks, found, via, claimed>>
  BY DEF Begin, IInv, RequestsOK, RequestTypes
<1>2. /\ t.op \in TaskOps
      /\ FirstLabel(t) \in {"checkMemorial", "lockClaim", "snapshot", "lockInvite", "expire"}
  BY DEF Tasks, FirstLabel
<1>3. /\ FirstLabel(t) = "checkMemorial" => t.op = "submit"
      /\ FirstLabel(t) = "lockClaim" => t.op = "verify"
      /\ FirstLabel(t) = "snapshot" => t.op = "link"
      /\ FirstLabel(t) = "lockInvite" => t.op = "accept"
  BY DEF FirstLabel
<1>4. RequestTypes'
  BY <1>1, <1>2 DEF Begin, IInv, RequestsOK, RequestTypes, locks, Labels
<1>5. ASSUME NEW q \in Requests
      PROVE  TaskFits(q)' /\ HoldsHist(q)' /\ HoldsInvite(q)'
  <2>1. TaskFits(q) /\ HoldsHist(q) /\ HoldsInvite(q)
    BY DEF IInv, RequestsOK
  <2>2. CASE q # r
    BY <1>1, <2>1, <2>2 DEF TaskFits, HoldsHist, HoldsInvite, locks
  <2>3. CASE q = r
    BY <1>1, <1>2, <1>3, <2>1, <2>3
       DEF TaskFits, HoldsHist, HoldsInvite, Accepting, locks
  <2> QED  BY <2>2, <2>3
<1>6. RequestsOK'
  BY <1>4, <1>5 DEF RequestsOK
<1>7. memorial' \in BOOLEAN /\ late' \in [Invitations -> SUBSET Clocks]
  BY <1>1 DEF IInv, RowTypes, tables
<1> QED  BY <1>1, <1>2, <1>6, <1>7, LookKeeps DEF tables, locks

\* A call goes on without a lock: it has looked at a row, or not even that.
LEMMA GotoKeeps ==
  ASSUME IInv, NEW r \in Requests, NEW label \in Labels,
         at[r] # "idle", label # "idle",
         at' = [at EXCEPT ![r] = label], UNCHANGED <<tables, locks, task, via, claimed>>,
         found' \in [Requests -> Users \cup {Nobody}],
         \A q \in Requests \ {r} : found'[q] = found[q],
         found'[r] # Nobody => found'[r] \in Verified \cup {found[r]},
         label = "markAccepted" => found'[r] # Nobody,
         label \in {"verify", "checkMemorialInvite"} => Verified = {},
         label = "accept" => at[r] = "checkMemorialInvite",
         \/ {at[r], label} \subseteq {"checkMemorial", "upsert"}
         \/ {at[r], label} \subseteq {"check", "verify"}
         \/ {at[r], label} \subseteq {"snapshot", "lockLinkHist"}
         \/ {at[r], label} \subseteq Accepting
         \/ {at[r], label} \subseteq {"expire", "reconcile", "vacancy", "insert"}
  PROVE  IInv'
<1>1. RequestsOK'
  BY MoveKeeps DEF IInv
<1>2. at'[r] = label /\ \A q \in Requests \ {r} : at'[q] = at[q] /\ task'[q] = task[q]
  BY DEF IInv, RequestsOK, RequestTypes
<1>3. memorial' \in BOOLEAN /\ late' \in [Invitations -> SUBSET Clocks]
  BY DEF IInv, RowTypes, tables
<1> QED  BY <1>1, <1>2, <1>3, LookKeeps DEF tables, locks

\* The reads that take no lock.
LEMMA LooksKeep ==
  ASSUME IInv, NEW r \in Requests,
         \/ CheckMemorial(r) \/ Check(r) \/ Snapshot(r)
         \/ CheckVerified(r) \/ CheckMemorialInvite(r) \/ CheckVacancy(r)
  PROVE  IInv'
<1> USE DEF Goto, Labels
<1>f. found \in [Requests -> Users \cup {Nobody}] /\ Verified \subseteq Users
  BY DEF IInv, RequestsOK, RequestTypes, Verified
<1>1. CASE CheckMemorial(r)
  <2>1. CASE Finish(r)
    BY <1>1, <2>1, ReturnKeeps DEF CheckMemorial
  <2>2. CASE Goto(r, "upsert") /\ UNCHANGED locks
    BY <1>1, <1>f, <2>2, GotoKeeps DEF CheckMemorial
  <2> QED  BY <1>1, <2>1, <2>2 DEF CheckMemorial
<1>2. CASE Check(r)
  <2>1. CASE Finish(r)
    BY <1>2, <2>1, ReturnKeeps DEF Check
  <2>2. CASE Verified = {} /\ Goto(r, "verify") /\ UNCHANGED locks
    BY <1>2, <1>f, <2>2, GotoKeeps DEF Check
  <2> QED  BY <1>2, <2>1, <2>2 DEF Check
<1>3. CASE Snapshot(r)
  <2>1. /\ found' \in [Requests -> Users \cup {Nobody}]
        /\ \A q \in Requests \ {r} : found'[q] = found[q]
        /\ found'[r] \in Verified \cup {Nobody}
    BY <1>3, <1>f DEF Snapshot, FindVerified
  <2> QED  BY <1>3, <2>1, GotoKeeps DEF Snapshot
<1>4. CASE CheckVerified(r)
  <2>1. /\ found' \in [Requests -> Users \cup {Nobody}]
        /\ \A q \in Requests \ {r} : found'[q] = found[q]
        /\ found'[r] \in Verified \cup {Nobody}
        /\ Verified # {} => found'[r] # Nobody
    BY <1>4, <1>f, NobodyAssumption DEF CheckVerified, FindVerified
  <2>2. CASE Verified # {}
    BY <1>4, <2>1, <2>2, GotoKeeps DEF CheckVerified, Accepting
  <2>3. CASE Verified = {}
    BY <1>4, <2>1, <2>3, GotoKeeps DEF CheckVerified, Accepting
  <2> QED  BY <2>2, <2>3
<1>5. CASE CheckMemorialInvite(r)
  <2>1. CASE Finish(r)
    BY <1>5, <2>1, ReturnKeeps DEF CheckMemorialInvite
  <2>2. CASE Goto(r, "accept") /\ UNCHANGED locks
    BY <1>5, <1>f, <2>2, GotoKeeps DEF CheckMemorialInvite, Accepting
  <2> QED  BY <1>5, <2>1, <2>2 DEF CheckMemorialInvite
<1>6. CASE CheckVacancy(r)
  <2>1. CASE Finish(r)
    BY <1>6, <2>1, ReturnKeeps DEF CheckVacancy
  <2>2. CASE Goto(r, "insert") /\ UNCHANGED locks
    BY <1>6, <1>f, <2>2, GotoKeeps DEF CheckVacancy
  <2> QED  BY <1>6, <2>1, <2>2 DEF CheckVacancy
<1> QED  BY <1>1, <1>2, <1>3, <1>4, <1>5, <1>6

\* The row locks.
LEMMA LocksKeep ==
  ASSUME IInv, NEW r \in Requests,
         LockClaim(r) \/ LockHist(r) \/ LockLinkHist(r) \/ LockInvite(r)
  PROVE  IInv'
<1>t. /\ RequestTypes /\ TaskFits(r)
      /\ \A q \in Requests : TaskFits(q) /\ HoldsHist(q) /\ HoldsInvite(q)
      /\ memorial \in BOOLEAN /\ late \in [Invitations -> SUBSET Clocks]
  BY DEF IInv, RequestsOK, RowTypes
<1>1. CASE LockClaim(r)
  <2>1. /\ at[r] = "lockClaim" /\ at'[r] = "lockHist"
        /\ \A q \in Requests \ {r} : at'[q] = at[q]
        /\ UNCHANGED <<tables, histLock, inviteLock, task, found, via, claimed>>
    BY <1>1, <1>t DEF LockClaim, Goto, RequestTypes
  <2>2. RequestTypes'
    BY <1>1, <1>t DEF LockClaim, Goto, RequestTypes, Labels
  <2>3. ASSUME NEW q \in Requests
        PROVE  TaskFits(q)' /\ HoldsHist(q)' /\ HoldsInvite(q)'
    <3>1. CASE q # r
      BY <1>t, <2>1, <3>1 DEF TaskFits, HoldsHist, HoldsInvite
    <3>2. CASE q = r
      BY <1>t, <2>1, <3>2 DEF TaskFits, HoldsHist, HoldsInvite, Accepting
    <3> QED  BY <3>1, <3>2
  <2>4. RequestsOK'
    BY <2>2, <2>3 DEF RequestsOK
  <2> QED  BY <1>t, <2>1, <2>4, LookKeeps DEF tables
<1>2. CASE LockHist(r)
  <2>1. /\ at[r] = "lockHist" /\ at'[r] = "check"
        /\ \A q \in Requests \ {r} : at'[q] = at[q]
        /\ UNCHANGED <<tables, claimLock, inviteLock, task, found, via, claimed>>
    BY <1>2, <1>t DEF LockHist, Goto, RequestTypes
  <2>2. /\ task[r].group \in Groups /\ histLock[task[r].group] = Nobody
        /\ histLock'[task[r].group] = r
        /\ \A g \in Groups \ {task[r].group} : histLock'[g] = histLock[g]
    BY <1>2, <1>t, <2>1, TaskFields DEF LockHist, TaskFits, RequestTypes
  <2>3. RequestTypes'
    BY <1>2, <1>t DEF LockHist, Goto, RequestTypes, Labels
  <2>4. ASSUME NEW q \in Requests
        PROVE  TaskFits(q)' /\ HoldsHist(q)' /\ HoldsInvite(q)'
    <3>1. CASE q # r
      <4>1. at[q] \in {"check", "verify"} => task[q].group \in Groups
        BY <1>t, TaskFields DEF TaskFits
      <4> QED  BY <1>t, <2>1, <2>2, <3>1, <4>1, NobodyAssumption
               DEF TaskFits, HoldsHist, HoldsInvite
    <3>2. CASE q = r
      BY <1>t, <2>1, <2>2, <3>2 DEF TaskFits, HoldsHist, HoldsInvite, Accepting
    <3> QED  BY <3>1, <3>2
  <2>5. RequestsOK'
    BY <2>3, <2>4 DEF RequestsOK
  <2> QED  BY <1>t, <2>1, <2>5, LookKeeps DEF tables
<1>3. CASE LockLinkHist(r)
  <2>1. CASE Finish(r)
    BY <1>3, <2>1, ReturnKeeps DEF LockLinkHist
  <2>2. CASE ~Finish(r)
    <3>1. /\ at[r] = "lockLinkHist" /\ at'[r] = "link"
          /\ \A q \in Requests \ {r} : at'[q] = at[q]
          /\ UNCHANGED <<tables, claimLock, inviteLock, task, found, via, claimed>>
      BY <1>3, <1>t, <2>2 DEF LockLinkHist, Goto, RequestTypes
    <3>2. /\ task[r].group \in Groups /\ histLock[task[r].group] = Nobody
          /\ \A g \in Groups \ {task[r].group} : histLock'[g] = histLock[g]
      BY <1>3, <1>t, <2>2, <3>1, TaskFields DEF LockLinkHist, TaskFits, RequestTypes
    <3>3. RequestTypes'
      BY <1>3, <1>t, <2>2 DEF LockLinkHist, Goto, RequestTypes, Labels
    <3>4. ASSUME NEW q \in Requests
          PROVE  TaskFits(q)' /\ HoldsHist(q)' /\ HoldsInvite(q)'
      <4>1. CASE q # r
        <5>1. at[q] \in {"check", "verify"} => task[q].group \in Groups
          BY <1>t, TaskFields DEF TaskFits
        <5> QED  BY <1>t, <3>1, <3>2, <4>1, <5>1, NobodyAssumption
                 DEF TaskFits, HoldsHist, HoldsInvite
      <4>2. CASE q = r
        BY <1>t, <3>1, <4>2 DEF TaskFits, HoldsHist, HoldsInvite, Accepting
      <4> QED  BY <4>1, <4>2
    <3>5. RequestsOK'
      BY <3>3, <3>4 DEF RequestsOK
    <3> QED  BY <1>t, <3>1, <3>5, LookKeeps DEF tables
  <2> QED  BY <2>1, <2>2
<1>4. CASE LockInvite(r)
  <2>1. CASE Finish(r)
    BY <1>4, <2>1, ReturnKeeps DEF LockInvite
  <2>2. CASE ~Finish(r)
    <3> DEFINE i == task[r].inv
    <3>1. /\ at[r] = "lockInvite" /\ at'[r] = "checkVerified"
          /\ \A q \in Requests \ {r} : at'[q] = at[q]
          /\ UNCHANGED <<tables, claimLock, histLock, task, found, via, claimed>>
      BY <1>4, <1>t, <2>2 DEF LockInvite, Goto, RequestTypes
    <3>2. /\ i \in Invitations /\ inviteLock[i] = Nobody
          /\ invite[i].status = "pending" /\ inviteLock'[i] = r
          /\ \A j \in Invitations \ {i} : inviteLock'[j] = inviteLock[j]
      BY <1>4, <1>t, <2>2, <3>1, TaskFields DEF LockInvite, TaskFits, RequestTypes
    <3>3. RequestTypes'
      BY <1>4, <1>t, <2>2 DEF LockInvite, Goto, RequestTypes, Labels
    <3>4. ASSUME NEW q \in Requests
          PROVE  TaskFits(q)' /\ HoldsHist(q)' /\ HoldsInvite(q)'
      <4>1. CASE q # r
        BY <1>t, <3>1, <3>2, <4>1, NobodyAssumption
           DEF TaskFits, HoldsHist, HoldsInvite
      <4>2. CASE q = r
        BY <1>t, <3>1, <3>2, <4>2 DEF TaskFits, HoldsHist, HoldsInvite, Accepting
      <4> QED  BY <4>1, <4>2
    <3>5. RequestsOK'
      BY <3>3, <3>4 DEF RequestsOK
    <3> QED  BY <1>t, <3>1, <3>2, <3>5, LookKeeps DEF tables
  <2> QED  BY <2>1, <2>2
<1> QED  BY <1>1, <1>2, <1>3, <1>4

\* The rows a request about to write holds, and the invitation of an
\* acceptance.
LEMMA Held ==
  ASSUME IInv, NEW r \in Requests, at[r] \in Accepting
  PROVE  /\ task[r].inv \in Invitations /\ task[r].user \in Users
         /\ inviteLock[task[r].inv] = r
         /\ invite[task[r].inv].status = "pending"
         /\ \A q \in Requests \ {r} : at[q] \notin Accepting
<1>1. ASSUME NEW q \in Requests, at[q] \in Accepting
      PROVE  /\ task[q].inv \in Invitations /\ task[q].user \in Users
             /\ inviteLock[task[q].inv] = q
             /\ task[q].inv \in Open
  <2>1. task[q].inv \in Invitations /\ task[q].user \in Users
    BY <1>1, TaskFields DEF IInv, RequestsOK, TaskFits, Accepting
  <2>2. inviteLock[task[q].inv] = q
    BY <1>1, <2>1 DEF IInv, RequestsOK, HoldsInvite
  <2> QED  BY <2>1, <2>2, NobodyAssumption DEF IInv, InvitesOK, Open
<1>2. ASSUME NEW q \in Requests \ {r}, at[q] \in Accepting
      PROVE  FALSE
  BY <1>1, <1>2 DEF IInv, InvitesOK
<1> QED  BY <1>1, <1>2 DEF Open

\* The writes that verify a claim.
LEMMA VerifiesKeep ==
  ASSUME IInv, NEW r \in Requests, Verify(r) \/ Link(r) \/ Accept(r)
  PROVE  IInv'
<1>t. /\ RowTypes /\ RequestTypes /\ InvitesOK
      /\ \A q \in Requests :
           TaskFits(q) /\ HoldsHist(q) /\ HoldsInvite(q) /\ PathClear(q)
      /\ \A i \in Invitations : invite[i].status = "accepted" => invite[i].by \in claimed
  BY DEF IInv, RequestsOK, PathsOK, ClaimantsOK
<1>g. "invite" \notin Groups /\ "link" \notin Groups
  BY GroupAssumption
<1>r. \A q \in Requests : at[q] = "verify" => task[q].group \in Groups
  BY <1>t, TaskFields DEF TaskFits
<1>1. CASE Verify(r)
  <2> DEFINE c == task[r].group
  <2>1. /\ at[r] = "verify" /\ c \in Groups /\ task[r].user \in Users
        /\ SetVerified(task[r].user, c) /\ Finish(r) /\ UNCHANGED <<memorial, invite, late>>
    BY <1>1, <1>t, TaskFields DEF Verify, TaskFits
  <2>2. RowTypes'
    BY <1>t, <2>1 DEF RowTypes, SetVerified, ClaimStatuses, Channels
  <2>3. InvitesOK'
    BY <2>1, FinishInvites
  <2>4. \A i \in Invitations : invite'[i].status = "accepted" => invite'[i].by \in claimed'
    BY <1>t, <2>1 DEF SetVerified
  <2>5. VerifiedBy(c) = {}
    BY <1>t, <2>1 DEF PathClear
  <2>6. \A q \in Requests \ {r} : at[q] = "verify" => task[q].group # c
    BY <1>t, <2>1 DEF HoldsHist
  <2>7. c # "invite" /\ c \in Channels
    BY <1>g, <2>1 DEF Channels
  <2> HIDE DEF c
  <2> QED  BY <2>1, <2>2, <2>3, <2>4, <2>5, <2>6, <2>7, VerifiedKeeps
<1>2. CASE Link(r)
  <2>1. /\ at[r] = "link" /\ task[r].user \in Users
        /\ SetVerified(task[r].user, "link") /\ Finish(r)
        /\ UNCHANGED <<memorial, invite, late>>
    BY <1>2, <1>t, TaskFields DEF Link, TaskFits
  <2>2. RowTypes'
    BY <1>t, <2>1 DEF RowTypes, SetVerified, ClaimStatuses, Channels
  <2>3. InvitesOK'
    BY <2>1, FinishInvites
  <2>4. \A i \in Invitations : invite'[i].status = "accepted" => invite'[i].by \in claimed'
    BY <1>t, <2>1 DEF SetVerified
  <2>5. "link" \in Channels /\ "link" \notin Groups \cup {"invite"}
    BY <1>g DEF Channels
  <2>6. \A q \in Requests \ {r} : at[q] = "verify" => task[q].group # "link"
    BY <1>g, <1>r
  <2> QED  BY <2>1, <2>2, <2>3, <2>4, <2>5, <2>6, VerifiedKeeps
<1>3. CASE Accept(r)
  <2> DEFINE i == task[r].inv
  <2>h. /\ i \in Invitations /\ task[r].user \in Users /\ inviteLock[i] = r
        /\ \A q \in Requests \ {r} : at[q] \notin Accepting
    BY <1>3, Held DEF Accept, Accepting
  <2>1. /\ at[r] = "accept" /\ SetVerified(task[r].user, "invite") /\ Finish(r)
        /\ AcceptFor(i, task[r].user) /\ UNCHANGED <<memorial, late>>
    BY <1>3 DEF Accept
  <2>2. RowTypes'
    <3>1. invite' \in [Invitations -> Invites]
      BY <1>t, <2>1, <2>h DEF RowTypes, AcceptFor, Invites, Settled
    <3> QED  BY <1>t, <2>1, <2>h, <3>1 DEF RowTypes, SetVerified, ClaimStatuses, Channels
  <2>3. /\ invite'[i] = [status |-> "accepted", by |-> task[r].user]
        /\ \A j \in Invitations \ {i} : invite'[j] = invite[j]
    BY <1>t, <2>1, <2>h DEF RowTypes, AcceptFor
  <2>4. InvitesOK'
    <3>1. Open' \subseteq Open
      BY <2>3 DEF Open
    <3>2. /\ inviteLock'[i] = Nobody
          /\ \A j \in Invitations : inviteLock'[j] \in {inviteLock[j], Nobody}
      BY <2>1, <2>h DEF Finish
    <3> QED  BY <1>t, <2>3, <3>1, <3>2 DEF InvitesOK
  <2>5. \A j \in Invitations : invite'[j].status = "accepted" => invite'[j].by \in claimed'
    BY <1>t, <2>1, <2>3 DEF SetVerified
  <2>6. VerifiedBy("invite") = {}
    BY <1>t, <2>1 DEF PathClear
  <2>7. \A q \in Requests \ {r} : at[q] = "verify" => task[q].group # "invite"
    BY <1>g, <1>r
  <2>8. \A q \in Requests \ {r} : at[q] \notin {"checkMemorialInvite", "accept"}
    BY <2>h DEF Accepting
  <2>9. "invite" \in Channels
    BY DEF Channels
  <2> QED  BY <2>1, <2>2, <2>4, <2>5, <2>6, <2>7, <2>8, <2>9, <2>h, VerifiedKeeps
<1> QED  BY <1>1, <1>2, <1>3

\* The statements that turn a claim into one that is not verified.
LEMMA ClaimsKeep ==
  ASSUME IInv,
         \/ \E r \in Requests : Upsert(r)
         \/ \E u \in Users : RejectClaim(u)
  PROVE  IInv'
<1>t. RowTypes /\ RequestTypes /\ \A q \in Requests : TaskFits(q)
  BY DEF IInv, RequestsOK
<1>1. ASSUME NEW r \in Requests, Upsert(r)  PROVE IInv'
  <2> DEFINE u == task[r].user
  <2>1. u \in Users
    BY <1>1, <1>t, TaskFields DEF Upsert, TaskFits
  <2>2. RowTypes'
    BY <1>1, <1>t DEF Upsert, RowTypes, ClaimStatuses
  <2>3. RequestsOK' /\ InvitesOK'
    BY <1>1, FinishKeeps, FinishInvites DEF IInv, Upsert
  <2>4. Verified' \subseteq Verified /\ \A v \in Verified' : via'[v] = via[v]
    BY <1>1, <1>t, <2>1 DEF Upsert, RowTypes, Verified
  <2>5. \A q \in Requests :
           \/ at'[q] = "idle" /\ found'[q] = Nobody
           \/ at'[q] = at[q] /\ task'[q] = task[q] /\ found'[q] = found[q]
    BY <1>1, FinishKeeps DEF IInv, Upsert
  <2> QED  BY <1>1, <2>2, <2>3, <2>4, <2>5, UnverifiedKeeps DEF Upsert
<1>2. ASSUME NEW u \in Users, RejectClaim(u)  PROVE IInv'
  <2>1. RowTypes'
    BY <1>2, <1>t DEF RejectClaim, RowTypes, ClaimStatuses
  <2>2. RequestsOK' /\ InvitesOK'
    BY <1>2 DEF IInv, RejectClaim, RequestsOK, RequestTypes, TaskFits, HoldsHist,
       HoldsInvite, InvitesOK, Open, locks, tasks
  <2>3. Verified' \subseteq Verified /\ \A v \in Verified' : via'[v] = via[v]
    BY <1>2, <1>t DEF RejectClaim, RowTypes, Verified
  <2> QED  BY <1>2, <2>1, <2>2, <2>3, UnverifiedKeeps DEF RejectClaim, tasks
<1> QED  BY <1>1, <1>2

\* The statements that settle or open invitations.
LEMMA InvitationsKeep ==
  ASSUME IInv,
         \/ \E r \in Requests : MarkAccepted(r) \/ Expire(r) \/ Reconcile(r) \/ Insert(r)
         \/ \E i \in Invitations : CancelInvitation(i)
  PROVE  IInv'
<1>t. /\ RowTypes /\ RequestTypes /\ InvitesOK /\ RequestsOK
      /\ Verified \subseteq claimed /\ Verified \subseteq Users
      /\ \A i \in Invitations : invite[i].status = "accepted" => invite[i].by \in claimed
      /\ \A q \in Requests : found[q] # Nobody => found[q] \in claimed
      /\ \A q \in Requests : at[q] = "markAccepted" => found[q] # Nobody
  BY DEF IInv, RequestsOK, ClaimantsOK, Verified
<1>u. Nobody \notin Users /\ claimed \subseteq Users
  BY <1>t, NobodyAssumption DEF RowTypes
<1>1. ASSUME NEW r \in Requests, MarkAccepted(r)  PROVE IInv'
  <2> DEFINE i == task[r].inv
  <2>h. i \in Invitations /\ inviteLock[i] = r /\ found[r] \in claimed
    BY <1>1, <1>t, Held DEF MarkAccepted, Accepting
  <2>1. /\ invite' \in [Invitations -> Invites]
        /\ invite'[i] = [status |-> "accepted", by |-> found[r]]
        /\ \A j \in Invitations \ {i} : invite'[j] = invite[j]
    BY <1>1, <1>t, <1>u, <2>h
       DEF MarkAccepted, AcceptFor, RowTypes, Invites, Settled
  <2>2. /\ RequestsOK' /\ at'[r] = "idle" /\ found'[r] = Nobody
        /\ \A q \in Requests \ {r} :
             at'[q] = at[q] /\ task'[q] = task[q] /\ found'[q] = found[q]
    BY <1>1, FinishKeeps DEF IInv, MarkAccepted
  <2>3. InvitesOK'
    <3>1. Open' \subseteq Open
      BY <2>1 DEF Open
    <3>2. /\ inviteLock'[i] = Nobody
          /\ \A j \in Invitations : inviteLock'[j] \in {inviteLock[j], Nobody}
      BY <1>1, <2>h DEF MarkAccepted, Finish
    <3> QED  BY <1>t, <2>1, <3>1, <3>2 DEF InvitesOK
  <2>4. \A j \in Invitations : invite'[j].status = "accepted" => invite'[j].by \in claimed
    BY <1>t, <2>1, <2>h
  <2> QED  BY <1>1, <2>1, <2>2, <2>3, <2>4, InviteKeeps DEF MarkAccepted
<1>2. ASSUME NEW r \in Requests, Expire(r)  PROVE IInv'
  <2>1. /\ invite' \in [Invitations -> Invites]
        /\ \A i \in Overdue : invite'[i].status = "expired" /\ inviteLock[i] = Nobody
        /\ \A i \in Invitations \ Overdue : invite'[i] = invite[i]
    BY <1>2, <1>t DEF Expire, RowTypes, Invites, Settled, Overdue, Open
  <2>2. /\ RequestsOK'
        /\ at'[r] = "reconcile" /\ \A q \in Requests \ {r} : at'[q] = at[q]
    <3>1. at[r] = "expire" /\ at' = [at EXCEPT ![r] = "reconcile"]
          /\ UNCHANGED <<task, found, locks>>
      BY <1>2 DEF Expire, Goto
    <3>2. RequestsOK'
      BY <1>t, <3>1, MoveKeeps DEF Labels, RequestTypes
    <3> QED  BY <1>t, <3>1, <3>2 DEF RequestTypes
  <2>3. InvitesOK'
    <3>1. Open' \subseteq Open
      BY <2>1 DEF Open
    <3> QED  BY <1>2, <1>t, <2>1, <3>1 DEF InvitesOK, Expire, locks
  <2>4. \A i \in Invitations : invite'[i].status = "accepted" => invite'[i].by \in claimed
    BY <1>t, <2>1
  <2> QED  BY <1>2, <2>1, <2>2, <2>3, <2>4, InviteKeeps DEF Expire, Goto
<1>3. ASSUME NEW r \in Requests, Reconcile(r)  PROVE IInv'
  <2>1. \/ UNCHANGED invite
        \/ /\ \A i \in Open : inviteLock[i] = Nobody
           /\ \E u \in Verified :
                /\ \A i \in Open : invite'[i] = [status |-> "accepted", by |-> u]
                /\ \A i \in Invitations \ Open : invite'[i] = invite[i]
    BY <1>3 DEF Reconcile, Open
  <2>2. invite' \in [Invitations -> Invites]
    <3>1. CASE UNCHANGED invite
      BY <1>t, <3>1 DEF RowTypes
    <3>2. CASE ~UNCHANGED invite
      BY <1>3, <1>t, <3>2 DEF Reconcile, RowTypes, Invites, Settled
    <3> QED  BY <3>1, <3>2
  <2>3. /\ RequestsOK'
        /\ \A i \in Invitations : inviteLock'[i] \in {inviteLock[i], Nobody}
        /\ at'[r] \in {"idle", "vacancy"} /\ found'[r] \in {found[r], Nobody}
        /\ \A q \in Requests \ {r} :
             at'[q] = at[q] /\ task'[q] = task[q] /\ found'[q] = found[q]
    <3>1. CASE Finish(r)
      BY <1>t, <3>1, FinishKeeps
    <3>2. CASE Goto(r, "vacancy") /\ UNCHANGED locks
      <4>1. at[r] = "reconcile" /\ at' = [at EXCEPT ![r] = "vacancy"]
            /\ UNCHANGED <<task, found, locks>>
        BY <1>3, <3>2 DEF Reconcile, Goto
      <4>2. RequestsOK'
        BY <1>t, <4>1, MoveKeeps DEF Labels, RequestTypes
      <4> QED  BY <1>t, <4>1, <4>2 DEF RequestTypes, locks
    <3> QED  BY <1>3, <3>1, <3>2 DEF Reconcile
  <2>4. InvitesOK'
    <3>1. Open' \subseteq Open
      BY <2>1 DEF Open
    <3> QED  BY <1>t, <2>1, <2>3, <3>1 DEF InvitesOK, Open
  <2>5. ASSUME NEW i \in Invitations, invite'[i].status = "accepted"
        PROVE  invite'[i].by \in claimed
    <3>1. CASE invite'[i] = invite[i]
      BY <1>t, <2>5, <3>1
    <3>2. CASE \E u \in Verified : invite'[i] = [status |-> "accepted", by |-> u]
      BY <1>t, <3>2
    <3> QED  BY <2>1, <3>1, <3>2
  <2> QED  BY <1>3, <2>2, <2>3, <2>4, <2>5, InviteKeeps DEF Reconcile
<1>4. ASSUME NEW r \in Requests, Insert(r)  PROVE IInv'
  <2>1. /\ RequestsOK' /\ at'[r] = "idle" /\ found'[r] = Nobody
        /\ \A i \in Invitations : inviteLock'[i] \in {inviteLock[i], Nobody}
        /\ \A q \in Requests \ {r} :
             at'[q] = at[q] /\ task'[q] = task[q] /\ found'[q] = found[q]
    BY <1>4, <1>t, FinishKeeps DEF Insert
  <2>2. CASE UNCHANGED invite
    <3>1. Open' = Open
      BY <2>2 DEF Open
    <3>2. InvitesOK'
      BY <1>t, <2>1, <2>2, <3>1 DEF InvitesOK
    <3> QED  BY <1>4, <1>t, <2>1, <2>2, <3>2, InviteKeeps DEF Insert, RowTypes
  <2>3. CASE ~UNCHANGED invite
    <3>1. PICK i \in Invitations :
             invite[i].status = "none" /\ invite' = [invite EXCEPT ![i].status = "pending"]
      BY <1>4, <2>3 DEF Insert
    <3>2. /\ Open = {} /\ invite' \in [Invitations -> Invites]
          /\ invite'[i].status = "pending"
          /\ \A j \in Invitations \ {i} : invite'[j] = invite[j]
      BY <1>4, <1>t, <2>3, <3>1 DEF Insert, RowTypes, Invites
    <3>3. Open' \subseteq {i} /\ \A j \in Invitations : inviteLock[j] = Nobody
      BY <1>t, <3>2 DEF Open, InvitesOK
    <3>4. InvitesOK'
      BY <2>1, <3>3 DEF InvitesOK
    <3>5. \A j \in Invitations : invite'[j].status = "accepted" => invite'[j].by \in claimed
      BY <1>t, <3>2
    <3> QED  BY <1>4, <2>1, <3>2, <3>4, <3>5, InviteKeeps DEF Insert
  <2> QED  BY <2>2, <2>3
<1>5. ASSUME NEW i \in Invitations, CancelInvitation(i)  PROVE IInv'
  <2>1. /\ invite' \in [Invitations -> Invites]
        /\ invite'[i].status = "cancelled" /\ inviteLock[i] = Nobody
        /\ \A j \in Invitations \ {i} : invite'[j] = invite[j]
    BY <1>5, <1>t DEF CancelInvitation, RowTypes, Invites, Settled
  <2>2. InvitesOK'
    <3>1. Open' \subseteq Open
      BY <2>1 DEF Open
    <3> QED  BY <1>5, <1>t, <2>1, <3>1 DEF InvitesOK, CancelInvitation, locks
  <2>3. RequestsOK'
    BY <1>5, <1>t DEF CancelInvitation, RequestsOK, RequestTypes, TaskFits, HoldsHist,
       HoldsInvite, locks, tasks
  <2>4. \A j \in Invitations : invite'[j].status = "accepted" => invite'[j].by \in claimed
    BY <1>t, <2>1
  <2> QED  BY <1>5, <2>1, <2>2, <2>3, <2>4, InviteKeeps DEF CancelInvitation, tasks
<1> QED  BY <1>1, <1>2, <1>3, <1>4, <1>5

\* The settings of the member, and the clocks.
LEMMA MemberKeeps ==
  ASSUME IInv,
         SetMemorial \/ UpdateNoindex \/ (\E i \in Invitations : ExpiryPasses(i))
  PROVE  IInv'
<1>1. UNCHANGED <<claim, invite, locks, tasks, via, claimed>>
  BY DEF SetMemorial, UpdateNoindex, ExpiryPasses
<1>2. RowTypes'
  BY DEF IInv, RowTypes, SetMemorial, UpdateNoindex, ExpiryPasses
<1>3. Verified' = Verified /\ Open' = Open
  BY <1>1 DEF Verified, Open
<1>4. RequestsOK' /\ InvitesOK'
  BY <1>1, <1>3 DEF IInv, RequestsOK, RequestTypes, TaskFits, HoldsHist,
     HoldsInvite, InvitesOK, locks, tasks
<1>5. ClaimantsOK'
  <2>1. claimed = {} => noindex'
    BY DEF IInv, ClaimantsOK, SetMemorial, UpdateNoindex, ExpiryPasses
  <2> QED  BY <1>1, <1>3, <2>1 DEF IInv, ClaimantsOK, tasks
<1>6. PathsOK'
  BY <1>1, <1>3 DEF IInv, PathsOK, PathClear, VerifiedBy, tasks
<1> QED  BY <1>2, <1>4, <1>5, <1>6 DEF IInv

\* A step that changes nothing.
LEMMA StutterKeeps ==
  ASSUME IInv, UNCHANGED vars  PROVE IInv'
<1>1. Verified' = Verified /\ Open' = Open
  BY DEF Verified, Open, vars, tables
<1>2. RowTypes'
  BY DEF IInv, RowTypes, vars, tables
<1>3. RequestsOK' /\ InvitesOK'
  BY <1>1 DEF IInv, RequestsOK, RequestTypes, TaskFits, HoldsHist,
     HoldsInvite, InvitesOK, vars, tables, locks, tasks
<1>4. ClaimantsOK'
  BY <1>1 DEF IInv, ClaimantsOK, vars, tables, tasks
<1>5. PathsOK'
  BY <1>1 DEF IInv, PathsOK, PathClear, VerifiedBy, vars, tables, tasks
<1> QED  BY <1>2, <1>3, <1>4, <1>5 DEF IInv

-----------------------------------------------------------------------------
(* The theorems.                                                           *)

\* Every step keeps the invariant.
LEMMA StepIInv == IInv /\ [Next]_vars => IInv'
<1> SUFFICES ASSUME IInv, [Next]_vars  PROVE IInv'
  OBVIOUS
<1>1. ASSUME NEW r \in Requests, NEW t \in Tasks, Begin(r, t)  PROVE IInv'
  BY <1>1, BeginKeeps
<1>2. ASSUME NEW r \in Requests, Step(r)  PROVE IInv'
  <2>1. CASE Abort(r)
    BY <2>1, ReturnKeeps DEF Abort
  <2>2. CASE \/ CheckMemorial(r) \/ Check(r) \/ Snapshot(r)
             \/ CheckVerified(r) \/ CheckMemorialInvite(r) \/ CheckVacancy(r)
    BY <2>2, LooksKeep
  <2>3. CASE LockClaim(r) \/ LockHist(r) \/ LockLinkHist(r) \/ LockInvite(r)
    BY <2>3, LocksKeep
  <2>4. CASE Verify(r) \/ Link(r) \/ Accept(r)
    BY <2>4, VerifiesKeep
  <2>5. CASE Upsert(r)
    BY <2>5, ClaimsKeep
  <2>6. CASE MarkAccepted(r) \/ Expire(r) \/ Reconcile(r) \/ Insert(r)
    BY <2>6, InvitationsKeep
  <2> QED  BY <1>2, <2>1, <2>2, <2>3, <2>4, <2>5, <2>6 DEF Step
<1>3. ASSUME NEW u \in Users, RejectClaim(u)  PROVE IInv'
  BY <1>3, ClaimsKeep
<1>4. ASSUME NEW i \in Invitations, CancelInvitation(i)  PROVE IInv'
  BY <1>4, InvitationsKeep
<1>5. CASE SetMemorial \/ UpdateNoindex \/ \E i \in Invitations : ExpiryPasses(i)
  BY <1>5, MemberKeeps
<1>6. CASE UNCHANGED vars
  BY <1>6, StutterKeeps
<1> QED  BY <1>1, <1>2, <1>3, <1>4, <1>5, <1>6 DEF Next

\* The invariant of the specification.
LEMMA Invariant == Spec => []IInv
<1> QED  BY InitIInv, StepIInv, PTL DEF Spec

\* The tables, the requests and the locks have their types, and an invitation
\* row is locked by exactly the acceptance that is past its FOR UPDATE.
THEOREM ClaimTypes == Spec => []TypeOK
<1>1. IInv => TypeOK
  BY DEF IInv, RowTypes, RequestsOK, RequestTypes, HoldsInvite, Accepting, TypeOK
<1> QED  BY Invariant, <1>1, PTL

\* "check verified invariant": the row lock of a path makes its check hold
\* until its write, so no group and no claim invitation verifies two claims.
THEOREM VerifiedOncePerPath == Spec => []OneVerifiedPerPath
<1>1. ASSUME IInv  PROVE OneVerifiedPerPath
  <2> SUFFICES ASSUME NEW c \in Groups \cup {"invite"}
               PROVE  Cardinality(VerifiedBy(c)) <= 1
    BY DEF OneVerifiedPerPath, VerifiedBy
  <2>1. CASE VerifiedBy(c) = {}
    BY <2>1, FS_EmptySet
  <2>2. CASE VerifiedBy(c) # {}
    <3>1. PICK u : VerifiedBy(c) = {u}
      BY <1>1, <2>2 DEF IInv, PathsOK
    <3>2. Cardinality({u}) = 1
      BY FS_Singleton
    <3> QED  BY <3>1, <3>2
  <2> QED  BY <2>1, <2>2
<1> QED  BY Invariant, <1>1, PTL

\* A profile that nobody has ever claimed is not shown to search engines.
THEOREM NoindexUntilClaimed == Spec => []UnclaimedStaysNoindex
<1>1. IInv => UnclaimedStaysNoindex
  BY DEF IInv, ClaimantsOK, UnclaimedStaysNoindex
<1> QED  BY Invariant, <1>1, PTL

\* A settled invitation stays as it is, and an accepted one names a claimant,
\* whichever of acceptance, cancellation, expiry and reconciliation comes late.
THEOREM InvitationsSettleOnce == Spec => InvitesSettledOnce
<1> DEFINE Once == \A i \in Invitations :
                     /\ invite[i].status \in Settled => invite'[i] = invite[i]
                     /\ invite'[i].status = "accepted" => invite'[i].by \in claimed'
<1>1. ASSUME IInv, IInv', [Next]_vars  PROVE Once
  <2> SUFFICES ASSUME NEW i \in Invitations
               PROVE  invite[i].status \in Settled => invite'[i] = invite[i]
    BY <1>1 DEF IInv, ClaimantsOK
  <2>t. invite \in [Invitations -> Invites]
    BY <1>1 DEF IInv, RowTypes
  <2>1. CASE UNCHANGED invite
    BY <2>1
  <2>2. ASSUME NEW r \in Requests, MarkAccepted(r) \/ Accept(r)
        PROVE  invite[i].status \in Settled => invite'[i] = invite[i]
    <3>1. invite[task[r].inv].status = "pending"
      BY <1>1, <2>2, Held DEF MarkAccepted, Accept, Accepting
    <3> QED  BY <2>t, <2>2, <3>1 DEF MarkAccepted, Accept, AcceptFor, Settled
  <2>3. ASSUME NEW r \in Requests, Expire(r) \/ Reconcile(r) \/ Insert(r)
        PROVE  invite[i].status \in Settled => invite'[i] = invite[i]
    BY <2>t, <2>3 DEF Expire, Reconcile, Insert, Overdue, Open, Settled
  <2>4. ASSUME NEW j \in Invitations, CancelInvitation(j)
        PROVE  invite[i].status \in Settled => invite'[i] = invite[i]
    BY <2>t, <2>4 DEF CancelInvitation, Settled
  <2>5. ASSUME NEW r \in Requests, Step(r), ~UNCHANGED invite
        PROVE  \/ MarkAccepted(r) \/ Accept(r)
               \/ Expire(r) \/ Reconcile(r) \/ Insert(r)
    BY <2>5 DEF Step, tables, CheckMemorial, Upsert, LockClaim, LockHist, Check, Verify,
       Snapshot, LockLinkHist, Link, LockInvite, CheckVerified,
       CheckMemorialInvite, CheckVacancy, Abort
  <2>6. CASE \E r \in Requests : Step(r)
    BY <2>1, <2>2, <2>3, <2>5, <2>6
  <2>7. CASE \E r \in Requests, t \in Tasks : Begin(r, t)
    BY <2>1, <2>7 DEF Begin, tables
  <2>8. CASE \/ \E u \in Users : RejectClaim(u)
             \/ \E j \in Invitations : ExpiryPasses(j)
             \/ SetMemorial \/ UpdateNoindex \/ UNCHANGED vars
    BY <2>1, <2>8 DEF RejectClaim, ExpiryPasses, SetMemorial, UpdateNoindex, vars, tables
  <2> QED  BY <1>1, <2>4, <2>6, <2>7, <2>8 DEF Next
<1>2. IInv /\ IInv' /\ [Next]_vars => [Once]_vars
  BY <1>1
<1> QED  BY Invariant, <1>2, PTL DEF Spec, InvitesSettledOnce
-----------------------------------------------------------------------------
(* Which calls can wait for each other.                                    *)

\* A locked claim row belongs to a review, a locked membership row to a review
\* past its second lock or to the creation of an app member.
Owns(r) ==
  /\ \A u \in Users :
       claimLock[u] = r => at[r] \in {"lockHist", "check", "verify"}
  /\ \A g \in Groups :
       histLock[g] = r => at[r] \in {"check", "verify", "link"}

Owners == \A r \in Requests : Owns(r)

\* A return gives up what the request owned.
LEMMA FinishOwners ==
  ASSUME IInv, Owners, NEW r \in Requests, Finish(r)  PROVE Owners'
<1>1. /\ \A q \in Requests \ {r} : at'[q] = at[q]
      /\ \A u \in Users : claimLock'[u] = IF claimLock[u] = r THEN Nobody ELSE claimLock[u]
      /\ \A g \in Groups : histLock'[g] = IF histLock[g] = r THEN Nobody ELSE histLock[g]
  BY FinishKeeps DEF Finish, IInv
<1> QED  BY <1>1, NobodyAssumption DEF Owners, Owns

\* A request that owns nothing may go on to any statement; a review goes on
\* from its check to its write.
LEMMA GotoOwners ==
  ASSUME IInv, Owners, NEW r \in Requests, NEW label \in Labels,
         at' = [at EXCEPT ![r] = label], UNCHANGED <<claimLock, histLock>>,
         \/ at[r] \notin {"lockHist", "check", "verify", "link"}
         \/ {at[r], label} \subseteq {"check", "verify"}
  PROVE  Owners'
<1>1. at'[r] = label /\ \A q \in Requests \ {r} : at'[q] = at[q]
  BY DEF IInv, RequestsOK, RequestTypes
<1> QED  BY <1>1 DEF Owners, Owns

\* The steps of a call.
LEMMA StepOwners ==
  ASSUME IInv, Owners, NEW r \in Requests, Step(r)  PROVE Owners'
<1>t. /\ at \in [Requests -> Labels]
      /\ claimLock \in [Users -> Requests \cup {Nobody}]
      /\ histLock \in [Groups -> Requests \cup {Nobody}]
  BY DEF IInv, RequestsOK, RequestTypes
<1>1. CASE Finish(r)
  BY <1>1, FinishOwners
<1>2. CASE LockClaim(r)
  BY <1>2, <1>t, NobodyAssumption DEF LockClaim, Goto, Owners, Owns
<1>3. CASE LockHist(r)
  BY <1>3, <1>t, NobodyAssumption DEF LockHist, Goto, Owners, Owns
<1>4. CASE LockLinkHist(r) /\ ~Finish(r)
  BY <1>4, <1>t, NobodyAssumption DEF LockLinkHist, Goto, Owners, Owns
<1>5. CASE LockInvite(r) /\ ~Finish(r)
  BY <1>5, GotoOwners DEF LockInvite, Goto, Labels
<1>6. CASE /\ \/ CheckMemorial(r) \/ Check(r) \/ CheckMemorialInvite(r)
              \/ CheckVacancy(r) \/ Expire(r) \/ Reconcile(r)
           /\ ~Finish(r)
  BY <1>6, GotoOwners
     DEF CheckMemorial, Check, CheckMemorialInvite, CheckVacancy, Expire, Reconcile,
         Goto, Labels, locks
<1>7. CASE Snapshot(r)
  BY <1>7, GotoOwners DEF Snapshot, Labels, locks
<1>8. CASE CheckVerified(r)
  <2>1. (IF Verified # {} THEN "markAccepted" ELSE "checkMemorialInvite") \in Labels
    BY DEF Labels
  <2> QED  BY <1>8, <2>1, GotoOwners DEF CheckVerified, locks
<1>9. CASE ~Finish(r) /\ (\/ Upsert(r) \/ Verify(r) \/ Link(r) \/ MarkAccepted(r)
                          \/ Accept(r) \/ Insert(r) \/ Abort(r))
  BY <1>9 DEF Upsert, Verify, Link, MarkAccepted, Accept, Insert, Abort
<1> QED  BY <1>1, <1>2, <1>3, <1>4, <1>5, <1>6, <1>7, <1>8, <1>9 DEF Step

\* Every step keeps the owners.
LEMMA NextOwners == IInv /\ Owners /\ [Next]_vars => Owners'
<1> SUFFICES ASSUME IInv, Owners, [Next]_vars  PROVE Owners'
  OBVIOUS
<1>1. ASSUME NEW r \in Requests, NEW t \in Tasks, Begin(r, t)  PROVE Owners'
  <2>1. FirstLabel(t) \in Labels
    BY DEF FirstLabel, Labels
  <2> QED  BY <1>1, <2>1, GotoOwners DEF Begin, locks
<1>2. CASE UNCHANGED <<locks, tasks>>
  BY <1>2 DEF Owners, Owns, locks, tasks
<1>3. CASE \/ \E u \in Users : RejectClaim(u)
           \/ \E i \in Invitations : CancelInvitation(i) \/ ExpiryPasses(i)
           \/ SetMemorial \/ UpdateNoindex \/ UNCHANGED vars
  BY <1>2, <1>3 DEF RejectClaim, CancelInvitation, ExpiryPasses, SetMemorial,
     UpdateNoindex, vars
<1> QED  BY <1>1, <1>3, StepOwners DEF Next

\* Only reviews and creations of app members take their two rows in opposite
\* orders; an acceptance waits for a claim row too, but whoever waits for its
\* invitation row holds nothing.  So every circle of waiting calls, of any
\* length, alternates between the two.
THEOREM OnlyReviewAndLinkWait == Spec => []OnlyReviewAndLinkDeadlock
<1>1. Init => Owners
  BY NobodyAssumption DEF Init, Owners, Owns
<1>2. ASSUME IInv, Owners  PROVE OnlyReviewAndLinkDeadlock
  <2> SUFFICES ASSUME NEW C \in SUBSET Requests, WaitInCircle(C)
               PROVE  {at[r] : r \in C} = {"lockHist", "link"}
    BY DEF OnlyReviewAndLinkDeadlock
  <2>1. ASSUME NEW p \in Requests, NEW b \in Requests, WaitsFor(p, b)
        PROVE  \/ /\ at[p] \in {"upsert", "lockClaim", "link", "accept"}
                  /\ at[b] \in {"lockHist", "check", "verify"}
               \/ /\ at[p] \in {"lockHist", "lockLinkHist"}
                  /\ at[b] \in {"check", "verify", "link"}
               \/ /\ at[p] \in {"lockInvite", "expire", "reconcile"}
                  /\ at[b] \in Accepting
    <3>1. /\ TaskFits(p) /\ TaskFits(b) /\ HoldsInvite(b) /\ Owns(b)
          /\ at[p] # "idle" => task[p] \in Tasks
      BY <1>2 DEF IInv, RequestsOK, TaskFits, Owners
    <3>2. CASE at[p] \in {"upsert", "lockClaim", "link", "accept"}
      BY <2>1, <3>1, <3>2, TaskFields DEF WaitsFor, TaskFits, Accepting, Owns
    <3>3. CASE at[p] \in {"lockHist", "lockLinkHist"}
      BY <2>1, <3>1, <3>3, TaskFields DEF WaitsFor, TaskFits, Owns
    <3>4. CASE at[p] \in {"lockInvite", "expire", "reconcile"}
      <4>1. at[p] = "lockInvite" => task[p].inv \in Invitations
        BY <3>1, TaskFields DEF TaskFits
      <4> QED  BY <2>1, <3>1, <3>4, <4>1 DEF WaitsFor, HoldsInvite, Overdue, Open
    <3> QED  BY <2>1, <3>2, <3>3, <3>4 DEF WaitsFor
  <2>2. ASSUME NEW r \in C  PROVE at[r] \in {"lockHist", "link", "accept"}
    <3>1. PICK p \in C, q \in C : WaitsFor(p, r) /\ WaitsFor(r, q)
      BY DEF WaitInCircle
    <3> QED  BY <2>1, <3>1 DEF Accepting
  <2>3. ASSUME NEW r \in C  PROVE at[r] # "accept"
    <3>1. PICK p \in C : WaitsFor(p, r)
      BY DEF WaitInCircle
    <3>2. at[p] \in {"lockHist", "link", "accept"}
      BY <2>2
    <3> QED  BY <2>1, <3>1, <3>2
  <2>4. ASSUME NEW r \in C
        PROVE  \E q \in C : {at[r], at[q]} = {"lockHist", "link"}
    <3>1. PICK q \in C : WaitsFor(r, q)
      BY DEF WaitInCircle
    <3>2. /\ at[r] \in {"lockHist", "link"}
          /\ at[q] \in {"lockHist", "link"}
      BY <2>2, <2>3
    <3>3. \/ at[r] = "lockHist" /\ at[q] = "link"
          \/ at[r] = "link" /\ at[q] = "lockHist"
      BY <2>1, <3>1, <3>2
    <3> QED  BY <3>3
  <2>5. C # {}
    BY DEF WaitInCircle
  <2> QED  BY <2>4, <2>5
<1> QED  BY <1>1, <1>2, NextOwners, Invariant, PTL DEF Spec

-----------------------------------------------------------------------------
(* What serializing the checks would give.                                 *)

\* A request that has looked for a verified claim, found none, and has not
\* written its own yet.
Decided(r) ==
  \/ at[r] \in {"verify", "link", "checkMemorialInvite", "accept"}
  \/ at[r] = "lockLinkHist" /\ found[r] = Nobody

\* No two requests are between check and write at the same time, as a lock on
\* the row of the member would have it.
ChecksAlone == \A r, q \in Requests : Decided(r) /\ Decided(q) => r = q

\* One claimant, and none as long as somebody is about to write.
OneClaimant ==
  /\ \A u, v \in Verified : u = v
  /\ \A r \in Requests : Decided(r) => Verified = {}

\* A step of a call keeps one claimant if the checks do not overlap.
LEMMA StepAlone ==
  ASSUME IInv, OneClaimant, ChecksAlone, NEW r \in Requests, Step(r)
  PROVE  OneClaimant'
<1> USE DEF IInv, RequestsOK, RequestTypes, RowTypes
<1>1. \A q \in Requests \ {r} : at'[q] = at[q] /\ found'[q] = found[q]
  BY DEF Step, CheckMemorial, Upsert, LockClaim, LockHist, Check, Verify, Snapshot, LockLinkHist,
     Link, LockInvite, CheckVerified, MarkAccepted, CheckMemorialInvite, Accept, Expire, Reconcile,
     CheckVacancy, Insert, Abort, Goto, Finish, FindVerified
<1>2. CASE Verify(r) \/ Link(r) \/ Accept(r)
  <2>1. Decided(r) /\ Verified = {}
    BY <1>2 DEF Verify, Link, Accept, Decided, OneClaimant
  <2>2. PICK u \in Users : claim' = [claim EXCEPT ![u] = "verified"] /\ Finish(r)
    <3>1. task[r].user \in Users
      BY <1>2, TaskFields DEF Verify, Link, Accept, Accepting, TaskFits
    <3> QED  BY <1>2, <3>1 DEF Verify, Link, Accept, SetVerified
  <2>3. Verified' = {u}
    BY <2>1, <2>2 DEF Verified
  <2>4. at'[r] = "idle"
    BY <2>2 DEF Finish
  <2>5. ASSUME NEW q \in Requests PROVE ~Decided(q)'
    BY <1>1, <2>1, <2>4 DEF Decided, ChecksAlone
  <2> QED  BY <2>3, <2>5 DEF OneClaimant
<1>3. ASSUME Verified' \subseteq Verified, Decided(r)' => Decided(r) \/ Verified = {}
      PROVE  OneClaimant'
  BY <1>1, <1>3 DEF OneClaimant, Decided
<1>4. Finish(r) => ~Decided(r)'
  BY DEF Finish, Decided
<1>5. CASE \/ CheckMemorial(r) \/ Upsert(r) \/ LockClaim(r) \/ LockHist(r) \/ MarkAccepted(r)
           \/ LockInvite(r) \/ Expire(r) \/ Reconcile(r) \/ CheckVacancy(r) \/ Insert(r) \/ Abort(r)
  <2>1. ~Decided(r)'
    BY <1>4, <1>5 DEF CheckMemorial, Upsert, LockClaim, LockHist, MarkAccepted, LockInvite,
       Expire, Reconcile, CheckVacancy, Insert, Abort, Goto, Decided
  <2>2. Verified' \subseteq Verified
    BY <1>5 DEF CheckMemorial, Upsert, LockClaim, LockHist, MarkAccepted, LockInvite, Expire,
       Reconcile, CheckVacancy, Insert, Abort, tables, Verified
  <2> QED  BY <1>3, <2>1, <2>2
<1>6. CASE Check(r) \/ Snapshot(r) \/ CheckVerified(r)
  <2>1. Decided(r)' => Verified = {}
    BY <1>4, <1>6, NobodyAssumption
       DEF Check, Snapshot, CheckVerified, FindVerified, Decided, Goto, Verified
  <2> QED  BY <1>3, <1>6, <2>1 DEF Check, Snapshot, CheckVerified, tables, Verified
<1>7. CASE LockLinkHist(r) \/ CheckMemorialInvite(r)
  <2>1. Decided(r)' => Decided(r)
    BY <1>4, <1>7 DEF LockLinkHist, CheckMemorialInvite, Decided, Goto
  <2> QED  BY <1>3, <1>7, <2>1 DEF LockLinkHist, CheckMemorialInvite, tables, Verified
<1> QED  BY <1>2, <1>5, <1>6, <1>7 DEF Step

\* "Zwei Admins bestätigen parallel zwei Claims auf denselben historischen
\* Member" ends well if no two calls are between check and write at once: that
\* the paths lock different rows is all that is wrong with the checks.
THEOREM OneVerifiedPerMemberAlone == Spec /\ []ChecksAlone => []OneVerifiedPerMember
<1>1. Init => OneClaimant
  <2> SUFFICES ASSUME Init  PROVE OneClaimant
    OBVIOUS
  <2>1. \A r \in Requests : ~Decided(r)
    BY DEF Init, Decided
  <2>2. \A u, v \in Verified : u = v
    BY DEF Init, Historical, Requested, Verified
  <2> QED  BY <2>1, <2>2 DEF OneClaimant
<1>2. ASSUME IInv, OneClaimant, ChecksAlone, [Next]_vars  PROVE OneClaimant'
  <2>1. ASSUME NEW r \in Requests, NEW t \in Tasks, Begin(r, t)  PROVE OneClaimant'
    <3>1. /\ Verified' = Verified /\ found' = found
          /\ at' = [at EXCEPT ![r] = FirstLabel(t)]
      BY <2>1 DEF Begin, tables, Verified
    <3>2. \A q \in Requests : Decided(q)' => Decided(q)
      BY <1>2, <3>1 DEF Decided, FirstLabel, IInv, RequestsOK, RequestTypes
    <3> QED  BY <1>2, <3>1, <3>2 DEF OneClaimant
  <2>2. CASE \/ \E u \in Users : RejectClaim(u)
             \/ \E i \in Invitations : CancelInvitation(i) \/ ExpiryPasses(i)
             \/ SetMemorial \/ UpdateNoindex \/ UNCHANGED vars
    <3>1. Verified' \subseteq Verified /\ UNCHANGED tasks
      BY <1>2, <2>2 DEF RejectClaim, CancelInvitation, ExpiryPasses, SetMemorial, UpdateNoindex,
         vars, tables, Verified, IInv, RowTypes
    <3> QED  BY <1>2, <3>1 DEF OneClaimant, Decided, tasks
  <2> QED  BY <1>2, <2>1, <2>2, StepAlone DEF Next
<1>3. IInv /\ OneClaimant /\ ChecksAlone /\ [Next]_vars => OneClaimant'
  BY <1>2
<1>4. OneClaimant => OneVerifiedPerMember
  <2> SUFFICES ASSUME OneClaimant  PROVE Cardinality(Verified) <= 1
    BY DEF OneVerifiedPerMember
  <2>1. CASE Verified = {}
    BY <2>1, FS_EmptySet
  <2>2. ASSUME NEW u \in Verified  PROVE Cardinality(Verified) <= 1
    <3>1. Verified = {u}
      BY <2>2 DEF OneClaimant
    <3>2. Cardinality({u}) = 1
      BY FS_Singleton
    <3> QED  BY <3>1, <3>2
  <2> QED  BY <2>1, <2>2
<1> QED  BY Invariant, <1>1, <1>3, <1>4, PTL DEF Spec
-----------------------------------------------------------------------------
(* The claims implement ClaimPromise.                                      *)

\* A verified claim came on a path.
ViaOK == \A u \in Verified : via[u] \in Channels

\* What a step does to the rows a user sees: a claim is verified, perhaps by
\* an invitation, or taken back; invitations are settled, or one is opened.
Entered(u, c) ==
  /\ SetVerified(u, c)
  /\ c \in Groups \cup {"invite"} => VerifiedBy(c) = {}

Withdrew(u) ==
  /\ Verified' = Verified \ {u}
  /\ \A v \in Users \ {u} : via'[v] = via[v]
  /\ UNCHANGED <<noindex, claimed, invite>>

Settles(S, status, u) ==
  /\ S \subseteq Open
  /\ \A i \in S : invite'[i].status = status /\ (status = "accepted" => invite'[i].by = u)
  /\ \A i \in Invitations \ S : invite'[i] = invite[i]

Opens(i) ==
  /\ Open = {} /\ i \in Invitations /\ invite[i].status = "none"
  /\ invite'[i].status = "pending"
  /\ \A j \in Invitations \ {i} : invite'[j] = invite[j]

SameClaims == Verified' = Verified /\ UNCHANGED <<via, noindex, claimed>>

RowsStep ==
  \/ \E u \in Users, c \in Groups \cup {"link"} : Entered(u, c) /\ UNCHANGED invite
  \/ \E u \in Users, i \in Open : Entered(u, "invite") /\ Settles({i}, "accepted", u)
  \/ \E u \in Users : Withdrew(u)
  \/ \E S \in SUBSET Open, status \in {"cancelled", "expired"} :
        SameClaims /\ Settles(S, status, Nobody)
  \/ \E S \in SUBSET Open, u \in claimed : SameClaims /\ Settles(S, "accepted", u)
  \/ \E i \in Invitations : SameClaims /\ Opens(i)
  \/ Verified # {} /\ Verified' = Verified /\ noindex' \in BOOLEAN
       /\ UNCHANGED <<via, claimed, invite>>
  \/ SameClaims /\ UNCHANGED invite

\* The writes that verify a claim, as steps of the rows.
LEMMA VerifiesRows ==
  ASSUME IInv, NEW r \in Requests, Verify(r) \/ Link(r) \/ Accept(r)
  PROVE  RowsStep
<1>t. TaskFits(r) /\ PathClear(r) /\ invite \in [Invitations -> Invites]
  BY DEF IInv, RequestsOK, PathsOK, RowTypes
<1>1. CASE Verify(r)
  <2>1. task[r].user \in Users /\ task[r].group \in Groups
    BY <1>1, <1>t, TaskFields DEF Verify, TaskFits
  <2>2. Entered(task[r].user, task[r].group) /\ UNCHANGED invite
    BY <1>1, <1>t DEF Verify, Entered, PathClear
  <2> QED  BY <2>1, <2>2 DEF RowsStep
<1>2. CASE Link(r)
  <2>1. task[r].user \in Users
    BY <1>2, <1>t, TaskFields DEF Link, TaskFits
  <2>2. Entered(task[r].user, "link") /\ UNCHANGED invite
    BY <1>2, GroupAssumption DEF Link, Entered
  <2> QED  BY <2>1, <2>2 DEF RowsStep
<1>3. CASE Accept(r)
  <2>1. task[r].user \in Users /\ task[r].inv \in Open
    BY <1>3, Held DEF Accept, Accepting, Open
  <2>2. Entered(task[r].user, "invite")
    BY <1>3, <1>t DEF Accept, Entered, PathClear
  <2>3. Settles({task[r].inv}, "accepted", task[r].user)
    BY <1>3, <1>t, <2>1 DEF Accept, AcceptFor, Settles, Open
  <2> QED  BY <2>1, <2>2, <2>3 DEF RowsStep
<1> QED  BY <1>1, <1>2, <1>3

\* The statements that settle or open invitations, as steps of the rows.
LEMMA InvitationsRows ==
  ASSUME IInv,
         \/ \E r \in Requests : MarkAccepted(r) \/ Expire(r) \/ Reconcile(r) \/ Insert(r)
         \/ \E i \in Invitations : CancelInvitation(i)
  PROVE  RowsStep
<1>t. /\ invite \in [Invitations -> Invites] /\ Verified \subseteq claimed
      /\ \A q \in Requests : found[q] # Nobody => found[q] \in claimed
      /\ \A q \in Requests : at[q] = "markAccepted" => found[q] # Nobody
  BY DEF IInv, RowTypes, ClaimantsOK
<1>s. SameClaims
  BY DEF MarkAccepted, Expire, Reconcile, Insert, CancelInvitation, SameClaims, Verified
<1>1. ASSUME NEW r \in Requests, MarkAccepted(r)  PROVE RowsStep
  <2>1. task[r].inv \in Open /\ found[r] \in claimed
    BY <1>1, <1>t, Held DEF MarkAccepted, Accepting, Open
  <2>2. Settles({task[r].inv}, "accepted", found[r])
    BY <1>1, <1>t, <2>1 DEF MarkAccepted, AcceptFor, Settles, Open
  <2> QED  BY <1>s, <2>1, <2>2 DEF RowsStep
<1>2. ASSUME NEW r \in Requests, Expire(r)  PROVE RowsStep
  <2>1. Settles(Overdue, "expired", Nobody) /\ Overdue \in SUBSET Open
    BY <1>2, <1>t DEF Expire, Settles, Overdue, Open, Invites
  <2> QED  BY <1>s, <2>1 DEF RowsStep
<1>3. ASSUME NEW r \in Requests, Reconcile(r)  PROVE RowsStep
  <2>1. UNCHANGED invite \/ \E u \in Verified : Settles(Open, "accepted", u)
    BY <1>3, <1>t DEF Reconcile, Settles, Open
  <2> QED  BY <1>s, <1>t, <2>1 DEF RowsStep
<1>4. ASSUME NEW r \in Requests, Insert(r)  PROVE RowsStep
  <2>1. UNCHANGED invite \/ \E i \in Invitations : Opens(i)
    BY <1>4, <1>t DEF Insert, Opens, Invites
  <2> QED  BY <1>s, <2>1 DEF RowsStep
<1>5. ASSUME NEW i \in Invitations, CancelInvitation(i)  PROVE RowsStep
  <2>1. Settles({i}, "cancelled", Nobody) /\ {i} \in SUBSET Open
    BY <1>5, <1>t DEF CancelInvitation, Settles, Open, Invites
  <2> QED  BY <1>s, <2>1 DEF RowsStep
<1> QED  BY <1>1, <1>2, <1>3, <1>4, <1>5

\* Every step is one of the rows, and leaves every claim on a path.
LEMMA NextRows == IInv /\ ViaOK /\ [Next]_vars => RowsStep /\ ViaOK'
<1> SUFFICES ASSUME IInv, ViaOK, [Next]_vars  PROVE RowsStep /\ ViaOK'
  OBVIOUS
<1>t. RowTypes /\ \A q \in Requests : TaskFits(q)
  BY DEF IInv, RequestsOK
<1>1. SameClaims /\ UNCHANGED invite => RowsStep
  BY DEF RowsStep
<1>2. ASSUME NEW r \in Requests, Upsert(r)  PROVE RowsStep
  <2>1. task[r].user \in Users
    BY <1>2, <1>t, TaskFields DEF Upsert, TaskFits
  <2>2. Withdrew(task[r].user)
    BY <1>2, <1>t, <2>1 DEF Upsert, Withdrew, RowTypes, Verified
  <2> QED  BY <2>1, <2>2 DEF RowsStep
<1>3. ASSUME NEW r \in Requests, Step(r)  PROVE RowsStep
  <2>1. CASE \/ CheckMemorial(r) \/ LockClaim(r) \/ LockHist(r) \/ Check(r) \/ Snapshot(r)
             \/ LockLinkHist(r) \/ LockInvite(r) \/ CheckVerified(r) \/ CheckMemorialInvite(r)
             \/ CheckVacancy(r) \/ Abort(r)
    BY <1>1, <2>1 DEF CheckMemorial, LockClaim, LockHist, Check, Snapshot, LockLinkHist, LockInvite,
       CheckVerified, CheckMemorialInvite, CheckVacancy, Abort, SameClaims, tables, Verified
  <2> QED  BY <1>2, <1>3, <2>1, VerifiesRows, InvitationsRows DEF Step
<1>4. ASSUME NEW u \in Users, RejectClaim(u)  PROVE RowsStep
  BY <1>1, <1>4, <1>t DEF RejectClaim, SameClaims, RowTypes, Verified
<1>5. ASSUME NEW r \in Requests, NEW t \in Tasks, Begin(r, t)  PROVE RowsStep
  BY <1>1, <1>5 DEF Begin, SameClaims, tables, Verified
<1>6. ASSUME SetMemorial \/ (\E i \in Invitations : ExpiryPasses(i)) \/ UNCHANGED vars
      PROVE  RowsStep
  BY <1>1, <1>6 DEF SetMemorial, ExpiryPasses, SameClaims, vars, tables, Verified
<1>7. UpdateNoindex => RowsStep
  BY DEF UpdateNoindex, Verified, RowsStep
<1>8. RowsStep
  BY <1>3, <1>4, <1>5, <1>6, <1>7, InvitationsRows DEF Next
<1>9. ViaOK'
  <2>1. CASE \E u \in Users, c \in Channels : SetVerified(u, c)
    BY <1>t, <2>1 DEF SetVerified, ViaOK, RowTypes, Verified
  <2>2. ASSUME NEW u \in Users, Withdrew(u)  PROVE ViaOK'
    BY <2>2 DEF Withdrew, ViaOK, Verified
  <2>3. CASE Verified' = Verified /\ via' = via
    BY <2>3 DEF ViaOK
  <2> QED  BY <1>8, <2>1, <2>2, <2>3 DEF RowsStep, SameClaims, Entered, Channels
<1> QED  BY <1>8, <1>9

\* The claimants a step leaves on each path.
LEMMA ClaimantsMoves ==
  ASSUME RowTypes
  PROVE  /\ \A u \in Users, c \in Channels :
              SetVerified(u, c) =>
                Claimants' = [d \in Channels |-> IF d = c THEN Claimants[d] \cup {u}
                                                          ELSE Claimants[d] \ {u}]
         /\ \A u \in Users :
              /\ Verified' = Verified \ {u}
              /\ \A v \in Users \ {u} : via'[v] = via[v]
              => Claimants' = [d \in Channels |-> Claimants[d] \ {u}]
         /\ Verified' = Verified /\ via' = via => Claimants' = Claimants
<1>1. ASSUME NEW u \in Users, NEW c \in Channels, SetVerified(u, c), NEW d \in Channels
      PROVE  Claimants'[d] = IF d = c THEN Claimants[d] \cup {u} ELSE Claimants[d] \ {u}
  <2>1. /\ Verified' = Verified \cup {u} /\ via'[u] = c
        /\ \A v \in Users \ {u} : via'[v] = via[v]
    BY <1>1 DEF SetVerified, RowTypes, Verified
  <2> QED  BY <2>1 DEF Claimants, Verified
<1>2. ASSUME NEW u \in Users, Verified' = Verified \ {u},
             \A v \in Users \ {u} : via'[v] = via[v], NEW d \in Channels
      PROVE  Claimants'[d] = Claimants[d] \ {u}
  BY <1>2 DEF Claimants, Verified
<1>3. Verified' = Verified /\ via' = via => Claimants' = Claimants
  BY DEF Claimants
<1> QED  BY <1>1, <1>2, <1>3 DEF Claimants

\* What a user sees of invitations that are settled, opened, or left alone.
LEMMA OfferMoves ==
  /\ \A S, u : \A status \in Settled :
       Settles(S, status, u) /\ (status # "accepted" => u = Nobody) =>
         Offer' = [i \in Invitations |-> IF i \in S THEN [status |-> status, by |-> u]
                                                    ELSE Offer[i]]
  /\ \A i : Opens(i) =>
       Offer' = [Offer EXCEPT ![i] = [status |-> "pending", by |-> Nobody]]
  /\ UNCHANGED invite => Offer' = Offer
<1>1. ASSUME NEW S, NEW u, NEW status \in Settled, Settles(S, status, u),
             status # "accepted" => u = Nobody, NEW i \in Invitations
      PROVE  Offer'[i] = IF i \in S THEN [status |-> status, by |-> u] ELSE Offer[i]
  BY <1>1 DEF Settles, Offer
<1>2. ASSUME NEW i, Opens(i)
      PROVE  Offer' = [Offer EXCEPT ![i] = [status |-> "pending", by |-> Nobody]]
  BY <1>2 DEF Opens, Offer
<1>3. UNCHANGED invite => Offer' = Offer
  BY DEF Offer
<1>4. Offer' = [i \in Invitations |-> Offer'[i]]
  BY DEF Offer
<1>5. ASSUME NEW S, NEW u, NEW status \in Settled, Settles(S, status, u),
             status # "accepted" => u = Nobody
      PROVE  Offer' = [i \in Invitations |-> IF i \in S THEN [status |-> status, by |-> u]
                                                        ELSE Offer[i]]
  BY <1>1, <1>4, <1>5
<1> QED  BY <1>2, <1>3, <1>5

\* The claims implement ClaimPromise: whatever requests race behind them, a
\* claimant comes on a path of his own that was free or by a link, invitations
\* are open alone and settled together, and the profile opens to search
\* engines with a claimant only.
THEOREM ClaimPromiseKept == Spec => KeepsClaimPromise
<1>0. Promise!Paths = Channels /\ Promise!Open = Open
  BY DEF Promise!Paths, Promise!Alone, Channels, Promise!Open, Open, Offer
<1>1. ASSUME Init  PROVE Promise!Init /\ ViaOK
  <2>1. Offer = [i \in Invitations |-> Promise!Unmade]
    BY <1>1 DEF Init, Offer, Promise!Unmade
  <2>2. CASE Historical
    <3>1. Verified = {} /\ claimed = {} /\ noindex = TRUE
      BY <2>2 DEF Historical, Verified
    <3>2. Claimants = [c \in Promise!Paths |-> {}]
      BY <1>0, <3>1 DEF Claimants
    <3> QED  BY <2>1, <3>1, <3>2 DEF Promise!Init, ViaOK
  <2>3. ASSUME NEW u \in Users, Requested(u)  PROVE Promise!Init /\ ViaOK
    <3>1. Verified = {u} /\ claimed = {u} /\ noindex = FALSE /\ via[u] = "request"
      BY <2>3 DEF Requested, Verified
    <3>2. Claimants = [c \in Promise!Paths |-> IF c = "request" THEN {u} ELSE {}]
      BY <1>0, <3>1 DEF Claimants
    <3> QED  BY <2>1, <3>1, <3>2 DEF Promise!Init, ViaOK, Channels
  <2> QED  BY <1>1, <2>2, <2>3 DEF Init
<1>2. ASSUME IInv, ViaOK, RowsStep  PROVE [Promise!Next]_(Promise!vars)
  <2>t. RowTypes /\ Verified \subseteq Users /\ claimed \subseteq Users
    BY <1>2 DEF IInv, RowTypes, Verified
  <2>1. ASSUME NEW u \in Users, NEW c \in Channels, Entered(u, c)
        PROVE  Promise!Enter(u, c)
    <3>1. c \in Promise!Alone => Claimants[c] = {}
      BY <2>1 DEF Entered, Claimants, VerifiedBy, Promise!Alone
    <3>2. noindex' = FALSE /\ claimed' = claimed \cup {u}
      BY <2>1 DEF Entered, SetVerified
    <3>3. Claimants' = [d \in Promise!Paths |-> IF d = c THEN Claimants[d] \cup {u}
                                                         ELSE Claimants[d] \ {u}]
      BY <1>0, <2>1, <2>t, ClaimantsMoves DEF Entered
    <3> QED  BY <3>1, <3>2, <3>3 DEF Promise!Enter
  <2>2. ASSUME NEW S, NEW u, NEW status \in Settled, Settles(S, status, u),
               status # "accepted" => u = Nobody
        PROVE  Promise!Settle(S, [status |-> status, by |-> u])
    <3>1. S \subseteq Promise!Open
      BY <1>0, <2>2 DEF Settles
    <3> QED  BY <2>2, <3>1, OfferMoves DEF Promise!Settle
  <2>s. SameClaims => Claimants' = Claimants /\ (~noindex)' = (~noindex) /\ claimed' = claimed
    BY <2>t, ClaimantsMoves DEF SameClaims
  <2>3. ASSUME NEW u \in Users, NEW c \in Groups \cup {"link"}, Entered(u, c), UNCHANGED invite
        PROVE  Promise!Next
    <3>1. Promise!Claim(u, c)
      BY <2>1, <2>3, OfferMoves DEF Promise!Claim, Channels
    <3> QED  BY <3>1 DEF Promise!Next
  <2>4. ASSUME NEW u \in Users, NEW i \in Open, Entered(u, "invite"),
               Settles({i}, "accepted", u)
        PROVE  Promise!Next
    <3>1. i \in Invitations /\ "invite" \in Channels /\ "accepted" \in Settled
      BY DEF Open, Channels, Settled
    <3>2. Promise!Accept(i, u)
      BY <2>1, <2>2, <2>4, <3>1 DEF Promise!Accept
    <3> QED  BY <3>1, <3>2 DEF Promise!Next
  <2>5. ASSUME NEW u \in Users, Withdrew(u)  PROVE Promise!Next
    <3>1. Claimants' = [d \in Promise!Paths |-> Claimants[d] \ {u}]
      BY <1>0, <2>5, <2>t, ClaimantsMoves DEF Withdrew
    <3>2. Promise!Leave(u)
      BY <2>5, <3>1, OfferMoves DEF Withdrew, Promise!Leave
    <3> QED  BY <3>2 DEF Promise!Next
  <2>6. ASSUME NEW S \in SUBSET Open, NEW status \in {"cancelled", "expired"},
               SameClaims, Settles(S, status, Nobody)
        PROVE  Promise!Next
    <3>1. Promise!Settle(S, [status |-> status, by |-> Nobody])
      BY <2>2, <2>6 DEF Settled
    <3>2. Promise!Close(S)
      BY <2>6, <2>s, <3>1 DEF Promise!Close
    <3> QED  BY <3>2 DEF Promise!Next, Open
  <2>7. ASSUME NEW S \in SUBSET Open, NEW u \in claimed, SameClaims, Settles(S, "accepted", u)
        PROVE  Promise!Next
    <3>1. Promise!Settle(S, [status |-> "accepted", by |-> u])
      BY <2>2, <2>7 DEF Settled
    <3>2. Promise!Close(S)
      BY <2>7, <2>s, <3>1 DEF Promise!Close
    <3> QED  BY <3>2 DEF Promise!Next, Open
  <2>8. ASSUME NEW i \in Invitations, SameClaims, Opens(i)  PROVE Promise!Next
    <3>1. Promise!Open = {} /\ Offer[i].status = "none"
      BY <1>0, <2>8 DEF Opens, Offer
    <3>2. Promise!Invite(i)
      BY <2>8, <2>s, <3>1, OfferMoves DEF Promise!Invite
    <3> QED  BY <3>2 DEF Promise!Next
  <2>9. CASE Verified # {} /\ Verified' = Verified /\ noindex' \in BOOLEAN
               /\ UNCHANGED <<via, claimed, invite>>
    <3>1. \E c \in Promise!Paths : Claimants[c] # {}
      BY <1>0, <1>2, <2>9 DEF ViaOK, Claimants
    <3>2. Claimants' = Claimants /\ Offer' = Offer
      BY <2>9, <2>t, ClaimantsMoves, OfferMoves
    <3>3. \E b \in BOOLEAN : (~noindex)' = b
      BY <2>9
    <3>4. \E b \in BOOLEAN : Promise!Show(b)
      BY <2>9, <3>1, <3>2, <3>3 DEF Promise!Show
    <3> QED  BY <3>4 DEF Promise!Next
  <2>10. CASE SameClaims /\ UNCHANGED invite
    BY <2>10, <2>s, OfferMoves DEF Promise!vars
  <2> QED  BY <1>2, <2>3, <2>4, <2>5, <2>6, <2>7, <2>8, <2>9, <2>10 DEF RowsStep
<1>3. IInv /\ ViaOK /\ [Next]_vars => ViaOK' /\ [Promise!Next]_(Promise!vars)
  BY <1>2, NextRows
<1>4. Init => Promise!Init /\ ViaOK
  BY <1>1
<1> QED  BY Invariant, <1>3, <1>4, PTL DEF Spec, KeepsClaimPromise, Promise!Spec
=============================================================================
