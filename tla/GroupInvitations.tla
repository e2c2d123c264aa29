--------------------------- MODULE GroupInvitations ---------------------------
(***************************************************************************)
(* Invitations to a fansub group (fansub_group_invitations_repository.go   *)
(* and its handlers in app_auth.go), on top of the membership requests of  *)
(* GroupMembership.                                                        *)
(*                                                                         *)
(* Accept keeps one transaction open that locks the invitation row, and    *)
(* makes its membership calls on OTHER connections: each of them commits   *)
(* by itself.  A request slot therefore carries two layers: `at`, the next *)
(* step of the invitation handler, and, while at = "nested", the layers    *)
(* job / pc / seen of the membership call it is waiting for.               *)
(***************************************************************************)
EXTENDS GroupMembership

CONSTANTS
    Invitations,    \* ids of rows of fansub_group_invitations
    Emails,         \* normalized e-mail addresses
    EmailOf,        \* lower(trim(app_users.email)), which need not be unique
    InviteRoles,    \* bound: the sets of roles invitations are made for
    AdminCalls,     \* bound: the membership calls made beside the invitations
    Nobody          \* no user, no e-mail, no request

ASSUME EmailAssumption == EmailOf \in [Users -> Emails]
ASSUME InviteAssumption == InviteRoles \subseteq (SUBSET Roles) \ {{}}
ASSUME AdminAssumption == AdminCalls \subseteq Jobs
ASSUME NobodyAssumption == Nobody \notin Users \cup Emails \cup Requests

VARIABLES
    inv,        \* the invitation rows
    expired,    \* the clocks ("app", "db") that are past expires_at
    holder,     \* the request whose transaction locks the row
    errand,     \* the invitation call a request is serving
    at,         \* its next step
    todo,       \* EnsureInvitationAcceptance: roles still to be granted
    held        \* history: roles the acceptor has had since the row was locked

invVars == <<inv, expired, holder>>
errandVars == <<errand, at, todo>>
allVars == <<vars, invVars, errandVars, held>>

Clocks == {"app", "db"}
Terminal == {"accepted", "cancelled", "expired"}
Invitation == [status : {"none", "pending"} \cup Terminal, email : Emails \cup {Nobody},
               roles : SUBSET Roles, by : Users \cup {Nobody}]
NoInvitation == [status |-> "none", email |-> Nobody, roles |-> {}, by |-> Nobody]

Errands == [op : {"accept"}, inv : Invitations, user : Users]
    \cup [op : {"invite"}, email : Emails, roles : InviteRoles]
    \cup [op : {"mail"}, inv : Invitations]

\* Accept's steps after the row lock; Create's steps and its handler's mail.
AcceptSteps == {"member", "inspect", "nested", "commit"}
InviteSteps == {"purge", "vacancy", "insert", "mail", "undo", "undoGone"}

Accepting(s) == at[s] \in AcceptSteps

-----------------------------------------------------------------------------
Proceed(s, label) ==
    /\ at' = [at EXCEPT ![s] = label]
    /\ UNCHANGED errand

\* The handler answers; a transaction still open is rolled back (defer).
Finish(s) ==
    /\ at' = [at EXCEPT ![s] = "idle"]
    /\ errand' = [errand EXCEPT ![s] = Nobody]
    /\ todo' = [todo EXCEPT ![s] = {}]
    /\ holder' = [i \in Invitations |-> IF holder[i] = s THEN Nobody ELSE holder[i]]

Begin(s, e) ==
    /\ at[s] = "idle" /\ pc[s] = "idle"
    /\ e.op = "accept" => inv[e.inv].status # "none"
    /\ e.op # "mail"
    /\ errand' = [errand EXCEPT ![s] = e]
    /\ at' = [at EXCEPT ![s] = IF e.op = "accept" THEN "lock" ELSE "purge"]
    /\ UNCHANGED <<vars, invVars, todo>>

-----------------------------------------------------------------------------
(***************************************************************************)
(* Accept                                                                  *)
(***************************************************************************)

\* The checks Accept makes on the row it has just read; the app's clock
\* decides, and the mark "expired" it writes is rolled back with the error.
Acceptable(i, u) ==
    /\ inv[i].status = "pending"
    /\ "app" \notin expired[i]
    /\ inv[i].email = EmailOf[u]

\* LockInvitation mutated: SELECT without FOR UPDATE.
ReadInvitation(s) ==
    /\ at[s] = "lock"
    /\ \/ Acceptable(errand[s].inv, errand[s].user) /\ Proceed(s, "member") /\ UNCHANGED todo
          /\ UNCHANGED holder
       \/ ~Acceptable(errand[s].inv, errand[s].user) /\ Finish(s)
    /\ UNCHANGED <<vars, inv, expired>>

\* LockInvitation mutated: an error answer that forgets the rollback.
LockInvitationLeaking(s) ==
    /\ at[s] = "lock"
    /\ LET i == errand[s].inv IN
       /\ holder[i] = Nobody
       /\ holder' = [holder EXCEPT ![i] = s]
       /\ Proceed(s, IF Acceptable(i, errand[s].user) THEN "member" ELSE "idle")
    /\ UNCHANGED <<vars, inv, expired, todo>>

\* SELECT ... FOR UPDATE, waiting for the row, and the checks on it.
LockInvitation(s) ==
    /\ at[s] = "lock"
    /\ LET i == errand[s].inv IN
       /\ holder[i] = Nobody
       /\ \/ /\ Acceptable(i, errand[s].user)
             /\ holder' = [holder EXCEPT ![i] = s]
             /\ Proceed(s, "member")
             /\ UNCHANGED todo
          \/ ~Acceptable(i, errand[s].user) /\ Finish(s)
    /\ UNCHANGED <<vars, inv, expired>>

\* rejectInvitationForActiveMember: by address, so any user with it counts.
ActiveAddress(e) == \E u \in Users : EmailOf[u] = e /\ memberStatus[u] = "active"

CheckMember(s) ==
    /\ at[s] = "member"
    /\ \/ /\ ActiveAddress(EmailOf[errand[s].user])
          /\ Finish(s)
       \/ /\ ~ActiveAddress(EmailOf[errand[s].user])
          /\ Proceed(s, "inspect")
          /\ UNCHANGED <<todo, holder>>
    /\ UNCHANGED <<vars, inv, expired>>

\* Inspect mutated: an active member is taken for one already prepared.
InspectLenient(s) ==
    /\ at[s] = "inspect"
    /\ LET u == errand[s].user
           roles == inv[errand[s].inv].roles IN
       \/ /\ memberStatus[u] = "absent"
          /\ Call(s, [op |-> "create", user |-> u, roles |-> roles])
          /\ Proceed(s, "nested")
          /\ UNCHANGED <<todo, holder>>
       \/ /\ memberStatus[u] # "absent"
          /\ Proceed(s, "commit")
          /\ UNCHANGED <<vars, todo, holder>>
    /\ UNCHANGED <<inv, expired>>

\* Inspect mutated: the acceptance reactivates the member with an UPDATE of its
\* own instead of the guarded call.
InspectDirect(s) ==
    /\ at[s] = "inspect"
    /\ LET u == errand[s].user
           roles == inv[errand[s].inv].roles IN
       \/ /\ memberStatus[u] = "absent"
          /\ Call(s, [op |-> "create", user |-> u, roles |-> roles])
          /\ Proceed(s, "nested")
          /\ UNCHANGED <<todo, holder>>
       \/ /\ memberStatus[u] # "absent"
          /\ memberStatus' = [memberStatus EXCEPT ![u] = "active"]
          /\ todo' = [todo EXCEPT ![s] = roles \ memberRoles[u]]
          /\ Proceed(s, "nested")
          /\ UNCHANGED <<memberRoles, histRoles, requestVars, holder>>
    /\ UNCHANGED <<inv, expired>>

\* EnsureInvitationAcceptance: create the member, or reactivate a disabled one
\* and remember which roles it lacks.
Inspect(s) ==
    /\ at[s] = "inspect"
    /\ LET u == errand[s].user
           roles == inv[errand[s].inv].roles IN
       \/ /\ memberStatus[u] = "absent"
          /\ Call(s, [op |-> "create", user |-> u, roles |-> roles])
          /\ Proceed(s, "nested")
          /\ UNCHANGED <<todo, holder>>
       \/ /\ memberStatus[u] = "active"
          /\ Finish(s)
          /\ UNCHANGED vars
       \/ /\ memberStatus[u] = "disabled"
          /\ Call(s, [op |-> "activate", user |-> u, roles |-> {}])
          /\ todo' = [todo EXCEPT ![s] = roles \ memberRoles[u]]
          /\ Proceed(s, "nested")
          /\ UNCHANGED holder
    /\ UNCHANGED <<inv, expired>>

\* A nested membership call has returned: grant the next role, or go on.
NestedDone(s) ==
    /\ at[s] = "nested" /\ pc[s] = "idle"
    /\ \/ result[s] # "ok" /\ Finish(s) /\ UNCHANGED vars
       \/ /\ result[s] = "ok" /\ todo[s] = {}
          /\ Proceed(s, "commit")
          /\ UNCHANGED <<vars, todo, holder>>
       \/ /\ result[s] = "ok"
          /\ \E role \in todo[s] :
                /\ Call(s, [op |-> "grant", user |-> errand[s].user, roles |-> {role}])
                /\ todo' = [todo EXCEPT ![s] = @ \ {role}]
          /\ UNCHANGED <<at, errand, holder>>
    /\ UNCHANGED <<inv, expired>>

\* UPDATE ... 'accepted' and COMMIT of the transaction that holds the row.
CommitAccept(s) ==
    /\ at[s] = "commit"
    /\ inv' = [inv EXCEPT ![errand[s].inv].status = "accepted",
                          ![errand[s].inv].by = errand[s].user]
    /\ Finish(s)
    /\ UNCHANGED <<vars, expired>>

-----------------------------------------------------------------------------
(***************************************************************************)
(* Create, its mail, Cancel and the lazy expiry                            *)
(***************************************************************************)

Overdue == {i \in Invitations : inv[i].status = "pending" /\ "db" \in expired[i]}

\* expirePendingInvitations: one UPDATE, which waits for locked rows.
ExpirePending ==
    /\ \A i \in Overdue : holder[i] = Nobody
    /\ inv' = [i \in Invitations |->
                 IF i \in Overdue THEN [inv[i] EXCEPT !.status = "expired"] ELSE inv[i]]

Purge(s) ==
    /\ at[s] = "purge"
    /\ ExpirePending
    /\ Proceed(s, "vacancy")
    /\ UNCHANGED <<vars, expired, holder, todo>>

CheckVacancy(s) ==
    /\ at[s] = "vacancy"
    /\ \/ ActiveAddress(errand[s].email) /\ Finish(s)
       \/ /\ ~ActiveAddress(errand[s].email)
          /\ Proceed(s, "insert")
          /\ UNCHANGED <<todo, holder>>
    /\ UNCHANGED <<vars, inv, expired>>

OpenFor(e) == {i \in Invitations : inv[i].status = "pending" /\ inv[i].email = e}

\* Insert mutated: without the partial unique index of migration 0076.
InsertAnyway(s) ==
    /\ at[s] = "insert"
    /\ \E i \in Invitations :
          /\ inv[i].status = "none"
          /\ inv' = [inv EXCEPT ![i] = [status |-> "pending", email |-> errand[s].email,
                                        roles |-> errand[s].roles, by |-> Nobody]]
          /\ errand' = [errand EXCEPT ![s] = [op |-> "mail", inv |-> i]]
          /\ at' = [at EXCEPT ![s] = "mail"]
    /\ UNCHANGED <<vars, expired, holder, todo>>

\* INSERT, refused by uq_fansub_group_invitations_pending_email if the address
\* already has an open invitation.
Insert(s) ==
    /\ at[s] = "insert"
    /\ \/ /\ OpenFor(errand[s].email) # {}
          /\ Finish(s)
          /\ UNCHANGED inv
       \/ /\ OpenFor(errand[s].email) = {}
          /\ \E i \in Invitations :
                /\ inv[i].status = "none"
                /\ inv' = [inv EXCEPT ![i] = [status |-> "pending", email |-> errand[s].email,
                                              roles |-> errand[s].roles, by |-> Nobody]]
                /\ errand' = [errand EXCEPT ![s] = [op |-> "mail", inv |-> i]]
          /\ at' = [at EXCEPT ![s] = "mail"]
          /\ UNCHANGED <<todo, holder>>
    /\ UNCHANGED <<vars, expired>>

\* mailer.Send: delivered, refused by the SMTP server, or broken off because
\* the caller went away: its context is derived from the request's.
SendMail(s) ==
    /\ at[s] = "mail"
    /\ \/ Finish(s)
       \/ \E label \in {"undo", "undoGone"} : Proceed(s, label) /\ UNCHANGED <<todo, holder>>
    /\ UNCHANGED <<vars, inv, expired>>

Cancellable(i) == inv[i].status = "pending" /\ "db" \notin expired[i]

\* Cancel mutated: WHERE without the status, so it also hits settled rows.
CancelAny(i) ==
    /\ inv[i].status # "none" /\ holder[i] = Nobody
    /\ inv' = [inv EXCEPT ![i].status = "cancelled"]

\* Cancel: one conditional UPDATE, which waits for a locked row.
CancelRow(i) ==
    /\ holder[i] = Nobody
    /\ inv' = IF Cancellable(i) THEN [inv EXCEPT ![i].status = "cancelled"] ELSE inv

\* D-12: the mail failed, so the handler cancels the invitation, ignoring errors.
UndoInvite(s) ==
    /\ at[s] = "undo"
    /\ CancelRow(errand[s].inv)
    /\ Finish(s)
    /\ UNCHANGED <<vars, expired>>

\* The same on the context of a caller who is gone: the statement is not run.
UndoInviteGone(s) ==
    /\ at[s] = "undoGone"
    /\ Finish(s)
    /\ UNCHANGED <<vars, inv, expired>>

\* CancelFansubGroupInvitation and ListByFansubGroup: one statement each.
Cancel(i) ==
    /\ inv[i].status # "none"
    /\ CancelRow(i)
    /\ UNCHANGED <<vars, expired, holder, errandVars>>

List ==
    /\ ExpirePending
    /\ UNCHANGED <<vars, expired, holder, errandVars>>

-----------------------------------------------------------------------------
\* expires_at passes on one of the two clocks, which need not agree.
ExpiryPasses(i) ==
    /\ inv[i].status = "pending"
    /\ \E c \in Clocks \ expired[i] : expired' = [expired EXCEPT ![i] = @ \cup {c}]
    /\ UNCHANGED <<vars, inv, holder, errandVars>>

\* A statement fails, the caller goes away or the process dies.
GiveUp(s) ==
    /\ at[s] \notin {"idle", "nested", "undo", "undoGone"}
    /\ Finish(s)
    /\ UNCHANGED <<vars, inv, expired>>

Serve(s) ==
    \/ LockInvitation(s)
    \/ CheckMember(s)
    \/ Inspect(s)
    \/ NestedDone(s)
    \/ CommitAccept(s)
    \/ Purge(s)
    \/ CheckVacancy(s)
    \/ Insert(s)
    \/ SendMail(s)
    \/ UndoInvite(s)
    \/ UndoInviteGone(s)

\* The membership layer of a slot: a call of its own, or the nested one.
MembershipStep(s) ==
    /\ \/ Step(s)
       \/ at[s] = "idle" /\ \E j \in AdminCalls : Call(s, j)
    /\ UNCHANGED <<invVars, errandVars>>

\* `held` only observes.
Observe ==
    held' = [s \in Requests |->
               IF at'[s] \in AcceptSteps
               THEN (IF Accepting(s) THEN held[s] ELSE {}) \cup memberRoles'[errand'[s].user]
               ELSE {}]

InvInit ==
    /\ Init
    /\ inv = [i \in Invitations |-> NoInvitation]
    /\ expired = [i \in Invitations |-> {}]
    /\ holder = [i \in Invitations |-> Nobody]
    /\ errand = [s \in Requests |-> Nobody]
    /\ at = [s \in Requests |-> "idle"]
    /\ todo = [s \in Requests |-> {}]
    /\ held = [s \in Requests |-> {}]

InvNext ==
    /\ \/ \E s \in Requests : \/ \E e \in Errands : Begin(s, e)
                              \/ Serve(s)
                              \/ GiveUp(s)
                              \/ MembershipStep(s)
       \/ \E i \in Invitations : Cancel(i) \/ ExpiryPasses(i)
       \/ List
    /\ Observe

InvSpec == InvInit /\ [][InvNext]_allVars

\* A membership call's statements, without its failure.
Statement(s) ==
    /\ \/ CreateTx(s) \/ ReadTarget(s) \/ ReadCounts(s) \/ ReadTenure(s)
       \/ Write(s) \/ Archive(s) \/ Touch(s)
    /\ UNCHANGED <<invVars, errandVars>>

\* Goroutines are scheduled and PostgreSQL answers; it queues the waiters of
\* a row lock, so a waiter whose row is free again and again gets its turn.
Fairness == \A s \in Requests :
    /\ WF_allVars(Statement(s) /\ Observe)
    /\ WF_allVars(Serve(s) /\ Observe)
    /\ SF_allVars(LockInvitation(s) /\ Observe)

FairInvSpec == InvSpec /\ Fairness

-----------------------------------------------------------------------------
(***************************************************************************)
(* Properties                                                              *)
(***************************************************************************)

\* Types, and who holds a lock: exactly an acceptance past its row lock, on
\* the row it was called for.
InvTypeOK ==
    /\ TypeOK
    /\ inv \in [Invitations -> Invitation]
    /\ expired \in [Invitations -> SUBSET Clocks]
    /\ holder \in [Invitations -> Requests \cup {Nobody}]
    /\ errand \in [Requests -> Errands \cup {Nobody}]
    /\ at \in [Requests -> {"idle", "lock"} \cup AcceptSteps \cup InviteSteps]
    /\ todo \in [Requests -> SUBSET Roles]
    /\ held \in [Requests -> SUBSET Roles]
    /\ \A s \in Requests, i \in Invitations :
          holder[i] = s <=> Accepting(s) /\ errand[s].inv = i

\* A settled invitation is never settled again, whatever cancel, expiry,
\* second acceptance or failed mail comes late.
SettledOnce ==
    [][\A i \in Invitations : inv[i].status \in Terminal => inv'[i] = inv[i]]_allVars

\* An invitation is accepted only if its acceptor has, since the row was
\* locked, had every role it offers (each granted by a commit of its own).
AcceptedRolesGranted ==
    [][\A s \in Requests :
         at[s] = "commit" /\ inv[errand[s].inv].status # inv'[errand[s].inv].status
         => inv[errand[s].inv].roles \subseteq held[s]]_allVars

\* What a user sees of the invitation rows.
Offer == [i \in Invitations |->
            [status |-> inv[i].status, email |-> inv[i].email, by |-> inv[i].by]]

\* The invitations keep the promise of InvitationPromise.
Promise == INSTANCE InvitationPromise WITH offer <- Offer
KeepsPromise == Promise!Spec

\* Whatever invitations are accepted, to the tables of the members every step
\* is a step of the membership requests or none: no acceptance writes past
\* the guard of ensureMemberMutationAllowed.
MembersOnlyByCalls == Spec

\* A request to accept is answered: no row lock outlives the acceptance that
\* took it, so a waiter is never left behind.
AcceptAnswered == \A s \in Requests : at[s] = "lock" ~> at[s] = "idle"

\* D-12, "Bei SMTP-Fehler wird die Einladung sofort storniert (kein stiller
\* fail)": once the handler has answered a failed mail, the invitation is closed.
NoSilentPending ==
    [][\A s \in Requests :
         at[s] \in {"undo", "undoGone"} /\ at'[s] = "idle" /\ "db" \notin expired[errand[s].inv]
         => inv'[errand[s].inv].status # "pending"]_allVars
=============================================================================
