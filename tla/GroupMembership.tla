--------------------------- MODULE GroupMembership ---------------------------
(***************************************************************************)
(* App members of ONE fansub group: the tables fansub_group_members        *)
(* (memberStatus) and fansub_group_member_roles (memberRoles) and the      *)
(* requests that change them (fansub_group_app_members_repository.go).     *)
(*                                                                         *)
(* Every request is served by its own goroutine.  Create is one database   *)
(* transaction, hence one action; SetRole and UpdateStatus run each        *)
(* statement on its own (READ COMMITTED, no transaction, no row lock), so  *)
(* each statement is an action and requests interleave between them.       *)
(* Permission checks in the handlers only narrow who may call; a platform  *)
(* admin may make every call, so every call is possible here.              *)
(***************************************************************************)
EXTENDS Integers, FiniteSets

CONSTANTS
    Users,          \* app_users that can be members of the group
    Roles,          \* fansubGroupRoleCatalog
    LeadRole,       \* permissions.RoleFansubLead
    ManagerRoles,   \* roles that grant ActionFansubGroupMembersManage
    Linked,         \* users whose verified claim leads to a historical member row
    Requests,       \* requests being served at the same time
    NoJob           \* a request slot that serves nothing

\* The repository calls: Create, SetRole(Enable true / false), UpdateStatus.
Jobs == [op : {"create"}, user : Users, roles : SUBSET Roles]
    \cup [op : {"grant", "revoke"}, user : Users, roles : {{role} : role \in Roles}]
    \cup [op : {"activate", "disable"}, user : Users, roles : {{}}]
Statuses == {"absent", "active", "disabled"}

ASSUME UsersFinite == IsFiniteSet(Users)
ASSUME RoleAssumption == LeadRole \in Roles /\ ManagerRoles \subseteq Roles
ASSUME LinkedAssumption == Linked \subseteq Users
ASSUME NoJobAssumption == NoJob \notin Jobs

VARIABLES
    memberStatus,   \* fansub_group_members.status; "absent": no row
    memberRoles,    \* fansub_group_member_roles
    histRoles,      \* archived roles in hist_group_member_roles
    job,            \* the call each request is making
    pc,             \* the next statement of that call
    seen,           \* memberGuardState as the call has read it
    result          \* what the last call of each request returned

memberVars == <<memberStatus, memberRoles, histRoles>>
requestVars == <<job, pc, seen, result>>
vars == <<memberStatus, memberRoles, histRoles, job, pc, seen, result>>

PCs == {"idle", "create", "guard", "count", "tenure", "write", "archive", "touch"}
Results == {"none", "ok", "error"}
Seen == [status : Statuses, roles : SUBSET Roles, leads : Nat, managers : Nat, held : BOOLEAN]
NothingSeen == [status |-> "absent", roles |-> {}, leads |-> 0, managers |-> 0, held |-> FALSE]

-----------------------------------------------------------------------------
(***************************************************************************)
(* The guard                                                               *)
(***************************************************************************)

ActiveWith(R) == {u \in Users : memberStatus[u] = "active" /\ memberRoles[u] \cap R # {}}
ActiveLeads == ActiveWith({LeadRole})
ActiveManagers == ActiveWith(ManagerRoles)

\* buildNext: the status and the roles the member will have after job j.
NextStatus(j, status) == CASE j.op = "activate" -> "active"
                           [] j.op = "disable"  -> "disabled"
                           [] OTHER             -> status
NextRoles(j, roles) == CASE j.op = "grant"  -> roles \cup j.roles
                         [] j.op = "revoke" -> roles \ j.roles
                         [] OTHER           -> roles

\* evaluateMemberMutationConflict mutated: a slip in the boundary of the count.
ConflictOffByOne(status, roles, next, nextRoles, leads, managers) ==
    /\ status = "active"
    /\ \/ /\ LeadRole \in roles
          /\ next # "active" \/ LeadRole \notin nextRoles
          /\ leads < 1
       \/ /\ roles \cap ManagerRoles # {}
          /\ next # "active" \/ nextRoles \cap ManagerRoles = {}
          /\ managers <= 1

\* The same with the manager clause reduced to the removal of a role.
ConflictIgnoresStatus(status, roles, next, nextRoles, leads, managers) ==
    /\ status = "active"
    /\ \/ /\ LeadRole \in roles
          /\ next # "active" \/ LeadRole \notin nextRoles
          /\ leads <= 1
       \/ /\ roles \cap ManagerRoles # {}
          /\ nextRoles \cap ManagerRoles = {}
          /\ managers <= 1

\* evaluateMemberMutationConflict: last_active_lead or last_active_manager.
Conflict(status, roles, next, nextRoles, leads, managers) ==
    /\ status = "active"
    /\ \/ /\ LeadRole \in roles
          /\ next # "active" \/ LeadRole \notin nextRoles
          /\ leads <= 1
       \/ /\ roles \cap ManagerRoles # {}
          /\ next # "active" \/ nextRoles \cap ManagerRoles = {}
          /\ managers <= 1

-----------------------------------------------------------------------------
(***************************************************************************)
(* The statements of a call                                                *)
(***************************************************************************)

Return(r, res) ==
    /\ pc' = [pc EXCEPT ![r] = "idle"]
    /\ job' = [job EXCEPT ![r] = NoJob]
    /\ seen' = [seen EXCEPT ![r] = NothingSeen]
    /\ result' = [result EXCEPT ![r] = res]

Goto(r, label) ==
    /\ pc' = [pc EXCEPT ![r] = label]
    /\ UNCHANGED <<job, result>>

\* A request enters the repository with call j.
Call(r, j) ==
    /\ pc[r] = "idle"
    /\ job' = [job EXCEPT ![r] = j]
    /\ pc' = [pc EXCEPT ![r] = IF j.op = "create" THEN "create" ELSE "guard"]
    /\ result' = [result EXCEPT ![r] = "none"]
    /\ UNCHANGED <<memberVars, seen>>

\* What was written is committed; the answer rereads the member (GetByID),
\* which may fail.
Answer(r) == \E res \in {"ok", "error"} : Return(r, res)

\* Create: the row and its roles in one transaction; the unique (group, user)
\* index turns a second row into ErrConflict.
CreateTx(r) ==
    /\ pc[r] = "create"
    /\ LET u == job[r].user IN
       \/ /\ job[r].roles = {} \/ memberStatus[u] # "absent"
          /\ Return(r, "error")
          /\ UNCHANGED memberVars
       \/ /\ job[r].roles # {} /\ memberStatus[u] = "absent"
          /\ memberStatus' = [memberStatus EXCEPT ![u] = "active"]
          /\ memberRoles' = [memberRoles EXCEPT ![u] = job[r].roles]
          /\ Answer(r)
          /\ UNCHANGED histRoles

\* ReadTarget mutated: a missing row is not an error.
ReadTargetUnchecked(r) ==
    /\ pc[r] = "guard"
    /\ LET u == job[r].user IN
       seen' = [seen EXCEPT ![r].status = memberStatus[u], ![r].roles = memberRoles[u]]
    /\ Goto(r, "count")
    /\ UNCHANGED memberVars

\* lookupMemberID and the first query of loadGuardState.
ReadTarget(r) ==
    /\ pc[r] = "guard"
    /\ LET u == job[r].user IN
       \/ memberStatus[u] = "absent" /\ Return(r, "error")
       \/ /\ memberStatus[u] # "absent"
          /\ seen' = [seen EXCEPT ![r].status = memberStatus[u], ![r].roles = memberRoles[u]]
          /\ Goto(r, "count")
    /\ UNCHANGED memberVars

\* The second query of loadGuardState, then evaluateMemberMutationConflict.
ReadCounts(r) ==
    /\ pc[r] = "count"
    /\ LET status == seen[r].status
           roles == seen[r].roles
           leads == Cardinality(ActiveLeads)
           managers == Cardinality(ActiveManagers)
           conflict == Conflict(status, roles, NextStatus(job[r], status),
                                NextRoles(job[r], roles), leads, managers) IN
       \/ conflict /\ Return(r, "error")
       \/ /\ ~conflict
          /\ seen' = [seen EXCEPT ![r].leads = leads, ![r].managers = managers]
          /\ Goto(r, IF job[r].op = "revoke" THEN "tenure" ELSE "write")
    /\ UNCHANGED memberVars

\* SetRole(Enable=false): read created_at of the role (zero if it is gone).
ReadTenure(r) ==
    /\ pc[r] = "tenure"
    /\ seen' = [seen EXCEPT ![r].held = job[r].roles \subseteq memberRoles[job[r].user]]
    /\ Goto(r, "write")
    /\ UNCHANGED memberVars

\* INSERT / DELETE of the role, or UPDATE of the status: the current row is
\* changed, whatever the guard had read.
Write(r) ==
    /\ pc[r] = "write"
    /\ LET u == job[r].user IN
       /\ memberStatus' = [memberStatus EXCEPT ![u] = NextStatus(job[r], @)]
       /\ memberRoles' = [memberRoles EXCEPT ![u] = NextRoles(job[r], @)]
    /\ \/ /\ job[r].op \in {"grant", "revoke"}
          /\ seen' = [seen EXCEPT ![r] = [NothingSeen EXCEPT !.held = seen[r].held]]
          /\ Goto(r, IF job[r].op = "revoke" THEN "archive" ELSE "touch")
       \/ /\ job[r].op \in {"activate", "disable"}
          /\ Answer(r)
    /\ UNCHANGED histRoles

\* chk_hist_group_member_roles_status, and the status SetRole inserts with.
HistRoleStatuses == {"draft", "historical", "confirmed", "disputed"}
ArchiveStatus == "ended"

\* D-10: copy the ended role to the linked historical member; errors are ignored.
Archive(r) ==
    /\ pc[r] = "archive"
    /\ LET u == job[r].user IN
       histRoles' = IF seen[r].held /\ u \in Linked /\ ArchiveStatus \in HistRoleStatuses
                    THEN [histRoles EXCEPT ![u] = @ \cup job[r].roles]
                    ELSE histRoles
    /\ Goto(r, "touch")
    /\ UNCHANGED <<memberStatus, memberRoles, seen>>

\* SetRole: updated_at of the member, then the answer.
Touch(r) ==
    /\ pc[r] = "touch"
    /\ Answer(r)
    /\ UNCHANGED memberVars

\* A statement fails, the client goes away or the process dies: the call ends
\* here, and what its earlier statements wrote stays written.
Abort(r) ==
    /\ pc[r] # "idle"
    /\ Return(r, "error")
    /\ UNCHANGED memberVars

Step(r) ==
    \/ CreateTx(r)
    \/ ReadTarget(r)
    \/ ReadCounts(r)
    \/ ReadTenure(r)
    \/ Write(r)
    \/ Archive(r)
    \/ Touch(r)
    \/ Abort(r)

-----------------------------------------------------------------------------
\* A new group has no members: the platform admin creates the first one.
Init ==
    /\ memberStatus = [u \in Users |-> "absent"]
    /\ memberRoles = [u \in Users |-> {}]
    /\ histRoles = [u \in Users |-> {}]
    /\ job = [r \in Requests |-> NoJob]
    /\ pc = [r \in Requests |-> "idle"]
    /\ seen = [r \in Requests |-> NothingSeen]
    /\ result = [r \in Requests |-> "none"]

Next == \E r \in Requests : (\E j \in Jobs : Call(r, j)) \/ Step(r)

Spec == Init /\ [][Next]_vars

-----------------------------------------------------------------------------
(***************************************************************************)
(* Properties                                                              *)
(***************************************************************************)

\* The types, and what the tables' foreign keys imply: no role row without
\* its member row.
TypeOK ==
    /\ memberStatus \in [Users -> Statuses]
    /\ memberRoles \in [Users -> SUBSET Roles]
    /\ histRoles \in [Users -> SUBSET Roles]
    /\ job \in [Requests -> Jobs \cup {NoJob}]
    /\ pc \in [Requests -> PCs]
    /\ seen \in [Requests -> Seen]
    /\ result \in [Requests -> Results]
    /\ \A u \in Users : memberStatus[u] = "absent" => memberRoles[u] = {}
    /\ \A r \in Requests : pc[r] = "idle" <=> job[r] = NoJob

\* The target of r is as r's guard read it, and no counted member has left
\* the group `who` since r counted n of them.
StillAsSeen(r, n, who) ==
    /\ memberStatus[job[r].user] = seen[r].status
    /\ memberRoles[job[r].user] = seen[r].roles
    /\ n <= Cardinality(who)

\* The last active lead is only ever lost to a race: by a write whose guard
\* read a target, or counted more leads, than the group has at the write.
\* (ensureMemberMutationAllowed runs before, and outside of, the write.)
LeadLostOnlyToRace ==
    [][ActiveLeads # {} /\ ActiveLeads' = {}
       => \E r \in Requests : pc[r] = "write" /\ ~StillAsSeen(r, seen[r].leads, ActiveLeads)]_vars

\* The same for the last active member who may manage members.
ManagerLostOnlyToRace ==
    [][ActiveManagers # {} /\ ActiveManagers' = {}
       => \E r \in Requests :
             pc[r] = "write" /\ ~StillAsSeen(r, seen[r].managers, ActiveManagers)]_vars

\* "Der letzte aktive Fansub-Lead kann nicht entfernt oder deaktiviert werden."
\* (evaluateMemberMutationConflict): a group with an active lead keeps one.
LastLeadKept == [][ActiveLeads # {} => ActiveLeads' # {}]_vars

\* D-10: "SetRole(Enable=false) mit hist-Member-Link -> INSERT in
\* hist_group_member_roles": the ended role of a linked member is archived.
EndedRolesArchived ==
    [][\A r \in Requests :
         pc[r] = "archive" /\ pc'[r] = "touch" /\ seen[r].held /\ job[r].user \in Linked
         => job[r].roles \subseteq histRoles'[job[r].user]]_vars
=============================================================================
