------------------------ MODULE GroupMembershipProofs ------------------------
(***************************************************************************)
(* Proofs about GroupMembership, for any users, roles and requests.        *)
(***************************************************************************)
EXTENDS GroupMembership, FiniteSetTheorems, TLAPS

\* A request past its guard has a verdict of evaluateMemberMutationConflict
\* in its favour, on what it had read.
GuardPassed(r) ==
    pc[r] \in {"tenure", "write"} =>
        ~Conflict(seen[r].status, seen[r].roles,
                  NextStatus(job[r], seen[r].status), NextRoles(job[r], seen[r].roles),
                  seen[r].leads, seen[r].managers)

\* A request past the lookup of its target works on a row that exists.
TargetExists(r) ==
    pc[r] \in {"count", "tenure", "write"} => memberStatus[job[r].user] # "absent"

IInv == TypeOK /\ \A r \in Requests : GuardPassed(r) /\ TargetExists(r)

-----------------------------------------------------------------------------
\* The sets the guard counts are finite, so their sizes are numbers.
LEMMA ActiveFinite ==
    ASSUME NEW R
    PROVE  IsFiniteSet(ActiveWith(R)) /\ Cardinality(ActiveWith(R)) \in Nat
<1>1. ActiveWith(R) \subseteq Users  BY DEF ActiveWith
<1> QED  BY <1>1, UsersFinite, FS_Subset, FS_CardinalityType

\* What a call asks for has the type of the tables' columns.
LEMMA NextTypes ==
    ASSUME NEW j \in Jobs, NEW status \in Statuses, NEW roles \in SUBSET Roles
    PROVE  /\ NextStatus(j, status) \in Statuses
           /\ NextRoles(j, roles) \in SUBSET Roles
           /\ (status # "absent" => NextStatus(j, status) # "absent")
           /\ j.user \in Users /\ j.roles \in SUBSET Roles
BY DEF Jobs, NextStatus, NextRoles, Statuses

LEMMA InitIInv == Init => IInv
BY NoJobAssumption DEF Init, IInv, TypeOK, GuardPassed, TargetExists, Statuses, PCs, Seen, NothingSeen, Results

\* Ending a call keeps the invariant, whatever the call had got to.
LEMMA ReturnIInv ==
    ASSUME IInv, NEW r \in Requests, NEW res \in Results, Return(r, res),
           memberStatus' \in [Users -> Statuses], memberRoles' \in [Users -> SUBSET Roles],
           histRoles' = histRoles,
           \A u \in Users : memberStatus[u] # "absent" => memberStatus'[u] # "absent",
           \A u \in Users : memberStatus'[u] = "absent" => memberRoles'[u] = {}
    PROVE  IInv'
<1> USE DEF IInv, TypeOK, Return
<1>1. NothingSeen \in Seen  BY DEF NothingSeen, Seen, Statuses
<1>2. TypeOK'  BY <1>1, NoJobAssumption DEF PCs
<1>3. ASSUME NEW q \in Requests PROVE GuardPassed(q)' /\ TargetExists(q)'
  <2>1. CASE q = r  BY <2>1 DEF GuardPassed, TargetExists
  <2>2. CASE q # r
    <3>1. job'[q] = job[q] /\ pc'[q] = pc[q] /\ seen'[q] = seen[q]  BY <2>2
    <3>2. pc[q] \in {"count", "tenure", "write"} => job[q] \in Jobs  BY NoJobAssumption
    <3>3. pc[q] \in {"count", "tenure", "write"} => job[q].user \in Users  BY <3>2 DEF Jobs
    <3> QED  BY <3>1, <3>3 DEF GuardPassed, TargetExists, Conflict, NextStatus, NextRoles
  <2> QED  BY <2>1, <2>2
<1> QED  BY <1>2, <1>3

\* A request that moves on without ending keeps the invariant if what it now
\* holds is well typed and its guard and target are as they should be.
LEMMA MoveIInv ==
    ASSUME IInv, NEW r \in Requests, job[r] # NoJob, job' = job, result' = result,
           NEW label \in PCs \ {"idle"}, NEW s \in Seen,
           pc' = [pc EXCEPT ![r] = label], seen' = [seen EXCEPT ![r] = s],
           GuardPassed(r)', TargetExists(r)',
           memberStatus' \in [Users -> Statuses], memberRoles' \in [Users -> SUBSET Roles],
           histRoles' \in [Users -> SUBSET Roles],
           \A u \in Users : memberStatus[u] # "absent" => memberStatus'[u] # "absent",
           \A u \in Users : memberStatus'[u] = "absent" => memberRoles'[u] = {}
    PROVE  IInv'
<1> USE DEF IInv, TypeOK
<1>1. TypeOK'  OBVIOUS
<1>2. ASSUME NEW q \in Requests, q # r PROVE GuardPassed(q)' /\ TargetExists(q)'
  <2>1. job'[q] = job[q] /\ pc'[q] = pc[q] /\ seen'[q] = seen[q]  BY <1>2
  <2>2. pc[q] \in {"count", "tenure", "write"} => job[q].user \in Users
    BY NoJobAssumption DEF Jobs
  <2> QED  BY <2>1, <2>2 DEF GuardPassed, TargetExists, Conflict, NextStatus, NextRoles
<1> QED  BY <1>1, <1>2

LEMMA CallIInv ==
    ASSUME IInv, NEW r \in Requests, NEW j \in Jobs, Call(r, j)
    PROVE  IInv'
<1> USE DEF IInv, Call, memberVars
<1>1. TypeOK'  BY NoJobAssumption DEF TypeOK, PCs, Results
<1>2. ASSUME NEW q \in Requests PROVE GuardPassed(q)' /\ TargetExists(q)'
  <2>1. q # r => job'[q] = job[q] /\ pc'[q] = pc[q]  BY DEF TypeOK
  <2>2. pc'[r] \in {"create", "guard"}  BY DEF TypeOK
  <2> QED  BY <2>1, <2>2 DEF GuardPassed, TargetExists, Conflict, NextStatus, NextRoles
<1> QED  BY <1>1, <1>2

\* Every statement of a call keeps the invariant.
LEMMA StepIInv ==
    ASSUME IInv, NEW r \in Requests, Step(r)
    PROVE  IInv'
<1> DEFINE u == job[r].user
<1>1. pc[r] # "idle"
  BY DEF Step, CreateTx, ReadTarget, ReadCounts, ReadTenure, Write, Archive, Touch, Abort
<1>2. job[r] \in Jobs /\ job[r] # NoJob /\ u \in Users /\ job[r].roles \in SUBSET Roles
  BY <1>1, NoJobAssumption DEF IInv, TypeOK, Jobs
<1>3. seen[r] \in Seen /\ memberStatus[u] \in Statuses /\ memberRoles[u] \in SUBSET Roles
  BY <1>2 DEF IInv, TypeOK
<1>4. "ok" \in Results /\ "error" \in Results  BY DEF Results
<1>a. ASSUME UNCHANGED memberVars
      PROVE  /\ memberStatus' = memberStatus /\ memberRoles' = memberRoles /\ histRoles' = histRoles
             /\ memberStatus' \in [Users -> Statuses] /\ memberRoles' \in [Users -> SUBSET Roles]
             /\ histRoles' \in [Users -> SUBSET Roles]
             /\ \A v \in Users : memberStatus[v] # "absent" => memberStatus'[v] # "absent"
             /\ \A v \in Users : memberStatus'[v] = "absent" => memberRoles'[v] = {}
  BY <1>a DEF memberVars, IInv, TypeOK
<1>5. CASE CreateTx(r)
  <2>1. CASE UNCHANGED memberVars /\ Return(r, "error")  BY <2>1, <1>4, <1>a, ReturnIInv
  <2>2. CASE /\ memberStatus[u] = "absent"
             /\ memberStatus' = [memberStatus EXCEPT ![u] = "active"]
             /\ memberRoles' = [memberRoles EXCEPT ![u] = job[r].roles]
             /\ Answer(r)
             /\ UNCHANGED histRoles
    <3>1. memberStatus' \in [Users -> Statuses] /\ memberRoles' \in [Users -> SUBSET Roles]
      BY <2>2, <1>2 DEF IInv, TypeOK, Statuses
    <3>2. \A v \in Users : memberStatus[v] # "absent" => memberStatus'[v] # "absent"
      BY <2>2 DEF IInv, TypeOK
    <3>3. \A v \in Users : memberStatus'[v] = "absent" => memberRoles'[v] = {}
      BY <2>2, <1>2 DEF IInv, TypeOK
    <3>4. PICK res \in Results : Return(r, res)  BY <2>2, <1>4 DEF Answer
    <3> QED  BY <2>2, <3>1, <3>2, <3>3, <3>4, ReturnIInv
  <2> QED  BY <1>5, <2>1, <2>2 DEF CreateTx
<1>6. CASE ReadTarget(r)
  <2>1. CASE Return(r, "error") /\ UNCHANGED memberVars  BY <2>1, <1>4, <1>a, ReturnIInv
  <2>2. CASE memberStatus[u] # "absent" /\ Goto(r, "count") /\ UNCHANGED memberVars
             /\ seen' = [seen EXCEPT ![r].status = memberStatus[u], ![r].roles = memberRoles[u]]
    <3> DEFINE s == [seen[r] EXCEPT !.status = memberStatus[u], !.roles = memberRoles[u]]
    <3>1. s \in Seen  BY <1>3 DEF Seen
    <3>2. seen' = [seen EXCEPT ![r] = s]  BY <2>2 DEF IInv, TypeOK
    <3>3. GuardPassed(r)' /\ TargetExists(r)'
      BY <2>2, <1>2 DEF Goto, IInv, TypeOK, GuardPassed, TargetExists, memberVars
    <3>4. "count" \in PCs \ {"idle"}  BY DEF PCs
    <3> QED  BY <2>2, <3>1, <3>2, <3>3, <3>4, <1>2, <1>a, MoveIInv DEF Goto
  <2> QED  BY <1>6, <2>1, <2>2 DEF ReadTarget
<1>7. CASE ReadCounts(r)
  <2> DEFINE leads == Cardinality(ActiveLeads)
             managers == Cardinality(ActiveManagers)
             verdict == Conflict(seen[r].status, seen[r].roles,
                                 NextStatus(job[r], seen[r].status),
                                 NextRoles(job[r], seen[r].roles), leads, managers)
             label == IF job[r].op = "revoke" THEN "tenure" ELSE "write"
             s == [seen[r] EXCEPT !.leads = leads, !.managers = managers]
  <2>1. CASE Return(r, "error") /\ UNCHANGED memberVars  BY <2>1, <1>4, <1>a, ReturnIInv
  <2>2. CASE ~verdict /\ Goto(r, label) /\ UNCHANGED memberVars
             /\ seen' = [seen EXCEPT ![r].leads = leads, ![r].managers = managers]
    <3>1. s \in Seen  BY <1>3, ActiveFinite DEF Seen, ActiveLeads, ActiveManagers
    <3>2. seen' = [seen EXCEPT ![r] = s]  BY <2>2 DEF IInv, TypeOK
    <3>3. /\ seen'[r].status = seen[r].status /\ seen'[r].roles = seen[r].roles
          /\ seen'[r].leads = leads /\ seen'[r].managers = managers
      BY <3>2, <1>3 DEF IInv, TypeOK, Seen
    <3>4. GuardPassed(r)'
      BY <2>2, <3>3 DEF GuardPassed, Goto, Conflict, NextStatus, NextRoles
    <3>5. TargetExists(r)'
      BY <2>2, <1>2, <1>7 DEF IInv, TypeOK, TargetExists, Goto, memberVars, ReadCounts
    <3>6. label \in PCs \ {"idle"}  BY DEF PCs
    <3> QED  BY <2>2, <3>1, <3>2, <3>4, <3>5, <3>6, <1>2, <1>a, MoveIInv DEF Goto
  <2> QED  BY <1>7, <2>1, <2>2 DEF ReadCounts
<1>8. CASE ReadTenure(r)
  <2> DEFINE s == [seen[r] EXCEPT !.held = job[r].roles \subseteq memberRoles[u]]
  <2>1. s \in Seen  BY <1>3 DEF Seen
  <2>2. seen' = [seen EXCEPT ![r] = s]  BY <1>8 DEF IInv, TypeOK, ReadTenure
  <2>3. /\ seen'[r].status = seen[r].status /\ seen'[r].roles = seen[r].roles
        /\ seen'[r].leads = seen[r].leads /\ seen'[r].managers = seen[r].managers
    BY <2>2, <1>3 DEF IInv, TypeOK, Seen
  <2>4. GuardPassed(r)'
    BY <1>8, <2>3 DEF IInv, ReadTenure, GuardPassed, Goto, Conflict, NextStatus, NextRoles
  <2>5. TargetExists(r)'
    BY <1>8, <1>2 DEF IInv, TypeOK, TargetExists, Goto, memberVars, ReadTenure
  <2>6. "write" \in PCs \ {"idle"}  BY DEF PCs
  <2> QED  BY <1>8, <2>1, <2>2, <2>4, <2>5, <2>6, <1>2, <1>a, MoveIInv DEF Goto, ReadTenure
<1>9. CASE Write(r)
  <2>1. memberStatus[u] # "absent"  BY <1>9 DEF IInv, TargetExists, Write
  <2>2. /\ memberStatus' = [memberStatus EXCEPT ![u] = NextStatus(job[r], memberStatus[u])]
        /\ memberRoles' = [memberRoles EXCEPT ![u] = NextRoles(job[r], memberRoles[u])]
        /\ histRoles' = histRoles
    BY <1>9 DEF Write
  <2>3. memberStatus' \in [Users -> Statuses] /\ memberRoles' \in [Users -> SUBSET Roles]
    BY <2>2, <1>2, <1>3, NextTypes DEF IInv, TypeOK
  <2>4. memberStatus'[u] # "absent"  BY <2>1, <2>2, <1>2, <1>3, NextTypes DEF IInv, TypeOK
  <2>5. /\ \A v \in Users : memberStatus[v] # "absent" => memberStatus'[v] # "absent"
        /\ \A v \in Users : memberStatus'[v] = "absent" => memberRoles'[v] = {}
    BY <2>2, <2>4 DEF IInv, TypeOK
  <2>6. CASE Answer(r)
    <3>1. PICK res \in Results : Return(r, res)  BY <2>6, <1>4 DEF Answer
    <3> QED  BY <3>1, <2>2, <2>3, <2>5, ReturnIInv
  <2>7. CASE /\ seen' = [seen EXCEPT ![r] = [NothingSeen EXCEPT !.held = seen[r].held]]
             /\ Goto(r, IF job[r].op = "revoke" THEN "archive" ELSE "touch")
    <3> DEFINE label == IF job[r].op = "revoke" THEN "archive" ELSE "touch"
               s == [NothingSeen EXCEPT !.held = seen[r].held]
    <3>1. s \in Seen  BY <1>3 DEF Seen, NothingSeen, Statuses
    <3>2. label \in PCs \ {"idle"}  BY DEF PCs
    <3>3. GuardPassed(r)' /\ TargetExists(r)'
      BY <2>7 DEF IInv, TypeOK, Goto, GuardPassed, TargetExists
    <3>4. histRoles' \in [Users -> SUBSET Roles]  BY <2>2 DEF IInv, TypeOK
    <3> QED  BY <2>7, <2>3, <2>5, <3>1, <3>2, <3>3, <3>4, <1>2, MoveIInv DEF Goto
  <2> QED  BY <1>9, <2>6, <2>7 DEF Write
<1>10. CASE Archive(r)
  <2>1. seen' = [seen EXCEPT ![r] = seen[r]]  BY <1>10 DEF IInv, TypeOK, Archive
  <2>2. histRoles' \in [Users -> SUBSET Roles]
    BY <1>10, <1>2 DEF Archive, IInv, TypeOK
  <2>3. GuardPassed(r)' /\ TargetExists(r)'
    BY <1>10 DEF IInv, TypeOK, Archive, Goto, GuardPassed, TargetExists
  <2>4. "touch" \in PCs \ {"idle"}  BY DEF PCs
  <2>5. memberStatus' = memberStatus /\ memberRoles' = memberRoles  BY <1>10 DEF Archive
  <2>6. /\ memberStatus' \in [Users -> Statuses] /\ memberRoles' \in [Users -> SUBSET Roles]
        /\ \A v \in Users : memberStatus[v] # "absent" => memberStatus'[v] # "absent"
        /\ \A v \in Users : memberStatus'[v] = "absent" => memberRoles'[v] = {}
    BY <2>5 DEF IInv, TypeOK
  <2> QED  BY <1>10, <2>1, <2>2, <2>3, <2>4, <2>6, <1>2, <1>3, MoveIInv DEF Archive, Goto
<1>11. CASE Touch(r)
  <2>1. PICK res \in Results : Return(r, res)  BY <1>11, <1>4 DEF Touch, Answer
  <2> QED  BY <1>11, <2>1, <1>a, ReturnIInv DEF Touch
<1>12. CASE Abort(r)  BY <1>12, <1>4, <1>a, ReturnIInv DEF Abort
<1> QED
  BY <1>5, <1>6, <1>7, <1>8, <1>9, <1>10, <1>11, <1>12 DEF Step

LEMMA StutterIInv == IInv /\ UNCHANGED vars => IInv'
BY DEF IInv, TypeOK, vars, GuardPassed, TargetExists, Conflict, NextStatus, NextRoles

\* The inductive invariant of the membership requests: what every request
\* has read is well typed, points to a row and has passed its guard.
THEOREM MembershipInvariant == Spec => []IInv
<1>1. IInv /\ [Next]_vars => IInv'  BY CallIInv, StepIInv, StutterIInv DEF Next
<1> QED  BY InitIInv, <1>1, PTL DEF Spec

\* Tables and requests stay well typed, and no role is left without its
\* member row, for any number of users, roles and racing requests.
THEOREM MembershipTypes == Spec => []TypeOK
<1>1. IInv => TypeOK  BY DEF IInv
<1> QED  BY MembershipInvariant, <1>1, PTL

-----------------------------------------------------------------------------
\* Only a write can empty a set of active role holders, and only when its
\* target is the one member of that set.
LEMMA OnlyWriteEmpties ==
    ASSUME IInv, NEW r \in Requests, NEW R \in SUBSET Roles,
           Step(r) \/ (\E j \in Jobs : Call(r, j)),
           ActiveWith(R) # {}, ActiveWith(R)' = {}
    PROVE  Write(r) /\ ActiveWith(R) = {job[r].user}
<1> DEFINE u == job[r].user
<1>1. memberStatus' # memberStatus \/ memberRoles' # memberRoles  BY DEF ActiveWith
<1>2. CASE CreateTx(r)
  <2>1. PICK x \in ActiveWith(R) : TRUE  OBVIOUS
  <2>2. memberStatus[u] = "absent" /\ memberStatus' = [memberStatus EXCEPT ![u] = "active"]
        /\ memberRoles' = [memberRoles EXCEPT ![u] = job[r].roles]
    BY <1>1, <1>2 DEF CreateTx, memberVars
  <2>3. memberStatus'[x] = memberStatus[x] /\ memberRoles'[x] = memberRoles[x]
    BY <2>1, <2>2 DEF ActiveWith, IInv, TypeOK
  <2>4. x \in ActiveWith(R)'  BY <2>1, <2>3 DEF ActiveWith
  <2> QED  BY <2>4
<1>3. Write(r)
  BY <1>1, <1>2 DEF Step, Call, ReadTarget, ReadCounts, ReadTenure, Archive, Touch, Abort, memberVars
<1>4. \A x \in Users : x # u => memberStatus'[x] = memberStatus[x] /\ memberRoles'[x] = memberRoles[x]
  BY <1>3 DEF Write, IInv, TypeOK
<1>5. ActiveWith(R) \subseteq {u}  BY <1>4 DEF ActiveWith
<1> QED  BY <1>3, <1>5

\* A write that empties a set of active role holders although its target and
\* the count are as its guard had read them contradicts the guard's verdict:
\* stated once for the count n the guard compared with 1.
LEMMA EmptyingWriteHadOneLeft ==
    ASSUME IInv, NEW r \in Requests, NEW R \in SUBSET Roles, NEW n \in Nat,
           Step(r) \/ (\E j \in Jobs : Call(r, j)),
           ActiveWith(R) # {}, ActiveWith(R)' = {},
           StillAsSeen(r, n, ActiveWith(R))
    PROVE  /\ pc[r] = "write" /\ n <= 1
           /\ seen[r].status = "active" /\ seen[r].roles \cap R # {}
           /\ \/ NextStatus(job[r], seen[r].status) # "active"
              \/ NextRoles(job[r], seen[r].roles) \cap R = {}
<1> DEFINE u == job[r].user
<1>1. Write(r) /\ ActiveWith(R) = {u}  BY OnlyWriteEmpties
<1>2. u \in Users /\ memberStatus[u] = "active" /\ memberRoles[u] \cap R # {}
  BY <1>1 DEF ActiveWith
<1>3. n <= 1  BY <1>1, FS_Singleton DEF StillAsSeen
<1>4. /\ memberStatus'[u] = NextStatus(job[r], memberStatus[u])
      /\ memberRoles'[u] = NextRoles(job[r], memberRoles[u])
  BY <1>1, <1>2 DEF Write, IInv, TypeOK
<1>5. ~(memberStatus'[u] = "active" /\ memberRoles'[u] \cap R # {})
  BY <1>2 DEF ActiveWith
<1> QED  BY <1>1, <1>2, <1>3, <1>4, <1>5 DEF StillAsSeen, Write

\* What a guard has counted is a number.
LEMMA SeenCounts == ASSUME IInv, NEW r \in Requests
                    PROVE seen[r].leads \in Nat /\ seen[r].managers \in Nat
BY DEF IInv, TypeOK, Seen

\* The check-then-act of ensureMemberMutationAllowed is the only way to lose
\* the last active lead: a write that removes it acts on a stale guard.
THEOREM LeadLostOnlyToRaceHolds == Spec => LeadLostOnlyToRace
<1> DEFINE A == ActiveLeads # {} /\ ActiveLeads' = {}
                => \E r \in Requests : pc[r] = "write" /\ ~StillAsSeen(r, seen[r].leads, ActiveLeads)
<1>1. ASSUME IInv, [Next]_vars PROVE [A]_vars
  <2>1. SUFFICES ASSUME Next, ActiveLeads # {}, ActiveLeads' = {}
                 PROVE  \E r \in Requests :
                           pc[r] = "write" /\ ~StillAsSeen(r, seen[r].leads, ActiveLeads)
    BY <1>1
  <2>2. PICK r \in Requests : Step(r) \/ (\E j \in Jobs : Call(r, j))  BY <2>1 DEF Next
  <2>3. {LeadRole} \in SUBSET Roles  BY RoleAssumption
  <2>4. pc[r] = "write"  BY <1>1, <2>1, <2>2, <2>3, OnlyWriteEmpties DEF ActiveLeads, Write
  <2>5. ASSUME StillAsSeen(r, seen[r].leads, ActiveLeads) PROVE FALSE
    <3>1. /\ seen[r].leads <= 1
          /\ seen[r].status = "active" /\ seen[r].roles \cap {LeadRole} # {}
          /\ \/ NextStatus(job[r], seen[r].status) # "active"
             \/ NextRoles(job[r], seen[r].roles) \cap {LeadRole} = {}
      BY <1>1, <2>1, <2>2, <2>3, <2>5, SeenCounts, EmptyingWriteHadOneLeft DEF ActiveLeads
    <3>2. GuardPassed(r)  BY <1>1 DEF IInv
    <3> QED  BY <2>4, <3>1, <3>2 DEF GuardPassed, Conflict
  <2> QED  BY <2>4, <2>5
<1> QED  BY MembershipInvariant, <1>1, PTL DEF Spec, LeadLostOnlyToRace

\* The same for the last active member who may manage the others.
THEOREM ManagerLostOnlyToRaceHolds == Spec => ManagerLostOnlyToRace
<1> DEFINE A == ActiveManagers # {} /\ ActiveManagers' = {}
                => \E r \in Requests :
                      pc[r] = "write" /\ ~StillAsSeen(r, seen[r].managers, ActiveManagers)
<1>1. ASSUME IInv, [Next]_vars PROVE [A]_vars
  <2>1. SUFFICES ASSUME Next, ActiveManagers # {}, ActiveManagers' = {}
                 PROVE  \E r \in Requests :
                           pc[r] = "write" /\ ~StillAsSeen(r, seen[r].managers, ActiveManagers)
    BY <1>1
  <2>2. PICK r \in Requests : Step(r) \/ (\E j \in Jobs : Call(r, j))  BY <2>1 DEF Next
  <2>3. ManagerRoles \in SUBSET Roles  BY RoleAssumption
  <2>4. pc[r] = "write"  BY <1>1, <2>1, <2>2, <2>3, OnlyWriteEmpties DEF ActiveManagers, Write
  <2>5. ASSUME StillAsSeen(r, seen[r].managers, ActiveManagers) PROVE FALSE
    <3>1. /\ seen[r].managers <= 1
          /\ seen[r].status = "active" /\ seen[r].roles \cap ManagerRoles # {}
          /\ \/ NextStatus(job[r], seen[r].status) # "active"
             \/ NextRoles(job[r], seen[r].roles) \cap ManagerRoles = {}
      BY <1>1, <2>1, <2>2, <2>3, <2>5, SeenCounts, EmptyingWriteHadOneLeft DEF ActiveManagers
    <3>2. GuardPassed(r)  BY <1>1 DEF IInv
    <3> QED  BY <2>4, <3>1, <3>2 DEF GuardPassed, Conflict
  <2> QED  BY <2>4, <2>5
<1> QED  BY MembershipInvariant, <1>1, PTL DEF Spec, ManagerLostOnlyToRace

-----------------------------------------------------------------------------
(***************************************************************************)
(* What serializing the guard would give                                   *)
(***************************************************************************)

\* A request that has read its target and has not written yet.
Guarding(r) == pc[r] \in {"count", "tenure", "write"}

\* No two requests are between guard and write at the same time, as a lock on
\* the group (or a serializable transaction) would have it.
GuardsAlone == \A r, q \in Requests : Guarding(r) /\ Guarding(q) => r = q

\* The target is as the guard has read it, and no counted member has left.
Fresh(r) ==
    /\ Guarding(r) => /\ memberStatus[job[r].user] = seen[r].status
                      /\ memberRoles[job[r].user] = seen[r].roles
    /\ pc[r] \in {"tenure", "write"} => /\ seen[r].leads <= Cardinality(ActiveLeads)
                                        /\ seen[r].managers <= Cardinality(ActiveManagers)

AllFresh == \A r \in Requests : Fresh(r)

\* A new member takes nobody's role away.
LEMMA CreateGrows ==
    ASSUME IInv, NEW s \in Requests, CreateTx(s), NEW R
    PROVE  Cardinality(ActiveWith(R)) <= Cardinality(ActiveWith(R)')
<1>1. ActiveWith(R) \subseteq ActiveWith(R)'
  BY DEF CreateTx, IInv, TypeOK, ActiveWith, memberVars
<1>2. ActiveWith(R)' \subseteq Users  BY DEF ActiveWith
<1> QED  BY <1>1, <1>2, UsersFinite, FS_Subset

\* While a request is alone in its guard, another changes nothing it has read.
LEMMA OthersFresh ==
    ASSUME IInv, GuardsAlone, NEW r \in Requests, Fresh(r), NEW s \in Requests, s # r,
           Step(s) \/ (\E j \in Jobs : Call(s, j))
    PROVE  Fresh(r)'
<1>1. pc'[r] = pc[r] /\ job'[r] = job[r] /\ seen'[r] = seen[r]
  BY DEF IInv, TypeOK, Call, Step, CreateTx, ReadTarget, ReadCounts, ReadTenure, Write, Archive,
         Touch, Abort, Answer, Return, Goto
<1>2. Guarding(r) => memberStatus[job[r].user] # "absent" /\ job[r].user \in Users
  BY NoJobAssumption DEF Guarding, IInv, TypeOK, TargetExists, Jobs
<1>3. CASE UNCHANGED <<memberStatus, memberRoles>>
  <2>1. ActiveLeads' = ActiveLeads /\ ActiveManagers' = ActiveManagers
    BY <1>3 DEF ActiveLeads, ActiveManagers, ActiveWith
  <2> QED  BY <1>1, <1>3, <2>1 DEF Fresh, Guarding
<1>4. CASE CreateTx(s) /\ ~UNCHANGED memberVars
  <2>1. Guarding(r) => /\ memberStatus'[job[r].user] = memberStatus[job[r].user]
                       /\ memberRoles'[job[r].user] = memberRoles[job[r].user]
    BY <1>2, <1>4 DEF CreateTx, IInv, TypeOK
  <2>2. /\ Cardinality(ActiveLeads) <= Cardinality(ActiveLeads')
        /\ Cardinality(ActiveManagers) <= Cardinality(ActiveManagers')
    BY <1>4, CreateGrows DEF ActiveLeads, ActiveManagers
  <2>3. /\ Cardinality(ActiveLeads) \in Nat /\ Cardinality(ActiveManagers) \in Nat
        /\ Cardinality(ActiveLeads') \in Nat /\ Cardinality(ActiveManagers') \in Nat
    <3>1. \A R : IsFiniteSet(ActiveWith(R)')
      <4>1. \A R : ActiveWith(R)' \subseteq Users  BY DEF ActiveWith
      <4> QED  BY <4>1, UsersFinite, FS_Subset
    <3> QED  BY <3>1, ActiveFinite, FS_CardinalityType DEF ActiveLeads, ActiveManagers
  <2>4. seen[r].leads \in Nat /\ seen[r].managers \in Nat  BY SeenCounts
  <2> QED  BY <1>1, <2>1, <2>2, <2>3, <2>4 DEF Fresh, Guarding
<1>5. CASE Write(s)
  <2>1. pc[s] = "write" /\ ~Guarding(r)  BY <1>5 DEF Write, Guarding, GuardsAlone
  <2> QED  BY <1>1, <2>1 DEF Guarding, Fresh
<1> QED
  BY <1>3, <1>4, <1>5 DEF Step, Call, ReadTarget, ReadCounts, ReadTenure, Archive, Touch, Abort,
     memberVars

\* What a request reads in its guard, it has right at that moment.
LEMMA OwnFresh ==
    ASSUME IInv, NEW r \in Requests, Fresh(r), Step(r) \/ (\E j \in Jobs : Call(r, j))
    PROVE  Fresh(r)'
<1> USE DEF IInv, TypeOK
<1>1. ASSUME NEW label \in PCs, pc' = [pc EXCEPT ![r] = label],
             label \notin {"count", "tenure", "write"}
      PROVE  Fresh(r)'
  BY <1>1 DEF Fresh, Guarding
<1>2. ASSUME NEW res, Return(r, res) PROVE Fresh(r)'
  BY <1>1, <1>2 DEF Return, PCs
<1>3. CASE \E j \in Jobs : Call(r, j)  BY <1>1, <1>3 DEF Call, PCs
<1>4. CASE CreateTx(r) \/ Touch(r) \/ Abort(r)  BY <1>2, <1>4 DEF CreateTx, Touch, Abort, Answer
<1>5. CASE Archive(r)  BY <1>1, <1>5 DEF Archive, Goto, PCs
<1>6. CASE Write(r)
  <2>1. (IF job[r].op = "revoke" THEN "archive" ELSE "touch") \in PCs \ {"count", "tenure", "write"}
    BY DEF PCs
  <2> QED  BY <1>1, <1>2, <1>6, <2>1 DEF Write, Goto, Answer
<1>7. CASE ReadTarget(r) /\ ~Return(r, "error")
  <2>1. /\ seen'[r].status = memberStatus[job[r].user] /\ seen'[r].roles = memberRoles[job[r].user]
        /\ pc'[r] = "count" /\ job' = job /\ UNCHANGED memberVars
    BY <1>7 DEF ReadTarget, Goto, Seen
  <2> QED  BY <2>1 DEF Fresh, Guarding, memberVars
<1>8. CASE ReadCounts(r) /\ ~Return(r, "error")
  <2>1. /\ seen'[r].leads = Cardinality(ActiveLeads) /\ seen'[r].managers = Cardinality(ActiveManagers)
        /\ seen'[r].status = seen[r].status /\ seen'[r].roles = seen[r].roles
        /\ job' = job /\ UNCHANGED memberVars /\ pc[r] = "count"
    BY <1>8 DEF ReadCounts, Goto, Seen
  <2>2. ActiveLeads' = ActiveLeads /\ ActiveManagers' = ActiveManagers
    BY <2>1 DEF memberVars, ActiveLeads, ActiveManagers, ActiveWith
  <2>3. Cardinality(ActiveLeads) \in Nat /\ Cardinality(ActiveManagers) \in Nat
    BY ActiveFinite DEF ActiveLeads, ActiveManagers
  <2> QED  BY <2>1, <2>2, <2>3 DEF Fresh, Guarding, memberVars
<1>9. CASE ReadTenure(r)
  <2>1. /\ seen'[r].status = seen[r].status /\ seen'[r].roles = seen[r].roles
        /\ seen'[r].leads = seen[r].leads /\ seen'[r].managers = seen[r].managers
        /\ job' = job /\ UNCHANGED memberVars /\ pc[r] = "tenure"
    BY <1>9 DEF ReadTenure, Goto, Seen
  <2>2. ActiveLeads' = ActiveLeads /\ ActiveManagers' = ActiveManagers
    BY <2>1 DEF memberVars, ActiveLeads, ActiveManagers, ActiveWith
  <2> QED  BY <2>1, <2>2 DEF Fresh, Guarding, memberVars
<1> QED  BY <1>2, <1>3, <1>4, <1>5, <1>6, <1>7, <1>8, <1>9 DEF Step, ReadTarget, ReadCounts

\* So, if no two guards overlap, what every guard has read holds at its write.
LEMMA GuardsFresh ==
    Spec /\ []GuardsAlone => []AllFresh
<1>1. Init => AllFresh  BY DEF Init, AllFresh, Fresh, Guarding
<1>2. ASSUME IInv, GuardsAlone, AllFresh, [Next]_vars PROVE AllFresh'
  <2>1. CASE UNCHANGED vars
    BY <1>2, <2>1 DEF vars, AllFresh, Fresh, Guarding, ActiveLeads, ActiveManagers, ActiveWith
  <2>2. CASE Next
    <3>1. PICK s \in Requests : Step(s) \/ (\E j \in Jobs : Call(s, j))  BY <2>2 DEF Next
    <3> QED  BY <1>2, <3>1, OthersFresh, OwnFresh DEF AllFresh
  <2> QED  BY <1>2, <2>1, <2>2
<1>3. IInv /\ GuardsAlone /\ AllFresh /\ [Next]_vars => AllFresh'  BY <1>2
<1> QED  BY MembershipInvariant, <1>1, <1>3, PTL DEF Spec

\* "Der letzte aktive Fansub-Lead kann nicht entfernt oder deaktiviert werden":
\* it cannot, if no two requests are in their guards at the same time.  The
\* missing serialization is all that is wrong with ensureMemberMutationAllowed.
THEOREM LastLeadKeptAlone == Spec /\ []GuardsAlone => LastLeadKept
<1> DEFINE Race == ActiveLeads # {} /\ ActiveLeads' = {}
                   => \E r \in Requests :
                         pc[r] = "write" /\ ~StillAsSeen(r, seen[r].leads, ActiveLeads)
<1>1. AllFresh /\ [Race]_vars => [ActiveLeads # {} => ActiveLeads' # {}]_vars
  BY DEF AllFresh, Fresh, Guarding, StillAsSeen
<1> QED  BY GuardsFresh, LeadLostOnlyToRaceHolds, <1>1, PTL DEF LeadLostOnlyToRace, LastLeadKept

\* The same for the last active member who may manage the others, which the
\* code refuses as last_active_manager.
THEOREM LastManagerKeptAlone ==
    Spec /\ []GuardsAlone => [][ActiveManagers # {} => ActiveManagers' # {}]_vars
<1> DEFINE Race == ActiveManagers # {} /\ ActiveManagers' = {}
                   => \E r \in Requests :
                         pc[r] = "write" /\ ~StillAsSeen(r, seen[r].managers, ActiveManagers)
<1>1. AllFresh /\ [Race]_vars => [ActiveManagers # {} => ActiveManagers' # {}]_vars
  BY DEF AllFresh, Fresh, Guarding, StillAsSeen
<1> QED  BY GuardsFresh, ManagerLostOnlyToRaceHolds, <1>1, PTL DEF ManagerLostOnlyToRace
-----------------------------------------------------------------------------
(***************************************************************************)
(* The archive of ended roles                                              *)
(***************************************************************************)

\* "SetRole(Enable=false) mit hist-Member-Link → INSERT in
\* hist_group_member_roles": no run of the program ever gets a row past the
\* CHECK on its status, so every ended tenure of every member is lost.
THEOREM NothingArchived == Spec => [](\A u \in Users : histRoles[u] = {})
<1> DEFINE Nothing == \A u \in Users : histRoles[u] = {}
<1>1. Init => Nothing  BY DEF Init
<1>2. ArchiveStatus \notin HistRoleStatuses  BY DEF ArchiveStatus, HistRoleStatuses
<1>3. ASSUME [Next]_vars  PROVE UNCHANGED histRoles
  <2>1. ASSUME NEW r \in Requests, Archive(r)  PROVE UNCHANGED histRoles
    BY <1>2, <2>1 DEF Archive
  <2>2. ASSUME NEW r \in Requests, Step(r)  PROVE UNCHANGED histRoles
    BY <2>1, <2>2 DEF Step, ReadTarget, ReadCounts, ReadTenure, Write, Touch, CreateTx, Abort,
       memberVars
  <2> QED  BY <1>3, <2>2 DEF Next, Call, memberVars, vars
<1>4. Nothing /\ [Next]_vars => Nothing'  BY <1>3
<1> QED  BY <1>1, <1>4, PTL DEF Spec
=============================================================================
