------------------------ MODULE GroupInvitationsProofs ------------------------
(***************************************************************************)
(* Proofs about GroupInvitations: types and row locks, and that an         *)
(* invitation is settled once, for any number of users, invitations and    *)
(* requests.                                                               *)
(***************************************************************************)
EXTENDS GroupInvitations, GroupMembershipProofs

AcceptErrands == [op : {"accept"}, inv : Invitations, user : Users]
InviteErrands == [op : {"invite"}, email : Emails, roles : InviteRoles]
MailErrands == [op : {"mail"}, inv : Invitations]
AcceptLabels == {"lock"} \cup AcceptSteps
MakeLabels == {"purge", "vacancy", "insert"}
MailLabels == {"mail", "undo", "undoGone"}
Labels == {"idle"} \cup AcceptLabels \cup MakeLabels \cup MailLabels

\* A request serves the errand its label belongs to.
ErrandFits(s) ==
    /\ at[s] \in AcceptLabels => errand[s] \in AcceptErrands
    /\ at[s] \in MakeLabels => errand[s] \in InviteErrands
    /\ at[s] \in MailLabels => errand[s] \in MailErrands

\* An acceptance past its row lock holds exactly its row, which is open and
\* made out to the acceptor's address.
LockFits(s) ==
    /\ \A i \in Invitations : holder[i] = s <=> Accepting(s) /\ errand[s].inv = i
    /\ Accepting(s) => LET row == inv[errand[s].inv] IN
                       row.status = "pending" /\ row.email = EmailOf[errand[s].user]

InvTypes ==
    /\ inv \in [Invitations -> Invitation]
    /\ expired \in [Invitations -> SUBSET Clocks]
    /\ holder \in [Invitations -> Requests \cup {Nobody}]
    /\ errand \in [Requests -> Errands \cup {Nobody}]
    /\ at \in [Requests -> Labels]
    /\ todo \in [Requests -> SUBSET Roles]

\* Roles the invitation offers that are neither granted yet nor planned.
Missing(s) == inv[errand[s].inv].roles \ (held[s] \cup todo[s])

\* The nested membership call of an acceptance grants what is missing, and
\* once it has returned ok nothing is.
Granting(s) ==
    /\ at[s] = "nested" =>
          /\ pc[s] # "idle" => job[s].op \in {"create", "activate", "grant"}
                               /\ job[s].user = errand[s].user
          /\ pc[s] \in {"create", "guard", "count", "write"} => Missing(s) \subseteq job[s].roles
          /\ pc[s] \in {"tenure", "archive"} => FALSE
          /\ pc[s] = "touch" => Missing(s) = {}
          /\ pc[s] = "idle" /\ result[s] = "ok" => Missing(s) = {}
    /\ at[s] = "commit" => inv[errand[s].inv].roles \subseteq held[s]

\* The part of the invariant that does not speak of the history variable.
Core == InvTypes /\ \A s \in Requests : ErrandFits(s) /\ LockFits(s)

InvIInv ==
    /\ IInv /\ Core
    /\ held \in [Requests -> SUBSET Roles]
    /\ \A s \in Requests : Granting(s)

-----------------------------------------------------------------------------
\* The empty tables satisfy the invariant.
LEMMA InvInitIInv == InvInit => InvIInv
<1> SUFFICES ASSUME InvInit PROVE InvIInv
  OBVIOUS
<1>1. IInv  BY InitIInv DEF InvInit
<1>2. InvTypes
  BY DEF InvInit, InvTypes, NoInvitation, Invitation, Labels
<1>3. ASSUME NEW s \in Requests PROVE ErrandFits(s) /\ LockFits(s)
  BY <1>3, NobodyAssumption
  DEF InvInit, ErrandFits, LockFits, Accepting, AcceptLabels, AcceptSteps, MakeLabels, MailLabels
<1>4. held \in [Requests -> SUBSET Roles] /\ \A s \in Requests : Granting(s)
  BY DEF InvInit, Granting
<1> QED  BY <1>1, <1>2, <1>3, <1>4 DEF InvIInv, Core

\* Rows locked by a request other than s are left as they are.
RowsKept(s) == \A i \in Invitations : holder[i] \in Requests \ {s} => inv'[i] = inv[i]

\* A request that answers, whatever it had got to, keeps the core.
LEMMA FinishCore ==
    ASSUME Core, NEW s \in Requests, Finish(s), RowsKept(s),
           inv' \in [Invitations -> Invitation], expired' \in [Invitations -> SUBSET Clocks]
    PROVE  Core'
<1> USE DEF Core, InvTypes, Finish
<1>1. InvTypes'  BY DEF Labels
<1>2. ASSUME NEW q \in Requests, q # s PROVE ErrandFits(q)' /\ LockFits(q)'
  <2>1. at'[q] = at[q] /\ errand'[q] = errand[q]  BY <1>2
  <2>2. \A i \in Invitations : holder'[i] = q <=> holder[i] = q  BY <1>2, NobodyAssumption
  <2>3. Accepting(q) => errand[q].inv \in Invitations
    BY DEF Accepting, ErrandFits, AcceptErrands, AcceptLabels
  <2>4. Accepting(q) => inv'[errand[q].inv] = inv[errand[q].inv]
    BY <1>2, <2>3 DEF LockFits, RowsKept
  <2> QED  BY <2>1, <2>2, <2>4 DEF ErrandFits, LockFits, Accepting
<1>3. ErrandFits(s)' /\ LockFits(s)'
  <2>1. at'[s] = "idle"  OBVIOUS
  <2>2. \A i \in Invitations : holder'[i] # s  BY NobodyAssumption
  <2> QED  BY <2>1, <2>2 DEF ErrandFits, LockFits, Accepting, AcceptLabels, AcceptSteps, MakeLabels, MailLabels
<1> QED  BY <1>1, <1>2, <1>3

\* A request that goes on with a step of the same kind keeps the core.
LEMMA ProceedCore ==
    ASSUME Core, NEW s \in Requests, NEW label, Proceed(s, label),
           \/ at[s] \in AcceptSteps /\ label \in AcceptSteps
           \/ at[s] \in MakeLabels /\ label \in MakeLabels
           \/ at[s] \in MailLabels /\ label \in MailLabels,
           holder' = holder, todo' \in [Requests -> SUBSET Roles],
           \A i \in Invitations : holder[i] \in Requests => inv'[i] = inv[i],
           inv' \in [Invitations -> Invitation], expired' \in [Invitations -> SUBSET Clocks]
    PROVE  Core'
<1> USE DEF Core, InvTypes, Proceed
<1>1. label \in Labels  BY DEF Labels, AcceptLabels
<1>2. InvTypes'  BY <1>1
<1>3. ASSUME NEW q \in Requests PROVE ErrandFits(q)' /\ LockFits(q)'
  <2>1. q # s => at'[q] = at[q]  OBVIOUS
  <2>2. at'[s] = label /\ errand' = errand  OBVIOUS
  <2>3. Accepting(q)' <=> Accepting(q)
    BY <2>1, <2>2 DEF Accepting, AcceptSteps, MakeLabels, MailLabels
  <2>4. Accepting(q) => errand[q].inv \in Invitations
    BY DEF Accepting, ErrandFits, AcceptErrands, AcceptLabels
  <2>5. Accepting(q) => inv'[errand[q].inv] = inv[errand[q].inv]  BY <2>4 DEF LockFits
  <2>6. LockFits(q)'  BY <2>2, <2>3, <2>5 DEF LockFits
  <2>7. ErrandFits(q)'
    BY <2>1, <2>2 DEF ErrandFits, AcceptLabels, AcceptSteps, MakeLabels, MailLabels
  <2> QED  BY <2>6, <2>7
<1> QED  BY <1>2, <1>3

\* So does a step that leaves the requests and the locks alone.
LEMMA RowsCore ==
    ASSUME Core, UNCHANGED <<holder, errandVars>>,
           \A i \in Invitations : holder[i] \in Requests => inv'[i] = inv[i],
           inv' \in [Invitations -> Invitation], expired' \in [Invitations -> SUBSET Clocks]
    PROVE  Core'
<1> USE DEF Core, InvTypes, errandVars
<1>1. InvTypes'  OBVIOUS
<1>2. ASSUME NEW q \in Requests PROVE ErrandFits(q)' /\ LockFits(q)'
  <2>1. Accepting(q) => errand[q].inv \in Invitations
    BY DEF Accepting, ErrandFits, AcceptErrands, AcceptLabels
  <2>2. Accepting(q) => inv'[errand[q].inv] = inv[errand[q].inv]  BY <2>1 DEF LockFits
  <2> QED  BY <2>2 DEF ErrandFits, LockFits, Accepting
<1> QED  BY <1>1, <1>2
\* The row lock is taken when it is free and the row is acceptable.
LEMMA LockCore ==
    ASSUME Core, NEW s \in Requests, LockInvitation(s)
    PROVE  Core'
<1> DEFINE i == errand[s].inv
<1> USE DEF Core, InvTypes
<1>1. i \in Invitations /\ errand[s] \in AcceptErrands
  BY DEF LockInvitation, ErrandFits, AcceptLabels, AcceptErrands
<1>2. CASE Finish(s)  BY <1>2, FinishCore DEF LockInvitation, RowsKept
<1>3. CASE /\ holder[i] = Nobody /\ Acceptable(i, errand[s].user)
           /\ holder' = [holder EXCEPT ![i] = s] /\ Proceed(s, "member") /\ UNCHANGED todo
  <2>0. inv' = inv /\ expired' = expired /\ at[s] = "lock"  BY DEF LockInvitation
  <2>1. InvTypes'  BY <1>1, <1>3, <2>0 DEF Proceed, Labels, AcceptLabels, AcceptSteps
  <2>2. ASSUME NEW q \in Requests, q # s PROVE ErrandFits(q)' /\ LockFits(q)'
    <3>1. at'[q] = at[q] /\ errand' = errand  BY <1>3, <2>2 DEF Proceed
    <3>2. \A k \in Invitations : holder'[k] = q <=> holder[k] = q
      BY <1>1, <1>3, <2>2, NobodyAssumption
    <3> QED  BY <2>0, <3>1, <3>2 DEF ErrandFits, LockFits, Accepting
  <2>3. at'[s] = "member" /\ errand' = errand  BY <1>3 DEF Proceed
  <2>4. ErrandFits(s)'
    BY <1>1, <2>3 DEF ErrandFits, AcceptLabels, AcceptSteps, MakeLabels, MailLabels
  <2>5. \A k \in Invitations : holder[k] # s
    BY <2>0 DEF LockFits, Accepting, AcceptSteps
  <2>6. \A k \in Invitations : holder'[k] = s <=> k = i  BY <1>1, <1>3, <2>5
  <2>7. LockFits(s)'  BY <1>3, <2>0, <2>3, <2>6 DEF LockFits, Accepting, AcceptSteps, Acceptable
  <2> QED  BY <2>1, <2>2, <2>4, <2>7
<1> QED  BY <1>2, <1>3 DEF LockInvitation

\* A new invitation takes a row no acceptance can have locked, and the
\* request that made it goes on to mail it.
LEMMA InsertCore ==
    ASSUME Core, NEW s \in Requests, Insert(s)
    PROVE  Core'
<1> USE DEF Core, InvTypes
<1>1. CASE Finish(s) /\ UNCHANGED inv  BY <1>1, FinishCore DEF Insert, RowsKept
<1>2. CASE /\ at[s] = "insert" /\ UNCHANGED <<todo, holder, expired>>
           /\ \E i \in Invitations :
                 /\ inv[i].status = "none"
                 /\ inv' = [inv EXCEPT ![i] = [status |-> "pending", email |-> errand[s].email,
                                               roles |-> errand[s].roles, by |-> Nobody]]
                 /\ errand' = [errand EXCEPT ![s] = [op |-> "mail", inv |-> i]]
           /\ at' = [at EXCEPT ![s] = "mail"]
  <2>1. PICK i \in Invitations :
           /\ inv[i].status = "none"
           /\ inv' = [inv EXCEPT ![i] = [status |-> "pending", email |-> errand[s].email,
                                         roles |-> errand[s].roles, by |-> Nobody]]
           /\ errand' = [errand EXCEPT ![s] = [op |-> "mail", inv |-> i]]
    BY <1>2
  <2>2. errand[s].email \in Emails /\ errand[s].roles \in SUBSET Roles
    BY <1>2, InviteAssumption DEF ErrandFits, MakeLabels, InviteErrands
  <2>3. inv' \in [Invitations -> Invitation]  BY <2>1, <2>2 DEF Invitation
  <2>4. InvTypes'
    BY <1>2, <2>1, <2>3 DEF Labels, MailLabels, Errands
  <2>5. ASSUME NEW q \in Requests, q # s PROVE ErrandFits(q)' /\ LockFits(q)'
    <3>1. at'[q] = at[q] /\ errand'[q] = errand[q] /\ holder' = holder  BY <1>2, <2>1, <2>5
    <3>2. Accepting(q) => errand[q].inv \in Invitations
      BY DEF Accepting, ErrandFits, AcceptErrands, AcceptLabels
    <3>3. Accepting(q) => inv'[errand[q].inv] = inv[errand[q].inv]
      BY <2>1, <3>2 DEF LockFits
    <3> QED  BY <3>1, <3>3 DEF ErrandFits, LockFits, Accepting
  <2>6. at'[s] = "mail" /\ errand'[s] \in MailErrands  BY <1>2, <2>1 DEF MailErrands
  <2>7. \A k \in Invitations : holder'[k] # s
    BY <1>2 DEF LockFits, Accepting, AcceptSteps
  <2>8. ErrandFits(s)' /\ LockFits(s)'
    BY <2>6, <2>7 DEF ErrandFits, LockFits, Accepting, AcceptLabels, AcceptSteps, MakeLabels, MailLabels
  <2> QED  BY <2>4, <2>5, <2>8
<1> QED  BY <1>1, <1>2 DEF Insert

\* An idle request takes up an errand: nothing is locked yet.
LEMMA BeginCore ==
    ASSUME Core, NEW s \in Requests, NEW e \in Errands, Begin(s, e)
    PROVE  Core'
<1> USE DEF Core, InvTypes, Begin, invVars
<1>1. (e \in AcceptErrands /\ e.op = "accept") \/ (e \in InviteErrands /\ e.op = "invite")
  <2>0. e.op # "mail"  OBVIOUS
  <2>1. e \in AcceptErrands \cup InviteErrands \cup MailErrands
    BY DEF Errands, AcceptErrands, InviteErrands, MailErrands
  <2>2. e \in MailErrands => e.op = "mail"  BY DEF MailErrands
  <2>3. e \in AcceptErrands => e.op = "accept"  BY DEF AcceptErrands
  <2>4. e \in InviteErrands => e.op = "invite"  BY DEF InviteErrands
  <2> QED  BY <2>0, <2>1, <2>2, <2>3, <2>4
<1>2. at'[s] = (IF e.op = "accept" THEN "lock" ELSE "purge") /\ errand'[s] = e  OBVIOUS
<1>3. InvTypes'  BY DEF Labels, AcceptLabels, MakeLabels
<1>4. ASSUME NEW q \in Requests, q # s PROVE ErrandFits(q)' /\ LockFits(q)'
  <2>1. at'[q] = at[q] /\ errand'[q] = errand[q]  BY <1>4
  <2> QED  BY <2>1 DEF ErrandFits, LockFits, Accepting
<1>5. \A k \in Invitations : holder'[k] # s  BY DEF LockFits, Accepting, AcceptSteps
<1>6. ErrandFits(s)'
  BY <1>1, <1>2 DEF ErrandFits, AcceptLabels, AcceptSteps, MakeLabels, MailLabels
<1>7. LockFits(s)'  BY <1>2, <1>5 DEF LockFits, Accepting, AcceptSteps
<1> QED  BY <1>3, <1>4, <1>6, <1>7

-----------------------------------------------------------------------------
(***************************************************************************)
(* How a step can change the invitation rows                               *)
(***************************************************************************)

Opened(i, e, R) ==
    /\ inv[i].status = "none" /\ OpenFor(e) = {}
    /\ inv' = [inv EXCEPT ![i] = [status |-> "pending", email |-> e, roles |-> R, by |-> Nobody]]

Taken(i, u) ==
    /\ inv[i].status = "pending" /\ inv[i].email = EmailOf[u]
    /\ inv' = [inv EXCEPT ![i].status = "accepted", ![i].by = u]

Withdrawn(i) ==
    /\ inv[i].status = "pending"
    /\ inv' = [inv EXCEPT ![i].status = "cancelled"]

Lapsed ==
    inv' = [i \in Invitations |->
              IF i \in Overdue THEN [inv[i] EXCEPT !.status = "expired"] ELSE inv[i]]

RowsStep ==
    \/ inv' = inv
    \/ \E i \in Invitations, e \in Emails, R \in SUBSET Roles : Opened(i, e, R)
    \/ \E i \in Invitations, u \in Users : Taken(i, u)
    \/ \E i \in Invitations : Withdrawn(i)
    \/ Lapsed

\* Withdrawing and lapsing keep the types and the rows under a lock.
LEMMA FreeRows ==
    ASSUME Core
    PROVE  /\ ExpirePending =>
                /\ inv' \in [Invitations -> Invitation]
                /\ \A k \in Invitations : holder[k] \in Requests => inv'[k] = inv[k]
           /\ \A i \in Invitations : CancelRow(i) =>
                /\ inv' \in [Invitations -> Invitation]
                /\ \A k \in Invitations : holder[k] \in Requests => inv'[k] = inv[k]
                /\ inv' = inv \/ Withdrawn(i)
<1>0. inv \in [Invitations -> Invitation]
  BY DEF Core, InvTypes
<1>1. ASSUME ExpirePending
      PROVE  /\ inv' \in [Invitations -> Invitation]
             /\ \A k \in Invitations : holder[k] \in Requests => inv'[k] = inv[k]
  <2>1. inv' = [i \in Invitations |->
                  IF i \in Overdue THEN [inv[i] EXCEPT !.status = "expired"] ELSE inv[i]]
    BY <1>1 DEF ExpirePending
  <2>2. \A i \in Invitations : [inv[i] EXCEPT !.status = "expired"] \in Invitation
    BY <1>0 DEF Invitation, Terminal
  <2>3. \A i \in Overdue : holder[i] \notin Requests
    BY <1>1, NobodyAssumption DEF ExpirePending
  <2>4. inv' \in [Invitations -> Invitation]
    BY <1>0, <2>1, <2>2
  <2>5. \A k \in Invitations : holder[k] \in Requests => inv'[k] = inv[k]
    BY <2>1, <2>3
  <2> QED  BY <2>4, <2>5
<1>2. ASSUME NEW i \in Invitations, CancelRow(i)
      PROVE  /\ inv' \in [Invitations -> Invitation]
             /\ \A k \in Invitations : holder[k] \in Requests => inv'[k] = inv[k]
             /\ inv' = inv \/ Withdrawn(i)
  <2>1. holder[i] \notin Requests
    BY <1>2, NobodyAssumption DEF CancelRow
  <2>2. CASE Cancellable(i)
    <3>1. inv' = [inv EXCEPT ![i].status = "cancelled"]
      BY <1>2, <2>2 DEF CancelRow
    <3>2. [inv[i] EXCEPT !.status = "cancelled"] \in Invitation
      BY <1>0 DEF Invitation, Terminal
    <3>3. inv' \in [Invitations -> Invitation]
      BY <1>0, <3>1, <3>2
    <3>4. \A k \in Invitations : k # i => inv'[k] = inv[k]
      BY <1>0, <3>1
    <3>5. Withdrawn(i)
      BY <2>2, <3>1 DEF Cancellable, Withdrawn
    <3> QED  BY <2>1, <3>3, <3>4, <3>5
  <2>3. CASE ~Cancellable(i)
    BY <1>0, <1>2, <2>3 DEF CancelRow
  <2> QED  BY <2>2, <2>3
<1> QED  BY <1>1, <1>2

\* Every step of a request keeps the core.
LEMMA ServeCore ==
    ASSUME IInv, Core, NEW s \in Requests, Serve(s) \/ GiveUp(s)
    PROVE  Core' /\ RowsStep /\ RowsKept(s)
<1> DEFINE Kept == inv' = inv /\ expired' = expired
<1>0. /\ inv \in [Invitations -> Invitation] /\ expired \in [Invitations -> SUBSET Clocks]
      /\ todo \in [Requests -> SUBSET Roles]
  BY DEF Core, InvTypes
<1>a. ASSUME Finish(s), Kept PROVE Core' /\ RowsStep /\ RowsKept(s)
  BY <1>0, <1>a, FinishCore DEF RowsKept, RowsStep
<1>b. ASSUME NEW label, Proceed(s, label), Kept, holder' = holder,
             todo' \in [Requests -> SUBSET Roles],
             \/ at[s] \in AcceptSteps /\ label \in AcceptSteps
             \/ at[s] \in MakeLabels /\ label \in MakeLabels
             \/ at[s] \in MailLabels /\ label \in MailLabels
      PROVE  Core' /\ RowsStep /\ RowsKept(s)
  BY <1>0, <1>b, ProceedCore DEF RowsStep, RowsKept
<1>c. UNCHANGED todo => todo' \in [Requests -> SUBSET Roles]  BY <1>0
<1>d. at[s] \in AcceptLabels =>
        errand[s].inv \in Invitations /\ errand[s].user \in Users
  BY DEF Core, ErrandFits, AcceptErrands
<1>1. CASE LockInvitation(s)  BY <1>1, LockCore DEF LockInvitation, RowsStep, RowsKept
<1>2. CASE CheckMember(s)
  BY <1>2, <1>a, <1>b, <1>c DEF CheckMember, AcceptSteps
<1>3. CASE Inspect(s)
  <2>1. CASE Finish(s)  BY <1>3, <2>1, <1>a DEF Inspect
  <2>2. CASE Proceed(s, "nested") /\ UNCHANGED <<todo, holder>>
    BY <1>3, <2>2, <1>b, <1>c DEF Inspect, AcceptSteps
  <2>3. CASE Proceed(s, "nested") /\ UNCHANGED holder
             /\ todo' = [todo EXCEPT ![s] = inv[errand[s].inv].roles \ memberRoles[errand[s].user]]
    <3>1. at[s] = "inspect" /\ Kept  BY <1>3 DEF Inspect
    <3>2. inv[errand[s].inv].roles \in SUBSET Roles
      BY <3>1, <1>0, <1>d DEF Invitation, AcceptLabels, AcceptSteps
    <3>3. todo' \in [Requests -> SUBSET Roles]  BY <2>3, <3>2, <1>0
    <3> QED  BY <2>3, <3>1, <3>3, <1>b DEF AcceptSteps
  <2> QED  BY <1>3, <2>1, <2>2, <2>3 DEF Inspect
<1>4. CASE NestedDone(s)
  <2>1. CASE Finish(s)  BY <1>4, <2>1, <1>a DEF NestedDone
  <2>2. CASE Proceed(s, "commit") /\ UNCHANGED <<todo, holder>>
    BY <1>4, <2>2, <1>b, <1>c DEF NestedDone, AcceptSteps
  <2>3. CASE /\ UNCHANGED <<at, errand, holder>>
             /\ \E role \in todo[s] : todo' = [todo EXCEPT ![s] = @ \ {role}]
    <3>1. at[s] = "nested" /\ Kept  BY <1>4 DEF NestedDone
    <3>2. todo' \in [Requests -> SUBSET Roles]  BY <2>3, <1>0
    <3>3. Proceed(s, "nested")  BY <2>3, <3>1 DEF Core, InvTypes, Proceed
    <3> QED  BY <2>3, <3>1, <3>2, <3>3, <1>b DEF AcceptSteps
  <2> QED  BY <1>4, <2>1, <2>2, <2>3 DEF NestedDone
<1>5. CASE CommitAccept(s)
  <2> DEFINE i == errand[s].inv
             u == errand[s].user
  <2>1. i \in Invitations /\ u \in Users
    BY <1>5, <1>d DEF CommitAccept, AcceptLabels, AcceptSteps
  <2>2. holder[i] = s /\ inv[i].status = "pending" /\ inv[i].email = EmailOf[u]
    BY <1>5, <2>1 DEF CommitAccept, Core, LockFits, Accepting, AcceptSteps
  <2>3. inv' \in [Invitations -> Invitation]
    BY <1>5, <2>1, <1>0 DEF CommitAccept, Invitation, Terminal
  <2>4. RowsKept(s)  BY <1>5, <2>2, <1>0 DEF CommitAccept, RowsKept
  <2>5. Core'  BY <1>5, <2>3, <2>4, <1>0, FinishCore DEF CommitAccept
  <2>6. Taken(i, u)  BY <1>5, <2>2 DEF CommitAccept, Taken
  <2> QED  BY <2>1, <2>4, <2>5, <2>6 DEF RowsStep
<1>6. CASE Purge(s)
  BY <1>6, <1>0, <1>c, FreeRows, ProceedCore DEF Purge, MakeLabels, RowsStep, RowsKept, Lapsed, ExpirePending
<1>7. CASE CheckVacancy(s)
  BY <1>7, <1>a, <1>b, <1>c DEF CheckVacancy, MakeLabels
<1>8. CASE Insert(s)
  <2>1. Core'  BY <1>8, InsertCore
  <2>2. errand[s].email \in Emails /\ errand[s].roles \in SUBSET Roles
    BY <1>8, InviteAssumption DEF Insert, Core, ErrandFits, MakeLabels, InviteErrands
  <2>3. RowsKept(s)
    <3>1. ASSUME NEW k \in Invitations, holder[k] \in Requests \ {s} PROVE inv[k].status = "pending"
      BY <3>1 DEF Core, LockFits
    <3> QED  BY <1>8, <3>1, <1>0 DEF Insert, RowsKept
  <2> QED  BY <1>8, <2>1, <2>2, <2>3 DEF Insert, RowsStep, Opened
<1>9. CASE SendMail(s)
  BY <1>9, <1>a, <1>b, <1>c DEF SendMail, MailLabels
<1>10. CASE UndoInvite(s)
  <2>1. errand[s].inv \in Invitations
    BY <1>10 DEF UndoInvite, Core, ErrandFits, MailLabels, MailErrands
  <2>2. RowsKept(s) /\ inv' \in [Invitations -> Invitation] /\ RowsStep
    BY <1>10, <2>1, FreeRows DEF UndoInvite, RowsKept, RowsStep
  <2> QED  BY <1>10, <2>2, <1>0, FinishCore DEF UndoInvite
<1>11. CASE UndoInviteGone(s)  BY <1>11, <1>a DEF UndoInviteGone
<1>12. CASE GiveUp(s)  BY <1>12, <1>a DEF GiveUp
<1> QED
  BY <1>1, <1>2, <1>3, <1>4, <1>5, <1>6, <1>7, <1>8, <1>9, <1>10, <1>11, <1>12 DEF Serve

-----------------------------------------------------------------------------
(***************************************************************************)
(* The two layers together                                                 *)
(***************************************************************************)

\* All that one request can do.
Turn(s) ==
    \/ \E e \in Errands : Begin(s, e)
    \/ Serve(s)
    \/ GiveUp(s)
    \/ MembershipStep(s)

\* The other requests, and what they wait for, stay as they are.
OthersKept(s) ==
    \A q \in Requests \ {s} :
        /\ at'[q] = at[q] /\ errand'[q] = errand[q] /\ todo'[q] = todo[q]
        /\ pc'[q] = pc[q] /\ job'[q] = job[q] /\ result'[q] = result[q]

\* What the invitation handlers do to the membership tables is a membership call.
LEMMA ServeCalls ==
    ASSUME IInv, Core, NEW s \in Requests, Serve(s) \/ GiveUp(s)
    PROVE  UNCHANGED vars \/ \E j \in Jobs : Call(s, j)
<1>0. at[s] \in AcceptSteps => /\ errand[s].user \in Users
                              /\ inv[errand[s].inv].roles \in SUBSET Roles
  BY DEF Core, InvTypes, ErrandFits, AcceptErrands, AcceptLabels, Invitation
<1>1. CASE Inspect(s)
  <2> DEFINE u == errand[s].user
             roles == inv[errand[s].inv].roles
  <2>1. u \in Users /\ roles \in SUBSET Roles  BY <1>0, <1>1 DEF Inspect, AcceptSteps
  <2>2. /\ [op |-> "create", user |-> u, roles |-> roles] \in Jobs
        /\ [op |-> "activate", user |-> u, roles |-> {}] \in Jobs
    BY <2>1 DEF Jobs
  <2> QED  BY <1>1, <2>2 DEF Inspect
<1>2. CASE NestedDone(s)
  <2>1. errand[s].user \in Users  BY <1>0, <1>2 DEF NestedDone, AcceptSteps
  <2>2. todo[s] \subseteq Roles  BY DEF Core, InvTypes
  <2>3. \A role \in todo[s] :
           [op |-> "grant", user |-> errand[s].user, roles |-> {role}] \in Jobs
    BY <2>1, <2>2 DEF Jobs
  <2> QED  BY <1>2, <2>3 DEF NestedDone
<1>3. CASE ~Inspect(s) /\ ~NestedDone(s)
  BY <1>3 DEF Serve, GiveUp, LockInvitation, CheckMember, CommitAccept, Purge, CheckVacancy,
              Insert, SendMail, UndoInvite, UndoInviteGone
<1> QED  BY <1>1, <1>2, <1>3

\* A membership call moves only the request that makes it.
LEMMA MembershipOwn ==
    ASSUME IInv, NEW s \in Requests, Step(s) \/ (\E j \in Jobs : Call(s, j)),
           NEW q \in Requests, q # s
    PROVE  pc'[q] = pc[q] /\ job'[q] = job[q] /\ result'[q] = result[q]
<1> USE DEF IInv, TypeOK
<1>1. ASSUME NEW res, Return(s, res)
      PROVE  pc'[q] = pc[q] /\ job'[q] = job[q] /\ result'[q] = result[q]
  BY <1>1 DEF Return
<1>2. ASSUME NEW label, Goto(s, label)
      PROVE  pc'[q] = pc[q] /\ job'[q] = job[q] /\ result'[q] = result[q]
  BY <1>2 DEF Goto
<1>3. CASE \E j \in Jobs : Call(s, j)  BY <1>3 DEF Call
<1>4. CASE CreateTx(s) \/ ReadTarget(s) \/ ReadCounts(s)
  BY <1>1, <1>2, <1>4 DEF CreateTx, ReadTarget, ReadCounts, Answer
<1>5. CASE ReadTenure(s) \/ Write(s) \/ Archive(s) \/ Touch(s) \/ Abort(s)
  BY <1>1, <1>2, <1>5 DEF ReadTenure, Write, Archive, Touch, Abort, Answer
<1> QED  BY <1>3, <1>4, <1>5 DEF Step

\* A turn of one request keeps the invariants of both layers, the rows the
\* others have locked, and the others themselves.
LEMMA TurnKeeps ==
    ASSUME IInv, Core, NEW s \in Requests, Turn(s)
    PROVE  IInv' /\ Core' /\ RowsStep /\ RowsKept(s) /\ OthersKept(s)
<1>0. ASSUME UNCHANGED vars PROVE IInv' /\ pc' = pc /\ job' = job /\ result' = result
  BY <1>0, StutterIInv DEF vars
<1>1. CASE \E e \in Errands : Begin(s, e)
  <2>1. PICK e \in Errands : Begin(s, e)  BY <1>1
  <2>2. Core'  BY <2>1, BeginCore
  <2>3. inv' = inv /\ todo' = todo /\ UNCHANGED vars  BY <2>1 DEF Begin, invVars
  <2>4. OthersKept(s)  BY <2>1, <2>3, <1>0 DEF Begin, OthersKept, Core, InvTypes
  <2> QED  BY <2>2, <2>3, <2>4, <1>0 DEF RowsStep, RowsKept
<1>2. CASE Serve(s) \/ GiveUp(s)
  <2>1. Core' /\ RowsStep /\ RowsKept(s)  BY <1>2, ServeCore
  <2>2. UNCHANGED vars \/ \E j \in Jobs : Call(s, j)  BY <1>2, ServeCalls
  <2>3. IInv'  BY <2>2, <1>0, CallIInv
  <2>4. ASSUME NEW q \in Requests, q # s
        PROVE  at'[q] = at[q] /\ errand'[q] = errand[q] /\ todo'[q] = todo[q]
    <3>1. ASSUME Finish(s) PROVE at'[q] = at[q] /\ errand'[q] = errand[q] /\ todo'[q] = todo[q]
      BY <2>4, <3>1 DEF Finish, Core, InvTypes
    <3>2. ASSUME NEW label, Proceed(s, label) PROVE at'[q] = at[q] /\ errand'[q] = errand[q]
      BY <2>4, <3>2 DEF Proceed, Core, InvTypes
    <3>3. CASE LockInvitation(s) \/ CheckMember(s) \/ CommitAccept(s) \/ Purge(s)
               \/ CheckVacancy(s)
      BY <3>1, <3>2, <3>3 DEF LockInvitation, CheckMember, CommitAccept, Purge, CheckVacancy
    <3>4. CASE Inspect(s)  BY <2>4, <3>1, <3>2, <3>4 DEF Inspect, Core, InvTypes
    <3>5. CASE NestedDone(s)  BY <2>4, <3>1, <3>2, <3>5 DEF NestedDone, Core, InvTypes
    <3>6. CASE Insert(s)  BY <2>4, <3>1, <3>6 DEF Insert, Core, InvTypes
    <3>7. CASE SendMail(s) \/ UndoInvite(s) \/ UndoInviteGone(s) \/ GiveUp(s)
      BY <3>1, <3>2, <3>7 DEF SendMail, UndoInvite, UndoInviteGone, GiveUp
    <3> QED  BY <1>2, <3>3, <3>4, <3>5, <3>6, <3>7 DEF Serve
  <2>5. OthersKept(s)  BY <2>2, <2>4, <1>0, MembershipOwn DEF OthersKept
  <2> QED  BY <2>1, <2>3, <2>5
<1>3. CASE MembershipStep(s)
  <2>1. UNCHANGED <<invVars, errandVars>>  BY <1>3 DEF MembershipStep
  <2>2. Step(s) \/ \E j \in Jobs : Call(s, j)
    BY <1>3, AdminAssumption DEF MembershipStep
  <2>3. IInv'  BY <2>2, CallIInv, StepIInv
  <2>4. Core'  BY <2>1, RowsCore DEF invVars, Core, InvTypes
  <2>5. OthersKept(s)  BY <2>1, <2>2, MembershipOwn DEF OthersKept, errandVars
  <2> QED  BY <2>1, <2>3, <2>4, <2>5 DEF RowsStep, RowsKept, invVars
<1> QED  BY <1>1, <1>2, <1>3 DEF Turn

\* The steps no request takes: cancel, list and the passing of time.
Quiet ==
    \/ \E i \in Invitations : Cancel(i) \/ ExpiryPasses(i)
    \/ List

\* They too keep both invariants, and every row under a lock.
LEMMA QuietKeeps ==
    ASSUME IInv, Core, Quiet
    PROVE  /\ IInv' /\ Core' /\ RowsStep
           /\ UNCHANGED <<vars, holder, errandVars>>
           /\ \A k \in Invitations : holder[k] \in Requests => inv'[k] = inv[k]
<1>0. inv \in [Invitations -> Invitation] /\ expired \in [Invitations -> SUBSET Clocks]
  BY DEF Core, InvTypes
<1>1. UNCHANGED <<vars, holder, errandVars>>  BY DEF Quiet, Cancel, ExpiryPasses, List
<1>2. /\ inv' \in [Invitations -> Invitation] /\ RowsStep
      /\ \A k \in Invitations : holder[k] \in Requests => inv'[k] = inv[k]
  BY <1>0, FreeRows DEF Quiet, Cancel, ExpiryPasses, List, RowsStep, Lapsed, ExpirePending
<1>3. expired' \in [Invitations -> SUBSET Clocks]
  BY <1>0 DEF Quiet, Cancel, ExpiryPasses, List
<1>4. Core'  BY <1>1, <1>2, <1>3, RowsCore
<1>5. IInv'  BY <1>1, StutterIInv
<1> QED  BY <1>1, <1>2, <1>4, <1>5

-----------------------------------------------------------------------------
(***************************************************************************)
(* The history variable, and what an acceptance has had granted            *)
(***************************************************************************)

\* Observe adds to the history of a going acceptance what the tables now say.
LEMMA HeldGrows ==
    ASSUME IInv', Core', held \in [Requests -> SUBSET Roles], Observe
    PROVE  /\ held' \in [Requests -> SUBSET Roles]
           /\ \A s \in Requests : Accepting(s) /\ Accepting(s)' =>
                 /\ held[s] \subseteq held'[s]
                 /\ memberRoles'[errand'[s].user] \subseteq held'[s]
<1>1. ASSUME NEW s \in Requests, at'[s] \in AcceptSteps
      PROVE  memberRoles'[errand'[s].user] \in SUBSET Roles
  <2>1. errand'[s].user \in Users
    BY <1>1 DEF Core, ErrandFits, AcceptLabels, AcceptErrands
  <2> QED  BY <2>1 DEF IInv, TypeOK
<1>2. held' \in [Requests -> SUBSET Roles]  BY <1>1 DEF Observe
<1> QED  BY <1>2 DEF Observe, Accepting

\* A request whose acceptance and whose nested call stay as they are keeps
\* what it has.
LEMMA GrantingFrame ==
    ASSUME NEW s \in Requests, Granting(s),
           at'[s] = at[s], errand'[s] = errand[s], todo'[s] = todo[s],
           pc'[s] = pc[s], job'[s] = job[s], result'[s] = result[s],
           Accepting(s) => inv'[errand[s].inv] = inv[errand[s].inv] /\ held[s] \subseteq held'[s]
    PROVE  Granting(s)'
<1>1. at[s] \in {"nested", "commit"} => Accepting(s)  BY DEF Accepting, AcceptSteps
<1>2. at[s] = "nested" => Missing(s)' \subseteq Missing(s)  BY <1>1 DEF Missing
<1> QED  BY <1>1, <1>2 DEF Granting

\* A statement of the nested call: a grant is seen by the history before the
\* call can return ok.
LEMMA NestedGranting ==
    ASSUME IInv, Core, NEW s \in Requests, Granting(s), Step(s), at[s] = "nested",
           UNCHANGED <<invVars, errandVars>>, held[s] \subseteq held'[s],
           memberRoles'[errand[s].user] \subseteq held'[s]
    PROVE  Granting(s)'
<1> DEFINE u == job[s].user
<1>1. pc[s] # "idle"
  BY DEF Step, CreateTx, ReadTarget, ReadCounts, ReadTenure, Write, Archive, Touch, Abort
<1>2. job[s] \in Jobs /\ u \in Users  BY <1>1, NoJobAssumption DEF IInv, TypeOK, Jobs
<1>3. job[s].op \in {"create", "activate", "grant"} /\ u = errand[s].user
  BY <1>1 DEF Granting
<1>4. at'[s] = "nested" /\ errand' = errand /\ inv' = inv /\ todo' = todo
  BY DEF invVars, errandVars
<1>5. Missing(s)' \subseteq Missing(s)  BY <1>4 DEF Missing
<1>a. ASSUME NEW res, Return(s, res), res = "ok" => Missing(s)' = {} PROVE Granting(s)'
  <2>1. pc'[s] = "idle" /\ result'[s] = res  BY <1>a DEF Return, IInv, TypeOK
  <2> QED  BY <2>1, <1>a, <1>4 DEF Granting
<1>b. ASSUME NEW label \in {"count", "write"}, Goto(s, label), pc[s] \in {"guard", "count"}
      PROVE  Granting(s)'
  <2>1. pc'[s] = label /\ job' = job  BY <1>b DEF Goto, IInv, TypeOK
  <2>2. Missing(s) \subseteq job[s].roles  BY <1>b DEF Granting
  <2> QED  BY <2>1, <2>2, <1>3, <1>4, <1>5 DEF Granting
<1>6. CASE CreateTx(s)
  <2>1. CASE Return(s, "error")  BY <2>1, <1>a
  <2>2. CASE memberRoles' = [memberRoles EXCEPT ![u] = job[s].roles] /\ Answer(s)
    <3>1. job[s].roles \subseteq held'[s]  BY <2>2, <1>2, <1>3 DEF IInv, TypeOK
    <3>2. Missing(s) \subseteq job[s].roles  BY <1>6 DEF CreateTx, Granting
    <3>3. Missing(s)' = {}  BY <3>1, <3>2, <1>5 DEF Missing
    <3> QED  BY <2>2, <3>3, <1>a DEF Answer
  <2> QED  BY <1>6, <2>1, <2>2 DEF CreateTx
<1>7. CASE ReadTarget(s)  BY <1>7, <1>a, <1>b DEF ReadTarget
<1>8. CASE ReadCounts(s)
  <2>1. job[s].op # "revoke"  BY <1>3
  <2>2. Return(s, "error") \/ Goto(s, "write")  BY <1>8, <2>1 DEF ReadCounts
  <2>3. pc[s] = "count"  BY <1>8 DEF ReadCounts
  <2> QED  BY <2>2, <2>3, <1>a, <1>b
<1>9. CASE ReadTenure(s) \/ Archive(s)  BY <1>9 DEF ReadTenure, Archive, Granting
<1>10. CASE Write(s)
  <2>1. memberRoles'[u] = NextRoles(job[s], memberRoles[u])
    BY <1>10, <1>2 DEF Write, IInv, TypeOK
  <2>2. Missing(s) \subseteq job[s].roles  BY <1>10 DEF Write, Granting
  <2>3. CASE job[s].op = "grant"
    <3>1. job[s].roles \subseteq held'[s]  BY <2>1, <2>3, <1>3 DEF NextRoles
    <3>2. Missing(s)' = {}  BY <3>1, <2>2, <1>5 DEF Missing
    <3>3. Goto(s, "touch")  BY <1>10, <2>3 DEF Write
    <3>4. pc'[s] = "touch" /\ job' = job  BY <3>3 DEF Goto, IInv, TypeOK
    <3> QED  BY <3>2, <3>4, <1>3, <1>4 DEF Granting
  <2>4. CASE job[s].op = "activate"
    <3>1. job[s].roles = {}  BY <2>4, <1>2 DEF Jobs
    <3>2. Missing(s)' = {}  BY <3>1, <2>2, <1>5
    <3>3. Answer(s)  BY <1>10, <2>4 DEF Write
    <3> QED  BY <3>2, <3>3, <1>a DEF Answer
  <2> QED  BY <1>10, <2>3, <2>4, <1>3 DEF Write
<1>11. CASE Touch(s)
  <2>1. Missing(s)' = {}  BY <1>11, <1>5 DEF Touch, Granting
  <2> QED  BY <1>11, <2>1, <1>a DEF Touch, Answer
<1>12. CASE Abort(s)  BY <1>12, <1>a DEF Abort
<1> QED  BY <1>6, <1>7, <1>8, <1>9, <1>10, <1>11, <1>12 DEF Step

\* The steps that make the membership calls ask them for what is missing.
LEMMA ServeGranting ==
    ASSUME IInv, Core, NEW s \in Requests, Granting(s), Inspect(s) \/ NestedDone(s),
           Accepting(s)' => /\ held[s] \subseteq held'[s]
                            /\ memberRoles'[errand'[s].user] \subseteq held'[s]
    PROVE  Granting(s)'
<1> DEFINE u == errand[s].user
           roles == inv[errand[s].inv].roles
<1>1. inv' = inv /\ u \in Users
  BY DEF Inspect, NestedDone, Core, ErrandFits, AcceptErrands, AcceptLabels, AcceptSteps
<1>a. CASE Finish(s)  BY <1>a DEF Finish, Core, InvTypes, Granting
<1>b. ASSUME NEW j \in {[op |-> "create", user |-> u, roles |-> roles],
                        [op |-> "activate", user |-> u, roles |-> {}]}
                       \cup {[op |-> "grant", user |-> u, roles |-> {role}] : role \in Roles},
             Call(s, j), at'[s] = "nested", errand' = errand, Missing(s)' \subseteq j.roles
      PROVE  Granting(s)'
  <2>1. job'[s] = j /\ pc'[s] \in {"create", "guard"}  BY <1>b DEF Call, IInv, TypeOK
  <2>2. j.user = u /\ j.op \in {"create", "activate", "grant"}  BY <1>b
  <2> QED  BY <2>1, <2>2, <1>b DEF Granting
<1>2. CASE Inspect(s)
  <2>1. CASE Proceed(s, "nested") /\ UNCHANGED todo
             /\ Call(s, [op |-> "create", user |-> u, roles |-> roles])
    <3>1. at'[s] = "nested" /\ errand' = errand  BY <2>1 DEF Proceed, Core, InvTypes
    <3>2. Missing(s)' \subseteq roles  BY <3>1, <1>1 DEF Missing
    <3> QED  BY <2>1, <3>1, <3>2, <1>b
  <2>2. CASE /\ Proceed(s, "nested") /\ Call(s, [op |-> "activate", user |-> u, roles |-> {}])
             /\ todo' = [todo EXCEPT ![s] = roles \ memberRoles[u]]
    <3>1. at'[s] = "nested" /\ errand' = errand  BY <2>2 DEF Proceed, Core, InvTypes
    <3>2. memberRoles[u] \subseteq held'[s]
      BY <2>2, <3>1 DEF Call, memberVars, Accepting, AcceptSteps
    <3>3. todo'[s] = roles \ memberRoles[u]  BY <2>2 DEF Core, InvTypes
    <3>4. Missing(s)' = {}  BY <3>1, <3>2, <3>3, <1>1 DEF Missing
    <3> QED  BY <2>2, <3>1, <3>4, <1>b
  <2> QED  BY <1>2, <2>1, <2>2, <1>a DEF Inspect
<1>3. CASE NestedDone(s)
  <2>0. at[s] = "nested" /\ pc[s] = "idle"  BY <1>3 DEF NestedDone
  <2>1. CASE result[s] = "ok" /\ todo[s] = {} /\ Proceed(s, "commit") /\ UNCHANGED todo
    <3>1. at'[s] = "commit" /\ errand' = errand  BY <2>1 DEF Proceed, Core, InvTypes
    <3>2. roles \subseteq held[s]  BY <2>0, <2>1 DEF Granting, Missing
    <3>3. held[s] \subseteq held'[s]  BY <3>1 DEF Accepting, AcceptSteps
    <3> QED  BY <3>1, <3>2, <3>3, <1>1 DEF Granting
  <2>2. CASE /\ result[s] = "ok" /\ UNCHANGED <<at, errand, holder>>
             /\ \E role \in todo[s] :
                   /\ Call(s, [op |-> "grant", user |-> u, roles |-> {role}])
                   /\ todo' = [todo EXCEPT ![s] = @ \ {role}]
    <3>1. PICK role \in todo[s] :
             /\ Call(s, [op |-> "grant", user |-> u, roles |-> {role}])
             /\ todo' = [todo EXCEPT ![s] = @ \ {role}]
      BY <2>2
    <3>2. role \in Roles /\ todo'[s] = todo[s] \ {role}  BY <3>1 DEF Core, InvTypes
    <3>3. Missing(s) = {}  BY <2>0, <2>2 DEF Granting
    <3>4. held[s] \subseteq held'[s]  BY <2>0, <2>2 DEF Accepting, AcceptSteps
    <3>5. Missing(s)' \subseteq {role}  BY <2>2, <3>2, <3>3, <3>4, <1>1 DEF Missing
    <3> QED  BY <2>0, <2>2, <3>1, <3>2, <3>5, <1>b
  <2> QED  BY <1>3, <2>1, <2>2, <1>a DEF NestedDone
<1> QED  BY <1>2, <1>3

\* Every other step of the invitation handlers ends the acceptance, or has
\* not come to the grants yet.
LEMMA OtherGranting ==
    ASSUME Core, NEW s \in Requests,
           (\E e \in Errands : Begin(s, e)) \/ Serve(s) \/ GiveUp(s),
           ~Inspect(s), ~NestedDone(s)
    PROVE  Granting(s)'
<1>1. at'[s] \notin {"nested", "commit"}
  BY DEF Core, InvTypes, Begin, Serve, GiveUp, LockInvitation, CheckMember, CommitAccept, Purge,
         CheckVacancy, Insert, SendMail, UndoInvite, UndoInviteGone, Finish, Proceed
<1> QED  BY <1>1 DEF Granting

\* A turn keeps the whole invariant.
LEMMA TurnInvIInv ==
    ASSUME InvIInv, NEW s \in Requests, Turn(s), Observe
    PROVE  InvIInv'
<1>1. IInv' /\ Core' /\ RowsKept(s) /\ OthersKept(s)  BY TurnKeeps DEF InvIInv
<1>2. /\ held' \in [Requests -> SUBSET Roles]
      /\ \A q \in Requests : Accepting(q) /\ Accepting(q)' =>
            /\ held[q] \subseteq held'[q]
            /\ memberRoles'[errand'[q].user] \subseteq held'[q]
  BY <1>1, HeldGrows DEF InvIInv
<1>3. ASSUME NEW q \in Requests, q # s PROVE Granting(q)'
  <2>1. /\ at'[q] = at[q] /\ errand'[q] = errand[q] /\ todo'[q] = todo[q]
        /\ pc'[q] = pc[q] /\ job'[q] = job[q] /\ result'[q] = result[q]
    BY <1>1, <1>3 DEF OthersKept
  <2>2. ASSUME Accepting(q)
        PROVE  inv'[errand[q].inv] = inv[errand[q].inv] /\ held[q] \subseteq held'[q]
    <3>1. errand[q].inv \in Invitations
      BY <2>2 DEF InvIInv, Core, Accepting, ErrandFits, AcceptErrands, AcceptLabels
    <3>2. holder[errand[q].inv] = q  BY <2>2, <3>1 DEF InvIInv, Core, LockFits
    <3> QED  BY <1>1, <1>2, <1>3, <2>1, <2>2, <3>1, <3>2 DEF RowsKept, Accepting
  <2> QED  BY <2>1, <2>2, GrantingFrame DEF InvIInv
<1>4. Granting(s)'
  <2>1. CASE Inspect(s) \/ NestedDone(s)
    <3>1. Accepting(s)  BY <2>1 DEF Inspect, NestedDone, Accepting, AcceptSteps
    <3> QED  BY <2>1, <3>1, <1>2, ServeGranting DEF InvIInv
  <2>2. CASE MembershipStep(s)
    <3>1. UNCHANGED <<invVars, errandVars>>  BY <2>2 DEF MembershipStep
    <3>2. CASE at[s] = "nested"
      <4>1. Step(s)  BY <2>2, <3>2 DEF MembershipStep
      <4>2. Accepting(s) /\ Accepting(s)' /\ errand' = errand
        BY <3>1, <3>2 DEF Accepting, AcceptSteps, errandVars
      <4> QED  BY <3>1, <3>2, <4>1, <4>2, <1>2, NestedGranting DEF InvIInv
    <3>3. CASE at[s] = "commit"
      <4>1. at' = at /\ errand' = errand /\ inv' = inv  BY <3>1 DEF invVars, errandVars
      <4>2. held[s] \subseteq held'[s]  BY <3>3, <4>1, <1>2 DEF Accepting, AcceptSteps
      <4> QED  BY <3>3, <4>1, <4>2 DEF InvIInv, Granting
    <3>4. CASE at[s] \notin {"nested", "commit"}
      BY <3>1, <3>4 DEF Granting, errandVars
    <3> QED  BY <3>2, <3>3, <3>4
  <2> QED  BY <2>1, <2>2, OtherGranting DEF Turn, InvIInv
<1> QED  BY <1>1, <1>2, <1>3, <1>4 DEF InvIInv

\* So does a step no request takes.
LEMMA QuietInvIInv ==
    ASSUME InvIInv, Quiet, Observe
    PROVE  InvIInv'
<1>1. /\ IInv' /\ Core' /\ UNCHANGED <<vars, holder, errandVars>>
      /\ \A k \in Invitations : holder[k] \in Requests => inv'[k] = inv[k]
  BY QuietKeeps DEF InvIInv
<1>2. /\ held' \in [Requests -> SUBSET Roles]
      /\ \A q \in Requests : Accepting(q) /\ Accepting(q)' => held[q] \subseteq held'[q]
  BY <1>1, HeldGrows DEF InvIInv
<1>3. ASSUME NEW q \in Requests PROVE Granting(q)'
  <2>1. /\ at' = at /\ errand' = errand /\ todo' = todo
        /\ pc' = pc /\ job' = job /\ result' = result
    BY <1>1 DEF vars, errandVars
  <2>2. ASSUME Accepting(q)
        PROVE  inv'[errand[q].inv] = inv[errand[q].inv] /\ held[q] \subseteq held'[q]
    <3>1. errand[q].inv \in Invitations
      BY <2>2 DEF InvIInv, Core, Accepting, ErrandFits, AcceptErrands, AcceptLabels
    <3>2. holder[errand[q].inv] = q  BY <2>2, <3>1 DEF InvIInv, Core, LockFits
    <3> QED  BY <1>1, <1>2, <2>1, <2>2, <3>1, <3>2 DEF Accepting
  <2> QED  BY <2>1, <2>2, GrantingFrame DEF InvIInv
<1> QED  BY <1>1, <1>2, <1>3 DEF InvIInv

\* Nor does a step of some other part of the platform disturb it.
LEMMA StutterInvIInv == InvIInv /\ UNCHANGED allVars => InvIInv'
<1> SUFFICES ASSUME InvIInv, UNCHANGED allVars PROVE InvIInv'
  OBVIOUS
<1>1. /\ UNCHANGED vars /\ inv' = inv /\ expired' = expired /\ holder' = holder
      /\ errand' = errand /\ at' = at /\ todo' = todo /\ held' = held
  BY DEF allVars, invVars, errandVars
<1>2. IInv'  BY <1>1, StutterIInv DEF InvIInv
<1>3. Core'
  BY <1>1 DEF InvIInv, Core, InvTypes, ErrandFits, LockFits, Accepting
<1>4. \A s \in Requests : Granting(s)'
  BY <1>1 DEF InvIInv, Granting, Missing, vars
<1> QED  BY <1>1, <1>2, <1>3, <1>4 DEF InvIInv

\* Every step of the system is a turn of a request or a quiet one.
LEMMA NextTurns == InvNext => Observe /\ ((\E s \in Requests : Turn(s)) \/ Quiet)
BY DEF InvNext, Turn, Quiet

-----------------------------------------------------------------------------
\* The inductive invariant of the invitations: both layers are well typed, a
\* locked row is open and its acceptor's, and grants are not lost on the way.
THEOREM InvitationInvariant == InvSpec => []InvIInv
<1>1. InvIInv /\ [InvNext]_allVars => InvIInv'
  BY NextTurns, TurnInvIInv, QuietInvIInv, StutterInvIInv
<1> QED  BY InvInitIInv, <1>1, PTL DEF InvSpec

\* Types and row locks: a lock is held by exactly the acceptances past it.
THEOREM InvitationTypes == InvSpec => []InvTypeOK
<1>1. InvIInv => InvTypeOK
  <2> SUFFICES ASSUME InvIInv PROVE InvTypeOK
    OBVIOUS
  <2>1. Labels = {"idle", "lock"} \cup AcceptSteps \cup InviteSteps
    BY DEF Labels, AcceptLabels, MakeLabels, MailLabels, InviteSteps
  <2> QED  BY <2>1 DEF InvIInv, IInv, Core, InvTypes, LockFits, InvTypeOK
<1> QED  BY InvitationInvariant, <1>1, PTL

\* How the rows change, for the two theorems below.
LEMMA NextRows == InvIInv /\ [InvNext]_allVars => RowsStep
<1>1. UNCHANGED allVars => RowsStep  BY DEF allVars, invVars, RowsStep
<1> QED  BY <1>1, NextTurns, TurnKeeps, QuietKeeps DEF InvIInv

\* A settled invitation is never settled again: a late cancel, expiry, mail
\* failure or second acceptance finds it closed.
THEOREM SettledOnceHolds == InvSpec => SettledOnce
<1>1. ASSUME InvIInv, RowsStep, NEW i \in Invitations, inv[i].status \in Terminal
      PROVE  inv'[i] = inv[i]
  BY <1>1 DEF InvIInv, Core, InvTypes, RowsStep, Opened, Taken, Withdrawn, Lapsed, Overdue, Terminal
<1>2. InvIInv /\ [InvNext]_allVars =>
        [\A i \in Invitations : inv[i].status \in Terminal => inv'[i] = inv[i]]_allVars
  BY <1>1, NextRows
<1> QED  BY InvitationInvariant, <1>2, PTL DEF InvSpec, SettledOnce

\* An invitation is accepted only when its acceptor has been granted every
\* role it offers, although each grant commits on a connection of its own.
THEOREM AcceptedRolesGrantedHolds == InvSpec => AcceptedRolesGranted
<1>1. InvIInv => \A s \in Requests : at[s] = "commit" => inv[errand[s].inv].roles \subseteq held[s]
  BY DEF InvIInv, Granting
<1>2. InvIInv /\ [InvNext]_allVars =>
        [\A s \in Requests :
           at[s] = "commit" /\ inv[errand[s].inv].status # inv'[errand[s].inv].status
           => inv[errand[s].inv].roles \subseteq held[s]]_allVars
  BY <1>1
<1> QED  BY InvitationInvariant, <1>2, PTL DEF InvSpec, AcceptedRolesGranted

-----------------------------------------------------------------------------
\* The invitations implement InvitationPromise: whatever races behind them,
\* an address has one open offer, only its owner takes it, and once.
THEOREM KeepsPromiseHolds == InvSpec => KeepsPromise
<1>1. InvInit => Promise!Init  BY DEF InvInit, Promise!Init, NoInvitation, Offer
<1>2. ASSUME InvIInv, RowsStep PROVE Promise!Next \/ Offer' = Offer
  <2>1. inv \in [Invitations -> Invitation]  BY <1>2 DEF InvIInv, Core, InvTypes
  <2>2. ASSUME NEW e PROVE Promise!OpenFor(e) = OpenFor(e)
    BY DEF Promise!OpenFor, OpenFor, Offer
  <2>3. CASE inv' = inv  BY <2>3 DEF Offer
  <2>4. ASSUME NEW i \in Invitations, NEW e \in Emails, NEW R \in SUBSET Roles, Opened(i, e, R)
        PROVE  Promise!Make(i, e)
    <3>1. Offer[i].status = "none" /\ Promise!OpenFor(e) = {}  BY <2>2, <2>4 DEF Opened, Offer
    <3>2. Offer' = [Offer EXCEPT ![i] = [status |-> "pending", email |-> e, by |-> Nobody]]
      BY <2>1, <2>4 DEF Opened, Offer
    <3> QED  BY <3>1, <3>2 DEF Promise!Make
  <2>5. ASSUME NEW i \in Invitations, NEW u \in Users, Taken(i, u)
        PROVE  Promise!Take(i, u)
    <3>1. Offer[i].status = "pending" /\ Offer[i].email = EmailOf[u]  BY <2>5 DEF Offer, Taken
    <3>2. Offer' = [Offer EXCEPT ![i].status = "accepted", ![i].by = u]
      <4>1. inv' = [inv EXCEPT ![i].status = "accepted", ![i].by = u]
        BY <2>5 DEF Taken
      <4>2. /\ inv'[i].status = "accepted" /\ inv'[i].by = u
            /\ inv'[i].email = inv[i].email
        BY <2>1, <4>1 DEF Invitation
      <4>3. \A k \in Invitations \ {i} : inv'[k] = inv[k]
        BY <2>1, <4>1
      <4> QED  BY <4>2, <4>3 DEF Offer
    <3> QED  BY <3>1, <3>2 DEF Promise!Take
  <2>6. ASSUME NEW i \in Invitations, Withdrawn(i) PROVE Promise!Withdraw(i)
    <3>1. Offer' = [Offer EXCEPT ![i].status = "cancelled"]
      BY <2>1, <2>6 DEF Offer, Withdrawn, Invitation
    <3> QED  BY <2>6, <3>1 DEF Offer, Withdrawn, Promise!Withdraw
  <2>7. ASSUME Lapsed PROVE Promise!Lapse(Overdue)
    <3>1. \A i \in Overdue : Offer[i].status = "pending"  BY DEF Overdue, Offer
    <3>2. Offer' = [i \in Invitations |->
                  IF i \in Overdue THEN [Offer[i] EXCEPT !.status = "expired"] ELSE Offer[i]]
      BY <2>1, <2>7 DEF Offer, Lapsed, Invitation
    <3> QED  BY <3>1, <3>2 DEF Promise!Lapse
  <2>8. Overdue \in SUBSET Invitations  BY DEF Overdue
  <2>9. CASE \E i \in Invitations, e \in Emails, R \in SUBSET Roles : Opened(i, e, R)
    BY <2>4, <2>9 DEF Promise!Next
  <2>10. CASE \E i \in Invitations, u \in Users : Taken(i, u)  BY <2>5, <2>10 DEF Promise!Next
  <2>11. CASE \E i \in Invitations : Withdrawn(i)  BY <2>6, <2>11 DEF Promise!Next
  <2>12. CASE Lapsed  BY <2>7, <2>8, <2>12 DEF Promise!Next
  <2> QED  BY <1>2, <2>3, <2>9, <2>10, <2>11, <2>12 DEF RowsStep
<1>3. InvIInv /\ [InvNext]_allVars => [Promise!Next]_Offer  BY <1>2, NextRows
<1> QED  BY InvitationInvariant, <1>1, <1>3, PTL DEF InvSpec, KeepsPromise, Promise!Spec

-----------------------------------------------------------------------------
(***************************************************************************)
(* The membership layer                                                    *)
(***************************************************************************)

\* What the invitations do to the tables of the members, a membership request
\* could have done: accepting writes nothing past the guard of the calls.
THEOREM MembersOnlyByCallsHolds == InvSpec => MembersOnlyByCalls
<1>1. InvInit => Init  BY DEF InvInit
<1>2. ASSUME InvIInv, NEW s \in Requests, Turn(s)
      PROVE  Next \/ UNCHANGED vars
  <2>1. CASE \E e \in Errands : Begin(s, e)  BY <2>1 DEF Begin
  <2>2. CASE Serve(s) \/ GiveUp(s)  BY <1>2, <2>2, ServeCalls DEF InvIInv, Next
  <2>3. CASE MembershipStep(s)  BY <2>3, AdminAssumption DEF MembershipStep, Next
  <2> QED  BY <1>2, <2>1, <2>2, <2>3 DEF Turn
<1>3. Quiet => UNCHANGED vars  BY DEF Quiet, Cancel, ExpiryPasses, List
<1>4. InvIInv /\ [InvNext]_allVars => [Next]_vars
  <2>1. UNCHANGED allVars => UNCHANGED vars  BY DEF allVars
  <2> QED  BY <1>2, <1>3, <2>1, NextTurns
<1> QED  BY InvitationInvariant, <1>1, <1>4, PTL DEF InvSpec, MembersOnlyByCalls, Spec

\* So a group whose invitations are being accepted loses its last active lead
\* only to a race of the guard, as if there were no invitations.
THEOREM InvitedLeadLostOnlyToRace == InvSpec => LeadLostOnlyToRace
BY MembersOnlyByCallsHolds, LeadLostOnlyToRaceHolds DEF MembersOnlyByCalls

\* The same for the last active member who may manage the others.
THEOREM InvitedManagerLostOnlyToRace == InvSpec => ManagerLostOnlyToRace
BY MembersOnlyByCallsHolds, ManagerLostOnlyToRaceHolds DEF MembersOnlyByCalls

\* "Der letzte aktive Fansub-Lead kann nicht entfernt oder deaktiviert werden":
\* not while invitations are being accepted either, if no two guards overlap.
THEOREM InvitedLastLeadKeptAlone == InvSpec /\ []GuardsAlone => LastLeadKept
BY MembersOnlyByCallsHolds, LastLeadKeptAlone DEF MembersOnlyByCalls
=============================================================================
