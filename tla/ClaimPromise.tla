----------------------------- MODULE ClaimPromise -----------------------------
(***************************************************************************)
(* What the claims on a historical member promise, whatever requests race  *)
(* behind them: on a path that locks a row of its own there is at most one *)
(* claimant, a profile is shown to search engines by a claim or by a       *)
(* claimant, and an invitation is open alone and is settled once, as       *)
(* accepted only in the name of somebody who has had the claim.            *)
(***************************************************************************)
CONSTANTS Users, Groups, Invitations, Nobody

VARIABLES
    claimants,      \* the users whose claim is verified, by the path it came on
    shown,          \* the profile is open to search engines
    ever,           \* everybody who has ever been a claimant
    offer           \* what a user sees of the invitations

vars == <<claimants, shown, ever, offer>>

Alone == Groups \cup {"invite"}     \* the paths that lock a row of their own
Paths == Alone \cup {"link", "request"}
Open == {i \in Invitations : offer[i].status = "pending"}
Unmade == [status |-> "none", by |-> Nobody]

Init ==
    /\ offer = [i \in Invitations |-> Unmade]
    /\ \/ ever = {} /\ claimants = [c \in Paths |-> {}] /\ shown = FALSE
       \/ \E u \in Users :
             /\ ever = {u} /\ shown = TRUE
             /\ claimants = [c \in Paths |-> IF c = "request" THEN {u} ELSE {}]

\* u becomes a claimant on path c, and is one on no other.
Enter(u, c) ==
    /\ c \in Alone => claimants[c] = {}
    /\ claimants' = [d \in Paths |-> IF d = c THEN claimants[d] \cup {u} ELSE claimants[d] \ {u}]
    /\ shown' = TRUE
    /\ ever' = ever \cup {u}

Claim(u, c) == Enter(u, c) /\ UNCHANGED offer

\* Open invitations are settled together; an accepted one names its acceptor.
Settle(S, row) ==
    /\ S \subseteq Open
    /\ offer' = [i \in Invitations |-> IF i \in S THEN row ELSE offer[i]]

Accept(i, u) == Enter(u, "invite") /\ Settle({i}, [status |-> "accepted", by |-> u])

Close(S) ==
    /\ \/ \E status \in {"cancelled", "expired"} : Settle(S, [status |-> status, by |-> Nobody])
       \/ \E u \in ever : Settle(S, [status |-> "accepted", by |-> u])
    /\ UNCHANGED <<claimants, shown, ever>>

Invite(i) ==
    /\ Open = {} /\ offer[i].status = "none"
    /\ offer' = [offer EXCEPT ![i] = [status |-> "pending", by |-> Nobody]]
    /\ UNCHANGED <<claimants, shown, ever>>

\* A new submission takes the verified claim back; what it settled stays.
Leave(u) ==
    /\ claimants' = [c \in Paths |-> claimants[c] \ {u}]
    /\ UNCHANGED <<shown, ever, offer>>

Show(b) ==
    /\ \E c \in Paths : claimants[c] # {}
    /\ shown' = b
    /\ UNCHANGED <<claimants, ever, offer>>

Next ==
    \/ \E S \in SUBSET Invitations : Close(S)
    \/ \E i \in Invitations : Invite(i)
    \/ \E b \in BOOLEAN : Show(b)
    \/ \E u \in Users : \/ \E c \in Groups \cup {"link"} : Claim(u, c)
                        \/ \E i \in Invitations : Accept(i, u)
                        \/ Leave(u)

Spec == Init /\ [][Next]_vars
=============================================================================
