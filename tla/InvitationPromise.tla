-------------------------- MODULE InvitationPromise --------------------------
(***************************************************************************)
(* What the invitations of a fansub group promise their users, whatever    *)
(* requests race behind them: an offer is made to an e-mail address, at    *)
(* most one is open per address, only a user with that address can take    *)
(* it, and it is settled exactly once.                                     *)
(***************************************************************************)
CONSTANTS Invitations, Emails, Users, EmailOf, Nobody

VARIABLE offer

Offers == [status : {"none", "pending", "accepted", "cancelled", "expired"},
           email : Emails \cup {Nobody}, by : Users \cup {Nobody}]

OpenFor(e) == {i \in Invitations : offer[i].status = "pending" /\ offer[i].email = e}

Init == offer = [i \in Invitations |-> [status |-> "none", email |-> Nobody, by |-> Nobody]]

Make(i, e) ==
    /\ offer[i].status = "none"
    /\ OpenFor(e) = {}
    /\ offer' = [offer EXCEPT ![i] = [status |-> "pending", email |-> e, by |-> Nobody]]

Take(i, u) ==
    /\ offer[i].status = "pending"
    /\ offer[i].email = EmailOf[u]
    /\ offer' = [offer EXCEPT ![i].status = "accepted", ![i].by = u]

Withdraw(i) ==
    /\ offer[i].status = "pending"
    /\ offer' = [offer EXCEPT ![i].status = "cancelled"]

\* Several offers may lapse at once.
Lapse(S) ==
    /\ \A i \in S : offer[i].status = "pending"
    /\ offer' = [i \in Invitations |->
                   IF i \in S THEN [offer[i] EXCEPT !.status = "expired"] ELSE offer[i]]

Next ==
    \/ \E i \in Invitations : \/ \E e \in Emails : Make(i, e)
                              \/ \E u \in Users : Take(i, u)
                              \/ Withdraw(i)
    \/ \E S \in SUBSET Invitations : Lapse(S)

Spec == Init /\ [][Next]_offer
=============================================================================
