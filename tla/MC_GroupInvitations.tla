------------------------ MODULE MC_GroupInvitations ------------------------
\* Instances of GroupInvitations for TLC.
EXTENDS GroupInvitations, TLC

CONSTANTS u1, u2, lead, deputy, timer, e1, e2, i1, i2, r1, r2

\* Both users have the address e1 (it need not be unique); nobody has e2.
MCUsers == {u1, u2}
MCEmails == {e1, e2}
MCEmailOf == [u \in MCUsers |-> e1]
MCOneUser == {u1}
MCOneEmailOf == [u \in MCOneUser |-> e1]
MCRoles == {lead, deputy, timer}
MCManagerRoles == {lead}
MCInviteRoles == {{deputy, timer}}
MCRequests == {r1, r2}
MCInvitations == {i1, i2}
MCOneInvitation == {i1}
\* The invitee is made a member, disabled, or stripped of a role at any moment.
MCAdminCalls == {[op |-> "create", user |-> u1, roles |-> {deputy}],
                 [op |-> "disable", user |-> u1, roles |-> {}],
                 [op |-> "revoke", user |-> u1, roles |-> {timer}]}
MCSymmetry == Permutations(MCRequests)
=============================================================================
