------------------------ MODULE MC_GroupMembership ------------------------
\* Instances of GroupMembership for TLC.
EXTENDS GroupMembership, TLC

CONSTANTS u1, u2, lead, deputy, r1, r2

MCUsers == {u1, u2}
MCRoles == {lead, deputy}
MCManagerRoles == {lead, deputy}
MCLinked == {u1}
MCRequests == {r1, r2}
MCSymmetry == Permutations(MCRequests)
=============================================================================
