-------------------------- MODULE MC_MemberClaims --------------------------
\* Instances of MemberClaims for TLC.
EXTENDS MemberClaims, TLC

CONSTANTS u1, u2, g1, g2, i1, i2, r1, r2

MCUsers == {u1, u2}
MCGroups == {g1, g2}
MCInvitations == {i1, i2}
MCOneInvitation == {i1}
MCAllOps == {"submit", "verify", "link", "accept", "invite", "list"}
MCReviewOps == {"submit", "verify"}
MCRequests == {r1, r2}
MCSymmetry == Permutations(MCUsers) \cup Permutations(MCGroups)
                \cup Permutations(MCInvitations) \cup Permutations(MCRequests)
=============================================================================
