CONSTANTS
    u1 = u1
    u2 = u2
    g1 = g1
    g2 = g2
    i1 = i1
    i2 = i2
    r1 = r1
    r2 = r2
    Nobody = Nobody
    Users <- MCUsers
    Groups <- MCGroups
    Invitations <- MCOneInvitation
    TaskOps <- MCAllOps
    Requests <- MCRequests
SPECIFICATION Spec
SYMMETRY MCSymmetry
INVARIANT TypeOK
INVARIANT OneVerifiedPerPath
INVARIANT UnclaimedStaysNoindex
INVARIANT OnlyReviewAndLinkDeadlock
PROPERTY InvitesSettledOnce
PROPERTY KeepsClaimPromise
