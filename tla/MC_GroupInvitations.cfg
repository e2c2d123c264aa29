CONSTANTS
    u1 = u1
    u2 = u2
    e1 = e1
    e2 = e2
    i1 = i1
    i2 = i2
    lead = lead
    deputy = deputy
    timer = timer
    r1 = r1
    r2 = r2
    NoJob = NoJob
    Nobody = Nobody
    LeadRole = lead
    Emails <- MCEmails
    Roles <- MCRoles
    ManagerRoles <- MCManagerRoles
    Linked = {}
    Requests <- MCRequests
    InviteRoles <- MCInviteRoles
    Users <- MCUsers
    EmailOf <- MCEmailOf
    Invitations <- MCOneInvitation
    AdminCalls <- MCAdminCalls
SPECIFICATION InvSpec
SYMMETRY MCSymmetry
INVARIANT InvTypeOK
PROPERTY SettledOnce
PROPERTY AcceptedRolesGranted
PROPERTY MembersOnlyByCalls
