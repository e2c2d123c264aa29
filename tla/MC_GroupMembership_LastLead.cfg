CONSTANTS
    u1 = u1
    u2 = u2
    lead = lead
    deputy = deputy
    r1 = r1
    r2 = r2
    NoJob = NoJob
    LeadRole = lead
    Users <- MCUsers
    Roles <- MCRoles
    ManagerRoles <- MCManagerRoles
    Linked <- MCLinked
    Requests <- MCRequests
SPECIFICATION Spec
PROPERTY LastLeadKept
