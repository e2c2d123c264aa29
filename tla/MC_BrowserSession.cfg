CONSTANTS
    t1 = t1
    t2 = t2
    f1 = f1
    f2 = f2
    f3 = f3
    sA = sA
    sB = sB
    uA = uA
    uB = uB
    None = None
    Tab <- MCTab
    Flow <- MCFlow
    Home <- MCHome
    Session <- MCSession
    User <- MCUser
    Owner <- MCOwner
    Offers <- MCOffers
    Logins <- MCLogins
SPECIFICATION FairSpec
INVARIANT SessionTypeOK
INVARIANT WaitersHaveARefresh
INVARIANT TokensOfOneSession
PROPERTY IdentityStoredWithTokens
PROPERTY EndedSessionStaysOut
PROPERTY RetriedOnce
PROPERTY HangsOnlyBehindItself
