CONSTANTS
    t1 = t1
    t2 = t2
    f1 = f1
    f2 = f2
    f3 = f3
    sA = sA
    sB = sB
    uA = uA
    uB = uB
    None = None
    Tab <- MCOneTab
    Flow <- MCTwoFlows
    Home <- MCAtOneTab
    Session <- MCOneSession
    User <- MCOneUser
    Owner <- MCSameOwner
    Offers <- MCCalls
    Logins <- MCOneSession
SPECIFICATION FairSpec
PROPERTY EveryCallEnds
