SPECIFICATION FairSpec
CONSTANTS
    r1 = r1
    r2 = r2
    c1 = c1
    c2 = c2
    Requests <- MCRequests
    Cockpits <- MCCockpits
INVARIANTS
    WaiterIsAnswerable
    NothingPendingIsSettled
    AckedDenialIsFinal
PROPERTIES
    ImplementsApproval
    EveryRequestReturns
