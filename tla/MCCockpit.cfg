SPECIFICATION FairSpec
CONSTANTS
    pay = pay
    send = send
    Asks <- MCAsks
    MaxCards = 1
    MaxRestarts = 1
    MaxProtected = 1
INVARIANTS
    AnswersReachTheirCard
    PanicLeavesNoneWaiting
PROPERTIES
    CockpitCatchesUp

CHECK_DEADLOCK FALSE
