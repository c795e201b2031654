SPECIFICATION FairSpec
CONSTANTS
    read = read
    pay = pay
    own = own
    Calls <- MCCalls
    Critical <- MCCritical
    OwnFile <- MCOwnFile
INVARIANTS
    ExecutedIsRecorded
    CriticalNeedsHuman
    DenialStands
    OverridesHold
    OutcomeIsTruthful
PROPERTIES
    ImplementsMediation
    CallsDoNotHang
