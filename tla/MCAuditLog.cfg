SPECIFICATION FairSpec
CONSTANTS
    Conns = {c1, c2}
    Signers = {c1}
    MaxEntries = 3
INVARIANTS
    LogIsChain
    AppendsAreTruthful
    VerdictIsRight
PROPERTIES
    ImplementsLedger
    AppendOnly
    AppendReturns
