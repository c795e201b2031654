SPECIFICATION FairSpec
CONSTANTS
    Requests = {r1, r2}
    Shapes <- MCShapes
    Hosts <- MCHosts
    Trusted <- MCTrusted
    Brokered <- MCBrokered
    Caveats <- MCCaveats
    MaxTime = 1
INVARIANTS
    SecretsStayHome
    CriticalCredentialIsFresh
PROPERTIES
    ImplementsMediation
    RequestsFinish
\* Every request arrives once: the system stops when they are done.
CHECK_DEADLOCK FALSE
