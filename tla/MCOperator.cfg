SPECIFICATION MCSpec
CONSTANTS
    s1 = s1
    s2 = s2
    Signers <- MCSigners
    Stranger = Stranger
    NumFiles = 2
    MaxWrites = 2
    Envs <- MCEnvs
    Says <- MCSays
    Drafts <- MCDrafts
    ToolNames <- MCToolNames
    MaxEdits = 2
SYMMETRY MCSymmetry
INVARIANTS
    LoadedIsSigned
    ProvenanceIsAuthentic
    PublisherIsStable
    RoleTakesEffect
    AgentNeverGoverns
    FrontEndsMeetTheDaemon
    OneShotsFailClosed
\* The runs of `pack` end.
CHECK_DEADLOCK FALSE
