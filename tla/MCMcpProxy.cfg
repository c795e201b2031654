SPECIFICATION FairSpec
CONSTANTS
    Segments <- MCSegments
    Setups <- MCSetups
    Tools <- MCTools
    Lines <- MCLines
    Secrets <- MCSecrets
    ToolKinds <- MCToolKinds
    Verdict <- MCVerdict
    MaxLines = 2
    MaxStray = 1
INVARIANTS
    AdvertisedReachesItsOwner
    CredentialGoesHome
    AnswersMatch
PROPERTIES
    AgentIsAnswered
CHECK_DEADLOCK FALSE
