SPECIFICATION Spec
CONSTANTS
    read = read
    pay = pay
    own = own
    Calls <- MCCalls
    Critical <- MCCritical
    OwnFile <- MCOwnFile
PROPERTY
    KillSwitchDeniesEverything
