SPECIFICATION FairSpec
CONSTANTS
    Ctl = ctl
    AgentHosts = {n1}
    Builds <- MCBuilds
    TlsEdits <- MCTlsEdits
    Disturbances = 2
    Downgrades = FALSE
INVARIANTS NobodyLockedOut
PROPERTIES EditsSurvive 
CHECK_DEADLOCK FALSE
