CONSTANTS
    n1 = n1  fs = fs  daemon = daemon
    Host = {n1, fs}
    Worker = {daemon}
    Daemon = daemon
    Declared <- MCDeclared
    Views <- MCViews
    MountTables <- MCMountTables
    AgentCaps <- MCAgentCaps
    PingMayFail = FALSE
    MaxFail = 1
SPECIFICATION Spec
INVARIANTS StaleIsUnreported  ClaimsFollowReports
 
