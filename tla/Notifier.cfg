\* One provider, one crash, one reset, one failing call or maintenance
\* window; an incident that is resolved may come back inside or outside the window.
SPECIFICATION NFairSpec
CONSTANTS
    p1 = p1
    Provider <- OneProvider
    Severity <- MildOrSevere
    Window = 1
    MaxTime = 1
    MaxId = 2
    MaxEvents = 3
    MaxCrash = 1
    MaxReset = 1
    MaxFaults = 1
    Floor = 1
INVARIANTS OneActive RecoveryNotAfterReturn NoRepeatedAlert
PROPERTIES ReturnIsReopened DueIsTold
