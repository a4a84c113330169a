SPECIFICATION Spec
CONSTANTS
    o1 = o1
    o2 = o2
    Stream <- MCStream
    Probe = {"network.tcp", "ssh.service"}
    Policy <- MCPolicy
    MaxCount = 1
    Horizon = 1
    Window = 1
    ObsPeriod = 1
    DiagnosisPeriod = 1
    ClosedPeriod = 1
    KeepPerEntity = 1
    MinKeep = 1
    MaxEvidence = 2
    MaxObs = 4
    MaxTime = 2
    MaxId = 1
INVARIANTS EvidenceKept ResolvedByGoodNews
PROPERTIES PruneUnseen
CHECK_DEADLOCK FALSE
