\* Limits tight enough to evict, a failure between two good answers about the
\* host, one about a peer the controller has yet to learn of; one crash, lost and
\* late requests, retention.
CONSTANTS
    host = host  peer = peer  s1 = s1  s2 = s2  p1 = p1
    MaxObs = 4
    Entity = {host, peer}
    Target <- DrainTarget
    Priority <- DrainPriority
    Size <- DrainSize
    Stream = {s1, s2}
    Source <- DrainSource
    MaxRows = 3
    MaxBytes = 2
    Chunk = 2
    BatchSize = 2
    KnownAtStart = {host}
    Learnable = {peer}
    MaxCrash = 1
    MaxPrune = 1
    Probe = {p1}
    Policy <- MCPolicy
    MaxCount = 4
    Outcome <- DrainOutcome
    ProbeOf <- MCProbeOf
    StartsAt <- MCStartsAt
SPECIFICATION DFairSpec
INVARIANTS SpoolBounded RecoveryIsReal
PROPERTIES ImplementsContract 
