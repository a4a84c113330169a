SPECIFICATION RSpec
CONSTANTS
    h1 = h1
    h2 = h2
    h3 = h3
    h4 = h4
    s1 = s1
    s2 = s2
    Entity = {h1, h2, h3, h4, s1, s2}
    Order <- MCOrder
    Edge <- MCEdge
    Degree = 2
    MaxEdges = 4
    lo0 = lo0
    eth0 = eth0
    eth1 = eth1
    docker0 = docker0
    a1 = a1
    a2 = a2
    a3 = a3
    a4 = a4
    a5 = a5
    a6 = a6
    Loopback = lo0
    Virtual = {docker0}
    Unreachable = {a5}
    IPv6 = {a6}
    NameOrder <- MCNameOrder
    RangeLimit = 20
    Piece <- MCPiece
    MaxLength <- MCMaxLength
    Me <- MCMe
    MaxGpus = 2
    MaxSteps = 7
    SshdConfig <- MCSshdConfig
INVARIANTS WalksAgree EveryHostWatchedWell SlurmReadInFull HostReadAsTold
PROPERTIES SeverityNeverFalls
CHECK_DEADLOCK FALSE
