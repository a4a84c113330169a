SPECIFICATION FairSpec
CONSTANTS
    h1 = h1
    h2 = h2
    Order <- MCOrder
    Observer = {h1, h2}
    Domain <- MCDomain
    Degree = 1
    MaxBoot <- MCMaxBoot
    MaxFaults = 1
INVARIANTS RebootsReal RebootsComplete
PROPERTIES ClusterHeals
