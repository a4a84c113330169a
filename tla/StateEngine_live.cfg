\* A switchable measured probe and an authoritative one, on two components;
\* registrations may stop between their two commits.
CONSTANTS
    p1 = p1  p2 = p2  o1 = o1  c1 = c1  c2 = c2
    Probe = {p1, p2}
    Observer = {o1}
    Component = {c1, c2}
    Feeds <- SplitFeeds
    Policy <- SplitPolicy
    Horizon <- SplitHorizon
    Switchable = {p1}
    Cutoff = 0
    Skew = 1
    MaxCount = 3
    MaxTime = 2
    RegistrationFaults = TRUE
SPECIFICATION FairSpec
PROPERTIES HealthDecays
