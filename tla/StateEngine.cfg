\* Two peers measure a probe that registrations switch off and on, after the
\* store was reset at time 1; the measurements are logged.
CONSTANTS
    p1 = p1  o1 = o1  o2 = o2  c1 = c1
    Probe = {p1}
    Observer = {o1, o2}
    Component = {c1}
    Feeds <- PeerFeeds
    Policy <- PeerPolicy
    Horizon <- PeerHorizon
    Switchable = {p1}
    Cutoff = 1
    Skew = 0
    MaxCount = 3
    MaxTime = 2
    MaxLog = 6
    RegistrationFaults = FALSE
SPECIFICATION HSpec
SYMMETRY ObserverSymmetry
INVARIANTS ComponentIsFold SilenceIsNotHealth CommittedIsCurrent VerdictMatchesLog
 
