SPECIFICATION FairSpec
CONSTANTS
    good = good  both = both  bad = bad  k1 = k1  k2 = k2  r1 = r1
    MaxServers = 2
    Requests = {r1}
    Ports = {80}
    Graceful = TRUE
    Callers = {a, b}
    Keys = {k1, k2}
    Controllers = {good, both, bad}
    Offers <- MCOffers
    Broken = {bad}
    SpecKeys = {k1, k2}
    SpecController = good
    Templated = {k2}
    TrieRouting = TRUE
    Wanted <- MCWanted
    Hanging = {r1}
    MaxChanges = 2
    MaxPending = 2
INVARIANTS
    RoutesCurrent
    ListensRight
PROPERTIES
    UserRoutesKept
    StopDrains
    ServingGoesOn
    StopReturns
CHECK_DEADLOCK FALSE
