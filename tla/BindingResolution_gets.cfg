SPECIFICATION FairSpec
CONSTANTS
    Depth = 2
    slow = slow  user = user  left = left  right = right
    lazy = lazy  plain = plain  own = own  k1 = k1  k2 = k2
    Level <- MCLevel
    Bindings <- MCBindings
    KeyOf <- MCKeyOf
    OwnerOf <- MCOwnerOf
    ScopeOf <- MCScopeOf
    Injects <- MCInjects
    Awaits <- MCAwaits
    Async = {slow, lazy}
    Flawed = {slow, own}
    Callers = {k1, k2}
    MaxTasks = 3
    Refreshed = {slow, own}
    MaxRefresh = 1
    Nobody = Nobody
CHECK_DEADLOCK FALSE
INVARIANTS
    ResolutionInv
    NoCaptiveDependency
PROPERTIES
    GetSettles
