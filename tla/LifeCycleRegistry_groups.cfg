SPECIFICATION FairSpec
CONSTANTS
    a = a
    b = b
    c = c
    d = d
    Bindings = {a, b, c, d}
    GroupTag <- TagsByGroup
    PlainTag <- NoPlainTags
    Handles <- HandleMost
    Initial <- Three
    Orders <- TwoOrders
    MaxName = 3
    Disabled <- GroupOne
    Modes = {"true", "false"}
    AsyncValues = TRUE
    Failures = TRUE
    Changes = "settled"
    Reorder = "early"
    MaxPending = 2
    Missing = undefined
INVARIANTS
    RegistryInv
    GroupsInOrder
    FailsOnlyWithObserver
PROPERTY NotificationEnds
CHECK_DEADLOCK FALSE
