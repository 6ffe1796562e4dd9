SPECIFICATION Spec
CONSTANTS
    a = a
    b = b
    c = c
    d = d
    Bindings = {a, b, c, d}
    GroupTag <- TagsOfOthers
    PlainTag <- TagOfServer
    Handles <- HandleMost
    Initial <- Three
    Orders <- ServerLast
    MaxName = 3
    Disabled <- NoGroup
    Modes = {"true"}
    AsyncValues = TRUE
    Failures = FALSE
    Changes = "none"
    Reorder = "never"
    MaxPending = 2
    Missing = undefined
INVARIANT GroupsInOrder
CHECK_DEADLOCK FALSE
