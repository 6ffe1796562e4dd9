SPECIFICATION FairSpec
CONSTANTS
    x = x
    y = y
    view = view
    other = other
    Depth = 2
    Bindings = {x, y}
    KeyOf <- OneKey
    Locked = {}
    Observers = {view, other}
    ContextOf <- Siblings
    Matches <- AllMatch
    Throwers = {other}
    MaxPending = 2
    Views = {view}
    Readers = {1}
    AsyncValues = TRUE
    BindingsRead = "settled"
INVARIANTS
    ViewInv
PROPERTIES
    ImplementsFeed
    ViewCatchesUp
CHECK_DEADLOCK FALSE
