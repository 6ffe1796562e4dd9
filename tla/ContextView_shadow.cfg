SPECIFICATION Spec
CONSTANTS
    x = x
    y = y
    view = view
    other = other
    Depth = 2
    Bindings = {x, y}
    KeyOf <- OneKey
    Locked = {}
    Observers = {view, other}
    ContextOf <- Siblings
    Matches <- OneMatches
    Throwers = {}
    MaxPending = 2
    Views = {view}
    Readers = {1}
    AsyncValues = TRUE
    BindingsRead = "settled"
INVARIANT ViewIsLive
CHECK_DEADLOCK FALSE
