SPECIFICATION Spec
CONSTANTS
    x = x
    y = y
    view = view
    other = other
    Depth = 2
    Bindings = {x, y}
    KeyOf <- OneKey
    Locked = {}
    Observers = {view, other}
    ContextOf <- Siblings
    Matches <- AllMatch
    Throwers = {}
    MaxPending = 2
    Views = {view}
    Readers = {1, 2}
    AsyncValues = TRUE
    BindingsRead = "anytime"
INVARIANT ValuesOfBindings
CHECK_DEADLOCK FALSE
