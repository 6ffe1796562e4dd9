SPECIFICATION FairSpec
CONSTANTS
    Callers = {c1, c2}
    Handler = handler
    Failures = TRUE
    Signals = FALSE
    ContextErrors = FALSE
    MaxListeners = 2
PROPERTY CallsSettle
CHECK_DEADLOCK FALSE
