SPECIFICATION FairSpec
CONSTANTS
    Callers = {c1, c2, c3}
    Handler = handler
    Failures = TRUE
    Signals = TRUE
    ContextErrors = TRUE
    MaxListeners = 3
INVARIANTS
    InitDiscipline
    ListenerDiscipline
    OneOperation
    NoLostWakeup
PROPERTIES
    AwaitsTheOperation
    ReturnsReached
    CallsSettleUnlessStuck
    ShutdownEndsUnlessRestarted
    ImplementsContract
CHECK_DEADLOCK FALSE
