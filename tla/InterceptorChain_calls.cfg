SPECIFICATION FairSpec
CONSTANTS
    again = again  log = log  both = both
    Invocations = {m1, r1}
    Methods = {m1}
    Interceptors = {log, both}
    Changing = {both}
    Rank <- MCRank
    Local <- MCLocal
    Style <- MCStyle
    Slow = {log}
    Flawed = {log, handler}
    Target = handler
INVARIANTS
    RunsOnce
    UndefinedFromSecondCall
    ClosedAfterCalls
PROPERTY InvocationSettles
CHECK_DEADLOCK FALSE
