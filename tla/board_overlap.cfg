SPECIFICATION Spec
CONSTANTS
    Urls = {u1, u2}
    Crawlers = {c1, c2}
    ClaimTTL = 1
    MinInterval = 1
    FunctionTimeout = 0
    DispatchTimeout = 0
    Gap = 1
    Window = 1
    CloseMin = 1
    ShareDivisor = 5
    MessageBound = 2
    FaultBudget = 0
SYMMETRY Symmetry
INVARIANT DailyShareKept
