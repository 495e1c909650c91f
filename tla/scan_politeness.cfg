SPECIFICATION Spec
CONSTANTS
    Sources = {s1}
    NoSource = NoSource
    ClaimTTL = 2
    Backoff = 2
    MaxAttempts = 2
    Urls = {u1, u2}
    NoUrl = NoUrl
    Workers = {w1, w2}
    Requests = {}
    Admins = {a1}
    CapValue = 1
    FunctionTimeout = 1
    RequestTimeout = 1
    FaultBudget = 0
    Cap <- MCCap
SYMMETRY Symmetry
INVARIANT ListedFetchCap
