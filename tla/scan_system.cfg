SPECIFICATION SystemSpec
CONSTANTS
    Sources = {s1}
    NoSource = NoSource
    ClaimTTL = 2
    Backoff = 2
    MaxAttempts = 2
    Urls = {u1, u2}
    NoUrl = NoUrl
    Workers = {w1, w2}
    Requests = {q1}
    Admins = {}
    CapValue = 1
    FunctionTimeout = 1
    RequestTimeout = 1
    FaultBudget = 1
    Cap <- MCCap
SYMMETRY Symmetry
INVARIANT TypeOK
INVARIANT FetchCap
INVARIANT LiveClaimHonoured
PROPERTY Throttled
