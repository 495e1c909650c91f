SPECIFICATION Spec
CONSTANTS
    Sources = {s1}
    NoSource = NoSource
    ClaimTTL = 1
    Backoff = 1
    MaxAttempts = 2
    Urls = {u1}
    NoUrl = NoUrl
    Workers = {w1}
    Requests = {q1}
    Admins = {}
    CapValue = 1
    FunctionTimeout = 0
    RequestTimeout = 0
    FaultBudget = 1
    Cap <- MCCap
PROPERTY GoodPostingKept
