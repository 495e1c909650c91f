SPECIFICATION PeopleSpec
CONSTANTS
    Sources = {s1}
    NoSource = NoSource
    ClaimTTL = 1
    Backoff = 1
    MaxAttempts = 2
    Urls = {u1}
    NoUrl = NoUrl
    Workers = {w1, w2}
    Requests = {}
    Admins = {a1, a2}
    CapValue = 1
    FunctionTimeout = 0
    RequestTimeout = 0
    FaultBudget = 1
    OneUrl = u
    OneWorker = w
    OneRequest = q
    Cap <- MCCap
SYMMETRY Symmetry
INVARIANT PostingFollowsRescan
PROPERTY RetryBookkeeping
PROPERTY GoodPostingKept
CONSTRAINT FewMessages
