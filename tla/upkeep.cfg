SPECIFICATION Spec
CONSTANTS
    p1 = p1
    p2 = p2
    p3 = p3
    Postings = {p1, p2, p3}
    NoPosting = NoPosting
    NoKey = NoKey
    Jobs <- MCJobs
    Domain <- MCDomain
    Official <- MCOfficial
    Created <- MCCreated
    Id <- MCId
    MaxWriters = 2
    MaxRuns = 1
    Deliveries = {d1, d2}
    Scores = {60, 90}
    CallDeadline = 1
    Lease = 2
    QueuedLease = 1
    StaleAfter = 4
    CrashBudget = 1
    Collections = {k1}
    Evaluators = {"nightly"}
    GraceDays = 1
    EmptyDays = 2
    LastEvaluation = 3
    Applications = {a1, a2}
    LastDue = 1
    Adapters <- Registry
    PageSize = 2
    Cap = 3
    UncappedCap = 6
    MaxPages = 2
    BoardMax = 5
    RecentFrom = 3
    Changes = 2
INVARIANT UpkeepTypeOK
INVARIANT EveryGroupHasHead
INVARIANT OfficialFirst
INVARIANT MarkedMeansTold
INVARIANT CompleteIsWhole
PROPERTY ClaimsExclusive
PROPERTY RunEnds
PROPERTY GraceKept
PROPERTY ArchiveStands
CONSTRAINT RaceBound
CONSTRAINT PagesBound
CHECK_DEADLOCK FALSE
