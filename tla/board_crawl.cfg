SPECIFICATION BoardsSpec
CONSTANTS
    Urls = {u1}
    Crawlers = {c1, c2}
    ClaimTTL = 2
    MinInterval = 2
    FunctionTimeout = 1
    DispatchTimeout = 1
    Gap = 2
    Window = 2
    CloseMin = 1
    ShareDivisor = 5
    MessageBound = 2
    FaultBudget = 1
    AloneUrls = {b1, b2}
    AloneCrawler = d1
    Scans <- ScannerRegistry
    Generic <- generic
    Contents = {t1, t2}
    t1 = t1
    Legacy = Legacy
    MaxStamp = 3
SYMMETRY Symmetry
INVARIANT PartsTypeOK
INVARIANT ShareKeptAlone
INVARIANT ExpiredIsDown
INVARIANT LinksLand
INVARIANT LeftAloneIsRight
PROPERTY DispatchSpaced
PROPERTY TwoListingsToClose
CONSTRAINT FewPages
