SPECIFICATION Spec
CONSTANTS
    CreditJobs = {j1, j2}
    AiRequests = {q1, q2}
    Periods = {1, 2}
    FreeLimit = 2
    PlanLimit = 1
    Subscriptions = {s1, s2}
    NoSubscription = NoSubscription
    Webhooks = {h1}
    MaxChanges = 6
    MaxResumes = 3
    Skills = {k}
    ResumeRequests = {q1, q2}
    Sources = {1, 2}
    ResultRequests = {q1, q2}
    MaxResults = 3
    AlertPostings = {j1, j2}
    AlertWindow = 1
    LastDay = 2
    SignInRequests = {q1, q2}
    MaxTokens = 2
    PerEmail = 2
    MaxAttempts = 2
    GrantRequests = {q1, q2}
    MaxPairs = 3
    MaxCodes = 2
    own = own
    rival = rival
    Companies = {own, rival}
    Domains = {j1, j2}
    NoDomain = NoDomain
    NoCompany = NoCompany
    SharedLimit = 1
    BoardAdapters <- Keyed
    MaxSources = 2
    Registrars = {q1, q2}
SYMMETRY Symmetry
INVARIANT AccountsTypeOK
INVARIANT TrialAccounted
INVARIANT NeverChargedTwice
INVARIANT PlanCap
INVARIANT MirrorConverges
INVARIANT FilesOfRows
INVARIANT DraftsNotLost
INVARIANT DefaultIsLatest
INVARIANT ResultsInStep
INVARIANT CursorCovers
INVARIANT CodesSpent
INVARIANT GrantsEnd
INVARIANT ShownLogoIsRight
INVARIANT OneSourcePerBoard
INVARIANT ConfirmedNameStands
PROPERTY ManualStands
CONSTRAINT Bounded
CHECK_DEADLOCK FALSE
