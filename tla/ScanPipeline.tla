---------------------------- MODULE ScanPipeline ----------------------------
(***************************************************************************)
(* Scanning job URLs: the Pub/Sub queue of wake-ups, the scan workers that *)
(* drain a source's pending URLs through throttled lanes or scan a         *)
(* submitted URL on its own, the sweeps that recover lost work, and the    *)
(* people who submit, rescan and delete.                                   *)
(*                                                                         *)
(* A lane claims a URL in a short transaction, fetches the page with no    *)
(* transaction open, and stores the result in another one.  What protects  *)
(* the fetch in between is only the claim's timestamp: this module is      *)
(* about what that is and is not enough for.                               *)
(***************************************************************************)
EXTENDS ScanRows, FiniteSets

CONSTANTS
    Urls,             \* the URLs that may ever be registered
    Workers,          \* concurrent invocations of the scan function
    NoUrl,            \* no URL
    Requests,         \* concurrent user requests to rescan a URL
    Admins,           \* concurrent admin requests to rescan a source
    Cap,              \* Cap[s]: CrawlSource.max_concurrent_scans of s
    FunctionTimeout,  \* ticks after which the platform kills an invocation
    RequestTimeout,   \* ticks after which a user's request is given up
    FaultBudget       \* how many faults (see Fault) one behaviour may have

ASSUME CapAssumption == Cap \in [Sources -> Nat \ {0}]

ASSUME TimeoutAssumption == FunctionTimeout \in Nat /\ RequestTimeout \in Nat

\* app/core/config.py: the TTL is kept above the scan function's timeout.
ASSUME TTLAboveTimeout == FunctionTimeout < ClaimTTL

\* The shortest backoff is an hour, the timeout nine minutes.
ASSUME BackoffAboveTimeout == FunctionTimeout < Backoff

ASSUME FaultBudgetAssumption == FaultBudget \in Nat

ASSUME FiniteActors == IsFiniteSet(Urls) /\ IsFiniteSet(Workers)

ASSUME DistinctTargets ==
    /\ Urls \cap Sources = {}
    /\ NoUrl \notin Urls \union Sources

VARIABLES
    rows,      \* rows[u]: the row of URL u
    live,      \* the crawl sources that exist
    queue,     \* messages waiting: a source's wake-up or one URL's scan (a set:
               \* a second wake-up changes nothing until the first is taken)
    worker,    \* worker[w]: what invocation w is doing
    request,   \* request[q]: a user's rescan in progress
    reset,     \* reset[a]: an admin's rescan of a source, not committed yet
    faults     \* faults that may still happen

vars == <<rows, live, queue, worker, request, reset, faults>>

Targets == Sources \union Urls

\* "claiming": about to run claim_next_url; "fetching": holds a claim and no
\* transaction; "resting": stored a result, deciding whether to go on;
\* "locking": about to lock a submitted URL's row; "direct": fetching it with
\* the row locked.
WorkerState ==
    [pc     : {"idle", "claiming", "fetching", "resting", "locking", "direct"},
     msg    : Targets \union {NoUrl},
     source : Sources \union {NoSource},
     url    : Urls \union {NoUrl},
     age    : 0 .. FunctionTimeout]

IdleWorker ==
    [pc |-> "idle", msg |-> NoUrl, source |-> NoSource, url |-> NoUrl, age |-> 0]

\* `snap' is the ORM's copy of the row, loaded before the fetch.
RequestState ==
    [pc     : {"idle", "fetching", "applied"},
     url    : Urls \union {NoUrl},
     snap   : Row,
     result : ScanResult,
     age    : 0 .. RequestTimeout]

IdleRequest ==
    [pc |-> "idle", url |-> NoUrl, snap |-> AbsentRow, result |-> "error", age |-> 0]

\* Of each row an admin's rescan has loaded: what its commit will write.
ResetState ==
    [source  : Sources \union {NoSource},
     columns : [Urls -> SUBSET ResetColumn]]

IdleReset == [source |-> NoSource, columns |-> [u \in Urls |-> {}]]

\* Every variable keeps its type: ages stay under the platform's timeouts and
\* only sources and URLs are ever put in the queue.
TypeOK ==
    /\ rows \in [Urls -> Row]
    /\ live \subseteq Sources
    /\ queue \subseteq Targets
    /\ worker \in [Workers -> WorkerState]
    /\ request \in [Requests -> RequestState]
    /\ reset \in [Admins -> ResetState]
    /\ faults \in 0 .. FaultBudget

-----------------------------------------------------------------------------
Exists(u) == rows[u].status \notin Missing

\* SELECT ... FOR UPDATE by process_scan_job, held through its fetch.
Locked(u) == \E w \in Workers : worker[w].pc = "direct" /\ worker[w].url = u

PendingOf(s) == {u \in Urls : rows[u].status = "PENDING" /\ rows[u].source = s}

InFlight(s) == {u \in PendingOf(s) : FreshClaim(rows[u])}

\* SKIP LOCKED passes over a row process_scan_job holds.
Claimable(s) == {u \in PendingOf(s) : Unclaimed(rows[u]) /\ ~Locked(u)}

HasUnclaimedPending(s) == \E u \in PendingOf(s) : Unclaimed(rows[u])

Fetchers(s) ==
    {w \in Workers : worker[w].pc = "fetching" /\ worker[w].source = s}

Init ==
    /\ rows = [u \in Urls |-> AbsentRow]
    /\ live = Sources
    /\ queue = {}
    /\ worker = [w \in Workers |-> IdleWorker]
    /\ request = [q \in Requests |-> IdleRequest]
    /\ reset = [a \in Admins |-> IdleReset]
    /\ faults = FaultBudget

-----------------------------------------------------------------------------
(* Faults: an invocation dies, a publish fails, a message comes twice.     *)

Fault == faults > 0 /\ faults' = faults - 1

\* Publishing the messages ms either works or, as a fault, does not.
Publish(ms) ==
    \/ queue' = queue \union ms /\ UNCHANGED faults
    \/ ms # {} /\ Fault /\ UNCHANGED queue

\* A dead invocation never acked its message, which is delivered again; its
\* row lock, if any, goes with its connection; its claim stays.
Crash(w) ==
    /\ worker[w].pc # "idle"
    /\ Fault
    /\ worker' = [worker EXCEPT ![w] = IdleWorker]
    /\ queue' = queue \union {worker[w].msg}
    /\ UNCHANGED <<rows, live, request, reset>>

-----------------------------------------------------------------------------
(* Registering URLs.                                                       *)

\* A user submits a URL: a new row is committed, and only then published.
SubmitUrl(u) ==
    /\ rows[u].status = "ABSENT"
    /\ rows' = [rows EXCEPT ![u] = NewRow("PENDING", NoSource)]
    /\ Publish({u})
    /\ UNCHANGED <<live, worker, request, reset>>

\* Submitting a URL an uncapped crawl skipped asks for its scan.
SubmitSkippedUrl(u) ==
    /\ rows[u].status = "SKIPPED"
    /\ rows' = [rows EXCEPT ![u] = Unskip(@)]
    /\ Publish({u})
    /\ UNCHANGED <<live, worker, request, reset>>

\* A crawl records a URL its board lists, then wakes the source's lanes if
\* anything is left to scan (it always is when the new row is PENDING).
CrawlRegister(u, s) ==
    /\ s \in live
    /\ rows[u].status = "ABSENT"
    /\ \E status \in {"PENDING", "SKIPPED"} :
          /\ rows' = [rows EXCEPT ![u] = NewRow(status, s)]
          /\ Publish(IF status = "PENDING" \/ HasUnclaimedPending(s) THEN {s} ELSE {})
    /\ UNCHANGED <<live, worker, request, reset>>

\* record_board_presence: a crawl stops listing the URL, or lists it again.
BoardPresence(u) ==
    /\ Exists(u) /\ ~Locked(u)
    /\ rows[u].source \in live
    /\ rows' = [rows EXCEPT ![u].closed = ~@]
    /\ UNCHANGED <<live, queue, worker, request, faults, reset>>

-----------------------------------------------------------------------------
(* A scan worker.                                                          *)

\* Pub/Sub hands a message to an idle worker, and may do so again.  One
\* URL's message is a wake-up for its source when it has one.
Deliver(w, m) ==
    /\ worker[w].pc = "idle"
    /\ m \in queue
    /\ \/ queue' = queue \ {m} /\ UNCHANGED faults
       \/ UNCHANGED queue /\ Fault
    /\ LET s == IF m \in Sources THEN m ELSE rows[m].source
       IN  worker' = [worker EXCEPT ![w] =
              IF s # NoSource
              THEN [IdleWorker EXCEPT !.pc = "claiming", !.msg = m, !.source = s]
              ELSE [IdleWorker EXCEPT !.pc = "locking", !.msg = m, !.url = m]]
    /\ UNCHANGED <<rows, live, request, reset>>

Finish(w) == worker' = [worker EXCEPT ![w] = IdleWorker]

\* Mutant: the cap is not looked at.
ClaimNextUrlUncapped(w) ==
    LET s == worker[w].source
    IN  /\ worker[w].pc = "claiming"
        /\ IF s \in live /\ Claimable(s) # {}
           THEN \E u \in Claimable(s) :
                   /\ rows' = [rows EXCEPT ![u].claim = 0]
                   /\ worker' = [worker EXCEPT ![w].pc = "fetching", ![w].url = u]
           ELSE Finish(w) /\ UNCHANGED rows
        /\ UNCHANGED <<live, queue, request, faults, reset>>

\* Mutant: the claim is not written down.
ClaimNextUrlUnrecorded(w) ==
    LET s == worker[w].source
    IN  /\ worker[w].pc = "claiming"
        /\ IF /\ s \in live
              /\ Cardinality(InFlight(s)) < Cap[s]
              /\ Claimable(s) # {}
           THEN \E u \in Claimable(s) :
                   worker' = [worker EXCEPT ![w].pc = "fetching", ![w].url = u]
           ELSE Finish(w)
        /\ UNCHANGED <<rows, live, queue, request, faults, reset>>

\* claim_next_url, serialised by the lock on the source's row.  Which of the
\* unclaimed URLs is the oldest is left open.
ClaimNextUrl(w) ==
    LET s == worker[w].source
    IN  /\ worker[w].pc = "claiming"
        /\ IF /\ s \in live
              /\ Cardinality(InFlight(s)) < Cap[s]
              /\ Claimable(s) # {}
           THEN \E u \in Claimable(s) :
                   /\ rows' = [rows EXCEPT ![u].claim = 0]
                   /\ worker' = [worker EXCEPT ![w].pc = "fetching", ![w].url = u]
           ELSE Finish(w) /\ UNCHANGED rows
        /\ UNCHANGED <<live, queue, request, faults, reset>>

\* Back from the fetch, with the row locked: a result is stored only while
\* the row is still PENDING.  A result that cannot be stored counts as a
\* failed scan.
StoreResult(w, result) ==
    LET u == worker[w].url
    IN  /\ worker[w].pc = "fetching"
        /\ ~Locked(u)
        /\ rows' = [rows EXCEPT ![u] =
                       IF @.status = "PENDING" THEN ApplyScanResult(@, result) ELSE @]
        /\ worker' = [worker EXCEPT ![w].pc = "resting", ![w].url = NoUrl]
        /\ UNCHANGED <<live, queue, request, faults, reset>>

LaneContinues(w) ==
    /\ worker[w].pc = "resting"
    /\ worker' = [worker EXCEPT ![w].pc = "claiming"]
    /\ UNCHANGED <<rows, live, queue, request, faults, reset>>

\* Mutant: the wake-up names the URL the lane was on.
LaneDeadlineByUrl(w) ==
    /\ worker[w].pc = "resting"
    /\ Finish(w)
    /\ queue' = IF HasUnclaimedPending(worker[w].source)
                THEN queue \union {worker[w].url} ELSE queue
    /\ UNCHANGED <<rows, live, request, faults, reset>>

\* The lane's time is up: it leaves a wake-up behind if there is work left.
\* If that cannot be published, the lane's own message is delivered again.
LaneDeadline(w) ==
    LET s == worker[w].source
    IN  /\ worker[w].pc = "resting"
        /\ Finish(w)
        /\ IF HasUnclaimedPending(s)
           THEN \/ queue' = queue \union {s} /\ UNCHANGED faults
                \/ queue' = queue \union {worker[w].msg} /\ Fault
           ELSE UNCHANGED <<queue, faults>>
        /\ UNCHANGED <<rows, live, request, reset>>

\* process_scan_job: lock the row; a duplicate delivery waits here, then
\* finds the row is no longer PENDING.
LockSubmittedUrl(w) ==
    LET u == worker[w].url
    IN  /\ worker[w].pc = "locking"
        /\ ~Locked(u)
        /\ IF rows[u].status = "PENDING"
           THEN worker' = [worker EXCEPT ![w].pc = "direct"]
           ELSE Finish(w)
        /\ UNCHANGED <<rows, live, queue, request, faults, reset>>

\* The board the URL belongs to, if recognised, takes it over in the same
\* transaction that stores the result.
FinishSubmittedUrl(w, result) ==
    LET u == worker[w].url
    IN  /\ worker[w].pc = "direct"
        /\ \E s \in IF rows[u].source = NoSource THEN live \union {NoSource}
                    ELSE {rows[u].source} :
              rows' = [rows EXCEPT ![u] = ApplyScanResult([@ EXCEPT !.source = s], result)]
        /\ Finish(w)
        /\ UNCHANGED <<live, queue, request, faults, reset>>

-----------------------------------------------------------------------------
(* Sweeps.                                                                 *)

RetryDue(u) == rows[u].status = "FAILED" /\ rows[u].retry = 0 /\ ~rows[u].closed

\* wake_retryable_failed_scans: reset every due row and commit; publish those
\* with no source one by one, a failed publish being logged and skipped.
RetrySweep ==
    LET due    == {u \in Urls : RetryDue(u)}
        single == {u \in due : rows[u].source = NoSource}
    IN  /\ due # {}
        /\ rows' = [u \in Urls |-> IF u \in due THEN RetryReset(rows[u]) ELSE rows[u]]
        /\ \/ queue' = queue \union single /\ UNCHANGED faults
           \/ \E lost \in single : queue' = queue \union (single \ {lost}) /\ Fault
        /\ UNCHANGED <<live, worker, request, reset>>

\* wake_sources_with_pending_scans, run by the dispatcher and after every
\* retry sweep, for one source.
WakeSource(s) ==
    /\ s \in live
    /\ PendingOf(s) # {}
    /\ queue' = queue \union {s}
    /\ UNCHANGED <<rows, live, worker, request, faults, reset>>

-----------------------------------------------------------------------------
(* Time passes, within the limits the platform enforces.                   *)

Tick ==
    /\ \A w \in Workers : worker[w].pc # "idle" => worker[w].age < FunctionTimeout
    /\ \A q \in Requests : request[q].pc # "idle" => request[q].age < RequestTimeout
    /\ rows' = [u \in Urls |-> AgeRow(rows[u])]
    /\ worker' = [w \in Workers |->
                    IF worker[w].pc = "idle" THEN worker[w]
                    ELSE [worker[w] EXCEPT !.age = @ + 1]]
    /\ request' = [q \in Requests |->
                    IF request[q].pc = "idle" THEN request[q]
                    ELSE [request[q] EXCEPT !.age = @ + 1]]
    /\ UNCHANGED <<live, queue, faults, reset>>

-----------------------------------------------------------------------------
(* People: a user rescans one URL; an admin rescans or deletes a source, or*)
(* deletes a listing.                                                      *)

\* What is kept of the loaded row: of its timestamps, whether they are NULL.
Loaded(r) ==
    [r EXCEPT !.claim = IF @ = NoClaim THEN @ ELSE 0,
              !.retry = IF @ = NoRetry THEN @ ELSE 0]

\* The request loads the row, with no lock, and fetches the page.
RescanStart(q, u) ==
    /\ request[q].pc = "idle"
    /\ Exists(u)
    /\ request' = [request EXCEPT ![q] =
          [IdleRequest EXCEPT !.pc = "fetching", !.url = u, !.snap = Loaded(rows[u])]]
    /\ UNCHANGED <<rows, live, queue, worker, faults, reset>>

\* The result is applied to the copy; only the posting is read afresh.
RescanApply(q, result) ==
    LET u == request[q].url
    IN  /\ request[q].pc = "fetching"
        /\ Exists(u)
        /\ request' = [request EXCEPT ![q].pc = "applied",
                                      ![q].snap.posting = rows[u].posting,
                                      ![q].snap.full = rows[u].full,
                                      ![q].result = result]
        /\ UNCHANGED <<rows, live, queue, worker, faults, reset>>

\* The ORM writes the columns whose value differs from the loaded one, and
\* leaves the others as they are by now.  A new next_retry_at always differs,
\* a new description perhaps (`rewritten').
WriteChanged(row, snap, after, rewritten) ==
    LET Column(now, loaded, new) == IF new = loaded THEN now ELSE new
    IN  [row EXCEPT
           !.status   = Column(@, snap.status, after.status),
           !.claim    = Column(@, snap.claim, after.claim),
           !.attempts = Column(@, snap.attempts, after.attempts),
           !.retry    = IF after.retry # NoRetry THEN after.retry
                        ELSE Column(@, snap.retry, after.retry),
           !.closed   = Column(@, snap.closed, after.closed),
           !.posting  = Column(@, snap.posting, after.posting),
           !.full     = IF rewritten THEN after.full
                        ELSE Column(@, snap.full, after.full)]

\* The copy's failure count starts again from 0 before the result is applied.
RescanFlush(q) ==
    LET u     == request[q].url
        snap  == request[q].snap
        after == ApplyScanResult([snap EXCEPT !.attempts = 0], request[q].result)
        described == \/ request[q].result = "success"
                     \/ request[q].result \in {"incomplete", "teaser"} /\ ~snap.full
    IN  /\ request[q].pc = "applied"
        /\ Exists(u) /\ ~Locked(u)
        /\ \E rewritten \in BOOLEAN :
              /\ rewritten => described
              /\ rows' = [rows EXCEPT ![u] = WriteChanged(@, snap, after, rewritten)]
        /\ request' = [request EXCEPT ![q] = IdleRequest]
        /\ UNCHANGED <<live, queue, worker, faults, reset>>

\* The request fails, its row is gone, or its client gives up: rolled back.
RescanAbort(q) ==
    /\ request[q].pc # "idle"
    /\ request' = [request EXCEPT ![q] = IdleRequest]
    /\ UNCHANGED <<rows, live, queue, worker, faults, reset>>

\* rescan_crawl_source loads every row of the source, whatever it is doing,
\* with no lock, and resets the copies.
ResetStart(a, s) ==
    LET all == {u \in Urls : Exists(u) /\ rows[u].source = s}
    IN  /\ reset[a] = IdleReset
        /\ s \in live
        /\ all # {}
        /\ reset' = [reset EXCEPT ![a] =
              [source  |-> s,
               columns |-> [u \in Urls |-> IF u \in all THEN ResetColumns(rows[u]) ELSE {}]]]
        /\ UNCHANGED <<rows, live, queue, worker, request, faults>>

\* Its commit writes the changed columns, and fails if one of those rows is
\* gone.  The wake-up comes after it; the source has to exist for that.
ResetCommit(a) ==
    LET columns == reset[a].columns
    IN  /\ reset[a] # IdleReset
        /\ \A u \in Urls : columns[u] # {} => Exists(u) /\ ~Locked(u)
        /\ rows' = [u \in Urls |-> ResetInto(rows[u], columns[u])]
        /\ reset' = [reset EXCEPT ![a] = IdleReset]
        /\ Publish({reset[a].source} \cap live)
        /\ UNCHANGED <<live, worker, request>>

\* It fails, or its client gives up: rolled back.
ResetAbort(a) ==
    /\ reset[a] # IdleReset
    /\ reset' = [reset EXCEPT ![a] = IdleReset]
    /\ UNCHANGED <<rows, live, queue, worker, request, faults>>

\* ON DELETE SET NULL: the rows stay, without a source.
DeleteSource(s) ==
    /\ s \in live
    /\ \A u \in Urls : rows[u].source = s => ~Locked(u)
    /\ live' = live \ {s}
    /\ rows' = [u \in Urls |-> IF rows[u].source = s
                               THEN [rows[u] EXCEPT !.source = NoSource] ELSE rows[u]]
    /\ UNCHANGED <<queue, worker, request, faults, reset>>

DeleteListing(u) ==
    /\ Exists(u) /\ ~Locked(u)
    /\ rows' = [rows EXCEPT ![u] = GoneRow]
    /\ UNCHANGED <<live, queue, worker, request, faults, reset>>

-----------------------------------------------------------------------------
\* What the system does by itself, and new URLs.
SystemNext ==
    \/ \E u \in Urls : SubmitUrl(u) \/ SubmitSkippedUrl(u) \/ BoardPresence(u)
    \/ \E u \in Urls, s \in Sources : CrawlRegister(u, s)
    \/ \E w \in Workers, m \in Targets : Deliver(w, m)
    \/ \E w \in Workers : ClaimNextUrl(w) \/ LaneContinues(w) \/ LaneDeadline(w)
    \/ \E w \in Workers : LockSubmittedUrl(w) \/ Crash(w)
    \/ \E w \in Workers, r \in ScanResult : StoreResult(w, r) \/ FinishSubmittedUrl(w, r)
    \/ \E s \in Sources : WakeSource(s)
    \/ RetrySweep
    \/ Tick

\* What people do to URLs that are already there.
HumanNext ==
    \/ \E q \in Requests, u \in Urls : RescanStart(q, u)
    \/ \E q \in Requests, r \in ScanResult : RescanApply(q, r)
    \/ \E q \in Requests : RescanFlush(q) \/ RescanAbort(q)
    \/ \E a \in Admins, s \in Sources : ResetStart(a, s)
    \/ \E a \in Admins : ResetCommit(a) \/ ResetAbort(a)
    \/ \E s \in Sources : DeleteSource(s)
    \/ \E u \in Urls : DeleteListing(u)

Next == SystemNext \/ HumanNext

Spec == Init /\ [][Next]_vars

\* The pipeline left to itself: nobody rescans or deletes.
SystemSpec == Init /\ [][SystemNext]_vars

WorkerStep(w) ==
    \/ ClaimNextUrl(w) \/ LaneContinues(w) \/ LaneDeadline(w) \/ LockSubmittedUrl(w)
    \/ \E r \in ScanResult : StoreResult(w, r) \/ FinishSubmittedUrl(w, r)

\* Time passes, an invocation goes on unless it dies, Pub/Sub eventually hands
\* out what it holds, and Cloud Scheduler keeps starting the sweeps.
Fairness ==
    /\ SF_vars(Tick)
    /\ \A w \in Workers : WF_vars(WorkerStep(w))
    /\ \A m \in Targets : SF_vars(\E w \in Workers : Deliver(w, m))
    /\ WF_vars(RetrySweep)
    /\ \A s \in Sources : WF_vars(WakeSource(s))

FairSystemSpec == SystemSpec /\ Fairness

-----------------------------------------------------------------------------
(* Properties.                                                             *)

\* A source never has more fresh claims than its cap, whoever submits, deletes
\* or rescans rows meanwhile, as long as users' and admins' rescans do not
\* meet: claim_next_url's count-then-claim.
ClaimCap == \A s \in Sources : Cardinality(InFlight(s)) <= Cap[s]

\* The politeness cap itself: at most Cap[s] lanes are fetching a page of s.
FetchCap == \A s \in Sources : Cardinality(Fetchers(s)) <= Cap[s]

\* The same of the pages whose rows are still there, since a row that is
\* deleted takes its claim along.
ListedFetchCap ==
    \A s \in Sources :
        Cardinality({w \in Fetchers(s) : Exists(worker[w].url)}) <= Cap[s]

\* A lane that is still fetching is never mistaken for a dead one: its URL is
\* PENDING under a claim no older than the lane, and no other lane has it.
LiveClaimHonoured ==
    \A w \in Workers : worker[w].pc = "fetching" =>
        /\ worker[w].url \in InFlight(worker[w].source)
        /\ rows[worker[w].url].claim <= worker[w].age
        /\ \A v \in Workers \ {w} :
              worker[v].pc = "fetching" => worker[v].url # worker[w].url

\* The retry record of one row agrees with its status.
BooksAgree(r) ==
    /\ r.retry # NoRetry <=> r.status = "FAILED"
    /\ r.status = "NEEDS_REVIEW" => r.attempts = MaxAttempts
    /\ r.status \in {"SUCCESS", "SKIPPED"} => r.attempts = 0
    /\ r.status \in {"PENDING", "FAILED"} => r.attempts < MaxAttempts

\* An admin's rescan commits although the row has changed since it was loaded,
\* so that it resets some columns of it and leaves others.
HalfReset(u) ==
    \E a \in Admins :
        /\ ResetCommit(a) /\ reset[a].columns[u] # {}
        /\ ~(ResetColumns(rows[u]) \ {"claim"} \subseteq reset[a].columns[u])

BooksStay(u) == BooksAgree(rows[u]) => BooksAgree(rows'[u]) \/ HalfReset(u)

\* No step makes a row's retry record disagree with its status, except the
\* commit of an admin's rescan that resets half of a row: next_retry_at is set
\* exactly while the row waits for an automatic retry, and the failure budget
\* is spent exactly when the row gave up.
RetryBookkeeping == [][\A u \in Urls : BooksStay(u)]_vars

\* A posting is never left waiting for a scan nobody will run: while it says
\* PENDING, so does its row.
PostingFollowsRow ==
    \A u \in Urls : Exists(u) /\ rows[u].posting = "PENDING" => rows[u].status = "PENDING"

\* A step leaves a good posting good, unless the site took the job down.
GoodStays(u) ==
    rows[u].posting = "SUCCESS" /\ rows'[u].status # "GONE" => rows'[u].posting = "SUCCESS"

\* A posting that has good data is not clobbered by a later scan.
GoodPostingKept == [][\A u \in Urls : GoodStays(u)]_vars

\* The pipeline is a fetch limiter, as long as nobody resets claimed rows.
Limiter == INSTANCE FetchLimiter
             WITH fetching <- [s \in Sources |-> {worker[w].url : w \in Fetchers(s)}]

Throttled == Limiter!Spec

\* Every URL waiting in a source's queue ends up scanned, given up on, or
\* closed while waiting for a retry, although wake-ups get lost and lanes die.
CrawledUrlSettles ==
    \A u \in Urls :
        rows[u].status = "PENDING" /\ rows[u].source # NoSource
          ~> \/ rows[u].status \in {"SUCCESS", "NEEDS_REVIEW"}
             \/ rows[u].status = "FAILED" /\ rows[u].closed

\* A URL someone submitted is not left waiting for its scan forever.
SubmittedUrlScanned ==
    \A u \in Urls :
        rows[u].status = "PENDING" /\ rows[u].source = NoSource
          ~> rows[u].status # "PENDING"

=============================================================================
