----------------------------- MODULE BoardCrawl -----------------------------
(***************************************************************************)
(* Crawling one board (one CrawlSource): the dispatcher claims the source  *)
(* and publishes a crawl message, a crawl worker lists the board, registers*)
(* the URLs it had not seen, and records which of the known ones are still *)
(* listed; a URL missing from two crawls closes, at a bounded daily rate.  *)
(*                                                                         *)
(* Boards do not interact: every statement of this code is restricted to   *)
(* one source.  Several crawls of the same board may run at once, though   *)
(* (an admin's request, a redelivered message, a message that waited out   *)
(* the claim), each with a listing of its own that may be old by the time  *)
(* it is recorded.  Times are ages and countdowns in ticks.                *)
(***************************************************************************)
EXTENDS Integers, FiniteSets

CONSTANTS
    Urls,             \* URLs that come and go on the board (others stay listed)
    Crawlers,         \* concurrent invocations of the crawl function
    ClaimTTL,         \* settings.crawl_claim_ttl_seconds
    MinInterval,      \* the shortest wait: crawl_min_interval_minutes, less its jitter
    FunctionTimeout,  \* ticks after which the platform kills a crawl
    DispatchTimeout,  \* ticks after which it kills a dispatcher run
    Gap,              \* SECOND_MISS_MIN_GAP
    Window,           \* CLOSE_WINDOW
    CloseMin,         \* MAX_DAILY_CLOSE_MIN
    ShareDivisor,     \* 1 / MAX_DAILY_CLOSE_FRACTION
    MessageBound,     \* most messages waiting in one behaviour
    FaultBudget       \* most faults (see Fault) in one behaviour

ASSUME TimesAssumption ==
    /\ {ClaimTTL, Gap, Window, CloseMin, ShareDivisor} \subseteq Nat \ {0}
    /\ {FunctionTimeout, DispatchTimeout, MessageBound, FaultBudget} \subseteq Nat

\* A crawl is not due again before its claim would have run out anyway: two
\* hours against ten minutes.
ASSUME IntervalAboveTTL == MinInterval \in Nat /\ ClaimTTL <= MinInterval

\* One hour against nine minutes.
ASSUME GapAboveTimeout == FunctionTimeout < Gap

ASSUME FiniteUrls == IsFiniteSet(Urls)

VARIABLES
    rows,        \* rows[u]: what job_posting_urls knows of URL u
    claim,       \* how long ago crawl_claimed_at was set
    next,        \* how long until next_crawl_at
    run,         \* age of the dispatcher run that found the source due
    messages,    \* crawl messages waiting
    crawler,     \* crawler[w]: what invocation w is doing
    dispatched,  \* how long ago the last run to publish started (history)
    faults       \* faults that may still happen

vars == <<rows, claim, next, run, messages, crawler, dispatched, faults>>

None == -1      \* a NULL timestamp

\* `owner': not registered, without a source, or the board's.  `byCrawl' is a
\* history variable: the row was closed by a crawl, not by a scan.
BoardRow ==
    [owner   : {"nobody", "user", "board"},
     missing : None .. Gap,
     closed  : None .. Window,
     byCrawl : BOOLEAN]

NewBoardRow(owner) ==
    [owner |-> owner, missing |-> None, closed |-> None, byCrawl |-> FALSE]

\* `claimed': the source had a claim when the crawl loaded it; `new': what it
\* listed and found not registered; `healthy': it plausibly saw the whole
\* board; `missed' and `closing': what it is about to mark and to close, as
\* of the age it had at `read'.
CrawlerState ==
    [pc      : {"idle", "listing", "registering", "recording", "writing"},
     listing : SUBSET Urls,
     new     : SUBSET Urls,
     missed  : SUBSET Urls,
     closing : SUBSET Urls,
     healthy : BOOLEAN,
     claimed : BOOLEAN,
     age     : 0 .. FunctionTimeout,
     read    : 0 .. FunctionTimeout]

IdleCrawler ==
    [pc |-> "idle", listing |-> {}, new |-> {}, missed |-> {}, closing |-> {},
     healthy |-> FALSE, claimed |-> FALSE, age |-> 0, read |-> 0]

\* Every variable keeps its type: in particular the next crawl is never
\* scheduled in the past, and ages stay under the platform's timeouts.
TypeOK ==
    /\ rows \in [Urls -> BoardRow]
    /\ claim \in None .. ClaimTTL
    /\ next \in 0 .. MinInterval
    /\ run \in None .. DispatchTimeout
    /\ messages \in Nat
    /\ crawler \in [Crawlers -> CrawlerState]
    /\ dispatched \in 0 .. ClaimTTL
    /\ faults \in 0 .. FaultBudget

Init ==
    /\ rows = [u \in Urls |-> NewBoardRow("nobody")]
    /\ claim = None
    /\ next = 0
    /\ run = None
    /\ messages = 0
    /\ crawler = [w \in Crawlers |-> IdleCrawler]
    /\ dispatched = ClaimTTL
    /\ faults = FaultBudget

Known == {u \in Urls : rows[u].owner # "nobody"}

Fault == faults > 0 /\ faults' = faults - 1

-----------------------------------------------------------------------------
(* Dispatch.                                                               *)

\* The run reads which sources are due and unclaimed, once, at its start.
PickDue ==
    /\ run = None
    /\ claim \in {None, ClaimTTL}
    /\ next = 0
    /\ run' = 0
    /\ UNCHANGED <<rows, claim, next, messages, crawler, dispatched, faults>>

\* When it gets to this one it claims it, as of that start, and publishes.
Dispatch ==
    LET since == IF run < ClaimTTL THEN run ELSE ClaimTTL
    IN  /\ run # None
        /\ claim' = since
        /\ dispatched' = since
        /\ run' = None
        /\ \/ messages < MessageBound /\ messages' = messages + 1 /\ UNCHANGED faults
           \/ Fault /\ UNCHANGED messages
        /\ UNCHANGED <<rows, next, crawler>>

\* The run dies, or its time is up.
DispatcherDies ==
    /\ run # None
    /\ run' = None
    /\ UNCHANGED <<rows, claim, next, messages, crawler, dispatched, faults>>

\* An admin asks for a crawl now; nobody claims anything.
TriggerCrawl ==
    /\ messages < MessageBound
    /\ messages' = messages + 1
    /\ UNCHANGED <<rows, claim, next, run, crawler, dispatched, faults>>

-----------------------------------------------------------------------------
(* A crawl.                                                                *)

\* Pub/Sub hands out a message, and may do so again.
StartCrawl(w) ==
    /\ crawler[w].pc = "idle"
    /\ messages > 0
    /\ \/ messages' = messages - 1 /\ UNCHANGED faults
       \/ UNCHANGED messages /\ Fault
    /\ crawler' = [crawler EXCEPT ![w] =
          [IdleCrawler EXCEPT !.pc = "listing", !.claimed = claim # None]]
    /\ UNCHANGED <<rows, claim, next, run, dispatched>>

\* The ORM clears a claim it has loaded; if it has loaded none it writes none.
ClaimAfter(w) == IF crawler[w].claimed THEN None ELSE claim

\* Mutant: the next crawl is scheduled in the past.
ScheduleNextCrawlOverdue == -1

\* The interval adapts, between the configured minimum and maximum; a longer
\* one is a later dispatch.
ScheduleNextCrawl == MinInterval

\* Mutant: a failed listing does not reschedule.
ListingFailsUnscheduled(w) ==
    /\ crawler[w].pc = "listing"
    /\ claim' = ClaimAfter(w)
    /\ crawler' = [crawler EXCEPT ![w] = IdleCrawler]
    /\ UNCHANGED <<rows, next, run, messages, dispatched, faults>>

ListingFails(w) ==
    /\ crawler[w].pc = "listing"
    /\ claim' = ClaimAfter(w)
    /\ next' = ScheduleNextCrawl
    /\ crawler' = [crawler EXCEPT ![w] = IdleCrawler]
    /\ UNCHANGED <<rows, run, messages, dispatched, faults>>

\* The adapter lists the board, or part of it, knowingly or not, and the
\* crawl looks up which of those URLs are registered already.  A healthy
\* listing is never empty; it may have none of these URLs.
ListBoard(w) ==
    /\ crawler[w].pc = "listing"
    /\ \E listing \in SUBSET Urls, healthy \in BOOLEAN :
          crawler' = [crawler EXCEPT ![w].pc = "registering",
              ![w].listing = listing, ![w].healthy = healthy, ![w].new = listing \ Known]
    /\ UNCHANGED <<rows, claim, next, run, messages, dispatched, faults>>

Register(w) ==
    /\ crawler[w].pc = "registering"
    /\ crawler[w].new \cap Known = {}
    /\ rows' = [u \in Urls |-> IF u \in crawler[w].new THEN NewBoardRow("board")
                                                       ELSE rows[u]]
    /\ claim' = ClaimAfter(w)
    /\ next' = ScheduleNextCrawl
    /\ crawler' = [crawler EXCEPT ![w].pc = "recording", ![w].new = {},
                                  ![w].claimed = FALSE]
    /\ UNCHANGED <<run, messages, dispatched, faults>>

\* Someone else registered one of them meanwhile: nothing is inserted, and the
\* rollback makes the ORM load the source again.
RegisterConflict(w) ==
    /\ crawler[w].pc = "registering"
    /\ crawler[w].new \cap Known # {}
    /\ claim' = None
    /\ next' = ScheduleNextCrawl
    /\ crawler' = [crawler EXCEPT ![w].pc = "recording", ![w].new = {},
                                  ![w].claimed = FALSE, ![w].healthy = FALSE]
    /\ UNCHANGED <<rows, run, messages, dispatched, faults>>

-----------------------------------------------------------------------------
(* Recording presence: one transaction, but its reads are not locked, so   *)
(* another crawl's may come between them and the writes based on them.     *)
(* Rows seen on the board are stamped as of the reads: a crawl that would  *)
(* not have seen the stamps yet is one that reads first.                   *)

\* The rows after the crawl's URLs are stamped as seen.
Stamped(listing) ==
    [u \in Urls |-> IF rows[u].owner = "board" /\ u \in listing
                    THEN NewBoardRow("board") ELSE rows[u]]

OpenRows(r) == {u \in Urls : r[u].owner = "board" /\ r[u].closed = None}

ClosedRecently(r) ==
    {u \in Urls : r[u].owner = "board" /\ r[u].closed \in 0 .. Window - 1}

Share(r) == Cardinality(OpenRows(r) \union ClosedRecently(r)) \div ShareDivisor

DailyLimit(r) == IF Share(r) > CloseMin THEN Share(r) ELSE CloseMin

\* Mutant: what was closed earlier in the window is not counted.
AllowedClosuresPerCrawl(r) == DailyLimit(r)

AllowedClosures(r) ==
    LET left == DailyLimit(r) - Cardinality(ClosedRecently(r))
    IN  IF left > 0 THEN left ELSE 0

\* Mutant: any earlier miss will do.
SecondMissAtOnce(r) == r.missing # None

SecondMiss(r) == r.missing = Gap

\* What a healthy crawl may close: as many of the rows it missed for the
\* second time as the limit allows.  The code takes the longest missing.
Closures(r, unlisted) ==
    LET due     == {u \in unlisted : SecondMiss(r[u])}
        allowed == AllowedClosures(r)
    IN  {c \in SUBSET due :
            Cardinality(c) = IF Cardinality(due) > allowed THEN allowed ELSE Cardinality(due)}

ReadPresence(w) ==
    LET seen     == Stamped(crawler[w].listing)
        unlisted == IF crawler[w].healthy
                    THEN OpenRows(seen) \ crawler[w].listing ELSE {}
    IN  /\ crawler[w].pc = "recording"
        /\ rows' = seen
        /\ \E closing \in Closures(seen, unlisted) :
              crawler' = [crawler EXCEPT ![w].pc = "writing",
                  ![w].read = crawler[w].age,
                  ![w].listing = {},
                  ![w].healthy = FALSE,
                  ![w].missed = {u \in unlisted : seen[u].missing = None},
                  ![w].closing = closing]
        /\ UNCHANGED <<claim, next, run, messages, dispatched, faults>>

\* The rows are updated by their ids, whatever they have become, and dated
\* back to the reads.
WritePresence(w) ==
    LET since == crawler[w].age - crawler[w].read
    IN  /\ crawler[w].pc = "writing"
        /\ rows' = [u \in Urls |->
              IF u \in crawler[w].closing
              THEN [rows[u] EXCEPT !.closed = IF since < Window THEN since ELSE Window,
                                   !.byCrawl = TRUE]
              ELSE IF u \in crawler[w].missed
              THEN [rows[u] EXCEPT !.missing = since]
              ELSE rows[u]]
        /\ crawler' = [crawler EXCEPT ![w] = IdleCrawler]
        /\ UNCHANGED <<claim, next, run, messages, dispatched, faults>>

\* A failure here, which undoes the stamps too, is logged; the crawl itself stands.
RecordingFails(w) ==
    /\ crawler[w].pc = "recording"
    /\ Fault
    /\ crawler' = [crawler EXCEPT ![w] = IdleCrawler]
    /\ UNCHANGED <<rows, claim, next, run, messages, dispatched>>

\* The invocation dies; its message comes again.  Dying while it writes is
\* dying before it reads: nothing of that transaction stays.
CrawlDies(w) ==
    /\ crawler[w].pc \in {"listing", "registering", "recording"}
    /\ Fault
    /\ crawler' = [crawler EXCEPT ![w] = IdleCrawler]
    /\ messages' = messages + 1
    /\ UNCHANGED <<rows, claim, next, run, dispatched>>

-----------------------------------------------------------------------------
(* The rest of the system, as far as these rows go.                        *)

\* A user submits the URL before any crawl found it.
SubmitUrl(u) ==
    /\ rows[u].owner = "nobody"
    /\ rows' = [rows EXCEPT ![u] = NewBoardRow("user")]
    /\ UNCHANGED <<claim, next, run, messages, crawler, dispatched, faults>>

\* Its scan recognises the board it belongs to.
Attribute(u) ==
    /\ rows[u].owner = "user"
    /\ rows' = [rows EXCEPT ![u].owner = "board"]
    /\ UNCHANGED <<claim, next, run, messages, crawler, dispatched, faults>>

\* A scan finds the posting gone.
ScanExpires(u) ==
    /\ rows[u].owner # "nobody"
    /\ rows[u].closed = None
    /\ rows' = [rows EXCEPT ![u].closed = 0, ![u].byCrawl = FALSE]
    /\ UNCHANGED <<claim, next, run, messages, crawler, dispatched, faults>>

\* A successful scan reopens a row no crawl is in charge of.
ScanReopens(u) ==
    /\ rows[u].owner = "user"
    /\ rows[u].closed # None
    /\ rows' = [rows EXCEPT ![u].closed = None, ![u].byCrawl = FALSE]
    /\ UNCHANGED <<claim, next, run, messages, crawler, dispatched, faults>>

\* One tick older, up to the age at which it no longer matters.
Older(t, limit) == IF t \in 0 .. limit - 1 THEN t + 1 ELSE t

Tick ==
    /\ \A w \in Crawlers : crawler[w].pc # "idle" => crawler[w].age < FunctionTimeout
    /\ run < DispatchTimeout
    /\ rows' = [u \in Urls |-> [rows[u] EXCEPT !.missing = Older(@, Gap),
                                               !.closed = Older(@, Window)]]
    /\ claim' = Older(claim, ClaimTTL)
    /\ next' = IF next > 0 THEN next - 1 ELSE 0
    /\ run' = Older(run, DispatchTimeout)
    /\ crawler' = [w \in Crawlers |-> IF crawler[w].pc = "idle" THEN crawler[w]
                                      ELSE [crawler[w] EXCEPT !.age = @ + 1]]
    /\ dispatched' = Older(dispatched, ClaimTTL)
    /\ UNCHANGED <<messages, faults>>

Next ==
    \/ PickDue \/ Dispatch \/ DispatcherDies \/ TriggerCrawl \/ Tick
    \/ \E w \in Crawlers :
          \/ StartCrawl(w) \/ ListingFails(w) \/ ListBoard(w)
          \/ Register(w) \/ RegisterConflict(w)
          \/ ReadPresence(w) \/ WritePresence(w)
          \/ RecordingFails(w) \/ CrawlDies(w)
    \/ \E u \in Urls : SubmitUrl(u) \/ Attribute(u) \/ ScanExpires(u) \/ ScanReopens(u)

Spec == Init /\ [][Next]_vars

-----------------------------------------------------------------------------
(* Properties.                                                             *)

\* No pile-up: a run takes up a source only when the last run that published a
\* crawl for it started at least a claim's lifetime ago, although any crawl
\* that ends, of whatever message, clears the claim.
DispatchSpaced == [][run = None /\ run' # None => dispatched >= ClaimTTL]_vars

\* A crawl decides to close a URL only on a miss recorded before that crawl
\* began: a redelivered or overlapping crawl never supplies both misses.
TwoListingsToClose ==
    [][\A w \in Crawlers : \A u \in crawler'[w].closing \ crawler[w].closing :
          rows[u].missing > crawler[w].age]_vars

\* Whatever the listings of its crawls say, crawls have closed no more of the
\* board within the window than its daily share.  (True of crawls that do not
\* overlap: two that do may each spend what is left of it.)
DailyShareKept ==
    Cardinality({u \in ClosedRecently(rows) : rows[u].byCrawl}) <= DailyLimit(rows)

=============================================================================
