------------------------------ MODULE ScanRows ------------------------------
(***************************************************************************)
(* One row of job_posting_urls together with its posting, and what the     *)
(* scan code does to it: store a scan result, count a failure, put the row *)
(* back in the queue.  Every operator returns the row after the write; the *)
(* state machines that use them decide who writes, when, and under which   *)
(* lock.                                                                   *)
(*                                                                         *)
(* Times are kept as ages and countdowns in ticks of an arbitrary length,  *)
(* so that no absolute clock is needed: `claim' is how long ago            *)
(* scan_claimed_at was set (it stops growing at ClaimTTL, where the claim  *)
(* counts as abandoned) and `retry' is how long until next_retry_at.       *)
(***************************************************************************)
EXTENDS Integers

CONSTANTS
    Sources,      \* crawl sources (boards)
    NoSource,     \* crawl_source_id IS NULL
    ClaimTTL,     \* settings.scan_claim_ttl_seconds
    Backoff,      \* settings.scan_retry_base_seconds, the shortest wait
    MaxAttempts   \* settings.scan_retry_max_attempts

ASSUME NoSourceAssumption == NoSource \notin Sources

ASSUME TimingAssumption ==
    /\ ClaimTTL \in Nat \ {0}
    /\ Backoff \in Nat \ {0}

ASSUME MaxAttemptsAssumption == MaxAttempts \in Nat \ {0}

NoClaim == -1     \* scan_claimed_at IS NULL
NoRetry == -1     \* next_retry_at IS NULL

\* "ABSENT": never registered.  "GONE": the row was deleted.
Missing == {"ABSENT", "GONE"}
ScanStatus == {"PENDING", "SUCCESS", "FAILED", "NEEDS_REVIEW", "SKIPPED"}

\* `posting' is JobPosting.extraction_status (search lists a posting only while
\* it is SUCCESS) and `full' whether its description is long enough to pass for
\* a complete one.
Row ==
    [status   : ScanStatus \union Missing,
     source   : Sources \union {NoSource},
     claim    : NoClaim .. ClaimTTL,
     attempts : Nat,
     retry    : NoRetry .. Backoff,
     closed   : BOOLEAN,
     posting  : ScanStatus,
     full     : BOOLEAN]

\* What a fetch can come back with: scan_job_url's result classes.  The page
\* may answer with too short a description ("incomplete") or with one that is
\* long enough but only the page's own summary ("teaser").
ScanResult == {"success", "incomplete", "teaser", "expired", "error"}

NewRow(status, source) ==
    [status |-> status, source |-> source, claim |-> NoClaim, attempts |-> 0,
     retry |-> NoRetry, closed |-> FALSE,
     posting |-> IF status = "SKIPPED" THEN "SKIPPED" ELSE "PENDING",
     full |-> FALSE]

AbsentRow == [NewRow("ABSENT", NoSource) EXCEPT !.posting = "PENDING"]
GoneRow   == [NewRow("GONE", NoSource) EXCEPT !.posting = "PENDING"]

\* Mutant: the TTL cut one tick short, so that it no longer covers a scan.
FreshClaimTooShort(r) == r.claim # NoClaim /\ r.claim < ClaimTTL - 1

\* scan_claimed_at > now - TTL: some lane is on it.
FreshClaim(r) == r.claim # NoClaim /\ r.claim < ClaimTTL

\* Mutant: a claim never expires.
UnclaimedForGood(r) == r.status = "PENDING" /\ r.claim = NoClaim

\* PENDING and nobody's: never claimed, or claimed too long ago.
Unclaimed(r) == r.status = "PENDING" /\ ~FreshClaim(r)

-----------------------------------------------------------------------------
(* Storing a result.                                                       *)

\* The backoff grows with the attempt number, from Backoff up; the sweeps
\* run at no fixed time, so a longer wait is a later sweep.
ScheduleRetry(r) ==
    LET n == r.attempts + 1
    IN  IF n >= MaxAttempts
        THEN [r EXCEPT !.attempts = n, !.status = "NEEDS_REVIEW", !.retry = NoRetry]
        ELSE [r EXCEPT !.attempts = n, !.status = "FAILED", !.retry = Backoff]

\* Mutant: the posting always takes the row's status.
RecordFailureClobbering(r) ==
    LET s == ScheduleRetry([r EXCEPT !.claim = NoClaim])
    IN  [s EXCEPT !.posting = s.status]

\* Mutant: the posting does not learn of the failure.
RecordFailureRowOnly(r) == ScheduleRetry([r EXCEPT !.claim = NoClaim])

\* A failed attempt; a posting with good data from an earlier scan is kept.
RecordFailure(r) ==
    LET s == ScheduleRetry([r EXCEPT !.claim = NoClaim])
    IN  [s EXCEPT !.posting = IF r.posting = "SUCCESS" THEN @ ELSE s.status]

\* A scan that got less than the job: what it got is stored, hidden, unless
\* the posting already has a complete description.
RecordIncomplete(r, long) ==
    LET s == ScheduleRetry([r EXCEPT !.claim = NoClaim])
    IN  IF r.full THEN s ELSE [s EXCEPT !.posting = s.status, !.full = long]

RecordSuccess(r) ==
    [r EXCEPT !.claim = NoClaim, !.status = "SUCCESS", !.attempts = 0,
              !.retry = NoRetry, !.closed = @ /\ r.source # NoSource,
              !.posting = "SUCCESS", !.full = TRUE]

ApplyScanResult(r, result) ==
    CASE result = "success"    -> RecordSuccess(r)
      [] result = "incomplete" -> RecordIncomplete(r, FALSE)
      [] result = "teaser"     -> RecordIncomplete(r, TRUE)
      [] result = "expired"    -> RecordFailure([r EXCEPT !.closed = TRUE])
      [] result = "error"      -> RecordFailure(r)

-----------------------------------------------------------------------------
(* Putting a row back in the queue.                                        *)

\* The hourly sweep keeps the failure count: the budget is not renewed.
RetryReset(r) ==
    [r EXCEPT !.status = "PENDING", !.claim = NoClaim, !.retry = NoRetry]

\* Mutant: the rescan keeps the old failure count.
HumanResetKeepingAttempts(r) == RetryReset(r)

\* An admin's rescan of a whole source renews it.
HumanReset(r) == [RetryReset(r) EXCEPT !.attempts = 0]

\* Of a row it has loaded, the columns its commit will write.
ResetColumn == {"status", "claim", "attempts", "retry"}

ResetColumns(r) == {c \in ResetColumn : HumanReset(r)[c] # r[c]}

\* The commit writes them into the row as it is by then.
ResetInto(r, columns) ==
    LET Column(c) == IF c \in columns THEN HumanReset(r)[c] ELSE r[c]
    IN  [r EXCEPT !.status = Column("status"), !.claim = Column("claim"),
                  !.attempts = Column("attempts"), !.retry = Column("retry")]

\* Someone submits a URL an uncapped crawl had recorded without scanning.
Unskip(r) == [r EXCEPT !.status = "PENDING", !.posting = "PENDING"]

-----------------------------------------------------------------------------
(* One tick: claims age, backoff windows shrink.                           *)

AgeRow(r) ==
    [r EXCEPT !.claim = IF @ \in 0 .. ClaimTTL - 1 THEN @ + 1 ELSE @,
              !.retry = IF @ > 0 THEN @ - 1 ELSE @]
=============================================================================
