------------------------- MODULE ScanPipeline_proofs -------------------------
(***************************************************************************)
(* Proofs about ScanPipeline, for every number of URLs, workers, sources,  *)
(* requests and admins, every cap, and every choice of the timing constants that  *)
(* satisfies the module's assumptions.                                     *)
(***************************************************************************)
EXTENDS ScanPipeline, FiniteSetTheorems, TLAPS

-----------------------------------------------------------------------------
(* The row operators.                                                      *)

\* The ends of the ranges of `claim' and `retry'.
LEMMA Ranges ==
    /\ NoClaim \in NoClaim .. ClaimTTL /\ 0 \in NoClaim .. ClaimTTL /\ NoClaim # 0
    /\ NoRetry \in NoRetry .. Backoff /\ 0 \in NoRetry .. Backoff /\ NoRetry # 0
    /\ Backoff \in NoRetry .. Backoff /\ NoRetry # Backoff
BY TimingAssumption DEF NoClaim, NoRetry

\* Constructors build rows.
LEMMA NewRowTyped ==
    /\ AbsentRow \in Row
    /\ GoneRow \in Row
    /\ \A st \in ScanStatus, s \in Sources \union {NoSource} : NewRow(st, s) \in Row
<1>1. \A st \in ScanStatus \union Missing, s \in Sources \union {NoSource} : NewRow(st, s) \in Row
  BY TimingAssumption DEF NewRow, Row, ScanStatus, Missing, NoClaim, NoRetry
<1>2. NewRow("ABSENT", NoSource) \in Row /\ NewRow("GONE", NoSource) \in Row
  BY <1>1 DEF Missing
<1> QED
  BY <1>1, <1>2 DEF AbsentRow, GoneRow, Row, ScanStatus

\* Counting a failure: the row gives up exactly when the budget is spent.
LEMMA RetryScheduled ==
    ASSUME NEW r \in Row
    PROVE  LET a == ScheduleRetry(r)
           IN  /\ a \in Row
               /\ a.claim = r.claim /\ a.source = r.source
               /\ a.closed = r.closed /\ a.posting = r.posting /\ a.full = r.full
               /\ a.attempts = r.attempts + 1
               /\ \/ a.status = "FAILED" /\ a.retry = Backoff /\ a.attempts < MaxAttempts
                  \/ a.status = "NEEDS_REVIEW" /\ a.retry = NoRetry /\ a.attempts >= MaxAttempts
<1> DEFINE n == r.attempts + 1
<1>1. n \in Nat
  BY DEF Row
<1>2. CASE n >= MaxAttempts
  <2>1. ScheduleRetry(r) =
          [r EXCEPT !.attempts = n, !.status = "NEEDS_REVIEW", !.retry = NoRetry]
    BY <1>2 DEF ScheduleRetry
  <2> QED
    BY <1>1, <1>2, <2>1, Ranges DEF Row, ScanStatus
<1>3. CASE n < MaxAttempts
  <2>1. ScheduleRetry(r) = [r EXCEPT !.attempts = n, !.status = "FAILED", !.retry = Backoff]
    BY <1>1, <1>3, MaxAttemptsAssumption DEF ScheduleRetry
  <2> QED
    BY <1>1, <1>3, <2>1, Ranges DEF Row, ScanStatus
<1> QED
  BY <1>1, <1>2, <1>3, MaxAttemptsAssumption

\* A failed attempt also releases the row, and keeps a good posting.
LEMMA FailureRecorded ==
    ASSUME NEW r \in Row
    PROVE  LET a == RecordFailure(r)
           IN  /\ a \in Row
               /\ a.claim = NoClaim /\ a.source = r.source /\ a.closed = r.closed
               /\ a.attempts = r.attempts + 1
               /\ \/ a.status = "FAILED" /\ a.retry = Backoff /\ a.attempts < MaxAttempts
                  \/ a.status = "NEEDS_REVIEW" /\ a.retry = NoRetry /\ a.attempts >= MaxAttempts
               /\ a.posting = IF r.posting = "SUCCESS" THEN "SUCCESS" ELSE a.status
               /\ a.full = r.full
<1> DEFINE q == [r EXCEPT !.claim = NoClaim]
           s == ScheduleRetry(q)
<1>1. q \in Row /\ q.claim = NoClaim /\ q.source = r.source /\ q.closed = r.closed
      /\ q.attempts = r.attempts /\ q.posting = r.posting /\ q.full = r.full
  BY Ranges DEF Row
<1>2. /\ s \in Row
      /\ s.claim = NoClaim /\ s.source = r.source /\ s.closed = r.closed
      /\ s.attempts = r.attempts + 1 /\ s.posting = r.posting /\ s.full = r.full
      /\ \/ s.status = "FAILED" /\ s.retry = Backoff /\ s.attempts < MaxAttempts
         \/ s.status = "NEEDS_REVIEW" /\ s.retry = NoRetry /\ s.attempts >= MaxAttempts
  BY <1>1, RetryScheduled
<1>3. RecordFailure(r) =
        [s EXCEPT !.posting = IF r.posting = "SUCCESS" THEN "SUCCESS" ELSE s.status]
  BY <1>2 DEF RecordFailure, Row
<1> HIDE DEF s
<1> QED
  BY <1>2, <1>3 DEF Row, ScanStatus

\* So does a scan that got less than the job; it changes the posting unless
\* that has a complete description.
LEMMA IncompleteRecorded ==
    ASSUME NEW r \in Row, NEW long \in BOOLEAN
    PROVE  LET a == RecordIncomplete(r, long)
           IN  /\ a \in Row
               /\ a.claim = NoClaim /\ a.source = r.source /\ a.closed = r.closed
               /\ a.attempts = r.attempts + 1
               /\ \/ a.status = "FAILED" /\ a.retry = Backoff /\ a.attempts < MaxAttempts
                  \/ a.status = "NEEDS_REVIEW" /\ a.retry = NoRetry /\ a.attempts >= MaxAttempts
               /\ \/ r.full /\ a.posting = r.posting /\ a.full = r.full
                  \/ ~r.full /\ a.posting = a.status
<1> DEFINE q == [r EXCEPT !.claim = NoClaim]
           s == ScheduleRetry(q)
<1>1. q \in Row /\ q.claim = NoClaim /\ q.source = r.source /\ q.closed = r.closed
      /\ q.attempts = r.attempts /\ q.posting = r.posting /\ q.full = r.full
  BY Ranges DEF Row
<1>2. /\ s \in Row
      /\ s.claim = NoClaim /\ s.source = r.source /\ s.closed = r.closed
      /\ s.attempts = r.attempts + 1 /\ s.posting = r.posting /\ s.full = r.full
      /\ \/ s.status = "FAILED" /\ s.retry = Backoff /\ s.attempts < MaxAttempts
         \/ s.status = "NEEDS_REVIEW" /\ s.retry = NoRetry /\ s.attempts >= MaxAttempts
  BY <1>1, RetryScheduled
<1>3. CASE r.full
  <2>1. RecordIncomplete(r, long) = s
    BY <1>3 DEF RecordIncomplete
  <2> HIDE DEF s
  <2> QED
    BY <1>2, <1>3, <2>1
<1>4. CASE ~r.full
  <2>1. RecordIncomplete(r, long) = [s EXCEPT !.posting = s.status, !.full = long]
    BY <1>4 DEF RecordIncomplete
  <2> HIDE DEF s
  <2>2. [s EXCEPT !.posting = s.status, !.full = long] \in Row
    BY <1>2 DEF Row, ScanStatus
  <2> QED
    BY <1>2, <1>4, <2>1, <2>2 DEF Row
<1> QED
  BY <1>3, <1>4

\* Success wipes the failure record.
LEMMA SuccessRecorded ==
    ASSUME NEW r \in Row
    PROVE  LET a == RecordSuccess(r)
           IN  /\ a \in Row
               /\ a.claim = NoClaim /\ a.source = r.source
               /\ a.status = "SUCCESS" /\ a.retry = NoRetry /\ a.attempts = 0
               /\ a.posting = "SUCCESS" /\ a.full
<1>1. SUFFICES
        ASSUME NEW q \in Row, q.source = r.source, NEW a,
               a = [q EXCEPT !.claim = NoClaim, !.status = "SUCCESS", !.attempts = 0,
                             !.retry = NoRetry, !.posting = "SUCCESS", !.full = TRUE]
        PROVE  /\ a \in Row
               /\ a.claim = NoClaim /\ a.source = r.source
               /\ a.status = "SUCCESS" /\ a.retry = NoRetry /\ a.attempts = 0
               /\ a.posting = "SUCCESS" /\ a.full
  <2> DEFINE b == r.closed /\ r.source # NoSource
             q == [r EXCEPT !.closed = b]
  <2>1. b \in BOOLEAN
    OBVIOUS
  <2> HIDE DEF b
  <2>2. q \in Row /\ q.source = r.source
    BY <2>1 DEF Row
  <2>3. RecordSuccess(r) =
          [q EXCEPT !.claim = NoClaim, !.status = "SUCCESS", !.attempts = 0,
                    !.retry = NoRetry, !.posting = "SUCCESS", !.full = TRUE]
    BY DEF RecordSuccess, Row, b
  <2> HIDE DEF q
  <2> QED
    BY <2>2, <2>3
<1>2. NoClaim \in NoClaim .. ClaimTTL /\ NoRetry \in NoRetry .. Backoff
  BY Ranges
<1>3. a \in Row
  BY <1>1, <1>2 DEF Row, ScanStatus
<1> QED
  BY <1>1, <1>3 DEF Row

\* Storing a result gives a row that is released, that is no longer PENDING,
\* and whose failure count, retry time and status agree, whatever they were;
\* a posting that succeeded and is complete stays as it is.
LEMMA ResultStored ==
    ASSUME NEW r \in Row, NEW res \in ScanResult
    PROVE  LET a == ApplyScanResult(r, res)
           IN  /\ a \in Row
               /\ a.claim = NoClaim /\ a.source = r.source
               /\ \/ a.status = "SUCCESS" /\ a.retry = NoRetry /\ a.attempts = 0
                     /\ a.posting = "SUCCESS" /\ a.full
                  \/ /\ \/ a.status = "FAILED" /\ a.retry = Backoff /\ a.attempts < MaxAttempts
                        \/ a.status = "NEEDS_REVIEW" /\ a.retry = NoRetry /\ a.attempts >= MaxAttempts
                     /\ a.attempts = r.attempts + 1
                     /\ \/ /\ a.posting = r.posting /\ a.full = r.full
                           /\ r.full \/ r.posting = "SUCCESS"
                        \/ a.posting = a.status /\ ~(r.full /\ r.posting = "SUCCESS")
<1>1. CASE res = "success"
  <2>1. ApplyScanResult(r, res) = RecordSuccess(r)
    BY <1>1 DEF ApplyScanResult
  <2> QED
    BY <2>1, SuccessRecorded
<1>2. CASE res = "expired"
  <2> DEFINE q == [r EXCEPT !.closed = TRUE]
  <2>1. q \in Row /\ q.source = r.source /\ q.attempts = r.attempts /\ q.posting = r.posting
        /\ q.full = r.full
    BY DEF Row
  <2>2. ApplyScanResult(r, res) = RecordFailure(q)
    BY <1>2 DEF ApplyScanResult
  <2> HIDE DEF q
  <2> QED
    BY <2>1, <2>2, FailureRecorded
<1>3. CASE res = "error"
  <2>1. ApplyScanResult(r, res) = RecordFailure(r)
    BY <1>3 DEF ApplyScanResult
  <2> QED
    BY <2>1, FailureRecorded
<1>4. CASE res \in {"incomplete", "teaser"}
  <2>1. PICK long \in BOOLEAN : ApplyScanResult(r, res) = RecordIncomplete(r, long)
    BY <1>4 DEF ApplyScanResult
  <2> QED
    BY <2>1, IncompleteRecorded
<1> QED
  BY <1>1, <1>2, <1>3, <1>4 DEF ScanResult

\* Putting a row back in the queue releases it.
LEMMA RowReset ==
    ASSUME NEW r \in Row
    PROVE  /\ RetryReset(r) \in Row
           /\ RetryReset(r).claim = NoClaim /\ RetryReset(r).retry = NoRetry
           /\ RetryReset(r).status = "PENDING"
           /\ RetryReset(r).source = r.source /\ RetryReset(r).attempts = r.attempts
           /\ RetryReset(r).posting = r.posting /\ RetryReset(r).full = r.full
           /\ HumanReset(r) \in Row
           /\ HumanReset(r).claim = NoClaim /\ HumanReset(r).retry = NoRetry
           /\ HumanReset(r).status = "PENDING" /\ HumanReset(r).attempts = 0
           /\ HumanReset(r).source = r.source /\ HumanReset(r).posting = r.posting
           /\ HumanReset(r).full = r.full
<1>1. RetryReset(r) = [r EXCEPT !.status = "PENDING", !.claim = NoClaim, !.retry = NoRetry]
  BY DEF RetryReset
<1>2. RetryReset(r) \in Row
  BY <1>1, Ranges DEF Row, ScanStatus
<1>3. HumanReset(r) = [RetryReset(r) EXCEPT !.attempts = 0]
  BY DEF HumanReset
<1>4. /\ RetryReset(r).claim = NoClaim /\ RetryReset(r).retry = NoRetry
      /\ RetryReset(r).status = "PENDING" /\ RetryReset(r).source = r.source
      /\ RetryReset(r).attempts = r.attempts /\ RetryReset(r).posting = r.posting
      /\ RetryReset(r).full = r.full
  BY <1>1 DEF Row
<1> QED
  BY <1>2, <1>3, <1>4 DEF Row

\* An admin's commit resets some columns of a row, or the whole of it.
LEMMA ColumnsReset ==
    ASSUME NEW r \in Row, NEW columns \in SUBSET ResetColumn
    PROVE  LET a == ResetInto(r, columns)
           IN  /\ a \in Row
               /\ a.source = r.source /\ a.posting = r.posting /\ a.full = r.full
               /\ a.status \in {r.status, "PENDING"} /\ a.claim \in {r.claim, NoClaim}
               /\ columns = {} => a = r
               /\ ResetColumns(r) \ {"claim"} \subseteq columns =>
                     a.status = "PENDING" /\ a.attempts = 0 /\ a.retry = NoRetry
<1> DEFINE h == HumanReset(r)
           st == IF "status" \in columns THEN h.status ELSE r.status
           cl == IF "claim" \in columns THEN h.claim ELSE r.claim
           at == IF "attempts" \in columns THEN h.attempts ELSE r.attempts
           re == IF "retry" \in columns THEN h.retry ELSE r.retry
           a  == [r EXCEPT !.status = st, !.claim = cl, !.attempts = at, !.retry = re]
<1>1. /\ h.status = "PENDING" /\ h.claim = NoClaim /\ h.attempts = 0 /\ h.retry = NoRetry
  BY RowReset
<1>2. ResetInto(r, columns) = a
  BY DEF ResetInto
<1>3. /\ st \in ScanStatus \union Missing /\ st \in {r.status, "PENDING"}
      /\ cl \in NoClaim .. ClaimTTL /\ cl \in {r.claim, NoClaim}
      /\ at \in Nat /\ re \in NoRetry .. Backoff
  BY <1>1, Ranges DEF Row, ScanStatus
<1>4. columns = {} => st = r.status /\ cl = r.claim /\ at = r.attempts /\ re = r.retry
  OBVIOUS
<1>5. ASSUME ResetColumns(r) \ {"claim"} \subseteq columns
      PROVE  st = "PENDING" /\ at = 0 /\ re = NoRetry
  <2>1. /\ "status" \notin columns => h.status = r.status
        /\ "attempts" \notin columns => h.attempts = r.attempts
        /\ "retry" \notin columns => h.retry = r.retry
    BY <1>5 DEF ResetColumns, ResetColumn
  <2> QED
    BY <1>1, <2>1
<1> HIDE DEF h, st, cl, at, re
<1>6. /\ a \in Row /\ a.source = r.source /\ a.posting = r.posting /\ a.full = r.full
      /\ a.status = st /\ a.claim = cl /\ a.attempts = at /\ a.retry = re
  BY <1>3 DEF Row
<1>7. columns = {} => a = r
  BY <1>4 DEF Row
<1> HIDE DEF a
<1> QED
  BY <1>2, <1>3, <1>5, <1>6, <1>7

\* Time: a claim that is fresh after a tick was fresh before it, and a claim
\* stays set or unset.
LEMMA RowAged ==
    ASSUME NEW r \in Row
    PROVE  /\ AgeRow(r) \in Row
           /\ AgeRow(r).status = r.status /\ AgeRow(r).source = r.source
           /\ AgeRow(r).attempts = r.attempts /\ AgeRow(r).posting = r.posting
           /\ AgeRow(r).closed = r.closed /\ AgeRow(r).full = r.full
           /\ FreshClaim(AgeRow(r)) => FreshClaim(r)
           /\ AgeRow(r).claim = NoClaim <=> r.claim = NoClaim
           /\ AgeRow(r).claim <= r.claim + 1
           /\ AgeRow(r).retry = NoRetry <=> r.retry = NoRetry
           /\ AgeRow(r).retry + 1 >= r.retry
<1>1. AgeRow(r) = [r EXCEPT !.claim = IF r.claim \in 0 .. ClaimTTL - 1 THEN r.claim + 1 ELSE r.claim,
                            !.retry = IF r.retry > 0 THEN r.retry - 1 ELSE r.retry]
  BY DEF AgeRow, Row
<1> DEFINE c == IF r.claim \in 0 .. ClaimTTL - 1 THEN r.claim + 1 ELSE r.claim
           t == IF r.retry > 0 THEN r.retry - 1 ELSE r.retry
<1>2. /\ c \in NoClaim .. ClaimTTL
      /\ c = NoClaim <=> r.claim = NoClaim
      /\ c <= r.claim + 1
      /\ c # NoClaim /\ c < ClaimTTL => r.claim # NoClaim /\ r.claim < ClaimTTL
  BY TimingAssumption DEF Row, NoClaim
<1>3. /\ t \in NoRetry .. Backoff
      /\ t = NoRetry <=> r.retry = NoRetry
      /\ t + 1 >= r.retry
  BY TimingAssumption DEF Row, NoRetry
<1> HIDE DEF c, t
<1>4. AgeRow(r) = [r EXCEPT !.claim = c, !.retry = t]
  BY <1>1 DEF c, t
<1>5. /\ AgeRow(r) \in Row
      /\ AgeRow(r).claim = c /\ AgeRow(r).retry = t
      /\ AgeRow(r).status = r.status /\ AgeRow(r).source = r.source
      /\ AgeRow(r).attempts = r.attempts /\ AgeRow(r).posting = r.posting
      /\ AgeRow(r).closed = r.closed /\ AgeRow(r).full = r.full
  BY <1>2, <1>3, <1>4 DEF Row
<1> QED
  BY <1>2, <1>3, <1>5 DEF FreshClaim

\* An ORM flush writes each column from the copy or leaves it as it is.
LEMMA ChangedWritten ==
    ASSUME NEW r \in Row, NEW snap \in Row, NEW after \in Row, NEW rewritten \in BOOLEAN
    PROVE  LET a == WriteChanged(r, snap, after, rewritten)
           IN  /\ a \in Row
               /\ a.source = r.source
               /\ a.status \in {r.status, after.status}
               /\ a.claim \in {r.claim, after.claim}
               /\ a.posting \in {r.posting, after.posting}
               /\ after.status # snap.status => a.status = after.status
               /\ after.posting # snap.posting => a.posting = after.posting
<1> DEFINE st == IF after.status = snap.status THEN r.status ELSE after.status
           cl == IF after.claim = snap.claim THEN r.claim ELSE after.claim
           at == IF after.attempts = snap.attempts THEN r.attempts ELSE after.attempts
           re == IF after.retry # NoRetry THEN after.retry
                 ELSE IF after.retry = snap.retry THEN r.retry ELSE after.retry
           co == IF after.closed = snap.closed THEN r.closed ELSE after.closed
           po == IF after.posting = snap.posting THEN r.posting ELSE after.posting
           fu == IF rewritten THEN after.full
                 ELSE IF after.full = snap.full THEN r.full ELSE after.full
<1>1. /\ st \in ScanStatus \union Missing /\ st \in {r.status, after.status}
      /\ cl \in NoClaim .. ClaimTTL /\ cl \in {r.claim, after.claim}
      /\ at \in Nat
      /\ re \in NoRetry .. Backoff
      /\ po \in ScanStatus /\ po \in {r.posting, after.posting}
      /\ (after.status # snap.status => st = after.status)
      /\ (after.posting # snap.posting => po = after.posting)
  BY DEF Row
<1>2. co \in BOOLEAN /\ fu \in BOOLEAN
  BY Zenon DEF Row
<1>3. WriteChanged(r, snap, after, rewritten) =
        [r EXCEPT !.status = st, !.claim = cl, !.attempts = at,
                  !.retry = re, !.closed = co, !.posting = po, !.full = fu]
  BY Zenon DEF WriteChanged
<1> HIDE DEF st, cl, at, re, co, po, fu
<1> DEFINE a == [r EXCEPT !.status = st, !.claim = cl, !.attempts = at,
                          !.retry = re, !.closed = co, !.posting = po, !.full = fu]
<1>4. /\ a \in Row
      /\ a.source = r.source /\ a.status = st /\ a.claim = cl /\ a.posting = po
  BY <1>1, <1>2 DEF Row
<1> HIDE DEF a
<1> QED
  BY <1>1, <1>3, <1>4 DEF a

\* The other single-column writes.
LEMMA ColumnWritten ==
    ASSUME NEW r \in Row
    PROVE  /\ \A s \in Sources \union {NoSource} :
                 /\ [r EXCEPT !.source = s] \in Row
                 /\ [r EXCEPT !.source = s].source = s
                 /\ [r EXCEPT !.source = s].status = r.status
                 /\ [r EXCEPT !.source = s].claim = r.claim
                 /\ [r EXCEPT !.source = s].attempts = r.attempts
                 /\ [r EXCEPT !.source = s].retry = r.retry
                 /\ [r EXCEPT !.source = s].posting = r.posting
           /\ [r EXCEPT !.claim = 0] \in Row
           /\ Unskip(r) \in Row
           /\ [r EXCEPT !.closed = ~r.closed] \in Row
           /\ Loaded(r) \in Row
<1>1. \A s \in Sources \union {NoSource} :
         /\ [r EXCEPT !.source = s] \in Row
         /\ [r EXCEPT !.source = s].source = s
         /\ [r EXCEPT !.source = s].status = r.status
         /\ [r EXCEPT !.source = s].claim = r.claim
         /\ [r EXCEPT !.source = s].attempts = r.attempts
         /\ [r EXCEPT !.source = s].retry = r.retry
         /\ [r EXCEPT !.source = s].posting = r.posting
  BY DEF Row
<1>2. [r EXCEPT !.claim = 0] \in Row
  <2>1. 0 \in NoClaim .. ClaimTTL
    BY Ranges
  <2> QED
    BY <2>1 DEF Row
<1>3. Unskip(r) \in Row
  <2>1. Unskip(r) = [r EXCEPT !.status = "PENDING", !.posting = "PENDING"]
    BY DEF Unskip
  <2> QED
    BY <2>1 DEF Row, ScanStatus
<1>4. [r EXCEPT !.closed = ~r.closed] \in Row
  <2> DEFINE b == ~r.closed
  <2>1. b \in BOOLEAN
    OBVIOUS
  <2> HIDE DEF b
  <2>2. [r EXCEPT !.closed = b] \in Row
    BY <2>1 DEF Row
  <2> QED
    BY <2>2 DEF b
<1>5. Loaded(r) \in Row
  <2> DEFINE c == IF r.claim = NoClaim THEN r.claim ELSE 0
             t == IF r.retry = NoRetry THEN r.retry ELSE 0
  <2>1. c \in NoClaim .. ClaimTTL /\ t \in NoRetry .. Backoff
    BY Ranges DEF Row
  <2>2. Loaded(r) = [r EXCEPT !.claim = c, !.retry = t]
    BY DEF Loaded
  <2> HIDE DEF c, t
  <2> QED
    BY <2>1, <2>2 DEF Row
<1> QED
  BY <1>1, <1>2, <1>3, <1>4, <1>5

-----------------------------------------------------------------------------
(* Type correctness.  A worker that is up has a message to give back, and  *)
(* the fields its next step reads are set; likewise for a request.         *)

InLane == {"claiming", "fetching", "resting"}

WorkerOK ==
    \A w \in Workers :
        /\ worker[w].pc # "idle" => worker[w].msg \in Targets
        /\ worker[w].pc \in InLane => worker[w].source \in Sources
        /\ worker[w].pc \in {"fetching", "locking", "direct"} => worker[w].url \in Urls

RequestOK == \A q \in Requests : request[q].pc # "idle" => request[q].url \in Urls

TypeInv == TypeOK /\ WorkerOK /\ RequestOK

\* The worker record an action starts from ...
LEMMA IdleWorkerTyped ==
    /\ IdleWorker \in WorkerState /\ IdleWorker.pc = "idle" /\ IdleWorker.url = NoUrl
    /\ IdleWorker.source = NoSource /\ IdleWorker.age = 0
<1>1. IdleWorker \in WorkerState
  BY TimeoutAssumption DEF IdleWorker, WorkerState
<1> QED
  BY <1>1 DEF IdleWorker

\* ... and the ones that change only some fields.
LEMMA WorkerChanged ==
    ASSUME NEW x \in WorkerState
    PROVE  /\ \A u \in Urls : [x EXCEPT !.pc = "fetching", !.url = u] \in WorkerState
           /\ [x EXCEPT !.pc = "resting", !.url = NoUrl] \in WorkerState
           /\ [x EXCEPT !.pc = "claiming"] \in WorkerState
           /\ [x EXCEPT !.pc = "direct"] \in WorkerState
           /\ x.age < FunctionTimeout => [x EXCEPT !.age = x.age + 1] \in WorkerState
<1>1. \A u \in Urls : [x EXCEPT !.pc = "fetching", !.url = u] \in WorkerState
  BY DEF WorkerState
<1>2. /\ [x EXCEPT !.pc = "resting", !.url = NoUrl] \in WorkerState
      /\ [x EXCEPT !.pc = "claiming"] \in WorkerState
      /\ [x EXCEPT !.pc = "direct"] \in WorkerState
  BY DEF WorkerState
<1>3. ASSUME x.age < FunctionTimeout PROVE [x EXCEPT !.age = x.age + 1] \in WorkerState
  <2>1. x.age + 1 \in 0 .. FunctionTimeout
    BY <1>3, TimeoutAssumption DEF WorkerState
  <2> QED
    BY <2>1 DEF WorkerState
<1> QED
  BY <1>1, <1>2, <1>3

LEMMA RequestTyped == IdleRequest \in RequestState
<1>1. AbsentRow \in Row
  BY NewRowTyped
<1> QED
  BY <1>1, TimeoutAssumption DEF IdleRequest, RequestState, ScanResult

\* Initially.
LEMMA TypeInit == Init => TypeInv
<1> SUFFICES ASSUME Init PROVE TypeInv
  OBVIOUS
<1>1. rows \in [Urls -> Row]
  BY NewRowTyped DEF Init
<1>2. worker \in [Workers -> WorkerState] /\ \A w \in Workers : worker[w].pc = "idle"
  BY IdleWorkerTyped DEF Init
<1>3. request \in [Requests -> RequestState]
  BY RequestTyped DEF Init
<1>r. reset \in [Admins -> ResetState]
  BY DEF Init, IdleReset, ResetState
<1>4. \A q \in Requests : request[q].pc = "idle"
  BY DEF Init, IdleRequest
<1> QED
  BY <1>1, <1>2, <1>3, <1>4, <1>r, FaultBudgetAssumption
     DEF Init, TypeInv, TypeOK, WorkerOK, RequestOK, InLane

\* A step of a worker that ends its invocation.
LEMMA FinishTyped ==
    ASSUME TypeInv, NEW w \in Workers, Finish(w)
    PROVE  worker' \in [Workers -> WorkerState] /\ WorkerOK'
<1>1. \A v \in Workers : worker'[v] = IF v = w THEN IdleWorker ELSE worker[v]
  BY DEF Finish, TypeInv, TypeOK
<1>2. worker' \in [Workers -> WorkerState]
  BY IdleWorkerTyped DEF Finish, TypeInv, TypeOK
<1> QED
  BY <1>1, <1>2, IdleWorkerTyped DEF TypeInv, WorkerOK, InLane

\* What registration, sweeps and people may write keeps its type.
LEMMA RowsTyped ==
    ASSUME TypeInv, NEW u \in Urls, NEW r \in Row, rows' = [rows EXCEPT ![u] = r]
    PROVE  rows' \in [Urls -> Row]
BY DEF TypeInv, TypeOK

LEMMA PublishTyped ==
    ASSUME TypeInv, NEW ms \in SUBSET Targets, Publish(ms)
    PROVE  queue' \subseteq Targets /\ faults' \in 0 .. FaultBudget
BY FaultBudgetAssumption DEF TypeInv, TypeOK, Publish, Fault

\* A message starts a lane of its source, or the scan of a URL that has none.
LEMMA DeliveredTo ==
    ASSUME TypeInv, NEW w \in Workers, NEW m \in Targets, Deliver(w, m)
    PROVE  \E x \in WorkerState :
              /\ worker' = [worker EXCEPT ![w] = x]
              /\ x.msg = m /\ x.age = 0
              /\ \/ x.pc = "claiming" /\ x.source \in Sources /\ x.url = NoUrl
                 \/ /\ m \in Urls /\ rows[m].source = NoSource
                    /\ x.pc = "locking" /\ x.url = m
<1> DEFINE s == IF m \in Sources THEN m ELSE rows[m].source
<1>1. CASE s # NoSource
  <2>1. PICK t \in Sources : t = s
    <3>1. m \notin Sources => rows[m].source \in Sources \union {NoSource}
      BY DEF TypeInv, TypeOK, Row, Targets
    <3> QED
      BY <1>1, <3>1
  <2> DEFINE y == [IdleWorker EXCEPT !.pc = "claiming", !.msg = m, !.source = t]
  <2>2. worker' = [worker EXCEPT ![w] = y]
    BY <1>1, <2>1 DEF Deliver
  <2>3. /\ y \in WorkerState
        /\ y.pc = "claiming" /\ y.msg = m /\ y.source = t /\ y.url = NoUrl /\ y.age = 0
    BY IdleWorkerTyped DEF WorkerState
  <2> HIDE DEF y
  <2> QED
    BY <2>2, <2>3
<1>2. CASE s = NoSource
  <2>1. m \in Urls /\ rows[m].source = NoSource
    BY <1>2, NoSourceAssumption DEF Targets
  <2> DEFINE y == [IdleWorker EXCEPT !.pc = "locking", !.msg = m, !.url = m]
  <2>2. worker' = [worker EXCEPT ![w] = y]
    BY <1>2 DEF Deliver
  <2>3. y \in WorkerState /\ y.pc = "locking" /\ y.msg = m /\ y.url = m /\ y.age = 0
    BY <2>1, IdleWorkerTyped DEF WorkerState, Targets
  <2> HIDE DEF y
  <2> QED
    BY <2>1, <2>2, <2>3
<1> QED
  BY <1>1, <1>2

\* Types are kept by what the system does by itself, ...
LEMMA SystemTypeStep == TypeInv /\ SystemNext => TypeInv'
<1> SUFFICES ASSUME TypeInv, SystemNext PROVE TypeInv'
  OBVIOUS
<1> USE DEF TypeInv
<1>0. /\ rows \in [Urls -> Row] /\ live \subseteq Sources /\ queue \subseteq Targets
      /\ worker \in [Workers -> WorkerState] /\ request \in [Requests -> RequestState]
      /\ faults \in 0 .. FaultBudget
  BY DEF TypeOK
<1>1. ASSUME NEW u \in Urls, SubmitUrl(u) PROVE TypeInv'
  <2>1. rows' \in [Urls -> Row]
    BY <1>0, <1>1, NewRowTyped DEF SubmitUrl, ScanStatus
  <2>2. queue' \subseteq Targets /\ faults' \in 0 .. FaultBudget
    BY <1>1, PublishTyped DEF SubmitUrl, Targets
  <2> QED
    BY <1>0, <1>1, <2>1, <2>2 DEF SubmitUrl, TypeOK, WorkerOK, RequestOK
<1>2. ASSUME NEW u \in Urls, SubmitSkippedUrl(u) PROVE TypeInv'
  <2>1. rows' \in [Urls -> Row]
    BY <1>0, <1>2, ColumnWritten DEF SubmitSkippedUrl
  <2>2. queue' \subseteq Targets /\ faults' \in 0 .. FaultBudget
    BY <1>2, PublishTyped DEF SubmitSkippedUrl, Targets
  <2> QED
    BY <1>0, <1>2, <2>1, <2>2 DEF SubmitSkippedUrl, TypeOK, WorkerOK, RequestOK
<1>3. ASSUME NEW u \in Urls, BoardPresence(u) PROVE TypeInv'
  <2>1. rows' \in [Urls -> Row]
    BY <1>0, <1>3, ColumnWritten DEF BoardPresence
  <2> QED
    BY <1>0, <1>3, <2>1 DEF BoardPresence, TypeOK, WorkerOK, RequestOK
<1>4. ASSUME NEW u \in Urls, NEW s \in Sources, CrawlRegister(u, s) PROVE TypeInv'
  <2>1. rows' \in [Urls -> Row]
    BY <1>0, <1>4, NewRowTyped DEF CrawlRegister, ScanStatus
  <2>2. PICK ms \in SUBSET Targets : Publish(ms)
    BY <1>4 DEF CrawlRegister, Targets
  <2>3. queue' \subseteq Targets /\ faults' \in 0 .. FaultBudget
    BY <2>2, PublishTyped
  <2> QED
    BY <1>0, <1>4, <2>1, <2>3 DEF CrawlRegister, TypeOK, WorkerOK, RequestOK
<1>5. ASSUME NEW w \in Workers, NEW m \in Targets, Deliver(w, m) PROVE TypeInv'
  <2>1. queue' \subseteq Targets /\ faults' \in 0 .. FaultBudget
    BY <1>0, <1>5, FaultBudgetAssumption DEF Deliver, Fault
  <2>2. PICK x \in WorkerState :
          /\ worker' = [worker EXCEPT ![w] = x]
          /\ x.msg = m
          /\ \/ x.pc = "claiming" /\ x.source \in Sources
             \/ x.pc = "locking" /\ x.url \in Urls
    BY <1>5, DeliveredTo
  <2>3. worker' \in [Workers -> WorkerState] /\ WorkerOK'
    <3>1. worker' \in [Workers -> WorkerState]
      BY <1>0, <2>2
    <3>2. \A v \in Workers : worker'[v] = IF v = w THEN x ELSE worker[v]
      BY <1>0, <2>2
    <3> QED
      BY <2>2, <3>1, <3>2 DEF WorkerOK, InLane
  <2> QED
    BY <1>0, <1>5, <2>1, <2>3 DEF Deliver, TypeOK, RequestOK
<1>6. ASSUME NEW w \in Workers, ClaimNextUrl(w) PROVE TypeInv'
  <2>1. CASE Finish(w) /\ UNCHANGED rows
    BY <1>0, <1>6, <2>1, FinishTyped DEF ClaimNextUrl, TypeOK, RequestOK
  <2>2. ASSUME NEW u \in Urls, rows' = [rows EXCEPT ![u].claim = 0],
               worker' = [worker EXCEPT ![w].pc = "fetching", ![w].url = u]
        PROVE  TypeInv'
    <3>1. rows' \in [Urls -> Row]
      BY <1>0, <2>2, ColumnWritten
    <3> DEFINE x == [worker[w] EXCEPT !.pc = "fetching", !.url = u]
    <3>2. /\ worker' = [worker EXCEPT ![w] = x]
          /\ x \in WorkerState
      BY <1>0, <2>2, WorkerChanged
    <3>3. x.pc = "fetching" /\ x.url = u /\ x.msg = worker[w].msg /\ x.source = worker[w].source
      BY <1>0 DEF WorkerState
    <3> HIDE DEF x
    <3>4. worker' \in [Workers -> WorkerState] /\ WorkerOK'
      BY <1>0, <1>6, <3>2, <3>3 DEF WorkerOK, InLane, ClaimNextUrl
    <3> QED
      BY <1>0, <1>6, <3>1, <3>4 DEF ClaimNextUrl, TypeOK, RequestOK
  <2> QED
    BY <1>6, <2>1, <2>2 DEF ClaimNextUrl, Claimable, PendingOf
<1>7. ASSUME NEW w \in Workers, LaneContinues(w) PROVE TypeInv'
  <2> DEFINE x == [worker[w] EXCEPT !.pc = "claiming"]
  <2>1. worker' = [worker EXCEPT ![w] = x] /\ x \in WorkerState
    BY <1>0, <1>7, WorkerChanged DEF LaneContinues
  <2>2. x.pc = "claiming" /\ x.msg = worker[w].msg /\ x.source = worker[w].source
    BY <1>0 DEF WorkerState
  <2> HIDE DEF x
  <2>3. worker' \in [Workers -> WorkerState] /\ WorkerOK'
    BY <1>0, <1>7, <2>1, <2>2 DEF WorkerOK, InLane, LaneContinues
  <2> QED
    BY <1>0, <1>7, <2>3 DEF LaneContinues, TypeOK, RequestOK
<1>8. ASSUME NEW w \in Workers, LaneDeadline(w) PROVE TypeInv'
  <2>1. worker[w].source \in Sources /\ worker[w].msg \in Targets
    BY <1>8 DEF LaneDeadline, WorkerOK, InLane
  <2>2. queue' \subseteq Targets /\ faults' \in 0 .. FaultBudget
    BY <1>0, <1>8, <2>1, FaultBudgetAssumption DEF LaneDeadline, Fault, Targets
  <2>3. worker' \in [Workers -> WorkerState] /\ WorkerOK'
    BY <1>8, FinishTyped DEF LaneDeadline
  <2> QED
    BY <1>0, <1>8, <2>2, <2>3 DEF LaneDeadline, TypeOK, RequestOK
<1>9. ASSUME NEW w \in Workers, LockSubmittedUrl(w) PROVE TypeInv'
  <2>1. CASE Finish(w)
    BY <1>0, <1>9, <2>1, FinishTyped DEF LockSubmittedUrl, TypeOK, RequestOK
  <2>2. CASE worker' = [worker EXCEPT ![w].pc = "direct"]
    <3> DEFINE x == [worker[w] EXCEPT !.pc = "direct"]
    <3>1. worker' = [worker EXCEPT ![w] = x] /\ x \in WorkerState
      BY <1>0, <2>2, WorkerChanged
    <3>2. x.pc = "direct" /\ x.msg = worker[w].msg /\ x.url = worker[w].url
      BY <1>0 DEF WorkerState
    <3> HIDE DEF x
    <3>3. worker' \in [Workers -> WorkerState] /\ WorkerOK'
      BY <1>0, <1>9, <3>1, <3>2 DEF WorkerOK, InLane, LockSubmittedUrl
    <3> QED
      BY <1>0, <1>9, <3>3 DEF LockSubmittedUrl, TypeOK, RequestOK
  <2> QED
    BY <1>9, <2>1, <2>2 DEF LockSubmittedUrl
<1>10. ASSUME NEW w \in Workers, Crash(w) PROVE TypeInv'
  <2>1. queue' \subseteq Targets /\ faults' \in 0 .. FaultBudget
    BY <1>0, <1>10, FaultBudgetAssumption DEF Crash, Fault, WorkerOK
  <2>2. worker' \in [Workers -> WorkerState] /\ WorkerOK'
    BY <1>10, FinishTyped DEF Crash, Finish
  <2> QED
    BY <1>0, <1>10, <2>1, <2>2 DEF Crash, TypeOK, RequestOK
<1>11. ASSUME NEW w \in Workers, NEW r \in ScanResult, StoreResult(w, r) PROVE TypeInv'
  <2> DEFINE x == [worker[w] EXCEPT !.pc = "resting", !.url = NoUrl]
             u == worker[w].url
  <2>1. worker' = [worker EXCEPT ![w] = x] /\ x \in WorkerState
    BY <1>0, <1>11, WorkerChanged DEF StoreResult
  <2>2. x.pc = "resting" /\ x.msg = worker[w].msg /\ x.source = worker[w].source
    BY <1>0 DEF WorkerState
  <2> HIDE DEF x
  <2>3. worker' \in [Workers -> WorkerState] /\ WorkerOK'
    BY <1>0, <1>11, <2>1, <2>2 DEF WorkerOK, InLane, StoreResult
  <2>4. u \in Urls /\ ApplyScanResult(rows[u], r) \in Row
    BY <1>0, <1>11, ResultStored DEF StoreResult, WorkerOK
  <2>5. rows' \in [Urls -> Row]
    BY <1>0, <1>11, <2>4 DEF StoreResult
  <2> QED
    BY <1>0, <1>11, <2>3, <2>5 DEF StoreResult, TypeOK, RequestOK
<1>12. ASSUME NEW w \in Workers, NEW r \in ScanResult, FinishSubmittedUrl(w, r) PROVE TypeInv'
  <2> DEFINE u == worker[w].url
  <2>1. u \in Urls
    BY <1>12 DEF FinishSubmittedUrl, WorkerOK
  <2>2. PICK s \in Sources \union {NoSource} :
          rows' = [rows EXCEPT ![u] = ApplyScanResult([@ EXCEPT !.source = s], r)]
    BY <1>0, <1>12, <2>1 DEF FinishSubmittedUrl, Row
  <2>3. ApplyScanResult([rows[u] EXCEPT !.source = s], r) \in Row
    BY <1>0, <2>1, ColumnWritten, ResultStored
  <2>4. rows' \in [Urls -> Row]
    BY <1>0, <2>1, <2>2, <2>3
  <2> QED
    BY <1>0, <1>12, <2>4, FinishTyped DEF FinishSubmittedUrl, TypeOK, RequestOK
<1>13. ASSUME NEW s \in Sources, WakeSource(s) PROVE TypeInv'
  BY <1>0, <1>13 DEF WakeSource, TypeOK, WorkerOK, RequestOK, Targets
<1>14. CASE RetrySweep
  <2>1. rows' \in [Urls -> Row]
    BY <1>0, <1>14, RowReset DEF RetrySweep
  <2>2. queue' \subseteq Targets /\ faults' \in 0 .. FaultBudget
    BY <1>0, <1>14, FaultBudgetAssumption DEF RetrySweep, Fault, Targets
  <2> QED
    BY <1>0, <1>14, <2>1, <2>2 DEF RetrySweep, TypeOK, WorkerOK, RequestOK
<1>15. CASE Tick
  <2>1. rows' \in [Urls -> Row]
    BY <1>0, <1>15, RowAged DEF Tick
  <2>2. ASSUME NEW w \in Workers
        PROVE  /\ worker'[w] \in WorkerState
               /\ worker'[w].pc = worker[w].pc /\ worker'[w].msg = worker[w].msg
               /\ worker'[w].source = worker[w].source /\ worker'[w].url = worker[w].url
    <3>1. CASE worker[w].pc = "idle"
      BY <1>0, <1>15, <3>1 DEF Tick
    <3>2. CASE worker[w].pc # "idle"
      <4>1. worker'[w] = [worker[w] EXCEPT !.age = worker[w].age + 1]
        BY <1>0, <1>15, <3>2 DEF Tick
      <4>2. worker'[w] \in WorkerState
        BY <1>0, <1>15, <3>2, <4>1, WorkerChanged DEF Tick
      <4> QED
        BY <1>0, <4>1, <4>2 DEF WorkerState
    <3> QED
      BY <3>1, <3>2
  <2>3. worker' \in [Workers -> WorkerState] /\ WorkerOK'
    BY <1>15, <2>2 DEF Tick, WorkerOK
  <2>4. ASSUME NEW q \in Requests
        PROVE  /\ request'[q] \in RequestState
               /\ request'[q].pc = request[q].pc /\ request'[q].url = request[q].url
    <3>1. CASE request[q].pc = "idle"
      BY <1>0, <1>15, <3>1 DEF Tick
    <3>2. CASE request[q].pc # "idle"
      <4>1. request'[q] = [request[q] EXCEPT !.age = request[q].age + 1]
        BY <1>0, <1>15, <3>2 DEF Tick
      <4>2. request[q].age + 1 \in 0 .. RequestTimeout
        BY <1>0, <1>15, <3>2, TimeoutAssumption DEF Tick, RequestState
      <4> QED
        BY <1>0, <4>1, <4>2 DEF RequestState
    <3> QED
      BY <3>1, <3>2
  <2>5. request' \in [Requests -> RequestState] /\ RequestOK'
    BY <1>15, <2>4 DEF Tick, RequestOK
  <2> QED
    BY <1>0, <1>15, <2>1, <2>3, <2>5 DEF Tick, TypeOK
<1> QED
  BY <1>1, <1>2, <1>3, <1>4, <1>5, <1>6, <1>7, <1>8, <1>9, <1>10, <1>11, <1>12,
     <1>13, <1>14, <1>15 DEF SystemNext

\* ... and by what people do.
LEMMA HumanTypeStep == TypeInv /\ HumanNext => TypeInv'
<1> SUFFICES ASSUME TypeInv, HumanNext PROVE TypeInv'
  OBVIOUS
<1> USE DEF TypeInv
<1>0. /\ rows \in [Urls -> Row] /\ live \subseteq Sources /\ queue \subseteq Targets
      /\ worker \in [Workers -> WorkerState] /\ request \in [Requests -> RequestState]
      /\ faults \in 0 .. FaultBudget
  BY DEF TypeOK
<1>1. ASSUME NEW q \in Requests, NEW u \in Urls, RescanStart(q, u) PROVE TypeInv'
  <2> DEFINE x == [IdleRequest EXCEPT !.pc = "fetching", !.url = u, !.snap = Loaded(rows[u])]
  <2>1. x \in RequestState /\ x.url = u
    <3>1. IdleRequest \in RequestState /\ Loaded(rows[u]) \in Row
      BY <1>0, RequestTyped, ColumnWritten
    <3> QED
      BY <3>1 DEF RequestState
  <2>2. request' = [request EXCEPT ![q] = x]
    BY <1>1 DEF RescanStart
  <2> HIDE DEF x
  <2>3. request' \in [Requests -> RequestState] /\ RequestOK'
    BY <1>0, <2>1, <2>2 DEF RequestOK
  <2> QED
    BY <1>0, <1>1, <2>3 DEF RescanStart, TypeOK, WorkerOK
<1>2. ASSUME NEW q \in Requests, NEW r \in ScanResult, RescanApply(q, r) PROVE TypeInv'
  <2> DEFINE u == request[q].url
             c == [request[q].snap EXCEPT !.posting = rows[u].posting, !.full = rows[u].full]
             x == [request[q] EXCEPT !.pc = "applied", !.snap = c, !.result = r]
  <2>1. u \in Urls
    BY <1>2 DEF RescanApply, RequestOK
  <2>2. c \in Row
    BY <1>0, <2>1 DEF RequestState, Row
  <2> HIDE DEF c
  <2>3. x \in RequestState /\ x.url = u
    BY <1>0, <2>2 DEF RequestState
  <2>4. request' = [request EXCEPT ![q] = x]
    BY <1>0, <1>2 DEF RescanApply, c, RequestState
  <2> HIDE DEF x
  <2>5. request' \in [Requests -> RequestState] /\ RequestOK'
    BY <1>0, <2>1, <2>3, <2>4 DEF RequestOK
  <2> QED
    BY <1>0, <1>2, <2>5 DEF RescanApply, TypeOK, WorkerOK
<1>3. ASSUME NEW q \in Requests, request' = [request EXCEPT ![q] = IdleRequest]
      PROVE  request' \in [Requests -> RequestState] /\ RequestOK'
  <2>1. IdleRequest \in RequestState /\ IdleRequest.pc = "idle"
    BY RequestTyped DEF IdleRequest
  <2> QED
    BY <1>0, <1>3, <2>1 DEF RequestOK
<1>4. ASSUME NEW q \in Requests, RescanFlush(q) PROVE TypeInv'
  <2>1. PICK after \in Row, rewritten \in BOOLEAN :
          rows' = [rows EXCEPT ![request[q].url] =
                      WriteChanged(@, request[q].snap, after, rewritten)]
    <3> DEFINE c == [request[q].snap EXCEPT !.attempts = 0]
    <3>1. c \in Row /\ request[q].result \in ScanResult
      BY <1>0 DEF RequestState, Row
    <3>2. ApplyScanResult(c, request[q].result) \in Row
      BY <3>1, ResultStored
    <3> QED
      BY <1>4, <3>2 DEF RescanFlush
  <2>2. request[q].url \in Urls /\ request[q].snap \in Row
    BY <1>0, <1>4 DEF RescanFlush, RequestOK, RequestState
  <2>3. WriteChanged(rows[request[q].url], request[q].snap, after, rewritten) \in Row
    BY <1>0, <2>2, ChangedWritten
  <2>4. rows' \in [Urls -> Row]
    BY <1>0, <2>1, <2>2, <2>3
  <2> QED
    BY <1>0, <1>3, <1>4, <2>4 DEF RescanFlush, TypeOK, WorkerOK
<1>5. ASSUME NEW q \in Requests, RescanAbort(q) PROVE TypeInv'
  BY <1>0, <1>3, <1>5 DEF RescanAbort, TypeOK, WorkerOK
<1>6. ASSUME NEW a \in Admins, NEW s \in Sources, ResetStart(a, s) PROVE TypeInv'
  <2> DEFINE c == [u \in Urls |-> IF Exists(u) /\ rows[u].source = s
                                  THEN ResetColumns(rows[u]) ELSE {}]
  <2>1. reset' = [reset EXCEPT ![a] = [source |-> s, columns |-> c]]
    BY <1>6 DEF ResetStart
  <2>2. c \in [Urls -> SUBSET ResetColumn]
    BY DEF ResetColumns
  <2> HIDE DEF c
  <2>3. [source |-> s, columns |-> c] \in ResetState
    BY <2>2 DEF ResetState
  <2>4. reset' \in [Admins -> ResetState]
    BY <2>1, <2>3 DEF TypeOK
  <2> QED
    BY <1>0, <1>6, <2>4 DEF ResetStart, TypeOK, WorkerOK, RequestOK
<1>9. ASSUME NEW a \in Admins, reset' = [reset EXCEPT ![a] = IdleReset]
      PROVE  reset' \in [Admins -> ResetState]
  <2>1. IdleReset \in ResetState
    BY DEF IdleReset, ResetState
  <2> QED
    BY <1>9, <2>1 DEF TypeOK
<1>10. ASSUME NEW a \in Admins, ResetCommit(a) PROVE TypeInv'
  <2>1. reset[a].source \in Sources \union {NoSource} /\ \A u \in Urls : reset[a].columns[u] \in SUBSET ResetColumn
    BY DEF TypeOK, ResetState
  <2>2. rows' \in [Urls -> Row]
    <3>1. \A u \in Urls : ResetInto(rows[u], reset[a].columns[u]) \in Row
      BY <1>0, <2>1, ColumnsReset
    <3> QED
      BY <1>10, <3>1 DEF ResetCommit
  <2>3. queue' \subseteq Targets /\ faults' \in 0 .. FaultBudget
    <3>1. {reset[a].source} \cap live \in SUBSET Targets
      BY <1>0 DEF Targets
    <3> QED
      BY <1>10, <3>1, PublishTyped DEF ResetCommit
  <2> QED
    BY <1>0, <1>9, <1>10, <2>2, <2>3 DEF ResetCommit, TypeOK, WorkerOK, RequestOK
<1>11. ASSUME NEW a \in Admins, ResetAbort(a) PROVE TypeInv'
  BY <1>0, <1>9, <1>11 DEF ResetAbort, TypeOK, WorkerOK, RequestOK
<1>7. ASSUME NEW s \in Sources, DeleteSource(s) PROVE TypeInv'
  <2>1. rows' \in [Urls -> Row]
    BY <1>0, <1>7, ColumnWritten DEF DeleteSource
  <2> QED
    BY <1>0, <1>7, <2>1 DEF DeleteSource, TypeOK, WorkerOK, RequestOK
<1>8. ASSUME NEW u \in Urls, DeleteListing(u) PROVE TypeInv'
  <2>1. rows' \in [Urls -> Row]
    BY <1>0, <1>8, NewRowTyped DEF DeleteListing
  <2> QED
    BY <1>0, <1>8, <2>1 DEF DeleteListing, TypeOK, WorkerOK, RequestOK
<1> QED
  BY <1>1, <1>2, <1>4, <1>5, <1>6, <1>7, <1>8, <1>10, <1>11 DEF HumanNext

LEMMA TypeStep == TypeInv /\ [Next]_vars => TypeInv'
<1>1. TypeInv /\ UNCHANGED vars => TypeInv'
  BY DEF vars, TypeInv, TypeOK, WorkerOK, RequestOK
<1> QED
  BY <1>1, SystemTypeStep, HumanTypeStep DEF Next

LEMMA TypeInvariant == Spec => []TypeInv
BY TypeInit, TypeStep, PTL DEF Spec

\* Every variable keeps its type, whatever the system and the people do: rows
\* stay rows of job_posting_urls, ages stay under the timeouts the platform
\* enforces, and only sources and URLs are ever put in the queue.
THEOREM TypeCorrect == Spec => []TypeOK
<1>1. TypeInv => TypeOK
  BY DEF TypeInv
<1> QED
  BY <1>1, TypeInvariant, PTL

-----------------------------------------------------------------------------
(* The claim cap.  Only claim_next_url makes a claim, and it counts first; *)
(* every other write leaves a URL's claim alone or drops it, and none puts *)
(* a URL back in the queue under a fresh claim.  A SKIPPED row, which      *)
(* SubmitSkippedUrl makes PENDING, never had one; and an admin's commit    *)
(* that makes a row PENDING without clearing its claim finds none, unless  *)
(* a request has left one behind.                                          *)

Released == IF Requests = {} THEN (ScanStatus \union Missing) \ {"PENDING"} ELSE {"SKIPPED"}

ReleasedFree == \A u \in Urls : rows[u].status \in Released => rows[u].claim = NoClaim

ClaimInv == ReleasedFree /\ ClaimCap

LEMMA ReleasedIs == "SKIPPED" \in Released /\ "PENDING" \notin Released
BY DEF Released, ScanStatus, Missing

\* The write r -> r2 makes no claim.
NoNewClaim(r, r2) ==
    /\ r2.status \in Released => r2.claim = NoClaim
    /\ r2.status = "PENDING" /\ FreshClaim(r2) =>
         r.status = "PENDING" /\ FreshClaim(r) /\ r2.source \in {r.source, NoSource}

LEMMA NewRowFields ==
    /\ \A st, s : /\ NewRow(st, s).claim = NoClaim /\ NewRow(st, s).status = st
                  /\ NewRow(st, s).source = s /\ NewRow(st, s).retry = NoRetry
                  /\ NewRow(st, s).attempts = 0
                  /\ NewRow(st, s).posting = IF st = "SKIPPED" THEN "SKIPPED" ELSE "PENDING"
    /\ AbsentRow.claim = NoClaim /\ AbsentRow.status = "ABSENT" /\ AbsentRow.retry = NoRetry
    /\ AbsentRow.source = NoSource /\ AbsentRow.posting = "PENDING" /\ AbsentRow.attempts = 0
    /\ GoneRow.claim = NoClaim /\ GoneRow.status = "GONE" /\ GoneRow.retry = NoRetry
    /\ GoneRow.source = NoSource /\ GoneRow.posting = "PENDING" /\ GoneRow.attempts = 0
<1>1. \A st, s : /\ NewRow(st, s).claim = NoClaim /\ NewRow(st, s).status = st
                 /\ NewRow(st, s).source = s /\ NewRow(st, s).retry = NoRetry
                 /\ NewRow(st, s).attempts = 0
                 /\ NewRow(st, s).posting = IF st = "SKIPPED" THEN "SKIPPED" ELSE "PENDING"
  BY DEF NewRow
<1>2. /\ AbsentRow.claim = NoClaim /\ AbsentRow.status = "ABSENT" /\ AbsentRow.retry = NoRetry
      /\ AbsentRow.source = NoSource /\ AbsentRow.posting = "PENDING" /\ AbsentRow.attempts = 0
  BY DEF AbsentRow, NewRow
<1>3. /\ GoneRow.claim = NoClaim /\ GoneRow.status = "GONE" /\ GoneRow.retry = NoRetry
      /\ GoneRow.source = NoSource /\ GoneRow.posting = "PENDING" /\ GoneRow.attempts = 0
  BY DEF GoneRow, NewRow
<1> QED
  BY <1>1, <1>2, <1>3

\* A row without a claim has no fresh one.
LEMMA ReleasedMakesNoClaim ==
    ASSUME NEW r, NEW r2, r2.claim = NoClaim
    PROVE  NoNewClaim(r, r2)
BY DEF NoNewClaim, FreshClaim

\* Of the system's steps, all but claim_next_url make no claim.
LEMMA SystemMakesNoClaim ==
    ASSUME TypeInv, ReleasedFree, SystemNext, ~ \E w \in Workers : ClaimNextUrl(w),
           NEW v \in Urls
    PROVE  NoNewClaim(rows[v], rows'[v])
<1>0. rows \in [Urls -> Row] /\ rows[v] \in Row
  BY DEF TypeInv, TypeOK
<1>1. rows'[v] = rows[v] => NoNewClaim(rows[v], rows'[v])
  BY DEF NoNewClaim, ReleasedFree
<1>2. ASSUME NEW u \in Urls, SubmitUrl(u) PROVE NoNewClaim(rows[v], rows'[v])
  BY <1>0, <1>1, <1>2, NewRowFields, ReleasedMakesNoClaim DEF SubmitUrl
<1>3. ASSUME NEW u \in Urls, SubmitSkippedUrl(u) PROVE NoNewClaim(rows[v], rows'[v])
  <2>1. CASE u # v
    BY <1>0, <1>1, <1>3, <2>1 DEF SubmitSkippedUrl
  <2>2. CASE u = v
    <3>1. rows'[v] = Unskip(rows[v])
      BY <1>0, <1>3, <2>2 DEF SubmitSkippedUrl
    <3>2. Unskip(rows[v]).claim = rows[v].claim
      BY <1>0 DEF Unskip, Row
    <3>3. rows[v].claim = NoClaim
      BY <1>3, <2>2, ReleasedIs DEF SubmitSkippedUrl, ReleasedFree
    <3> QED
      BY <3>1, <3>2, <3>3, ReleasedMakesNoClaim
  <2> QED
    BY <2>1, <2>2
<1>4. ASSUME NEW u \in Urls, BoardPresence(u) PROVE NoNewClaim(rows[v], rows'[v])
  <2>1. /\ rows'[v].status = rows[v].status /\ rows'[v].claim = rows[v].claim
        /\ rows'[v].source = rows[v].source
    BY <1>0, <1>4 DEF BoardPresence, Row
  <2> QED
    BY <2>1 DEF NoNewClaim, FreshClaim, ReleasedFree
<1>5. ASSUME NEW u \in Urls, NEW s \in Sources, CrawlRegister(u, s)
      PROVE  NoNewClaim(rows[v], rows'[v])
  BY <1>0, <1>1, <1>5, NewRowFields, ReleasedMakesNoClaim DEF CrawlRegister
<1>6. ASSUME NEW w \in Workers, NEW r \in ScanResult, StoreResult(w, r)
      PROVE  NoNewClaim(rows[v], rows'[v])
  BY <1>0, <1>1, <1>6, ResultStored, ReleasedMakesNoClaim DEF StoreResult
<1>7. ASSUME NEW w \in Workers, NEW r \in ScanResult, FinishSubmittedUrl(w, r)
      PROVE  NoNewClaim(rows[v], rows'[v])
  <2>1. CASE worker[w].url # v
    BY <1>0, <1>1, <1>7, <2>1 DEF FinishSubmittedUrl
  <2>2. CASE worker[w].url = v
    <3>1. PICK s \in Sources \union {NoSource} :
             rows'[v] = ApplyScanResult([rows[v] EXCEPT !.source = s], r)
      BY <1>0, <1>7, <2>2 DEF FinishSubmittedUrl, Row, TypeInv, TypeOK
    <3>2. [rows[v] EXCEPT !.source = s] \in Row
      BY <1>0, ColumnWritten
    <3>3. rows'[v].claim = NoClaim
      BY <3>1, <3>2, ResultStored
    <3> QED
      BY <3>3, ReleasedMakesNoClaim
  <2> QED
    BY <2>1, <2>2
<1>8. CASE RetrySweep
  BY <1>0, <1>1, <1>8, RowReset, ReleasedMakesNoClaim DEF RetrySweep
<1>9. CASE Tick
  <2>1. rows'[v] = AgeRow(rows[v])
    BY <1>9 DEF Tick
  <2> QED
    BY <1>0, <2>1, RowAged DEF NoNewClaim, ReleasedFree
<1>10. CASE UNCHANGED rows
  BY <1>1, <1>10
<1> QED
  BY <1>2, <1>3, <1>4, <1>5, <1>6, <1>7, <1>8, <1>9, <1>10
     DEF SystemNext, Deliver, LaneContinues, LaneDeadline, LockSubmittedUrl, Crash, WakeSource

\* Nor do people, be they users or admins.
LEMMA PeopleMakeNoClaim ==
    ASSUME TypeInv, ReleasedFree, HumanNext, Requests = {} \/ Admins = {}, NEW v \in Urls
    PROVE  NoNewClaim(rows[v], rows'[v])
<1>0. rows \in [Urls -> Row] /\ rows[v] \in Row /\ request \in [Requests -> RequestState]
  BY DEF TypeInv, TypeOK
<1>1. rows'[v] = rows[v] => NoNewClaim(rows[v], rows'[v])
  BY DEF NoNewClaim, ReleasedFree
<1>2. ASSUME NEW q \in Requests, RescanFlush(q) PROVE NoNewClaim(rows[v], rows'[v])
  <2>1. CASE request[q].url # v
    BY <1>0, <1>1, <1>2, <2>1 DEF RescanFlush
  <2>2. CASE request[q].url = v
    <3> DEFINE c == [request[q].snap EXCEPT !.attempts = 0]
               after == ApplyScanResult(c, request[q].result)
    <3>1. c \in Row /\ request[q].snap \in Row /\ request[q].result \in ScanResult
      BY <1>0 DEF RequestState, Row
    <3>2. after \in Row /\ after.claim = NoClaim
          /\ after.status \in {"SUCCESS", "FAILED", "NEEDS_REVIEW"}
      BY <3>1, ResultStored
    <3>3. PICK rewritten \in BOOLEAN :
             rows'[v] = WriteChanged(rows[v], request[q].snap, after, rewritten)
      BY <1>0, <1>2, <2>2 DEF RescanFlush
    <3> HIDE DEF after
    <3> DEFINE before == rows[v]
               snap == request[q].snap
    <3>4. before \in Row /\ snap \in Row
      BY <1>0, <3>1
    <3> HIDE DEF before, snap
    <3> DEFINE a == WriteChanged(before, snap, after, rewritten)
    <3>5. /\ a.source = before.source
          /\ a.status \in {before.status, after.status}
          /\ a.claim \in {before.claim, after.claim}
      <4>1. a.source = before.source
        BY <3>2, <3>4, ChangedWritten
      <4>2. a.status \in {before.status, after.status}
        BY <3>2, <3>4, ChangedWritten
      <4>3. a.claim \in {before.claim, after.claim}
        BY <3>2, <3>4, ChangedWritten
      <4> QED
        BY <4>1, <4>2, <4>3
    <3> QED
      BY <1>2, <3>2, <3>3, <3>5 DEF NoNewClaim, FreshClaim, ReleasedFree, Released, before, snap
  <2> QED
    BY <2>1, <2>2
<1>3. ASSUME NEW a \in Admins, ResetCommit(a) PROVE NoNewClaim(rows[v], rows'[v])
  <2>1. /\ rows'[v] = ResetInto(rows[v], reset[a].columns[v])
        /\ reset[a].columns[v] \in SUBSET ResetColumn
    BY <1>3 DEF ResetCommit, TypeInv, TypeOK, ResetState
  <2>2. /\ rows'[v].source = rows[v].source
        /\ rows'[v].status \in {rows[v].status, "PENDING"}
        /\ rows'[v].claim \in {rows[v].claim, NoClaim}
    BY <1>0, <2>1, ColumnsReset
  <2>3. rows[v].status # "PENDING" => rows[v].claim = NoClaim
    <3>1. Requests = {}
      BY <1>3
    <3> QED
      BY <1>0, <3>1 DEF ReleasedFree, Released, Row
  <2> QED
    BY <2>2, <2>3, ReleasedIs DEF NoNewClaim, FreshClaim, ReleasedFree
<1>4. ASSUME NEW s \in Sources, DeleteSource(s) PROVE NoNewClaim(rows[v], rows'[v])
  <2>1. /\ rows'[v].status = rows[v].status /\ rows'[v].claim = rows[v].claim
        /\ rows'[v].source \in {rows[v].source, NoSource}
    BY <1>0, <1>4, ColumnWritten DEF DeleteSource
  <2> QED
    BY <2>1 DEF NoNewClaim, FreshClaim, ReleasedFree
<1>5. ASSUME NEW u \in Urls, DeleteListing(u) PROVE NoNewClaim(rows[v], rows'[v])
  BY <1>0, <1>1, <1>5, NewRowFields, ReleasedMakesNoClaim DEF DeleteListing
<1>6. CASE UNCHANGED rows
  BY <1>1, <1>6
<1> QED
  BY <1>2, <1>3, <1>4, <1>5, <1>6 DEF HumanNext, RescanStart, RescanApply, RescanAbort, ResetStart, ResetAbort

LEMMA InFlightFinite ==
    ASSUME NEW s \in Sources
    PROVE  IsFiniteSet(InFlight(s)) /\ Cardinality(InFlight(s)) \in Nat
<1>1. InFlight(s) \subseteq Urls
  BY DEF InFlight, PendingOf
<1> QED
  BY <1>1, FiniteActors, FS_Subset, FS_CardinalityType

\* When no row gains a claim, no source does.
LEMMA NoNewClaimStep ==
    ASSUME ClaimInv, \A v \in Urls : NoNewClaim(rows[v], rows'[v])
    PROVE  ClaimInv'
<1>1. ReleasedFree'
  BY DEF ReleasedFree, NoNewClaim
<1>2. ASSUME NEW s \in Sources PROVE Cardinality(InFlight(s)') <= Cap[s]
  <2>1. InFlight(s)' \subseteq InFlight(s)
    BY NoSourceAssumption DEF InFlight, PendingOf, NoNewClaim
  <2>2. IsFiniteSet(InFlight(s)') /\ Cardinality(InFlight(s)') <= Cardinality(InFlight(s))
    BY <2>1, InFlightFinite, FS_Subset
  <2>3. Cardinality(InFlight(s)') \in Nat /\ Cardinality(InFlight(s)) \in Nat /\ Cap[s] \in Nat
    BY <2>2, InFlightFinite, FS_CardinalityType, CapAssumption
  <2> QED
    BY <2>2, <2>3 DEF ClaimInv, ClaimCap
<1> QED
  BY <1>1, <1>2 DEF ClaimInv, ClaimCap

\* claim_next_url adds one claim, to a source that is under its cap.
LEMMA ClaimStep ==
    ASSUME TypeInv, ClaimInv, NEW w \in Workers, ClaimNextUrl(w)
    PROVE  ClaimInv'
<1> DEFINE s == worker[w].source
<1>0. rows \in [Urls -> Row]
  BY DEF TypeInv, TypeOK
<1>1. CASE UNCHANGED rows
  BY <1>1 DEF ClaimInv, ReleasedFree, ClaimCap, InFlight, PendingOf
<1>2. ASSUME NEW u \in Claimable(s), Cardinality(InFlight(s)) < Cap[s],
             rows' = [rows EXCEPT ![u].claim = 0]
      PROVE  ClaimInv'
  <2>1. u \in Urls /\ rows[u].status = "PENDING" /\ rows[u].source = s
    BY DEF Claimable, PendingOf
  <2>2. \A v \in Urls : /\ rows'[v].status = rows[v].status /\ rows'[v].source = rows[v].source
                        /\ v # u => rows'[v].claim = rows[v].claim
    BY <1>0, <1>2, <2>1 DEF Row
  <2>3. ReleasedFree'
    BY <2>1, <2>2, ReleasedIs DEF ClaimInv, ReleasedFree
  <2>4. ASSUME NEW t \in Sources PROVE Cardinality(InFlight(t)') <= Cap[t]
    <3>0. /\ IsFiniteSet(InFlight(t)) /\ Cardinality(InFlight(t)) \in Nat
          /\ Cap[t] \in Nat /\ Cardinality(InFlight(t)) <= Cap[t]
      BY InFlightFinite, CapAssumption DEF ClaimInv, ClaimCap
    <3>1. CASE t = s
      <4>1. InFlight(t)' \subseteq InFlight(t) \union {u}
        BY <2>2 DEF InFlight, PendingOf, FreshClaim
      <4>2. IsFiniteSet(InFlight(t) \union {u})
            /\ Cardinality(InFlight(t) \union {u}) <= Cardinality(InFlight(t)) + 1
            /\ Cardinality(InFlight(t) \union {u}) \in Nat
        <5>1. /\ IsFiniteSet(InFlight(t) \union {u})
              /\ \/ Cardinality(InFlight(t) \union {u}) = Cardinality(InFlight(t))
                 \/ Cardinality(InFlight(t) \union {u}) = Cardinality(InFlight(t)) + 1
          BY <3>0, FS_AddElement, Zenon
        <5> QED
          BY <3>0, <5>1
      <4>3. IsFiniteSet(InFlight(t)')
            /\ Cardinality(InFlight(t)') <= Cardinality(InFlight(t) \union {u})
        BY <4>1, <4>2, FS_Subset
      <4>4. Cardinality(InFlight(t)') \in Nat
        BY <4>3, FS_CardinalityType
      <4> QED
        BY <1>2, <3>0, <3>1, <4>2, <4>3, <4>4
    <3>2. CASE t # s
      <4>1. InFlight(t)' \subseteq InFlight(t)
        BY <2>1, <2>2, <3>2 DEF InFlight, PendingOf, FreshClaim
      <4>2. IsFiniteSet(InFlight(t)')
            /\ Cardinality(InFlight(t)') <= Cardinality(InFlight(t))
        BY <3>0, <4>1, FS_Subset
      <4>3. Cardinality(InFlight(t)') \in Nat
        BY <4>2, FS_CardinalityType
      <4> QED
        BY <3>0, <4>2, <4>3
    <3> QED
      BY <3>1, <3>2
  <2> QED
    BY <2>3, <2>4 DEF ClaimInv, ClaimCap
<1> QED
  BY <1>1, <1>2 DEF ClaimNextUrl

LEMMA ClaimInitially == Init => ClaimInv
<1> SUFFICES ASSUME Init PROVE ClaimInv
  OBVIOUS
<1>1. ReleasedFree
  BY NewRowFields DEF Init, ReleasedFree
<1>2. ASSUME NEW s \in Sources PROVE Cardinality(InFlight(s)) <= Cap[s]
  <2>1. InFlight(s) = {}
    BY NewRowFields DEF Init, InFlight, PendingOf
  <2>2. Cap[s] \in Nat
    BY CapAssumption
  <2> QED
    BY <2>1, <2>2, FS_EmptySet
<1> QED
  BY <1>1, <1>2 DEF ClaimInv, ClaimCap

LEMMA ClaimSystemStep == TypeInv /\ ClaimInv /\ [SystemNext]_vars => ClaimInv'
<1> SUFFICES ASSUME TypeInv, ClaimInv, [SystemNext]_vars PROVE ClaimInv'
  OBVIOUS
<1>1. CASE UNCHANGED vars
  BY <1>1 DEF vars, ClaimInv, ReleasedFree, ClaimCap, InFlight, PendingOf
<1>2. ASSUME NEW w \in Workers, ClaimNextUrl(w) PROVE ClaimInv'
  BY <1>2, ClaimStep
<1>3. CASE SystemNext /\ ~ \E w \in Workers : ClaimNextUrl(w)
  BY <1>3, SystemMakesNoClaim, NoNewClaimStep DEF ClaimInv
<1> QED
  BY <1>1, <1>2, <1>3

LEMMA ClaimHumanStep ==
    ASSUME Requests = {} \/ Admins = {}
    PROVE  TypeInv /\ ClaimInv /\ HumanNext => ClaimInv'
BY PeopleMakeNoClaim, NoNewClaimStep DEF ClaimInv

\* A source never has more fresh claims than its cap, neither while admins
\* reset or delete rows that lanes are working on, nor while users' rescans
\* write stale copies over them.  Of the two at once it is not true: a user's
\* copy can end a row's scan without dropping its claim, and an admin's commit
\* put that row back in the queue, claim and all.
THEOREM ClaimCapHolds == Requests = {} \/ Admins = {} => (Spec => []ClaimCap)
<1> SUFFICES ASSUME Requests = {} \/ Admins = {} PROVE Spec => []ClaimCap
  OBVIOUS
<1>1. ClaimInv => ClaimCap
  BY DEF ClaimInv
<1>2. TypeInv /\ ClaimInv /\ [Next]_vars => ClaimInv'
  BY ClaimSystemStep, ClaimHumanStep DEF Next
<1> QED
  BY <1>1, <1>2, ClaimInitially, TypeInvariant, PTL DEF Spec

-----------------------------------------------------------------------------
(* The politeness cap.  While nobody resets claimed rows, a lane's claim   *)
(* outlives its fetch: the platform kills the lane before the TTL passes,  *)
(* and no other write reaches a row that is PENDING under a claim.  The    *)
(* delicate case is a URL that had no source when its message was taken:   *)
(* should a duplicate of the message give it one and fail, the retry that  *)
(* puts it in the source's lanes comes a backoff later, when the late      *)
(* duplicate has timed out.                                                *)

\* A fetching lane holds its URL's claim.
ClaimHeld ==
    \A w \in Workers : worker[w].pc = "fetching" =>
        LET r == rows[worker[w].url]
        IN  /\ r.status = "PENDING" /\ r.source = worker[w].source
            /\ r.claim # NoClaim /\ r.claim <= worker[w].age

OneFetcher ==
    \A v, w \in Workers :
        /\ worker[v].pc = "fetching" /\ worker[w].pc = "fetching"
        /\ worker[v].url = worker[w].url
        => v = w

\* No message is about a URL that has no row.
Registered ==
    \A u \in Urls : rows[u].status \in Missing =>
        /\ u \notin queue
        /\ \A w \in Workers :
              /\ worker[w].msg # u
              /\ worker[w].pc \in {"locking", "direct"} => worker[w].url # u

\* What a submitted URL's invocation may find when it gets the lock.
LateDuplicate ==
    \A w \in Workers : worker[w].pc = "locking" =>
        LET r == rows[worker[w].url]
        IN  \/ r.source = NoSource
            \/ r.status \in {"SUCCESS", "NEEDS_REVIEW"}
            \/ r.status = "FAILED" /\ worker[w].age + r.retry >= Backoff

DirectHeld ==
    /\ \A w \in Workers : worker[w].pc = "direct" =>
          /\ rows[worker[w].url].status = "PENDING"
          /\ rows[worker[w].url].source = NoSource
    /\ \A v, w \in Workers :
          /\ worker[v].pc = "direct" /\ worker[w].pc = "direct"
          /\ worker[v].url = worker[w].url
          => v = w

LaneInv == ClaimHeld /\ OneFetcher /\ Registered /\ LateDuplicate /\ DirectHeld

LEMMA LaneInit == Init => LaneInv
<1> SUFFICES ASSUME Init PROVE LaneInv
  OBVIOUS
<1>1. \A w \in Workers : worker[w].pc = "idle" /\ worker[w].msg = NoUrl
  BY DEF Init, IdleWorker
<1>2. Registered
  BY <1>1, DistinctTargets DEF Registered, Init
<1> QED
  BY <1>1, <1>2 DEF LaneInv, ClaimHeld, OneFetcher, LateDuplicate, DirectHeld

\* What a write may do to a row without disturbing whoever is at work on it.
Harmless(r, r2) ==
    /\ r.status = "PENDING" =>
          r2.status = "PENDING" /\ r2.source = r.source /\ r2.claim = r.claim
    /\ r.status \notin Missing /\ r.source = NoSource => r2.source = NoSource
    /\ r.status \in {"SUCCESS", "NEEDS_REVIEW"} => r2.status = r.status
    /\ r.status = "FAILED" /\ r.retry # 0 => r2.status = "FAILED" /\ r2.retry = r.retry
    /\ r2.status \in Missing => r.status \in Missing

\* Steps that register URLs, or write rows no worker is at work on.
LEMMA HarmlessStep ==
    ASSUME TypeInv, LaneInv, UNCHANGED worker,
           \A u \in Urls : Harmless(rows[u], rows'[u]),
           \A u \in Urls : u \in queue' => u \in queue \/ rows'[u].status \notin Missing
    PROVE  LaneInv'
<1>0. worker \in [Workers -> WorkerState] /\ rows \in [Urls -> Row]
  BY DEF TypeInv, TypeOK
<1>1. ClaimHeld'
  BY DEF TypeInv, WorkerOK, LaneInv, ClaimHeld, Harmless
<1>2. OneFetcher'
  BY DEF LaneInv, OneFetcher
<1>3. Registered'
  BY DEF LaneInv, Registered, Harmless
<1>4. LateDuplicate'
  <2> SUFFICES ASSUME NEW w \in Workers, worker[w].pc = "locking"
               PROVE  LET r == rows'[worker[w].url]
                      IN  \/ r.source = NoSource
                          \/ r.status \in {"SUCCESS", "NEEDS_REVIEW"}
                          \/ r.status = "FAILED" /\ worker[w].age + r.retry >= Backoff
    BY DEF LateDuplicate
  <2> DEFINE u == worker[w].url
  <2>1. u \in Urls /\ rows[u].status \notin Missing
    BY DEF TypeInv, WorkerOK, LaneInv, Registered
  <2>2. worker[w].age \in Nat /\ worker[w].age < Backoff /\ Backoff \in Nat
    BY <1>0, TimeoutAssumption, BackoffAboveTimeout, TimingAssumption DEF WorkerState
  <2>3. CASE rows[u].source = NoSource
    BY <2>1, <2>3 DEF Harmless
  <2>4. CASE rows[u].status \in {"SUCCESS", "NEEDS_REVIEW"}
    BY <2>1, <2>4 DEF Harmless
  <2>5. CASE rows[u].status = "FAILED" /\ worker[w].age + rows[u].retry >= Backoff
    <3>1. rows[u].retry # 0
      <4> HIDE DEF u
      <4>1. SUFFICES ASSUME rows[u].retry = 0 PROVE FALSE
        OBVIOUS
      <4>2. worker[w].age + 0 >= Backoff
        BY <2>5, <4>1
      <4> QED
        BY <2>2, <4>2
    <3>2. rows'[u].status = "FAILED" /\ rows'[u].retry = rows[u].retry
      BY <2>1, <2>5, <3>1 DEF Harmless
    <3> QED
      BY <2>5, <3>2
  <2> QED
    BY <2>3, <2>4, <2>5 DEF LaneInv, LateDuplicate
<1>5. DirectHeld'
  BY DEF TypeInv, WorkerOK, LaneInv, DirectHeld, Harmless, Missing
<1> QED
  BY <1>1, <1>2, <1>3, <1>4, <1>5 DEF LaneInv

\* Steps of one worker that write no row and start no fetch under a claim.
LEMMA WorkerMoves ==
    ASSUME TypeInv, LaneInv, UNCHANGED rows,
           NEW w \in Workers, NEW x \in WorkerState, worker' = [worker EXCEPT ![w] = x],
           x.pc # "fetching",
           \A u \in Urls : rows[u].status \in Missing =>
               u \notin queue' /\ x.msg # u /\ (x.pc \in {"locking", "direct"} => x.url # u),
           x.pc = "locking" => rows[x.url].source = NoSource,
           x.pc = "direct" => /\ rows[x.url].status = "PENDING" /\ rows[x.url].source = NoSource
                              /\ ~Locked(x.url)
    PROVE  LaneInv'
<1>0. \A v \in Workers : worker'[v] = IF v = w THEN x ELSE worker[v]
  BY DEF TypeInv, TypeOK
<1>1. ClaimHeld'
  BY <1>0 DEF LaneInv, ClaimHeld
<1>2. OneFetcher'
  BY <1>0 DEF LaneInv, OneFetcher
<1>3. Registered'
  BY <1>0 DEF LaneInv, Registered
<1>4. LateDuplicate'
  BY <1>0 DEF LaneInv, LateDuplicate
<1>5. DirectHeld'
  BY <1>0 DEF LaneInv, DirectHeld, Locked
<1> QED
  BY <1>1, <1>2, <1>3, <1>4, <1>5 DEF LaneInv

LEMMA FinishMoves ==
    ASSUME TypeInv, LaneInv, UNCHANGED rows, NEW w \in Workers, Finish(w),
           \A u \in Urls : rows[u].status \in Missing => u \notin queue'
    PROVE  LaneInv'
<1>1. /\ IdleWorker \in WorkerState /\ IdleWorker.pc = "idle" /\ IdleWorker.msg = NoUrl
      /\ worker' = [worker EXCEPT ![w] = IdleWorker]
  BY IdleWorkerTyped DEF Finish, IdleWorker
<1>2. \A u \in Urls : IdleWorker.msg # u
  BY <1>1, DistinctTargets
<1> QED
  BY <1>1, <1>2, WorkerMoves

\* A lane that is fetching still counts as in flight.
LEMMA FetchingIsInFlight ==
    ASSUME TypeInv, ClaimHeld, NEW w \in Workers, worker[w].pc = "fetching"
    PROVE  worker[w].url \in InFlight(worker[w].source) /\ worker[w].source \in Sources
<1> DEFINE r == rows[worker[w].url]
<1>1. worker[w].url \in Urls /\ worker[w].source \in Sources
  BY DEF TypeInv, WorkerOK, InLane
<1>2. r.claim < ClaimTTL
  <2>1. r.claim <= worker[w].age /\ worker[w].age \in 0 .. FunctionTimeout
    BY DEF ClaimHeld, TypeInv, TypeOK, WorkerState
  <2>2. r.claim \in Int
    BY <1>1 DEF TypeInv, TypeOK, Row, NoClaim
  <2> QED
    BY <2>1, <2>2, TTLAboveTimeout, TimeoutAssumption, TimingAssumption
<1> QED
  BY <1>1, <1>2 DEF InFlight, PendingOf, FreshClaim, ClaimHeld

\* The steps that claim, store and age.
LEMMA ClaimKeepsLanes ==
    ASSUME TypeInv, LaneInv, NEW w \in Workers, ClaimNextUrl(w)
    PROVE  LaneInv'
<1> DEFINE s == worker[w].source
<1>0. worker \in [Workers -> WorkerState] /\ rows \in [Urls -> Row]
  BY DEF TypeInv, TypeOK
<1>1. CASE Finish(w) /\ UNCHANGED rows
  BY <1>1, FinishMoves DEF ClaimNextUrl, LaneInv, Registered
<1>2. ASSUME NEW u \in Claimable(s), rows' = [rows EXCEPT ![u].claim = 0],
             worker' = [worker EXCEPT ![w].pc = "fetching", ![w].url = u]
      PROVE  LaneInv'
  <2>1. /\ u \in Urls /\ rows[u].status = "PENDING" /\ rows[u].source = s
        /\ ~FreshClaim(rows[u]) /\ s \in Sources
    BY <1>2 DEF Claimable, PendingOf, Unclaimed, ClaimNextUrl, TypeInv, WorkerOK, InLane
  <2>2. \A v \in Urls : /\ rows'[v].status = rows[v].status /\ rows'[v].source = rows[v].source
                        /\ rows'[v].retry = rows[v].retry
                        /\ rows'[v].claim = IF v = u THEN 0 ELSE rows[v].claim
    BY <1>0, <1>2, <2>1 DEF Row
  <2>3. \A v \in Workers : /\ worker'[v].age = worker[v].age /\ worker'[v].source = worker[v].source
                           /\ worker'[v].msg = worker[v].msg
                           /\ worker'[v].pc = IF v = w THEN "fetching" ELSE worker[v].pc
                           /\ worker'[v].url = IF v = w THEN u ELSE worker[v].url
    BY <1>0, <1>2 DEF WorkerState
  <2>4. \A v \in Workers : worker[v].pc = "fetching" => worker[v].url # u
    <3>1. ASSUME NEW v \in Workers, worker[v].pc = "fetching", worker[v].url = u PROVE FALSE
      BY <2>1, <3>1, FetchingIsInFlight DEF LaneInv, InFlight
    <3> QED
      BY <3>1
  <2>5. ClaimHeld'
    <3>1. worker[w].age >= 0 /\ 0 # NoClaim
      BY <1>0, Ranges, TimeoutAssumption DEF WorkerState
    <3>2. ASSUME NEW v \in Workers, v # w, worker[v].pc = "fetching"
          PROVE  /\ worker[v].url \in Urls /\ worker[v].url # u
                 /\ rows[worker[v].url].status = "PENDING"
                 /\ rows[worker[v].url].source = worker[v].source
                 /\ rows[worker[v].url].claim # NoClaim
                 /\ rows[worker[v].url].claim <= worker[v].age
      BY <2>4, <3>2 DEF LaneInv, ClaimHeld, TypeInv, WorkerOK
    <3> QED
      BY <2>1, <2>2, <2>3, <3>1, <3>2 DEF ClaimHeld
  <2>6. OneFetcher'
    BY <2>3, <2>4 DEF LaneInv, OneFetcher
  <2>7. Registered'
    <3>1. queue' = queue
      BY DEF ClaimNextUrl
    <3>2. u \notin {v \in Urls : rows[v].status \in Missing}
      BY <2>1 DEF Missing
    <3> QED
      BY <2>2, <2>3, <3>1, <3>2 DEF LaneInv, Registered
  <2>8. LateDuplicate'
    BY <2>2, <2>3 DEF LaneInv, LateDuplicate, TypeInv, WorkerOK
  <2>9. DirectHeld'
    BY <2>2, <2>3 DEF LaneInv, DirectHeld, TypeInv, WorkerOK
  <2> QED
    BY <2>5, <2>6, <2>7, <2>8, <2>9 DEF LaneInv
<1> QED
  BY <1>1, <1>2 DEF ClaimNextUrl

LEMMA StoreKeepsLanes ==
    ASSUME TypeInv, LaneInv, NEW w \in Workers, NEW res \in ScanResult, StoreResult(w, res)
    PROVE  LaneInv'
<1> DEFINE u == worker[w].url
           a == ApplyScanResult(rows[u], res)
<1>0. worker \in [Workers -> WorkerState] /\ rows \in [Urls -> Row]
  BY DEF TypeInv, TypeOK
<1>1. /\ u \in Urls /\ worker[w].pc = "fetching" /\ rows[u].status = "PENDING"
      /\ rows[u].source = worker[w].source /\ rows[u].source # NoSource
  BY NoSourceAssumption DEF StoreResult, TypeInv, WorkerOK, InLane, LaneInv, ClaimHeld
<1>2. rows' = [rows EXCEPT ![u] = a]
  BY <1>1 DEF StoreResult
<1>3. a \in Row /\ a.status \in {"SUCCESS", "FAILED", "NEEDS_REVIEW"} /\ a.source = rows[u].source
  BY <1>0, <1>1, ResultStored
<1> HIDE DEF a
<1>4. \A v \in Workers : /\ worker'[v].age = worker[v].age /\ worker'[v].source = worker[v].source
                         /\ worker'[v].msg = worker[v].msg
                         /\ worker'[v].pc = IF v = w THEN "resting" ELSE worker[v].pc
                         /\ v # w => worker'[v].url = worker[v].url
  BY <1>0 DEF StoreResult, WorkerState
<1>5. \A v \in Urls : rows'[v] = IF v = u THEN a ELSE rows[v]
  BY <1>0, <1>2
<1>6. ClaimHeld'
  BY <1>1, <1>4, <1>5 DEF LaneInv, ClaimHeld, OneFetcher, TypeInv, WorkerOK
<1>7. OneFetcher'
  BY <1>4 DEF LaneInv, OneFetcher
<1>8. Registered'
  <2>1. queue' = queue
    BY DEF StoreResult
  <2>2. a.status \notin Missing
    BY <1>3 DEF Missing
  <2> QED
    BY <1>4, <1>5, <2>1, <2>2 DEF LaneInv, Registered
<1>9. \A v \in Workers : worker[v].pc \in {"locking", "direct"} => worker[v].url # u
  <2>1. ASSUME NEW v \in Workers, worker[v].pc = "locking" PROVE worker[v].url # u
    BY <1>1, <2>1 DEF LaneInv, LateDuplicate
  <2>2. ASSUME NEW v \in Workers, worker[v].pc = "direct" PROVE worker[v].url # u
    BY <1>1, <2>2 DEF LaneInv, DirectHeld
  <2> QED
    BY <2>1, <2>2
<1>10. LateDuplicate'
  BY <1>4, <1>5, <1>9 DEF LaneInv, LateDuplicate, TypeInv, WorkerOK
<1>11. DirectHeld'
  BY <1>4, <1>5, <1>9 DEF LaneInv, DirectHeld, TypeInv, WorkerOK
<1> QED
  BY <1>6, <1>7, <1>8, <1>10, <1>11 DEF LaneInv

LEMMA DirectKeepsLanes ==
    ASSUME TypeInv, LaneInv, NEW w \in Workers, NEW res \in ScanResult,
           FinishSubmittedUrl(w, res)
    PROVE  LaneInv'
<1> DEFINE u == worker[w].url
<1>0. worker \in [Workers -> WorkerState] /\ rows \in [Urls -> Row]
  BY DEF TypeInv, TypeOK
<1>1. /\ u \in Urls /\ worker[w].pc = "direct" /\ rows[u].status = "PENDING"
      /\ rows[u].source = NoSource
  BY DEF FinishSubmittedUrl, TypeInv, WorkerOK, LaneInv, DirectHeld
<1>2. PICK a \in Row :
        /\ rows' = [rows EXCEPT ![u] = a]
        /\ \/ a.status \in {"SUCCESS", "NEEDS_REVIEW"}
           \/ a.status = "FAILED" /\ a.retry = Backoff
  <2>1. PICK s \in Sources \union {NoSource} :
          rows' = [rows EXCEPT ![u] = ApplyScanResult([@ EXCEPT !.source = s], res)]
    BY <1>0, <1>1 DEF FinishSubmittedUrl, TypeInv, TypeOK
  <2>2. [rows[u] EXCEPT !.source = s] \in Row
    BY <1>0, <1>1, ColumnWritten
  <2> QED
    BY <2>1, <2>2, ResultStored
<1>3. \A v \in Workers : worker'[v] = IF v = w THEN IdleWorker ELSE worker[v]
  BY <1>0 DEF FinishSubmittedUrl, Finish
<1>4. \A v \in Urls : rows'[v] = IF v = u THEN a ELSE rows[v]
  BY <1>0, <1>2
<1>5. IdleWorker.pc = "idle" /\ IdleWorker.msg = NoUrl
  BY DEF IdleWorker
<1>6. ClaimHeld'
  <2>1. \A v \in Workers : worker[v].pc = "fetching" => worker[v].url # u
    BY <1>1, NoSourceAssumption DEF LaneInv, ClaimHeld, TypeInv, WorkerOK, InLane
  <2> QED
    BY <1>3, <1>4, <1>5, <2>1 DEF LaneInv, ClaimHeld, TypeInv, WorkerOK
<1>7. OneFetcher'
  BY <1>3, <1>5 DEF LaneInv, OneFetcher
<1>8. Registered'
  BY <1>2, <1>3, <1>4, <1>5, DistinctTargets
     DEF LaneInv, Registered, FinishSubmittedUrl, Missing
<1>9. LateDuplicate'
  <2>1. ASSUME NEW v \in Workers, worker[v].pc = "locking", v # w
        PROVE  LET r == rows'[worker[v].url]
               IN  \/ r.source = NoSource
                   \/ r.status \in {"SUCCESS", "NEEDS_REVIEW"}
                   \/ r.status = "FAILED" /\ worker[v].age + r.retry >= Backoff
    <3>1. CASE worker[v].url = u
      <4>1. worker[v].age \in Nat /\ Backoff \in Nat
        BY <1>0, TimingAssumption, TimeoutAssumption DEF WorkerState
      <4>2. worker[v].age + Backoff >= Backoff
        BY <4>1
      <4> QED
        BY <1>1, <1>2, <1>4, <3>1, <4>2
    <3>2. CASE worker[v].url # u
      BY <1>4, <2>1, <3>2 DEF LaneInv, LateDuplicate, TypeInv, WorkerOK
    <3> QED
      BY <3>1, <3>2
  <2> QED
    BY <1>3, <1>5, <2>1 DEF LateDuplicate
<1>10. DirectHeld'
  BY <1>1, <1>3, <1>4, <1>5 DEF LaneInv, DirectHeld, TypeInv, WorkerOK
<1> QED
  BY <1>6, <1>7, <1>8, <1>9, <1>10 DEF LaneInv

LEMMA TickKeepsLanes == ASSUME TypeInv, LaneInv, Tick PROVE LaneInv'
<1>0. worker \in [Workers -> WorkerState] /\ rows \in [Urls -> Row]
  BY DEF TypeInv, TypeOK
<1>1. ASSUME NEW v \in Workers
      PROVE  /\ worker'[v].pc = worker[v].pc /\ worker'[v].source = worker[v].source
             /\ worker'[v].msg = worker[v].msg /\ worker'[v].url = worker[v].url
             /\ worker[v].pc # "idle" => worker'[v].age = worker[v].age + 1
             /\ worker[v].age \in Nat
  BY <1>0, TimeoutAssumption DEF Tick, WorkerState
<1>2. ASSUME NEW u \in Urls
      PROVE  /\ rows'[u].status = rows[u].status /\ rows'[u].source = rows[u].source
             /\ rows'[u].claim = NoClaim <=> rows[u].claim = NoClaim
             /\ rows'[u].claim <= rows[u].claim + 1
             /\ rows'[u].retry + 1 >= rows[u].retry
             /\ rows'[u] \in Row
  <2>1. rows'[u] = AgeRow(rows[u])
    BY DEF Tick
  <2> QED
    BY <1>0, <2>1, RowAged
<1>3. ClaimHeld'
  <2> SUFFICES ASSUME NEW w \in Workers, worker[w].pc = "fetching"
               PROVE  LET r == rows'[worker[w].url]
                      IN  /\ r.status = "PENDING" /\ r.source = worker[w].source
                          /\ r.claim # NoClaim /\ r.claim <= worker'[w].age
    BY <1>1 DEF ClaimHeld
  <2> DEFINE u == worker[w].url
  <2>1. /\ u \in Urls /\ rows[u].status = "PENDING" /\ rows[u].source = worker[w].source
        /\ rows[u].claim # NoClaim /\ rows[u].claim <= worker[w].age
    BY DEF TypeInv, WorkerOK, LaneInv, ClaimHeld
  <2>2. rows[u].claim \in Int /\ rows'[u].claim \in Int
    BY <1>0, <1>2, <2>1 DEF Row, NoClaim
  <2>3. rows'[u].claim <= worker'[w].age
    BY <1>1, <1>2, <2>1, <2>2
  <2> QED
    BY <1>2, <2>1, <2>3
<1>4. OneFetcher'
  BY <1>1 DEF LaneInv, OneFetcher
<1>5. Registered'
  BY <1>1, <1>2 DEF LaneInv, Registered, Tick
<1>6. LateDuplicate'
  <2> SUFFICES ASSUME NEW w \in Workers, worker[w].pc = "locking"
               PROVE  LET r == rows'[worker[w].url]
                      IN  \/ r.source = NoSource
                          \/ r.status \in {"SUCCESS", "NEEDS_REVIEW"}
                          \/ r.status = "FAILED" /\ worker'[w].age + r.retry >= Backoff
    BY <1>1 DEF LateDuplicate
  <2> DEFINE u == worker[w].url
  <2>1. u \in Urls
    BY DEF TypeInv, WorkerOK
  <2>2. CASE rows[u].source = NoSource \/ rows[u].status \in {"SUCCESS", "NEEDS_REVIEW"}
    BY <1>2, <2>1, <2>2
  <2>3. CASE rows[u].status = "FAILED" /\ worker[w].age + rows[u].retry >= Backoff
    <3>1. rows[u].retry \in Int /\ rows'[u].retry \in Int /\ Backoff \in Int
      BY <1>0, <1>2, <2>1, TimingAssumption DEF Row, NoRetry
    <3>2. worker'[w].age = worker[w].age + 1
      BY <1>1
    <3>3. worker'[w].age + rows'[u].retry >= Backoff
      BY <1>1, <1>2, <2>1, <2>3, <3>1, <3>2
    <3> QED
      BY <1>2, <2>1, <2>3, <3>3
  <2> QED
    BY <2>2, <2>3 DEF LaneInv, LateDuplicate
<1>7. DirectHeld'
  BY <1>1, <1>2 DEF LaneInv, DirectHeld, TypeInv, WorkerOK
<1> QED
  BY <1>3, <1>4, <1>5, <1>6, <1>7 DEF LaneInv

\* Everything the system does by itself keeps the lanes' invariant.
LEMMA LaneStep == TypeInv /\ LaneInv /\ [SystemNext]_vars => LaneInv'
<1> SUFFICES ASSUME TypeInv, LaneInv, [SystemNext]_vars PROVE LaneInv'
  OBVIOUS
<1>0. worker \in [Workers -> WorkerState] /\ rows \in [Urls -> Row]
  BY DEF TypeInv, TypeOK
<1>s. \A u \in Urls : Harmless(rows[u], rows[u])
  BY DEF Harmless
<1>m. \A u \in Urls : rows[u].status \in Missing => u \notin queue /\ \A w \in Workers : worker[w].msg # u
  BY DEF LaneInv, Registered
<1>1. CASE UNCHANGED vars
  BY <1>1, <1>s, HarmlessStep DEF vars
<1>2. ASSUME NEW u \in Urls, SubmitUrl(u) PROVE LaneInv'
  <2>1. \A v \in Urls : rows'[v] = IF v = u THEN NewRow("PENDING", NoSource) ELSE rows[v]
    BY <1>0, <1>2 DEF SubmitUrl
  <2>2. \A v \in Urls : Harmless(rows[v], rows'[v])
    BY <1>2, <1>s, <2>1, NewRowFields DEF SubmitUrl, Harmless, Missing
  <2>3. \A v \in Urls : v \in queue' => v \in queue \/ rows'[v].status \notin Missing
    BY <1>2, <2>1, NewRowFields DEF SubmitUrl, Publish, Missing
  <2> QED
    BY <1>2, <2>2, <2>3, HarmlessStep DEF SubmitUrl
<1>3. ASSUME NEW u \in Urls, SubmitSkippedUrl(u) PROVE LaneInv'
  <2>1. \A v \in Urls : rows'[v] = IF v = u THEN Unskip(rows[u]) ELSE rows[v]
    BY <1>0, <1>3 DEF SubmitSkippedUrl
  <2>2. Unskip(rows[u]).status = "PENDING" /\ Unskip(rows[u]).source = rows[u].source
    BY <1>0 DEF Unskip, Row
  <2>3. \A v \in Urls : Harmless(rows[v], rows'[v])
    BY <1>3, <1>s, <2>1, <2>2 DEF SubmitSkippedUrl, Harmless, Missing
  <2>4. \A v \in Urls : v \in queue' => v \in queue \/ rows'[v].status \notin Missing
    BY <1>3, <2>1, <2>2 DEF SubmitSkippedUrl, Publish, Missing
  <2> QED
    BY <1>3, <2>3, <2>4, HarmlessStep DEF SubmitSkippedUrl
<1>4. ASSUME NEW u \in Urls, BoardPresence(u) PROVE LaneInv'
  <2>1. \A v \in Urls : /\ rows'[v].status = rows[v].status /\ rows'[v].source = rows[v].source
                        /\ rows'[v].claim = rows[v].claim /\ rows'[v].retry = rows[v].retry
    BY <1>0, <1>4 DEF BoardPresence, Row
  <2>2. \A v \in Urls : Harmless(rows[v], rows'[v])
    BY <2>1 DEF Harmless
  <2> QED
    BY <1>4, <2>2, HarmlessStep DEF BoardPresence
<1>5. ASSUME NEW u \in Urls, NEW s \in Sources, CrawlRegister(u, s) PROVE LaneInv'
  <2>1. PICK st \in {"PENDING", "SKIPPED"} :
          \A v \in Urls : rows'[v] = IF v = u THEN NewRow(st, s) ELSE rows[v]
    BY <1>0, <1>5 DEF CrawlRegister
  <2>2. \A v \in Urls : Harmless(rows[v], rows'[v])
    BY <1>5, <1>s, <2>1, NewRowFields DEF CrawlRegister, Harmless, Missing
  <2>3. \A v \in Urls : v \in queue' => v \in queue
    BY <1>5, DistinctTargets DEF CrawlRegister, Publish
  <2> QED
    BY <1>5, <2>2, <2>3, HarmlessStep DEF CrawlRegister
<1>6. CASE RetrySweep
  <2>1. ASSUME NEW v \in Urls
        PROVE  rows'[v] = IF RetryDue(v) THEN RetryReset(rows[v]) ELSE rows[v]
    BY <1>6 DEF RetrySweep
  <2>2. \A v \in Urls : RetryDue(v) =>
           RetryReset(rows[v]).status = "PENDING" /\ RetryReset(rows[v]).source = rows[v].source
    BY <1>0, RowReset
  <2>3. \A v \in Urls : Harmless(rows[v], rows'[v])
    BY <1>s, <2>1, <2>2 DEF Harmless, RetryDue, Missing
  <2>4. \A v \in Urls : v \in queue' => v \in queue \/ RetryDue(v)
    BY <1>6 DEF RetrySweep
  <2>5. \A v \in Urls : v \in queue' => v \in queue \/ rows'[v].status \notin Missing
    BY <2>1, <2>2, <2>4 DEF Missing
  <2> QED
    BY <1>6, <2>3, <2>5, HarmlessStep DEF RetrySweep
<1>7. ASSUME NEW s \in Sources, WakeSource(s) PROVE LaneInv'
  <2>1. \A v \in Urls : v \in queue' => v \in queue
    BY <1>7, DistinctTargets DEF WakeSource
  <2> QED
    BY <1>7, <1>s, <2>1, HarmlessStep DEF WakeSource
<1>8. ASSUME NEW w \in Workers, NEW m \in Targets, Deliver(w, m) PROVE LaneInv'
  <2>1. PICK x \in WorkerState :
          /\ worker' = [worker EXCEPT ![w] = x]
          /\ x.msg = m
          /\ \/ x.pc = "claiming" /\ x.url = NoUrl
             \/ m \in Urls /\ rows[m].source = NoSource /\ x.pc = "locking" /\ x.url = m
    BY <1>8, DeliveredTo
  <2>2. \A u \in Urls : rows[u].status \in Missing => u \notin queue' /\ u # m
    BY <1>8, <1>m DEF Deliver
  <2> QED
    BY <1>8, <2>1, <2>2, WorkerMoves DEF Deliver
<1>9. ASSUME NEW w \in Workers, LaneContinues(w) PROVE LaneInv'
  <2> DEFINE x == [worker[w] EXCEPT !.pc = "claiming"]
  <2>1. /\ x \in WorkerState /\ x.pc = "claiming" /\ x.msg = worker[w].msg
        /\ worker' = [worker EXCEPT ![w] = x]
    BY <1>0, <1>9 DEF LaneContinues, WorkerState
  <2> HIDE DEF x
  <2> QED
    BY <1>9, <1>m, <2>1, WorkerMoves DEF LaneContinues
<1>10. ASSUME NEW w \in Workers, LaneDeadline(w) PROVE LaneInv'
  <2>1. worker[w].source \in Sources
    BY <1>10 DEF LaneDeadline, TypeInv, WorkerOK, InLane
  <2>2. \A u \in Urls : rows[u].status \in Missing => u \notin queue'
    BY <1>10, <1>m, <2>1, DistinctTargets DEF LaneDeadline
  <2> QED
    BY <1>10, <2>2, FinishMoves DEF LaneDeadline
<1>11. ASSUME NEW w \in Workers, LockSubmittedUrl(w) PROVE LaneInv'
  <2>1. CASE Finish(w)
    BY <1>11, <1>m, <2>1, FinishMoves DEF LockSubmittedUrl
  <2>2. CASE rows[worker[w].url].status = "PENDING" /\ worker' = [worker EXCEPT ![w].pc = "direct"]
    <3> DEFINE x == [worker[w] EXCEPT !.pc = "direct"]
    <3>1. /\ x \in WorkerState /\ x.pc = "direct" /\ x.msg = worker[w].msg
          /\ x.url = worker[w].url /\ worker' = [worker EXCEPT ![w] = x]
      BY <1>0, <2>2 DEF WorkerState
    <3>2. rows[worker[w].url].source = NoSource /\ ~Locked(worker[w].url)
      BY <1>11, <2>2 DEF LockSubmittedUrl, LaneInv, LateDuplicate
    <3> HIDE DEF x
    <3>3. \A u \in Urls : rows[u].status \in Missing =>
             u \notin queue' /\ x.msg # u /\ x.url # u
      BY <1>11, <1>m, <2>2, <3>1 DEF LockSubmittedUrl, Missing
    <3>4. UNCHANGED rows
      BY <1>11 DEF LockSubmittedUrl
    <3>5. /\ rows[x.url].status = "PENDING" /\ rows[x.url].source = NoSource
          /\ ~Locked(x.url)
      BY <2>2, <3>1, <3>2
    <3>6. x.pc # "fetching" /\ x.pc # "locking"
      BY <3>1
    <3> QED
      BY <3>1, <3>3, <3>4, <3>5, <3>6, WorkerMoves
  <2> QED
    BY <1>11, <2>1, <2>2 DEF LockSubmittedUrl
<1>12. ASSUME NEW w \in Workers, Crash(w) PROVE LaneInv'
  <2>1. \A u \in Urls : rows[u].status \in Missing => u \notin queue'
    BY <1>12, <1>m DEF Crash
  <2> QED
    BY <1>12, <2>1, FinishMoves DEF Crash, Finish
<1> QED
  BY <1>1, <1>2, <1>3, <1>4, <1>5, <1>6, <1>7, <1>8, <1>9, <1>10, <1>11, <1>12,
     ClaimKeepsLanes, StoreKeepsLanes, DirectKeepsLanes, TickKeepsLanes DEF SystemNext

\* The system's steps are steps of the whole.
LEMMA SystemInvariant == SystemSpec => [](TypeInv /\ ClaimInv /\ LaneInv)
<1>1. [SystemNext]_vars => [Next]_vars
  BY DEF Next
<1> QED
  BY <1>1, TypeInit, TypeStep, ClaimInitially, ClaimSystemStep, LaneInit, LaneStep, PTL
     DEF SystemSpec

\* A lane that is still fetching is never taken for a dead one: its claim is
\* in flight until it stores its result, and no second lane fetches its URL.
THEOREM LiveClaims == SystemSpec => []LiveClaimHonoured
<1>1. TypeInv /\ LaneInv => LiveClaimHonoured
  BY FetchingIsInFlight DEF LaneInv, LiveClaimHonoured, ClaimHeld, OneFetcher
<1> QED
  BY <1>1, SystemInvariant, PTL

\* Lanes of a source fetch different URLs that are in flight, so there are no
\* more of them than claims.
LEMMA FetchersWithinClaims ==
    ASSUME TypeInv, LaneInv, NEW s \in Sources
    PROVE  Cardinality(Fetchers(s)) <= Cardinality(InFlight(s))
<1> DEFINE f == [w \in Fetchers(s) |-> worker[w].url]
<1>1. f \in [Fetchers(s) -> InFlight(s)]
  BY FetchingIsInFlight DEF Fetchers, LaneInv
<1>2. \A v, w \in Fetchers(s) : f[v] = f[w] => v = w
  BY DEF Fetchers, LaneInv, OneFetcher
<1>3. f \in Injection(Fetchers(s), InFlight(s))
  BY <1>1, <1>2 DEF Injection, IsInjective
<1> QED
  BY <1>3, InFlightFinite, FS_Injection

\* The politeness cap: no more than Cap[s] lanes ever fetch pages of source s
\* at the same time, as long as nobody resets or deletes rows.
THEOREM FetchCapHolds == SystemSpec => []FetchCap
<1>1. ASSUME TypeInv, ClaimInv, LaneInv PROVE FetchCap
  <2>1. ASSUME NEW s \in Sources PROVE Cardinality(Fetchers(s)) <= Cap[s]
    <3>1. Cardinality(Fetchers(s)) <= Cardinality(InFlight(s))
      BY <1>1, FetchersWithinClaims
    <3>2. IsFiniteSet(Fetchers(s)) /\ Cardinality(Fetchers(s)) \in Nat
      <4>1. Fetchers(s) \subseteq Workers
        BY DEF Fetchers
      <4> QED
        BY <4>1, FiniteActors, FS_Subset, FS_CardinalityType
    <3>3. Cardinality(InFlight(s)) \in Nat /\ Cap[s] \in Nat /\ Cardinality(InFlight(s)) <= Cap[s]
      BY <1>1, InFlightFinite, CapAssumption DEF ClaimInv, ClaimCap
    <3> QED
      BY <3>1, <3>2, <3>3
  <2> QED
    BY <2>1 DEF FetchCap
<1> QED
  BY <1>1, SystemInvariant, PTL

-----------------------------------------------------------------------------
(* The pipeline implements the fetch limiter: claiming is a Begin, storing *)
(* a result or dying during the fetch an End, and no other step shows.     *)

\* The pages of s that are being fetched, as the refinement has them.
Fetched == [s \in Sources |-> {worker[w].url : w \in Fetchers(s)}]

\* The limiter counts as the pipeline does.
LEMMA SameCount == \A S : Limiter!Cardinality(S) = Cardinality(S)
  BY DEF Limiter!Cardinality, Cardinality

LEMMA FetchedIs ==
    ASSUME NEW s \in Sources, NEW u
    PROVE  u \in Fetched[s] <=> \E w \in Workers :
               worker[w].pc = "fetching" /\ worker[w].source = s /\ worker[w].url = u
  BY DEF Fetched, Fetchers

LEMMA FetchedNext ==
    ASSUME NEW s \in Sources, NEW u
    PROVE  u \in Fetched'[s] <=> \E w \in Workers :
               worker'[w].pc = "fetching" /\ worker'[w].source = s /\ worker'[w].url = u
  BY DEF Fetched, Fetchers

LEMMA FetchedDomain ==
    /\ DOMAIN Fetched = Sources /\ DOMAIN Fetched' = Sources
    /\ Fetched = [s \in Sources |-> Fetched[s]] /\ Fetched' = [s \in Sources |-> Fetched'[s]]
  BY DEF Fetched

\* A step after which the same lanes fetch the same pages is a stutter.
LEMMA SameFetches ==
    ASSUME \A w \in Workers :
              /\ worker'[w].pc = "fetching" <=> worker[w].pc = "fetching"
              /\ worker[w].pc = "fetching" => /\ worker'[w].source = worker[w].source
                                              /\ worker'[w].url = worker[w].url
    PROVE  Fetched' = Fetched
<1>1. ASSUME NEW s \in Sources PROVE Fetched'[s] = Fetched[s]
  <2>1. \A u : u \in Fetched'[s] <=> u \in Fetched[s]
    BY FetchedIs, FetchedNext
  <2>2. Fetched[s] = {worker[w].url : w \in Fetchers(s)}
    BY DEF Fetched
  <2>3. Fetched'[s] = {worker'[w].url : w \in Fetchers(s)'}
    BY DEF Fetched
  <2> QED
    BY <2>1, <2>2, <2>3
<1> QED
  BY <1>1, FetchedDomain

\* One worker moves, and neither was fetching nor starts to.
LEMMA OtherMoves ==
    ASSUME TypeInv, NEW w \in Workers, NEW x, worker' = [worker EXCEPT ![w] = x],
           worker[w].pc # "fetching", x.pc # "fetching"
    PROVE  Fetched' = Fetched
<1>1. \A v \in Workers : worker'[v] = IF v = w THEN x ELSE worker[v]
  BY DEF TypeInv, TypeOK
<1> QED
  BY <1>1, SameFetches

\* Pages being fetched are in flight, and so no more than the cap allows.
LEMMA FetchedInFlight ==
    ASSUME TypeInv, LaneInv, NEW s \in Sources
    PROVE  /\ Fetched[s] \subseteq InFlight(s)
           /\ IsFiniteSet(Fetched[s]) /\ Cardinality(Fetched[s]) \in Nat
           /\ Cardinality(Fetched[s]) <= Cardinality(InFlight(s))
<1>1. Fetched[s] \subseteq InFlight(s)
  BY FetchedIs, FetchingIsInFlight DEF LaneInv
<1> HIDE DEF Fetched
<1> QED
  BY <1>1, InFlightFinite, FS_Subset, FS_CardinalityType

\* Claiming a URL begins its fetch.
LEMMA ClaimBegins ==
    ASSUME TypeInv, ClaimInv, LaneInv, NEW w \in Workers, ClaimNextUrl(w)
    PROVE  [Limiter!Next]_Fetched
<1> DEFINE s == worker[w].source
<1>0. worker \in [Workers -> WorkerState] /\ s \in Sources /\ worker[w].pc = "claiming"
  BY DEF TypeInv, TypeOK, WorkerOK, InLane, ClaimNextUrl
<1>1. CASE Finish(w)
  <2>1. IdleWorker.pc # "fetching"
    BY DEF IdleWorker
  <2>2. Fetched' = Fetched
    BY <1>0, <1>1, <2>1, OtherMoves DEF Finish
  <2> QED
    BY <2>2
<1>2. ASSUME NEW u \in Claimable(s), Cardinality(InFlight(s)) < Cap[s],
             worker' = [worker EXCEPT ![w].pc = "fetching", ![w].url = u]
      PROVE  Limiter!Begin(s, u) /\ u \in Urls
  <2>1. u \in Urls /\ ~FreshClaim(rows[u])
    BY <1>2 DEF Claimable, PendingOf, Unclaimed
  <2>2. \A v \in Workers :
          /\ worker'[v].source = worker[v].source
          /\ worker'[v].pc = IF v = w THEN "fetching" ELSE worker[v].pc
          /\ worker'[v].url = IF v = w THEN u ELSE worker[v].url
    BY <1>0, <1>2 DEF WorkerState
  <2>3. \A t \in Sources : u \notin Fetched[t]
    BY <2>1, FetchedInFlight DEF InFlight
  <2>4. Cardinality(Fetched[s]) < Cap[s]
    <3> HIDE DEF s
    <3>1. /\ Cardinality(Fetched[s]) \in Nat
          /\ Cardinality(Fetched[s]) <= Cardinality(InFlight(s))
      BY <1>0, FetchedInFlight
    <3>2. Cardinality(InFlight(s)) \in Nat /\ Cap[s] \in Nat
      BY <1>0, InFlightFinite, CapAssumption
    <3> HIDE DEF Fetched
    <3> QED
      BY <1>2, <3>1, <3>2
  <2>5. ASSUME NEW t \in Sources
        PROVE  Fetched'[t] = IF t = s THEN Fetched[t] \union {u} ELSE Fetched[t]
    <3>1. ASSUME NEW p
          PROVE  p \in Fetched'[t] <=> p \in Fetched[t] \/ (t = s /\ p = u)
      <4>1. CASE t = s
        BY <1>0, <2>2, <4>1, FetchedIs, FetchedNext
      <4>2. CASE t # s
        BY <1>0, <2>2, <4>2, FetchedIs, FetchedNext
      <4> QED
        BY <4>1, <4>2
    <3>2. Fetched[t] = {worker[v].url : v \in Fetchers(t)}
      BY DEF Fetched
    <3>3. Fetched'[t] = {worker'[v].url : v \in Fetchers(t)'}
      BY DEF Fetched
    <3>4. CASE t = s
      BY <3>1, <3>2, <3>3, <3>4
    <3>5. CASE t # s
      BY <3>1, <3>2, <3>3, <3>5
    <3> QED
      BY <3>4, <3>5
  <2>6. Fetched' = [Fetched EXCEPT ![s] = @ \union {u}]
    <3> HIDE DEF Fetched
    <3> QED
      BY <2>5, FetchedDomain
  <2> QED
    BY <2>1, <2>3, <2>4, <2>6, SameCount DEF Limiter!Begin, Fetched
<1> QED
  BY <1>0, <1>1, <1>2 DEF ClaimNextUrl, Limiter!Next

\* A lane that stops fetching ends its fetch.
LEMMA FetchEnds ==
    ASSUME TypeInv, LaneInv, NEW w \in Workers, worker[w].pc = "fetching",
           NEW x, x.pc # "fetching", worker' = [worker EXCEPT ![w] = x]
    PROVE  Limiter!Next
<1>0. PICK s \in Sources, u \in Urls : s = worker[w].source /\ u = worker[w].url
  BY DEF TypeInv, WorkerOK, InLane
<1>1. \A v \in Workers : worker'[v] = IF v = w THEN x ELSE worker[v]
  BY DEF TypeInv, TypeOK
<1>2. u \in Fetched[s]
  BY <1>0, FetchedIs
<1>3. ASSUME NEW t \in Sources
      PROVE  Fetched'[t] = IF t = s THEN Fetched[t] \ {u} ELSE Fetched[t]
  <2>1. \A v \in Workers : v # w /\ worker[v].pc = "fetching" => worker[v].url # u
    BY <1>0 DEF LaneInv, OneFetcher
  <2>2. ASSUME NEW p
        PROVE  p \in Fetched'[t] <=> p \in Fetched[t] /\ ~(t = s /\ p = u)
    <3>1. CASE t = s
      BY <1>0, <1>1, <2>1, <3>1, FetchedIs, FetchedNext
    <3>2. CASE t # s
      BY <1>0, <1>1, <2>1, <3>2, FetchedIs, FetchedNext
    <3> QED
      BY <3>1, <3>2
  <2>3. Fetched[t] = {worker[v].url : v \in Fetchers(t)}
    BY DEF Fetched
  <2>4. Fetched'[t] = {worker'[v].url : v \in Fetchers(t)'}
    BY DEF Fetched
  <2>5. CASE t = s
    BY <2>2, <2>3, <2>4, <2>5
  <2>6. CASE t # s
    BY <2>2, <2>3, <2>4, <2>6
  <2> QED
    BY <2>5, <2>6
<1>4. Fetched' = [Fetched EXCEPT ![s] = @ \ {u}]
  <2> HIDE DEF Fetched
  <2> QED
    BY <1>3, FetchedDomain
<1>5. Limiter!End(s, u)
  BY <1>2, <1>4 DEF Limiter!End, Fetched
<1> QED
  BY <1>5 DEF Limiter!Next

LEMMA LimiterInit == Init => Limiter!Init
<1> SUFFICES ASSUME Init PROVE Limiter!Init
  OBVIOUS
<1>1. \A w \in Workers : worker[w].pc # "fetching"
  BY DEF Init, IdleWorker
<1>2. \A s \in Sources : {worker[w].url : w \in Fetchers(s)} = {}
  BY <1>1 DEF Fetchers
<1> QED
  BY <1>2 DEF Limiter!Init

\* Every step of the system begins a fetch, ends one, or leaves them be.
LEMMA LimiterStep ==
    TypeInv /\ ClaimInv /\ LaneInv /\ [SystemNext]_vars => [Limiter!Next]_Fetched
<1> SUFFICES ASSUME TypeInv, ClaimInv, LaneInv, [SystemNext]_vars
             PROVE  [Limiter!Next]_Fetched
  OBVIOUS
<1>0. worker \in [Workers -> WorkerState]
  BY DEF TypeInv, TypeOK
<1>i. IdleWorker.pc = "idle"
  BY DEF IdleWorker
<1>1. CASE UNCHANGED worker
  <2>1. Fetched' = Fetched
    BY <1>1, SameFetches
  <2> QED
    BY <2>1
<1>2. ASSUME NEW w \in Workers, NEW m \in Targets, Deliver(w, m) PROVE Fetched' = Fetched
  <2>1. PICK x \in WorkerState :
          /\ worker' = [worker EXCEPT ![w] = x]
          /\ x.msg = m
          /\ \/ x.pc = "claiming" /\ x.url = NoUrl
             \/ m \in Urls /\ rows[m].source = NoSource /\ x.pc = "locking" /\ x.url = m
    BY <1>2, DeliveredTo
  <2>2. worker[w].pc # "fetching" /\ x.pc # "fetching"
    BY <1>2, <2>1 DEF Deliver
  <2> QED
    BY <2>1, <2>2, OtherMoves
<1>3. ASSUME NEW w \in Workers, LaneContinues(w) PROVE Fetched' = Fetched
  <2> DEFINE x == [worker[w] EXCEPT !.pc = "claiming"]
  <2>1. x.pc # "fetching" /\ worker' = [worker EXCEPT ![w] = x] /\ worker[w].pc # "fetching"
    BY <1>0, <1>3 DEF LaneContinues, WorkerState
  <2> HIDE DEF x
  <2> QED
    BY <2>1, OtherMoves
<1>4. ASSUME NEW w \in Workers, LaneDeadline(w) PROVE Fetched' = Fetched
  BY <1>4, <1>i, OtherMoves DEF LaneDeadline, Finish
<1>5. ASSUME NEW w \in Workers, LockSubmittedUrl(w) PROVE Fetched' = Fetched
  <2>1. worker[w].pc # "fetching"
    BY <1>5 DEF LockSubmittedUrl
  <2>2. CASE Finish(w)
    BY <1>i, <2>1, <2>2, OtherMoves DEF Finish
  <2>3. CASE worker' = [worker EXCEPT ![w].pc = "direct"]
    <3> DEFINE x == [worker[w] EXCEPT !.pc = "direct"]
    <3>1. x.pc # "fetching" /\ worker' = [worker EXCEPT ![w] = x]
      BY <1>0, <2>3 DEF WorkerState
    <3> HIDE DEF x
    <3> QED
      BY <2>1, <3>1, OtherMoves
  <2> QED
    BY <1>5, <2>2, <2>3 DEF LockSubmittedUrl
<1>6. ASSUME NEW w \in Workers, Crash(w) PROVE [Limiter!Next]_Fetched
  <2>1. CASE worker[w].pc = "fetching"
    <3>1. Limiter!Next
      BY <1>6, <1>i, <2>1, FetchEnds DEF Crash
    <3> QED
      BY <3>1
  <2>2. CASE worker[w].pc # "fetching"
    <3>1. Fetched' = Fetched
      BY <1>6, <1>i, <2>2, OtherMoves DEF Crash
    <3> QED
      BY <3>1
  <2> QED
    BY <2>1, <2>2
<1>7. ASSUME NEW w \in Workers, NEW r \in ScanResult, StoreResult(w, r) PROVE Limiter!Next
  <2> DEFINE x == [worker[w] EXCEPT !.pc = "resting", !.url = NoUrl]
  <2>1. /\ x.pc # "fetching" /\ worker' = [worker EXCEPT ![w] = x]
        /\ worker[w].pc = "fetching"
    BY <1>0, <1>7 DEF StoreResult, WorkerState
  <2> HIDE DEF x
  <2> QED
    BY <2>1, FetchEnds
<1>8. ASSUME NEW w \in Workers, NEW r \in ScanResult, FinishSubmittedUrl(w, r)
      PROVE  Fetched' = Fetched
  BY <1>8, <1>i, OtherMoves DEF FinishSubmittedUrl, Finish
<1>9. CASE Tick
  <2>1. ASSUME NEW w \in Workers
        PROVE  /\ worker'[w].pc = worker[w].pc /\ worker'[w].source = worker[w].source
               /\ worker'[w].url = worker[w].url
    BY <1>0, <1>9 DEF Tick, WorkerState
  <2>2. Fetched' = Fetched
    BY <2>1, SameFetches
  <2> QED
    BY <2>2
<1>10. ASSUME NEW w \in Workers, ClaimNextUrl(w) PROVE [Limiter!Next]_Fetched
  BY <1>10, ClaimBegins
<1>u. ASSUME NEW u \in Urls, SubmitUrl(u) \/ SubmitSkippedUrl(u) \/ BoardPresence(u)
      PROVE  UNCHANGED worker
  BY <1>u DEF SubmitUrl, SubmitSkippedUrl, BoardPresence
<1>c. ASSUME NEW u \in Urls, NEW s \in Sources, CrawlRegister(u, s) PROVE UNCHANGED worker
  BY <1>c DEF CrawlRegister
<1>w. ASSUME NEW s \in Sources, WakeSource(s) PROVE UNCHANGED worker
  BY <1>w DEF WakeSource
<1>r. RetrySweep \/ UNCHANGED vars => UNCHANGED worker
  BY DEF RetrySweep, vars
<1> QED
  <2> HIDE DEF Fetched
  <2> QED
    BY <1>1, <1>2, <1>3, <1>4, <1>5, <1>6, <1>7, <1>8, <1>9, <1>10, <1>u, <1>c, <1>w, <1>r
       DEF SystemNext

\* What throttling promises the scanned sites: the pipeline, left to itself,
\* implements the fetch limiter.  No page is fetched by two lanes at once and
\* no source's cap is passed, whatever crashes and comes twice.
THEOREM Throttles == SystemSpec => Throttled
<1>1. TypeInv /\ ClaimInv /\ LaneInv /\ [SystemNext]_vars => [Limiter!Next]_Fetched
  BY LimiterStep
<1> QED
  BY <1>1, LimiterInit, SystemInvariant, PTL
     DEF Throttled, Limiter!Spec, SystemSpec, Fetched

-----------------------------------------------------------------------------
(* What a step may do to one row.                                          *)

\* The columns the row's and the posting's status depend on are the same.
Same(r, x) ==
    /\ x.status = r.status /\ x.posting = r.posting /\ x.full = r.full
    /\ x.attempts = r.attempts /\ (x.retry = NoRetry <=> r.retry = NoRetry)

\* A request's flush, and the copy it writes back.
After(q) == ApplyScanResult([request[q].snap EXCEPT !.attempts = 0], request[q].result)

Flushed(q, u) ==
    /\ request[q].pc = "applied" /\ request[q].url = u /\ Exists(u) /\ ~Locked(u)
    /\ \E rewritten \in BOOLEAN :
          rows'[u] = WriteChanged(rows[u], request[q].snap, After(q), rewritten)

Stored(u) == \E x \in Row, result \in ScanResult : Same(rows[u], x) /\ rows'[u] = ApplyScanResult(x, result)

\* An admin's commit: what it does not reset in full it resets in half.
ColumnsResetOf(u) ==
    \E columns \in SUBSET ResetColumn :
        /\ rows'[u] = ResetInto(rows[u], columns)
        /\ ResetColumns(rows[u]) \ {"claim"} \subseteq columns \/ HalfReset(u)

RowStep(u) ==
    \/ Same(rows[u], rows'[u])
    \/ rows[u].status = "ABSENT" /\ \E st \in {"PENDING", "SKIPPED"}, s \in Sources \union {NoSource} :
                                       rows'[u] = NewRow(st, s)
    \/ rows[u].status = "SKIPPED" /\ rows'[u] = Unskip(rows[u])
    \/ rows[u].status = "PENDING" /\ ~Locked(u) /\ Stored(u)
    \/ Stored(u) /\ \E w \in Workers : /\ worker[w].pc = "direct" /\ worker[w].url = u
                                       /\ worker'[w] = IdleWorker
    \/ rows[u].status = "FAILED" /\ rows'[u] = RetryReset(rows[u])
    \/ Exists(u) /\ ~Locked(u) /\ ColumnsResetOf(u)
    \/ Exists(u) /\ ~Locked(u) /\ rows'[u] = GoneRow
    \/ \E q \in Requests : Flushed(q, u)

LEMMA SameRows ==
    ASSUME NEW r \in Row
    PROVE  /\ Same(r, r) /\ Same(r, [r EXCEPT !.claim = 0]) /\ Same(r, [r EXCEPT !.closed = ~r.closed])
           /\ Same(r, AgeRow(r))
           /\ \A s \in Sources \union {NoSource} : Same(r, [r EXCEPT !.source = s])
<1>1. Same(r, AgeRow(r))
  BY RowAged DEF Same
<1>2. \A s \in Sources \union {NoSource} : [r EXCEPT !.source = s].full = r.full
  BY DEF Row
<1>3. \A s \in Sources \union {NoSource} : Same(r, [r EXCEPT !.source = s])
  BY <1>2, ColumnWritten DEF Same
<1>4. Same(r, r)
  BY DEF Same
<1>5. Same(r, [r EXCEPT !.claim = 0])
  BY DEF Same, Row
<1>6. \A b \in BOOLEAN : Same(r, [r EXCEPT !.closed = b])
  BY DEF Same, Row
<1>7. Same(r, [r EXCEPT !.closed = ~r.closed])
  <2> DEFINE b == ~r.closed
  <2>1. b \in BOOLEAN
    OBVIOUS
  <2> HIDE DEF b
  <2>2. Same(r, [r EXCEPT !.closed = b])
    BY <2>1, <1>6
  <2> QED
    BY <2>2 DEF b
<1> QED
  BY <1>1, <1>3, <1>4, <1>5, <1>7

LEMMA SystemRowStep ==
    ASSUME TypeInv, SystemNext, NEW u \in Urls
    PROVE  RowStep(u)
<1>0. /\ rows \in [Urls -> Row] /\ live \subseteq Sources /\ worker \in [Workers -> WorkerState]
      /\ rows[u] \in Row /\ Same(rows[u], rows[u])
  BY SameRows DEF TypeInv, TypeOK
<1>1. ASSUME NEW v \in Urls, SubmitUrl(v) PROVE RowStep(u)
  <2>1. CASE u = v
    BY <1>0, <1>1, <2>1 DEF SubmitUrl, RowStep
  <2>2. CASE u # v
    BY <1>0, <1>1, <2>2 DEF SubmitUrl, RowStep
  <2> QED
    BY <2>1, <2>2
<1>2. ASSUME NEW v \in Urls, SubmitSkippedUrl(v) PROVE RowStep(u)
  <2>1. CASE u = v
    BY <1>0, <1>2, <2>1 DEF SubmitSkippedUrl, RowStep
  <2>2. CASE u # v
    BY <1>0, <1>2, <2>2 DEF SubmitSkippedUrl, RowStep
  <2> QED
    BY <2>1, <2>2
<1>3. ASSUME NEW v \in Urls, BoardPresence(v) PROVE RowStep(u)
  <2>1. Same(rows[u], [rows[u] EXCEPT !.closed = ~rows[u].closed])
    BY <1>0, SameRows
  <2>2. rows'[u] \in {rows[u], [rows[u] EXCEPT !.closed = ~rows[u].closed]}
    BY <1>0, <1>3 DEF BoardPresence
  <2> QED
    BY <1>0, <2>1, <2>2 DEF RowStep
<1>4. ASSUME NEW v \in Urls, NEW s \in Sources, CrawlRegister(v, s) PROVE RowStep(u)
  <2>1. CASE u = v
    BY <1>0, <1>4, <2>1 DEF CrawlRegister, RowStep
  <2>2. CASE u # v
    BY <1>0, <1>4, <2>2 DEF CrawlRegister, RowStep
  <2> QED
    BY <2>1, <2>2
<1>5. ASSUME UNCHANGED rows PROVE RowStep(u)
  BY <1>0, <1>5 DEF RowStep
<1>6. ASSUME NEW w \in Workers, ClaimNextUrl(w) PROVE RowStep(u)
  <2>1. rows'[u] \in {rows[u], [rows[u] EXCEPT !.claim = 0]}
    BY <1>0, <1>6 DEF ClaimNextUrl
  <2> QED
    BY <1>0, <2>1, SameRows DEF RowStep
<1>7. ASSUME NEW w \in Workers, NEW r \in ScanResult, StoreResult(w, r) PROVE RowStep(u)
  <2>1. CASE u = worker[w].url /\ rows[u].status = "PENDING"
    <3>1. rows'[u] = ApplyScanResult(rows[u], r) /\ ~Locked(u)
      BY <1>0, <1>7, <2>1 DEF StoreResult
    <3>2. Stored(u)
      BY <1>0, <3>1 DEF Stored
    <3> QED
      BY <2>1, <3>1, <3>2 DEF RowStep
  <2>2. CASE ~(u = worker[w].url /\ rows[u].status = "PENDING")
    <3>1. rows'[u] = rows[u]
      BY <1>0, <1>7, <2>2 DEF StoreResult
    <3> QED
      BY <1>0, <3>1 DEF RowStep
  <2> QED
    BY <2>1, <2>2
<1>8. ASSUME NEW w \in Workers, NEW r \in ScanResult, FinishSubmittedUrl(w, r) PROVE RowStep(u)
  <2>1. CASE u = worker[w].url
    <3>1. PICK s \in Sources \union {NoSource} :
            rows' = [rows EXCEPT ![u] = ApplyScanResult([@ EXCEPT !.source = s], r)]
      BY <1>0, <1>8, <2>1 DEF FinishSubmittedUrl, Row
    <3> DEFINE x == [rows[u] EXCEPT !.source = s]
    <3>2. x \in Row /\ Same(rows[u], x)
      BY <1>0, SameRows, ColumnWritten
    <3>3. rows'[u] = ApplyScanResult(x, r)
      BY <1>0, <3>1
    <3> HIDE DEF x
    <3>4. Stored(u)
      BY <3>2, <3>3 DEF Stored
    <3>5. worker[w].pc = "direct" /\ worker'[w] = IdleWorker
      BY <1>0, <1>8 DEF FinishSubmittedUrl, Finish
    <3> QED
      BY <2>1, <3>4, <3>5 DEF RowStep
  <2>2. CASE u # worker[w].url
    <3>1. rows'[u] = rows[u]
      BY <1>0, <1>8, <2>2 DEF FinishSubmittedUrl
    <3> QED
      BY <1>0, <3>1 DEF RowStep
  <2> QED
    BY <2>1, <2>2
<1>9. CASE RetrySweep
  <2>1. rows'[u] = rows[u] \/ (rows[u].status = "FAILED" /\ rows'[u] = RetryReset(rows[u]))
    BY <1>0, <1>9 DEF RetrySweep, RetryDue
  <2> QED
    BY <1>0, <2>1 DEF RowStep
<1>10. CASE Tick
  <2>1. rows'[u] = AgeRow(rows[u])
    BY <1>10 DEF Tick
  <2> QED
    BY <1>0, <2>1, SameRows DEF RowStep
<1> QED
  BY <1>1, <1>2, <1>3, <1>4, <1>5, <1>6, <1>7, <1>8, <1>9, <1>10
     DEF SystemNext, Deliver, LaneContinues, LaneDeadline, LockSubmittedUrl, Crash, WakeSource

LEMMA HumanRowStep ==
    ASSUME TypeInv, HumanNext, NEW u \in Urls
    PROVE  RowStep(u)
<1>0. /\ rows \in [Urls -> Row] /\ live \subseteq Sources /\ worker \in [Workers -> WorkerState]
      /\ rows[u] \in Row /\ Same(rows[u], rows[u])
  BY SameRows DEF TypeInv, TypeOK
<1>1. ASSUME UNCHANGED rows PROVE RowStep(u)
  BY <1>0, <1>1 DEF RowStep
<1>2. ASSUME NEW q \in Requests, RescanFlush(q) PROVE RowStep(u)
  <2>1. CASE u = request[q].url
    <3>1. Flushed(q, u)
      BY <1>0, <1>2, <2>1 DEF RescanFlush, Flushed, After
    <3> QED
      BY <3>1 DEF RowStep
  <2>2. CASE u # request[q].url
    <3>1. rows'[u] = rows[u]
      BY <1>0, <1>2, <2>2 DEF RescanFlush
    <3> QED
      BY <1>0, <3>1 DEF RowStep
  <2> QED
    BY <2>1, <2>2
<1>3. ASSUME NEW a \in Admins, ResetCommit(a) PROVE RowStep(u)
  <2> DEFINE c == reset[a].columns[u]
  <2>1. c \in SUBSET ResetColumn /\ rows'[u] = ResetInto(rows[u], c)
    BY <1>3 DEF ResetCommit, TypeInv, TypeOK, ResetState
  <2>2. CASE c = {}
    BY <1>0, <2>1, <2>2, ColumnsReset DEF RowStep
  <2>3. CASE c # {}
    <3>1. Exists(u) /\ ~Locked(u)
      BY <1>3, <2>3 DEF ResetCommit
    <3>2. ResetColumns(rows[u]) \ {"claim"} \subseteq c \/ HalfReset(u)
      BY <1>3, <2>3 DEF HalfReset
    <3> QED
      BY <2>1, <3>1, <3>2 DEF RowStep, ColumnsResetOf
  <2> QED
    BY <2>2, <2>3
<1>4. ASSUME NEW s \in Sources, DeleteSource(s) PROVE RowStep(u)
  <2>1. rows'[u] \in {rows[u], [rows[u] EXCEPT !.source = NoSource]}
    BY <1>0, <1>4 DEF DeleteSource
  <2> QED
    BY <1>0, <2>1, SameRows DEF RowStep
<1>5. ASSUME NEW v \in Urls, DeleteListing(v) PROVE RowStep(u)
  <2>1. rows'[u] = rows[u] \/ (Exists(u) /\ ~Locked(u) /\ rows'[u] = GoneRow)
    BY <1>0, <1>5 DEF DeleteListing
  <2> QED
    BY <1>0, <2>1 DEF RowStep
<1> QED
  BY <1>1, <1>2, <1>3, <1>4, <1>5
     DEF HumanNext, RescanStart, RescanApply, RescanAbort, ResetStart, ResetAbort

\* Every step does one of these to a row.
LEMMA RowSteps ==
    ASSUME TypeInv, [Next]_vars, NEW u \in Urls
    PROVE  RowStep(u)
<1>1. ASSUME UNCHANGED vars PROVE RowStep(u)
  <2>1. rows' = rows /\ rows[u] \in Row
    BY <1>1 DEF vars, TypeInv, TypeOK
  <2> QED
    BY <2>1, SameRows DEF RowStep
<1> QED
  BY <1>1, SystemRowStep, HumanRowStep DEF Next

-----------------------------------------------------------------------------
(* A posting says PENDING only while its row does.  What has never been    *)
(* scanned has no complete description, and a request's copy of a row that *)
(* has never been scanned says so as well: so what it writes back does not *)
(* leave the posting as it is.                                             *)

Unscanned == {"PENDING", "SKIPPED"}

RowPosted(r) ==
    /\ r.posting \in Unscanned => ~r.full
    /\ r.status \notin Missing /\ r.posting = "PENDING" => r.status = "PENDING"
    /\ r.status = "SKIPPED" => r.posting \in Unscanned

CopyHolds(s, r) ==
    /\ s.posting \in Unscanned => ~s.full
    /\ r.status # "ABSENT"
    /\ r.status = "SKIPPED" => s.status = "SKIPPED"
    /\ r.status \notin Missing /\ r.posting \in Unscanned => s.posting \in Unscanned

PostingInv ==
    /\ \A u \in Urls : RowPosted(rows[u])
    /\ \A q \in Requests : request[q].pc # "idle" => CopyHolds(request[q].snap, rows[request[q].url])

\* A scanned row is not forgotten to have been.
Onward(r, x) ==
    r.status # "ABSENT" =>
        /\ x.status # "ABSENT"
        /\ x.status = "SKIPPED" => r.status = "SKIPPED"
        /\ x.status \notin Missing /\ x.posting \in Unscanned =>
              r.status \notin Missing /\ r.posting \in Unscanned

LEMMA ResultScans ==
    ASSUME NEW x \in Row, NEW result \in ScanResult, x.posting \in Unscanned => ~x.full
    PROVE  LET a == ApplyScanResult(x, result)
           IN  a \in Row /\ a.posting \notin Unscanned /\ a.status \in {"SUCCESS", "FAILED", "NEEDS_REVIEW"}
<1> DEFINE a == ApplyScanResult(x, result)
<1>1. /\ a \in Row
      /\ a.status \in {"SUCCESS", "FAILED", "NEEDS_REVIEW"}
      /\ \/ a.posting = "SUCCESS"
         \/ a.posting = a.status
         \/ a.posting = x.posting /\ (x.full \/ x.posting = "SUCCESS")
  BY ResultStored
<1> HIDE DEF a
<1>2. a.posting \notin Unscanned
  BY <1>1 DEF Unscanned
<1> QED
  BY <1>1, <1>2 DEF a

LEMMA PostedStep ==
    ASSUME TypeInv, PostingInv, NEW u \in Urls, RowStep(u)
    PROVE  RowPosted(rows'[u]) /\ Onward(rows[u], rows'[u])
<1> DEFINE r == rows[u]
           x == rows'[u]
<1>1. r \in Row /\ RowPosted(r)
  BY DEF TypeInv, TypeOK, PostingInv
<1>2. CASE Same(r, x)
  BY <1>1, <1>2 DEF Same, RowPosted, Onward
<1>3. CASE r.status = "ABSENT" /\ \E st \in {"PENDING", "SKIPPED"}, s \in Sources \union {NoSource} : x = NewRow(st, s)
  <2>1. PICK st \in {"PENDING", "SKIPPED"}, s \in Sources \union {NoSource} : x = NewRow(st, s)
    BY <1>3
  <2>2. x.status = st /\ ~x.full /\ x.posting = IF st = "SKIPPED" THEN "SKIPPED" ELSE "PENDING"
    BY <2>1 DEF NewRow
  <2> QED
    BY <1>3, <2>2 DEF RowPosted, Onward, Unscanned
<1>4. CASE r.status = "SKIPPED" /\ x = Unskip(r)
  <2>1. x.status = "PENDING" /\ x.posting = "PENDING" /\ x.full = r.full
    BY <1>1, <1>4 DEF Unskip, Row
  <2> QED
    BY <1>1, <1>4, <2>1 DEF RowPosted, Onward, Unscanned, Missing
<1>5. CASE Stored(u)
  <2>1. PICK y \in Row, result \in ScanResult : Same(r, y) /\ x = ApplyScanResult(y, result)
    BY <1>5 DEF Stored
  <2>2. y.posting \in Unscanned => ~y.full
    BY <1>1, <2>1 DEF Same, RowPosted
  <2>3. x.posting \notin Unscanned /\ x.status \in {"SUCCESS", "FAILED", "NEEDS_REVIEW"}
    BY <2>1, <2>2, ResultScans
  <2> QED
    BY <2>3 DEF RowPosted, Onward, Unscanned
<1>6. CASE Exists(u) /\ (x = RetryReset(r) \/ ColumnsResetOf(u))
  <2>1. /\ x.status \in {r.status, "PENDING"}
        /\ x.posting = r.posting /\ x.full = r.full
    BY <1>1, <1>6, RowReset, ColumnsReset DEF ColumnsResetOf
  <2> QED
    BY <1>1, <1>6, <2>1 DEF RowPosted, Onward, Unscanned, Exists
<1>7. CASE x = GoneRow
  <2>1. x.status = "GONE" /\ ~x.full
    BY <1>7 DEF GoneRow, NewRow
  <2> QED
    BY <2>1 DEF RowPosted, Onward, Missing
<1>8. ASSUME NEW q \in Requests, Flushed(q, u) PROVE RowPosted(x) /\ Onward(r, x)
  <2> DEFINE s == request[q].snap
             c == [s EXCEPT !.attempts = 0]
             after == After(q)
  <2>1. /\ s \in Row /\ request[q].result \in ScanResult /\ CopyHolds(s, r) /\ r.status \notin Missing
    BY <1>8 DEF TypeInv, TypeOK, RequestState, Flushed, PostingInv, Exists
  <2>2. c \in Row /\ c.posting = s.posting /\ c.full = s.full
    BY <2>1 DEF Row
  <2>3. after = ApplyScanResult(c, request[q].result)
    BY DEF After
  <2> HIDE DEF c, after
  <2>4. /\ after \in Row /\ after.posting \notin Unscanned
        /\ after.status \in {"SUCCESS", "FAILED", "NEEDS_REVIEW"}
    BY <2>1, <2>2, <2>3, ResultScans DEF CopyHolds
  <2>5. PICK rewritten \in BOOLEAN : x = WriteChanged(r, s, after, rewritten)
    BY <1>8 DEF Flushed, after
  <2> HIDE DEF s, x, r
  <2>6. /\ x.status \in {r.status, after.status} /\ x.posting \in {r.posting, after.posting}
        /\ after.status # s.status => x.status = after.status
        /\ after.posting # s.posting => x.posting = after.posting
    <3>1. r \in Row /\ s \in Row /\ after \in Row
      BY <1>1, <2>1, <2>4
    <3>2. LET a == WriteChanged(r, s, after, rewritten)
          IN  /\ a.status \in {r.status, after.status} /\ a.posting \in {r.posting, after.posting}
              /\ after.status # s.status => a.status = after.status
              /\ after.posting # s.posting => a.posting = after.posting
      BY <3>1, ChangedWritten
    <3> QED
      BY <2>5, <3>2
  <2>7. x.posting \notin Unscanned
    BY <2>1, <2>4, <2>6 DEF CopyHolds
  <2>8. x.status # "SKIPPED" /\ x.status # "ABSENT"
    BY <2>1, <2>4, <2>6 DEF CopyHolds, Missing
  <2> QED
    BY <2>7, <2>8 DEF RowPosted, Onward, Unscanned
<1> QED
  BY <1>2, <1>3, <1>4, <1>5, <1>6, <1>7, <1>8 DEF RowStep, Exists, Missing

\* What a step does to a request that is under way after it.
RequestStep(q) ==
    \/ /\ request[q].pc # "idle"
       /\ request'[q].url = request[q].url /\ request'[q].snap = request[q].snap
    \/ \E u \in Urls : /\ Exists(u) /\ rows' = rows
                       /\ request'[q].url = u /\ request'[q].snap = Loaded(rows[u])
    \/ /\ request[q].pc # "idle" /\ rows' = rows /\ request'[q].url = request[q].url
       /\ request'[q].snap.status = request[q].snap.status
       /\ request'[q].snap.posting = rows[request[q].url].posting
       /\ request'[q].snap.full = rows[request[q].url].full

\* What the request whose result arrived is left as.
LEMMA CopyApplied ==
    ASSUME TypeInv, NEW q \in Requests, NEW r \in ScanResult, RescanApply(q, r)
    PROVE  request'[q] =
             [request[q] EXCEPT !.pc = "applied",
                !.snap = [request[q].snap EXCEPT !.posting = rows[request[q].url].posting,
                                                 !.full = rows[request[q].url].full],
                !.result = r]
<1> DEFINE c == [request[q].snap EXCEPT !.posting = rows[request[q].url].posting,
                                        !.full = rows[request[q].url].full]
           x == [request[q] EXCEPT !.pc = "applied", !.snap = c, !.result = r]
<1>0. request \in [Requests -> RequestState]
  BY DEF TypeInv, TypeOK
<1> HIDE DEF c
<1>1. request' = [request EXCEPT ![q] = x]
  BY <1>0 DEF RescanApply, c, RequestState
<1> HIDE DEF x
<1>2. request'[q] = x
  BY <1>0, <1>1
<1> QED
  BY <1>0, <1>2 DEF x, c, RequestState

LEMMA RequestSteps ==
    ASSUME TypeInv, [Next]_vars, NEW q \in Requests, request'[q].pc # "idle"
    PROVE  RequestStep(q)
<1>0. request \in [Requests -> RequestState]
  BY DEF TypeInv, TypeOK
<1>1. CASE UNCHANGED request
  BY <1>1 DEF RequestStep
<1>2. ASSUME NEW p \in Requests, request' = [request EXCEPT ![p] = IdleRequest] PROVE RequestStep(q)
  <2>1. IdleRequest.pc = "idle"
    BY DEF IdleRequest
  <2>2. p # q
    BY <1>0, <1>2, <2>1
  <2> QED
    BY <1>0, <1>2, <2>2 DEF RequestStep
<1>3. ASSUME NEW p \in Requests, NEW u \in Urls, RescanStart(p, u) PROVE RequestStep(q)
  <2>1. CASE p = q
    <3> DEFINE y == Loaded(rows[u])
    <3>1. y \in Row
      BY ColumnWritten DEF TypeInv, TypeOK
    <3>2. request'[q] = [IdleRequest EXCEPT !.pc = "fetching", !.url = u, !.snap = y]
      BY <1>0, <1>3, <2>1 DEF RescanStart
    <3> HIDE DEF y
    <3>3. request'[q].url = u /\ request'[q].snap = y
      BY <3>2, RequestTyped DEF RequestState
    <3> QED
      BY <1>3, <3>3 DEF RequestStep, RescanStart, y
  <2>2. CASE p # q
    BY <1>0, <1>3, <2>2 DEF RescanStart, RequestStep
  <2> QED
    BY <2>1, <2>2
<1>4. ASSUME NEW p \in Requests, NEW r \in ScanResult, RescanApply(p, r) PROVE RequestStep(q)
  <2>1. CASE p = q
    <3> DEFINE c == [request[q].snap EXCEPT !.posting = rows[request[q].url].posting,
                                            !.full = rows[request[q].url].full]
    <3>1. /\ c.status = request[q].snap.status
          /\ c.posting = rows[request[q].url].posting
          /\ c.full = rows[request[q].url].full
      BY <1>0 DEF RequestState, Row
    <3> HIDE DEF c
    <3>2. request'[q] = [request[q] EXCEPT !.pc = "applied", !.snap = c, !.result = r]
      BY <1>4, <2>1, CopyApplied DEF c
    <3>3. request'[q].url = request[q].url /\ request'[q].snap = c
      BY <1>0, <3>2 DEF RequestState
    <3> QED
      BY <1>4, <2>1, <3>1, <3>3 DEF RequestStep, RescanApply
  <2>2. CASE p # q
    BY <1>0, <1>4, <2>2 DEF RescanApply, RequestStep
  <2> QED
    BY <2>1, <2>2
<1>5. CASE Tick
  <2>1. CASE request[q].pc = "idle"
    BY <1>5, <2>1 DEF Tick
  <2>2. CASE request[q].pc # "idle"
    <3>1. request'[q] = [request[q] EXCEPT !.age = request[q].age + 1]
      BY <1>0, <1>5, <2>2 DEF Tick
    <3>2. request'[q].url = request[q].url /\ request'[q].snap = request[q].snap
      BY <1>0, <3>1 DEF RequestState
    <3> QED
      BY <2>2, <3>2 DEF RequestStep
  <2> QED
    BY <2>1, <2>2
<1>6. ASSUME SystemNext PROVE UNCHANGED request \/ Tick
  BY <1>6 DEF SystemNext, SubmitUrl, SubmitSkippedUrl, BoardPresence, CrawlRegister, Deliver,
              ClaimNextUrl, LaneContinues, LaneDeadline, LockSubmittedUrl, Crash, StoreResult,
              FinishSubmittedUrl, WakeSource, RetrySweep
<1>7. ASSUME HumanNext PROVE RequestStep(q)
  <2>1. ASSUME \/ \E a \in Admins, s \in Sources : ResetStart(a, s)
               \/ \E a \in Admins : ResetCommit(a) \/ ResetAbort(a)
               \/ \E s \in Sources : DeleteSource(s)
        PROVE  UNCHANGED request
    BY <2>1 DEF ResetStart, ResetCommit, ResetAbort, DeleteSource
  <2>2. ASSUME \E u \in Urls : DeleteListing(u) PROVE UNCHANGED request
    BY <2>2 DEF DeleteListing
  <2>3. ASSUME NEW p \in Requests, RescanFlush(p) \/ RescanAbort(p) PROVE RequestStep(q)
    BY <1>2, <2>3 DEF RescanFlush, RescanAbort
  <2> QED
    BY <1>1, <1>3, <1>4, <1>7, <2>1, <2>2, <2>3 DEF HumanNext
<1> QED
  BY <1>1, <1>5, <1>6, <1>7 DEF Next, vars

LEMMA PostingInvStep == TypeInv /\ PostingInv /\ [Next]_vars => PostingInv'
<1> SUFFICES ASSUME TypeInv, PostingInv, [Next]_vars PROVE PostingInv'
  OBVIOUS
<1>1. \A u \in Urls : RowPosted(rows'[u]) /\ Onward(rows[u], rows'[u])
  BY RowSteps, PostedStep
<1>2. ASSUME NEW q \in Requests, request'[q].pc # "idle"
      PROVE  CopyHolds(request'[q].snap, rows'[request'[q].url])
  <2>1. RequestStep(q)
    BY <1>2, RequestSteps
  <2>2. CASE /\ request[q].pc # "idle"
             /\ request'[q].url = request[q].url /\ request'[q].snap = request[q].snap
    <3> DEFINE u == request[q].url
               s == request[q].snap
    <3>1. u \in Urls /\ CopyHolds(s, rows[u])
      BY <2>2 DEF PostingInv, TypeInv, RequestOK
    <3>2. Onward(rows[u], rows'[u])
      BY <1>1, <3>1
    <3>3. CopyHolds(s, rows'[u])
      BY <3>1, <3>2 DEF CopyHolds, Onward
    <3> QED
      BY <2>2, <3>3
  <2>3. ASSUME NEW u \in Urls, Exists(u), rows' = rows,
               request'[q].url = u, request'[q].snap = Loaded(rows[u])
        PROVE  CopyHolds(request'[q].snap, rows'[request'[q].url])
    <3> DEFINE r == rows[u]
               s == Loaded(r)
    <3>1. r \in Row /\ RowPosted(r) /\ r.status # "ABSENT"
      BY <2>3 DEF TypeInv, TypeOK, PostingInv, Exists, Missing
    <3>2. s.status = r.status /\ s.posting = r.posting /\ s.full = r.full
      BY <3>1 DEF Loaded, Row
    <3> HIDE DEF s
    <3>3. CopyHolds(s, r)
      BY <3>1, <3>2 DEF CopyHolds, RowPosted
    <3> QED
      BY <2>3, <3>3 DEF s
  <2>4. CASE /\ request[q].pc # "idle" /\ rows' = rows /\ request'[q].url = request[q].url
             /\ request'[q].snap.status = request[q].snap.status
             /\ request'[q].snap.posting = rows[request[q].url].posting
             /\ request'[q].snap.full = rows[request[q].url].full
    <3> DEFINE r == rows[request[q].url]
    <3>1. RowPosted(r) /\ CopyHolds(request[q].snap, r)
      BY <2>4 DEF PostingInv, TypeInv, RequestOK
    <3>2. CopyHolds(request'[q].snap, r)
      BY <2>4, <3>1 DEF CopyHolds, RowPosted
    <3> QED
      BY <2>4, <3>2
  <2> QED
    BY <2>1, <2>2, <2>3, <2>4 DEF RequestStep
<1> QED
  BY <1>1, <1>2 DEF PostingInv

\* A posting is never left waiting for a scan nobody will run: whatever workers,
\* sweeps, requests and admins do at once, while it says PENDING so does its row.
THEOREM PostingsFollow == Spec => []PostingFollowsRow
<1>1. Init => PostingInv
  <2> SUFFICES ASSUME Init PROVE PostingInv
    OBVIOUS
  <2>1. AbsentRow.status = "ABSENT" /\ ~AbsentRow.full
    BY DEF AbsentRow, NewRow
  <2>2. \A u \in Urls : RowPosted(rows[u])
    BY <2>1 DEF Init, RowPosted, Missing
  <2>3. \A q \in Requests : request[q].pc = "idle"
    BY DEF Init, IdleRequest
  <2> QED
    BY <2>2, <2>3 DEF PostingInv
<1>2. PostingInv => PostingFollowsRow
  BY DEF PostingInv, RowPosted, PostingFollowsRow, Exists
<1> QED
  BY <1>1, <1>2, TypeInvariant, PostingInvStep, PTL DEF Spec

-----------------------------------------------------------------------------
(* The failure count and the next retry go on agreeing with the status,    *)
(* and good data stays, on the rows no request rescans.  A row a scan      *)
(* holds its lock on is PENDING, and nobody else's: so no result is        *)
(* counted twice.                                                          *)

\* A posting's good data is complete, and comes from a scan.
GoodIsFull(r) == r.posting = "SUCCESS" => r.full /\ r.status \notin {"ABSENT", "SKIPPED"}

LocksHeld ==
    \A w \in Workers : worker[w].pc = "direct" =>
        /\ rows[worker[w].url].status = "PENDING"
        /\ \A v \in Workers : worker[v].pc = "direct" /\ worker[v].url = worker[w].url => v = w

\* No request has a copy of these rows.
Unrescanned(U) == \A q \in Requests : request[q].pc # "idle" => request[q].url \notin U

GoodInv(U) == LocksHeld /\ \A u \in U : GoodIsFull(rows[u])

LEMMA DirectSteps ==
    ASSUME TypeInv, [Next]_vars, NEW w \in Workers, worker'[w].pc = "direct"
    PROVE  \/ worker[w].pc = "direct" /\ worker'[w].url = worker[w].url
           \/ /\ worker'[w].url = worker[w].url /\ worker[w].url \in Urls
              /\ ~Locked(worker[w].url) /\ rows[worker[w].url].status = "PENDING" /\ rows' = rows
              /\ \A v \in Workers \ {w} : worker'[v] = worker[v]
<1> DEFINE Goal == \/ worker[w].pc = "direct" /\ worker'[w].url = worker[w].url
                   \/ /\ worker'[w].url = worker[w].url /\ worker[w].url \in Urls
                      /\ ~Locked(worker[w].url) /\ rows[worker[w].url].status = "PENDING" /\ rows' = rows
                      /\ \A v \in Workers \ {w} : worker'[v] = worker[v]
<1>0. worker \in [Workers -> WorkerState]
  BY DEF TypeInv, TypeOK
<1>1. ASSUME NEW v \in Workers, NEW x \in WorkerState, x.pc # "direct", worker' = [worker EXCEPT ![v] = x]
      PROVE  Goal
  BY <1>0, <1>1
<1>2. ASSUME UNCHANGED worker PROVE Goal
  BY <1>2
<1>3. ASSUME NEW v \in Workers, Finish(v) PROVE Goal
  BY <1>1, <1>3, IdleWorkerTyped DEF Finish
<1>4. ASSUME NEW v \in Workers, NEW m \in Targets, Deliver(v, m) PROVE Goal
  <2>1. PICK x \in WorkerState : x.pc \in {"claiming", "locking"} /\ worker' = [worker EXCEPT ![v] = x]
    BY <1>4, DeliveredTo DEF TypeInv
  <2> QED
    BY <1>1, <2>1
<1>5. ASSUME NEW v \in Workers, ClaimNextUrl(v) PROVE Goal
  <2>1. ASSUME NEW u \in Urls, worker' = [worker EXCEPT ![v].pc = "fetching", ![v].url = u] PROVE Goal
    <3> DEFINE x == [worker[v] EXCEPT !.pc = "fetching", !.url = u]
    <3>1. x \in WorkerState /\ worker' = [worker EXCEPT ![v] = x]
      BY <1>0, <2>1, WorkerChanged
    <3>2. x.pc = "fetching"
      BY <1>0 DEF WorkerState
    <3> HIDE DEF x
    <3> QED
      BY <1>1, <3>1, <3>2
  <2> QED
    BY <1>3, <1>5, <2>1 DEF ClaimNextUrl, Claimable, PendingOf
<1>6. ASSUME NEW v \in Workers, NEW r \in ScanResult, StoreResult(v, r) PROVE Goal
  <2> DEFINE x == [worker[v] EXCEPT !.pc = "resting", !.url = NoUrl]
  <2>1. x \in WorkerState /\ worker' = [worker EXCEPT ![v] = x]
    BY <1>0, <1>6, WorkerChanged DEF StoreResult
  <2>2. x.pc = "resting"
    BY <1>0 DEF WorkerState
  <2> HIDE DEF x
  <2> QED
    BY <1>1, <2>1, <2>2
<1>7. ASSUME NEW v \in Workers, LaneContinues(v) PROVE Goal
  <2> DEFINE x == [worker[v] EXCEPT !.pc = "claiming"]
  <2>1. x \in WorkerState /\ worker' = [worker EXCEPT ![v] = x]
    BY <1>0, <1>7, WorkerChanged DEF LaneContinues
  <2>2. x.pc = "claiming"
    BY <1>0 DEF WorkerState
  <2> HIDE DEF x
  <2> QED
    BY <1>1, <2>1, <2>2
<1>8. ASSUME NEW v \in Workers, LockSubmittedUrl(v) PROVE Goal
  <2>1. CASE Finish(v)
    BY <1>3, <2>1
  <2>2. CASE rows[worker[v].url].status = "PENDING" /\ worker' = [worker EXCEPT ![v].pc = "direct"]
    <3>1. worker[v].url \in Urls
      BY <1>8 DEF LockSubmittedUrl, TypeInv, WorkerOK
    <3>2. \A z \in Workers \ {v} : worker'[z] = worker[z]
      BY <1>0, <2>2
    <3>3. worker'[v].url = worker[v].url
      BY <1>0, <2>2 DEF WorkerState
    <3>4. CASE w = v
      BY <1>8, <2>2, <3>1, <3>2, <3>3, <3>4 DEF LockSubmittedUrl
    <3>5. CASE w # v
      BY <3>2, <3>5
    <3> QED
      BY <3>4, <3>5
  <2> QED
    BY <1>8, <2>1, <2>2 DEF LockSubmittedUrl
<1>9. ASSUME Tick PROVE Goal
  <2>1. CASE worker[w].pc = "idle"
    BY <1>9, <2>1 DEF Tick
  <2>2. CASE worker[w].pc # "idle"
    <3>1. worker'[w] = [worker[w] EXCEPT !.age = worker[w].age + 1]
      BY <1>0, <1>9, <2>2 DEF Tick
    <3>2. worker'[w].pc = worker[w].pc /\ worker'[w].url = worker[w].url
      BY <1>0, <3>1 DEF WorkerState
    <3> QED
      BY <3>2
  <2> QED
    BY <2>1, <2>2
<1>10. ASSUME HumanNext PROVE UNCHANGED worker
  BY <1>10 DEF HumanNext, RescanStart, RescanApply, RescanFlush, RescanAbort, ResetStart,
               ResetCommit, ResetAbort, DeleteSource, DeleteListing
<1>11. ASSUME SystemNext PROVE Goal
  <2>1. ASSUME \/ \E u \in Urls : SubmitUrl(u) \/ SubmitSkippedUrl(u) \/ BoardPresence(u)
               \/ \E u \in Urls, s \in Sources : CrawlRegister(u, s)
               \/ \E s \in Sources : WakeSource(s)
               \/ RetrySweep
        PROVE  UNCHANGED worker
    BY <2>1 DEF SubmitUrl, SubmitSkippedUrl, BoardPresence, CrawlRegister, WakeSource, RetrySweep
  <2>2. ASSUME NEW v \in Workers, \/ LaneDeadline(v) \/ Crash(v)
                                  \/ \E r \in ScanResult : FinishSubmittedUrl(v, r)
        PROVE  Finish(v)
    BY <2>2 DEF LaneDeadline, Crash, FinishSubmittedUrl, Finish
  <2> HIDE DEF Goal
  <2> QED
    BY <1>2, <1>3, <1>4, <1>5, <1>6, <1>7, <1>8, <1>9, <1>11, <2>1, <2>2 DEF SystemNext
<1> HIDE DEF Goal
<1>12. Goal
  BY <1>2, <1>10, <1>11 DEF Next, vars
<1> QED
  BY <1>12 DEF Goal

LEMMA LocksStep == TypeInv /\ LocksHeld /\ [Next]_vars => LocksHeld'
<1> SUFFICES ASSUME TypeInv, LocksHeld, [Next]_vars, NEW w \in Workers, worker'[w].pc = "direct"
             PROVE  /\ rows'[worker'[w].url].status = "PENDING"
                    /\ \A v \in Workers : worker'[v].pc = "direct" /\ worker'[v].url = worker'[w].url => v = w
  BY DEF LocksHeld
<1>1. CASE worker[w].pc = "direct" /\ worker'[w].url = worker[w].url
  <2> DEFINE u == worker[w].url
  <2>1. /\ u \in Urls /\ rows[u] \in Row /\ rows[u].status = "PENDING" /\ Locked(u)
        /\ \A v \in Workers : worker[v].pc = "direct" /\ worker[v].url = u => v = w
    BY <1>1 DEF TypeInv, TypeOK, WorkerOK, LocksHeld, Locked
  <2>2. RowStep(u)
    BY <2>1, RowSteps
  <2>3. IdleWorker.pc # "direct"
    BY IdleWorkerTyped
  <2>4. Same(rows[u], rows'[u])
    BY <2>1, <2>2, <2>3 DEF RowStep, Flushed
  <2>5. rows'[u].status = "PENDING"
    BY <2>1, <2>4 DEF Same
  <2>6. ASSUME NEW v \in Workers, worker'[v].pc = "direct", worker'[v].url = u PROVE v = w
    <3>1. \/ worker[v].pc = "direct" /\ worker[v].url = u
          \/ ~Locked(worker[v].url) /\ worker[v].url = u
      BY <2>6, DirectSteps
    <3> QED
      BY <2>1, <3>1
  <2> QED
    BY <1>1, <2>5, <2>6
<1>2. CASE /\ worker'[w].url = worker[w].url /\ worker[w].url \in Urls
           /\ ~Locked(worker[w].url) /\ rows[worker[w].url].status = "PENDING" /\ rows' = rows
           /\ \A v \in Workers \ {w} : worker'[v] = worker[v]
  BY <1>2 DEF Locked
<1> QED
  BY <1>1, <1>2, DirectSteps

\* What a scan's result makes of a row that was PENDING: its books agree, and
\* a good posting stays one.
LEMMA StoredStep ==
    ASSUME TypeInv, LocksHeld, NEW u \in Urls, Stored(u),
           \/ rows[u].status = "PENDING"
           \/ \E w \in Workers : worker[w].pc = "direct" /\ worker[w].url = u
    PROVE  /\ BooksAgree(rows[u]) => BooksAgree(rows'[u])
           /\ GoodIsFull(rows[u]) => GoodIsFull(rows'[u]) /\ GoodStays(u)
<1> DEFINE r == rows[u]
           x == rows'[u]
<1>1. r \in Row /\ r.status = "PENDING"
  BY DEF TypeInv, TypeOK, LocksHeld
<1>2. PICK y \in Row, result \in ScanResult : Same(r, y) /\ x = ApplyScanResult(y, result)
  BY DEF Stored
<1>3. y.attempts = r.attempts /\ y.posting = r.posting /\ y.full = r.full /\ y.attempts \in Nat
  BY <1>2 DEF Same, Row
<1>4. \/ x.status = "SUCCESS" /\ x.retry = NoRetry /\ x.attempts = 0
         /\ x.posting = "SUCCESS" /\ x.full
      \/ /\ \/ x.status = "FAILED" /\ x.retry = Backoff /\ x.attempts < MaxAttempts
            \/ x.status = "NEEDS_REVIEW" /\ x.retry = NoRetry /\ x.attempts >= MaxAttempts
         /\ x.attempts = y.attempts + 1
         /\ \/ x.posting = y.posting /\ x.full = y.full /\ (y.full \/ y.posting = "SUCCESS")
            \/ x.posting = x.status /\ ~(y.full /\ y.posting = "SUCCESS")
  BY <1>2, ResultStored
<1>5. ASSUME BooksAgree(r) PROVE BooksAgree(x)
  <2>1. r.attempts < MaxAttempts
    BY <1>1, <1>5 DEF BooksAgree
  <2> HIDE DEF x, r
  <2>2. x.status = "NEEDS_REVIEW" => x.attempts = MaxAttempts
    BY <1>3, <1>4, <2>1, MaxAttemptsAssumption
  <2>3. /\ x.retry # NoRetry <=> x.status = "FAILED"
        /\ x.status \in {"SUCCESS", "SKIPPED"} => x.attempts = 0
        /\ x.status \in {"PENDING", "FAILED"} => x.attempts < MaxAttempts
    BY <1>4, Ranges
  <2> QED
    BY <2>2, <2>3 DEF BooksAgree
<1>6. ASSUME GoodIsFull(r) PROVE GoodIsFull(x) /\ GoodStays(u)
  <2>1. x.posting = "SUCCESS" => x.full /\ x.status \notin {"ABSENT", "SKIPPED"}
    BY <1>3, <1>4, <1>6 DEF GoodIsFull
  <2>2. r.posting = "SUCCESS" => x.posting = "SUCCESS"
    BY <1>3, <1>4, <1>6 DEF GoodIsFull
  <2> QED
    BY <2>1, <2>2 DEF GoodIsFull, GoodStays
<1> QED
  BY <1>5, <1>6

\* The rows' posting and description after the other writes.
LEMMA GoodStep ==
    ASSUME TypeInv, LocksHeld, NEW u \in Urls, GoodIsFull(rows[u]), RowStep(u),
           \A q \in Requests : request[q].pc # "idle" => request[q].url # u
    PROVE  GoodIsFull(rows'[u]) /\ GoodStays(u)
<1> DEFINE r == rows[u]
           x == rows'[u]
<1>1. r \in Row /\ GoodIsFull(r)
  BY DEF TypeInv, TypeOK
<1>2. CASE Same(r, x)
  BY <1>1, <1>2 DEF Same, GoodIsFull, GoodStays
<1>3. CASE \/ r.status = "ABSENT" /\ \E st \in {"PENDING", "SKIPPED"}, s \in Sources \union {NoSource} :
                                        x = NewRow(st, s)
           \/ r.status = "SKIPPED" /\ x = Unskip(r)
  <2>1. x.posting # "SUCCESS"
    <3>1. CASE r.status = "SKIPPED" /\ x = Unskip(r)
      BY <1>1, <3>1 DEF Unskip, Row
    <3>2. ASSUME NEW st \in {"PENDING", "SKIPPED"}, NEW s \in Sources \union {NoSource}, x = NewRow(st, s)
          PROVE  x.posting # "SUCCESS"
      BY <3>2 DEF NewRow
    <3> QED
      BY <1>3, <3>1, <3>2
  <2> QED
    BY <1>1, <1>3, <2>1 DEF GoodIsFull, GoodStays
<1>4. CASE Stored(u) /\ \/ r.status = "PENDING"
                        \/ \E w \in Workers : worker[w].pc = "direct" /\ worker[w].url = u
  BY <1>1, <1>4, StoredStep
<1>5. CASE (r.status = "FAILED" /\ x = RetryReset(r)) \/ (Exists(u) /\ ColumnsResetOf(u))
  <2>1. x.status \in {r.status, "PENDING"} /\ x.posting = r.posting /\ x.full = r.full
    BY <1>1, <1>5, RowReset, ColumnsReset DEF ColumnsResetOf
  <2> QED
    BY <1>1, <2>1 DEF GoodIsFull, GoodStays
<1>6. CASE x = GoneRow
  <2>1. x.status = "GONE" /\ x.posting = "PENDING"
    BY <1>6 DEF GoneRow, NewRow
  <2> QED
    BY <2>1 DEF GoodIsFull, GoodStays
<1>7. \A q \in Requests : ~Flushed(q, u)
  BY DEF Flushed
<1> QED
  BY <1>2, <1>3, <1>4, <1>5, <1>6, <1>7 DEF RowStep

\* The row's books after every write: only an admin's commit that resets half
\* of the row makes them disagree.
LEMMA BooksStep ==
    ASSUME TypeInv, LocksHeld, NEW u \in Urls, RowStep(u),
           \A q \in Requests : request[q].pc # "idle" => request[q].url # u
    PROVE  BooksStay(u)
<1> DEFINE r == rows[u]
           x == rows'[u]
<1> SUFFICES ASSUME BooksAgree(r) PROVE BooksAgree(x) \/ HalfReset(u)
  BY DEF BooksStay
<1>1. r \in Row
  BY DEF TypeInv, TypeOK
<1>2. CASE Same(r, x)
  BY <1>2 DEF Same, BooksAgree
<1>3. CASE r.status = "ABSENT" /\ \E st \in {"PENDING", "SKIPPED"}, s \in Sources \union {NoSource} : x = NewRow(st, s)
  <2>1. x.status \in {"PENDING", "SKIPPED"} /\ x.attempts = 0 /\ x.retry = NoRetry
    BY <1>3 DEF NewRow
  <2> QED
    BY <2>1, MaxAttemptsAssumption DEF BooksAgree
<1>4. CASE r.status = "SKIPPED" /\ x = Unskip(r)
  <2>1. x.status = "PENDING" /\ x.attempts = r.attempts /\ x.retry = r.retry
    BY <1>1, <1>4 DEF Unskip, Row
  <2> QED
    BY <1>4, <2>1, MaxAttemptsAssumption DEF BooksAgree
<1>5. CASE Stored(u) /\ \/ r.status = "PENDING"
                        \/ \E w \in Workers : worker[w].pc = "direct" /\ worker[w].url = u
  BY <1>5, StoredStep
<1>6. CASE r.status = "FAILED" /\ x = RetryReset(r)
  <2>1. x.status = "PENDING" /\ x.attempts = r.attempts /\ x.retry = NoRetry
    BY <1>1, <1>6, RowReset
  <2> QED
    BY <1>6, <2>1 DEF BooksAgree
<1>7. CASE ColumnsResetOf(u)
  <2>1. PICK c \in SUBSET ResetColumn :
           /\ x = ResetInto(r, c)
           /\ ResetColumns(r) \ {"claim"} \subseteq c \/ HalfReset(u)
    BY <1>7 DEF ColumnsResetOf
  <2>2. CASE ResetColumns(r) \ {"claim"} \subseteq c
    <3>1. x.status = "PENDING" /\ x.attempts = 0 /\ x.retry = NoRetry
      BY <1>1, <2>1, <2>2, ColumnsReset
    <3> QED
      BY <3>1, MaxAttemptsAssumption DEF BooksAgree
  <2> QED
    BY <2>1, <2>2
<1>8. CASE x = GoneRow
  <2>1. x.status = "GONE" /\ x.retry = NoRetry
    BY <1>8 DEF GoneRow, NewRow
  <2> QED
    BY <2>1 DEF BooksAgree
<1>9. \A q \in Requests : ~Flushed(q, u)
  BY DEF Flushed
<1> QED
  BY <1>2, <1>3, <1>4, <1>5, <1>6, <1>7, <1>8, <1>9 DEF RowStep

\* A step, of the rows no request has a copy of.
LEMMA UnrescannedStep ==
    ASSUME NEW U \in SUBSET Urls
    PROVE  TypeInv /\ GoodInv(U) /\ Unrescanned(U) /\ [Next]_vars =>
              GoodInv(U)' /\ \A u \in U : GoodStays(u) /\ BooksStay(u)
<1> SUFFICES ASSUME TypeInv, GoodInv(U), Unrescanned(U), [Next]_vars
             PROVE  GoodInv(U)' /\ \A u \in U : GoodStays(u) /\ BooksStay(u)
  OBVIOUS
<1>1. LocksHeld /\ LocksHeld'
  BY LocksStep DEF GoodInv
<1>2. ASSUME NEW u \in U PROVE GoodIsFull(rows'[u]) /\ GoodStays(u) /\ BooksStay(u)
  <2>1. /\ u \in Urls /\ GoodIsFull(rows[u])
        /\ \A q \in Requests : request[q].pc # "idle" => request[q].url # u
    BY DEF GoodInv, Unrescanned
  <2> QED
    BY <1>1, <2>1, RowSteps, GoodStep, BooksStep
<1> QED
  BY <1>1, <1>2 DEF GoodInv

LEMMA GoodInitially == ASSUME NEW U \in SUBSET Urls PROVE Init => GoodInv(U)
<1> SUFFICES ASSUME Init PROVE GoodInv(U)
  OBVIOUS
<1>1. AbsentRow.posting = "PENDING"
  BY DEF AbsentRow, NewRow
<1>2. \A u \in Urls : GoodIsFull(rows[u])
  BY <1>1 DEF Init, GoodIsFull
<1>3. LocksHeld
  BY IdleWorkerTyped DEF Init, LocksHeld
<1> QED
  BY <1>2, <1>3 DEF GoodInv

\* Of the rows no request rescans, whatever workers, sweeps, admins and the
\* requests for other rows do at once: a row's retry record goes on agreeing
\* with its status, except where the commit of an admin's rescan, loaded before
\* the row changed, resets some columns and leaves others.
THEOREM BooksOfUnrescanned ==
    ASSUME NEW U \in SUBSET Urls
    PROVE  Spec /\ []Unrescanned(U) => [][\A u \in U : BooksStay(u)]_vars
<1>1. TypeInv /\ GoodInv(U) /\ Unrescanned(U) /\ [Next]_vars => GoodInv(U)'
  BY UnrescannedStep
<1>2. TypeInv /\ GoodInv(U) /\ Unrescanned(U) /\ [Next]_vars => [\A u \in U : BooksStay(u)]_vars
  BY UnrescannedStep
<1> QED
  BY <1>1, <1>2, GoodInitially, TypeInit, TypeStep, PTL DEF Spec

\* No scan and no admin's rescan clobbers the good data of a posting that no
\* request rescans, though requests rescan others (what a request can do to its
\* own is shown by the run scan_clobber).
THEOREM GoodDataOfUnrescanned ==
    ASSUME NEW U \in SUBSET Urls
    PROVE  Spec /\ []Unrescanned(U) => [][\A u \in U : GoodStays(u)]_vars
<1>1. TypeInv /\ GoodInv(U) /\ Unrescanned(U) /\ [Next]_vars => GoodInv(U)'
  BY UnrescannedStep
<1>2. TypeInv /\ GoodInv(U) /\ Unrescanned(U) /\ [Next]_vars => [\A u \in U : GoodStays(u)]_vars
  BY UnrescannedStep
<1> QED
  BY <1>1, <1>2, GoodInitially, TypeInit, TypeStep, PTL DEF Spec

\* Rows no request and no admin's rescan has a copy of.
Untouched(U) ==
    /\ Unrescanned(U)
    /\ \A a \in Admins, u \in U : reset[a].columns[u] = {}

\* So the retry record of a row agrees with its status for as long as neither
\* has one: next_retry_at is set exactly while the row waits for its retry, and
\* the budget is spent exactly when it gave up.
THEOREM BooksOfUntouched ==
    ASSUME NEW U \in SUBSET Urls
    PROVE  Spec /\ []Untouched(U) => [](\A u \in U : BooksAgree(rows[u]))
<1> DEFINE Books == \A u \in U : BooksAgree(rows[u])
<1>1. Init => Books
  <2> SUFFICES ASSUME Init PROVE Books
    OBVIOUS
  <2>1. AbsentRow.status = "ABSENT" /\ AbsentRow.retry = NoRetry
    BY DEF AbsentRow, NewRow
  <2> QED
    BY <2>1 DEF Init, BooksAgree
<1>2. TypeInv /\ GoodInv(U) /\ Untouched(U) /\ [Next]_vars => GoodInv(U)'
  BY UnrescannedStep DEF Untouched
<1>3. TypeInv /\ GoodInv(U) /\ Untouched(U) /\ Books /\ [Next]_vars => Books'
  <2> SUFFICES ASSUME TypeInv, GoodInv(U), Untouched(U), Books, [Next]_vars, NEW u \in U
               PROVE  BooksAgree(rows[u])'
    OBVIOUS
  <2>1. BooksStay(u)
    BY UnrescannedStep DEF Untouched
  <2>2. ~HalfReset(u)
    BY DEF HalfReset, Untouched
  <2> QED
    BY <2>1, <2>2 DEF BooksStay, BooksAgree
<1> HIDE DEF Books
<1>4. Spec /\ []Untouched(U) => []Books
  BY <1>1, <1>2, <1>3, GoodInitially, TypeInit, TypeStep, PTL DEF Spec
<1> QED
  BY <1>4 DEF Books

\* Without requests, that is every row.
LEMMA NobodyRescans == Requests = {} => Unrescanned(Urls)
BY DEF Unrescanned

\* While no request rescans a URL, and whatever workers, sweeps and admins do,
\* no step spoils the retry record of a row, but for the admin's commit that
\* resets half of it.
THEOREM BooksKept == Requests = {} => (Spec => RetryBookkeeping)
<1> SUFFICES ASSUME Requests = {} PROVE Spec => RetryBookkeeping
  OBVIOUS
<1>1. Init => GoodInv(Urls)
  BY GoodInitially
<1>2. TypeInv /\ GoodInv(Urls) /\ [Next]_vars => GoodInv(Urls)'
  BY UnrescannedStep, NobodyRescans
<1>3. TypeInv /\ GoodInv(Urls) /\ [Next]_vars => [\A u \in Urls : BooksStay(u)]_vars
  BY UnrescannedStep, NobodyRescans
<1> QED
  BY <1>1, <1>2, <1>3, TypeInit, TypeStep, PTL DEF Spec, RetryBookkeeping

\* While no request rescans a URL, no scan clobbers a posting that has good
\* data.
THEOREM GoodDataKept == Requests = {} => (Spec => GoodPostingKept)
<1> SUFFICES ASSUME Requests = {} PROVE Spec => GoodPostingKept
  OBVIOUS
<1>1. Init => GoodInv(Urls)
  BY GoodInitially
<1>2. TypeInv /\ GoodInv(Urls) /\ [Next]_vars => GoodInv(Urls)'
  BY UnrescannedStep, NobodyRescans
<1>3. TypeInv /\ GoodInv(Urls) /\ [Next]_vars => [\A u \in Urls : GoodStays(u)]_vars
  BY UnrescannedStep, NobodyRescans
<1> QED
  BY <1>1, <1>2, <1>3, TypeInit, TypeStep, PTL DEF Spec, GoodPostingKept

=============================================================================
