--------------------------- MODULE Boards_proofs ---------------------------
EXTENDS BoardCrawl, BoardListing, PostingScan, StaticPages,
        FiniteSetTheorems, FunctionTheorems, SequenceTheorems, WellFoundedInduction, TLAPS

-----------------------------------------------------------------------------
\* BoardCrawl: the dispatch and the worker of board crawls.

\* The ends of the ranges of the row's and the source's times.
LEMMA Ranges ==
    /\ ClaimTTL \in Nat \ {0} /\ Gap \in Nat \ {0} /\ Window \in Nat \ {0}
    /\ FunctionTimeout \in Nat /\ DispatchTimeout \in Nat /\ MinInterval \in Nat
    /\ None \in None .. ClaimTTL /\ 0 \in None .. ClaimTTL /\ ClaimTTL \in 0 .. ClaimTTL
    /\ None \in None .. Gap /\ None \in None .. Window
    /\ None \in None .. DispatchTimeout /\ 0 \in None .. DispatchTimeout
    /\ 0 .. ClaimTTL \subseteq None .. ClaimTTL
    /\ 0 .. FunctionTimeout \subseteq None .. Gap
    /\ 0 .. Window \subseteq None .. Window
    /\ None \notin Nat
BY TimesAssumption, IntervalAboveTTL, GapAboveTimeout DEF None

\* Growing older keeps a time within its limit.
LEMMA OlderTyped ==
    ASSUME NEW limit \in Nat
    PROVE  /\ \A t \in None .. limit : Older(t, limit) \in None .. limit
           /\ \A t \in 0 .. limit : Older(t, limit) \in 0 .. limit
BY DEF Older, None

\* A new row, and what is left of an old one, are rows.
LEMMA RowsTyped ==
    /\ \A owner \in {"nobody", "user", "board"} : NewBoardRow(owner) \in BoardRow
    /\ \A r \in BoardRow, owner \in {"nobody", "user", "board"} :
          [r EXCEPT !.owner = owner] \in BoardRow
    /\ \A r \in BoardRow, m \in None .. Gap : [r EXCEPT !.missing = m] \in BoardRow
    /\ \A r \in BoardRow, c \in None .. Window, b \in BOOLEAN :
          [r EXCEPT !.closed = c, !.byCrawl = b] \in BoardRow
<1>1. \A owner \in {"nobody", "user", "board"} : NewBoardRow(owner) \in BoardRow
  BY Ranges DEF NewBoardRow, BoardRow
<1>2. \A r \in BoardRow, owner \in {"nobody", "user", "board"} :
          [r EXCEPT !.owner = owner] \in BoardRow
  BY DEF BoardRow
<1>3. \A r \in BoardRow, m \in None .. Gap : [r EXCEPT !.missing = m] \in BoardRow
  BY DEF BoardRow
<1>4. \A r \in BoardRow, c \in None .. Window, b \in BOOLEAN :
          [r EXCEPT !.closed = c, !.byCrawl = b] \in BoardRow
  BY DEF BoardRow
<1> QED
  BY <1>1, <1>2, <1>3, <1>4

\* A crawl's times.
LEMMA Ages ==
    ASSUME NEW c \in CrawlerState
    PROVE  /\ c.age \in 0 .. FunctionTimeout /\ c.read \in 0 .. FunctionTimeout
           /\ c.age \in Int /\ c.read \in Int
           /\ \A n \in 0 .. FunctionTimeout : [c EXCEPT !.age = n] \in CrawlerState
           /\ \A n : [c EXCEPT !.age = n].age = n /\ [c EXCEPT !.age = n].read = c.read
<1>1. c.age \in 0 .. FunctionTimeout /\ c.read \in 0 .. FunctionTimeout
  BY DEF CrawlerState
<1>2. c.age \in Int /\ c.read \in Int
  BY <1>1
<1>3. \A n \in 0 .. FunctionTimeout : [c EXCEPT !.age = n] \in CrawlerState
  BY DEF CrawlerState
<1>4. \A n : [c EXCEPT !.age = n].age = n /\ [c EXCEPT !.age = n].read = c.read
  BY DEF CrawlerState
<1> QED
  BY <1>1, <1>2, <1>3, <1>4

\* Stamping changes rows into new ones at most.
LEMMA StampedTyped ==
    ASSUME rows \in [Urls -> BoardRow], NEW seenUrls
    PROVE  Stamped(seenUrls) \in [Urls -> BoardRow]
BY RowsTyped DEF Stamped

\* What a crawl closes it has missed before, long enough ago.
LEMMA ClosuresDue ==
    ASSUME NEW r, NEW unlisted, NEW closing \in Closures(r, unlisted)
    PROVE  closing \subseteq unlisted /\ \A u \in closing : r[u].missing = Gap
BY DEF Closures, SecondMiss

-----------------------------------------------------------------------------
(* Type correctness.                                                       *)

\* A crawl's reads are not in its future, so what it dates back is not either.
ReadInPast == \A w \in Crawlers : crawler[w].read <= crawler[w].age

TypeInv == TypeOK /\ ReadInPast

CrawlStep(w) ==
    \/ StartCrawl(w) \/ ListingFails(w) \/ ListBoard(w)
    \/ Register(w) \/ RegisterConflict(w)
    \/ ReadPresence(w) \/ WritePresence(w) \/ RecordingFails(w) \/ CrawlDies(w)

UrlStep(u) == SubmitUrl(u) \/ Attribute(u) \/ ScanExpires(u) \/ ScanReopens(u)

LEMMA InitTyped == Init => TypeOK
<1> SUFFICES ASSUME Init PROVE TypeOK
  OBVIOUS
<1>1. rows \in [Urls -> BoardRow]
  BY RowsTyped DEF Init
<1>2. crawler \in [Crawlers -> CrawlerState]
  BY Ranges DEF Init, IdleCrawler, CrawlerState
<1> QED
  BY <1>1, <1>2, Ranges, TimesAssumption DEF Init, TypeOK

LEMMA IdleTyped == IdleCrawler \in CrawlerState
BY Ranges DEF IdleCrawler, CrawlerState

LEMMA DispatchTyped ==
    ASSUME TypeOK, PickDue \/ Dispatch \/ DispatcherDies \/ TriggerCrawl
    PROVE  TypeOK'
<1>1. CASE PickDue
  BY <1>1, Ranges DEF PickDue, TypeOK
<1>2. CASE Dispatch
  <2> DEFINE since == IF run < ClaimTTL THEN run ELSE ClaimTTL
  <2>1. run \in 0 .. DispatchTimeout
    BY <1>2 DEF Dispatch, TypeOK, None
  <2>2. since \in 0 .. ClaimTTL
    BY <2>1, Ranges
  <2>3. claim' = since /\ dispatched' = since /\ run' = None
        /\ UNCHANGED <<rows, next, crawler>>
    BY <1>2 DEF Dispatch
  <2>4. messages' \in Nat /\ faults' \in 0 .. FaultBudget
    BY <1>2, TimesAssumption DEF Dispatch, Fault, TypeOK
  <2> HIDE DEF since
  <2> QED
    BY <2>2, <2>3, <2>4, Ranges DEF TypeOK
<1>3. CASE DispatcherDies
  BY <1>3, Ranges DEF DispatcherDies, TypeOK
<1>4. CASE TriggerCrawl
  BY <1>4 DEF TriggerCrawl, TypeOK
<1> QED
  BY <1>1, <1>2, <1>3, <1>4

LEMMA CrawlTyped ==
    ASSUME TypeInv, NEW w \in Crawlers, CrawlStep(w)
    PROVE  TypeOK'
<1> USE DEF TypeInv
<1> DEFINE c == crawler[w]
<1>1. c \in CrawlerState
  BY DEF TypeOK
<1>2. ClaimAfter(w) \in None .. ClaimTTL /\ ScheduleNextCrawl \in 0 .. MinInterval
  BY Ranges DEF TypeOK, ClaimAfter, ScheduleNextCrawl
<1>3. CASE StartCrawl(w)
  <2>1. [IdleCrawler EXCEPT !.pc = "listing", !.claimed = claim # None] \in CrawlerState
    BY IdleTyped DEF CrawlerState
  <2>2. crawler' \in [Crawlers -> CrawlerState]
    BY <1>3, <2>1 DEF StartCrawl, TypeOK
  <2>3. messages' \in Nat /\ faults' \in 0 .. FaultBudget
    BY <1>3, TimesAssumption DEF StartCrawl, Fault, TypeOK
  <2> QED
    BY <1>3, <2>2, <2>3 DEF StartCrawl, TypeOK
<1>4. CASE ListingFails(w)
  BY <1>4, <1>2, IdleTyped DEF ListingFails, TypeOK
<1>5. CASE ListBoard(w)
  <2>1. PICK seenUrls \in SUBSET Urls, healthy \in BOOLEAN :
          crawler' = [crawler EXCEPT ![w].pc = "registering",
              ![w].listing = seenUrls, ![w].healthy = healthy, ![w].new = seenUrls \ Known]
    BY <1>5 DEF ListBoard
  <2>2. [c EXCEPT !.pc = "registering", !.listing = seenUrls, !.healthy = healthy,
                  !.new = seenUrls \ Known] \in CrawlerState
    BY <1>1 DEF CrawlerState
  <2>3. crawler' \in [Crawlers -> CrawlerState]
    BY <2>1, <2>2 DEF TypeOK
  <2> QED
    BY <1>5, <2>3 DEF ListBoard, TypeOK
<1>6. CASE Register(w)
  <2>1. rows' \in [Urls -> BoardRow]
    BY <1>6, RowsTyped DEF Register, TypeOK
  <2>2. [c EXCEPT !.pc = "recording", !.new = {}, !.claimed = FALSE] \in CrawlerState
    BY <1>1 DEF CrawlerState
  <2>3. crawler' \in [Crawlers -> CrawlerState]
    BY <1>6, <2>2 DEF Register, TypeOK
  <2> QED
    BY <1>6, <1>2, <2>1, <2>3 DEF Register, TypeOK
<1>7. CASE RegisterConflict(w)
  <2>1. [c EXCEPT !.pc = "recording", !.new = {}, !.claimed = FALSE,
                  !.healthy = FALSE] \in CrawlerState
    BY <1>1 DEF CrawlerState
  <2>2. crawler' \in [Crawlers -> CrawlerState]
    BY <1>7, <2>1 DEF RegisterConflict, TypeOK
  <2> QED
    BY <1>7, <1>2, <2>2, Ranges DEF RegisterConflict, TypeOK
<1>8. CASE ReadPresence(w)
  <2> DEFINE seen == Stamped(c.listing)
             unlisted == IF c.healthy THEN OpenRows(seen) \ c.listing ELSE {}
  <2>1. unlisted \subseteq Urls
    BY DEF OpenRows
  <2>2. PICK closing \in Closures(seen, unlisted) :
          crawler' = [crawler EXCEPT ![w].pc = "writing", ![w].read = c.age,
              ![w].listing = {}, ![w].healthy = FALSE,
              ![w].missed = {u \in unlisted : seen[u].missing = None},
              ![w].closing = closing]
    BY <1>8 DEF ReadPresence
  <2>3. closing \subseteq Urls
    BY <2>1, ClosuresDue
  <2>4. rows' \in [Urls -> BoardRow]
    BY <1>8, StampedTyped DEF ReadPresence, TypeOK
  <2> HIDE DEF seen, unlisted
  <2>5. \A missed \in SUBSET Urls :
          [c EXCEPT !.pc = "writing", !.read = c.age, !.listing = {}, !.healthy = FALSE,
                    !.missed = missed, !.closing = closing] \in CrawlerState
    BY <1>1, <2>3 DEF CrawlerState
  <2>6. {u \in unlisted : seen[u].missing = None} \in SUBSET Urls
    BY <2>1
  <2>7. crawler' \in [Crawlers -> CrawlerState]
    BY <2>2, <2>5, <2>6 DEF TypeOK
  <2> QED
    BY <1>8, <2>4, <2>7 DEF ReadPresence, TypeOK
<1>9. CASE WritePresence(w)
  <2> DEFINE since == c.age - c.read
  <2>1. since \in 0 .. FunctionTimeout
    BY <1>1, Ranges DEF CrawlerState, ReadInPast
  <2>2. since \in None .. Gap
    BY <2>1, Ranges
  <2>3. (IF since < Window THEN since ELSE Window) \in None .. Window
    BY <2>1, Ranges
  <2>4. rows' = [u \in Urls |->
          IF u \in c.closing
          THEN [rows[u] EXCEPT !.closed = IF since < Window THEN since ELSE Window,
                               !.byCrawl = TRUE]
          ELSE IF u \in c.missed THEN [rows[u] EXCEPT !.missing = since] ELSE rows[u]]
    BY <1>9 DEF WritePresence
  <2> HIDE DEF since
  <2>5. ASSUME NEW u \in Urls
        PROVE  /\ [rows[u] EXCEPT !.closed = IF since < Window THEN since ELSE Window,
                                  !.byCrawl = TRUE] \in BoardRow
               /\ [rows[u] EXCEPT !.missing = since] \in BoardRow
    <3>1. rows[u] \in BoardRow
      BY DEF TypeOK
    <3>2. [rows[u] EXCEPT !.missing = since] \in BoardRow
      BY <2>2, <3>1, RowsTyped
    <3>3. PICK b \in BOOLEAN : b = TRUE
      OBVIOUS
    <3>4. [rows[u] EXCEPT !.closed = IF since < Window THEN since ELSE Window,
                          !.byCrawl = b] \in BoardRow
      BY <2>3, <3>1, RowsTyped
    <3> QED
      BY <3>2, <3>3, <3>4
  <2>6. rows' \in [Urls -> BoardRow]
    BY <2>4, <2>5 DEF TypeOK
  <2>7. crawler' \in [Crawlers -> CrawlerState]
    BY <1>9, IdleTyped DEF WritePresence, TypeOK
  <2> QED
    BY <1>9, <2>6, <2>7 DEF WritePresence, TypeOK
<1>10. CASE RecordingFails(w)
  <2>1. faults' \in 0 .. FaultBudget
    BY <1>10, TimesAssumption DEF RecordingFails, Fault, TypeOK
  <2> QED
    BY <1>10, <2>1, IdleTyped DEF RecordingFails, TypeOK
<1>11. CASE CrawlDies(w)
  <2>1. faults' \in 0 .. FaultBudget
    BY <1>11, TimesAssumption DEF CrawlDies, Fault, TypeOK
  <2> QED
    BY <1>11, <2>1, IdleTyped DEF CrawlDies, TypeOK
<1> QED
  BY <1>3, <1>4, <1>5, <1>6, <1>7, <1>8, <1>9, <1>10, <1>11 DEF CrawlStep

LEMMA UrlTyped ==
    ASSUME TypeOK, NEW u \in Urls, UrlStep(u)
    PROVE  TypeOK'
<1>1. rows[u] \in BoardRow
  BY DEF TypeOK
<1>2. CASE SubmitUrl(u)
  BY <1>2, RowsTyped DEF SubmitUrl, TypeOK
<1>3. CASE Attribute(u)
  <2>1. [rows[u] EXCEPT !.owner = "board"] \in BoardRow
    BY <1>1, RowsTyped
  <2> QED
    BY <1>3, <2>1 DEF Attribute, TypeOK
<1>4. CASE ScanExpires(u)
  <2>1. 0 \in None .. Window
    BY Ranges DEF None
  <2>2. [rows[u] EXCEPT !.closed = 0, !.byCrawl = FALSE] \in BoardRow
    BY <1>1, <2>1 DEF BoardRow
  <2> QED
    BY <1>4, <2>2 DEF ScanExpires, TypeOK
<1>5. CASE ScanReopens(u)
  <2>1. [rows[u] EXCEPT !.closed = None, !.byCrawl = FALSE] \in BoardRow
    BY <1>1, Ranges DEF BoardRow
  <2> QED
    BY <1>5, <2>1 DEF ScanReopens, TypeOK
<1> QED
  BY <1>2, <1>3, <1>4, <1>5 DEF UrlStep

LEMMA TickTyped ==
    ASSUME TypeOK, Tick
    PROVE  TypeOK'
<1>1. rows' \in [Urls -> BoardRow]
  <2>1. ASSUME NEW u \in Urls
        PROVE  [rows[u] EXCEPT !.missing = Older(@, Gap), !.closed = Older(@, Window)]
                 \in BoardRow
    <3>1. rows[u] \in BoardRow
      BY DEF TypeOK
    <3>2. Older(rows[u].missing, Gap) \in None .. Gap
      BY <3>1, Ranges, OlderTyped DEF BoardRow
    <3>3. Older(rows[u].closed, Window) \in None .. Window
      BY <3>1, Ranges, OlderTyped DEF BoardRow
    <3> QED
      BY <3>1, <3>2, <3>3 DEF BoardRow
  <2> QED
    BY <2>1 DEF Tick
<1>2. claim' \in None .. ClaimTTL /\ dispatched' \in 0 .. ClaimTTL
      /\ run' \in None .. DispatchTimeout
  BY Ranges, OlderTyped DEF Tick, TypeOK
<1>3. next' \in 0 .. MinInterval
  <2>1. MinInterval \in Nat /\ next \in 0 .. MinInterval
    BY IntervalAboveTTL DEF TypeOK
  <2>2. next' = IF next > 0 THEN next - 1 ELSE 0
    BY DEF Tick
  <2> QED
    BY <2>1, <2>2
<1>4. crawler' \in [Crawlers -> CrawlerState]
  <2>1. ASSUME NEW w \in Crawlers, crawler[w].pc # "idle"
        PROVE  [crawler[w] EXCEPT !.age = @ + 1] \in CrawlerState
    <3>1. crawler[w] \in CrawlerState
      BY DEF TypeOK
    <3>2. crawler[w].age + 1 \in 0 .. FunctionTimeout
      <4>1. crawler[w].age \in 0 .. FunctionTimeout
        BY <3>1, Ages
      <4>2. crawler[w].age < FunctionTimeout
        BY <2>1 DEF Tick
      <4> QED
        BY <4>1, <4>2, Ranges
    <3>3. \A n \in 0 .. FunctionTimeout : [crawler[w] EXCEPT !.age = n] \in CrawlerState
      BY <3>1, Ages
    <3> QED
      BY <3>2, <3>3
  <2> QED
    BY <2>1 DEF Tick, TypeOK
<1> QED
  BY <1>1, <1>2, <1>3, <1>4 DEF Tick, TypeOK

LEMMA ReadStaysInPast ==
    ASSUME TypeInv, [Next]_vars
    PROVE  ReadInPast'
<1> USE DEF TypeInv
<1>1. CASE Tick
  <2>1. ASSUME NEW w \in Crawlers
        PROVE  crawler'[w].read <= crawler'[w].age
    <3>1. crawler[w] \in CrawlerState /\ crawler[w].read <= crawler[w].age
      BY DEF TypeOK, ReadInPast
    <3>2. /\ crawler[w].read \in Int /\ crawler[w].age \in Int
      BY <3>1, Ages
    <3>3. CASE crawler'[w] = crawler[w]
      BY <3>1, <3>3
    <3>4. CASE crawler'[w] = [crawler[w] EXCEPT !.age = @ + 1]
      <4>1. crawler'[w].age = crawler[w].age + 1 /\ crawler'[w].read = crawler[w].read
        BY <3>1, <3>4, Ages
      <4> QED
        BY <3>1, <3>2, <4>1
    <3> QED
      BY <1>1, <3>3, <3>4 DEF Tick
  <2> QED
    BY <2>1 DEF ReadInPast
<1>2. ASSUME NEW w \in Crawlers, CrawlStep(w)
      PROVE  ReadInPast'
  <2>1. crawler[w] \in CrawlerState
    BY DEF TypeOK
  <2>2. IdleCrawler.read <= IdleCrawler.age
    BY DEF IdleCrawler
  <2>3. CASE ReadPresence(w)
    <3>1. crawler'[w].read = crawler[w].age /\ crawler'[w].age = crawler[w].age
      <4> DEFINE c == crawler[w]
      <4>1. PICK missed, closing :
              crawler' = [crawler EXCEPT ![w].pc = "writing", ![w].read = crawler[w].age,
                  ![w].listing = {}, ![w].healthy = FALSE,
                  ![w].missed = missed, ![w].closing = closing]
        BY <2>3 DEF ReadPresence
      <4>2. crawler'[w] = [c EXCEPT !.pc = "writing", !.read = c.age, !.listing = {},
                                    !.healthy = FALSE, !.missed = missed, !.closing = closing]
        BY <4>1 DEF TypeOK
      <4> QED
        BY <2>1, <4>2 DEF CrawlerState
    <3>2. \A v \in Crawlers \ {w} : crawler'[v] = crawler[v]
      BY <2>3 DEF ReadPresence, TypeOK
    <3> QED
      <4>1. crawler[w].age \in Int
        BY <2>1, Ages
      <4> QED
        BY <3>1, <3>2, <4>1 DEF ReadInPast
  <2>4. CASE ~ReadPresence(w)
    <3>1. \A v \in Crawlers \ {w} : crawler'[v] = crawler[v]
      BY <1>2, <2>4 DEF CrawlStep, StartCrawl, ListingFails, ListBoard, Register,
           RegisterConflict, WritePresence, RecordingFails, CrawlDies, TypeOK
    <3>2. \/ crawler'[w].read = crawler[w].read /\ crawler'[w].age = crawler[w].age
          \/ crawler'[w].read = IdleCrawler.read /\ crawler'[w].age = IdleCrawler.age
      <4>1. CASE crawler' = [crawler EXCEPT ![w] = IdleCrawler]
        BY <4>1 DEF TypeOK
      <4>2. CASE StartCrawl(w)
        <5>1. crawler'[w] = [IdleCrawler EXCEPT !.pc = "listing", !.claimed = claim # None]
          BY <4>2 DEF StartCrawl, TypeOK
        <5> QED
          BY <5>1 DEF IdleCrawler
      <4>3. CASE ListBoard(w)
        <5>1. PICK seenUrls, healthy, new :
                crawler' = [crawler EXCEPT ![w].pc = "registering", ![w].listing = seenUrls,
                                           ![w].healthy = healthy, ![w].new = new]
          BY <4>3 DEF ListBoard
        <5>2. crawler'[w] = [crawler[w] EXCEPT !.pc = "registering", !.listing = seenUrls,
                                               !.healthy = healthy, !.new = new]
          BY <5>1 DEF TypeOK
        <5> QED
          BY <2>1, <5>2 DEF CrawlerState
      <4>4. CASE Register(w)
        <5>1. crawler'[w] = [crawler[w] EXCEPT !.pc = "recording", !.new = {},
                                               !.claimed = FALSE]
          BY <4>4 DEF Register, TypeOK
        <5> QED
          BY <2>1, <5>1 DEF CrawlerState
      <4>5. CASE RegisterConflict(w)
        <5>1. crawler'[w] = [crawler[w] EXCEPT !.pc = "recording", !.new = {},
                                               !.claimed = FALSE, !.healthy = FALSE]
          BY <4>5 DEF RegisterConflict, TypeOK
        <5> QED
          BY <2>1, <5>1 DEF CrawlerState
      <4> QED
        BY <1>2, <2>4, <4>1, <4>2, <4>3, <4>4, <4>5 DEF CrawlStep, ListingFails,
           WritePresence, RecordingFails, CrawlDies
    <3> QED
      BY <2>2, <3>1, <3>2 DEF ReadInPast
  <2> QED
    BY <2>3, <2>4
<1>3. CASE UNCHANGED crawler
  BY <1>3 DEF ReadInPast
<1>4. QED
  BY <1>1, <1>2, <1>3 DEF Next, vars, CrawlStep, PickDue, Dispatch, DispatcherDies,
     TriggerCrawl, SubmitUrl, Attribute, ScanExpires, ScanReopens

LEMMA TypeInvInductive == TypeInv /\ [Next]_vars => TypeInv'
<1> SUFFICES ASSUME TypeInv, [Next]_vars
             PROVE  TypeOK'
  BY ReadStaysInPast DEF TypeInv
<1>1. CASE PickDue \/ Dispatch \/ DispatcherDies \/ TriggerCrawl
  BY <1>1, DispatchTyped DEF TypeInv
<1>2. CASE \E w \in Crawlers : CrawlStep(w)
  BY <1>2, CrawlTyped
<1>3. CASE \E u \in Urls : UrlStep(u)
  BY <1>3, UrlTyped DEF TypeInv
<1>4. CASE Tick
  BY <1>4, TickTyped DEF TypeInv
<1>5. CASE UNCHANGED vars
  BY <1>5 DEF vars, TypeInv, TypeOK
<1> QED
  BY <1>1, <1>2, <1>3, <1>4, <1>5 DEF Next, CrawlStep, UrlStep

LEMMA InitInv == Init => TypeInv
BY InitTyped, Ranges DEF TypeInv, ReadInPast, Init, IdleCrawler

LEMMA TypeInvHolds == Spec => []TypeInv
BY InitInv, TypeInvInductive, PTL DEF Spec

\* Every variable keeps its type, whatever the order in which dispatchers,
\* admins, crawls and scans act on the board.
THEOREM TypeCorrect == Spec => []TypeOK
BY TypeInvHolds, PTL DEF TypeInv

-----------------------------------------------------------------------------
(* Spacing of dispatches.                                                  *)

\* Within a claim's lifetime of the last dispatch, either its claim is still
\* there, or a crawl has ended since and put the next one off far enough.
Spaced ==
    dispatched < ClaimTTL =>
        \/ claim = dispatched
        \/ next + dispatched >= ClaimTTL

LEMMA SpacedInductive ==
    ASSUME TypeOK, Spaced, [Next]_vars
    PROVE  Spaced'
<1>1. /\ ClaimTTL \in Nat \ {0} /\ MinInterval \in Nat /\ ClaimTTL <= MinInterval
      /\ dispatched \in 0 .. ClaimTTL /\ next \in 0 .. MinInterval
  BY TimesAssumption, IntervalAboveTTL DEF TypeOK
<1>2. CASE UNCHANGED <<claim, next, dispatched>>
  BY <1>2 DEF Spaced
<1>3. CASE next' = ScheduleNextCrawl /\ dispatched' = dispatched
  BY <1>1, <1>3 DEF Spaced, ScheduleNextCrawl
<1>4. CASE Dispatch
  BY <1>4 DEF Dispatch, Spaced
<1>5. CASE Tick
  <2>1. /\ claim' = Older(claim, ClaimTTL)
        /\ dispatched' = Older(dispatched, ClaimTTL)
        /\ next' = IF next > 0 THEN next - 1 ELSE 0
    BY <1>5 DEF Tick
  <2>2. CASE dispatched = ClaimTTL
    BY <1>1, <2>1, <2>2 DEF Older, Spaced
  <2>3. CASE dispatched < ClaimTTL /\ claim = dispatched
    BY <1>1, <2>1, <2>3 DEF Spaced
  <2>4. CASE dispatched < ClaimTTL /\ next + dispatched >= ClaimTTL
    BY <1>1, <2>1, <2>4 DEF Older, Spaced
  <2> QED
    BY <1>1, <2>2, <2>3, <2>4 DEF Spaced
<1> QED
  BY <1>2, <1>3, <1>4, <1>5 DEF Next, vars, PickDue, DispatcherDies, TriggerCrawl,
     StartCrawl, ListingFails, ListBoard, Register, RegisterConflict, ReadPresence,
     WritePresence, RecordingFails, CrawlDies, SubmitUrl, Attribute, ScanExpires, ScanReopens

LEMMA SpacedStep ==
    ASSUME TypeOK, Spaced, [Next]_vars, run = None, run' # None
    PROVE  dispatched >= ClaimTTL
<1>1. PickDue
  <2>1. CASE Tick
    <3>1. run' = Older(run, DispatchTimeout) /\ DispatchTimeout \in Nat
      BY <2>1, Ranges DEF Tick
    <3> QED
      BY <3>1 DEF Older, None
  <2> QED
    BY <2>1 DEF Next, vars, PickDue, Dispatch, DispatcherDies, TriggerCrawl,
       StartCrawl, ListingFails, ListBoard, Register, RegisterConflict, ReadPresence,
       WritePresence, RecordingFails, CrawlDies, SubmitUrl, Attribute, ScanExpires, ScanReopens
<1>2. claim \in {None, ClaimTTL} /\ next = 0
  BY <1>1 DEF PickDue
<1>3. dispatched \in 0 .. ClaimTTL /\ ClaimTTL \in Nat
  BY Ranges DEF TypeOK
<1> QED
  BY <1>2, <1>3 DEF Spaced, None

\* Crawls of one board do not pile up: the dispatcher takes the source up again
\* only a claim's lifetime after the last run that published a crawl for it,
\* for every claim lifetime no longer than the shortest crawl interval.
THEOREM DispatchesSpaced == Spec => DispatchSpaced
<1>1. Init => Spaced
  BY Ranges DEF Init, Spaced
<1>2. TypeOK /\ Spaced /\ [Next]_vars => Spaced'
  BY SpacedInductive
<1>3. TypeOK /\ Spaced /\ [Next]_vars =>
        [run = None /\ run' # None => dispatched >= ClaimTTL]_vars
  BY SpacedStep
<1> QED
  BY <1>1, <1>2, <1>3, TypeCorrect, PTL DEF Spec, DispatchSpaced

-----------------------------------------------------------------------------
(* Two misses.                                                             *)

\* Only its own reads make a crawl decide to close anything.
LEMMA ClosingDecided ==
    ASSUME TypeInv, [Next]_vars, NEW w \in Crawlers,
           NEW u \in crawler'[w].closing \ crawler[w].closing
    PROVE  ReadPresence(w)
<1>1. crawler[w] \in CrawlerState /\ IdleCrawler.closing = {}
  BY DEF TypeInv, TypeOK, IdleCrawler
<1>2. CASE UNCHANGED crawler
  BY <1>2
<1>3. CASE Tick
  <2>1. \/ crawler'[w] = crawler[w]
        \/ crawler'[w] = [crawler[w] EXCEPT !.age = @ + 1]
    BY <1>3 DEF Tick
  <2>2. \A n : [crawler[w] EXCEPT !.age = n].closing = crawler[w].closing
    BY <1>1 DEF CrawlerState
  <2> QED
    BY <2>1, <2>2
<1>4. ASSUME NEW v \in Crawlers \ {w}, CrawlStep(v)
      PROVE  crawler'[w] = crawler[w]
  BY <1>4 DEF CrawlStep, StartCrawl, ListingFails, ListBoard, Register,
     RegisterConflict, ReadPresence, WritePresence, RecordingFails, CrawlDies,
     TypeInv, TypeOK
<1>5. CASE crawler' = [crawler EXCEPT ![w] = IdleCrawler]
  BY <1>1, <1>5 DEF TypeInv, TypeOK
<1>6. CASE StartCrawl(w)
  <2>1. crawler'[w] = [IdleCrawler EXCEPT !.pc = "listing", !.claimed = claim # None]
    BY <1>6 DEF StartCrawl, TypeInv, TypeOK
  <2> QED
    BY <2>1 DEF IdleCrawler
<1>7. CASE ListBoard(w)
  <2>1. PICK seenUrls, healthy, new :
          crawler' = [crawler EXCEPT ![w].pc = "registering", ![w].listing = seenUrls,
                                     ![w].healthy = healthy, ![w].new = new]
    BY <1>7 DEF ListBoard
  <2>2. crawler'[w] = [crawler[w] EXCEPT !.pc = "registering", !.listing = seenUrls,
                                         !.healthy = healthy, !.new = new]
    BY <2>1 DEF TypeInv, TypeOK
  <2> QED
    BY <1>1, <2>2 DEF CrawlerState
<1>8. CASE Register(w)
  <2>1. crawler'[w] = [crawler[w] EXCEPT !.pc = "recording", !.new = {}, !.claimed = FALSE]
    BY <1>8 DEF Register, TypeInv, TypeOK
  <2> QED
    BY <1>1, <2>1 DEF CrawlerState
<1>9. CASE RegisterConflict(w)
  <2>1. crawler'[w] = [crawler[w] EXCEPT !.pc = "recording", !.new = {},
                                         !.claimed = FALSE, !.healthy = FALSE]
    BY <1>9 DEF RegisterConflict, TypeInv, TypeOK
  <2> QED
    BY <1>1, <2>1 DEF CrawlerState
<1>10. CASE CrawlStep(w)
  BY <1>5, <1>6, <1>7, <1>8, <1>9, <1>10 DEF CrawlStep, ListingFails, WritePresence,
     RecordingFails, CrawlDies
<1> QED
  BY <1>2, <1>3, <1>4, <1>10 DEF Next, vars, CrawlStep, PickDue, Dispatch,
     DispatcherDies, TriggerCrawl, SubmitUrl, Attribute, ScanExpires, ScanReopens

\* What a crawl decides to close was missing when it began.
LEMMA DecidedOnOldMiss ==
    ASSUME TypeInv, NEW w \in Crawlers, ReadPresence(w),
           NEW u \in crawler'[w].closing \ crawler[w].closing
    PROVE  rows[u].missing > crawler[w].age
<1> DEFINE seen == Stamped(crawler[w].listing)
           unlisted == IF crawler[w].healthy
                       THEN OpenRows(seen) \ crawler[w].listing ELSE {}
<1>1. crawler[w] \in CrawlerState
  BY DEF TypeInv, TypeOK
<1>2. PICK closing \in Closures(seen, unlisted) :
        crawler' = [crawler EXCEPT ![w].pc = "writing", ![w].read = crawler[w].age,
            ![w].listing = {}, ![w].healthy = FALSE,
            ![w].missed = {x \in unlisted : seen[x].missing = None},
            ![w].closing = closing]
  BY DEF ReadPresence
<1>3. u \in closing
  <2> HIDE DEF seen, unlisted
  <2>1. crawler'[w].closing = closing
    BY <1>1, <1>2 DEF TypeInv, TypeOK, CrawlerState
  <2> QED
    BY <2>1
<1>4. u \in unlisted /\ seen[u].missing = Gap
  BY <1>3, ClosuresDue
<1>5. u \in Urls /\ u \notin crawler[w].listing
  BY <1>4 DEF OpenRows
<1>6. seen[u] = rows[u]
  BY <1>5 DEF Stamped
<1>7. crawler[w].age \in 0 .. FunctionTimeout
  BY <1>1, Ages
<1> HIDE DEF seen
<1> QED
  BY <1>4, <1>6, <1>7, Ranges, GapAboveTimeout

\* A redelivered or overlapping crawl never supplies both of the misses that
\* close a URL: the first one was on record before the crawl began, as long as
\* the gap required between them exceeds the crawl function's timeout.
THEOREM TwoListingsNeeded == Spec => TwoListingsToClose
<1>1. TypeInv /\ [Next]_vars =>
        [\A w \in Crawlers : \A u \in crawler'[w].closing \ crawler[w].closing :
            rows[u].missing > crawler[w].age]_vars
  BY ClosingDecided, DecidedOnOldMiss
<1> QED
  BY <1>1, TypeInvHolds, PTL DEF Spec, TwoListingsToClose

-----------------------------------------------------------------------------
(* The daily share, for crawls that do not overlap.  The share is of a     *)
(* board that shrinks as closed rows age out of the window, so it has to   *)
(* be kept at every later moment of the window too, and by the rows as the *)
(* crawl under way is about to leave them.                                 *)

\* Of the rows closed within the window, those that still are k ticks later.
RecentIn(r, k) == {u \in Urls : r[u].owner = "board" /\ r[u].closed \in 0 .. Window - 1 - k}

CountedIn(r, k) == OpenRows(r) \union RecentIn(r, k)

ByCrawlsIn(r, k) == {u \in RecentIn(r, k) : r[u].byCrawl}

LimitIn(r, k) ==
    LET share == Cardinality(CountedIn(r, k)) \div ShareDivisor
    IN  IF share > CloseMin THEN share ELSE CloseMin

ShareLasts(r) == \A k \in 0 .. Window - 1 : Cardinality(ByCrawlsIn(r, k)) <= LimitIn(r, k)

\* The rows as WritePresence(w) would leave them now.
AfterWrite(w) ==
    LET since == crawler[w].age - crawler[w].read
    IN  [u \in Urls |->
          IF u \in crawler[w].closing
          THEN [rows[u] EXCEPT !.closed = IF since < Window THEN since ELSE Window,
                               !.byCrawl = TRUE]
          ELSE IF u \in crawler[w].missed
          THEN [rows[u] EXCEPT !.missing = since]
          ELSE rows[u]]

OfBoard == {u \in Urls : rows[u].owner = "board"}

ShareInv ==
    /\ ShareLasts(rows)
    /\ \A w \in Crawlers : crawler[w].pc = "writing" =>
          crawler[w].closing \subseteq OfBoard /\ ShareLasts(AfterWrite(w))
    /\ \A u \in Urls \ OfBoard : ~rows[u].byCrawl

\* What a division by the share's divisor does to a sum.
LEMMA Shares ==
    ASSUME NEW n \in Nat, NEW x \in Nat, x <= n
    PROVE  /\ n \div ShareDivisor \in Nat /\ (n - x) \div ShareDivisor \in Nat
           /\ (n - x) \div ShareDivisor <= n \div ShareDivisor
           /\ n \div ShareDivisor <= ((n - x) \div ShareDivisor) + x
<1> DEFINE d == ShareDivisor
           p == (n - x) \div d
           q == n \div d
<1>0. d \in Nat \ {0}
  BY TimesAssumption
<1>1. p \in Int /\ q \in Int /\ d * q <= n /\ n < d * q + d /\ d * p <= n - x /\ n - x < d * p + d
  <2> HIDE DEF d
  <2> QED
    BY <1>0
<1> HIDE DEF d, p, q
<1>2. p >= 0 /\ q >= 0
  <2>1. d * p > -d /\ d * q > -d
    BY <1>0, <1>1
  <2>2. ASSUME NEW i \in Int, d * i > -d PROVE i >= 0
    <3>1. SUFFICES ASSUME i <= -1 PROVE FALSE
      BY <1>0
    <3>2. d * i <= d * (-1)
      BY <1>0, <3>1
    <3> QED
      BY <1>0, <2>2, <3>2
  <2> QED
    BY <1>1, <2>1, <2>2
<1>3. p <= q
  <2> SUFFICES ASSUME q + 1 <= p PROVE FALSE
    BY <1>1
  <2>1. d * (q + 1) <= d * p
    BY <1>0, <1>1
  <2>2. d * (q + 1) = d * q + d
    BY <1>0, <1>1
  <2> QED
    BY <1>0, <1>1, <2>1, <2>2
<1>4. q <= p + x
  <2> SUFFICES ASSUME p + x + 1 <= q PROVE FALSE
    BY <1>1
  <2>1. d * (p + x + 1) <= d * q
    BY <1>0, <1>1
  <2>2. d * (p + x + 1) = d * p + d * x + d
    BY <1>0, <1>1
  <2>3. d * x >= x
    BY <1>0
  <2>4. d * p \in Int /\ d * q \in Int /\ d * x \in Int
    BY <1>0, <1>1
  <2> QED
    BY <1>0, <1>1, <2>1, <2>2, <2>3, <2>4
<1> QED
  BY <1>1, <1>2, <1>3, <1>4 DEF d, p, q

\* The sets that are counted are finite.
LEMMA CountedTyped ==
    ASSUME NEW r, NEW k
    PROVE  /\ IsFiniteSet(CountedIn(r, k)) /\ Cardinality(CountedIn(r, k)) \in Nat
           /\ IsFiniteSet(RecentIn(r, k)) /\ Cardinality(RecentIn(r, k)) \in Nat
           /\ IsFiniteSet(ByCrawlsIn(r, k)) /\ Cardinality(ByCrawlsIn(r, k)) \in Nat
           /\ LimitIn(r, k) \in Nat
<1>1. /\ CountedIn(r, k) \in SUBSET Urls /\ RecentIn(r, k) \in SUBSET Urls
      /\ ByCrawlsIn(r, k) \in SUBSET Urls
  BY DEF CountedIn, RecentIn, ByCrawlsIn, OpenRows
<1>2. /\ IsFiniteSet(CountedIn(r, k)) /\ IsFiniteSet(RecentIn(r, k))
      /\ IsFiniteSet(ByCrawlsIn(r, k))
  BY <1>1, FiniteUrls, FS_Subset
<1>3. /\ Cardinality(CountedIn(r, k)) \in Nat /\ Cardinality(RecentIn(r, k)) \in Nat
      /\ Cardinality(ByCrawlsIn(r, k)) \in Nat
  BY <1>2, FS_CardinalityType
<1>4. LimitIn(r, k) \in Nat
  <2>1. Cardinality(CountedIn(r, k)) \div ShareDivisor \in Nat
    BY <1>3, Shares
  <2> QED
    BY <2>1, TimesAssumption DEF LimitIn
<1> QED
  BY <1>2, <1>3, <1>4

\* More rows to share in, and fewer of them closed.
LEMMA LimitGrows ==
    ASSUME NEW r, NEW k, NEW s, NEW j, CountedIn(r, k) \subseteq CountedIn(s, j)
    PROVE  LimitIn(r, k) <= LimitIn(s, j)
<1> DEFINE n == Cardinality(CountedIn(s, j))
           m == Cardinality(CountedIn(r, k))
<1>1. m <= n /\ m \in Nat /\ n \in Nat
  BY CountedTyped, FS_Subset
<1> HIDE DEF m, n
<1>2. n - (n - m) = m /\ n - m \in Nat /\ n - m <= n
  BY <1>1
<1>3. m \div ShareDivisor <= n \div ShareDivisor
      /\ m \div ShareDivisor \in Nat /\ n \div ShareDivisor \in Nat
  BY <1>1, <1>2, Shares
<1> QED
  BY <1>3, TimesAssumption DEF LimitIn, m, n

LEMMA Lasting ==
    ASSUME NEW r, NEW s, ShareLasts(r),
           \A k \in 0 .. Window - 1 :
              \/ ByCrawlsIn(s, k) = {}
              \/ \E j \in 0 .. Window - 1 : /\ CountedIn(r, j) \subseteq CountedIn(s, k)
                                            /\ ByCrawlsIn(s, k) \subseteq ByCrawlsIn(r, j)
    PROVE  ShareLasts(s)
<1> SUFFICES ASSUME NEW k \in 0 .. Window - 1
             PROVE  Cardinality(ByCrawlsIn(s, k)) <= LimitIn(s, k)
  BY DEF ShareLasts
<1>1. CASE ByCrawlsIn(s, k) = {}
  BY <1>1, CountedTyped, FS_EmptySet
<1>2. ASSUME NEW j \in 0 .. Window - 1, CountedIn(r, j) \subseteq CountedIn(s, k),
             ByCrawlsIn(s, k) \subseteq ByCrawlsIn(r, j)
      PROVE  Cardinality(ByCrawlsIn(s, k)) <= LimitIn(s, k)
  <2>1. LimitIn(r, j) <= LimitIn(s, k)
    BY <1>2, LimitGrows
  <2>2. Cardinality(ByCrawlsIn(s, k)) <= Cardinality(ByCrawlsIn(r, j))
    BY <1>2, CountedTyped, FS_Subset
  <2>3. Cardinality(ByCrawlsIn(r, j)) <= LimitIn(r, j)
    BY DEF ShareLasts
  <2> QED
    BY <2>1, <2>2, <2>3, CountedTyped
<1> QED
  BY <1>1, <1>2

\* A step that takes no row off the board and puts none among those that
\* crawls have closed.
Benign(x, y) ==
    /\ x.owner = "board" /\ (x.closed = None \/ x.closed \in 0 .. Window)
          => y.owner = "board" /\ (y.closed = None \/ y.closed = x.closed
                                    \/ (x.closed = None /\ y.closed = 0))
    /\ y.owner = "board" /\ y.byCrawl => x.owner = "board" /\ x.byCrawl /\ y.closed = x.closed

LEMMA BenignLasts ==
    ASSUME NEW r, NEW s, ShareLasts(r), \A u \in Urls : Benign(r[u], s[u])
    PROVE  ShareLasts(s)
<1> SUFFICES ASSUME NEW k \in 0 .. Window - 1
             PROVE  /\ CountedIn(r, k) \subseteq CountedIn(s, k)
                    /\ ByCrawlsIn(s, k) \subseteq ByCrawlsIn(r, k)
  BY Lasting
<1>0. Window \in Nat \ {0}
  BY Ranges
<1>1. ASSUME NEW u \in CountedIn(r, k) PROVE u \in CountedIn(s, k)
  <2>1. u \in Urls /\ Benign(r[u], s[u]) /\ r[u].owner = "board"
        /\ (r[u].closed = None \/ r[u].closed \in 0 .. Window - 1 - k)
    BY DEF CountedIn, OpenRows, RecentIn
  <2>2. s[u].owner = "board" /\ (s[u].closed = None \/ s[u].closed = r[u].closed
                                  \/ (r[u].closed = None /\ s[u].closed = 0))
    BY <1>0, <2>1 DEF Benign
  <2>3. 0 \in 0 .. Window - 1 - k
    BY <1>0
  <2> QED
    BY <2>1, <2>2, <2>3 DEF CountedIn, OpenRows, RecentIn
<1>2. ASSUME NEW u \in ByCrawlsIn(s, k) PROVE u \in ByCrawlsIn(r, k)
  BY DEF ByCrawlsIn, RecentIn, Benign
<1> QED
  BY <1>1, <1>2

LEMMA AgingLasts ==
    ASSUME NEW r, NEW s, ShareLasts(r),
           \A u \in Urls : /\ r[u].closed \in None .. Window
                           /\ s[u].owner = r[u].owner /\ s[u].byCrawl = r[u].byCrawl
                           /\ s[u].closed = Older(r[u].closed, Window)
    PROVE  ShareLasts(s)
<1>0. Window \in Nat \ {0}
  BY Ranges
<1>1. ASSUME NEW u \in Urls, NEW k \in 0 .. Window - 1
      PROVE  /\ s[u].closed \in 0 .. Window - 1 - k <=> r[u].closed \in 0 .. Window - 1 - (k + 1)
             /\ s[u].closed = None <=> r[u].closed = None
  <2> DEFINE x == r[u].closed
  <2>1. x \in None .. Window /\ s[u].closed = Older(x, Window)
    OBVIOUS
  <2> HIDE DEF x
  <2>2. /\ s[u].closed \in 0 .. Window - 1 - k <=> x \in 0 .. Window - 1 - (k + 1)
        /\ s[u].closed = None <=> x = None
    BY <1>0, <2>1 DEF Older, None
  <2> QED
    BY <2>2 DEF x
<1> SUFFICES ASSUME NEW k \in 0 .. Window - 1
             PROVE  \/ ByCrawlsIn(s, k) = {}
                    \/ \E j \in 0 .. Window - 1 : /\ CountedIn(r, j) \subseteq CountedIn(s, k)
                                                  /\ ByCrawlsIn(s, k) \subseteq ByCrawlsIn(r, j)
  BY Lasting
<1>2. CASE k = Window - 1
  <2>1. \A u \in Urls : s[u].closed \notin 0 .. Window - 1 - k
    BY <1>0, <1>1, <1>2
  <2> QED
    BY <2>1 DEF ByCrawlsIn, RecentIn
<1>3. CASE k # Window - 1
  <2>1. k + 1 \in 0 .. Window - 1
    BY <1>0, <1>3
  <2>2. CountedIn(r, k + 1) \subseteq CountedIn(s, k)
    BY <1>1 DEF CountedIn, RecentIn, OpenRows
  <2>3. ByCrawlsIn(s, k) \subseteq ByCrawlsIn(r, k + 1)
    BY <1>1 DEF ByCrawlsIn, RecentIn
  <2> QED
    BY <2>1, <2>2, <2>3
<1> QED
  BY <1>2, <1>3

\* What a crawl may close leaves the share kept: each row that ages out of the
\* window takes at most one from the limit, and was counted against it.
LEMMA ClosingLasts ==
    ASSUME NEW r, NEW s, NEW closing, ShareLasts(r),
           closing \subseteq OpenRows(r), Cardinality(closing) <= AllowedClosures(r),
           \A u \in Urls :
              /\ s[u].owner = r[u].owner
              /\ u \in closing => s[u].closed = 0
              /\ u \notin closing => s[u].closed = r[u].closed /\ s[u].byCrawl = r[u].byCrawl
    PROVE  ShareLasts(s)
<1>0. Window \in Nat \ {0}
  BY Ranges
<1>1. IsFiniteSet(closing) /\ Cardinality(closing) \in Nat
  <2>1. closing \in SUBSET Urls
    BY DEF OpenRows
  <2> QED
    BY <2>1, FiniteUrls, FS_Subset, FS_CardinalityType
<1>2. ClosedRecently(r) = RecentIn(r, 0) /\ DailyLimit(r) = LimitIn(r, 0)
  <2>1. ClosedRecently(r) = RecentIn(r, 0)
    BY <1>0 DEF ClosedRecently, RecentIn
  <2> QED
    BY <2>1 DEF DailyLimit, Share, LimitIn, CountedIn
<1>3. CASE closing = {}
  <2>1. ASSUME NEW u \in Urls PROVE Benign(r[u], s[u])
    <3>1. s[u].owner = r[u].owner /\ s[u].closed = r[u].closed /\ s[u].byCrawl = r[u].byCrawl
      BY <1>3
    <3> QED
      BY <3>1 DEF Benign
  <2> QED
    BY <2>1, BenignLasts
<1>4. CASE closing # {}
  <2>1. Cardinality(closing) # 0
    BY <1>1, <1>4, FS_EmptySet
  <2>2. Cardinality(closing) <= LimitIn(r, 0) - Cardinality(RecentIn(r, 0))
    BY <1>1, <1>2, <2>1, CountedTyped DEF AllowedClosures
  <2> SUFFICES ASSUME NEW k \in 0 .. Window - 1
               PROVE  Cardinality(ByCrawlsIn(s, k)) <= LimitIn(s, k)
    BY DEF ShareLasts
  <2> DEFINE open == OpenRows(r)
  <2>3. IsFiniteSet(open) /\ Cardinality(open) \in Nat
    <3>1. open \in SUBSET Urls
      BY DEF OpenRows
    <3> QED
      BY <3>1, FiniteUrls, FS_Subset, FS_CardinalityType
  <2>4. ASSUME NEW j \in Nat
        PROVE  Cardinality(CountedIn(r, j)) = Cardinality(open) + Cardinality(RecentIn(r, j))
    <3>1. open \cap RecentIn(r, j) = {}
      BY <1>0 DEF OpenRows, RecentIn, None
    <3>2. Cardinality(open \cap RecentIn(r, j)) = 0
      BY <3>1, FS_EmptySet
    <3>3. Cardinality(open \cup RecentIn(r, j))
            = Cardinality(open) + Cardinality(RecentIn(r, j)) - Cardinality(open \cap RecentIn(r, j))
      BY <2>3, CountedTyped, FS_Union
    <3> QED
      BY <2>3, <3>2, <3>3, CountedTyped DEF CountedIn
  <2>5. Cardinality(RecentIn(r, k)) <= Cardinality(RecentIn(r, 0))
    <3>1. RecentIn(r, k) \subseteq RecentIn(r, 0)
      BY <1>0 DEF RecentIn
    <3> QED
      BY <3>1, CountedTyped, FS_Subset
  <2> DEFINE x == Cardinality(RecentIn(r, 0)) - Cardinality(RecentIn(r, k))
             n == Cardinality(CountedIn(r, 0))
  <2>6. x \in Nat /\ n \in Nat /\ x <= n /\ Cardinality(CountedIn(r, k)) = n - x
    BY <2>3, <2>4, <2>5, CountedTyped
  <2>7. LimitIn(r, 0) <= LimitIn(r, k) + x
    <3> HIDE DEF x
    <3>1. /\ n \div ShareDivisor \in Nat /\ (n - x) \div ShareDivisor \in Nat
          /\ n \div ShareDivisor <= ((n - x) \div ShareDivisor) + x
      BY <2>6, Shares
    <3> QED
      BY <2>6, <3>1, TimesAssumption DEF LimitIn
  <2>8. Cardinality(closing) + Cardinality(RecentIn(r, k)) <= LimitIn(r, k)
    <3>1. Cardinality(RecentIn(r, 0)) \in Nat /\ Cardinality(RecentIn(r, k)) \in Nat
          /\ LimitIn(r, 0) \in Nat /\ LimitIn(r, k) \in Nat
      BY CountedTyped
    <3> QED
      BY <1>1, <2>2, <2>7, <3>1
  <2>9. LimitIn(r, k) <= LimitIn(s, k)
    <3>1. CountedIn(r, k) \subseteq CountedIn(s, k)
      <4>1. 0 \in 0 .. Window - 1 - k
        BY <1>0
      <4> QED
        BY <4>1 DEF CountedIn, OpenRows, RecentIn
    <3> QED
      BY <3>1, LimitGrows
  <2>10. Cardinality(ByCrawlsIn(s, k)) <= Cardinality(closing) + Cardinality(RecentIn(r, k))
    <3>1. ByCrawlsIn(s, k) \subseteq closing \cup RecentIn(r, k)
      BY DEF ByCrawlsIn, RecentIn
    <3>2. /\ IsFiniteSet(closing \cup RecentIn(r, k))
          /\ Cardinality(closing \cup RecentIn(r, k)) = Cardinality(closing)
               + Cardinality(RecentIn(r, k)) - Cardinality(closing \cap RecentIn(r, k))
      BY <1>1, CountedTyped, FS_Union
    <3>3. Cardinality(closing \cap RecentIn(r, k)) \in Nat
      BY <1>1, FS_Intersection, FS_CardinalityType
    <3>4. Cardinality(ByCrawlsIn(s, k)) <= Cardinality(closing \cup RecentIn(r, k))
      BY <3>1, <3>2, FS_Subset
    <3> QED
      BY <1>1, <3>2, <3>3, <3>4, CountedTyped
  <2> QED
    BY <1>1, <2>8, <2>9, <2>10, CountedTyped
<1> QED
  BY <1>3, <1>4

\* One crawl at a time.
OneCrawl == \A v, w \in Crawlers : v = w

\* While the crawl has read and not written, others may still age, register,
\* attribute, expire and reopen rows.
LEMMA UrlKeepsShare ==
    ASSUME TypeInv, ShareInv, NEW u \in Urls, UrlStep(u) PROVE ShareInv'
<1>0. rows \in [Urls -> BoardRow] /\ rows' \in [Urls -> BoardRow] /\ UNCHANGED crawler
  BY UrlTyped DEF TypeInv, TypeOK, UrlStep, SubmitUrl, Attribute, ScanExpires, ScanReopens
<1>1. /\ \A x \in Urls \ {u} : rows'[x] = rows[x]
      /\ \/ rows[u].owner = "nobody" /\ rows'[u].owner = "user" /\ ~rows'[u].byCrawl
         \/ /\ rows[u].owner = "user" /\ rows'[u].owner = "board"
            /\ rows'[u].closed = rows[u].closed /\ rows'[u].byCrawl = rows[u].byCrawl
         \/ /\ rows'[u].owner = rows[u].owner /\ rows[u].closed = None
            /\ rows'[u].closed = 0 /\ ~rows'[u].byCrawl
         \/ rows[u].owner = "user" /\ rows'[u].owner = "user" /\ ~rows'[u].byCrawl
  BY <1>0 DEF UrlStep, SubmitUrl, Attribute, ScanExpires, ScanReopens, NewBoardRow, BoardRow
<1>2. ASSUME NEW x \in Urls PROVE Benign(rows[x], rows'[x])
  <2>1. CASE x # u
    BY <1>1, <2>1 DEF Benign
  <2>2. CASE x = u
    <3>1. rows[u].owner # "board" => ~rows[u].byCrawl
      BY DEF ShareInv, OfBoard
    <3> QED
      BY <1>1, <2>2, <3>1 DEF Benign
  <2> QED
    BY <2>1, <2>2
<1>3. OfBoard \subseteq OfBoard'
  BY <1>1 DEF OfBoard, ShareInv
<1>4. \A x \in Urls \ OfBoard' : ~rows'[x].byCrawl
  BY <1>1 DEF ShareInv, OfBoard
<1>5. ASSUME NEW w \in Crawlers, crawler[w].pc = "writing"
      PROVE  crawler[w].closing \subseteq OfBoard' /\ ShareLasts(AfterWrite(w))'
  <2> DEFINE r == AfterWrite(w)
             s == AfterWrite(w)'
  <2>1. crawler[w].closing \subseteq OfBoard /\ ShareLasts(r)
    BY <1>5 DEF ShareInv
  <2>2. ASSUME NEW x \in Urls
        PROVE  /\ r[x].owner = rows[x].owner /\ s[x].owner = rows'[x].owner
               /\ x \in crawler[w].closing => r[x].byCrawl /\ s[x].byCrawl
                                              /\ s[x].closed = r[x].closed
               /\ x \notin crawler[w].closing =>
                     /\ r[x].closed = rows[x].closed /\ s[x].closed = rows'[x].closed
                     /\ r[x].byCrawl = rows[x].byCrawl /\ s[x].byCrawl = rows'[x].byCrawl
    <3>1. rows[x] \in BoardRow /\ rows'[x] \in BoardRow
      BY <1>0
    <3> QED
      BY <1>0, <3>1 DEF AfterWrite, BoardRow
  <2> HIDE DEF r, s
  <2>3. ASSUME NEW x \in Urls PROVE Benign(r[x], s[x])
    <3>1. CASE x \in crawler[w].closing
      <4>1. x \in OfBoard /\ x \in OfBoard'
        BY <1>3, <2>1, <3>1
      <4>2. r[x].owner = "board" /\ s[x].owner = "board"
        BY <2>2, <4>1 DEF OfBoard
      <4> QED
        BY <2>2, <3>1, <4>2 DEF Benign
    <3>2. CASE x \notin crawler[w].closing
      <4>1. Benign(rows[x], rows'[x])
        BY <1>2
      <4> QED
        BY <2>2, <3>2, <4>1 DEF Benign
    <3> QED
      BY <3>1, <3>2
  <2>4. ShareLasts(s)
    BY <2>1, <2>3, BenignLasts
  <2>5. ShareLasts(AfterWrite(w))' <=> ShareLasts(s)
    BY DEF s, ShareLasts, LimitIn, ByCrawlsIn, CountedIn, RecentIn, OpenRows
  <2> QED
    BY <1>3, <2>1, <2>4, <2>5
<1>6. ShareLasts(rows')
  BY <1>2, BenignLasts DEF ShareInv
<1>7. ShareLasts(rows)'
  BY <1>6 DEF ShareLasts, LimitIn, ByCrawlsIn, CountedIn, RecentIn, OpenRows
<1> QED
  BY <1>0, <1>4, <1>5, <1>7 DEF ShareInv

LEMMA TickKeepsShare ==
    ASSUME TypeInv, ShareInv, Tick PROVE ShareInv'
<1>0. rows \in [Urls -> BoardRow] /\ crawler \in [Crawlers -> CrawlerState]
  BY DEF TypeInv, TypeOK
<1>1. ASSUME NEW u \in Urls
      PROVE  /\ rows[u].closed \in None .. Window /\ rows'[u].owner = rows[u].owner
             /\ rows'[u].byCrawl = rows[u].byCrawl
             /\ rows'[u].closed = Older(rows[u].closed, Window)
  <2>1. rows'[u] = [rows[u] EXCEPT !.missing = Older(rows[u].missing, Gap),
                                   !.closed = Older(rows[u].closed, Window)]
    BY DEF Tick
  <2> QED
    BY <1>0, <2>1 DEF BoardRow
<1>2. ShareLasts(rows)'
  <2>1. ShareLasts(rows')
    BY <1>1, AgingLasts DEF ShareInv
  <2> QED
    BY <2>1 DEF ShareLasts, LimitIn, ByCrawlsIn, CountedIn, RecentIn, OpenRows
<1>3. OfBoard' = OfBoard
  BY <1>1 DEF OfBoard
<1>4. \A u \in Urls \ OfBoard' : ~rows'[u].byCrawl
  BY <1>1, <1>3 DEF ShareInv
<1>5. ASSUME NEW w \in Crawlers, crawler'[w].pc = "writing"
      PROVE  crawler'[w].closing \subseteq OfBoard' /\ ShareLasts(AfterWrite(w))'
  <2>1. /\ crawler[w].pc = "writing" /\ crawler'[w] = [crawler[w] EXCEPT !.age = @ + 1]
        /\ crawler'[w].closing = crawler[w].closing /\ crawler'[w].missed = crawler[w].missed
        /\ crawler'[w].age = crawler[w].age + 1 /\ crawler'[w].read = crawler[w].read
    BY <1>0, <1>5 DEF Tick, CrawlerState
  <2>2. crawler[w].age \in Nat /\ crawler[w].read \in Nat /\ crawler[w].read <= crawler[w].age
    BY <1>0, Ages, Ranges DEF TypeInv, ReadInPast
  <2> DEFINE r == AfterWrite(w)
             s == AfterWrite(w)'
             since == crawler[w].age - crawler[w].read
             soon == crawler'[w].age - crawler'[w].read
  <2>3. since \in Nat /\ soon = since + 1
    BY <2>1, <2>2
  <2>4. ASSUME NEW u \in Urls
        PROVE  /\ r[u].closed \in None .. Window /\ s[u].owner = r[u].owner
               /\ s[u].byCrawl = r[u].byCrawl /\ s[u].closed = Older(r[u].closed, Window)
    <3>0. rows[u] \in BoardRow /\ rows'[u] \in BoardRow
      <4>1. rows'[u] = [rows[u] EXCEPT !.missing = Older(rows[u].missing, Gap),
                                       !.closed = Older(rows[u].closed, Window)]
        BY DEF Tick
      <4>2. rows[u] \in BoardRow
        BY <1>0
      <4>3. Older(rows[u].missing, Gap) \in None .. Gap /\ Older(rows[u].closed, Window) \in None .. Window
        BY <4>2, OlderTyped, Ranges DEF BoardRow
      <4> QED
        BY <4>1, <4>2, <4>3 DEF BoardRow
    <3>1. CASE u \in crawler[w].closing
      <4> DEFINE now == IF since < Window THEN since ELSE Window
                 then == IF soon < Window THEN soon ELSE Window
      <4>1. r[u] = [rows[u] EXCEPT !.closed = now, !.byCrawl = TRUE]
        BY <3>1 DEF AfterWrite
      <4>2. s[u] = [rows'[u] EXCEPT !.closed = then, !.byCrawl = TRUE]
        BY <2>1, <3>1 DEF AfterWrite
      <4>3. now \in None .. Window /\ then = Older(now, Window)
        <5> HIDE DEF since, soon
        <5> QED
          BY <2>3, Ranges DEF Older, None
      <4> HIDE DEF now, then, r, s
      <4> QED
        BY <1>1, <3>0, <4>1, <4>2, <4>3 DEF BoardRow
    <3>2. CASE u \notin crawler[w].closing
      <4>1. /\ r[u].closed = rows[u].closed /\ r[u].owner = rows[u].owner
            /\ r[u].byCrawl = rows[u].byCrawl
        BY <3>0, <3>2 DEF AfterWrite, BoardRow
      <4>2. /\ s[u].closed = rows'[u].closed /\ s[u].owner = rows'[u].owner
            /\ s[u].byCrawl = rows'[u].byCrawl
        BY <2>1, <3>0, <3>2 DEF AfterWrite, BoardRow
      <4> HIDE DEF r, s
      <4> QED
        BY <1>1, <4>1, <4>2
    <3> QED
      BY <3>1, <3>2
  <2>5. ShareLasts(r)
    BY <2>1 DEF ShareInv
  <2> HIDE DEF r, s
  <2>6. ShareLasts(s)
    BY <2>4, <2>5, AgingLasts
  <2>7. ShareLasts(AfterWrite(w))' <=> ShareLasts(s)
    BY DEF s, ShareLasts, LimitIn, ByCrawlsIn, CountedIn, RecentIn, OpenRows
  <2>8. crawler[w].closing \subseteq OfBoard
    BY <2>1 DEF ShareInv
  <2> QED
    BY <1>3, <2>1, <2>6, <2>7, <2>8
<1> QED
  BY <1>2, <1>4, <1>5 DEF ShareInv

\* A crawl that reads decides no more closures than the share has left.
LEMMA ReadingKeepsShare ==
    ASSUME TypeInv, ShareInv, OneCrawl, NEW w \in Crawlers, ReadPresence(w) PROVE ShareInv'
<1> DEFINE seen == Stamped(crawler[w].listing)
           unlisted == IF crawler[w].healthy
                       THEN OpenRows(seen) \ crawler[w].listing ELSE {}
<1>0. /\ rows \in [Urls -> BoardRow] /\ crawler \in [Crawlers -> CrawlerState]
      /\ seen \in [Urls -> BoardRow]
  BY StampedTyped DEF TypeInv, TypeOK
<1>1. PICK closing \in Closures(seen, unlisted) :
        crawler' = [crawler EXCEPT ![w].pc = "writing", ![w].read = crawler[w].age,
            ![w].listing = {}, ![w].healthy = FALSE,
            ![w].missed = {x \in unlisted : seen[x].missing = None},
            ![w].closing = closing]
  BY DEF ReadPresence
<1>2. rows' = seen
  BY DEF ReadPresence
<1>3. closing \subseteq OpenRows(seen) /\ Cardinality(closing) <= AllowedClosures(seen)
  <2>1. closing \subseteq OpenRows(seen)
    BY DEF Closures
  <2> DEFINE due == {u \in unlisted : SecondMiss(seen[u])}
  <2>2. Cardinality(due) \in Nat
    <3>1. due \in SUBSET Urls
      BY DEF OpenRows
    <3> QED
      BY <3>1, FiniteUrls, FS_Subset, FS_CardinalityType
  <2>3. AllowedClosures(seen) \in Nat
    <3>1. ClosedRecently(seen) = RecentIn(seen, 0) /\ DailyLimit(seen) = LimitIn(seen, 0)
      <4>1. ClosedRecently(seen) = RecentIn(seen, 0)
        BY Ranges DEF ClosedRecently, RecentIn
      <4> QED
        BY <4>1 DEF DailyLimit, Share, LimitIn, CountedIn
    <3> HIDE DEF seen
    <3> QED
      BY <3>1, CountedTyped DEF AllowedClosures
  <2>4. Cardinality(closing) = IF Cardinality(due) > AllowedClosures(seen)
                               THEN AllowedClosures(seen) ELSE Cardinality(due)
    BY DEF Closures
  <2> HIDE DEF due, seen
  <2> QED
    BY <2>1, <2>2, <2>3, <2>4
<1> DEFINE missed == {x \in unlisted : seen[x].missing = None}
<1>4. /\ crawler'[w].closing = closing /\ crawler'[w].age = crawler[w].age
      /\ crawler'[w].read = crawler[w].age /\ crawler'[w].missed = missed
  <2> HIDE DEF missed
  <2>1. crawler' = [crawler EXCEPT ![w].pc = "writing", ![w].read = crawler[w].age,
            ![w].listing = {}, ![w].healthy = FALSE, ![w].missed = missed,
            ![w].closing = closing]
    BY <1>1 DEF missed
  <2> QED
    BY <1>0, <2>1 DEF CrawlerState
<1>5. ASSUME NEW u \in Urls
      PROVE  /\ seen[u] = rows[u] \/ (rows[u].owner = "board" /\ seen[u].owner = "board"
                                        /\ seen[u].closed = None /\ ~seen[u].byCrawl)
             /\ Benign(rows[u], seen[u])
  <2>1. seen[u] = rows[u] \/ (rows[u].owner = "board" /\ seen[u].owner = "board"
                                /\ seen[u].closed = None /\ ~seen[u].byCrawl)
    BY DEF Stamped, NewBoardRow
  <2> HIDE DEF seen
  <2> QED
    BY <2>1 DEF Benign
<1> HIDE DEF missed, unlisted, seen
<1>6. ShareLasts(seen)
  BY <1>5, BenignLasts DEF ShareInv
<1>7. ShareLasts(rows)'
  BY <1>2, <1>6 DEF ShareLasts, LimitIn, ByCrawlsIn, CountedIn, RecentIn, OpenRows
<1>8. \A u \in Urls \ OfBoard' : ~rows'[u].byCrawl
  BY <1>2, <1>5 DEF OfBoard, ShareInv
<1>9. ASSUME NEW v \in Crawlers
      PROVE  crawler'[v].closing \subseteq OfBoard' /\ ShareLasts(AfterWrite(v))'
  <2>1. v = w
    BY DEF OneCrawl
  <2>2. crawler'[v].closing \subseteq OfBoard'
    BY <1>2, <1>3, <1>4, <2>1 DEF OfBoard, OpenRows
  <2> DEFINE s == AfterWrite(w)'
  <2>3. crawler'[w].age - crawler'[w].read = 0 /\ 0 < Window
    BY <1>0, <1>4, Ages, Ranges
  <2>4. ASSUME NEW u \in Urls
        PROVE  /\ s[u].owner = seen[u].owner
               /\ u \in closing => s[u].closed = 0
               /\ u \notin closing => s[u].closed = seen[u].closed /\ s[u].byCrawl = seen[u].byCrawl
    <3>1. seen[u] \in BoardRow
      BY <1>0
    <3> QED
      BY <1>2, <1>4, <2>3, <3>1 DEF AfterWrite, BoardRow
  <2> HIDE DEF s
  <2>5. ShareLasts(s)
    BY <1>3, <1>6, <2>4, ClosingLasts
  <2>6. ShareLasts(AfterWrite(w))' <=> ShareLasts(s)
    BY DEF s, ShareLasts, LimitIn, ByCrawlsIn, CountedIn, RecentIn, OpenRows
  <2> QED
    BY <2>1, <2>2, <2>5, <2>6
<1> QED
  BY <1>7, <1>8, <1>9 DEF ShareInv

\* The other steps of a crawl.
LEMMA CrawlKeepsShare ==
    ASSUME TypeInv, ShareInv, OneCrawl, NEW w \in Crawlers, CrawlStep(w) PROVE ShareInv'
<1>0. /\ rows \in [Urls -> BoardRow] /\ rows' \in [Urls -> BoardRow]
      /\ crawler \in [Crawlers -> CrawlerState]
  BY CrawlTyped DEF TypeInv, TypeOK
<1>1. CASE ReadPresence(w)
  BY <1>1, ReadingKeepsShare
<1>2. CASE WritePresence(w)
  <2>1. crawler[w].pc = "writing" /\ rows' = AfterWrite(w) /\ crawler'[w].pc = "idle"
    BY <1>0, <1>2 DEF WritePresence, AfterWrite, IdleCrawler
  <2>2. \A v \in Crawlers : crawler'[v].pc # "writing"
    BY <2>1 DEF OneCrawl
  <2>3. ShareLasts(AfterWrite(w)) /\ crawler[w].closing \subseteq OfBoard
    BY <2>1 DEF ShareInv
  <2>4. ShareLasts(rows)'
    BY <2>1, <2>3 DEF ShareLasts, LimitIn, ByCrawlsIn, CountedIn, RecentIn, OpenRows
  <2>5. ASSUME NEW u \in Urls \ OfBoard' PROVE ~rows'[u].byCrawl
    <3>0. rows[u] \in BoardRow
      BY <1>0
    <3>1. rows'[u].owner = rows[u].owner
      BY <2>1, <3>0 DEF AfterWrite, BoardRow
    <3>2. u \notin OfBoard
      BY <3>1 DEF OfBoard
    <3>3. u \notin crawler[w].closing
      BY <2>3, <3>2
    <3>4. rows'[u].byCrawl = rows[u].byCrawl
      BY <2>1, <3>0, <3>3 DEF AfterWrite, BoardRow
    <3> QED
      BY <3>2, <3>4 DEF ShareInv
  <2> QED
    BY <2>2, <2>4, <2>5 DEF ShareInv
<1>3. ASSUME ~ReadPresence(w), ~WritePresence(w) PROVE ShareInv'
  <2>1. crawler'[w].pc # "writing"
    <3>0. crawler[w] \in CrawlerState /\ IdleCrawler.pc = "idle"
      BY <1>0 DEF IdleCrawler
    <3>1. CASE StartCrawl(w)
      BY <1>0, <3>1 DEF StartCrawl, IdleCrawler
    <3>2. CASE ListBoard(w)
      BY <1>0, <3>0, <3>2 DEF ListBoard, CrawlerState
    <3>3. CASE Register(w)
      BY <1>0, <3>0, <3>3 DEF Register, CrawlerState
    <3>4. CASE RegisterConflict(w)
      BY <1>0, <3>0, <3>4 DEF RegisterConflict, CrawlerState
    <3>5. CASE ListingFails(w) \/ RecordingFails(w) \/ CrawlDies(w)
      BY <1>0, <3>0, <3>5 DEF ListingFails, RecordingFails, CrawlDies
    <3> QED
      BY <1>3, <3>1, <3>2, <3>3, <3>4, <3>5 DEF CrawlStep
  <2>2. \A v \in Crawlers : crawler'[v].pc # "writing"
    BY <2>1 DEF OneCrawl
  <2>3. ASSUME NEW u \in Urls
        PROVE  \/ rows'[u] = rows[u]
               \/ rows[u].owner = "nobody" /\ rows'[u].owner = "board" /\ ~rows'[u].byCrawl
    <3>1. CASE Register(w)
      <4>1. CASE u \in crawler[w].new
        BY <3>1, <4>1 DEF Register, Known, NewBoardRow
      <4>2. CASE u \notin crawler[w].new
        BY <3>1, <4>2 DEF Register
      <4>3. crawler[w].new \cap Known = {}
        BY <3>1 DEF Register
      <4> QED
        BY <4>1, <4>2
    <3>2. CASE UNCHANGED rows
      BY <3>2
    <3> QED
      BY <1>3, <3>1, <3>2 DEF CrawlStep, StartCrawl, ListingFails, ListBoard, RegisterConflict,
         RecordingFails, CrawlDies
  <2>4. \A u \in Urls : Benign(rows[u], rows'[u])
    <3> SUFFICES ASSUME NEW u \in Urls PROVE Benign(rows[u], rows'[u])
      OBVIOUS
    <3> QED
      BY <2>3 DEF Benign
  <2>5. ShareLasts(rows')
    BY <2>4, BenignLasts DEF ShareInv
  <2>6. ShareLasts(rows)'
    BY <2>5 DEF ShareLasts, LimitIn, ByCrawlsIn, CountedIn, RecentIn, OpenRows
  <2>7. \A u \in Urls \ OfBoard' : ~rows'[u].byCrawl
    BY <2>3 DEF ShareInv, OfBoard
  <2> QED
    BY <2>2, <2>6, <2>7 DEF ShareInv
<1> QED
  BY <1>1, <1>2, <1>3

LEMMA ShareBegins == Init => ShareInv
<1> SUFFICES ASSUME Init PROVE ShareInv
  OBVIOUS
<1>1. \A u \in Urls : rows[u].owner = "nobody" /\ ~rows[u].byCrawl
  BY DEF Init, NewBoardRow
<1>2. \A w \in Crawlers : crawler[w].pc = "idle"
  BY DEF Init, IdleCrawler
<1>3. ShareLasts(rows)
  <2>1. \A k : ByCrawlsIn(rows, k) = {}
    BY <1>1 DEF ByCrawlsIn, RecentIn
  <2> QED
    BY <2>1, CountedTyped, FS_EmptySet DEF ShareLasts
<1> QED
  BY <1>1, <1>2, <1>3 DEF ShareInv

LEMMA ShareStep == OneCrawl /\ TypeInv /\ ShareInv /\ [Next]_vars => ShareInv'
<1> SUFFICES ASSUME OneCrawl, TypeInv, ShareInv, [Next]_vars PROVE ShareInv'
  OBVIOUS
<1>1. ASSUME NEW w \in Crawlers, CrawlStep(w) PROVE ShareInv'
  BY <1>1, CrawlKeepsShare
<1>2. ASSUME NEW u \in Urls, UrlStep(u) PROVE ShareInv'
  BY <1>2, UrlKeepsShare
<1>3. CASE Tick
  BY <1>3, TickKeepsShare
<1>4. CASE UNCHANGED <<rows, crawler>>
  <2>1. rows' = rows /\ crawler' = crawler /\ OfBoard' = OfBoard
    BY <1>4 DEF OfBoard
  <2>2. ASSUME NEW w \in Crawlers, crawler[w].pc = "writing"
        PROVE  crawler[w].closing \subseteq OfBoard /\ ShareLasts(AfterWrite(w))'
    <3> DEFINE s == AfterWrite(w)'
    <3>1. s = AfterWrite(w)
      BY <2>1 DEF AfterWrite
    <3>2. ShareLasts(AfterWrite(w)) /\ crawler[w].closing \subseteq OfBoard
      BY <2>2 DEF ShareInv
    <3> HIDE DEF s
    <3>3. ShareLasts(AfterWrite(w))' <=> ShareLasts(s)
      BY DEF s, ShareLasts, LimitIn, ByCrawlsIn, CountedIn, RecentIn, OpenRows
    <3> QED
      BY <3>1, <3>2, <3>3
  <2>3. ShareLasts(rows)'
    <3>1. ShareLasts(rows')
      BY <2>1 DEF ShareInv
    <3> QED
      BY <3>1 DEF ShareLasts, LimitIn, ByCrawlsIn, CountedIn, RecentIn, OpenRows
  <2> QED
    BY <2>1, <2>2, <2>3 DEF ShareInv
<1> QED
  BY <1>1, <1>2, <1>3, <1>4 DEF Next, vars, CrawlStep, UrlStep, PickDue, Dispatch, DispatcherDies,
     TriggerCrawl

\* As long as crawls of a board do not overlap, they never close more of it
\* within the window than its daily share, whatever their listings say and
\* whatever scans, users and other sources do to its rows meanwhile.
THEOREM ShareKeptByOne == OneCrawl => (Spec => []DailyShareKept)
<1> SUFFICES ASSUME OneCrawl PROVE Spec => []DailyShareKept
  OBVIOUS
<1>1. ShareInv => DailyShareKept
  <2>1. 0 \in 0 .. Window - 1
    BY Ranges
  <2>2. ClosedRecently(rows) = RecentIn(rows, 0)
    BY Ranges DEF ClosedRecently, RecentIn
  <2>3. DailyLimit(rows) = LimitIn(rows, 0)
    BY <2>2 DEF DailyLimit, Share, LimitIn, CountedIn
  <2> QED
    BY <2>1, <2>2, <2>3 DEF ShareInv, ShareLasts, ByCrawlsIn, DailyShareKept
<1> QED
  BY <1>1, ShareBegins, ShareStep, TypeInvHolds, PTL DEF Spec

-----------------------------------------------------------------------------
\* PostingScan: the scan of a posting by its chain of scanners.

Kepts == {"none", "job", "bare", "notice"}

AScan == [chain : Chains, scanner : Nat, step : Nat, kept : Kepts, verdict : Verdicts,
          answer : Answers \union {"none"}]

\* The scan is at a look of a scanner of its chain.
AtALook ==
    /\ scan \in AScan
    /\ scan.scanner \in 1 .. Len(scan.chain) /\ scan.step \in 1 .. Len(scan.chain[scan.scanner])

\* What is closed as expired while it is up: a page kept is as old as the
\* posting, which does not come back.
ScanInv ==
    /\ posted \in BOOLEAN /\ listing \in {"none", "with", "without"} /\ gets \in 0 .. 1
    /\ AtALook
    /\ scan.kept = "none" => gets = 0
    /\ posted => scan.kept # "notice"
    /\ ExpiredIsDown

LEMMA ChainsFit ==
    /\ \A chain \in Chains :
          /\ Len(chain) \in Nat \ {0}
          /\ \A i \in 1 .. Len(chain) : chain[i] \in Scans \union {Generic}
          /\ chain[Len(chain)] = Generic
    /\ \A looks \in Scans \union {Generic} :
          /\ Len(looks) \in Nat \ {0}
          /\ \A i \in 1 .. Len(looks) : looks[i] \in ALook /\ looks[i].job # "expired"
          /\ \A a \in Answers : looks[Len(looks)][a] # "next"
<1>1. ASSUME NEW chain \in Chains
      PROVE  /\ Len(chain) \in Nat \ {0}
             /\ \A i \in 1 .. Len(chain) : chain[i] \in Scans \union {Generic}
             /\ chain[Len(chain)] = Generic
  <2>1. CASE \E s \in Scans : chain = <<s, Generic>>
    BY <2>1
  <2>2. CASE \E s \in Scans, t \in Scans : chain = <<s, t, Generic>>
    BY <2>2
  <2> QED
    BY <2>1, <2>2 DEF Chains
<1>2. ASSUME NEW looks \in Scans \union {Generic}
      PROVE  /\ Len(looks) \in Nat \ {0}
             /\ \A i \in 1 .. Len(looks) : looks[i] \in ALook /\ looks[i].job # "expired"
             /\ \A a \in Answers : looks[Len(looks)][a] # "next"
  <2>1. looks \in Seq(ALook) /\ looks # <<>>
    BY PostingScanAssumption
  <2> QED
    BY <2>1, PostingScanAssumption
<1> QED
  BY <1>1, <1>2

LEMMA LookFits ==
    ASSUME AtALook
    PROVE  /\ Look \in ALook /\ Look.job # "expired"
           /\ \A a \in Answers : Look[a] \in Made
           /\ \A a \in Answers : Look[a] = "next" => scan.step + 1 \in 1 .. Len(scan.chain[scan.scanner])
           /\ \A a \in Answers : Look[a] = "handed on" =>
                 scan.scanner + 1 \in 1 .. Len(scan.chain) /\ 1 \in 1 .. Len(scan.chain[scan.scanner + 1])
<1> DEFINE chain == scan.chain
           looks == chain[scan.scanner]
<1>1. chain \in Chains /\ scan.scanner \in 1 .. Len(chain) /\ scan.step \in 1 .. Len(looks)
  BY DEF AtALook, AScan
<1>2. looks \in Scans \union {Generic} /\ Look = looks[scan.step]
  BY <1>1, ChainsFit DEF Look
<1> HIDE DEF looks, chain
<1>3. Look \in ALook /\ Look.job # "expired"
  BY <1>1, <1>2, ChainsFit
<1>4. \A a \in Answers : Look[a] \in Made
  BY <1>3 DEF ALook, Answers
<1>5. \A a \in Answers : Look[a] = "next" => scan.step + 1 \in 1 .. Len(looks)
  BY <1>1, <1>2, ChainsFit
<1>6. ASSUME NEW a \in Answers, Look[a] = "handed on"
      PROVE  scan.scanner + 1 \in 1 .. Len(chain) /\ 1 \in 1 .. Len(chain[scan.scanner + 1])
  <2>1. looks # Generic
    BY <1>1, <1>2, <1>6, PostingScanAssumption DEF HandsOn
  <2>2. scan.scanner # Len(chain) /\ Len(chain) \in Nat
    BY <1>1, <2>1, ChainsFit DEF looks
  <2>3. scan.scanner + 1 \in 1 .. Len(chain)
    BY <1>1, <2>2
  <2> QED
    BY <1>1, <2>3, ChainsFit
<1> QED
  BY <1>3, <1>4, <1>5, <1>6 DEF looks, chain

LEMMA DecideLeaves ==
    ASSUME AtALook, NEW answer \in Answers, NEW kept \in Kepts, Decide(answer, kept)
    PROVE  /\ AtALook' /\ scan'.kept = kept
           /\ scan'.verdict = "expired" =>
                 \/ scan'.step = scan.step /\ scan'.scanner = scan.scanner /\ scan'.chain = scan.chain
                    /\ scan'.answer = answer
                    /\ \/ Look[answer] = "expired"
                       \/ answer = "gone"
                 \/ scan.verdict = "expired"
<1> DEFINE outcome == MarkGone(Look.by, answer, Look[answer])
           read == [scan EXCEPT !.kept = kept]
<1>1. scan \in AScan /\ scan.chain \in Chains /\ scan.scanner \in Nat /\ scan.step \in Nat
      /\ scan.scanner \in 1 .. Len(scan.chain) /\ scan.step \in 1 .. Len(scan.chain[scan.scanner])
  BY DEF AtALook, AScan
<1>2. /\ read \in AScan /\ read.kept = kept /\ read.chain = scan.chain /\ read.scanner = scan.scanner
      /\ read.step = scan.step /\ read.verdict = scan.verdict
  BY <1>1 DEF AScan
<1>3. /\ outcome \in Made /\ outcome = "next" => Look[answer] = "next"
  BY LookFits DEF MarkGone, Made
<1>4. /\ outcome = "next" => Look[answer] = "next"
      /\ outcome = "handed on" => Look[answer] = "handed on"
      /\ outcome = "expired" => Look[answer] = "expired" \/ answer = "gone"
      /\ outcome \in Made
  BY LookFits DEF MarkGone, Made
<1>5. scan' = CASE outcome = "next" -> [read EXCEPT !.step = @ + 1]
                [] outcome = "handed on" -> [read EXCEPT !.scanner = @ + 1, !.step = 1]
                [] OTHER -> [read EXCEPT !.verdict = outcome, !.answer = answer]
  BY DEF Decide
<1> HIDE DEF outcome, read
<1>6. CASE outcome = "next"
  <2>1. scan' = [read EXCEPT !.step = read.step + 1]
    BY <1>5, <1>6
  <2>2. /\ scan' \in AScan /\ scan'.chain = scan.chain /\ scan'.scanner = scan.scanner /\ scan'.kept = kept
        /\ scan'.step = scan.step + 1 /\ scan'.verdict = scan.verdict
    BY <1>1, <1>2, <2>1 DEF AScan
  <2>3. scan.step + 1 \in 1 .. Len(scan.chain[scan.scanner])
    BY <1>4, <1>6, LookFits
  <2> QED
    BY <1>1, <2>2, <2>3 DEF AtALook
<1>7. CASE outcome = "handed on"
  <2> PICK scanner \in Nat, first \in Nat : scanner = scan.scanner + 1 /\ first = 1
    BY <1>1
  <2>1. scan' = [read EXCEPT !.scanner = scanner, !.step = first]
    BY <1>2, <1>5, <1>7
  <2>2. /\ scan' \in AScan /\ scan'.chain = scan.chain /\ scan'.scanner = scanner /\ scan'.kept = kept
        /\ scan'.step = first /\ scan'.verdict = scan.verdict
    BY <1>1, <1>2, <2>1 DEF AScan
  <2>3. scan.scanner + 1 \in 1 .. Len(scan.chain) /\ 1 \in 1 .. Len(scan.chain[scan.scanner + 1])
    BY <1>4, <1>7, LookFits
  <2> QED
    BY <1>1, <2>2, <2>3 DEF AtALook
<1>8. CASE outcome \notin {"next", "handed on"}
  <2>1. scan' = [read EXCEPT !.verdict = outcome, !.answer = answer]
    BY <1>5, <1>8
  <2>2. outcome \in Verdicts
    BY <1>4, <1>8 DEF Made, Verdicts
  <2>3. /\ scan' \in AScan /\ scan'.chain = scan.chain /\ scan'.scanner = scan.scanner /\ scan'.kept = kept
        /\ scan'.step = scan.step /\ scan'.verdict = outcome /\ scan'.answer = answer
    BY <1>1, <1>2, <2>1, <2>2 DEF AScan
  <2> QED
    BY <1>1, <1>4, <2>3 DEF AtALook
<1> QED
  BY <1>6, <1>7, <1>8

LEMMA BeginsAtALook ==
    ASSUME NEW chain \in Chains, scan' = Start(chain)
    PROVE  AtALook' /\ scan'.kept = "none" /\ scan'.verdict = "none"
<1>1. /\ scan' \in AScan /\ scan'.chain = chain /\ scan'.scanner = 1 /\ scan'.step = 1
      /\ scan'.kept = "none" /\ scan'.verdict = "none"
  BY DEF Start, AScan, Kepts, Verdicts
<1>2. Len(chain) \in Nat \ {0} /\ Len(chain[1]) \in Nat \ {0}
  BY ChainsFit
<1> QED
  BY <1>1, <1>2 DEF AtALook

LEMMA ScanBegins == ScanInit => ScanInv
<1> SUFFICES ASSUME ScanInit PROVE ScanInv
  OBVIOUS
<1>1. PICK chain \in Chains : scan = Start(chain)
  BY DEF ScanInit
<1>2. /\ scan \in AScan /\ scan.chain = chain /\ scan.scanner = 1 /\ scan.step = 1
      /\ scan.kept = "none" /\ scan.verdict = "none"
  BY <1>1 DEF Start, AScan, Kepts, Verdicts
<1>3. Len(chain) \in Nat \ {0} /\ Len(chain[1]) \in Nat \ {0}
  BY ChainsFit
<1> QED
  BY <1>2, <1>3 DEF ScanInit, ScanInv, AtALook, ExpiredIsDown

\* A look of a scan under way, at whatever the site, the page kept or the
\* listing answers.
LEMMA LookKeeps ==
    ASSUME ScanInv, Scanning, NEW answer \in Answers, NEW kept \in Kepts, Decide(answer, kept),
           UNCHANGED posted, listing' \in {"none", "with", "without"}, gets' \in 0 .. 1,
           kept = "none" => gets' = 0, posted => kept # "notice",
           posted => answer \in {"job", "bare", "trouble"} \/ Look.by = "list"
    PROVE  ScanInv'
<1>1. AtALook /\ scan.verdict = "none"
  BY DEF ScanInv, Scanning
<1>2. /\ AtALook' /\ scan'.kept = kept
      /\ scan'.verdict = "expired" =>
            /\ scan'.step = scan.step /\ scan'.scanner = scan.scanner /\ scan'.chain = scan.chain
            /\ scan'.answer = answer /\ (Look[answer] = "expired" \/ answer = "gone")
  BY <1>1, DecideLeaves
<1>3. Look.job # "expired"
  BY <1>1, LookFits
<1>4. ExpiredIsDown'
  <2> SUFFICES ASSUME scan'.verdict = "expired", posted
               PROVE  Look'.by = "list" \/ (scan'.answer \in {"bare", "trouble"} /\ Look'[scan'.answer] = "expired")
    BY DEF ExpiredIsDown
  <2>1. Look' = Look /\ scan'.answer = answer
    BY <1>2 DEF Look
  <2>2. answer = "job" => Look[answer] # "expired"
    BY <1>3
  <2> QED
    BY <1>2, <2>1, <2>2
<1> QED
  BY <1>2, <1>4 DEF ScanInv

LEMMA ScanStep == ScanInv /\ [ScanNext]_scanVars => ScanInv'
<1> SUFFICES ASSUME ScanInv, [ScanNext]_scanVars PROVE ScanInv'
  OBVIOUS
<1>1. /\ posted \in BOOLEAN /\ listing \in {"none", "with", "without"} /\ gets \in 0 .. 1 /\ AtALook
      /\ scan.kept \in Kepts /\ scan.chain \in Chains
      /\ scan.kept = "none" => gets = 0
      /\ posted => scan.kept # "notice"
  BY DEF ScanInv, AtALook, AScan
<1>2. /\ posted => SiteAnswers \subseteq {"job", "bare", "trouble"} /\ RenderedAnswers \subseteq {"job", "bare", "trouble"}
      /\ SiteAnswers \subseteq Answers /\ RenderedAnswers \subseteq Answers \ {"gone"}
  BY DEF SiteAnswers, RenderedAnswers, Answers
<1>3. CASE ReadKeptPage
  <2>1. scan.kept \in Answers
    BY <1>1, <1>3 DEF ReadKeptPage, Kepts, Answers
  <2>2. posted => scan.kept \in {"job", "bare", "trouble"}
    BY <1>1, <1>3 DEF ReadKeptPage, Kepts
  <2> QED
    BY <1>1, <1>3, <2>1, <2>2, LookKeeps DEF ReadKeptPage, LooksBy
<1>4. CASE FetchPage
  <2> PICK answer \in SiteAnswers \ {"trouble"} :
          /\ Decide(answer, IF answer = "gone" THEN "none" ELSE answer)
          /\ gets' = IF answer = "gone" THEN gets ELSE gets + 1
    BY <1>4 DEF FetchPage
  <2> DEFINE kept == IF answer = "gone" THEN "none" ELSE answer
  <2>1. Scanning /\ scan.kept = "none" /\ UNCHANGED <<posted, listing>> /\ gets = 0
    BY <1>1, <1>4 DEF FetchPage, LooksBy
  <2>2. answer \in Answers /\ (posted => answer \in {"job", "bare", "trouble"})
    BY <1>2
  <2>3. kept \in Kepts /\ (posted => kept # "notice") /\ gets' \in 0 .. 1 /\ (kept = "none" => gets' = 0)
    BY <2>1, <2>2 DEF Kepts, Answers
  <2>4. Decide(answer, kept)
    OBVIOUS
  <2> HIDE DEF kept
  <2> QED
    BY <1>1, <2>1, <2>2, <2>3, <2>4, LookKeeps
<1>5. CASE FetchPageRendered
  <2> PICK answer \in RenderedAnswers :
          /\ Decide(answer, IF answer = "trouble" THEN "none" ELSE answer)
          /\ gets' = IF answer = "trouble" THEN gets ELSE gets + 1
    BY <1>5 DEF FetchPageRendered
  <2> DEFINE kept == IF answer = "trouble" THEN "none" ELSE answer
  <2>1. Scanning /\ scan.kept = "none" /\ UNCHANGED <<posted, listing>> /\ gets = 0
    BY <1>1, <1>5 DEF FetchPageRendered, LooksBy
  <2>2. answer \in Answers \ {"gone"} /\ (posted => answer \in {"job", "bare", "trouble"})
    BY <1>2
  <2>3. kept \in Kepts /\ (posted => kept # "notice") /\ gets' \in 0 .. 1 /\ (kept = "none" => gets' = 0)
    BY <2>1, <2>2 DEF Kepts, Answers
  <2>4. Decide(answer, kept)
    OBVIOUS
  <2> HIDE DEF kept
  <2> QED
    BY <1>1, <2>1, <2>2, <2>3, <2>4, LookKeeps
<1>6. CASE AskOwn
  <2> PICK answer \in SiteAnswers : Decide(answer, scan.kept)
    BY <1>6 DEF AskOwn
  <2> QED
    BY <1>1, <1>2, <1>6, LookKeeps DEF AskOwn, LooksBy
<1>7. CASE Render
  <2> PICK answer \in RenderedAnswers : Decide(answer, scan.kept)
    BY <1>7 DEF Render
  <2> QED
    BY <1>1, <1>2, <1>7, LookKeeps DEF Render, LooksBy
<1>8. CASE ReadListing
  <2> PICK answer \in {"job", "notice"} : Decide(answer, scan.kept)
    BY <1>8 DEF ReadListing
  <2>1. answer \in Answers
    BY DEF Answers
  <2> QED
    BY <1>1, <1>8, <2>1, LookKeeps DEF ReadListing, LooksBy
<1>9. CASE FetchListing
  <2> PICK answer \in {"job", "notice", "trouble"} : Decide(answer, scan.kept)
    BY <1>9 DEF FetchListing
  <2>1. answer \in Answers /\ listing' \in {"none", "with", "without"}
    BY <1>1, <1>9 DEF Answers, FetchListing
  <2> QED
    BY <1>1, <1>9, <2>1, LookKeeps DEF FetchListing, LooksBy
<1>10. CASE ScanAgain
  <2>1. scan' = Start(scan.chain) /\ gets' = 0 /\ UNCHANGED <<posted, listing>>
    BY <1>10 DEF ScanAgain
  <2>2. AtALook' /\ scan'.kept = "none" /\ scan'.verdict = "none"
    BY <1>1, <2>1, BeginsAtALook
  <2> QED
    BY <1>1, <2>1, <2>2 DEF ScanInv, ExpiredIsDown
<1>11. CASE ListingExpires
  BY <1>11 DEF ListingExpires, ScanInv, AtALook, ExpiredIsDown, Look
<1>12. CASE TakenDown
  BY <1>12 DEF TakenDown, ScanInv, AtALook, ExpiredIsDown, Look
<1>13. CASE UNCHANGED scanVars
  BY <1>13 DEF scanVars, ScanInv, AtALook, ExpiredIsDown, Look
<1> QED
  BY <1>3, <1>4, <1>5, <1>6, <1>7, <1>8, <1>9, <1>10, <1>11, <1>12, <1>13 DEF ScanNext

LEMMA ScanAlways == ScanSpec => []ScanInv
<1> QED
  BY ScanBegins, ScanStep, PTL DEF ScanSpec

\* The scan stays at a look of its chain, and fetches no page twice that came:
\* scan_page_cache.
THEOREM ScansFit == ScanSpec => []ScanTypeOK
<1>1. ScanInv => ScanTypeOK
  BY DEF ScanInv, AtALook, AScan, ScanTypeOK, Kepts
<1> QED
  BY <1>1, ScanAlways, PTL

\* What a scan closes as expired is down: for every set of scanners that end
\* as PostingScanAssumption says, however they hand a posting on and whenever
\* it is taken down (scan_job_url, _mark_gone, scan_page_cache).
THEOREM ClosedIsDown == ScanSpec => []ExpiredIsDown
<1>1. ScanInv => ExpiredIsDown
  BY DEF ScanInv
<1> QED
  BY <1>1, ScanAlways, PTL

-----------------------------------------------------------------------------
\* StaticPages: the published job pages.

\* What may be at a path, and a run, by their types.
Pages == {Nothing, Gone} \union [is : {"job"}, content : Contents, closed : Stamps]
            \union [is : {"forward"}, to : Contents]

Runs == [phase : Phases, index : [scan : Stamps, closed : Stamps], entry : Entry \union {NoEntry},
         path : Paths, live : BOOLEAN, forced : BOOLEAN, room : BOOLEAN, planned : BOOLEAN,
         dirty : SUBSET Paths]

Rows == [status : {"absent", "hidden", "live", "deleted"}, content : Contents \union {"none"},
         scan : Stamps, closed : Stamps]

\* The page an entry's hash is of.
Shown(hash) == [is |-> "job", content |-> hash[1], closed |-> hash[2]]

Up(p) == site[p] # Nothing

StampsPast ==
    /\ job.scan <= stamp /\ job.closed <= stamp
    /\ pagesRun.index.scan <= stamp /\ pagesRun.index.closed <= stamp
    /\ saved # NoEntry => saved.scan <= stamp /\ saved.closed <= stamp /\ saved.hash[2] <= stamp
    /\ pagesRun.entry # NoEntry =>
          pagesRun.entry.scan <= stamp /\ pagesRun.entry.closed <= stamp /\ pagesRun.entry.hash[2] <= stamp

RowFound == job.status # "absent" => job.content \in Contents

\* An entry's page is there, and is right for as long as the row is the one
\* that was scanned, and open or closed as it was.
Right(e) ==
    /\ site[e.path] = Shown(e.hash)
    /\ e.scan = job.scan /\ (e.closed = 0 \/ e.closed = job.closed) => e.hash = <<job.content, e.closed>>

\* Where the run has not written, the saved manifest has every page.
SavedFits ==
    \A p \in Paths : p \notin unsure \union pagesRun.dirty =>
        /\ site[p].is = "job" => saved # NoEntry /\ saved.path = p
        /\ saved # NoEntry /\ saved.path = p => Right(saved)

\* What the run will save has every page, but the one it is to forward.
EntryFits ==
    pagesRun.phase \in {"save", "forward"} =>
        \A p \in Paths : p \notin unsure =>
            /\ site[p].is = "job" => \/ pagesRun.entry # NoEntry /\ pagesRun.entry.path = p
                                     \/ pagesRun.phase = "forward" /\ p = Legacy
            /\ pagesRun.entry # NoEntry /\ pagesRun.entry.path = p => Right(pagesRun.entry)

RunKnows ==
    /\ pagesRun.phase \notin {"save", "forward"} => pagesRun.dirty = {}
    /\ pagesRun.phase \in {"new", "move", "check", "remove"} => pagesRun.entry = saved
    /\ pagesRun.phase = "new" => saved = NoEntry
    /\ pagesRun.phase = "move" => saved # NoEntry /\ saved.path = Legacy /\ pagesRun.path \in Contents
    /\ pagesRun.phase = "forward" => /\ pagesRun.path \in Contents /\ site[pagesRun.path].is = "job"
                                     /\ pagesRun.entry # NoEntry /\ pagesRun.entry.path = pagesRun.path
    /\ pagesRun.phase = "check" => saved # NoEntry /\ saved.path = pagesRun.path
    /\ pagesRun.phase = "remove" => saved # NoEntry

\* A closing since the run's index is later than any page the manifest knows.
ClosedSince ==
    pagesRun.phase = "check" /\ pagesRun.index.closed = 0 /\ job.closed # 0 => saved.hash[2] < job.closed

ForwardsLand ==
    \A p \in Paths : site[p].is = "forward" =>
        p = Legacy /\ site[p].to \in Contents /\ site[site[p].to].is \in {"job", "gone"}

EntriesUp ==
    /\ saved # NoEntry => Up(saved.path)
    /\ pagesRun.entry # NoEntry => Up(pagesRun.entry.path)
    /\ \A p \in sitemap : Up(p)

\* What links to a path knows it is up, or accounted for.
LinksHold ==
    /\ pagesRun.live /\ pagesRun.phase \notin {"idle", "new", "move"} =>
          Up(pagesRun.path) \/ pagesRun.path \in unpublished
    /\ \A p \in lists.links : Up(p) \/ p \in unpublished
    /\ \A p \in linked : Up(p) \/ p \in unpublished \/ p \in Promised

PagesInv ==
    /\ PagesTypeOK /\ StampsPast /\ RowFound /\ SavedFits /\ EntryFits /\ RunKnows /\ ClosedSince
    /\ ForwardsLand /\ EntriesUp /\ LinksHold

-----------------------------------------------------------------------------
LEMMA PageBasics ==
    /\ Legacy \notin Contents /\ Legacy \in Paths /\ Contents \subseteq Paths
    /\ Stamps \subseteq Nat /\ 0 \in Stamps /\ 1 \in Stamps
    /\ NoEntry \notin Entry
    /\ Nothing \in Pages /\ Gone \in Pages /\ Nothing.is = "nothing" /\ Gone.is = "gone" /\ Gone # Nothing
    /\ \A g \in Pages : g = Nothing <=> g.is = "nothing"
    /\ \A g \in Pages : g.is = "forward" => g.to \in Contents
    /\ \A c \in Contents : Forward(c) \in Pages /\ Forward(c).is = "forward" /\ Forward(c).to = c
    /\ \A h \in Contents \X Stamps : Shown(h) \in Pages /\ Shown(h).is = "job" /\ Shown(h) # Nothing
    /\ \A r \in Rows : JobPage(r) = Shown(ContentHash(r)) /\ ContentHash(r) = <<r.content, r.closed>>
    /\ IdleRun \in Runs /\ IdleRun.phase = "idle" /\ IdleRun.index.scan = 0 /\ IdleRun.index.closed = 0
    /\ IdleRun.entry = NoEntry /\ IdleRun.dirty = {}
<1>1. /\ Legacy \notin Contents /\ Legacy \in Paths /\ Contents \subseteq Paths
      /\ Stamps \subseteq Nat /\ 0 \in Stamps /\ 1 \in Stamps
  BY StaticPagesAssumption DEF Paths, Stamps
<1>2. NoEntry \notin Entry
  <2>1. \A e \in Entry : e.scan \in Stamps /\ DOMAIN e = {"path", "scan", "closed", "hash"}
    BY DEF Entry
  <2>2. DOMAIN NoEntry = {"path"}
    BY DEF NoEntry
  <2> QED
    BY <2>1, <2>2
<1>3. /\ Nothing \in Pages /\ Gone \in Pages /\ Nothing.is = "nothing" /\ Gone.is = "gone" /\ Gone # Nothing
      /\ \A g \in Pages : g = Nothing <=> g.is = "nothing"
      /\ \A g \in Pages : g.is = "forward" => g.to \in Contents
  BY DEF Pages, Nothing, Gone
<1>4. \A c \in Contents : Forward(c) \in Pages /\ Forward(c).is = "forward" /\ Forward(c).to = c
  BY DEF Forward, Pages
<1>5. \A h \in Contents \X Stamps : Shown(h) \in Pages /\ Shown(h).is = "job" /\ Shown(h) # Nothing
  BY DEF Shown, Pages, Nothing
<1>6. \A r \in Rows : JobPage(r) = Shown(ContentHash(r)) /\ ContentHash(r) = <<r.content, r.closed>>
  BY DEF JobPage, Shown, ContentHash
<1>7. /\ IdleRun \in Runs /\ IdleRun.phase = "idle" /\ IdleRun.index.scan = 0 /\ IdleRun.index.closed = 0
      /\ IdleRun.entry = NoEntry /\ IdleRun.dirty = {}
  <2> DEFINE no == FALSE
             index == [scan |-> 0, closed |-> 0]
  <2>1. no \in BOOLEAN
    OBVIOUS
  <2>2. index \in [scan : Stamps, closed : Stamps] /\ index.scan = 0 /\ index.closed = 0
    BY <1>1
  <2>3. IdleRun = [phase |-> "idle", index |-> index, entry |-> NoEntry, path |-> Legacy, live |-> no,
                   forced |-> no, room |-> no, planned |-> no, dirty |-> {}]
    BY DEF IdleRun, NotListed
  <2> HIDE DEF no, index
  <2> QED
    BY <1>1, <2>1, <2>2, <2>3 DEF Runs, Phases
<1> QED
  BY <1>1, <1>2, <1>3, <1>4, <1>5, <1>6, <1>7

LEMMA PageTypes ==
    ASSUME PagesTypeOK
    PROVE  /\ stamp \in Stamps /\ job \in Rows /\ site \in [Paths -> Pages] /\ saved \in Entry \union {NoEntry}
           /\ pagesRun \in Runs /\ lists.links \subseteq Paths /\ sitemap \subseteq Paths /\ linked \subseteq Paths
           /\ unpublished \subseteq Paths /\ unsure \subseteq Paths
           /\ job.content \in Contents \union {"none"} /\ job.scan \in Nat /\ job.closed \in Nat /\ stamp \in Nat
           /\ job.closed \in Stamps /\ job.scan \in Stamps
           /\ pagesRun.phase \in Phases /\ pagesRun.index.scan \in Stamps /\ pagesRun.index.closed \in Stamps
           /\ pagesRun.entry \in Entry \union {NoEntry} /\ pagesRun.path \in Paths /\ pagesRun.dirty \subseteq Paths
           /\ pagesRun.live \in BOOLEAN
           /\ \A e \in Entry : /\ e.path \in Paths /\ e.scan \in Stamps /\ e.closed \in Stamps
                               /\ e.hash \in Contents \X Stamps /\ e.hash[2] \in Nat /\ e.hash[1] \in Contents
                               /\ e.scan \in Nat /\ e.closed \in Nat
<1>1. /\ stamp \in Stamps /\ job \in Rows /\ site \in [Paths -> Pages] /\ saved \in Entry \union {NoEntry}
      /\ pagesRun \in Runs /\ lists.links \subseteq Paths /\ sitemap \subseteq Paths /\ linked \subseteq Paths
      /\ unpublished \subseteq Paths /\ unsure \subseteq Paths
  BY DEF PagesTypeOK, Rows, Pages, Runs
<1>2. /\ job.content \in Contents \union {"none"} /\ job.scan \in Stamps /\ job.closed \in Stamps
  BY <1>1 DEF Rows
<1>3. /\ pagesRun.phase \in Phases /\ pagesRun.index \in [scan : Stamps, closed : Stamps]
      /\ pagesRun.entry \in Entry \union {NoEntry} /\ pagesRun.path \in Paths /\ pagesRun.dirty \subseteq Paths
      /\ pagesRun.live \in BOOLEAN
  BY <1>1 DEF Runs
<1>4. \A e \in Entry : /\ e.path \in Paths /\ e.scan \in Stamps /\ e.closed \in Stamps
                       /\ e.hash \in Contents \X Stamps
  BY DEF Entry
<1>5. \A h \in Contents \X Stamps : h[1] \in Contents /\ h[2] \in Stamps
  OBVIOUS
<1>6. Stamps \subseteq Nat
  BY PageBasics
<1> QED
  BY <1>1, <1>2, <1>3, <1>4, <1>5, <1>6

LEMMA PagesFit ==
    ASSUME stamp' \in Stamps, job' \in Rows, site' \in [Paths -> Pages], saved' \in Entry \union {NoEntry},
           pagesRun' \in Runs, lists' \in [links : SUBSET Paths, listed : BOOLEAN],
           sitemap' \subseteq Paths, linked' \subseteq Paths, unpublished' \subseteq Paths, unsure' \subseteq Paths
    PROVE  PagesTypeOK'
<1> QED
  BY DEF PagesTypeOK, Rows, Pages, Runs

LEMMA PagesBegin == PagesInit => PagesInv
<1> SUFFICES ASSUME PagesInit PROVE PagesInv
  OBVIOUS
<1>1. job \in Rows /\ job.scan = 1 /\ job.closed = 0 /\ stamp = 1 /\ stamp \in Stamps
      /\ (job.status = "absent" \/ (job.status = "live" /\ job.content \in Contents))
  <2>1. /\ job \in [status : {"absent"}, content : {"none"}, scan : {1}, closed : {0}]
                    \union [status : {"live"}, content : Contents, scan : {1}, closed : {0}]
        /\ stamp = 1
    BY DEF PagesInit
  <2> QED
    BY <2>1, PageBasics DEF Rows
<1> DEFINE old == job.status = "live"
           entry == [path |-> Legacy, scan |-> 1, closed |-> 0, hash |-> ContentHash(job)]
<1>2. /\ pagesRun = IdleRun /\ lists = [links |-> {}, listed |-> FALSE]
      /\ sitemap = {} /\ unpublished = {} /\ unsure = {}
      /\ saved = (IF old THEN entry ELSE NoEntry) /\ linked = (IF old THEN {Legacy} ELSE {})
      /\ site = [p \in Paths |-> IF old /\ p = Legacy THEN JobPage(job) ELSE Nothing]
  BY DEF PagesInit
<1>3. /\ pagesRun \in Runs /\ pagesRun.phase = "idle" /\ pagesRun.index.scan = 0 /\ pagesRun.index.closed = 0
      /\ pagesRun.entry = NoEntry /\ pagesRun.dirty = {}
  BY <1>2, PageBasics
<1>4. JobPage(job) = Shown(<<job.content, 0>>) /\ ContentHash(job) = <<job.content, 0>>
  BY <1>1, PageBasics
<1>5. old => <<job.content, 0>> \in Contents \X Stamps
  BY <1>1, PageBasics
<1>6. old => JobPage(job) \in Pages /\ JobPage(job).is = "job" /\ JobPage(job) # Nothing
  BY <1>4, <1>5, PageBasics
<1>7. entry.path = Legacy /\ entry.scan = 1 /\ entry.closed = 0 /\ entry.hash = <<job.content, 0>>
  BY <1>4
<1>8. old => entry \in Entry /\ entry # NoEntry
  BY <1>5, <1>7, PageBasics DEF Entry
<1>9. /\ old => saved = entry /\ site[Legacy] = JobPage(job) /\ linked = {Legacy}
      /\ ~old => saved = NoEntry /\ linked = {}
      /\ \A p \in Paths : (old /\ p = Legacy) \/ site[p] = Nothing
      /\ site \in [Paths -> Pages] /\ linked \subseteq Paths /\ saved \in Entry \union {NoEntry}
  BY <1>2, <1>6, <1>8, PageBasics
<1> HIDE DEF entry
<1>10. lists.links = {} /\ PagesTypeOK
  BY <1>1, <1>2, <1>3, <1>9 DEF PagesTypeOK, Rows, Pages, Runs
<1>11. StampsPast /\ RowFound
  BY <1>1, <1>3, <1>7, <1>9 DEF StampsPast, RowFound
<1>12. SavedFits
  <2> SUFFICES ASSUME NEW p \in Paths
               PROVE  /\ site[p].is = "job" => saved # NoEntry /\ saved.path = p
                      /\ saved # NoEntry /\ saved.path = p => Right(saved)
    BY DEF SavedFits
  <2>1. CASE old
    BY <1>1, <1>4, <1>6, <1>7, <1>8, <1>9, <2>1, PageBasics DEF Right
  <2>2. CASE ~old
    BY <1>9, <2>2, PageBasics
  <2> QED
    BY <2>1, <2>2
<1>13. EntryFits /\ RunKnows /\ ClosedSince
  BY <1>3 DEF EntryFits, RunKnows, ClosedSince
<1>14. ForwardsLand /\ EntriesUp
  BY <1>2, <1>3, <1>6, <1>7, <1>9, PageBasics DEF ForwardsLand, EntriesUp, Up
<1>15. LinksHold
  BY <1>3, <1>6, <1>9, <1>10 DEF LinksHold, Up
<1> QED
  BY <1>10, <1>11, <1>12, <1>13, <1>14, <1>15 DEF PagesInv

-----------------------------------------------------------------------------
(* The row.  A scan or a closing takes a stamp later than all there are.   *)

LEMMA RowKeeps ==
    ASSUME PagesInv, RowOnly, stamp' \in Stamps, stamp <= stamp', job' \in Rows,
           job'.scan <= stamp', job'.closed <= stamp', job'.status # "absent" => job'.content \in Contents,
           job'.scan > stamp \/ (job'.scan = job.scan /\ job'.content = job.content),
           job'.closed > stamp \/ job'.closed \in {0, job.closed}
    PROVE  PagesInv'
<1>1. /\ stamp \in Nat /\ stamp' \in Nat /\ job.scan \in Nat /\ job.closed \in Nat /\ job'.scan \in Nat /\ job'.closed \in Nat
      /\ pagesRun.index.scan \in Nat /\ pagesRun.index.closed \in Nat
      /\ saved \in Entry \union {NoEntry} /\ pagesRun.entry \in Entry \union {NoEntry}
      /\ \A e \in Entry : e.scan \in Nat /\ e.closed \in Nat /\ e.hash[2] \in Nat
  BY PageTypes, PageBasics DEF PagesInv, Rows
<1>2. UNCHANGED <<site, saved, pagesRun, lists, sitemap, linked, unpublished, unsure>>
  BY DEF RowOnly
<1>3. PagesTypeOK'
  <2>1. /\ site \in [Paths -> Pages] /\ pagesRun \in Runs
        /\ sitemap \subseteq Paths /\ linked \subseteq Paths /\ unpublished \subseteq Paths /\ unsure \subseteq Paths
    BY PageTypes DEF PagesInv
  <2>2. lists \in [links : SUBSET Paths, listed : BOOLEAN]
    BY DEF PagesInv, PagesTypeOK
  <2> QED
    BY <1>1, <1>2, <2>1, <2>2, PagesFit
<1>4. StampsPast'
  BY <1>1, <1>2 DEF PagesInv, StampsPast
<1>5. RowFound' /\ ForwardsLand' /\ EntriesUp' /\ RunKnows' /\ LinksHold'
  BY <1>2 DEF PagesInv, RowFound, ForwardsLand, EntriesUp, RunKnows, LinksHold, Up, Promised
<1> DEFINE RightThen(e) ==
             /\ site'[e.path] = Shown(e.hash)
             /\ e.scan = job'.scan /\ (e.closed = 0 \/ e.closed = job'.closed) => e.hash = <<job'.content, e.closed>>
<1>6. ASSUME NEW e \in Entry, e.scan <= stamp, e.closed <= stamp, Right(e)
      PROVE  RightThen(e)
  BY <1>1, <1>2, <1>6 DEF Right
<1>7. RightThen(saved) => Right(saved)'
  BY <1>2 DEF Right
<1>8. RightThen(pagesRun.entry) => Right(pagesRun.entry)'
  BY <1>2 DEF Right
<1> HIDE DEF RightThen
<1>9. SavedFits' /\ EntryFits'
  <2>1. saved # NoEntry => saved \in Entry /\ saved.scan <= stamp /\ saved.closed <= stamp
    BY <1>1 DEF PagesInv, StampsPast
  <2>2. pagesRun.entry # NoEntry =>
           pagesRun.entry \in Entry /\ pagesRun.entry.scan <= stamp /\ pagesRun.entry.closed <= stamp
    BY <1>1 DEF PagesInv, StampsPast
  <2>3. \A p \in Paths : p \notin unsure \union pagesRun.dirty /\ saved # NoEntry /\ saved.path = p => Right(saved)'
    BY <1>6, <1>7, <2>1 DEF PagesInv, SavedFits
  <2>4. \A p \in Paths : pagesRun.phase \in {"save", "forward"} /\ p \notin unsure /\ pagesRun.entry # NoEntry
                            /\ pagesRun.entry.path = p => Right(pagesRun.entry)'
    BY <1>6, <1>8, <2>2 DEF PagesInv, EntryFits
  <2>5. SavedFits'
    BY <1>2, <2>3 DEF PagesInv, SavedFits, Right
  <2>6. EntryFits'
    BY <1>2, <2>4 DEF PagesInv, EntryFits, Right
  <2> QED
    BY <2>5, <2>6
<1>10. ClosedSince'
  <2>1. pagesRun.phase = "check" => saved # NoEntry /\ saved.hash[2] <= stamp
    BY DEF PagesInv, RunKnows, StampsPast
  <2> QED
    BY <1>1, <1>2, <2>1 DEF PagesInv, ClosedSince
<1> QED
  BY <1>3, <1>4, <1>5, <1>9, <1>10 DEF PagesInv

LEMMA RowActionsKeep ==
    ASSUME PagesInv,
           \/ \E c \in Contents, status \in {"live", "hidden"} : ScanJob(c, status)
           \/ CloseJob \/ ReopenJob \/ HideOrShowJob \/ DeleteJob
    PROVE  PagesInv'
<1>1. /\ stamp \in Stamps /\ job \in Rows /\ stamp \in Nat /\ job.scan \in Nat /\ job.closed \in Nat
      /\ job.scan \in Stamps /\ job.closed \in Stamps /\ job.scan <= stamp /\ job.closed <= stamp
      /\ job.content \in Contents \union {"none"} /\ (job.status # "absent" => job.content \in Contents)
      /\ 0 \in Stamps /\ MaxStamp \in Nat
  BY PageTypes, PageBasics, StaticPagesAssumption DEF PagesInv, StampsPast, RowFound
<1>2. stamp < MaxStamp => stamp + 1 \in Stamps /\ stamp + 1 \in Nat /\ stamp < stamp + 1 /\ stamp <= stamp + 1
  BY <1>1 DEF Stamps
<1>3. ASSUME NEW c \in Contents, NEW status \in {"live", "hidden"}, ScanJob(c, status)
      PROVE  PagesInv'
  <2> PICK now \in Stamps : now = stamp + 1 /\ stamp' = now
    BY <1>2, <1>3 DEF ScanJob
  <2>1. job' = [job EXCEPT !.status = status, !.content = c, !.scan = now]
    BY <1>3 DEF ScanJob
  <2>2. /\ job' \in Rows /\ job'.status = status /\ job'.content = c /\ job'.scan = now /\ job'.closed = job.closed
    BY <1>1, <2>1 DEF Rows
  <2>3. now > stamp /\ stamp <= now /\ now <= now /\ job.closed <= now
    BY <1>1
  <2> QED
    BY <1>3, <2>2, <2>3, RowKeeps DEF ScanJob
<1>4. CASE CloseJob
  <2> PICK now \in Stamps : now = stamp + 1 /\ stamp' = now
    BY <1>2, <1>4 DEF CloseJob
  <2>1. job' = [job EXCEPT !.closed = now]
    BY <1>4 DEF CloseJob
  <2>2. /\ job' \in Rows /\ job'.status = job.status /\ job'.content = job.content /\ job'.scan = job.scan
        /\ job'.closed = now
    BY <1>1, <2>1 DEF Rows
  <2>3. now > stamp /\ stamp <= now /\ now <= now /\ job.scan <= now
    BY <1>1
  <2> QED
    BY <1>1, <1>4, <2>2, <2>3, RowKeeps DEF CloseJob
<1>5. CASE ReopenJob
  <2> PICK open \in Stamps : open = 0
    BY <1>1
  <2>1. job' = [job EXCEPT !.closed = open] /\ stamp' = stamp
    BY <1>5 DEF ReopenJob
  <2>2. /\ job' \in Rows /\ job'.status = job.status /\ job'.content = job.content /\ job'.scan = job.scan
        /\ job'.closed = open
    BY <1>1, <2>1 DEF Rows
  <2>3. open <= stamp /\ stamp <= stamp
    BY <1>1
  <2> QED
    BY <1>1, <1>5, <2>1, <2>2, <2>3, RowKeeps DEF ReopenJob
<1>6. CASE HideOrShowJob \/ DeleteJob
  <2> PICK status \in {"hidden", "live", "deleted"} : job' = [job EXCEPT !.status = status]
    BY <1>6 DEF HideOrShowJob, DeleteJob
  <2>1. stamp' = stamp /\ job.status # "absent" /\ RowOnly
    BY <1>6 DEF HideOrShowJob, DeleteJob
  <2>2. /\ job' \in Rows /\ job'.content = job.content /\ job'.scan = job.scan /\ job'.closed = job.closed
    BY <1>1 DEF Rows
  <2>3. stamp <= stamp
    BY <1>1
  <2> QED
    BY <1>1, <2>1, <2>2, <2>3, RowKeeps
<1> QED
  BY <1>3, <1>4, <1>5, <1>6

-----------------------------------------------------------------------------
(* A run.                                                                  *)

LEMMA ZeroFirst == PagesInv => 0 <= stamp
<1> SUFFICES ASSUME PagesInv PROVE 0 <= stamp
  OBVIOUS
<1>1. stamp \in Nat
  BY PageTypes DEF PagesInv
<1> QED
  BY <1>1

LEMMA StartKeeps ==
    ASSUME PagesInv, NEW budget \in {"none", "renders", "moves too"}, NEW forced \in BOOLEAN,
           StartPages(budget, forced)
    PROVE  PagesInv'
<1> DEFINE published == saved # NoEntry
           moves == Listed /\ published /\ saved.path = Legacy /\ budget = "moves too"
           due == forced \/ saved.scan # job.scan \/ saved.closed # job.closed
           checks == Listed /\ published /\ ~moves /\ due
           phase == CASE Listed /\ ~published /\ budget # "none" -> "new"
                      [] moves -> "move"
                      [] checks -> "check"
                      [] ~Listed /\ published -> "remove"
                      [] OTHER -> "save"
           index == IF Listed THEN [scan |-> job.scan, closed |-> job.closed] ELSE NotListed
           path == IF published /\ ~moves THEN saved.path ELSE IF Listed THEN NewJobPath(job) ELSE Legacy
           live == Listed /\ (published \/ budget # "none")
           room == checks /\ budget # "none"
           no == FALSE
           goal == [phase |-> phase, index |-> index, entry |-> saved, path |-> path, live |-> live,
                    forced |-> forced, room |-> room, planned |-> no, dirty |-> {}]
<1>1. pagesRun' = goal /\ pagesRun.phase = "idle"
      /\ UNCHANGED <<stamp, job, site, saved, lists, sitemap, linked, unpublished, unsure>>
  BY DEF StartPages
<1>2. /\ saved \in Entry \union {NoEntry} /\ job \in Rows /\ (Listed => job.content \in Contents)
      /\ job.scan \in Stamps /\ job.closed \in Stamps /\ 0 \in Stamps
      /\ Legacy \in Paths /\ Contents \subseteq Paths /\ (saved # NoEntry => saved.path \in Paths)
      /\ job.scan \in Nat /\ job.closed \in Nat /\ stamp \in Nat /\ job.scan <= stamp /\ job.closed <= stamp
  BY PageTypes, PageBasics DEF PagesInv, RowFound, Listed, StampsPast
<1>3. phase \in {"new", "move", "check", "remove", "save"}
  OBVIOUS
<1>4. /\ phase = "new" => Listed /\ ~published
      /\ phase = "move" => moves
      /\ phase = "check" => checks
      /\ phase = "remove" => ~Listed /\ published
      /\ phase = "save" => ~moves
      /\ live /\ phase \notin {"new", "move"} => published /\ ~moves
      /\ phase # "forward"
  OBVIOUS
<1>5. path \in Paths /\ (moves => path \in Contents) /\ (published /\ ~moves => path = saved.path)
  BY <1>2 DEF NewJobPath
<1>6. /\ index \in [scan : Stamps, closed : Stamps] /\ index.scan <= stamp /\ index.closed <= stamp
      /\ Listed => index.closed = job.closed
  <2>1. CASE Listed
    BY <1>2, <2>1
  <2>2. CASE ~Listed
    <3>1. NotListed \in [scan : Stamps, closed : Stamps] /\ NotListed.scan = 0 /\ NotListed.closed = 0
      BY <1>2 DEF NotListed
    <3>2. index = NotListed
      BY <2>2
    <3>3. 0 <= stamp
      BY ZeroFirst
    <3> HIDE DEF index
    <3> QED
      BY <2>2, <3>1, <3>2, <3>3
  <2> QED
    BY <2>1, <2>2
<1>7. live \in BOOLEAN /\ room \in BOOLEAN /\ no \in BOOLEAN
  BY DEF Listed
<1>8. checks => Listed /\ published /\ ~moves
  OBVIOUS
<1> HIDE DEF phase, index, path, live, room, no, checks
<1>9. goal \in Runs
  BY <1>2, <1>3, <1>5, <1>6, <1>7 DEF Runs, Phases
<1>10. /\ goal.phase = phase /\ goal.index = index /\ goal.entry = saved /\ goal.path = path
       /\ goal.live = live /\ goal.dirty = {}
  OBVIOUS
<1> HIDE DEF goal
<1>11. PagesTypeOK'
  <2>1. /\ site \in [Paths -> Pages] /\ stamp \in Stamps
        /\ sitemap \subseteq Paths /\ linked \subseteq Paths /\ unpublished \subseteq Paths /\ unsure \subseteq Paths
    BY PageTypes DEF PagesInv
  <2>2. lists \in [links : SUBSET Paths, listed : BOOLEAN]
    BY DEF PagesInv, PagesTypeOK
  <2> QED
    BY <1>1, <1>2, <1>9, <2>1, <2>2, PagesFit
<1>12. StampsPast' /\ RowFound'
  BY <1>1, <1>2, <1>6, <1>10 DEF PagesInv, StampsPast, RowFound
<1>13. pagesRun.dirty = {}
  BY <1>1 DEF PagesInv, RunKnows
<1>14. SavedFits'
  BY <1>1, <1>10, <1>13 DEF PagesInv, SavedFits, Right
<1>15. EntryFits'
  BY <1>1, <1>4, <1>10, <1>13 DEF PagesInv, SavedFits, EntryFits, Right
<1>16. RunKnows'
  BY <1>1, <1>3, <1>4, <1>5, <1>8, <1>10 DEF RunKnows
<1>17. ClosedSince'
  BY <1>1, <1>4, <1>6, <1>8, <1>10 DEF ClosedSince
<1>18. ForwardsLand' /\ EntriesUp'
  BY <1>1, <1>10 DEF PagesInv, ForwardsLand, EntriesUp, Up
<1>19. LinksHold'
  <2>1. Promised = {}
    BY <1>1 DEF Promised
  <2>2. live /\ phase \notin {"new", "move"} => Up(path)
    BY <1>4, <1>5 DEF PagesInv, EntriesUp
  <2>3. /\ \A p \in lists.links : Up(p) \/ p \in unpublished
        /\ \A p \in linked : Up(p) \/ p \in unpublished
    BY <2>1 DEF PagesInv, LinksHold
  <2> QED
    BY <1>1, <1>10, <2>2, <2>3 DEF LinksHold, Up
<1> QED
  BY <1>11, <1>12, <1>14, <1>15, <1>16, <1>17, <1>18, <1>19 DEF PagesInv

\* A page of the job is uploaded: the run's own, at the path it gave the job.
LEMMA PublishKeeps ==
    ASSUME PagesInv, Loadable, NEW goal \in {"save", "forward"}, pagesRun.phase \in {"new", "move", "check"},
           pagesRun.phase = "move" <=> goal = "forward", Publish(goal)
    PROVE  PagesInv'
<1> DEFINE p == pagesRun.path
           index == pagesRun.index
           hash == ContentHash(job)
           page == JobPage(job)
           entry == [path |-> p, scan |-> index.scan, closed |-> index.closed, hash |-> hash]
<1>1. /\ stamp \in Stamps /\ job \in Rows /\ site \in [Paths -> Pages] /\ saved \in Entry \union {NoEntry}
      /\ pagesRun \in Runs /\ p \in Paths /\ index.scan \in Stamps /\ index.closed \in Stamps /\ job.closed \in Stamps
      /\ linked \subseteq Paths /\ sitemap \subseteq Paths /\ unpublished \subseteq Paths /\ unsure \subseteq Paths
      /\ pagesRun.dirty \subseteq Paths /\ index.scan \in Nat /\ index.closed \in Nat /\ job.closed \in Nat /\ stamp \in Nat
      /\ job.closed <= stamp /\ index.scan <= stamp /\ index.closed <= stamp
  BY PageTypes, PageBasics DEF PagesInv, StampsPast
<1>2. job.content \in Contents
  BY DEF PagesInv, RowFound, Loadable
<1>3. /\ hash = <<job.content, job.closed>> /\ hash \in Contents \X Stamps /\ hash[2] = job.closed /\ hash[1] = job.content
      /\ page = Shown(hash) /\ page \in Pages /\ page.is = "job" /\ page # Nothing
  BY <1>1, <1>2, PageBasics
<1>4. /\ site' = [site EXCEPT ![p] = page]
      /\ pagesRun' = [pagesRun EXCEPT !.phase = goal, !.entry = entry, !.dirty = @ \union {p}]
      /\ unpublished' = unpublished \ {p}
      /\ unsure' = IF job.closed # index.closed THEN unsure \union {p} ELSE unsure \ {p}
      /\ UNCHANGED <<stamp, job, saved, lists, sitemap, linked>>
  BY DEF Publish, Upload, NewEntry
<1> HIDE DEF hash, page
<1>5. /\ entry \in Entry /\ entry # NoEntry /\ entry.path = p /\ entry.scan = index.scan /\ entry.closed = index.closed
      /\ entry.hash = hash
  BY <1>1, <1>3, PageBasics DEF Entry
<1> HIDE DEF entry
<1>6. /\ pagesRun' \in Runs /\ pagesRun'.phase = goal /\ pagesRun'.entry = entry /\ pagesRun'.dirty = pagesRun.dirty \union {p}
      /\ pagesRun'.path = p /\ pagesRun'.index = index /\ pagesRun'.live = pagesRun.live
  <2>1. goal \in Phases /\ pagesRun.dirty \union {p} \in SUBSET Paths
    BY <1>1 DEF Phases
  <2> QED
    BY <1>1, <1>4, <1>5, <2>1 DEF Runs
<1>7. /\ site' \in [Paths -> Pages] /\ site'[p] = page /\ \A q \in Paths \ {p} : site'[q] = site[q]
  BY <1>1, <1>3, <1>4
<1>8. PagesTypeOK'
  <2>1. lists \in [links : SUBSET Paths, listed : BOOLEAN]
    BY DEF PagesInv, PagesTypeOK
  <2> QED
    BY <1>1, <1>4, <1>6, <1>7, <2>1, PagesFit
<1>9. StampsPast' /\ RowFound'
  BY <1>1, <1>3, <1>4, <1>5, <1>6 DEF PagesInv, StampsPast, RowFound
<1>10. pagesRun.dirty = {}
  BY DEF PagesInv, RunKnows
<1>11. SavedFits'
  <2> SUFFICES ASSUME NEW q \in Paths, q \notin unsure' \union pagesRun'.dirty
               PROVE  /\ site'[q].is = "job" => saved # NoEntry /\ saved.path = q
                      /\ saved # NoEntry /\ saved.path = q => Right(saved)'
    BY <1>4 DEF SavedFits
  <2>1. q # p /\ q \notin unsure /\ site'[q] = site[q]
    BY <1>4, <1>6, <1>7
  <2>2. /\ site[q].is = "job" => saved # NoEntry /\ saved.path = q
        /\ saved # NoEntry /\ saved.path = q => Right(saved)
    BY <1>10, <2>1 DEF PagesInv, SavedFits
  <2> QED
    BY <1>4, <2>1, <2>2 DEF Right
<1>12. EntryFits'
  <2> SUFFICES ASSUME NEW q \in Paths, q \notin unsure'
               PROVE  /\ site'[q].is = "job" => q = p \/ (goal = "forward" /\ q = Legacy)
                      /\ p = q => Right(pagesRun.entry)'
    BY <1>5, <1>6 DEF EntryFits
  <2>1. q = p => Right(pagesRun.entry)'
    BY <1>3, <1>4, <1>5, <1>6, <1>7 DEF Right
  <2>2. CASE q # p
    <3>1. site'[q] = site[q] /\ q \notin unsure
      BY <1>4, <1>7, <2>2
    <3>2. site[q].is = "job" => saved # NoEntry /\ saved.path = q
      BY <1>10, <3>1 DEF PagesInv, SavedFits
    <3>3. /\ pagesRun.phase = "new" => saved = NoEntry
          /\ pagesRun.phase = "check" => saved.path = p
          /\ pagesRun.phase = "move" => saved.path = Legacy
      BY DEF PagesInv, RunKnows
    <3> QED
      BY <2>2, <3>1, <3>2, <3>3
  <2> QED
    BY <2>1, <2>2
<1>13. RunKnows'
  <2>1. pagesRun.phase = "move" => p \in Contents
    BY DEF PagesInv, RunKnows
  <2> QED
    BY <1>3, <1>5, <1>6, <1>7, <2>1 DEF RunKnows
<1>14. ClosedSince'
  BY <1>6 DEF ClosedSince
<1>15. ForwardsLand'
  <2> SUFFICES ASSUME NEW q \in Paths, site'[q].is = "forward"
               PROVE  q = Legacy /\ site'[q].to \in Contents /\ site'[site'[q].to].is \in {"job", "gone"}
    BY DEF ForwardsLand
  <2>1. q # p /\ site'[q] = site[q]
    BY <1>3, <1>7
  <2>2. q = Legacy /\ site[q].to \in Contents /\ site[site[q].to].is \in {"job", "gone"} /\ site[q].to \in Paths
    BY <2>1, PageBasics DEF PagesInv, ForwardsLand
  <2> QED
    BY <1>3, <1>7, <2>1, <2>2
<1>16. \A q \in Paths : Up(q) => Up(q)'
  BY <1>3, <1>7 DEF Up
<1>17. site'[p] # Nothing
  BY <1>3, <1>7
<1>18. EntriesUp'
  <2>1. /\ saved # NoEntry => saved.path \in Paths /\ Up(saved.path)
        /\ \A q \in sitemap : q \in Paths /\ Up(q)
    BY <1>1, PageTypes DEF PagesInv, EntriesUp
  <2> QED
    BY <1>4, <1>5, <1>6, <1>7, <1>3, <2>1 DEF EntriesUp, Up
<1>19. LinksHold'
  <2>1. \A q \in lists.links : q \in Paths /\ (Up(q) \/ q \in unpublished)
    BY PageTypes DEF PagesInv, LinksHold
  <2>2. \A q \in linked : q \in Paths /\ (Up(q) \/ q \in unpublished \/ q = p)
    BY <1>1 DEF PagesInv, LinksHold, Promised
  <2>3. \A q \in unpublished : q \in unpublished' \/ q = p
    BY <1>4
  <2> QED
    BY <1>4, <1>6, <1>16, <1>17, <2>1, <2>2, <2>3 DEF LinksHold, Up
<1> QED
  BY <1>8, <1>9, <1>11, <1>12, <1>13, <1>14, <1>15, <1>18, <1>19 DEF PagesInv

LEMMA ForwardKeeps ==
    ASSUME PagesInv, LeaveForward
    PROVE  PagesInv'
<1> DEFINE p == pagesRun.path
           page == Forward(p)
<1>1. /\ stamp \in Stamps /\ job \in Rows /\ site \in [Paths -> Pages] /\ saved \in Entry \union {NoEntry}
      /\ pagesRun \in Runs /\ linked \subseteq Paths /\ sitemap \subseteq Paths /\ unpublished \subseteq Paths
      /\ unsure \subseteq Paths /\ pagesRun.dirty \subseteq Paths /\ Legacy \in Paths /\ Legacy \notin Contents
      /\ pagesRun.entry \in Entry \union {NoEntry} /\ Contents \subseteq Paths
  BY PageTypes, PageBasics DEF PagesInv
<1>2. /\ pagesRun.phase = "forward" /\ p \in Contents /\ site[p].is = "job" /\ pagesRun.entry # NoEntry
      /\ pagesRun.entry.path = p
  BY DEF PagesInv, RunKnows, LeaveForward
<1>3. page \in Pages /\ page.is = "forward" /\ page.to = p /\ page # Nothing
  BY <1>2, PageBasics
<1>4. /\ site' = [site EXCEPT ![Legacy] = page]
      /\ pagesRun' = [pagesRun EXCEPT !.phase = "save", !.dirty = @ \union {Legacy}]
      /\ unsure' = unsure \ {Legacy}
      /\ UNCHANGED <<stamp, job, saved, lists, sitemap, linked, unpublished>>
  BY DEF LeaveForward, Upload
<1> HIDE DEF page
<1>5. /\ pagesRun' \in Runs /\ pagesRun'.phase = "save" /\ pagesRun'.entry = pagesRun.entry
      /\ pagesRun'.dirty = pagesRun.dirty \union {Legacy}
      /\ pagesRun'.path = p /\ pagesRun'.index = pagesRun.index /\ pagesRun'.live = pagesRun.live
  <2>1. "save" \in Phases /\ pagesRun.dirty \union {Legacy} \in SUBSET Paths
    BY <1>1 DEF Phases
  <2> QED
    BY <1>1, <1>4, <2>1 DEF Runs
<1>6. /\ site' \in [Paths -> Pages] /\ site'[Legacy] = page /\ \A q \in Paths \ {Legacy} : site'[q] = site[q]
  BY <1>1, <1>3, <1>4
<1>7. PagesTypeOK'
  <2>1. lists \in [links : SUBSET Paths, listed : BOOLEAN]
    BY DEF PagesInv, PagesTypeOK
  <2> QED
    BY <1>1, <1>4, <1>5, <1>6, <2>1, PagesFit
<1>8. StampsPast' /\ RowFound' /\ ClosedSince'
  BY <1>4, <1>5 DEF PagesInv, StampsPast, RowFound, ClosedSince
<1>9. SavedFits'
  <2> SUFFICES ASSUME NEW q \in Paths, q \notin unsure' \union pagesRun'.dirty
               PROVE  /\ site'[q].is = "job" => saved # NoEntry /\ saved.path = q
                      /\ saved # NoEntry /\ saved.path = q => Right(saved)'
    BY <1>4 DEF SavedFits
  <2>1. q # Legacy /\ q \notin unsure \union pagesRun.dirty /\ site'[q] = site[q]
    BY <1>4, <1>5, <1>6
  <2>2. /\ site[q].is = "job" => saved # NoEntry /\ saved.path = q
        /\ saved # NoEntry /\ saved.path = q => Right(saved)
    BY <2>1 DEF PagesInv, SavedFits
  <2> QED
    BY <1>4, <2>1, <2>2 DEF Right
<1>10. EntryFits'
  <2> SUFFICES ASSUME NEW q \in Paths, q \notin unsure'
               PROVE  /\ site'[q].is = "job" => q = p
                      /\ p = q => Right(pagesRun.entry)'
    BY <1>2, <1>5 DEF EntryFits
  <2>1. CASE q = Legacy
    BY <1>1, <1>2, <1>3, <1>6, <2>1
  <2>2. CASE q # Legacy
    <3>1. site'[q] = site[q] /\ q \notin unsure
      BY <1>4, <1>6, <2>2
    <3>2. /\ site[q].is = "job" => q = p
          /\ p = q => Right(pagesRun.entry)
      BY <1>2, <2>2, <3>1 DEF PagesInv, EntryFits
    <3> QED
      BY <1>2, <1>4, <1>5, <3>1, <3>2 DEF Right
  <2> QED
    BY <2>1, <2>2
<1>11. RunKnows'
  BY <1>5 DEF RunKnows
<1>12. ForwardsLand'
  <2> SUFFICES ASSUME NEW q \in Paths, site'[q].is = "forward"
               PROVE  q = Legacy /\ site'[q].to \in Contents /\ site'[site'[q].to].is \in {"job", "gone"}
    BY DEF ForwardsLand
  <2>1. CASE q = Legacy
    BY <1>1, <1>2, <1>3, <1>6, <2>1
  <2>2. CASE q # Legacy
    BY <1>6, <2>2 DEF PagesInv, ForwardsLand
  <2> QED
    BY <2>1, <2>2
<1>13. \A q \in Paths : Up(q) => Up(q)'
  BY <1>3, <1>6 DEF Up
<1>14. EntriesUp'
  <2>1. /\ saved # NoEntry => saved.path \in Paths /\ Up(saved.path)
        /\ pagesRun.entry # NoEntry => pagesRun.entry.path \in Paths /\ Up(pagesRun.entry.path)
        /\ \A q \in sitemap : q \in Paths /\ Up(q)
    BY <1>1, PageTypes DEF PagesInv, EntriesUp
  <2> QED
    BY <1>4, <1>5, <1>13, <2>1 DEF EntriesUp, Up
<1>15. LinksHold'
  <2>1. \A q \in lists.links : q \in Paths /\ (Up(q) \/ q \in unpublished)
    BY PageTypes DEF PagesInv, LinksHold
  <2>2. \A q \in linked : q \in Paths /\ (Up(q) \/ q \in unpublished)
    BY <1>1, <1>2 DEF PagesInv, LinksHold, Promised
  <2>3. p \in Paths /\ (pagesRun.live => Up(p) \/ p \in unpublished)
    BY <1>1, <1>2 DEF PagesInv, LinksHold
  <2> QED
    BY <1>4, <1>5, <1>13, <2>1, <2>2, <2>3 DEF LinksHold, Up
<1> QED
  BY <1>7, <1>8, <1>9, <1>10, <1>11, <1>12, <1>14, <1>15 DEF PagesInv

\* No page is written: the run goes on to save what it knows.
LEMMA SkipKeeps ==
    ASSUME PagesInv, pagesRun.phase \in {"new", "move", "check"}, NEW r \in Runs, Skip(r),
           r.index = pagesRun.index, r.dirty = pagesRun.dirty,
           \/ r.entry = saved
           \/ /\ r.entry \in Entry /\ saved # NoEntry /\ r.entry.path = saved.path
              /\ r.entry.scan <= stamp /\ r.entry.closed <= stamp /\ r.entry.hash = saved.hash
              /\ Right(saved) => Right(r.entry),
           unpublished' \subseteq Paths, unpublished \subseteq unpublished',
           linked \intersect Promised \subseteq unpublished' \union PagesUp,
           r.live => Up(r.path) \/ r.path \in unpublished'
    PROVE  PagesInv'
<1>1. /\ stamp \in Stamps /\ job \in Rows /\ site \in [Paths -> Pages] /\ saved \in Entry \union {NoEntry}
      /\ pagesRun \in Runs /\ linked \subseteq Paths /\ sitemap \subseteq Paths /\ unpublished \subseteq Paths
      /\ unsure \subseteq Paths /\ pagesRun.entry \in Entry \union {NoEntry} /\ NoEntry \notin Entry
  BY PageTypes, PageBasics DEF PagesInv
<1>2. pagesRun' = [r EXCEPT !.phase = "save"]
      /\ UNCHANGED <<stamp, job, site, saved, lists, sitemap, linked, unsure>>
  BY DEF Skip
<1>3. /\ pagesRun' \in Runs /\ pagesRun'.phase = "save" /\ pagesRun'.entry = r.entry
      /\ pagesRun'.dirty = r.dirty /\ pagesRun'.path = r.path /\ pagesRun'.index = r.index /\ pagesRun'.live = r.live
  BY <1>1, <1>2 DEF Runs, Phases
<1>4. pagesRun.dirty = {}
  BY DEF PagesInv, RunKnows
<1>5. PagesTypeOK'
  <2>1. lists \in [links : SUBSET Paths, listed : BOOLEAN]
    BY DEF PagesInv, PagesTypeOK
  <2> QED
    BY <1>1, <1>2, <1>3, <2>1, PagesFit
<1>6. StampsPast' /\ RowFound' /\ ClosedSince'
  BY <1>1, <1>2, <1>3 DEF PagesInv, StampsPast, RowFound, ClosedSince
<1>7. SavedFits'
  BY <1>2, <1>3 DEF PagesInv, SavedFits, Right
<1>8. EntryFits'
  <2> SUFFICES ASSUME NEW q \in Paths, q \notin unsure
               PROVE  /\ site[q].is = "job" => r.entry # NoEntry /\ r.entry.path = q
                      /\ r.entry # NoEntry /\ r.entry.path = q => Right(pagesRun.entry)'
    BY <1>2, <1>3 DEF EntryFits
  <2>1. /\ site[q].is = "job" => saved # NoEntry /\ saved.path = q
        /\ saved # NoEntry /\ saved.path = q => Right(saved)
    BY <1>4 DEF PagesInv, SavedFits
  <2>2. /\ site[q].is = "job" => r.entry # NoEntry /\ r.entry.path = q
        /\ r.entry # NoEntry /\ r.entry.path = q => Right(r.entry)
    BY <1>1, <2>1
  <2> QED
    BY <1>2, <1>3, <2>2 DEF Right
<1>9. RunKnows'
  BY <1>3 DEF RunKnows
<1>10. ForwardsLand'
  BY <1>2 DEF PagesInv, ForwardsLand
<1>11. EntriesUp'
  BY <1>1, <1>2, <1>3 DEF PagesInv, EntriesUp, Up
<1>12. LinksHold'
  <2>1. \A q \in linked : Up(q) \/ q \in unpublished'
    BY <1>1 DEF PagesInv, LinksHold, PagesUp, Up
  <2> QED
    BY <1>2, <1>3, <2>1 DEF PagesInv, LinksHold, Up
<1> QED
  BY <1>5, <1>6, <1>7, <1>8, <1>9, <1>10, <1>11, <1>12 DEF PagesInv

LEMMA GoneKeeps ==
    ASSUME PagesInv, NewIsGone \/ MoveIsGone
    PROVE  PagesInv'
<1>1. /\ pagesRun \in Runs /\ pagesRun.path \in Paths /\ unpublished \subseteq Paths /\ Legacy \in Paths
      /\ linked \subseteq Paths
  BY PageTypes, PageBasics DEF PagesInv
<1>2. pagesRun.phase \in {"new", "move"} /\ Promised = {pagesRun.path} /\ pagesRun.entry = saved
  BY DEF PagesInv, RunKnows, NewIsGone, MoveIsGone, Promised
<1>3. CASE NewIsGone
  <2>1. unpublished' = unpublished \union {pagesRun.path} /\ Skip(pagesRun)
    BY <1>3 DEF NewIsGone
  <2> QED
    BY <1>1, <1>2, <2>1, SkipKeeps
<1>4. CASE MoveIsGone
  <2> DEFINE r == [pagesRun EXCEPT !.path = Legacy]
  <2>1. unpublished' = unpublished \union (linked \intersect {pagesRun.path}) /\ Skip(r)
    BY <1>4 DEF MoveIsGone
  <2>2. /\ r \in Runs /\ r.path = Legacy /\ r.index = pagesRun.index /\ r.entry = pagesRun.entry
        /\ r.dirty = pagesRun.dirty
    BY <1>1 DEF Runs
  <2>3. Up(Legacy)
    BY <1>4 DEF MoveIsGone, PagesInv, RunKnows, EntriesUp
  <2> HIDE DEF r
  <2> QED
    BY <1>1, <1>2, <2>1, <2>2, <2>3, SkipKeeps
<1> QED
  BY <1>3, <1>4

\* A row whose page would be the same is up to date: a closing since the index
\* would not be in the page's hash.
LEMMA CheckKeeps ==
    ASSUME PagesInv, CheckPage
    PROVE  PagesInv'
<1> DEFINE same == ~pagesRun.forced /\ ContentHash(job) = saved.hash
<1>1. /\ pagesRun \in Runs /\ pagesRun.path \in Paths /\ unpublished \subseteq Paths /\ linked \subseteq Paths
      /\ job \in Rows /\ stamp \in Nat /\ job.closed \in Nat /\ pagesRun.index.closed \in Nat /\ pagesRun.index.scan \in Nat
      /\ pagesRun.index.scan \in Stamps /\ pagesRun.index.closed \in Stamps
      /\ pagesRun.index.scan <= stamp /\ pagesRun.index.closed <= stamp
  BY PageTypes, PageBasics DEF PagesInv, StampsPast
<1>2. /\ pagesRun.phase = "check" /\ saved # NoEntry /\ saved.path = pagesRun.path /\ pagesRun.entry = saved
      /\ saved \in Entry /\ Promised = {} /\ Up(pagesRun.path)
  BY PageTypes DEF PagesInv, RunKnows, CheckPage, Promised, EntriesUp
<1>3. CASE Loadable /\ ~same /\ pagesRun.room
  <2>1. Publish("save")
    BY <1>3 DEF CheckPage
  <2> QED
    BY <1>2, <1>3, <2>1, PublishKeeps
<1>4. CASE ~(Loadable /\ ~same /\ pagesRun.room) /\ Loadable /\ same
  <2> DEFINE entry == [saved EXCEPT !.scan = pagesRun.index.scan, !.closed = pagesRun.index.closed]
             r == [pagesRun EXCEPT !.entry = entry]
  <2>1. [pagesRun EXCEPT !.entry.scan = pagesRun.index.scan, !.entry.closed = pagesRun.index.closed] = r
    BY <1>1, <1>2 DEF Runs
  <2>2. unpublished' = unpublished /\ Skip(r)
    BY <1>4, <2>1 DEF CheckPage
  <2>3. /\ entry \in Entry /\ entry.path = saved.path /\ entry.scan = pagesRun.index.scan
        /\ entry.closed = pagesRun.index.closed /\ entry.hash = saved.hash
    BY <1>1, <1>2 DEF Entry
  <2> HIDE DEF entry
  <2>4. /\ r \in Runs /\ r.entry = entry /\ r.index = pagesRun.index /\ r.dirty = pagesRun.dirty /\ r.path = pagesRun.path
    BY <1>1, <2>3 DEF Runs
  <2> HIDE DEF r
  <2>5. Right(saved) => Right(entry)
    <3>1. saved.hash = <<job.content, job.closed>> /\ saved.hash[2] = job.closed
      BY <1>1, <1>4, PageBasics
    <3>2. pagesRun.index.closed = 0 => job.closed = 0
      BY <1>1, <1>2, <3>1 DEF PagesInv, ClosedSince
    <3> QED
      BY <2>3, <3>1, <3>2 DEF Right
  <2> QED
    BY <1>1, <1>2, <2>2, <2>3, <2>4, <2>5, SkipKeeps
<1>5. CASE ~(Loadable /\ ~same /\ pagesRun.room) /\ ~(Loadable /\ same)
  <2>1. unpublished' = unpublished /\ Skip(pagesRun)
    BY <1>5 DEF CheckPage
  <2> QED
    BY <1>1, <1>2, <2>1, SkipKeeps
<1> QED
  BY <1>3, <1>4, <1>5

LEMMA RemoveKeeps ==
    ASSUME PagesInv, RemovePage
    PROVE  PagesInv'
<1> DEFINE p == saved.path
<1>1. /\ stamp \in Stamps /\ job \in Rows /\ site \in [Paths -> Pages] /\ saved \in Entry \union {NoEntry}
      /\ pagesRun \in Runs /\ linked \subseteq Paths /\ sitemap \subseteq Paths /\ unpublished \subseteq Paths
      /\ unsure \subseteq Paths /\ pagesRun.dirty \subseteq Paths /\ pagesRun.path \in Paths
  BY PageTypes DEF PagesInv
<1>2. pagesRun.phase = "remove" /\ saved # NoEntry /\ saved \in Entry /\ p \in Paths /\ pagesRun.dirty = {}
  BY PageTypes DEF PagesInv, RunKnows, RemovePage
<1>3. Gone \in Pages /\ Gone.is = "gone" /\ Gone # Nothing
  BY PageBasics
<1>4. /\ site' = [site EXCEPT ![p] = Gone]
      /\ pagesRun' = [pagesRun EXCEPT !.phase = "save", !.entry = NoEntry, !.dirty = @ \union {p}]
      /\ unsure' = unsure \ {p}
      /\ UNCHANGED <<stamp, job, saved, lists, sitemap, linked, unpublished>>
  BY DEF RemovePage, Upload
<1>5. /\ pagesRun' \in Runs /\ pagesRun'.phase = "save" /\ pagesRun'.entry = NoEntry
      /\ pagesRun'.dirty = pagesRun.dirty \union {p}
      /\ pagesRun'.path = pagesRun.path /\ pagesRun'.index = pagesRun.index /\ pagesRun'.live = pagesRun.live
  <2>1. "save" \in Phases /\ pagesRun.dirty \union {p} \in SUBSET Paths
    BY <1>1, <1>2 DEF Phases
  <2> QED
    BY <1>1, <1>4, <2>1 DEF Runs
<1>6. /\ site' \in [Paths -> Pages] /\ site'[p] = Gone /\ \A q \in Paths \ {p} : site'[q] = site[q]
  BY <1>1, <1>2, <1>3, <1>4
<1>7. PagesTypeOK'
  <2>1. lists \in [links : SUBSET Paths, listed : BOOLEAN]
    BY DEF PagesInv, PagesTypeOK
  <2> QED
    BY <1>1, <1>4, <1>5, <1>6, <2>1, PagesFit
<1>8. StampsPast' /\ RowFound' /\ ClosedSince'
  BY <1>4, <1>5 DEF PagesInv, StampsPast, RowFound, ClosedSince
<1>9. SavedFits'
  <2> SUFFICES ASSUME NEW q \in Paths, q \notin unsure' \union pagesRun'.dirty
               PROVE  /\ site'[q].is = "job" => saved # NoEntry /\ saved.path = q
                      /\ saved # NoEntry /\ saved.path = q => Right(saved)'
    BY <1>4 DEF SavedFits
  <2>1. q # p /\ q \notin unsure \union pagesRun.dirty /\ site'[q] = site[q]
    BY <1>4, <1>5, <1>6
  <2>2. site[q].is = "job" => saved # NoEntry /\ saved.path = q
    BY <2>1 DEF PagesInv, SavedFits
  <2> QED
    BY <2>1, <2>2
<1>10. EntryFits'
  <2> SUFFICES ASSUME NEW q \in Paths, q \notin unsure'
               PROVE  site'[q].is # "job"
    BY <1>5 DEF EntryFits
  <2>1. CASE q = p
    BY <1>3, <1>6, <2>1
  <2>2. CASE q # p
    BY <1>2, <1>4, <1>6, <2>2 DEF PagesInv, SavedFits
  <2> QED
    BY <2>1, <2>2
<1>11. RunKnows'
  BY <1>5 DEF RunKnows
<1>12. ForwardsLand'
  <2> SUFFICES ASSUME NEW q \in Paths, site'[q].is = "forward"
               PROVE  q = Legacy /\ site'[q].to \in Contents /\ site'[site'[q].to].is \in {"job", "gone"}
    BY DEF ForwardsLand
  <2>1. q # p /\ site'[q] = site[q]
    BY <1>3, <1>6
  <2>2. q = Legacy /\ site[q].to \in Contents /\ site[site[q].to].is \in {"job", "gone"} /\ site[q].to \in Paths
    BY <2>1, PageBasics DEF PagesInv, ForwardsLand
  <2> QED
    BY <1>3, <1>6, <2>1, <2>2
<1>13. \A q \in Paths : Up(q) => Up(q)'
  BY <1>3, <1>6 DEF Up
<1>14. EntriesUp'
  <2>1. /\ saved # NoEntry => saved.path \in Paths /\ Up(saved.path)
        /\ \A q \in sitemap : q \in Paths /\ Up(q)
    BY <1>1, <1>2 DEF PagesInv, EntriesUp
  <2> QED
    BY <1>4, <1>5, <1>13, <2>1 DEF EntriesUp, Up
<1>15. LinksHold'
  <2>1. \A q \in lists.links : q \in Paths /\ (Up(q) \/ q \in unpublished)
    BY PageTypes DEF PagesInv, LinksHold
  <2>2. \A q \in linked : q \in Paths /\ (Up(q) \/ q \in unpublished)
    BY <1>1, <1>2 DEF PagesInv, LinksHold, Promised
  <2>3. pagesRun.live => Up(pagesRun.path) \/ pagesRun.path \in unpublished
    BY <1>2 DEF PagesInv, LinksHold
  <2> QED
    BY <1>1, <1>4, <1>5, <1>13, <2>1, <2>2, <2>3 DEF LinksHold, Up
<1> QED
  BY <1>7, <1>8, <1>9, <1>10, <1>11, <1>12, <1>14, <1>15 DEF PagesInv

LEMMA SaveKeeps ==
    ASSUME PagesInv, SaveManifest
    PROVE  PagesInv'
<1>1. /\ stamp \in Stamps /\ job \in Rows /\ site \in [Paths -> Pages] /\ saved \in Entry \union {NoEntry}
      /\ pagesRun \in Runs /\ linked \subseteq Paths /\ sitemap \subseteq Paths /\ unpublished \subseteq Paths
      /\ unsure \subseteq Paths /\ pagesRun.entry \in Entry \union {NoEntry}
  BY PageTypes DEF PagesInv
<1>2. /\ pagesRun.phase = "save" /\ saved' = pagesRun.entry
      /\ pagesRun' = [pagesRun EXCEPT !.phase = "lists", !.dirty = {}]
      /\ UNCHANGED <<stamp, job, site, lists, sitemap, linked, unpublished, unsure>>
  BY DEF SaveManifest
<1>3. /\ pagesRun' \in Runs /\ pagesRun'.phase = "lists" /\ pagesRun'.entry = pagesRun.entry /\ pagesRun'.dirty = {}
      /\ pagesRun'.path = pagesRun.path /\ pagesRun'.index = pagesRun.index /\ pagesRun'.live = pagesRun.live
  BY <1>1, <1>2 DEF Runs, Phases
<1>4. PagesTypeOK'
  <2>1. lists \in [links : SUBSET Paths, listed : BOOLEAN]
    BY DEF PagesInv, PagesTypeOK
  <2> QED
    BY <1>1, <1>2, <1>3, <2>1, PagesFit
<1>5. StampsPast' /\ RowFound' /\ ClosedSince'
  BY <1>2, <1>3 DEF PagesInv, StampsPast, RowFound, ClosedSince
<1>6. SavedFits'
  <2> SUFFICES ASSUME NEW q \in Paths, q \notin unsure
               PROVE  /\ site[q].is = "job" => pagesRun.entry # NoEntry /\ pagesRun.entry.path = q
                      /\ pagesRun.entry # NoEntry /\ pagesRun.entry.path = q => Right(saved)'
    BY <1>2, <1>3 DEF SavedFits
  <2> QED
    BY <1>2 DEF PagesInv, EntryFits, Right
<1>7. EntryFits' /\ RunKnows'
  BY <1>3 DEF EntryFits, RunKnows
<1>8. ForwardsLand' /\ EntriesUp'
  BY <1>2, <1>3 DEF PagesInv, ForwardsLand, EntriesUp, Up
<1>9. LinksHold'
  BY <1>2, <1>3 DEF PagesInv, LinksHold, Up, Promised
<1> QED
  BY <1>4, <1>5, <1>6, <1>7, <1>8, <1>9 DEF PagesInv

LEMMA RelatedKeeps ==
    ASSUME PagesInv, PublishRelated
    PROVE  PagesInv'
<1>1. /\ stamp \in Stamps /\ job \in Rows /\ site \in [Paths -> Pages] /\ saved \in Entry \union {NoEntry}
      /\ pagesRun \in Runs /\ linked \subseteq Paths /\ sitemap \subseteq Paths /\ unpublished \subseteq Paths
      /\ unsure \subseteq Paths /\ pagesRun.path \in Paths
  BY PageTypes DEF PagesInv
<1>2. /\ pagesRun.phase # "idle" /\ pagesRun.live /\ linked' = linked \union {pagesRun.path}
      /\ UNCHANGED <<stamp, job, site, saved, pagesRun, lists, sitemap, unpublished, unsure>>
  BY DEF PublishRelated, LinkedFromLists
<1>3. PagesTypeOK'
  <2>1. lists \in [links : SUBSET Paths, listed : BOOLEAN]
    BY DEF PagesInv, PagesTypeOK
  <2> QED
    BY <1>1, <1>2, <2>1, PagesFit
<1>4. StampsPast' /\ RowFound' /\ ClosedSince' /\ SavedFits' /\ EntryFits' /\ RunKnows' /\ ForwardsLand' /\ EntriesUp'
  BY <1>2 DEF PagesInv, StampsPast, RowFound, ClosedSince, SavedFits, EntryFits, RunKnows, ForwardsLand, EntriesUp,
              Up, Right
<1>5. LinksHold'
  <2>1. Up(pagesRun.path) \/ pagesRun.path \in unpublished \/ pagesRun.path \in Promised
    BY <1>1, <1>2 DEF PagesInv, LinksHold, Promised
  <2> QED
    BY <1>2, <2>1 DEF PagesInv, LinksHold, Promised, Up
<1> QED
  BY <1>3, <1>4, <1>5 DEF PagesInv

\* After the manifest: pages of other jobs, which link to what the run has.
LEMMA ListsKeep ==
    ASSUME PagesInv, pagesRun.phase \in {"lists", "listed", "sitemap", "days"}, pagesRun' \in Runs,
           pagesRun'.phase \in {"listed", "sitemap", "days", "idle"}, pagesRun'.dirty = {},
           pagesRun'.entry \in {pagesRun.entry, NoEntry}, pagesRun'.index.scan <= stamp,
           pagesRun'.index.closed <= stamp,
           pagesRun'.phase # "idle" => pagesRun'.live = pagesRun.live /\ pagesRun'.path = pagesRun.path,
           lists' \in [links : SUBSET Paths, listed : BOOLEAN],
           \A p \in lists'.links \union linked' :
              p \in lists.links \union linked \/ (p = pagesRun.path /\ pagesRun.live),
           linked' \subseteq Paths, sitemap' \subseteq Paths,
           \A p \in sitemap' : p \in sitemap \/ (pagesRun.entry # NoEntry /\ p = pagesRun.entry.path),
           UNCHANGED <<stamp, job, site, saved, unpublished, unsure>>
    PROVE  PagesInv'
<1>1. /\ stamp \in Stamps /\ job \in Rows /\ site \in [Paths -> Pages] /\ saved \in Entry \union {NoEntry}
      /\ unpublished \subseteq Paths /\ unsure \subseteq Paths
  BY PageTypes DEF PagesInv
<1>2. pagesRun.dirty = {}
  BY DEF PagesInv, RunKnows
<1>3. PagesTypeOK'
  BY <1>1, PagesFit
<1>4. StampsPast' /\ RowFound' /\ ClosedSince'
  BY DEF PagesInv, StampsPast, RowFound, ClosedSince
<1>5. SavedFits'
  BY <1>2 DEF PagesInv, SavedFits, Right
<1>6. EntryFits' /\ RunKnows'
  BY DEF EntryFits, RunKnows
<1>7. ForwardsLand' /\ EntriesUp'
  BY DEF PagesInv, ForwardsLand, EntriesUp, Up
<1>8. LinksHold'
  <2>1. \A p \in lists.links \union linked : Up(p) \/ p \in unpublished
    BY DEF PagesInv, LinksHold, Promised
  <2>2. pagesRun.live => Up(pagesRun.path) \/ pagesRun.path \in unpublished
    BY DEF PagesInv, LinksHold
  <2> QED
    BY <2>1, <2>2 DEF LinksHold, Up
<1> QED
  BY <1>3, <1>4, <1>5, <1>6, <1>7, <1>8 DEF PagesInv

LEMMA ListActionsKeep ==
    ASSUME PagesInv,
           \/ \E b \in BOOLEAN : PublishLists(b) \/ WriteSitemap(b) \/ WriteDayPages(b)
           \/ WriteListManifest
    PROVE  PagesInv'
<1>1. /\ pagesRun \in Runs /\ linked \subseteq Paths /\ sitemap \subseteq Paths /\ pagesRun.path \in Paths
      /\ pagesRun.index.scan <= stamp /\ pagesRun.index.closed <= stamp /\ 0 <= stamp
      /\ lists \in [links : SUBSET Paths, listed : BOOLEAN] /\ lists.links \subseteq Paths
      /\ pagesRun.entry \in Entry \union {NoEntry} /\ \A e \in Entry : e.path \in Paths
  BY PageTypes, ZeroFirst DEF PagesInv, StampsPast, PagesTypeOK
<1>2. pagesRun.phase \notin {"save", "forward"} => pagesRun.dirty = {}
  BY DEF PagesInv, RunKnows
<1>3. PlannedLinks \subseteq {pagesRun.path} /\ (PlannedLinks # {} => pagesRun.live)
  BY DEF PlannedLinks, LinkedFromLists
<1>4. ASSUME NEW b \in BOOLEAN, PublishLists(b)
      PROVE  PagesInv'
  <2> PICK links \in SUBSET Paths : /\ links \in {PlannedLinks, {}, lists.links}
                                    /\ lists' = [lists EXCEPT !.links = links]
    BY <1>1, <1>3, <1>4 DEF PublishLists
  <2>1. lists' \in [links : SUBSET Paths, listed : BOOLEAN] /\ lists'.links = links
    BY <1>1
  <2>2. /\ pagesRun.phase = "lists" /\ pagesRun' = [pagesRun EXCEPT !.planned = b, !.phase = "listed"]
        /\ UNCHANGED <<stamp, job, site, saved, sitemap, linked, unpublished, unsure>>
    BY <1>4 DEF PublishLists
  <2>3. /\ pagesRun' \in Runs /\ pagesRun'.phase = "listed" /\ pagesRun'.entry = pagesRun.entry
        /\ pagesRun'.dirty = pagesRun.dirty
        /\ pagesRun'.path = pagesRun.path /\ pagesRun'.index = pagesRun.index /\ pagesRun'.live = pagesRun.live
    BY <1>1, <2>2 DEF Runs, Phases
  <2> QED
    BY <1>1, <1>2, <1>3, <2>1, <2>2, <2>3, ListsKeep
<1>5. ASSUME NEW b \in BOOLEAN, WriteSitemap(b)
      PROVE  PagesInv'
  <2>2. /\ pagesRun.phase = "sitemap" /\ pagesRun' = [pagesRun EXCEPT !.phase = "days"]
        /\ UNCHANGED <<stamp, job, site, saved, lists, linked, unpublished, unsure>>
        /\ sitemap' = {} \/ (pagesRun.entry # NoEntry /\ sitemap' = {pagesRun.entry.path})
    BY <1>5 DEF WriteSitemap
  <2>3. /\ pagesRun' \in Runs /\ pagesRun'.phase = "days" /\ pagesRun'.entry = pagesRun.entry
        /\ pagesRun'.dirty = pagesRun.dirty
        /\ pagesRun'.path = pagesRun.path /\ pagesRun'.index = pagesRun.index /\ pagesRun'.live = pagesRun.live
    BY <1>1, <2>2 DEF Runs, Phases
  <2> QED
    BY <1>1, <1>2, <2>2, <2>3, ListsKeep
<1>6. ASSUME NEW b \in BOOLEAN, WriteDayPages(b)
      PROVE  PagesInv'
  <2>2. /\ pagesRun.phase = "days" /\ pagesRun' = IdleRun
        /\ UNCHANGED <<stamp, job, site, saved, lists, sitemap, unpublished, unsure>>
        /\ linked' = linked \/ (pagesRun.live /\ linked' = linked \union {pagesRun.path})
    BY <1>6 DEF WriteDayPages
  <2>3. /\ pagesRun' \in Runs /\ pagesRun'.phase = "idle" /\ pagesRun'.entry = NoEntry
        /\ pagesRun'.dirty = {} /\ pagesRun'.index.scan = 0 /\ pagesRun'.index.closed = 0
    BY <2>2, PageBasics
  <2> QED
    BY <1>1, <2>2, <2>3, ListsKeep
<1>7. CASE WriteListManifest
  <2>1. /\ pagesRun.phase = "listed" /\ lists' = [lists EXCEPT !.listed = pagesRun.planned]
        /\ pagesRun' = [pagesRun EXCEPT !.phase = "sitemap"]
        /\ UNCHANGED <<stamp, job, site, saved, sitemap, linked, unpublished, unsure>>
    BY <1>7 DEF WriteListManifest
  <2>2. pagesRun.planned \in BOOLEAN
    BY <1>1 DEF Runs
  <2>3. lists' \in [links : SUBSET Paths, listed : BOOLEAN] /\ lists'.links = lists.links
    BY <1>1, <2>1, <2>2
  <2>4. /\ pagesRun' \in Runs /\ pagesRun'.phase = "sitemap" /\ pagesRun'.entry = pagesRun.entry
        /\ pagesRun'.dirty = pagesRun.dirty
        /\ pagesRun'.path = pagesRun.path /\ pagesRun'.index = pagesRun.index /\ pagesRun'.live = pagesRun.live
    BY <1>1, <2>1 DEF Runs, Phases
  <2> QED
    BY <1>1, <1>2, <2>1, <2>3, <2>4, ListsKeep
<1> QED
  BY <1>4, <1>5, <1>6, <1>7

\* A run that ends early leaves what it wrote in doubt, and what it linked to
\* without a page.
LEMMA EndsKeep ==
    ASSUME PagesInv, RunEndsEarly, pagesRun' \in Runs, pagesRun'.phase \in {"idle", "days"}, pagesRun'.dirty = {},
           pagesRun'.entry = NoEntry, pagesRun'.index.scan <= stamp, pagesRun'.index.closed <= stamp,
           pagesRun'.phase = "days" /\ pagesRun'.live => saved # NoEntry /\ pagesRun'.path = saved.path
    PROVE  PagesInv'
<1>1. /\ stamp \in Stamps /\ job \in Rows /\ site \in [Paths -> Pages] /\ saved \in Entry \union {NoEntry}
      /\ unpublished \subseteq Paths /\ unsure \subseteq Paths /\ linked \subseteq Paths /\ sitemap \subseteq Paths
      /\ pagesRun.dirty \subseteq Paths /\ lists \in [links : SUBSET Paths, listed : BOOLEAN]
  BY PageTypes DEF PagesInv, PagesTypeOK
<1>2. /\ unsure' = unsure \union pagesRun.dirty /\ unpublished' = unpublished \union (Promised \intersect linked)
      /\ UNCHANGED <<stamp, job, site, saved, lists, sitemap, linked>>
  BY DEF RunEndsEarly
<1>3. PagesTypeOK'
  BY <1>1, <1>2, PagesFit
<1>4. StampsPast' /\ RowFound' /\ ClosedSince'
  BY <1>2 DEF PagesInv, StampsPast, RowFound, ClosedSince
<1>5. SavedFits'
  BY <1>2 DEF PagesInv, SavedFits, Right
<1>6. EntryFits' /\ RunKnows'
  BY DEF EntryFits, RunKnows
<1>7. ForwardsLand' /\ EntriesUp'
  BY <1>2 DEF PagesInv, ForwardsLand, EntriesUp, Up
<1>8. LinksHold'
  BY <1>2, <1>7 DEF PagesInv, LinksHold, EntriesUp, Up
<1> QED
  BY <1>3, <1>4, <1>5, <1>6, <1>7, <1>8 DEF PagesInv

LEMMA FailuresKeep ==
    ASSUME PagesInv, RunDies \/ JobPassFails
    PROVE  PagesInv'
<1>1. 0 <= stamp /\ saved \in Entry \union {NoEntry} /\ (saved # NoEntry => saved.path \in Paths) /\ Legacy \in Paths
  BY PageTypes, PageBasics, ZeroFirst DEF PagesInv
<1>2. /\ IdleRun \in Runs /\ IdleRun.phase = "idle" /\ IdleRun.index.scan = 0 /\ IdleRun.index.closed = 0
      /\ IdleRun.entry = NoEntry /\ IdleRun.dirty = {}
  BY PageBasics
<1>3. CASE RunDies
  <2>1. pagesRun' = IdleRun /\ RunEndsEarly
    BY <1>3 DEF RunDies
  <2> QED
    BY <1>1, <1>2, <2>1, EndsKeep
<1>4. CASE JobPassFails
  <2> DEFINE live == saved # NoEntry
             path == IF saved = NoEntry THEN Legacy ELSE saved.path
  <2>1. pagesRun' = [IdleRun EXCEPT !.phase = "days", !.live = live, !.path = path] /\ RunEndsEarly
    BY <1>4 DEF JobPassFails
  <2>2. live \in BOOLEAN /\ path \in Paths /\ (live => path = saved.path) /\ (live => saved # NoEntry)
    BY <1>1
  <2> HIDE DEF live, path
  <2>3. /\ pagesRun' \in Runs /\ pagesRun'.phase = "days" /\ pagesRun'.index = IdleRun.index
        /\ pagesRun'.entry = NoEntry /\ pagesRun'.dirty = {} /\ pagesRun'.live = live /\ pagesRun'.path = path
    BY <1>2, <2>1, <2>2 DEF Runs, Phases
  <2> QED
    BY <1>1, <1>2, <2>1, <2>2, <2>3, EndsKeep
<1> QED
  BY <1>3, <1>4

LEMMA PagesStep == PagesInv /\ [PagesNext]_pageVars => PagesInv'
<1> SUFFICES ASSUME PagesInv, [PagesNext]_pageVars PROVE PagesInv'
  OBVIOUS
<1>1. CASE UNCHANGED pageVars
  BY <1>1 DEF pageVars, PagesInv, PagesTypeOK, StampsPast, RowFound, ClosedSince, SavedFits, EntryFits, RunKnows,
              ForwardsLand, EntriesUp, LinksHold, Promised, Up, Right
<1>2. CASE PublishNew \/ MovePage
  <2>1. CASE PublishNew
    BY <2>1, PublishKeeps DEF PublishNew
  <2>2. CASE MovePage
    BY <2>2, PublishKeeps DEF MovePage
  <2> QED
    BY <1>2, <2>1, <2>2
<1> QED
  BY <1>1, <1>2, RowActionsKeep, StartKeeps, RelatedKeeps, ForwardKeeps, GoneKeeps, CheckKeeps, RemoveKeeps, SaveKeeps,
     ListActionsKeep, FailuresKeep DEF PagesNext

LEMMA PagesAlways == PagesSpec => []PagesInv
<1> QED
  BY PagesBegin, PagesStep, PTL DEF PagesSpec

\* The row, the page store, the manifest and the run keep to their types.
THEOREM PagesTypes == PagesSpec => []PagesTypeOK
<1>1. PagesInv => PagesTypeOK
  BY DEF PagesInv
<1> QED
  BY <1>1, PagesAlways, PTL

\* No link leads nowhere, for any number of titles and of scans and closings:
\* a path is promised until its page is uploaded, and then it stays up, as the
\* page, as the notice that the job is gone, or forwarding to one of these
\* (publish, generate_job_pages, the sitemap, the hubs and the day pages).
THEOREM LinksLandSomewhere == PagesSpec => []LinksLand
<1>1. PagesInv => LinksLand
  <2> SUFFICES ASSUME PagesInv PROVE LinksLand
    OBVIOUS
  <2>1. /\ lists.links \subseteq Paths /\ linked \subseteq Paths /\ sitemap \subseteq Paths
    BY PageTypes DEF PagesInv
  <2> QED
    BY <2>1 DEF PagesInv, LinksLand, ForwardsLand, EntriesUp, LinksHold, PagesUp, Up
<1> QED
  BY <1>1, PagesAlways, PTL

\* A page the next run leaves alone is right: the manifest's scan and closing
\* say what the page shows, since a scan or a closing takes a new stamp.
THEOREM LeftAloneStaysRight == PagesSpec => []LeftAloneIsRight
<1>1. PagesInv => LeftAloneIsRight
  <2> SUFFICES ASSUME PagesInv, pagesRun.phase = "idle", NEW p \in Paths, p \notin unsure
               PROVE  /\ site[p].is = "job" => saved # NoEntry /\ saved.path = p
                      /\ (/\ saved # NoEntry /\ saved.path = p /\ job.status = "live"
                          /\ saved.scan = job.scan /\ saved.closed = job.closed) => site[p] = JobPage(job)
    BY DEF LeftAloneIsRight
  <2>1. pagesRun.dirty = {} /\ job \in Rows
    BY PageTypes DEF PagesInv, RunKnows
  <2>2. /\ site[p].is = "job" => saved # NoEntry /\ saved.path = p
        /\ saved # NoEntry /\ saved.path = p => Right(saved)
    BY <2>1 DEF PagesInv, SavedFits
  <2>3. JobPage(job) = Shown(<<job.content, job.closed>>)
    BY <2>1, PageBasics
  <2> QED
    BY <2>2, <2>3 DEF Right
<1> QED
  BY <1>1, PagesAlways, PTL

-----------------------------------------------------------------------------
\* BoardListing: the reading of a board.

LEMMA ListingBasics ==
    /\ PageSize \in Nat \ {0} /\ BoardMax \in Nat /\ MaxPages \in Nat
    /\ MaxJobs \in Nat \ {0} /\ Changes \in Nat
    /\ BoardPostings \subseteq Nat
    /\ \A S \in SUBSET BoardPostings : IsFiniteSet(S) /\ Cardinality(S) \in Nat
<1>1. /\ PageSize \in Nat \ {0} /\ BoardMax \in Nat /\ MaxPages \in Nat
      /\ Cap \in Nat \ {0} /\ UncappedCap \in Nat \ {0} /\ Changes \in Nat
  BY BoardListingAssumption
<1>2. IsFiniteSet(BoardPostings)
  BY <1>1, FS_Interval DEF BoardPostings
<1>3. ASSUME NEW S \in SUBSET BoardPostings PROVE IsFiniteSet(S) /\ Cardinality(S) \in Nat
  BY <1>2, FS_Subset, FS_CardinalityType
<1> QED
  BY <1>1, <1>3 DEF BoardPostings, MaxJobs

-----------------------------------------------------------------------------
(* Where a posting is on the board.                                        *)

LEMMA AheadTyped ==
    ASSUME NEW S \in SUBSET BoardPostings, NEW p \in BoardPostings
    PROVE  /\ Ahead(S, p) \in Nat
           /\ p \in S => Ahead(S, p) < Cardinality(S)
<1> DEFINE before == {q \in S : q > p}
<1>1. before \in SUBSET BoardPostings /\ before \in SUBSET S
  OBVIOUS
<1>2. Ahead(S, p) = Cardinality(before)
  BY DEF Ahead
<1>3. Ahead(S, p) \in Nat
  BY <1>1, <1>2, ListingBasics
<1>4. ASSUME p \in S PROVE Ahead(S, p) < Cardinality(S)
  <2>1. p \notin before
    BY ListingBasics
  <2>2. IsFiniteSet(S) /\ Cardinality(S) \in Nat
    BY ListingBasics
  <2>3. Cardinality(before) <= Cardinality(S) /\ (Cardinality(S) = Cardinality(before) => S = before)
    BY <1>1, <2>2, FS_Subset
  <2> QED
    BY <1>2, <1>3, <1>4, <2>1, <2>2, <2>3
<1> QED
  BY <1>3, <1>4

\* The older of two postings has more in front of it.
LEMMA AheadOrders ==
    ASSUME NEW S \in SUBSET BoardPostings, NEW p \in S, NEW q \in S, p < q
    PROVE  Ahead(S, q) < Ahead(S, p)
<1> DEFINE beforeP == {r \in S : r > p}
           beforeQ == {r \in S : r > q}
<1>1. Ahead(S, p) = Cardinality(beforeP) /\ Ahead(S, q) = Cardinality(beforeQ)
  BY DEF Ahead
<1>2. beforeQ \in SUBSET beforeP /\ q \in beforeP /\ q \notin beforeQ
  <2>1. S \subseteq Nat
    BY ListingBasics
  <2>2. p \in Nat /\ q \in Nat /\ q > p /\ ~(q > q)
    BY <2>1
  <2>3. ASSUME NEW r \in beforeQ PROVE r \in beforeP
    <3>1. r \in S /\ r \in Nat /\ r > q
      BY <2>1
    <3>2. r > p
      BY <2>2, <3>1
    <3> QED
      BY <3>1, <3>2
  <2>4. q \in beforeP /\ q \notin beforeQ
    BY <2>2
  <2> QED
    BY <2>3, <2>4
<1>3. IsFiniteSet(beforeP) /\ Cardinality(beforeP) \in Nat /\ Cardinality(beforeQ) \in Nat
  <2>1. beforeP \in SUBSET BoardPostings /\ beforeQ \in SUBSET BoardPostings
    OBVIOUS
  <2> QED
    BY <2>1, ListingBasics
<1> HIDE DEF beforeP, beforeQ
<1>4. Cardinality(beforeQ) <= Cardinality(beforeP) /\ (Cardinality(beforeP) = Cardinality(beforeQ) => beforeP = beforeQ)
  BY <1>2, <1>3, FS_Subset
<1> QED
  BY <1>1, <1>2, <1>3, <1>4

\* Places differ, and every place is taken.
LEMMA Places ==
    ASSUME NEW S \in SUBSET BoardPostings
    PROVE  /\ \A p, q \in S : Ahead(S, p) = Ahead(S, q) => p = q
           /\ \A i \in 0 .. Cardinality(S) - 1 : \E p \in S : Ahead(S, p) = i
<1> DEFINE place == [p \in S |-> Ahead(S, p)]
           T == 0 .. Cardinality(S) - 1
<1>1. S \subseteq Nat /\ IsFiniteSet(S) /\ Cardinality(S) \in Nat
  BY ListingBasics
<1>2. ASSUME NEW p \in S, NEW q \in S, Ahead(S, p) = Ahead(S, q) PROVE p = q
  <2>1. p \in Nat /\ q \in Nat /\ Ahead(S, p) \in Nat
    BY <1>1, AheadTyped
  <2>2. ~(p < q) /\ ~(q < p)
    BY <1>2, <2>1, AheadOrders
  <2> QED
    BY <2>1, <2>2
<1>3. \A p \in S : Ahead(S, p) \in T
  BY <1>1, AheadTyped
<1>4. place \in Injection(S, T)
  BY <1>2, <1>3 DEF Injection, IsInjective
<1>5. IsFiniteSet(T) /\ Cardinality(T) = Cardinality(S)
  <2>1. \A n \in Nat : IsFiniteSet(0 .. n - 1) /\ Cardinality(0 .. n - 1) = n
    <3> TAKE n \in Nat
    <3>1. 0 \in Int /\ n - 1 \in Int
      OBVIOUS
    <3>2. IsFiniteSet(0 .. n - 1) /\ Cardinality(0 .. n - 1) = IF 0 > n - 1 THEN 0 ELSE n - 1 - 0 + 1
      BY ONLY <3>1, FS_Interval
    <3> QED
      BY <3>2
  <2> QED
    BY <1>1, <2>1
<1>6. place \in Surjection(S, T)
  BY <1>4, <1>5, FS_Injection
<1>7. \A i \in T : \E p \in S : place[p] = i
  BY <1>6 DEF Surjection
<1> QED
  BY <1>2, <1>7

\* A posting put up comes before another one, or does not.
LEMMA AheadGrows ==
    ASSUME NEW S \in SUBSET BoardPostings, NEW x \in BoardPostings \ S, NEW p \in BoardPostings
    PROVE  Ahead(S \union {x}, p) \in {Ahead(S, p), Ahead(S, p) + 1}
<1> DEFINE before == {q \in S : q > p}
<1>1. IsFiniteSet(before) /\ x \notin before
  <2>1. before \in SUBSET BoardPostings
    OBVIOUS
  <2> QED
    BY <2>1, ListingBasics
<1>2. Ahead(S, p) = Cardinality(before)
  BY DEF Ahead
<1>3. {q \in S \union {x} : q > p} \in {before, before \union {x}}
  OBVIOUS
<1> HIDE DEF before
<1>4. Cardinality(before \union {x}) = Cardinality(before) + 1
  BY <1>1, FS_AddElement
<1> QED
  BY <1>2, <1>3, <1>4 DEF Ahead

\* A stretch of the board holds as many postings as it has places.
LEMMA Stretch ==
    ASSUME NEW S \in SUBSET BoardPostings, NEW a \in Nat, NEW b \in Nat, a <= b, b <= Cardinality(S),
           NEW T, T = {p \in S : Ahead(S, p) \in a .. b - 1}
    PROVE  Cardinality(T) = b - a
<1> DEFINE place == [p \in T |-> Ahead(S, p)]
<1>1. \A p, q \in T : Ahead(S, p) = Ahead(S, q) => p = q
  BY Places
<1>2. Cardinality(S) \in Nat
  BY ListingBasics
<1>3. \A i \in a .. b - 1 : \E p \in T : Ahead(S, p) = i
  <2> TAKE i \in a .. b - 1
  <2>1. i \in 0 .. Cardinality(S) - 1
    BY <1>2
  <2>2. PICK p \in S : Ahead(S, p) = i
    BY <2>1, Places
  <2> QED
    BY <2>2
<1>4. place \in Bijection(T, a .. b - 1)
  BY <1>1, <1>3 DEF Bijection, Injection, IsInjective, Surjection
<1>5. IsFiniteSet(T)
  <2>1. T \in SUBSET BoardPostings
    OBVIOUS
  <2> QED
    BY <2>1, ListingBasics
<1>6. Cardinality(a .. b - 1) = Cardinality(T)
  BY <1>4, <1>5, FS_Bijection DEF ExistsBijection
<1>7. Cardinality(a .. b - 1) = b - a
  <2>1. a \in Int /\ b - 1 \in Int
    OBVIOUS
  <2>2. Cardinality(a .. b - 1) = IF a > b - 1 THEN 0 ELSE b - 1 - a + 1
    BY ONLY <2>1, FS_Interval
  <2> QED
    BY <2>2
<1> QED
  BY <1>6, <1>7

\* The order in which postings are listed.
LEMMA OrderOf ==
    ASSUME NEW S \in SUBSET BoardPostings
    PROVE  /\ InOrder(S) \in Seq(BoardPostings)
           /\ Len(InOrder(S)) = Cardinality(S)
           /\ Range(InOrder(S)) = S
<1> DEFINE n == Cardinality(S)
           at(i) == CHOOSE p \in S : Ahead(S, p) = i - 1
<1>1. n \in Nat
  BY ListingBasics
<1>2. InOrder(S) = [i \in 1 .. n |-> at(i)]
  BY DEF InOrder
<1>3. \A i \in 1 .. n : at(i) \in S /\ Ahead(S, at(i)) = i - 1
  <2> TAKE i \in 1 .. n
  <2>1. i - 1 \in 0 .. n - 1
    BY <1>1
  <2>2. \E p \in S : Ahead(S, p) = i - 1
    BY <2>1, Places
  <2> QED
    BY <2>2
<1>4. \A p \in S : \E i \in 1 .. n : at(i) = p
  <2> TAKE p \in S
  <2> DEFINE i == Ahead(S, p) + 1
  <2>1. i \in 1 .. n /\ Ahead(S, p) = i - 1
    BY <1>1, AheadTyped
  <2>2. at(i) \in S /\ Ahead(S, at(i)) = Ahead(S, p)
    BY <1>3, <2>1
  <2>3. at(i) = p
    BY <2>2, Places
  <2> QED
    BY <2>1, <2>3
<1> HIDE DEF at, n
<1>5. InOrder(S) \in Seq(BoardPostings) /\ Len(InOrder(S)) = n
  <2>1. InOrder(S) \in [1 .. n -> BoardPostings]
    BY <1>2, <1>3
  <2> QED
    BY <1>1, <2>1
<1>6. Range(InOrder(S)) = S
  BY <1>2, <1>3, <1>4 DEF Range
<1> QED
  BY <1>5, <1>6 DEF n
\* Part of a stretch holds no more.
LEMMA StretchHolds ==
    ASSUME NEW S \in SUBSET BoardPostings, NEW a \in Nat, NEW b \in Nat, a <= b,
           NEW T \in SUBSET S, \A p \in T : Ahead(S, p) \in a .. b - 1
    PROVE  Cardinality(T) <= b - a
<1> DEFINE place == [p \in T |-> Ahead(S, p)]
           I == a .. b - 1
<1>1. \A p, q \in T : Ahead(S, p) = Ahead(S, q) => p = q
  BY Places
<1>2. place \in Injection(T, I)
  BY <1>1 DEF Injection, IsInjective
<1>3. IsFiniteSet(I) /\ Cardinality(I) = b - a
  <2>1. a \in Int /\ b - 1 \in Int
    OBVIOUS
  <2>2. IsFiniteSet(a .. b - 1) /\ Cardinality(a .. b - 1) = IF a > b - 1 THEN 0 ELSE b - 1 - a + 1
    BY ONLY <2>1, FS_Interval
  <2> QED
    BY <2>2
<1> HIDE DEF I, place
<1>4. Cardinality(T) <= Cardinality(I)
  BY <1>2, <1>3, FS_Injection
<1> QED
  BY <1>3, <1>4

-----------------------------------------------------------------------------
(* The rows that were read, and the different URLs among them.             *)

LEMMA UpToTyped ==
    ASSUME NEW n \in Nat
    PROVE  IsFiniteSet(1 .. n) /\ Cardinality(1 .. n) = n
<1>1. 1 \in Int /\ n \in Int
  OBVIOUS
<1>2. IsFiniteSet(1 .. n) /\ Cardinality(1 .. n) = IF 1 > n THEN 0 ELSE n - 1 + 1
  BY ONLY <1>1, FS_Interval
<1> QED
  BY <1>2

\* The first rows of a sequence have no more URLs than they are rows, and only
\* rows that differ have as many.
LEMMA FirstRows ==
    ASSUME NEW s \in Seq(BoardPostings), NEW n \in 0 .. Len(s),
           NEW T, T = {s[j] : j \in 1 .. n}
    PROVE  /\ T \in SUBSET BoardPostings
           /\ IsFiniteSet(T) /\ Cardinality(T) \in 0 .. n
           /\ Cardinality(T) = n => \A i, j \in 1 .. n : s[i] = s[j] => i = j
           /\ (\A i, j \in 1 .. n : s[i] = s[j] => i = j) => Cardinality(T) = n
<1> DEFINE f == [j \in 1 .. n |-> s[j]]
           N == 1 .. n
<1>1. n \in Nat /\ \A j \in N : s[j] \in BoardPostings
  OBVIOUS
<1>2. T \in SUBSET BoardPostings /\ IsFiniteSet(T) /\ Cardinality(T) \in Nat
  BY <1>1, ListingBasics
<1>3. f \in Surjection(N, T)
  BY DEF Surjection
<1>4. IsFiniteSet(N) /\ Cardinality(N) = n
  BY <1>1, UpToTyped
<1>5. f \in Injection(N, T) <=> \A i, j \in N : s[i] = s[j] => i = j
  BY DEF Injection, IsInjective
<1> HIDE DEF f, N
<1>6. /\ Cardinality(T) <= Cardinality(N)
      /\ Cardinality(T) = Cardinality(N) <=> f \in Injection(N, T)
  BY <1>3, <1>4, FS_Surjection
<1>7. Cardinality(T) \in 0 .. n
  BY <1>1, <1>2, <1>4, <1>6
<1> QED
  BY <1>2, <1>4, <1>5, <1>6, <1>7 DEF N

LEMMA RangeTyped ==
    ASSUME NEW s \in Seq(BoardPostings)
    PROVE  /\ Range(s) \in SUBSET BoardPostings /\ IsFiniteSet(Range(s))
           /\ Len(s) \in Nat /\ Cardinality(Range(s)) \in 0 .. Len(s)
           /\ Cardinality(Range(s)) = Len(s) => \A i, j \in 1 .. Len(s) : s[i] = s[j] => i = j
           /\ (\A i, j \in 1 .. Len(s) : s[i] = s[j] => i = j) => Cardinality(Range(s)) = Len(s)
<1>1. Range(s) = {s[j] : j \in 1 .. Len(s)}
  BY DEF Range
<1>2. Len(s) \in Nat /\ Len(s) \in 0 .. Len(s)
  OBVIOUS
<1> DEFINE T == Range(s)
           n == Len(s)
<1> HIDE DEF T
<1>3. T = {s[j] : j \in 1 .. n}
  BY <1>1 DEF T
<1>4. /\ T \in SUBSET BoardPostings
      /\ IsFiniteSet(T) /\ Cardinality(T) \in 0 .. n
      /\ Cardinality(T) = n => \A i, j \in 1 .. n : s[i] = s[j] => i = j
      /\ (\A i, j \in 1 .. n : s[i] = s[j] => i = j) => Cardinality(T) = n
  BY <1>2, <1>3, FirstRows
<1> QED
  BY <1>2, <1>4 DEF T

LEMMA Joined ==
    ASSUME NEW s \in Seq(BoardPostings), NEW t \in Seq(BoardPostings)
    PROVE  /\ s \o t \in Seq(BoardPostings)
           /\ Len(s \o t) = Len(s) + Len(t)
           /\ Range(s \o t) = Range(s) \union Range(t)
<1> DEFINE m == Len(s)
           n == Len(t)
           u == s \o t
<1>1. /\ u \in Seq(BoardPostings) /\ Len(u) = m + n
      /\ \A i \in 1 .. m + n : u[i] = IF i <= m THEN s[i] ELSE t[i - m]
  BY ConcatProperties
<1>2. m \in Nat /\ n \in Nat /\ DOMAIN s = 1 .. m /\ DOMAIN t = 1 .. n /\ DOMAIN u = 1 .. m + n
  BY <1>1
<1> HIDE DEF m, n, u
<1>3. ASSUME NEW x \in Range(u) PROVE x \in Range(s) \union Range(t)
  <2>1. PICK i \in 1 .. m + n : u[i] = x
    BY <1>2, <1>3 DEF Range
  <2>2. CASE i <= m
    <3>1. i \in 1 .. m /\ s[i] = x
      BY <1>1, <1>2, <2>1, <2>2
    <3> QED
      BY <1>2, <3>1 DEF Range
  <2>3. CASE ~(i <= m)
    <3>1. i - m \in 1 .. n /\ t[i - m] = x
      BY <1>1, <1>2, <2>1, <2>3
    <3> QED
      BY <1>2, <3>1 DEF Range
  <2> QED
    BY <2>2, <2>3
<1>4. ASSUME NEW x \in Range(s) PROVE x \in Range(u)
  <2>1. PICK i \in 1 .. m : s[i] = x
    BY <1>2, <1>4 DEF Range
  <2>2. i \in 1 .. m + n /\ u[i] = x
    BY <1>1, <1>2, <2>1
  <2> QED
    BY <1>2, <2>2 DEF Range
<1>5. ASSUME NEW x \in Range(t) PROVE x \in Range(u)
  <2>1. PICK i \in 1 .. n : t[i] = x
    BY <1>2, <1>5 DEF Range
  <2>2. PICK k \in 1 .. m + n : ~(k <= m) /\ k - m = i
    <3>1. i + m \in 1 .. m + n /\ ~(i + m <= m) /\ i + m - m = i
      BY <1>2
    <3> QED
      BY <1>2, <3>1
  <2>3. u[k] = x
    BY <1>1, <2>1, <2>2
  <2> QED
    BY <1>2, <2>3 DEF Range
<1> QED
  BY <1>1, <1>3, <1>4, <1>5 DEF m, n, u

-----------------------------------------------------------------------------
\* The least of a set of numbers.
LEMMA LeastOf ==
    ASSUME NEW T, T \subseteq Nat, T # {}
    PROVE  \E n \in T : \A m \in T : ~(m < n)
<1> DEFINE upTo == {1 .. n : n \in T}
<1>1. upTo \subseteq FiniteSubsetsOf(Int) /\ upTo # {}
  <2>1. ASSUME NEW n \in T PROVE 1 .. n \in FiniteSubsetsOf(Int)
    <3>1. n \in Int /\ 1 .. n \subseteq Int
      OBVIOUS
    <3>2. IsFiniteSet(1 .. n)
      BY <3>1, FS_Interval
    <3> QED
      BY <3>1, <3>2 DEF FiniteSubsetsOf
  <2> QED
    BY <2>1
<1>2. IsWellFoundedOn(StrictSubsetOrdering(Int), FiniteSubsetsOf(Int))
  BY FS_StrictSubsetOrderingWellFounded
<1> HIDE DEF upTo
<1>3. PICK s \in upTo : \A r \in upTo : <<r, s>> \notin StrictSubsetOrdering(Int)
  BY <1>1, <1>2, WFMin
<1> USE DEF upTo
<1>4. PICK n \in T : s = 1 .. n
  BY <1>3
<1>5. ASSUME NEW m \in T, m < n PROVE FALSE
  <2>1. n \in Nat /\ m \in Nat
    OBVIOUS
  <2>2. 1 .. m \subseteq 1 .. n /\ n \in 1 .. n /\ n \notin 1 .. m
    BY <1>5, <2>1
  <2>3. 1 .. m \in SUBSET Int /\ 1 .. n \in SUBSET Int
    OBVIOUS
  <2>4. <<1 .. m, 1 .. n>> \in StrictSubsetOrdering(Int)
    BY <2>2, <2>3 DEF StrictSubsetOrdering
  <2> QED
    BY <1>3, <1>4, <2>4
<1> QED
  BY <1>5

\* A listing below the cap was not cut.
LEMMA NotCut ==
    ASSUME ListingTypeOK, Cardinality(LimitJobUrls) < MaxJobs,
           ~(Repetitive /\ adapter.cuts = "rows" /\ Len(reading.got) > MaxJobs)
    PROVE  LimitJobUrls = Range(reading.got)
<1> DEFINE s == reading.got
           n == Len(s)
           L == LimitJobUrls
           M == MaxJobs
<1>1. s \in Seq(BoardPostings) /\ n \in Nat /\ DOMAIN s = 1 .. n /\ M \in Nat \ {0}
  <2>1. s \in Seq(BoardPostings)
    BY DEF ListingTypeOK
  <2> QED
    BY <2>1, ListingBasics
<1>2. L = {s[i] : i \in {i \in 1 .. n : CutPlace(i) <= M}}
  BY <1>1 DEF LimitJobUrls
<1>3. Range(s) = {s[i] : i \in 1 .. n}
  BY <1>1 DEF Range
<1>4. IsFiniteSet(L) /\ Cardinality(L) \in Nat /\ Cardinality(L) < M
  <2>1. L \in SUBSET BoardPostings
    BY <1>1, <1>2
  <2> QED
    BY <2>1, ListingBasics
<1>5. \A i \in 1 .. n : CutPlace(i) \in 0 .. i
  <2> TAKE i \in 1 .. n
  <2>1. CASE adapter.cuts = "rows"
    BY <1>1, <2>1 DEF CutPlace
  <2>2. CASE adapter.cuts # "rows"
    <3> DEFINE T == {s[j] : j \in 1 .. i}
    <3>1. i \in 0 .. Len(s)
      BY <1>1
    <3> HIDE DEF n
    <3>2. Cardinality(T) \in 0 .. i
      BY <1>1, <3>1, FirstRows
    <3> QED
      BY <2>2, <3>2 DEF CutPlace
  <2> QED
    BY <2>1, <2>2
<1>6. CASE n <= M
  <2>1. \A i \in 1 .. n : CutPlace(i) <= M
    BY <1>1, <1>5, <1>6
  <2> QED
    BY <1>2, <1>3, <2>1
<1>7. CASE n > M /\ adapter.cuts = "rows"
  <2>1. ~Repetitive
    BY <1>7
  <2>2. Cardinality(Range(s)) = n
    BY <1>1, <2>1, RangeTyped DEF Repetitive
  <2>3. \A i, j \in 1 .. n : s[i] = s[j] => i = j
    BY <1>1, <2>2, RangeTyped
  <2>4. L = {s[i] : i \in 1 .. M}
    <3>1. {i \in 1 .. n : CutPlace(i) <= M} = 1 .. M
      BY <1>1, <1>7 DEF CutPlace
    <3> QED
      BY <1>2, <3>1
  <2>5. M \in 0 .. Len(s) /\ \A i, j \in 1 .. M : s[i] = s[j] => i = j
    BY <1>1, <1>7, <2>3
  <2> HIDE DEF L, M, s, n
  <2>6. Cardinality(L) = M
    BY <1>1, <2>4, <2>5, FirstRows DEF n
  <2> QED
    BY <1>1, <1>4, <2>6
<1>8. CASE adapter.cuts # "rows"
  <2> DEFINE T == {i \in 1 .. n : CutPlace(i) > M}
  <2>1. SUFFICES ASSUME T # {} PROVE FALSE
    <3>1. T = {} => \A i \in 1 .. n : CutPlace(i) <= M
      BY <1>1, <1>5
    <3> QED
      BY <1>2, <1>3, <2>1, <3>1
  <2>2. T \subseteq Nat
    BY <1>1
  <2>3. PICK k \in T : \A m \in T : ~(m < k)
    <3> HIDE DEF T
    <3> QED
      BY <2>1, <2>2, LeastOf
  <2>4. k \in 1 .. n /\ CutPlace(k) > M
    BY <2>3
  <2> DEFINE U == {s[j] : j \in 1 .. k}
  <2>5. CutPlace(k) = Cardinality(U)
    BY <1>8 DEF CutPlace
  <2>6. \A j \in 1 .. k : j # k => s[j] \in L
    <3> TAKE j \in 1 .. k
    <3> HAVE j # k
    <3>1. j \in 1 .. n /\ j < k
      BY <1>1, <2>4
    <3>2. CutPlace(j) <= M
      BY <1>1, <1>5, <2>3, <3>1
    <3> QED
      BY <1>2, <3>1, <3>2
  <2>7. U \in SUBSET (L \union {s[k]})
    BY <2>6
  <2> HIDE DEF L, U
  <2>8. IsFiniteSet(L \union {s[k]}) /\ Cardinality(L \union {s[k]}) <= Cardinality(L) + 1
    <3>1. /\ IsFiniteSet(L \union {s[k]})
          /\ Cardinality(L \union {s[k]}) = IF s[k] \in L THEN Cardinality(L) ELSE Cardinality(L) + 1
      BY ONLY <1>4, FS_AddElement
    <3> QED
      BY <1>4, <3>1
  <2>9. Cardinality(U) <= Cardinality(L \union {s[k]})
    BY <2>7, <2>8, FS_Subset
  <2>10. Cardinality(L \union {s[k]}) \in Nat /\ Cardinality(U) \in Int
    BY <1>5, <2>4, <2>5, <2>8, FS_CardinalityType
  <2> QED
    BY <1>1, <1>4, <2>4, <2>5, <2>8, <2>9, <2>10
<1> QED
  BY <1>1, <1>6, <1>7, <1>8

-----------------------------------------------------------------------------
(* One page.                                                               *)

LEMMA PageTyped ==
    ASSUME ListingTypeOK
    PROVE  /\ Page \in SUBSET board /\ Page \in SUBSET BoardPostings
           /\ IsFiniteSet(Page) /\ Cardinality(Page) \in Nat
<1>1. Page \in SUBSET board /\ Page \in SUBSET BoardPostings
  BY DEF Page, ListingTypeOK
<1> QED
  BY <1>1, ListingBasics

LEMMA ReadingChanged ==
    ASSUME NEW r \in [stop : Stops, page : Nat, offset : Nat, got : Seq(BoardPostings), rows : Nat],
           NEW n \in Nat, NEW g \in Seq(BoardPostings), NEW w \in Nat, NEW o \in Nat,
           NEW q, q = [r EXCEPT !.page = n, !.got = g, !.rows = w, !.offset = o]
    PROVE  /\ q \in [stop : Stops, page : Nat, offset : Nat, got : Seq(BoardPostings), rows : Nat]
           /\ q.stop = r.stop /\ q.got = g /\ q.rows = w /\ q.offset = o
<1> DEFINE GotSeqs == Seq(BoardPostings)
<1> HIDE DEF GotSeqs
<1>1. r \in [stop : Stops, page : Nat, offset : Nat, got : GotSeqs, rows : Nat] /\ g \in GotSeqs
  BY DEF GotSeqs
<1>2. /\ q \in [stop : Stops, page : Nat, offset : Nat, got : GotSeqs, rows : Nat]
      /\ q.stop = r.stop /\ q.got = g /\ q.rows = w /\ q.offset = o
  BY <1>1
<1> QED
  BY <1>2 DEF GotSeqs

LEMMA WithFields ==
    ASSUME ListingTypeOK, NEW page \in SUBSET BoardPostings
    PROVE  /\ With(page) \in [stop : Stops, page : Nat, offset : Nat, got : Seq(BoardPostings), rows : Nat]
           /\ With(page).stop = reading.stop
           /\ With(page).rows = reading.rows + Cardinality(page)
           /\ With(page).offset = reading.offset + (IF adapter.advances = "new" THEN Cardinality(Unseen(page)) ELSE PageSize)
           /\ Len(With(page).got) = Len(reading.got) + Cardinality(Added(page))
           /\ Range(With(page).got) = Range(reading.got) \union Added(page)
           /\ With(page).got = reading.got \o InOrder(Added(page))
           /\ Added(page) \in SUBSET page /\ Unseen(page) \in SUBSET page
           /\ Cardinality(Added(page)) \in Nat /\ Cardinality(Unseen(page)) \in Nat /\ Cardinality(page) \in Nat
<1>1. reading \in [stop : Stops, page : Nat, offset : Nat, got : Seq(BoardPostings), rows : Nat]
  BY DEF ListingTypeOK
<1>2. Added(page) \in SUBSET page /\ Unseen(page) \in SUBSET page
  BY DEF Added, Unseen, Kept
<1>3. Cardinality(Added(page)) \in Nat /\ Cardinality(Unseen(page)) \in Nat /\ Cardinality(page) \in Nat
  BY <1>2, ListingBasics
<1>4. /\ InOrder(Added(page)) \in Seq(BoardPostings)
      /\ Len(InOrder(Added(page))) = Cardinality(Added(page))
      /\ Range(InOrder(Added(page))) = Added(page)
  <2>1. Added(page) \in SUBSET BoardPostings
    BY <1>2
  <2> QED
    BY <2>1, OrderOf
<1> DEFINE got == reading.got \o InOrder(Added(page))
           offset == reading.offset + (IF adapter.advances = "new" THEN Cardinality(Unseen(page)) ELSE PageSize)
<1>5. /\ got \in Seq(BoardPostings)
      /\ Len(got) = Len(reading.got) + Cardinality(Added(page))
      /\ Range(got) = Range(reading.got) \union Added(page)
  BY <1>1, <1>4, Joined
<1>6. offset \in Nat
  BY <1>1, <1>3, ListingBasics
<1>7. With(page) = [reading EXCEPT !.page = reading.page + 1, !.got = got,
                                   !.rows = reading.rows + Cardinality(page), !.offset = offset]
  BY <1>1 DEF With
<1> HIDE DEF got, offset
<1>8. /\ With(page) \in [stop : Stops, page : Nat, offset : Nat, got : Seq(BoardPostings), rows : Nat]
      /\ With(page).stop = reading.stop /\ With(page).got = got
      /\ With(page).rows = reading.rows + Cardinality(page) /\ With(page).offset = offset
  <2>1. reading.page \in Nat /\ reading.rows \in Nat
    BY <1>1
  <2>2. reading.page + 1 \in Nat /\ reading.rows + Cardinality(page) \in Nat
    BY <1>3, <2>1
  <2>3. got \in Seq(BoardPostings)
    BY <1>5
  <2> QED
    BY <1>1, <1>6, <1>7, <2>2, <2>3, ReadingChanged
<1> QED
  BY <1>2, <1>3, <1>5, <1>8 DEF got, offset

-----------------------------------------------------------------------------
(* Type correctness.                                                       *)

LEMMA ListingTypeInit == ListingInit => ListingTypeOK
<1> SUFFICES ASSUME ListingInit PROVE ListingTypeOK
  OBVIOUS
<1>1. board \subseteq BoardPostings
  <2>1. PICK n \in 1 .. BoardMax : board = 1 .. n
    BY DEF ListingInit
  <2> QED
    BY <2>1, ListingBasics DEF BoardPostings
<1>2. reading \in [stop : Stops, page : Nat, offset : Nat, got : Seq(BoardPostings), rows : Nat]
  BY EmptySeq DEF ListingInit, Stops
<1>3. uncapped \in BOOLEAN /\ repeats \in BOOLEAN /\ removed \in BOOLEAN
  BY DEF ListingInit
<1>4. changes \in 0 .. Changes /\ throughout \subseteq board /\ adapter \in Adapters
  BY ListingBasics DEF ListingInit
<1> QED
  BY <1>1, <1>2, <1>3, <1>4 DEF ListingTypeOK

LEMMA OtherwiseTyped ==
    ASSUME ListingTypeOK
    PROVE  /\ Otherwise(adapter.shell) \in {"failed", "partial", "quiet"}
           /\ Otherwise(adapter.error) \in {"failed", "partial", "quiet"}
<1>1. adapter \in Reader
  BY AdaptersAssumption DEF ListingTypeOK
<1> QED
  BY <1>1 DEF Reader, Otherwise

LEMMA ListingTypeStep == ListingTypeOK /\ [ListingNext]_listingVars => ListingTypeOK'
<1> SUFFICES ASSUME ListingTypeOK, [ListingNext]_listingVars PROVE ListingTypeOK'
  OBVIOUS
<1> DEFINE Record == [stop : Stops, page : Nat, offset : Nat, got : Seq(BoardPostings), rows : Nat]
<1>1. reading \in Record
  BY DEF ListingTypeOK
<1>2. ASSUME NEW answer \in Responses, ReadPage(answer) PROVE ListingTypeOK'
  <2>1. reading' \in Record
    <3>1. CASE answer = "listing"
      <4>1. With(Page) \in Record
        BY PageTyped, WithFields
      <4>2. StopsAt(Page, With(Page)) \in Stops
        BY DEF StopsAt, Stops
      <4>3. reading' = [With(Page) EXCEPT !.stop = StopsAt(Page, With(Page))]
        BY <1>2, <3>1 DEF ReadPage, Read
      <4> QED
        BY <4>1, <4>2, <4>3
    <3>2. CASE answer \in {"shell", "error"}
      <4>1. PICK what \in {"failed", "partial", "quiet"} : reading' = [reading EXCEPT !.stop = what]
        BY <1>2, <3>2, OtherwiseTyped DEF ReadPage
      <4> QED
        BY <1>1, <4>1 DEF Stops
    <3> QED
      BY <3>1, <3>2 DEF Responses
  <2> QED
    BY <1>2, <2>1 DEF ReadPage, ListingTypeOK, BoardPostings
<1>3. CASE TimeUp
  <2>1. reading' \in Record
    BY <1>1, <1>3 DEF TimeUp, Stops
  <2> QED
    BY <1>3, <2>1 DEF TimeUp, ListingTypeOK, BoardPostings
<1>4. CASE BoardChanges
  <2>1. changes' \in 0 .. Changes
    BY <1>4, ListingBasics DEF BoardChanges, ListingTypeOK
  <2>2. reading' = reading /\ adapter' = adapter /\ uncapped' = uncapped /\ repeats' = repeats
    BY <1>4 DEF BoardChanges
  <2>3. removed' \in BOOLEAN /\ board' \subseteq BoardPostings /\ throughout' \subseteq board'
    BY <1>4 DEF BoardChanges, ListingTypeOK
  <2> QED
    BY <1>1, <2>1, <2>2, <2>3 DEF ListingTypeOK, BoardPostings
<1>5. CASE UNCHANGED listingVars
  BY <1>5 DEF listingVars, ListingTypeOK, BoardPostings
<1> QED
  BY <1>2, <1>3, <1>4, <1>5 DEF ListingNext

\* A reading is always one the code can be in: its rows and its offset are
\* numbers, and it lists postings of the board.
THEOREM ListingTypes == ListingSpec => []ListingTypeOK
BY ListingTypeInit, ListingTypeStep, PTL DEF ListingSpec

-----------------------------------------------------------------------------
(* What has been gathered of a board from which nothing is taken down.     *)

\* Pages are answered with pages, nothing is taken down, nothing left out.
Plain ==
    /\ adapter.reads = "pages" /\ ~repeats /\ ~removed
    /\ adapter.recent => uncapped

\* The postings that were up throughout are read as far as the offset; what is
\* read has moved back by the postings put up since, at most; and the rows
\* are as many as the loop believes.
Gathered(r) ==
    /\ \A p \in throughout : Ahead(board, p) < r.offset => p \in Range(r.got)
    /\ \A p \in Range(r.got) : p \in board /\ Ahead(board, p) < r.offset + changes
    /\ Len(r.got) <= r.rows /\ (adapter.counts # "distinct" => Len(r.got) = r.rows)
    /\ adapter.advances = "page" => r.rows <= r.offset

\* Some adapters do not list a URL twice.
Distinct(r) == adapter.counts = "distinct" => Len(r.got) = Cardinality(Range(r.got))

\* Until a page is short, all were full.
FullPages(r) == "short" \in adapter.stops /\ adapter.advances = "page" => r.rows = r.offset

LEMMA PageDistinct ==
    ASSUME ListingTypeOK, NEW page \in SUBSET BoardPostings, Distinct(reading)
    PROVE  Distinct(With(page))
<1> SUFFICES ASSUME adapter.counts = "distinct"
             PROVE  Len(With(page).got) = Cardinality(Range(With(page).got))
  BY DEF Distinct
<1> DEFINE seen == Range(reading.got)
           new == Added(page)
<1>1. reading.got \in Seq(BoardPostings)
  BY DEF ListingTypeOK
<1>2. IsFiniteSet(seen) /\ Cardinality(seen) = Len(reading.got) /\ Len(reading.got) \in Nat
  BY <1>1, RangeTyped DEF Distinct
<1>3. new \in SUBSET BoardPostings /\ IsFiniteSet(new) /\ Cardinality(new) \in Nat
  BY WithFields, ListingBasics
<1>4. seen \intersect new = {}
  BY DEF Added, Unseen
<1>5. Len(With(page).got) = Cardinality(seen) + Cardinality(new) /\ Range(With(page).got) = seen \union new
  BY <1>2, WithFields
<1> HIDE DEF seen, new
<1>6. Cardinality(seen \union new) = Cardinality(seen) + Cardinality(new) - Cardinality(seen \intersect new)
  BY ONLY <1>2, <1>3, FS_Union
<1>7. Cardinality(seen \intersect new) = 0
  BY <1>4, FS_EmptySet
<1> QED
  BY <1>2, <1>3, <1>5, <1>6, <1>7

\* The postings of a page are those of a stretch of the board.
LEMMA PageIsStretch ==
    ASSUME ListingTypeOK, Plain
    PROVE  /\ Page = {p \in board : Ahead(board, p) \in reading.offset .. reading.offset + PageSize - 1}
           /\ Cardinality(Page) <= PageSize
           /\ reading.offset + PageSize <= Cardinality(board) => Cardinality(Page) = PageSize
           /\ PageSize \in Nat \ {0} /\ reading.offset \in Nat
           /\ board \in SUBSET BoardPostings /\ Cardinality(board) \in Nat
           /\ \A p \in board : Ahead(board, p) \in Nat /\ Ahead(board, p) < Cardinality(board)
<1> DEFINE a == reading.offset
           b == reading.offset + PageSize
<1>1. PageSize \in Nat \ {0} /\ a \in Nat /\ b \in Nat /\ a <= b /\ b - a = PageSize
  BY ListingBasics DEF ListingTypeOK
<1>2. board \in SUBSET BoardPostings
  BY DEF ListingTypeOK
<1>3. Cardinality(board) \in Nat
  BY <1>2, ListingBasics
<1>4. Page = {p \in board : Ahead(board, p) \in a .. b - 1}
  <2>1. adapter.reads # "feed" /\ (IF repeats THEN 0 ELSE reading.offset) = reading.offset
    BY DEF Plain
  <2>2. Page = {p \in board : Ahead(board, p) \in reading.offset .. reading.offset + PageSize - 1}
    BY <2>1, Zenon DEF Page
  <2>3. reading.offset + PageSize - 1 = b - 1
    BY <1>1
  <2> QED
    BY <2>2, <2>3
<1>5. \A p \in board : Ahead(board, p) \in Nat /\ Ahead(board, p) < Cardinality(board)
  BY <1>2, AheadTyped
<1> HIDE DEF a, b
<1>6. Cardinality(Page) <= b - a
  <2>1. Page \in SUBSET board /\ \A p \in Page : Ahead(board, p) \in a .. b - 1
    BY <1>4
  <2> QED
    BY <1>1, <1>2, <2>1, StretchHolds
<1>7. ASSUME b <= Cardinality(board) PROVE Cardinality(Page) = b - a
  BY <1>1, <1>2, <1>4, <1>7, Stretch
<1> QED
  BY <1>1, <1>2, <1>3, <1>4, <1>5, <1>6, <1>7 DEF a, b

\* A page leaves nothing out of a plain reading.
LEMMA PageAdds ==
    ASSUME ListingTypeOK, Plain, Gathered(reading)
    PROVE  /\ Page \subseteq Range(With(Page).got)
           /\ Range(With(Page).got) = Range(reading.got) \union Page
           /\ \A p \in throughout :
                 Ahead(board, p) < reading.offset + PageSize => p \in Range(With(Page).got)
<1>1. Page \in SUBSET BoardPostings
  BY PageTyped
<1>2. Range(With(Page).got) = Range(reading.got) \union Added(Page)
  BY <1>1, WithFields
<1>3. Kept(Page) = Page
  BY DEF Kept, Plain
<1>4. Range(With(Page).got) = Range(reading.got) \union Page
  BY <1>2, <1>3 DEF Added, Unseen
<1>5. ASSUME NEW p \in throughout, Ahead(board, p) < reading.offset + PageSize
      PROVE  p \in Range(With(Page).got)
  <2>1. p \in board /\ Ahead(board, p) \in Nat
    BY PageIsStretch DEF ListingTypeOK
  <2>2. CASE Ahead(board, p) < reading.offset
    BY <1>4, <2>2 DEF Gathered
  <2>3. CASE ~(Ahead(board, p) < reading.offset)
    <3>1. Ahead(board, p) \in reading.offset .. reading.offset + PageSize - 1
      BY <1>5, <2>1, <2>3, PageIsStretch
    <3> QED
      BY <1>4, <2>1, <3>1, PageIsStretch
  <2> QED
    BY <2>2, <2>3
<1> QED
  BY <1>4, <1>5

\* The postings of a page that had been read before were pushed back there.
LEMMA SeenAgain ==
    ASSUME ListingTypeOK, Plain, Gathered(reading)
    PROVE  /\ Cardinality(Page) <= Cardinality(Unseen(Page)) + changes
           /\ Cardinality(Unseen(Page)) <= Cardinality(Page)
           /\ Cardinality(Page) \in Nat /\ Cardinality(Unseen(Page)) \in Nat /\ changes \in Nat
<1> DEFINE again == {p \in Page : p \in Range(reading.got)}
<1>1. changes \in Nat /\ reading.offset \in Nat
  BY ListingBasics DEF ListingTypeOK
<1>2. IsFiniteSet(Page) /\ Page \in SUBSET board /\ Page \in SUBSET BoardPostings /\ board \in SUBSET BoardPostings
  BY PageTyped DEF ListingTypeOK
<1>3. \A p \in again : Ahead(board, p) \in reading.offset .. reading.offset + changes - 1
  <2> TAKE p \in again
  <2>1. Ahead(board, p) \in Nat /\ Ahead(board, p) >= reading.offset
    BY <1>1, PageIsStretch
  <2>2. Ahead(board, p) < reading.offset + changes
    BY DEF Gathered
  <2> QED
    BY <1>1, <2>1, <2>2
<1>4. again \in SUBSET board /\ Unseen(Page) \in SUBSET Page /\ again \in SUBSET Page
  BY <1>2 DEF Unseen
<1>5. Page = Unseen(Page) \union again
  BY DEF Unseen
<1> HIDE DEF again
<1>6. Cardinality(again) <= changes
  <2> DEFINE a == reading.offset
             b == reading.offset + changes
  <2>1. a \in Nat /\ b \in Nat /\ a <= b /\ b - a = changes
    BY <1>1
  <2>2. \A p \in again : Ahead(board, p) \in a .. b - 1
    <3>1. reading.offset + changes - 1 = b - 1
      BY <1>1
    <3> QED
      BY <1>3, <3>1
  <2> HIDE DEF a, b
  <2>3. Cardinality(again) <= b - a
    BY <1>2, <1>4, <2>1, <2>2, StretchHolds
  <2> QED
    BY <2>1, <2>3
<1>7. /\ IsFiniteSet(again) /\ Cardinality(again) \in Nat
      /\ IsFiniteSet(Unseen(Page)) /\ Cardinality(Unseen(Page)) \in Nat
      /\ Cardinality(Unseen(Page)) <= Cardinality(Page) /\ Cardinality(Page) \in Nat
  BY <1>2, <1>4, FS_Subset, FS_CardinalityType
<1>8. Cardinality(Unseen(Page) \intersect again) \in Nat
  <2>1. IsFiniteSet(Unseen(Page) \intersect again)
    BY <1>7, FS_Intersection
  <2> QED
    BY <2>1, FS_CardinalityType
<1>9. Cardinality(Page) = Cardinality(Unseen(Page)) + Cardinality(again)
                             - Cardinality(Unseen(Page) \intersect again)
  BY <1>5, <1>7, FS_Union
<1> QED
  BY <1>1, <1>6, <1>7, <1>8, <1>9

\* A page that reaches a posting holds every one from its start to there.
LEMMA PageReaches ==
    ASSUME ListingTypeOK, Plain, NEW p \in Page
    PROVE  Ahead(board, p) < reading.offset + Cardinality(Page)
<1> DEFINE a == reading.offset
           b == Ahead(board, p) + 1
           upTo == {q \in board : Ahead(board, q) \in a .. b - 1}
<1>1. a \in Nat /\ board \in SUBSET BoardPostings /\ p \in board /\ PageSize \in Nat
  BY PageIsStretch
<1>2. Ahead(board, p) \in a .. a + PageSize - 1 /\ Ahead(board, p) < Cardinality(board)
      /\ Cardinality(board) \in Nat
  BY PageIsStretch
<1>3. b \in Nat /\ a <= b /\ b <= Cardinality(board) /\ b <= a + PageSize
  BY <1>1, <1>2
<1>4. upTo \in SUBSET Page
  <2>1. \A q \in upTo : Ahead(board, q) \in a .. a + PageSize - 1
    BY <1>1, <1>3
  <2> QED
    BY <2>1, PageIsStretch
<1> HIDE DEF a, b
<1>5. Cardinality(upTo) = b - a
  BY <1>1, <1>3, Stretch
<1> HIDE DEF upTo
<1>6. Cardinality(upTo) <= Cardinality(Page) /\ Cardinality(Page) \in Nat
  BY <1>4, PageTyped, FS_Subset
<1>7. Ahead(board, p) + 1 - reading.offset <= Cardinality(Page)
  BY <1>1, <1>2, <1>5, <1>6 DEF a, b
<1>8. Ahead(board, p) \in Nat /\ reading.offset \in Nat
  BY <1>1, <1>2 DEF a
<1> QED
  BY <1>6, <1>7, <1>8

LEMMA PageGathers ==
    ASSUME ListingTypeOK, Plain, Gathered(reading)
    PROVE  Gathered(With(Page))
<1> DEFINE r == With(Page)
           size == Cardinality(Page)
           unseen == Cardinality(Unseen(Page))
           added == Cardinality(Added(Page))
<1>1. Page \in SUBSET BoardPostings
  BY PageTyped
<1>2. /\ r.rows = reading.rows + size
      /\ r.offset = reading.offset + (IF adapter.advances = "new" THEN unseen ELSE PageSize)
      /\ Len(r.got) = Len(reading.got) + added
      /\ Added(Page) \in SUBSET Page /\ added \in Nat
  BY <1>1, WithFields
<1>3. /\ size <= PageSize /\ unseen <= size /\ size <= unseen + changes
      /\ size \in Nat /\ unseen \in Nat /\ changes \in Nat /\ PageSize \in Nat
  BY PageIsStretch, SeenAgain
<1>4. added <= size
  BY <1>2, PageTyped, FS_Subset
<1>5. reading.offset \in Nat /\ reading.rows \in Nat /\ Len(reading.got) \in Nat
  BY ListingBasics DEF ListingTypeOK
<1> HIDE DEF r, size, unseen, added
<1>6. r.offset \in Nat /\ reading.offset <= r.offset /\ r.offset <= reading.offset + PageSize
  BY <1>2, <1>3, <1>5
<1>7. ASSUME NEW p \in throughout, Ahead(board, p) < r.offset PROVE p \in Range(r.got)
  <2>1. Ahead(board, p) \in Nat
    BY PageIsStretch DEF ListingTypeOK
  <2>2. Ahead(board, p) < reading.offset + PageSize
    BY <1>3, <1>5, <1>6, <1>7, <2>1
  <2> QED
    BY <2>2, PageAdds DEF r
<1>8. ASSUME NEW p \in Range(r.got) PROVE p \in board /\ Ahead(board, p) < r.offset + changes
  <2>1. p \in Range(reading.got) \/ p \in Page
    BY <1>8, PageAdds DEF r
  <2>2. p \in board /\ Ahead(board, p) \in Nat
    <3>1. p \in board
      BY <2>1, PageTyped DEF Gathered
    <3> QED
      BY <3>1, PageIsStretch
  <2>3. CASE p \in Range(reading.got)
    <3>1. Ahead(board, p) < reading.offset + changes
      BY <2>3 DEF Gathered
    <3> QED
      BY <1>3, <1>5, <1>6, <2>2, <3>1
  <2>4. CASE p \in Page
    <3>1. Ahead(board, p) < reading.offset + size
      BY <2>4, PageReaches DEF size
    <3> QED
      BY <1>2, <1>3, <1>5, <1>6, <2>2, <3>1
  <2> QED
    BY <2>1, <2>3, <2>4
<1>9. Len(r.got) <= r.rows /\ (adapter.counts # "distinct" => Len(r.got) = r.rows)
  <2>1. adapter.counts # "distinct" => added = size
    <3>1. Kept(Page) = Page
      BY DEF Kept, Plain
    <3> QED
      BY <3>1 DEF Added, added, size
  <2>2. Len(reading.got) <= reading.rows /\ (adapter.counts # "distinct" => Len(reading.got) = reading.rows)
    BY DEF Gathered
  <2> QED
    BY <1>2, <1>3, <1>4, <1>5, <2>1, <2>2
<1>10. adapter.advances = "page" => r.rows <= r.offset
  <2>1. adapter.advances = "page" => reading.rows <= reading.offset
    BY DEF Gathered
  <2> QED
    BY <1>2, <1>3, <1>5, <2>1
<1> QED
  BY <1>7, <1>8, <1>9, <1>10 DEF r, Gathered

LEMMA PageFull ==
    ASSUME ListingTypeOK, Plain, FullPages(reading), ~AtEnd(Page, With(Page))
    PROVE  FullPages(With(Page))
<1> SUFFICES ASSUME "short" \in adapter.stops, adapter.advances = "page"
             PROVE  With(Page).rows = With(Page).offset
  BY DEF FullPages
<1>1. Cardinality(Page) = PageSize
  <2>1. ~(Cardinality(Page) < PageSize)
    BY DEF AtEnd
  <2>2. Cardinality(Page) <= PageSize /\ PageSize \in Nat /\ Cardinality(Page) \in Nat
    BY PageTyped, PageIsStretch
  <2> QED
    BY <2>1, <2>2
<1>2. reading.rows = reading.offset
  BY DEF FullPages
<1>3. With(Page).rows = reading.rows + Cardinality(Page) /\ With(Page).offset = reading.offset + PageSize
  BY PageTyped, WithFields
<1> QED
  BY <1>1, <1>2, <1>3

-----------------------------------------------------------------------------
(* How the reading ends.                                                   *)

\* At the end of a plain reading everything that was up throughout is read,
\* whichever of its ways the adapter takes for the end.
LEMMA EndsWhole ==
    ASSUME ListingTypeOK, Plain, Gathered(reading), Distinct(reading),
           AtEnd(Page, With(Page)), ~PushedBack
    PROVE  throughout \subseteq Range(With(Page).got)
<1> DEFINE r == With(Page)
           whole == Cardinality(board)
           reach == reading.offset + PageSize
<1> SUFFICES throughout \subseteq Range(r.got)
  OBVIOUS
<1>1. /\ Page \in SUBSET BoardPostings /\ Page \in SUBSET board
      /\ IsFiniteSet(Page) /\ Cardinality(Page) \in Nat
  BY PageTyped
<1>2. /\ PageSize \in Nat \ {0} /\ reading.offset \in Nat /\ whole \in Nat /\ reach \in Nat
      /\ \A p \in throughout : p \in board /\ Ahead(board, p) \in Nat /\ Ahead(board, p) < whole
  BY PageIsStretch DEF ListingTypeOK
<1>3. Gathered(r) /\ Distinct(r)
  BY <1>1, PageGathers, PageDistinct
<1>4. whole <= reach => throughout \subseteq Range(r.got)
  <2> SUFFICES ASSUME whole <= reach, NEW p \in throughout PROVE p \in Range(r.got)
    OBVIOUS
  <2>1. Ahead(board, p) < reach
    BY <1>2
  <2> QED
    BY <2>1, PageAdds
<1>6. /\ r.offset = reading.offset + (IF adapter.advances = "new" THEN Cardinality(Unseen(Page)) ELSE PageSize)
      /\ r.got \in Seq(BoardPostings) /\ r.offset \in Nat /\ r.rows \in Nat
  <2> HIDE DEF r
  <2>1. r \in [stop : Stops, page : Nat, offset : Nat, got : Seq(BoardPostings), rows : Nat]
    BY <1>1, WithFields DEF r
  <2>2. r.offset = reading.offset + (IF adapter.advances = "new" THEN Cardinality(Unseen(Page)) ELSE PageSize)
    BY <1>1, WithFields DEF r
  <2> QED
    BY <2>1, <2>2
<1>5. whole <= r.offset => throughout \subseteq Range(r.got)
  <2> SUFFICES ASSUME whole <= r.offset, NEW p \in throughout PROVE p \in Range(r.got)
    OBVIOUS
  <2>1. Ahead(board, p) < r.offset
    BY <1>2, <1>6
  <2> QED
    BY <1>3, <2>1 DEF Gathered
<1>7. Len(r.got) \in Nat /\ Range(r.got) \in SUBSET board /\ Cardinality(Range(r.got)) \in Nat
  <2>1. Range(r.got) \in SUBSET board
    BY <1>3 DEF Gathered
  <2> QED
    BY <1>6, <2>1, RangeTyped
<1>8. adapter \in Adapters /\ adapter \in Reader
  BY AdaptersAssumption DEF ListingTypeOK
<1> HIDE DEF r, whole, reach
<1>9. CASE Cardinality(Page) < PageSize
  <2>1. ~(reach <= whole)
    <3>1. reach <= whole => Cardinality(Page) = PageSize
      BY PageIsStretch DEF reach, whole
    <3> QED
      BY <1>1, <1>2, <1>9, <3>1
  <2> QED
    BY <1>2, <1>4, <2>1
<1>10. CASE Page = {}
  <2>1. Cardinality(Page) < PageSize
    BY <1>2, <1>10, FS_EmptySet
  <2> QED
    BY <1>9, <2>1
<1>11. CASE "none new" \in adapter.stops /\ Unseen(Page) = {}
  <2>1. Cardinality(Unseen(Page)) = 0
    BY <1>11, FS_EmptySet
  <2>2. Cardinality(Page) <= changes /\ changes \in Nat
    BY <2>1, SeenAgain
  <2>3. ~(changes >= PageSize)
    BY <1>11 DEF PushedBack
  <2> QED
    BY <1>1, <1>2, <1>9, <2>2, <2>3
<1>12. CASE "total rows" \in adapter.stops /\ r.rows >= whole
  <2>1. adapter.advances = "page"
    BY <1>8, <1>12, AdaptersAssumption
  <2>2. r.rows <= r.offset
    BY <1>3, <2>1 DEF Gathered
  <2>3. r.rows >= whole
    BY <1>12
  <2> QED
    BY <1>2, <1>5, <1>6, <2>2, <2>3
<1>13. CASE "total urls" \in adapter.stops /\ Len(r.got) >= whole
  <2>1. adapter.advances = "page" \/ adapter.counts = "distinct"
    BY <1>8, <1>13, AdaptersAssumption
  <2>2. Len(r.got) >= whole
    BY <1>13
  <2>3. CASE adapter.advances = "page"
    <3>1. Len(r.got) <= r.rows /\ r.rows <= r.offset
      BY <1>3, <2>3 DEF Gathered
    <3> QED
      BY <1>2, <1>5, <1>6, <1>7, <2>2, <3>1
  <2>4. CASE adapter.counts = "distinct"
    <3>1. Cardinality(Range(r.got)) = Len(r.got)
      BY <1>3, <2>4 DEF Distinct
    <3>2. IsFiniteSet(board)
      BY ListingBasics DEF ListingTypeOK
    <3>3. /\ Cardinality(Range(r.got)) <= whole
          /\ whole = Cardinality(Range(r.got)) => board = Range(r.got)
      BY <1>7, <3>2, FS_Subset DEF whole
    <3>4. board = Range(r.got)
      BY <1>2, <1>7, <2>2, <3>1, <3>3
    <3> QED
      BY <1>2, <3>4
  <2> QED
    BY <2>1, <2>3, <2>4
<1>14. CASE reading.offset + PageSize >= whole
  BY <1>2, <1>4, <1>14 DEF reach
<1> QED
  <2>1. \/ Page = {} \/ Cardinality(Page) < PageSize
        \/ "none new" \in adapter.stops /\ Unseen(Page) = {}
        \/ "total rows" \in adapter.stops /\ r.rows >= whole
        \/ "total urls" \in adapter.stops /\ Len(r.got) >= whole
        \/ reading.offset + PageSize >= whole
    BY DEF AtEnd, Plain, r, whole
  <2> QED
    BY <1>9, <1>10, <1>11, <1>12, <1>13, <1>14, <2>1

\* A feed is the board as it is.
LEMMA FeedIsBoard ==
    ASSUME ListingTypeOK, adapter.reads = "feed", reading.got = <<>>, adapter.recent => uncapped
    PROVE  throughout \subseteq Range(With(Page).got)
<1>1. Page = board
  BY DEF Page
<1>2. Kept(board) = board
  BY DEF Kept
<1>3. Range(<<>>) = {}
  BY DEF Range
<1>4. Added(Page) = board
  BY <1>1, <1>2, <1>3 DEF Added, Unseen
<1>5. board \in SUBSET BoardPostings
  BY DEF ListingTypeOK
<1> QED
  BY <1>1, <1>4, <1>5, WithFields DEF ListingTypeOK

\* An adapter that answers for whatever it lists has listed as many rows as it
\* counted when it stops at the cap.
LEMMA CapIsFull ==
    ASSUME ListingTypeOK, Plain, Gathered(With(Page)), FullPages(With(Page)),
           adapter.complete = "always", Counted(With(Page)) >= MaxJobs
    PROVE  Len(With(Page).got) >= MaxJobs
<1> DEFINE r == With(Page)
<1>1. adapter \in Adapters /\ adapter \in Reader
  BY AdaptersAssumption DEF ListingTypeOK
<1>2. adapter.counts \in {"urls", "distinct", "rows", "offset", "nothing"}
  BY <1>1 DEF Reader
<1>3. MaxJobs \in Nat \ {0}
  BY ListingBasics
<1> HIDE DEF r
<1>4. CASE adapter.counts \in {"urls", "distinct"}
  BY <1>4 DEF Counted
<1>5. CASE adapter.counts = "rows"
  <2>1. Len(r.got) = r.rows
    BY <1>5 DEF Gathered, r
  <2>2. r.rows >= MaxJobs
    BY <1>5 DEF Counted, r
  <2> QED
    BY <2>1, <2>2 DEF r
<1>6. CASE adapter.counts = "offset"
  <2>1. adapter.advances = "page" /\ "short" \in adapter.stops
    BY <1>1, <1>6, AdaptersAssumption
  <2>2. r.rows = r.offset
    BY <2>1 DEF FullPages, r
  <2>3. Len(r.got) = r.rows
    BY <1>6 DEF Gathered, r
  <2>4. r.offset >= MaxJobs
    BY <1>6 DEF Counted, r
  <2> QED
    BY <2>2, <2>3, <2>4 DEF r
<1>7. CASE adapter.counts = "nothing"
  BY <1>3, <1>7 DEF Counted
<1> QED
  BY <1>2, <1>4, <1>5, <1>6, <1>7

-----------------------------------------------------------------------------
(* The invariant.                                                          *)

\* While the reading goes on.
InHand ==
    reading.stop = "reading" =>
        /\ Distinct(reading)
        /\ adapter.reads = "feed" => reading.got = <<>>
        /\ Plain => Gathered(reading) /\ FullPages(reading)

\* What the reason it stopped for says of the listing r.
StoppedFor(r) ==
    /\ r.stop = "end" /\ ~repeats /\ ~removed /\ (adapter.recent => uncapped) /\ ~PushedBack =>
          throughout \subseteq Range(r.got)
    /\ r.stop = "cap" /\ Plain /\ adapter.complete = "always" => Len(r.got) >= MaxJobs
    /\ r.stop = "partial" => adapter.complete # "always"
    /\ r.stop = "time" => adapter.timed
    /\ adapter.reads = "feed" /\ r.stop # "end" => r.got = <<>>

ListingInv == ListingTypeOK /\ InHand /\ StoppedFor(reading)

LEMMA ListingInvInit == ListingInit => ListingInv
<1> SUFFICES ASSUME ListingInit PROVE InHand /\ StoppedFor(reading)
  BY ListingTypeInit DEF ListingInv
<1>1. /\ reading.stop = "reading" /\ reading.got = <<>>
      /\ reading.offset = 0 /\ reading.rows = 0 /\ throughout = board
  BY DEF ListingInit
<1>2. ListingTypeOK
  BY ListingTypeInit
<1>3. Range(<<>>) = {} /\ Len(<<>>) = 0
  BY DEF Range
<1>4. \A p \in board : Ahead(board, p) \in Nat
  BY <1>2, AheadTyped DEF ListingTypeOK
<1>5. Gathered(reading) /\ FullPages(reading)
  <2>1. \A p \in throughout : ~(Ahead(board, p) < reading.offset)
    BY <1>1, <1>4
  <2> QED
    BY <1>1, <1>3, <2>1 DEF Gathered, FullPages
<1>6. Distinct(reading)
  BY <1>1, <1>3, FS_EmptySet DEF Distinct
<1> QED
  BY <1>1, <1>5, <1>6 DEF InHand, StoppedFor

\* A posting put up between two pages loses nothing that was read.
LEMMA StillGathered ==
    ASSUME ListingTypeOK, Gathered(reading), NEW x \in BoardPostings \ board,
           NEW b, b = board \union {x}
    PROVE  /\ \A p \in throughout : Ahead(b, p) < reading.offset => p \in Range(reading.got)
           /\ \A p \in Range(reading.got) : p \in b /\ Ahead(b, p) < reading.offset + (changes + 1)
<1>1. changes \in Nat /\ reading.offset \in Nat /\ board \in SUBSET BoardPostings
  BY ListingBasics DEF ListingTypeOK
<1>2. \A p \in board : /\ Ahead(b, p) \in {Ahead(board, p), Ahead(board, p) + 1}
                        /\ Ahead(board, p) \in Nat
  BY <1>1, AheadGrows, AheadTyped
<1>3. ASSUME NEW p \in throughout, Ahead(b, p) < reading.offset PROVE p \in Range(reading.got)
  <2>1. p \in board
    BY DEF ListingTypeOK
  <2>2. Ahead(board, p) < reading.offset
    BY <1>1, <1>2, <1>3, <2>1
  <2> QED
    BY <2>2 DEF Gathered
<1>4. ASSUME NEW p \in Range(reading.got) PROVE p \in b /\ Ahead(b, p) < reading.offset + (changes + 1)
  <2>1. p \in board /\ Ahead(board, p) < reading.offset + changes
    BY DEF Gathered
  <2>2. Ahead(b, p) = Ahead(board, p) \/ Ahead(b, p) = Ahead(board, p) + 1
    BY <1>2, <2>1
  <2>3. Ahead(board, p) \in Nat
    BY <1>2, <2>1
  <2>4. Ahead(b, p) < reading.offset + (changes + 1)
    BY <1>1, <2>1, <2>2, <2>3
  <2> QED
    BY <2>1, <2>4
<1> QED
  BY <1>3, <1>4

\* What has been read, after a page with the listing.
LEMMA PageReads ==
    ASSUME ListingInv, reading.stop = "reading", NEW q, q = Read(Page)
    PROVE  /\ StoppedFor(q)
           /\ q.stop = "reading" =>
                 /\ Distinct(q)
                 /\ adapter.reads # "feed"
                 /\ Plain => Gathered(q) /\ FullPages(q)
<1> DEFINE r == With(Page)
           why == StopsAt(Page, r)
<1>0. ListingTypeOK /\ adapter \in Adapters /\ Page \in SUBSET BoardPostings
  BY PageTyped DEF ListingInv, ListingTypeOK
<1>1. /\ q.stop = why /\ q.got = r.got /\ q.rows = r.rows /\ q.offset = r.offset
  <2>1. q = [r EXCEPT !.stop = why]
    BY DEF Read
  <2>2. r \in [stop : Stops, page : Nat, offset : Nat, got : Seq(BoardPostings), rows : Nat]
    BY <1>0, WithFields
  <2> HIDE DEF r, why
  <2> QED
    BY <2>1, <2>2
<1>2. /\ Distinct(reading)
      /\ adapter.reads = "feed" => reading.got = <<>>
      /\ Plain => Gathered(reading) /\ FullPages(reading)
  BY DEF ListingInv, InHand
<1>3. Distinct(r)
  BY <1>0, <1>2, PageDistinct
<1>4. Plain => Gathered(r)
  BY <1>0, <1>2, PageGathers
<1>5. Plain /\ ~AtEnd(Page, r) => FullPages(r)
  BY <1>0, <1>2, PageFull
<1>6. adapter.reads = "feed" => AtEnd(Page, r)
  BY DEF AtEnd
<1>7. why = "end" <=> AtEnd(Page, r)
  BY DEF StopsAt
<1>8. why = "partial" => "old" \in adapter.stops
  BY DEF StopsAt
<1>9. why = "cap" => Counted(r) >= MaxJobs
  BY DEF StopsAt
<1>10. why # "time"
  BY DEF StopsAt
<1>11. adapter.reads \in {"feed", "pages"}
  BY <1>0, AdaptersAssumption DEF Reader
<1>12. ASSUME why = "end", ~repeats, ~removed, adapter.recent => uncapped, ~PushedBack
       PROVE  throughout \subseteq Range(r.got)
  <2>1. CASE adapter.reads = "feed"
    BY <1>0, <1>2, <1>12, <2>1, FeedIsBoard
  <2>2. CASE adapter.reads = "pages"
    <3>1. Plain
      BY <1>12, <2>2 DEF Plain
    <3> QED
      BY <1>0, <1>2, <1>7, <1>12, <3>1, EndsWhole
  <2> QED
    BY <1>11, <2>1, <2>2
<1>13. ASSUME why = "cap", Plain, adapter.complete = "always" PROVE Len(r.got) >= MaxJobs
  BY <1>0, <1>4, <1>5, <1>7, <1>9, <1>13, CapIsFull
<1>14. why = "partial" => adapter.complete # "always"
  BY <1>0, <1>8, AdaptersAssumption
<1> HIDE DEF r, why
<1>15. StoppedFor(q)
  BY <1>1, <1>6, <1>7, <1>10, <1>12, <1>13, <1>14 DEF StoppedFor
<1>16. ASSUME q.stop = "reading"
       PROVE  Distinct(q) /\ adapter.reads # "feed" /\ (Plain => Gathered(q) /\ FullPages(q))
  <2>1. ~AtEnd(Page, r)
    BY <1>1, <1>7, <1>16
  <2> QED
    BY <1>1, <1>3, <1>4, <1>5, <1>6, <2>1 DEF Distinct, Gathered, FullPages
<1> QED
  BY <1>15, <1>16

LEMMA ListingInvStep == ListingInv /\ [ListingNext]_listingVars => ListingInv'
<1> SUFFICES ASSUME ListingInv, [ListingNext]_listingVars PROVE InHand' /\ StoppedFor(reading)'
  BY ListingTypeStep DEF ListingInv
<1>0. ListingTypeOK /\ InHand /\ StoppedFor(reading)
  BY DEF ListingInv
<1>1. ASSUME NEW answer \in Responses, ReadPage(answer) PROVE InHand' /\ StoppedFor(reading)'
  <2>1. /\ adapter' = adapter /\ uncapped' = uncapped /\ board' = board /\ repeats' = repeats
        /\ changes' = changes /\ throughout' = throughout /\ removed' = removed
        /\ reading.stop = "reading"
    BY <1>1 DEF ReadPage
  <2>2. (PushedBack' <=> PushedBack) /\ (Plain' <=> Plain) /\ MaxJobs' = MaxJobs
    BY <2>1 DEF PushedBack, Plain, MaxJobs
  <2>3. CASE answer = "listing"
    <3>1. reading' = Read(Page)
      BY <1>1, <2>3 DEF ReadPage
    <3> DEFINE q == Read(Page)
    <3>2. /\ StoppedFor(q)
          /\ q.stop = "reading" =>
                 /\ Distinct(q)
                 /\ adapter.reads # "feed"
                 /\ Plain => Gathered(q) /\ FullPages(q)
      BY <2>1, PageReads
    <3> HIDE DEF q
    <3>3. reading' = q
      BY <3>1 DEF q
    <3>4. StoppedFor(reading)'
      BY <2>1, <2>2, <3>2, <3>3 DEF StoppedFor
    <3>5. InHand'
      BY <2>1, <2>2, <3>2, <3>3 DEF InHand, Distinct, Gathered, FullPages
    <3> QED
      BY <3>4, <3>5
  <2>4. CASE answer \in {"shell", "error"}
    <3>1. PICK what \in {"failed", "partial", "quiet"} :
             /\ reading' = [reading EXCEPT !.stop = what]
             /\ what = "partial" => "partial" \in {adapter.shell, adapter.error}
      BY <1>0, <1>1, <2>4, OtherwiseTyped DEF ReadPage, Otherwise
    <3>2. reading'.stop = what /\ reading'.got = reading.got
      BY <1>0, <3>1 DEF ListingTypeOK
    <3>3. what = "partial" => adapter.complete # "always"
      BY <1>0, <3>1, AdaptersAssumption DEF ListingTypeOK
    <3>4. adapter.reads = "feed" => reading'.got = <<>>
      BY <1>0, <2>1, <3>2 DEF InHand
    <3>5. StoppedFor(reading)'
      BY <2>1, <3>2, <3>3, <3>4 DEF StoppedFor
    <3>6. InHand'
      BY <3>2 DEF InHand
    <3> QED
      BY <3>5, <3>6
  <2> QED
    BY <2>3, <2>4 DEF Responses
<1>2. CASE TimeUp
  <2>1. reading'.stop = "time" /\ reading'.got = reading.got /\ adapter' = adapter /\ adapter.timed
        /\ reading.stop = "reading"
    BY <1>0, <1>2 DEF TimeUp, ListingTypeOK
  <2>2. adapter.reads = "feed" => reading'.got = <<>>
    BY <1>0, <2>1 DEF InHand
  <2> QED
    BY <2>1, <2>2 DEF InHand, StoppedFor
<1>3. CASE BoardChanges
  <2>1. /\ reading' = reading /\ adapter' = adapter /\ uncapped' = uncapped /\ repeats' = repeats
        /\ reading.stop = "reading" /\ changes' = changes + 1
    BY <1>3 DEF BoardChanges
  <2>2. /\ Distinct(reading)
        /\ adapter.reads = "feed" => reading.got = <<>>
        /\ Plain => Gathered(reading) /\ FullPages(reading)
    BY <1>0, <2>1 DEF InHand
  <2>3. Distinct(reading)' /\ (FullPages(reading)' <=> FullPages(reading))
    BY <2>1, <2>2 DEF Distinct, FullPages
  <2>4. StoppedFor(reading)'
    BY <2>1, <2>2 DEF StoppedFor
  <2>5. ASSUME Plain' PROVE Gathered(reading)' /\ FullPages(reading)'
    <3>1. ~removed'
      BY <2>5 DEF Plain
    <3>2. PICK x \in BoardPostings \ board : board' = board \union {x} /\ throughout' = throughout /\ removed' = removed
      BY <1>3, <3>1 DEF BoardChanges
    <3>3. Plain
      BY <2>1, <2>5, <3>2 DEF Plain
    <3>4. Gathered(reading) /\ FullPages(reading)
      BY <2>2, <3>3
    <3>5. /\ \A p \in throughout : Ahead(board', p) < reading.offset => p \in Range(reading.got)
          /\ \A p \in Range(reading.got) : p \in board' /\ Ahead(board', p) < reading.offset + (changes + 1)
      BY <1>0, <3>2, <3>4, StillGathered
    <3>6. Gathered(reading)'
      BY <2>1, <3>2, <3>4, <3>5 DEF Gathered
    <3> QED
      BY <2>3, <3>4, <3>6
  <2> QED
    BY <2>1, <2>2, <2>3, <2>4, <2>5 DEF InHand
<1>4. CASE UNCHANGED listingVars
  <2>1. /\ adapter' = adapter /\ uncapped' = uncapped /\ board' = board /\ repeats' = repeats
        /\ changes' = changes /\ throughout' = throughout /\ removed' = removed /\ reading' = reading
    BY <1>4 DEF listingVars
  <2>2. (PushedBack' <=> PushedBack) /\ (Plain' <=> Plain) /\ MaxJobs' = MaxJobs
    BY <2>1 DEF PushedBack, Plain, MaxJobs
  <2>3. InHand'
    BY <1>0, <2>1, <2>2 DEF InHand, Distinct, Gathered, FullPages
  <2> QED
    BY <1>0, <2>1, <2>2, <2>3 DEF StoppedFor
<1> QED
  BY <1>1, <1>2, <1>3, <1>4 DEF ListingNext

LEMMA ListingInvWhole == ListingInv => CompleteIsWhole
<1> SUFFICES ASSUME ListingInv, Done, ListedComplete, LimitJobUrls # {}, ~removed, ~repeats,
                    reading.stop \notin {"quiet", "pages"}, ~CutByRepeats, ~PushedBack
             PROVE  throughout \subseteq LimitJobUrls
  BY DEF CompleteIsWhole
<1> DEFINE n == Len(reading.got)
<1>1. /\ ListingTypeOK /\ StoppedFor(reading) /\ adapter \in Adapters
      /\ reading.got \in Seq(BoardPostings) /\ reading.stop \in Stops
  BY DEF ListingInv, ListingTypeOK
<1>2. AdapterComplete /\ Cardinality(LimitJobUrls) < MaxJobs
  BY DEF ListedComplete
<1>3. LimitJobUrls = Range(reading.got)
  BY <1>1, <1>2, NotCut DEF CutByRepeats
<1>4. reading.got # <<>>
  BY <1>3 DEF Range
<1>5. adapter.reads = "feed" => reading.stop = "end"
  BY <1>1, <1>4 DEF StoppedFor
<1>6. adapter.complete \in {"always", "at the end", "uncapped, at the end", "below a limit"}
      /\ adapter.reads \in {"feed", "pages"}
  BY <1>1, AdaptersAssumption DEF Reader
<1>7. reading.stop = "end" \/ adapter.complete = "always"
  <2>1. adapter.complete = "below a limit" => reading.stop = "end"
    BY <1>1, <1>5, AdaptersAssumption
  <2>2. adapter.complete \in {"at the end", "uncapped, at the end"} => reading.stop = "end"
    BY <1>2 DEF AdapterComplete
  <2> QED
    BY <1>6, <2>1, <2>2
<1>8. adapter.recent => uncapped
  <2>1. adapter.recent => adapter.complete = "uncapped, at the end"
    BY <1>1, AdaptersAssumption
  <2> QED
    BY <1>2, <2>1 DEF AdapterComplete
<1>9. CASE reading.stop = "end"
  BY <1>1, <1>3, <1>8, <1>9 DEF StoppedFor
<1>10. ASSUME reading.stop # "end", adapter.complete = "always" PROVE FALSE
  <2>1. reading.stop \in {"partial", "cap", "time"}
    BY <1>1, <1>10 DEF Done, Stops
  <2>2. reading.stop # "partial"
    BY <1>1, <1>10 DEF StoppedFor
  <2>3. reading.stop # "time"
    <3>1. ~adapter.timed
      BY <1>1, <1>10, AdaptersAssumption
    <3> QED
      BY <1>1, <3>1 DEF StoppedFor
  <2>4. reading.stop = "cap"
    BY <2>1, <2>2, <2>3
  <2>5. Plain
    BY <1>5, <1>6, <1>8, <1>10 DEF Plain
  <2>6. n >= MaxJobs
    BY <1>1, <1>10, <2>4, <2>5 DEF StoppedFor
  <2>7. ~(n > Cardinality(Range(reading.got)))
    BY <2>4 DEF CutByRepeats, Repetitive
  <2>8. n \in Nat /\ Cardinality(Range(reading.got)) \in Nat /\ MaxJobs \in Nat
    BY <1>1, RangeTyped, ListingBasics
  <2> HIDE DEF n
  <2> QED
    BY <1>2, <1>3, <2>6, <2>7, <2>8
<1> QED
  BY <1>7, <1>9, <1>10

\* What a crawl takes for the whole board is the whole of what was up while it
\* was read, whatever the adapter, the size of the board and of its pages and
\* the caps: nothing that stayed up is closed for having been overlooked,
\* but for what CompleteIsWhole excepts.
THEOREM CompleteListingIsWhole == ListingSpec => []CompleteIsWhole
<1>1. ListingInv => CompleteIsWhole
  BY ListingInvWhole
<1> QED
  BY <1>1, ListingInvInit, ListingInvStep, PTL DEF ListingSpec
=============================================================================
