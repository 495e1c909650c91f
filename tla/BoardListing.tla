---------------------------- MODULE BoardListing ----------------------------
(***************************************************************************)
(* One crawl's reading of a board.  An adapter's fetch_jobs asks for the   *)
(* board page by page, or in one piece, while postings are put up and      *)
(* taken down; what stops it, and what it makes of an answer that is not   *)
(* the listing, differ from adapter to adapter: a record says how.         *)
(* list_board then says whether the listing is the whole board, and on     *)
(* that word the crawl closes what is missing from it.                     *)
(***************************************************************************)
EXTENDS Integers, FiniteSets, Sequences, Functions

CONSTANTS
    Adapters,        \* how they read: records, described in Adapters.tla
    PageSize,        \* postings on a page
    Cap,             \* DEFAULT_MAX_JOBS_PER_CRAWL
    UncappedCap,     \* UNCAPPED_MAX_JOBS_PER_CRAWL
    MaxPages,        \* _MAX_PAGES
    BoardMax,        \* postings there may be; the higher, the nearer the front
    RecentFrom,      \* the postings from this one on are recent
    Changes          \* bound on the postings put up or taken down meanwhile

ASSUME BoardListingAssumption ==
    /\ {PageSize, Cap, UncappedCap, MaxPages, BoardMax, RecentFrom, Changes} \subseteq Nat
    /\ 0 < PageSize /\ 0 < Cap /\ Cap < UncappedCap

Reader ==
    [reads : {"feed", "pages"},
     stops : SUBSET {"empty", "short", "none new", "total rows", "total urls", "last page",
                     "old", "max pages"},
     advances : {"page", "new"}, counts : {"urls", "distinct", "rows", "offset", "nothing"},
     cuts : {"rows", "urls"},
     shell : {"failed", "partial", "quiet", "fails first"},
     error : {"failed", "partial", "quiet", "fails first"},
     complete : {"always", "at the end", "uncapped, at the end", "below a limit"},
     recent : BOOLEAN, timed : BOOLEAN, rendered : BOOLEAN]

\* An adapter that filters, or may stop early, does not call whatever it lists
\* the whole board; one that goes by a total asks for page after page, or
\* counts no posting twice; one that counts the postings it has asked for
\* stops at a page that is not full.
ASSUME AdaptersAssumption ==
    /\ Adapters \subseteq Reader
    /\ \A a \in Adapters :
          /\ a.recent => a.complete = "uncapped, at the end"
          /\ a.complete = "always" =>
                ~a.timed /\ "old" \notin a.stops /\ "partial" \notin {a.shell, a.error}
          /\ a.complete = "below a limit" => a.reads = "feed"
          /\ "total rows" \in a.stops => a.advances = "page"
          /\ "total urls" \in a.stops => a.advances = "page" \/ a.counts = "distinct"
          /\ a.complete = "always" /\ a.counts = "offset" =>
                a.advances = "page" /\ "short" \in a.stops

VARIABLES
    adapter,      \* the record of the adapter
    uncapped,     \* whether this is an uncapped crawl
    board,        \* the postings that are up
    repeats,      \* whether the site answers every page with the first
    reading,      \* what has been read
    changes,      \* changes of the board so far
    throughout,   \* history: the postings that were up all the time
    removed       \* history: one was taken down meanwhile

listingVars == <<adapter, uncapped, board, repeats, reading, changes, throughout, removed>>

Responses == {"listing", "shell", "error"}

BoardPostings == 1 .. BoardMax

\* "reading", or why the reading stopped.
Stops == {"reading", "end", "partial", "cap", "pages", "time", "quiet", "failed"}

ListingTypeOK ==
    /\ adapter \in Adapters
    /\ uncapped \in BOOLEAN /\ repeats \in BOOLEAN /\ removed \in BOOLEAN
    /\ board \subseteq BoardPostings
    /\ throughout \subseteq board
    /\ changes \in 0 .. Changes
    /\ reading \in [stop : Stops, page : Nat, offset : Nat, got : Seq(BoardPostings), rows : Nat]

ListingInit ==
    /\ adapter \in Adapters
    /\ uncapped \in (IF adapter.rendered THEN {FALSE} ELSE BOOLEAN)
    /\ board \in {1 .. n : n \in 1 .. BoardMax}
    /\ repeats \in BOOLEAN
    /\ reading = [stop |-> "reading", page |-> 0, offset |-> 0, got |-> <<>>, rows |-> 0]
    /\ changes = 0
    /\ throughout = board
    /\ removed = FALSE

-----------------------------------------------------------------------------
MaxJobs == IF uncapped THEN UncappedCap ELSE Cap

\* The postings in front of p.
Ahead(postings, p) == Cardinality({q \in postings : q > p})

\* The postings the next request is answered with.
Page ==
    LET from == IF repeats THEN 0 ELSE reading.offset
    IN  IF adapter.reads = "feed" THEN board
        ELSE {p \in board : Ahead(board, p) \in from .. from + PageSize - 1}

\* The order they are listed in.
InOrder(postings) ==
    [i \in 1 .. Cardinality(postings) |-> CHOOSE p \in postings : Ahead(postings, p) = i - 1]

IsRecent(p) == p >= RecentFrom

\* Only recent postings are kept of a capped crawl, by the adapters that look.
Kept(page) == {p \in page : adapter.recent /\ ~uncapped => IsRecent(p)}

Unseen(page) == page \ Range(reading.got)

Added(page) == IF adapter.counts = "distinct" THEN Unseen(Kept(page)) ELSE Kept(page)

\* What the loop compares with the cap.
Counted(r) ==
    CASE adapter.counts \in {"urls", "distinct"} -> Len(r.got)
      [] adapter.counts = "rows" -> r.rows
      [] adapter.counts = "offset" -> r.offset
      [] adapter.counts = "nothing" -> 0

\* Why the loop is left after a page, in the state r it leaves.
AtEnd(page, r) ==
    \/ adapter.reads = "feed"
    \/ "empty" \in adapter.stops /\ page = {}
    \/ "short" \in adapter.stops /\ Cardinality(page) < PageSize
    \/ "none new" \in adapter.stops /\ Unseen(page) = {}
    \/ "total rows" \in adapter.stops /\ r.rows >= Cardinality(board)
    \/ "total urls" \in adapter.stops /\ Len(r.got) >= Cardinality(board)
    \/ "last page" \in adapter.stops /\ reading.offset + PageSize >= Cardinality(board)

StopsAt(page, r) ==
    IF AtEnd(page, r) THEN "end"
    ELSE IF "old" \in adapter.stops /\ ~uncapped /\ \E p \in page : ~IsRecent(p) THEN "partial"
    ELSE IF "max pages" \in adapter.stops /\ r.page >= MaxPages THEN "pages"
    ELSE IF Counted(r) >= MaxJobs THEN "cap"
    ELSE "reading"

\* What has been read with this page.
With(page) ==
    [reading EXCEPT !.page = @ + 1,
                    !.got = @ \o InOrder(Added(page)),
                    !.rows = @ + Cardinality(page),
                    !.offset = @ + (IF adapter.advances = "new" THEN Cardinality(Unseen(page)) ELSE PageSize)]

Read(page) == [With(page) EXCEPT !.stop = StopsAt(page, With(page))]

\* What the adapter makes of an answer without the listing, on this page.
Otherwise(what) ==
    IF what = "fails first" THEN IF reading.page = 0 THEN "failed" ELSE "quiet" ELSE what

ReadPage(answer) ==
    /\ reading.stop = "reading"
    /\ reading' =
          CASE answer = "listing" -> Read(Page)
            [] answer = "shell" -> [reading EXCEPT !.stop = Otherwise(adapter.shell)]
            [] answer = "error" -> [reading EXCEPT !.stop = Otherwise(adapter.error)]
    /\ UNCHANGED <<adapter, uncapped, board, repeats, changes, throughout, removed>>

\* uncapped_time_up, before a page.
TimeUp ==
    /\ reading.stop = "reading" /\ adapter.timed /\ uncapped
    /\ reading' = [reading EXCEPT !.stop = "time"]
    /\ UNCHANGED <<adapter, uncapped, board, repeats, changes, throughout, removed>>

BoardChanges ==
    /\ reading.stop = "reading" /\ reading.page > 0
    /\ changes < Changes /\ changes' = changes + 1
    /\ \/ \E p \in BoardPostings \ board :
             board' = board \union {p} /\ UNCHANGED <<throughout, removed>>
       \/ \E p \in board :
             /\ board' = board \ {p}
             /\ throughout' = throughout \ {p}
             /\ removed' = TRUE
    /\ UNCHANGED <<adapter, uncapped, repeats, reading>>

ListingNext ==
    \/ \E answer \in Responses : ReadPage(answer)
    \/ TimeUp
    \/ BoardChanges

ListingSpec == ListingInit /\ [][ListingNext]_listingVars

-----------------------------------------------------------------------------
\* The adapter's own word on what it returns.
AdapterComplete ==
    CASE adapter.complete = "always" -> TRUE
      [] adapter.complete = "at the end" -> reading.stop \in {"end", "quiet"}
      [] adapter.complete = "uncapped, at the end" -> uncapped /\ reading.stop \in {"end", "quiet"}
      [] adapter.complete = "below a limit" -> Len(reading.got) < Cap

\* The place of row i where the listing is cut: some adapters cut the rows they
\* read themselves, and limit_job_urls counts different URLs.
CutPlace(i) == IF adapter.cuts = "rows" THEN i ELSE Cardinality({reading.got[j] : j \in 1 .. i})

LimitJobUrls == {reading.got[i] : i \in {i \in DOMAIN reading.got : CutPlace(i) <= MaxJobs}}

\* Mutant: a listing that fills the cap is taken for the whole board.
ListedCompleteAtCap == reading.stop # "failed" /\ AdapterComplete

\* _list_board: a listing that fills the cap is never complete.
ListedComplete == reading.stop # "failed" /\ AdapterComplete /\ Cardinality(LimitJobUrls) < MaxJobs

-----------------------------------------------------------------------------
(* Properties.                                                             *)

Done == reading.stop \notin {"reading", "failed"}

\* The rows read were more than the URLs they gave.
Repetitive == Len(reading.got) > Cardinality(Range(reading.got))

\* The reading was cut at the cap by rows that gave no URL of their own.
CutByRepeats ==
    /\ Repetitive
    /\ reading.stop = "cap" \/ (adapter.cuts = "rows" /\ Len(reading.got) > MaxJobs)

\* A page's worth of postings was put up under an adapter that takes a page it
\* has seen for the end.
PushedBack == "none new" \in adapter.stops /\ changes >= PageSize

\* A listing that counts as complete, and is not empty, holds every posting
\* that was up throughout, although others were put up between its pages,
\* unless one was taken down or a page's worth put up meanwhile, the site
\* answered a page with another one or with something else than the listing,
\* or the reading was cut at a number of pages, or at the cap by repeated rows.
CompleteIsWhole ==
    Done /\ ListedComplete /\ LimitJobUrls # {} =>
        \/ removed \/ repeats
        \/ reading.stop \in {"quiet", "pages"}
        \/ CutByRepeats \/ PushedBack
        \/ throughout \subseteq LimitJobUrls
=============================================================================
