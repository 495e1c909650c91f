---------------------------- MODULE PostingScan ----------------------------
(***************************************************************************)
(* The scans of a posting, scan_job_url: the scanners that claim the URL   *)
(* look in turn, until one of them has a result; what none keeps is read   *)
(* by the generic one.  A request the site refuses is repeated in the      *)
(* browser, which shows what it gets without the status; a page that came  *)
(* is kept for the rest of the scan; a listing is kept between scans.  The *)
(* posting may be taken down, or be newer than the listing.                *)
(***************************************************************************)
EXTENDS Integers, Sequences

CONSTANTS
    Scans,        \* the scanners' looks
    Generic       \* the looks of the generic scanner

VARIABLES
    posted,       \* the posting is up
    listing,      \* the listing this process has of the board, with the posting or without
    scan,         \* the scanners of the URL, the look, the page kept, the verdict and its answer
    gets          \* history, pages this scan fetched and got

scanVars == <<posted, listing, scan, gets>>

Answers == {"job", "bare", "notice", "gone", "trouble"}
Verdicts == {"none", "details", "error", "expired"}

\* What a look may make of an answer.
Made == {"details", "error", "expired", "handed on", "next"}

ALook == [by : {"page", "own", "render", "list"}, job : Made, bare : Made, notice : Made,
          gone : Made, trouble : Made]

HandsOn(looks) ==
    \E i \in 1 .. Len(looks) : \E a \in Answers : looks[i][a] = "handed on"

\* The last look leaves nothing to a next one, nor the generic scanner to
\* another; and none takes a posting with its details for a posting that is
\* gone.
ASSUME PostingScanAssumption ==
    /\ ~HandsOn(Generic)
    /\ \A looks \in Scans \union {Generic} :
          /\ looks \in Seq(ALook) /\ looks # <<>>
          /\ \A a \in Answers : looks[Len(looks)][a] # "next"
          /\ \A i \in 1 .. Len(looks) : looks[i].job # "expired"

\* Scanners claim a URL by its host, and some by its shape, whosever it is.
Chains ==
    {<<s, Generic>> : s \in Scans}
        \union {<<s, t, Generic>> : s \in {x \in Scans : HandsOn(x)}, t \in {x \in Scans : HandsOn(x)}}

\* Variables keep to their types: within a scan a page that came is kept and
\* not fetched again, and an error is not kept.
ScanTypeOK ==
    /\ posted \in BOOLEAN
    /\ listing \in {"none", "with", "without"}
    /\ scan.verdict \in Verdicts /\ scan.kept \in {"none", "job", "bare", "notice"}
    /\ gets \in 0 .. 1

Start(chain) ==
    [chain |-> chain, scanner |-> 1, step |-> 1, kept |-> "none",
     verdict |-> "none", answer |-> "none"]

Look == scan.chain[scan.scanner][scan.step]

ScanInit ==
    /\ posted \in BOOLEAN
    /\ listing \in {"none", "with", "without"}
    /\ \E chain \in Chains : scan = Start(chain)
    /\ gets = 0

Scanning == scan.verdict = "none"

\* What a site can answer, and what the browser then shows of it: the page,
\* a page that says nothing, as of an error, or nothing at all.
SiteAnswers ==
    IF posted THEN {"job", "bare", "trouble"} ELSE Answers
RenderedAnswers == (SiteAnswers \ {"gone"}) \union {"trouble"}

-----------------------------------------------------------------------------
(* The looks.                                                              *)

\* Mutant: whatever failed is gone.
FailedIsGone(by, answer, outcome) ==
    IF by = "page" /\ outcome = "error" THEN "expired" ELSE outcome

\* _mark_gone: the error of a 404 or 410 that fetch_html met.
MarkGone(by, answer, outcome) ==
    IF by = "page" /\ answer = "gone" /\ outcome = "error" THEN "expired" ELSE outcome

Decide(answer, kept) ==
    LET outcome == MarkGone(Look.by, answer, Look[answer])
        read == [scan EXCEPT !.kept = kept]
    IN  scan' = CASE outcome = "next" -> [read EXCEPT !.step = @ + 1]
                  [] outcome = "handed on" -> [read EXCEPT !.scanner = @ + 1, !.step = 1]
                  [] OTHER -> [read EXCEPT !.verdict = outcome, !.answer = answer]

LooksBy(by) == Scanning /\ Look.by = by

\* scan_page_cache.
ReadKeptPage ==
    /\ LooksBy("page") /\ scan.kept # "none"
    /\ Decide(scan.kept, scan.kept)
    /\ UNCHANGED <<posted, listing, gets>>

\* Mutant: an error page is kept like any other.
FetchPageKeepsErrors ==
    /\ LooksBy("page") /\ scan.kept = "none"
    /\ \E answer \in SiteAnswers \ {"trouble"} :
          Decide(answer, answer) /\ gets' = IF answer = "gone" THEN gets ELSE gets + 1
    /\ UNCHANGED <<posted, listing>>

FetchPage ==
    /\ LooksBy("page") /\ scan.kept = "none"
    /\ \E answer \in SiteAnswers \ {"trouble"} :
          /\ Decide(answer, IF answer = "gone" THEN "none" ELSE answer)
          /\ gets' = IF answer = "gone" THEN gets ELSE gets + 1
    /\ UNCHANGED <<posted, listing>>

\* Refused, or failed: rendered.
FetchPageRendered ==
    /\ LooksBy("page") /\ scan.kept = "none"
    /\ \E answer \in RenderedAnswers :
          /\ Decide(answer, IF answer = "trouble" THEN "none" ELSE answer)
          /\ gets' = IF answer = "trouble" THEN gets ELSE gets + 1
    /\ UNCHANGED <<posted, listing>>

AskOwn ==
    /\ LooksBy("own")
    /\ \E answer \in SiteAnswers : Decide(answer, scan.kept)
    /\ UNCHANGED <<posted, listing, gets>>

Render ==
    /\ LooksBy("render")
    /\ \E answer \in RenderedAnswers : Decide(answer, scan.kept)
    /\ UNCHANGED <<posted, listing, gets>>

\* _board_jobs: the listing it has, or a new one.
ReadListing ==
    /\ LooksBy("list") /\ listing # "none"
    /\ Decide(IF listing = "with" THEN "job" ELSE "notice", scan.kept)
    /\ UNCHANGED <<posted, listing, gets>>

FetchListing ==
    /\ LooksBy("list") /\ listing = "none"
    /\ \/ /\ Decide(IF posted THEN "job" ELSE "notice", scan.kept)
          /\ listing' = IF posted THEN "with" ELSE "without"
       \/ Decide("trouble", scan.kept) /\ UNCHANGED listing
    /\ UNCHANGED <<posted, gets>>

\* A lane's next scan of the posting: no page is kept from the last.
ScanAgain ==
    /\ ~Scanning
    /\ scan' = Start(scan.chain)
    /\ gets' = 0
    /\ UNCHANGED <<posted, listing>>

\* _BOARD_CACHE_SECONDS are over.
ListingExpires ==
    /\ listing # "none"
    /\ listing' = "none"
    /\ UNCHANGED <<posted, scan, gets>>

TakenDown ==
    /\ posted
    /\ posted' = FALSE
    /\ UNCHANGED <<listing, scan, gets>>

ScanNext ==
    \/ ReadKeptPage \/ FetchPage \/ FetchPageRendered \/ AskOwn \/ Render
    \/ ReadListing \/ FetchListing \/ ScanAgain \/ ListingExpires \/ TakenDown

ScanSpec == ScanInit /\ [][ScanNext]_scanVars

-----------------------------------------------------------------------------
(* Properties.                                                             *)

\* "positively identified the posting as gone ... rather than a transient
\* fetch problem" (adapters/base.py:275-277).
TroubleIsNotGone == scan.verdict = "expired" => scan.answer # "trouble"

\* However a scan is handed on, refused, rendered, or overtaken by the posting
\* going down, what it closes as expired is down; except where a scanner reads
\* an answer without the posting, or no answer, as its end, or reads a listing
\* that may be older than the posting.
ExpiredIsDown ==
    scan.verdict = "expired" /\ posted =>
        \/ scan.answer \in {"bare", "trouble"} /\ Look[scan.answer] = "expired"
        \/ Look.by = "list"
=============================================================================
