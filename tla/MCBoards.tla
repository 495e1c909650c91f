------------------------------ MODULE MCBoards ------------------------------
(***************************************************************************)
(* Small instances for TLC, side by side: of BoardCrawl, one URL under two *)
(* crawls that overlap, and two URLs under one crawl after another; of     *)
(* PostingScan, the reading of one posting a board listed; and of          *)
(* StaticPages, the page of a job.  They share no state: a behaviour is    *)
(* one instance's, the others stay as they begin.                          *)
(***************************************************************************)
EXTENDS BoardCrawl, MCPostingScan, StaticPages, TLC

CONSTANTS AloneUrls, AloneCrawler, t1

VARIABLES part, aRows, aClaim, aNext, aRun, aMessages, aCrawler, aDispatched, aFaults

aloneVars == <<aRows, aClaim, aNext, aRun, aMessages, aCrawler, aDispatched, aFaults>>

Alone == INSTANCE BoardCrawl WITH
    Urls <- AloneUrls, Crawlers <- {AloneCrawler}, ClaimTTL <- 1, MinInterval <- 1,
    FunctionTimeout <- 1, DispatchTimeout <- 0, Gap <- 2, Window <- 2, CloseMin <- 1,
    ShareDivisor <- 5, MessageBound <- 1, FaultBudget <- 0,
    rows <- aRows, claim <- aClaim, next <- aNext, run <- aRun, messages <- aMessages,
    crawler <- aCrawler, dispatched <- aDispatched, faults <- aFaults

BoardsInit ==
    /\ Init /\ Alone!Init /\ ScanInit /\ PagesInit
    /\ part \in {"overlapping", "alone", "posting", "pages"}
    /\ part # "posting" =>
          posted /\ listing = "none" /\ scan.chain = <<amazon, generic>>
    /\ part # "pages" => job.status = "absent"
    /\ job.content \in {"none", t1}

BoardsNext ==
    /\ UNCHANGED part
    /\ \/ part = "overlapping" /\ Next /\ UNCHANGED <<aloneVars, scanVars, pageVars>>
       \/ part = "alone" /\ Alone!Next /\ UNCHANGED <<vars, scanVars, pageVars>>
       \/ part = "posting" /\ ScanNext /\ UNCHANGED <<vars, aloneVars, pageVars>>
       \/ part = "pages" /\ PagesNext /\ UNCHANGED <<vars, aloneVars, scanVars>>

BoardsSpec == BoardsInit /\ [][BoardsNext]_<<part, vars, aloneVars, scanVars, pageVars>>

-----------------------------------------------------------------------------
\* Crawls of a board that do not overlap close at most its daily share.
ShareKeptAlone == Alone!DailyShareKept

\* Every part's variables keep to their types.
PartsTypeOK == TypeOK /\ Alone!TypeOK /\ ScanTypeOK /\ PagesTypeOK

\* Of the job's pages two are up at a time; two links to it and doubts about
\* it are followed, and a list page is there only to link to it.
FewPages ==
    /\ Cardinality(PagesUp) <= 2
    /\ Cardinality(linked) + Cardinality(lists.links) + Cardinality(sitemap)
          + Cardinality(unsure) + Cardinality(unpublished) <= 2
    /\ lists.listed => lists.links # {}

\* URLs and crawlers are interchangeable.
Symmetry == Permutations(Crawlers) \union Permutations(AloneUrls)
=============================================================================
