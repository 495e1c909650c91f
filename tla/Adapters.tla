------------------------------ MODULE Adapters ------------------------------
(***************************************************************************)
(* How the adapters read their boards: BoardListing's records, one for     *)
(* each fetch_jobs, or for each of the ways it has.                        *)
(*                                                                         *)
(* reads     "feed": in one answer; "pages"                                *)
(* stops     what ends the paging                                          *)
(* advances  by a "page", or by the URLs that were "new"                   *)
(* counts    what is compared with the cap                                 *)
(* cuts      at the cap, the "rows" or the different "urls"                 *)
(* shell     what an answer 200 that is not the listing does: it fails the *)
(*           crawl, on the first page or on any, it leaves the listing     *)
(*           partial, or it quietly reads as a page without postings       *)
(* error     the same for a request that fails                             *)
(* complete  when the adapter calls its listing the whole board            *)
(* recent    a capped crawl keeps recent postings only                     *)
(* timed     an uncapped crawl stops when its time is up                   *)
(* rendered  read in the browser, never uncapped                           *)
(***************************************************************************)

Feed ==
    [reads |-> "feed", stops |-> {}, advances |-> "page", counts |-> "distinct",
     cuts |-> "urls", shell |-> "failed", error |-> "failed", complete |-> "always",
     recent |-> FALSE, timed |-> FALSE, rendered |-> FALSE]

\* What the feed lacks reads as an empty board.
QuietFeed == [Feed EXCEPT !.shell = "quiet"]

Paged(stops) == [QuietFeed EXCEPT !.reads = "pages", !.stops = stops, !.counts = "urls"]

CutRows(stops) == [Paged(stops) EXCEPT !.cuts = "rows"]

\* Newest first, dated; only the whole of it, uncapped, is complete.
Newest(stops) ==
    [CutRows(stops) EXCEPT !.complete = "uncapped, at the end", !.recent = TRUE, !.timed = TRUE]

-----------------------------------------------------------------------------
(* Boards that come in one answer.                                         *)

applicantpro == QuietFeed

applitrack == QuietFeed

ashby == QuietFeed

bamboohr == QuietFeed

bestbuy == [Feed EXCEPT !.rendered = TRUE]

breezyhr == Feed

canyons == QuietFeed

clearcompany == QuietFeed

clinch == Feed

cognizant == [Feed EXCEPT !.rendered = TRUE]

comeet == QuietFeed

dynatrace == Feed

echo_jobs == QuietFeed

eightfold_sitemap == Feed

flyio == Feed

freshteam == Feed

gem == Feed

glidefast == QuietFeed

greenhouse == QuietFeed

gupy == QuietFeed

happydance == [Feed EXCEPT !.rendered = TRUE]

hirehive == Feed

homerun == Feed

intuitive == [Feed EXCEPT !.rendered = TRUE]

jazzhr == Feed

jobaps == QuietFeed

jobscore == Feed

jobsoid == Feed

jobvite == Feed

kula == Feed

lever == Feed

linecorp == Feed

pageup == Feed

paradox_sitemap == Feed

paycor_recruiting == QuietFeed

paylocity == Feed

personio == Feed

phenom == Feed

pinpoint == Feed

rcwilley == QuietFeed

recruitee == QuietFeed

selectminds == QuietFeed

sportsmans_warehouse == QuietFeed

successfactors_feed == QuietFeed

suu == QuietFeed

\* The sitemap holds so many jobs at most.
talentbrew == [Feed EXCEPT !.complete = "below a limit"]

toss == QuietFeed

ultipro == [QuietFeed EXCEPT !.error = "quiet", !.rendered = TRUE]

valve == QuietFeed

walmart == Feed

workable == QuietFeed

zenats == Feed

zoho_recruit == Feed

-----------------------------------------------------------------------------
(* Boards read page by page.                                               *)

adp == [CutRows({"empty", "short"}) EXCEPT !.counts = "rows"]

amazon == Newest({"empty", "short", "old"})

\* Without the hydration data it is not the end.
apple == [Newest({"empty", "short", "old"}) EXCEPT !.shell = "partial"]

attrax == CutRows({"empty"})

\* A page that cannot be read, even rendered, ends the listing.
avature == [CutRows({"empty", "short"}) EXCEPT !.error = "quiet", !.rendered = TRUE]

careerplug == [Paged({"none new"}) EXCEPT !.counts = "distinct", !.shell = "fails first"]

clearcompany_hosted ==
    [Paged({"empty", "total urls"}) EXCEPT !.shell = "failed", !.complete = "at the end"]

csod == [CutRows({"empty", "total rows"}) EXCEPT !.counts = "rows"]

dayforce == Paged({"empty", "total rows"})

eightfold == CutRows({"empty", "total rows"})

fullstack == Paged({"empty", "last page"})

google == [Paged({"empty", "short"}) EXCEPT !.counts = "offset"]

hireology == [Paged({"empty", "total urls"}) EXCEPT !.shell = "failed"]

hiringroom == [Paged({"empty", "total urls"}) EXCEPT !.counts = "distinct"]

icims_classic == [Paged({"none new", "short"}) EXCEPT !.counts = "distinct"]

\* A page that fails leaves it partial; the first, to the classic search.
icims == [Newest({"empty", "old"}) EXCEPT !.shell = "partial", !.error = "partial", !.timed = FALSE]

join == [Paged({"empty", "last page", "max pages"}) EXCEPT !.counts = "nothing", !.shell = "failed"]

motion_recruitment == Paged({"empty", "short"})

nlx == CutRows({"last page"})

oracle_fusion == Newest({"empty", "short", "old"})

paradox == CutRows({"empty"})

peopleadmin ==
    [Paged({"none new", "short"}) EXCEPT !.counts = "distinct", !.shell = "fails first"]

rippling == Paged({"short", "last page"})

schoolspring == [Paged({"short"}) EXCEPT !.counts = "distinct"]

smartrecruiters == [Paged({"none new", "max pages"}) EXCEPT !.counts = "nothing"]

successfactors == [Paged({"none new"}) EXCEPT !.counts = "distinct", !.advances = "new"]

talemetry == [CutRows({"empty", "short"}) EXCEPT !.error = "fails first", !.rendered = TRUE]

talentbrew_search == CutRows({"short"})

talentreef == [Newest({"empty", "total rows"}) EXCEPT !.counts = "nothing", !.cuts = "urls"]

taleo == [Paged({"empty", "total urls"}) EXCEPT !.rendered = TRUE]

\* A board that shows dates; it does not stop at the old postings.
workday == [Newest({"empty", "short"}) EXCEPT !.counts = "offset", !.cuts = "urls"]

workday_undated == [workday EXCEPT !.recent = FALSE, !.complete = "at the end"]

workforce_ready == [Paged({"empty", "total rows"}) EXCEPT !.counts = "distinct"]

-----------------------------------------------------------------------------
\* The ways there are.
Registry ==
    {applicantpro, applitrack, ashby, bamboohr, bestbuy, breezyhr, canyons, clearcompany,
     clinch, cognizant, comeet, dynatrace, echo_jobs, eightfold_sitemap, flyio, freshteam,
     gem, glidefast, greenhouse, gupy, happydance, hirehive, homerun, intuitive, jazzhr,
     jobaps, jobscore, jobsoid, jobvite, kula, lever, linecorp, pageup, paradox_sitemap,
     paycor_recruiting, paylocity, personio, phenom, pinpoint, rcwilley, recruitee,
     selectminds, sportsmans_warehouse, successfactors_feed, suu, talentbrew, toss, ultipro,
     valve, walmart, workable, zenats, zoho_recruit,
     adp, amazon, apple, attrax, avature, careerplug, clearcompany_hosted, csod, dayforce,
     eightfold, fullstack, google, hireology, hiringroom, icims_classic, icims, join,
     motion_recruitment, nlx, oracle_fusion, paradox, peopleadmin, rippling, schoolspring,
     smartrecruiters, successfactors, talemetry, talentbrew_search, talentreef, taleo,
     workday, workday_undated, workforce_ready}
=============================================================================
