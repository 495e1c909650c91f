------------------------------ MODULE Scanners ------------------------------
(***************************************************************************)
(* How the adapters read one posting: PostingScan's records, one for each  *)
(* scan_job_url.  A scanner is the looks it takes, in order.  A look is    *)
(*                                                                         *)
(* by        "page": fetch_html, which renders what is refused and keeps   *)
(*           the page; "own": a request of the adapter's; "render": the    *)
(*           browser; "list": a board's listing the process has cached     *)
(*                                                                         *)
(* and what it makes of each answer: the posting with its details (job), a *)
(* good answer without them (bare), one that says the posting is gone      *)
(* (notice), 404 or 410 (gone), and a block, a failure or a timeout        *)
(* (trouble).  It makes "details" of it, an "error", "expired", it is      *)
(* "handed on" to the next scanner, or leaves it to the "next" look.       *)
(***************************************************************************)
EXTENDS Sequences

PageLook == [by |-> "page", job |-> "details", bare |-> "details", notice |-> "details",
             gone |-> "error", trouble |-> "error"]

\* A page without the details is no job, or not this platform's.
PageNeeds(bare) == [PageLook EXCEPT !.bare = bare, !.notice = bare]

\* The page says so when the posting is gone.
PageTells(bare) == [PageLook EXCEPT !.bare = bare, !.notice = "expired"]

OwnLook == [by |-> "own", job |-> "details", bare |-> "error", notice |-> "error",
            gone |-> "error", trouble |-> "error"]

OwnTells == [OwnLook EXCEPT !.notice = "expired"]

\* The page first, then the platform's API for what the page lacks.
PageThen(detail) == << [PageLook EXCEPT !.job = "next", !.bare = "next", !.notice = "next"], detail >>

\* What an API adds, or does not.
Extra == [OwnLook EXCEPT !.bare = "details", !.notice = "details", !.gone = "details",
                         !.trouble = "details"]

-----------------------------------------------------------------------------
(* Scanners that read the page.                                            *)

amazon == << PageLook >>

apple == << PageLook >>

canyons == << PageTells("details") >>

cognizant == << PageTells("error") >>

comeet == << PageNeeds("handed on") >>

\* No jobData is taken for removed, or filled.
dayforce == << PageTells("expired") >>

echo_jobs == << PageLook >>

flyio == << PageLook >>

glidefast == << PageLook >>

google == << PageLook >>

gupy == << PageTells("error") >>

hireology == << PageNeeds("handed on") >>

hiringroom == << PageLook >>

jazzhr == << PageLook >>

\* Most postings are left to the generic scanner.
jobaps == << [PageTells("handed on") EXCEPT !.job = "handed on"] >>

jobaps_bulletin == << PageTells("handed on") >>

jobvite == << PageLook >>

pageup == << PageLook >>

\* A shell without its JSON-LD is taken for removed, or filled.
paycom == << PageTells("expired") >>

paycor_recruiting == << PageLook >>

peopleadmin == << PageLook >>

personio == << PageNeeds("error") >>

rcwilley == << PageLook >>

rippling == << PageNeeds("handed on") >>

stripe == << PageLook >>

successfactors == << PageNeeds("handed on") >>

suu == << PageTells("details") >>

talentbrew == << PageNeeds("handed on") >>

valve == << PageLook >>

walmart == << PageTells("details") >>

zoho_recruit == << PageTells("error") >>

-----------------------------------------------------------------------------
(* Scanners that ask an API, alone, after the page or before it.           *)

\* Every failure reads as a requisition that is not there.
adp == << [OwnTells EXCEPT !.bare = "expired", !.gone = "expired", !.trouble = "expired"] >>

\* The page names the district; the feed lists open jobs, and one without
\* the job is taken for its end.
applitrack == PageThen([OwnTells EXCEPT !.bare = "expired"])

ashby == << [OwnTells EXCEPT !.by = "list"] >>

bamboohr == << [OwnTells EXCEPT !.gone = "expired"] >>

clearcompany == << [OwnLook EXCEPT !.bare = "details", !.notice = "details"] >>

clearcompany_hosted == << [OwnTells EXCEPT !.gone = "expired"] >>

\* Not in the career site's listing is an error here.
csod == << OwnLook >>

eightfold == PageThen([Extra EXCEPT !.notice = "expired"])

fullstack == PageThen(OwnLook)

gem == PageThen(Extra)

\* A hosted posting: from the API, else from its page.
greenhouse ==
    << [OwnLook EXCEPT !.bare = "next", !.notice = "next", !.gone = "next", !.trouble = "next"],
       PageTells("details") >>

\* A company's own page: another platform's, unless it holds a description.
greenhouse_embedded == << PageTells("handed on") >>

linecorp == << OwnLook >>

nlx == PageThen(OwnLook)

oracle_fusion == PageThen([Extra EXCEPT !.notice = "expired"])

\* Asks only for the redirect of a removed posting.
paylocity ==
    << [OwnTells EXCEPT !.job = "handed on", !.bare = "handed on", !.gone = "handed on",
                        !.trouble = "handed on"] >>

\* A listing without the offer.
recruitee == << [OwnTells EXCEPT !.bare = "expired"] >>

schoolspring == << [OwnTells EXCEPT !.bare = "expired"] >>

selectminds == << [OwnTells EXCEPT !.bare = "handed on"] >>

smartrecruiters ==
    << [OwnLook EXCEPT !.notice = "details", !.gone = "expired", !.trouble = "next"],
       PageNeeds("error") >>

sportsmans_warehouse == << [OwnLook EXCEPT !.bare = "handed on", !.notice = "handed on"] >>

talentreef == << [OwnLook EXCEPT !.bare = "handed on", !.notice = "handed on"] >>

toss == << OwnLook >>

workable == << [OwnTells EXCEPT !.gone = "expired"] >>

workday == PageThen([Extra EXCEPT !.notice = "expired", !.gone = "expired"])

workforce_ready == << OwnTells >>

-----------------------------------------------------------------------------
(* Scanners that need the browser.                                         *)

\* A page that cannot be read, even rendered, may be that of a closed job.
avature ==
    << [OwnLook EXCEPT !.bare = "handed on", !.notice = "details", !.gone = "next", !.trouble = "next"],
       [PageNeeds("handed on") EXCEPT !.by = "render", !.trouble = "next"],
       [PageTells("error") EXCEPT !.by = "render", !.job = "error"] >>

bestbuy ==
    << [PageLook EXCEPT !.job = "next", !.bare = "next", !.notice = "next"],
       [PageTells("details") EXCEPT !.by = "render", !.trouble = "details"] >>

taleo ==
    << [PageNeeds("next") EXCEPT !.gone = "next", !.trouble = "next"],
       [PageLook EXCEPT !.by = "render"] >>

ultipro ==
    << [PageTells("next") EXCEPT !.gone = "next", !.trouble = "next"],
       [PageNeeds("handed on") EXCEPT !.by = "render"] >>

\* _default_scan_job_url; a validThrough in the past is the notice.
generic == << PageTells("details") >>

-----------------------------------------------------------------------------
\* ADAPTERS.
ScannerRegistry == {
    amazon, apple, canyons, cognizant, comeet, dayforce, echo_jobs, flyio, glidefast, google,
    gupy, hireology, hiringroom, jazzhr, jobaps, jobaps_bulletin, jobvite, pageup, paycom,
    paycor_recruiting, peopleadmin, personio, rcwilley, rippling, stripe, successfactors, suu,
    talentbrew, valve, walmart, zoho_recruit, adp, applitrack, ashby, bamboohr, clearcompany,
    clearcompany_hosted, csod, eightfold, fullstack, gem, greenhouse, greenhouse_embedded,
    linecorp, nlx, oracle_fusion, paylocity, recruitee, schoolspring, selectminds,
    smartrecruiters, sportsmans_warehouse, talentreef, toss, workable, workday,
    workforce_ready, avature, bestbuy, taleo, ultipro}
=============================================================================
