------------------------------ MODULE BoardKeys ------------------------------
(***************************************************************************)
(* How the adapters tell which board a URL is of, one record for each.     *)
(*                                                                         *)
(* text       what `match' reads off the URL: nothing, the board's slug as *)
(*            it is spelled, the slug in one spelling, or the host         *)
(* when       of which URLs: "any" of the site's, or a "board" page only   *)
(* behind     what `embedded_match' finds by fetching the page: nothing,   *)
(*            the slug the page holds, the host that was asked, or the     *)
(*            host where the redirects ended                               *)
(* again      how `board_key' reads a stored URL: like `match', its host,  *)
(*            by fetching it, or by fetching it when `match' reads nothing *)
(* canonical  whether a board is stored under a URL made of its key; the   *)
(*            others store the URL that was submitted                      *)
(***************************************************************************)

Spelled ==
    [text |-> "spelled", when |-> "any", behind |-> "none", again |-> "text", canonical |-> TRUE]

Folded == [Spelled EXCEPT !.text = "folded"]

\* The slug is part of the host, which normalize_url has in lower case.
InHost == Folded

\* The board of the only company that has it.
OneCompany == Folded

\* The page of a company's own site tells the slug.
Widget == [Spelled EXCEPT !.behind = "slug"]

Hosted == [Spelled EXCEPT !.text = "host", !.canonical = FALSE]

\* A company's own site, known by its page.
OwnSite(host) ==
    [text |-> "none", when |-> "any", behind |-> host, again |-> "host", canonical |-> FALSE]

Verbatim(adapter) == [adapter EXCEPT !.canonical = FALSE]

-----------------------------------------------------------------------------
adp == Spelled
amazon == OneCompany
apple == OneCompany
applicantpro == InHost
applitrack == Folded
ashby == Widget
attrax == [OwnSite("landing") EXCEPT !.again = "fetch"]
avature == [OwnSite("asked") EXCEPT !.text = "host"]
bamboohr == InHost
bestbuy == OneCompany
breezyhr == InHost
canyons == OneCompany
careerplug == Folded
clearcompany == InHost
clinch == OwnSite("landing")
cognizant == Verbatim(OneCompany)
comeet == Verbatim(Spelled)
csod == InHost
dayforce == Verbatim(Spelled)
dynatrace == OneCompany
echo_jobs == OwnSite("landing")
eightfold == [OwnSite("asked") EXCEPT !.canonical = TRUE]
flyio == OneCompany
freshteam == Folded
fullstack == OneCompany
gem == Spelled
glidefast == OneCompany
google == OneCompany
greenhouse == Widget
gupy == [Hosted EXCEPT !.again = "host"]
happydance == OwnSite("landing")
hirehive == Hosted
hireology == Spelled
hiringroom == InHost
homerun == Verbatim(Folded)
icims == [OwnSite("landing") EXCEPT !.text = "host"]
intuitive == OneCompany
jazzhr == InHost
jobaps == Verbatim(Folded)
jobscore == Spelled
jobsoid == Folded
jobvite == Spelled
join == Verbatim(Folded)
kula == Spelled
lever == Spelled
linecorp == OneCompany
motion_recruitment == OneCompany
nlx == OwnSite("asked")
oracle_fusion == [Verbatim(Widget) EXCEPT !.again = "fetch"]
pageup == Verbatim(Spelled)
paradox == [OwnSite("landing") EXCEPT !.again = "fetch"]
paycor_recruiting == Widget
paylocity ==
    [Verbatim(Folded) EXCEPT !.when = "board", !.behind = "slug", !.again = "text, fetch"]
peopleadmin == Hosted
personio == InHost
phenom == OwnSite("landing")
pinpoint == [OwnSite("landing") EXCEPT !.text = "host"]
rcwilley == OneCompany
recruitee == InHost
rippling == Spelled
schoolspring == Folded
selectminds == InHost
smartrecruiters == Folded
sportsmans_warehouse == Verbatim(OneCompany)
successfactors == OwnSite("landing")
suu == OneCompany
talemetry == OwnSite("asked")
talentbrew == OwnSite("landing")
talentreef == OwnSite("landing")
taleo == Spelled
toss == OneCompany
ultipro == Spelled
valve == OneCompany
walmart == OneCompany
workable == Widget
workday == Widget
workforce_ready == Folded
zenats == OwnSite("landing")
zoho_recruit == Verbatim(Folded)

-----------------------------------------------------------------------------
\* ADAPTERS that list a board, stripe and paycom only scan.
Keyed ==
    {adp, amazon, apple, applicantpro, applitrack, ashby, attrax, avature, bamboohr, bestbuy,
     breezyhr, canyons, careerplug, clearcompany, clinch, cognizant, comeet, csod, dayforce,
     dynatrace, echo_jobs, eightfold, flyio, freshteam, fullstack, gem, glidefast, google,
     greenhouse, gupy, happydance, hirehive, hireology, hiringroom, homerun, icims, intuitive,
     jazzhr, jobaps, jobscore, jobsoid, jobvite, join, kula, lever, linecorp,
     motion_recruitment, nlx, oracle_fusion, pageup, paradox, paycor_recruiting, paylocity,
     peopleadmin, personio, phenom, pinpoint, rcwilley, recruitee, rippling, schoolspring,
     selectminds, smartrecruiters, sportsmans_warehouse, successfactors, suu, talemetry,
     talentbrew, talentreef, taleo, toss, ultipro, valve, walmart, workable, workday,
     workforce_ready, zenats, zoho_recruit}
=============================================================================
