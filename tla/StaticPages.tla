----------------------------- MODULE StaticPages -----------------------------
(***************************************************************************)
(* The static pages, as one job meets them: its own page, the hub and      *)
(* collection pages, the sitemap, the day pages and the pages of related   *)
(* jobs that link to it.  A run reads the manifest and then the rows, and  *)
(* reads a row again when it renders; meanwhile the row changes, and the   *)
(* run may die between any two uploads.  The other jobs are there as the   *)
(* budget they leave and the hubs they keep up.                            *)
(***************************************************************************)
EXTENDS Naturals

CONSTANTS
    Contents,         \* what a scan may find; each has a descriptive path
    Legacy,           \* the path of a page published before 2026-10-03
    MaxStamp          \* bound on the scans and closings of the job

ASSUME StaticPagesAssumption == Legacy \notin Contents /\ MaxStamp \in Nat \ {0}

Paths == Contents \union {Legacy}

VARIABLES
    stamp,            \* the last time a scan or a closing took
    job,              \* the row; closed is 0 while it is open
    site,             \* the page store: what is at each path of the job
    saved,            \* the job's entry of the saved manifest
    pagesRun,         \* the run: its phase, what it read, and what it will save
    lists,            \* a hub or collection page: its links to the job, and whether its manifest has it
    sitemap,          \* paths of the job the sitemap lists
    linked,           \* paths of the job the day pages and the pages of other jobs link to
    unpublished,      \* history: paths handed out for a page that then could not be rendered
    unsure            \* history: paths a run died after writing, or rendered from a
                      \* row closed or reopened since the run's index

pageVars == <<stamp, job, site, saved, pagesRun, lists, sitemap, linked, unpublished, unsure>>

Stamps == 0 .. MaxStamp
Nothing == [is |-> "nothing"]
Gone == [is |-> "gone"]
Forward(p) == [is |-> "forward", to |-> p]
NoEntry == [path |-> "none"]
NotListed == [scan |-> 0, closed |-> 0]

\* render_job_page: what a page shows of the row, its closing included.
JobPage(r) == [is |-> "job", content |-> r.content, closed |-> r.closed]

\* Mutant: the closing is left out of the hash.
OpenHash(r) == <<r.content, 0>>
ContentHash(r) == <<r.content, r.closed>>

\* new_job_path
NewJobPath(r) == r.content

IdleRun == [phase |-> "idle", index |-> NotListed, entry |-> NoEntry, path |-> Legacy, live |-> FALSE,
            forced |-> FALSE, room |-> FALSE, planned |-> FALSE, dirty |-> {}]

Phases == {"idle", "new", "move", "forward", "check", "remove", "save", "lists", "listed",
           "sitemap", "days"}

Entry == [path : Paths, scan : Stamps, closed : Stamps, hash : Contents \X Stamps]

PagesTypeOK ==
    /\ stamp \in Stamps
    /\ job \in [status : {"absent", "hidden", "live", "deleted"},
                content : Contents \union {"none"}, scan : Stamps, closed : Stamps]
    /\ site \in [Paths -> {Nothing, Gone} \union [is : {"job"}, content : Contents, closed : Stamps]
                          \union [is : {"forward"}, to : Contents]]
    /\ saved \in Entry \union {NoEntry}
    /\ pagesRun \in [phase : Phases, index : [scan : Stamps, closed : Stamps], entry : Entry \union {NoEntry},
                     path : Paths, live : BOOLEAN, forced : BOOLEAN, room : BOOLEAN,
                     planned : BOOLEAN, dirty : SUBSET Paths]
    /\ lists \in [links : SUBSET Paths, listed : BOOLEAN]
    /\ sitemap \subseteq Paths /\ linked \subseteq Paths
    /\ unpublished \subseteq Paths /\ unsure \subseteq Paths

\* The job is not found yet, or has had a page since before the move.
PagesInit ==
    /\ job \in [status : {"absent"}, content : {"none"}, scan : {1}, closed : {0}]
               \union [status : {"live"}, content : Contents, scan : {1}, closed : {0}]
    /\ stamp = 1
    /\ LET old == job.status = "live"
       IN  /\ site = [p \in Paths |-> IF old /\ p = Legacy THEN JobPage(job) ELSE Nothing]
           /\ saved = IF old THEN [path |-> Legacy, scan |-> 1, closed |-> 0, hash |-> ContentHash(job)]
                      ELSE NoEntry
           /\ linked = IF old THEN {Legacy} ELSE {}
    /\ pagesRun = IdleRun
    /\ lists = [links |-> {}, listed |-> FALSE]
    /\ sitemap = {} /\ unpublished = {} /\ unsure = {}

-----------------------------------------------------------------------------
(* The row.                                                                *)

RowOnly == UNCHANGED <<site, saved, pagesRun, lists, sitemap, linked, unpublished, unsure>>

\* A scan finds the job, or finds it changed; one that fails hides it.
ScanJob(c, status) ==
    /\ job.status # "deleted" /\ stamp < MaxStamp
    /\ job.status = "absent" => status = "live"
    /\ stamp' = stamp + 1
    /\ job' = [job EXCEPT !.status = status, !.content = c, !.scan = stamp + 1]
    /\ RowOnly

CloseJob ==
    /\ job.status \in {"live", "hidden"} /\ job.closed = 0 /\ stamp < MaxStamp
    /\ stamp' = stamp + 1
    /\ job' = [job EXCEPT !.closed = stamp + 1]
    /\ RowOnly

ReopenJob ==
    /\ job.status \in {"live", "hidden"} /\ job.closed # 0
    /\ job' = [job EXCEPT !.closed = 0]
    /\ UNCHANGED stamp /\ RowOnly

\* _eligible_filter: flagged, now a duplicate or too old, and the reverse.
HideOrShowJob ==
    /\ job.status \in {"live", "hidden"}
    /\ job' = [job EXCEPT !.status = IF @ = "live" THEN "hidden" ELSE "live"]
    /\ UNCHANGED stamp /\ RowOnly

DeleteJob ==
    /\ job.status \in {"live", "hidden"}
    /\ job' = [job EXCEPT !.status = "deleted"]
    /\ UNCHANGED stamp /\ RowOnly

-----------------------------------------------------------------------------
(* A run, to the manifest's last save.                                     *)

\* upload_html: the store takes the page in place of what is there.
Upload(p, page) == [site EXCEPT ![p] = page]

\* load_link_index
Listed == job.status = "live"

\* generate_job_pages, up to its first upload.  The budget and the choice of
\* pages to re-render all the same depend on the other jobs.
StartPages(budget, forced) ==
    LET published == saved # NoEntry
        moves == Listed /\ published /\ saved.path = Legacy /\ budget = "moves too"
        due == forced \/ saved.scan # job.scan \/ saved.closed # job.closed
        checks == Listed /\ published /\ ~moves /\ due
    IN  /\ pagesRun.phase = "idle"
        /\ forced => checks
        /\ pagesRun' =
             [phase |-> CASE Listed /\ ~published /\ budget # "none" -> "new"
                          [] moves -> "move"
                          [] checks -> "check"
                          [] ~Listed /\ published -> "remove"
                          [] OTHER -> "save",
              index |-> IF Listed THEN [scan |-> job.scan, closed |-> job.closed] ELSE NotListed,
              entry |-> saved,
              path |-> IF published /\ ~moves THEN saved.path
                       ELSE IF Listed THEN NewJobPath(job) ELSE Legacy,
              live |-> Listed /\ (published \/ budget # "none"),
              forced |-> forced, room |-> checks /\ budget # "none", planned |-> FALSE, dirty |-> {}]
        /\ UNCHANGED <<stamp, job, site, saved, lists, sitemap, linked, unpublished, unsure>>

\* load_job_pages
Loadable == job.status \in {"live", "hidden"}

\* The hubs, the collections and the related pages link to open jobs that have
\* a page, or are to have one after this run.
LinkedFromLists == pagesRun.live /\ pagesRun.index.closed = 0
PlannedLinks == {p \in {pagesRun.path} : LinkedFromLists}

NewEntry == [path |-> pagesRun.path, scan |-> pagesRun.index.scan,
             closed |-> pagesRun.index.closed, hash |-> ContentHash(job)]

\* publish, for this job: the upload, and its entry in memory.
Publish(next) ==
    LET p == pagesRun.path
    IN  /\ site' = Upload(p, JobPage(job))
        /\ pagesRun' = [pagesRun EXCEPT !.phase = next, !.entry = NewEntry, !.dirty = @ \union {p}]
        /\ unpublished' = unpublished \ {p}
        /\ unsure' = IF job.closed # pagesRun.index.closed THEN unsure \union {p} ELSE unsure \ {p}
        /\ UNCHANGED <<stamp, job, saved, lists, sitemap, linked>>

\* publish, for a related job of this run.
PublishRelated ==
    /\ pagesRun.phase \in {"new", "move", "forward", "check", "remove", "save"}
    /\ LinkedFromLists /\ pagesRun.path \notin linked
    /\ linked' = linked \union {pagesRun.path}
    /\ UNCHANGED <<stamp, job, site, saved, pagesRun, lists, sitemap, unpublished, unsure>>

PublishNew ==
    /\ pagesRun.phase = "new" /\ Loadable
    /\ Publish("save")

\* The full page first, so the old path never forwards to nothing.
MovePage ==
    /\ pagesRun.phase = "move" /\ Loadable
    /\ Publish("forward")

LeaveForward ==
    /\ pagesRun.phase = "forward"
    /\ site' = Upload(Legacy, Forward(pagesRun.path))
    /\ pagesRun' = [pagesRun EXCEPT !.phase = "save", !.dirty = @ \union {Legacy}]
    /\ unsure' = unsure \ {Legacy}
    /\ UNCHANGED <<stamp, job, saved, lists, sitemap, linked, unpublished>>

Skip(run) ==
    /\ pagesRun' = [run EXCEPT !.phase = "save"]
    /\ UNCHANGED <<stamp, job, site, saved, lists, sitemap, linked, unsure>>

\* Gone since the index query: no page, although this run links to it.
NewIsGone ==
    /\ pagesRun.phase = "new" /\ ~Loadable
    /\ unpublished' = unpublished \union {pagesRun.path}
    /\ Skip(pagesRun)

\* Mutant: the move that is not made leaves the path of the index as it is.
MoveIsGoneElsewhere ==
    /\ pagesRun.phase = "move" /\ ~Loadable
    /\ UNCHANGED unpublished
    /\ Skip(pagesRun)

\* Gone since the index query: stays where it is, unless a page rendered
\* earlier in the run links ahead.
MoveIsGone ==
    /\ pagesRun.phase = "move" /\ ~Loadable
    /\ unpublished' = unpublished \union (linked \intersect {pagesRun.path})
    /\ Skip([pagesRun EXCEPT !.path = Legacy])

\* A job rescanned, closed, reopened or named; only a change re-renders it.
CheckPage ==
    LET same == ~pagesRun.forced /\ ContentHash(job) = saved.hash
    IN  /\ pagesRun.phase = "check"
        /\ IF Loadable /\ ~same /\ pagesRun.room THEN Publish("save")
           ELSE /\ Skip(IF Loadable /\ same
                        THEN [pagesRun EXCEPT !.entry.scan = pagesRun.index.scan,
                                              !.entry.closed = pagesRun.index.closed]
                        ELSE pagesRun)
                /\ UNCHANGED unpublished

\* The page that says the job is no longer available.
RemovePage ==
    /\ pagesRun.phase = "remove"
    /\ site' = Upload(saved.path, Gone)
    /\ pagesRun' = [pagesRun EXCEPT !.phase = "save", !.entry = NoEntry, !.dirty = @ \union {saved.path}]
    /\ unsure' = unsure \ {saved.path}
    /\ UNCHANGED <<stamp, job, saved, lists, sitemap, linked, unpublished>>

\* checkpoint: after this job's batch, or at the end.
SaveManifest ==
    /\ pagesRun.phase = "save"
    /\ saved' = pagesRun.entry
    /\ pagesRun' = [pagesRun EXCEPT !.phase = "lists", !.dirty = {}]
    /\ UNCHANGED <<stamp, job, site, lists, sitemap, linked, unpublished, unsure>>

-----------------------------------------------------------------------------
(* The pages that list jobs.                                               *)

\* publish_hubs, publish_collection_pages: the uploads.  Whether there is a
\* page depends on the other jobs (COMPANY_MIN_JOBS) and the collections; one
\* that is not planned is retired, if the last manifest has it.
PublishLists(planned) ==
    /\ pagesRun.phase = "lists"
    /\ lists' = [lists EXCEPT !.links = IF planned THEN PlannedLinks
                                       ELSE IF lists.listed THEN {} ELSE @]
    /\ pagesRun' = [pagesRun EXCEPT !.planned = planned, !.phase = "listed"]
    /\ UNCHANGED <<stamp, job, site, saved, sitemap, linked, unpublished, unsure>>

\* HUB_MANIFEST_KEY, COLLECTION_MANIFEST_KEY
WriteListManifest ==
    /\ pagesRun.phase = "listed"
    /\ lists' = [lists EXCEPT !.listed = pagesRun.planned]
    /\ pagesRun' = [pagesRun EXCEPT !.phase = "sitemap"]
    /\ UNCHANGED <<stamp, job, site, saved, sitemap, linked, unpublished, unsure>>

\* The sitemap: pages of the manifest, under their descriptive path, until
\* CLOSED_SITEMAP_DAYS after the job closed.
WriteSitemap(closedLongAgo) ==
    LET e == pagesRun.entry
        lists_it == /\ e # NoEntry /\ pagesRun.index # NotListed /\ e.path # Legacy
                    /\ pagesRun.index.closed # 0 => ~closedLongAgo
    IN  /\ pagesRun.phase = "sitemap"
        /\ sitemap' = IF lists_it THEN {e.path} ELSE {}
        /\ pagesRun' = [pagesRun EXCEPT !.phase = "days"]
        /\ UNCHANGED <<stamp, job, site, saved, lists, linked, unpublished, unsure>>

\* jobs_for_sector_day
OnDayPage == job.status = "live" /\ job.closed = 0

\* generate_for_date: the page of today links to the job where this run's job
\* pass says it is, else to the app.  The pages of past days stay.
WriteDayPages(today) ==
    /\ pagesRun.phase = "days"
    /\ linked' = IF today /\ OnDayPage /\ pagesRun.live THEN linked \union {pagesRun.path} ELSE linked
    /\ pagesRun' = IdleRun
    /\ UNCHANGED <<stamp, job, site, saved, lists, sitemap, unpublished, unsure>>

-----------------------------------------------------------------------------
(* Failures.                                                               *)

\* Paths the run has handed out, and not yet uploaded.
Promised == {p \in {pagesRun.path} : pagesRun.phase \in {"new", "move"}}

RunEndsEarly ==
    /\ unsure' = unsure \union pagesRun.dirty
    /\ unpublished' = unpublished \union (Promised \intersect linked)
    /\ UNCHANGED <<stamp, job, site, saved, lists, sitemap, linked>>

\* The execution is killed, or times out.
RunDies ==
    /\ pagesRun.phase # "idle"
    /\ pagesRun' = IdleRun
    /\ RunEndsEarly

\* An upload or a query fails: the day pages still go out, linking from the
\* last saved manifest (read_job_paths).
JobPassFails ==
    /\ pagesRun.phase \notin {"idle", "days"}
    /\ pagesRun' = [IdleRun EXCEPT !.phase = "days", !.live = saved # NoEntry,
                                   !.path = IF saved = NoEntry THEN Legacy ELSE saved.path]
    /\ RunEndsEarly

PagesNext ==
    \/ \E c \in Contents, status \in {"live", "hidden"} : ScanJob(c, status)
    \/ CloseJob \/ ReopenJob \/ HideOrShowJob \/ DeleteJob
    \/ \E budget \in {"none", "renders", "moves too"}, forced \in BOOLEAN : StartPages(budget, forced)
    \/ PublishRelated \/ PublishNew \/ MovePage \/ LeaveForward \/ NewIsGone \/ MoveIsGone
    \/ CheckPage \/ RemovePage \/ SaveManifest
    \/ \E b \in BOOLEAN : PublishLists(b) \/ WriteSitemap(b) \/ WriteDayPages(b)
    \/ WriteListManifest
    \/ RunDies \/ JobPassFails

PagesSpec == PagesInit /\ [][PagesNext]_pageVars

-----------------------------------------------------------------------------
(* Properties.                                                             *)

PagesUp == {p \in Paths : site[p] # Nothing}

\* No link leads nowhere: not a forwarding page, not the sitemap, and not a
\* hub, collection, day page or related job's page, except to a page that was
\* due when it was linked to and that its run did not get to; whatever happens
\* to the row during a run, wherever runs die, and although paths are made
\* from a title that changes.
LinksLand ==
    /\ \A p \in Paths : site[p].is = "forward" => site[site[p].to].is \in {"job", "gone"}
    /\ sitemap \subseteq PagesUp
    /\ lists.links \union linked
          \subseteq PagesUp \union Promised \union unpublished

\* A page the next run will leave alone is right: it shows the row as it is,
\* and there is no page of the job elsewhere, except where a run died after
\* writing or the job closed or reopened while the run was rendering it.
LeftAloneIsRight ==
    pagesRun.phase = "idle" =>
        \A p \in Paths \ unsure :
            /\ site[p].is = "job" => saved # NoEntry /\ saved.path = p
            /\ (/\ saved # NoEntry /\ saved.path = p /\ job.status = "live"
                /\ saved.scan = job.scan /\ saved.closed = job.closed) => site[p] = JobPage(job)
=============================================================================
