# Verification of the job board backend

TLA+ models of the parts of this backend that several processes share, or that
one process may leave half done: scanning job URLs, reading and crawling boards,
registering them, and everything kept about jobs, companies and users beside it.
`PROJECT.json` lists the components, the runs,
the source lines every definition stands for, the known hazards and the proved
theorems. This file explains the models and what has been shown about them.

## The system

Everything shared lives in Postgres; processes talk through rows and through
two Pub/Sub topics.

| Component | State it keeps | Operations | Hard parts |
|---|---|---|---|
| Scan claims and lanes (`scan_claims.py`, `worker.py`, `job_queue.py`) | `scan_claimed_at`, the scan queue | claim, store, rest, hand over; lock and scan a submitted URL | lanes in parallel, claims that expire, crashes, duplicate and lost messages |
| Scan results and retries (`jobs.py`, `retry_failed_scans.py`) | status, attempts, `next_retry_at`, `closed_at` of a URL, `extraction_status` and description of its posting | store a result, schedule a retry, sweep, register, user rescan | two rows written together, results applied to old copies |
| People (`routes/crawl_sources.py`, `routes/jobs.py`, `routes/admin.py`) | none of their own | submit, rescan a URL, rescan or delete a source, delete a listing, trigger a crawl | they act on rows that lanes and crawls are working on |
| Crawl dispatch and worker (`crawl_dispatcher.py`, `crawl_worker.py`) | `crawl_claimed_at`, `next_crawl_at`, `missing_since`, the crawl queue | find due, claim and publish; list, register, record presence | overlapping and redelivered crawls, partial listings, closing in bulk |
| Crawl source registration (`crawl_sources.py`, `company_names.py`, `official_sites.py`) | `crawl_sources`: URL, platform, status, name and where it is from | find or register a board, promote, confirm and edit its name | creation races; a URL read in several ways; names written minutes after they were read |
| Board and page adapters (`services/adapters/`) | a cached page or listing per process | list a board, scan a posting | when a listing counts as whole; which answers mean "gone" |
| Dedup (`job_dedup.py`) | `primary_posting_id` | find a primary, take a group over, regroup | two postings of one job scanned at once; chains |
| Auto score (`auto_score.py`) | one row per run | start, run stages, poll and restart | redelivered runs, leases, LLM calls between commits |
| Credits and plan (`ai_access.py`), billing (`billing.py`) | counters, unlocks, subscription columns | spend, unlock, apply events | concurrent requests, events out of order |
| Sign-in, OAuth (`auth.py`, `oauth.py`) | one-time links, codes, tokens | create, redeem, exchange, rotate, revoke | redeemed once, under parallel requests |
| Resumes and results (`routes/resumes.py`) | versions, drafts, files; scores, letters, an application's pointers | upload, restore, apply, delete; score, evaluate, write | LLM calls between read and commit; files outside the transaction |
| Alerts, reminders (`saved_search_alerts.py`, `follow_up_reminders.py`) | `last_alerted_at`, the date reminded of | sweep | a cursor moved past rows that commit late; dates changed during a sweep |
| Collections (`collection_*.py`, `job_collections.py`) | one row per collection page | evaluate, retire, restore, discover, act by hand | dates cleared and set by many; who archived last |
| Company domains and logos (`company_logos.py`) | the company's row, the object at its alias | resolve, evict, sync, set by hand | two minutes between read and commit; objects outside the transaction |
| Static pages (`static_*_pages.py`) | objects and manifests in a bucket | publish, move, mark gone, list | a run over rows that change; deaths between uploads |
| Coverage monitor, browser scaler | running crawl counts; none | update a streak; scale and warm up | not modelled |

How they interact. A crawl registers URLs as PENDING rows and wakes its source's
scan lanes; the dispatcher and the hourly retry sweep wake them again as a safety
net. A user's submission makes a row without a source and a message of its own;
its scan may attribute it to a board, from where on crawls and lanes own it.
Scans and crawls both close rows. Dedup runs inside the storing of a result.
Auto score uses the scan queue's topic and spends credits through AI access,
whose limits billing events set.

What makes each part correct:

- *Lanes*: no more fetches of a board at once than its cap; no page twice at
  once; a URL in a queue is eventually dealt with.
- *Results*: a failure count that agrees with the status; a posting and its row
  in step; good data never replaced by a failure.
- *Crawls*: crawls of a board do not pile up; one bad listing, however often it
  is processed, cannot close a board.
- *Adapters*: a listing that says it is complete is; only what is down is closed
  as expired.
- *Registration*: one source per board; an admin's name stands.
- *Dedup*: every group has one head, the official copy if there is one.
- *Auto score*: a stage is worked on by one delivery at a time, and every run ends.
- *Credits*: never more spent than the limit, never twice for one job; the mirror
  of the subscription converges.
- *One-time secrets*: redeemed at most once, within their time and attempts; a
  grant's access token ends with its refresh token.
- *Resumes*: one default, the latest; no draft and no file lost; pointers that
  agree with the results.
- *Alerts, reminders*: nothing is skipped by the cursor or silenced by a mark.
- *Collections*: days of grace are kept; what a person archived stays archived.
- *Logos, pages*: what is shown is of the row as it is; no link leads nowhere.

## Modules

| Module | What it is |
|---|---|
| `ScanRows` | one URL's row with its posting, and every write the scan code makes to it |
| `ScanPipeline` | rows, sources, queue, workers, user requests and faults: the scan system |
| `FetchLimiter` | the abstract specification: what throttling promises the sites scanned |
| `BoardCrawl` | dispatch and crawls of one board, and the closing of its URLs |
| `BoardListing`, `Adapters` | the reading of a board, page by page; one record for each adapter |
| `PostingScan`, `Scanners` | the scan of one posting, handed from scanner to scanner; one record for each |
| `SourceRegistry`, `BoardKeys` | the sources of a board and their names; one record for each adapter |
| `JobDedup` | the groups of postings of one job |
| `AutoScore` | runs, their stages, leases and deliveries |
| `AiCredits`, `Billing` | what a user has spent and unlocked; the subscription and its mirror |
| `SignIn`, `OAuthGrants` | links and codes; one authorization and its tokens |
| `ResumeVersions`, `ResumeResults` | versions, drafts and files; the results of a resume for a job |
| `AlertSweep`, `FollowUps` | the two sweeps that mail |
| `Collections` | evaluation, lifecycle and hand actions on collection pages |
| `CompanyLogos` | domains, logos, the sync and the alias |
| `StaticPages` | the page of one job, and everything that links to it |
| `MCScanPipeline`, `MCScanPeople`, `MCBoardCrawl`, `MCPostingScan`, `MCBoards`, `MCUpkeep`, `MCAccounts` | small instances for TLC |
| `*_proofs` | theorems and proofs, see Proofs |

Common to all: a transaction with no call outside the database between its reads
and its commit is one step; one that waits (for a page, an LLM, a mail server,
object storage) or that another transaction can meet is split where it reads and
where it commits. Isolation is READ COMMITTED, sessions do not autoflush, and a
request commits once, at its end (`db/session.py`). What code writes back over a
change it has not seen is modelled as it is, column by column. Where two requests
that overlap break a promise and no code guards against it, a history variable
notes the overlap and the property says so: those exceptions were each checked to
be needed.

### ScanPipeline

An action is one database transaction, or one external event. That is why a lane
is three actions: `ClaimNextUrl` (a transaction that holds the lock on the
source's row, counts claims and claims one more), then the fetch with nothing
held, then `StoreResult`; any other action may come between them. A submitted
URL's scan instead holds its row lock through the fetch (`LockSubmittedUrl`,
`FinishSubmittedUrl`), and `Locked` makes everyone else who writes the row wait.
A transaction with no network call between its reads and its commit
(`RetrySweep`, `SubmitSkippedUrl`) is a single step. Both read without a lock, and
both write only rows in one given state, FAILED or SKIPPED, which nothing leaves in
the moments their transaction takes but another of their kind, or a person.

A user's rescan is three actions, because the ORM loads the row before the fetch
(`RescanStart`), reads only the posting afresh when the result is in
(`RescanApply`), and at the request's commit writes those columns whose new
value differs from the loaded one (`RescanFlush`): `WriteChanged` is that rule.
An admin's rescan of a source fetches nothing, but it loads every row of the
source, in whatever state and with no lock, so it is two: `ResetStart` notes of
each row the columns that will be written, and `ResetCommit` writes those into
the row as it is by then (`ResetInto`). Rows that lanes settle in between come out
half reset (`HalfReset`).

Times are ages: `claim` says how long ago the claim was made and stops growing
at its lifetime, `retry` how long the backoff still lasts. The claim's clock is
read after the invocation began, so the claim is never older than the
invocation. `Tick` is an arbitrary stretch of time; it is disabled while an
invocation has used up the platform's timeout, which is how the platform's
killing of it is expressed: it must finish, or `Crash`, first. This is the
deployed Cloud Function's 540 s. The pull loop for local development has no such
limit, and nothing is claimed for it.

The queue is a set: a second wake-up that waits beside the first one adds
nothing. Delivery may leave the message in the queue (a duplicate). Faults
(a crash, a failed publish, a duplicate delivery) are limited by `FaultBudget`.
A database error in a lane rolls back and has the message redelivered: `Crash`.

What a scan finds is a free choice of five results. A description may be too
short (`incomplete`) or long enough but only the page's own summary (`teaser`),
which the code stores the same way but treats differently at the next scan.

### BoardCrawl

Boards never meet in this code, so one is modelled. The dispatcher reads which
sources are due at the start of its run (`PickDue`) and claims them, dated back
to that start, as it goes along (`Dispatch`). A crawl is a sequence of
transactions: load the source, list the board, register new URLs with the
crawl's bookkeeping, record presence; each listing is any subset of the URLs and
healthy or not as one likes, so nothing depends on boards behaving. `Urls` are
the URLs that come and go; those that stay listed can only raise the daily share.

`record_board_presence` takes no lock, so its reads (`ReadPresence`) and its
writes (`WritePresence`) are two steps, and other crawls may come between. Rows
it saw listed are stamped as of the reads. A crawl that would not have seen those
stamps, because they were uncommitted, is a crawl that reads before them, so no
outcome is lost; a failure in the transaction is a failure before its reads. The
code closes the rows missing longest first; they are read in no order, and rows
missed by one crawl have been missing equally long, so which are closed is a
free choice here.

Left out of this module: inactive or deleted sources, the batch size of the
dispatcher, waking the lanes after a crawl, and two dispatcher runs at once.

### BoardListing and PostingScan

Both are one small machine with a table of records, one record per adapter
(`Adapters`, `Scanners`), so that an adapter is a few facts: how its site pages,
what ends the loop, what it filters, where it cuts; or which calls a scan makes,
in which order, and what each answer (found, gone, refused, failed, a page
without the posting) is taken for. `BoardListing` reads a board that changes
while it is read: a page is the set of postings at its places, what is read is
the sequence of its rows, and the cut at the cap is by rows or by different URLs,
as the adapter's code has it (`cuts`). `PostingScan` follows the whole chain of scanners a URL may be
handed to, the page kept for the next one, and ashby's cached listing. `PROJECT.json`
maps a record to the adapter's code with the parsing helpers it calls, whose detail
the record abstracts.

### JobDedup, AutoScore, Collections, FollowUps

`JobDedup`: a scan reads candidates for a primary, and commits later; another
scan, a closing, a deletion or `redo_dedup` may come between. The rows that
`redo_dedup` sorts and walks through are a relation here: who comes first in a
bucket, and who joins whom (`JoinsFirst`, `Follows`). `AutoScore`: a
delivery takes the run's row, and each stage is a lease, a call and a commit; a
worker may die anywhere, a page polls and restarts what is stale. `Collections`:
an evaluation reads the row and commits minutes later beside admins and the
discovery batch. `FollowUps`: the sweep reads, mails and marks at its end.

### AiCredits to CompanyLogos

`AiCredits` has a step per SQL statement that takes a lock or may fail at a
constraint; a webhook writes it any period, older ones and NULL included, as
`sync_subscription` compares none. `Billing` has the subscriptions at the provider,
webhooks that read one afresh, and the mirrored columns. A Checkout session is made
after a look at the mirror alone (`CreateCheckoutSession`) and paid at any later
time (`PayCheckout`), so two may be open, and paid; `parallel` notes that two
subscriptions were live at once. `SignIn` and `OAuthGrants` have requests that
lock or do not lock the row they redeem, as the code does. `ResumeVersions` and
`ResumeResults` have requests that wait for an LLM or for storage with what they
read. `CompanyLogos` has the scan's claim on a domain, the sync's two-minute gap
between reading and committing, and the object at the alias, which no
transaction covers. `SourceRegistry` has registrars (scan lanes and runs of the
finder) that look a board up and commit at the end of the scan, minutes later,
and an admin's PATCH whose read and commit are apart; what an adapter reads off a
URL is its record in `BoardKeys`.

### StaticPages

A run builds its index, reads rows, renders, uploads page by page, writes
manifests at checkpoints and at its end, then hubs, sitemap and day pages; rows
are scanned, closed and deleted meanwhile, and a run dies anywhere. One job is
followed; the others are the budget they leave and the hubs they keep up. One
run at a time: the schedule spaces them (runs four hours apart with a timeout of
half an hour); a run by hand may overlap one, and is left out.

## Runs

| Run | Question | Instance |
|---|---|---|
| `scan_system` | Without people resetting rows, is a source never over its cap, no page fetched twice at once, and `FetchLimiter` implemented? | two URLs, two workers, a cap of 1, timeouts of one tick, one fault |
| `scan_admin` | Do the retry record and good postings survive admins, half resets apart; can a rescan that writes back an old copy leave a posting waiting for nobody? | two instances of `ScanPipeline`: one URL, two workers, two admins; one URL, worker and request |
| `scan_liveness` | Is every URL in a source's queue eventually settled? | fair, two URLs, one worker, one fault, no symmetry |
| `board_crawl` | Do dispatches stay spaced, do two misses come from two crawls, is the daily share kept by crawls that do not overlap; is only what is down closed as expired; do links to a job's page land? | two instances of `BoardCrawl` (one URL under two crawls; two URLs under one), one posting under every scanner, one job's pages |
| `upkeep` | Is a listing that counts as whole whole; does every group keep a head, the official one; is a run worked on once and ended; are grace days, archives, reminders kept? | a board of up to five pages' rows, three postings, one run and two deliveries, one collection, two applications |
| `accounts` | Are credits, the mirror, resumes, results, the cursor, codes, grants, logos and sources right under concurrent requests? | two jobs, two requests, three resumes, two companies, two sources |
| `scan_politeness` | Is the fetch cap kept through an admin's rescan? (it is not) | two URLs, two workers, one admin |
| `scan_clobber` | Is a good posting kept through a user's rescan? (it is not) | |
| `scan_stranded` | Is a submitted URL always scanned? (it is not) | fair |
| `board_overlap` | Is the daily share kept by crawls that overlap? (it is not) | two URLs, two crawls at once |
| `scan_trouble` | Is an error of a request never taken for a posting that is gone? (it is, by one adapter) | one posting |
| `logo_shared` | Is a host found to be shared refused from then on? (it is not) | three companies, the real limit of 2 |

`scan_admin`, `board_crawl`, `upkeep` and `accounts` each check several parts
that share no state. A variable `part`, chosen at the start, says whose behaviour
it is; the others stay as they begin, so the states add up instead of
multiplying, and each part is explored exactly as it would be alone.

The bounds. The hazards are about two: two lanes on one source with a cap of 1,
a slow lane and its successor, a lane and a request, two crawls of one board.
The timing constants are the smallest that keep the order the configuration has
(function timeout below claim lifetime and backoff; claim lifetime no longer
than the crawl interval; timeout below the gap between two misses) and leave
each limit one tick of room on both sides, so that a claim expires, a backoff
ends and a timeout strikes within a run. In the runs with people and in the
liveness run the timeouts are zero ticks: an invocation ends within the tick it
began in, while every other action may still come between its steps. Two attempts are the least that has both
a retry and a surrender. The daily share's minimum is 1 instead of 10, so two
URLs suffice to exceed it. One fault at a time shows recovery from it; the
proofs hold for any number. Symmetry is used over interchangeable values in
safety runs only.

The state constraints cut what adds nothing to a question:

- `FewMessages` (`scan_admin`): one wake-up waits at a time; several are the
  business of `scan_system`. The retry record and the good postings are facts of
  single rows, so one URL is enough there; what meets on it are two lanes and the
  rescans of two admins.
- `FewPages` (`board_crawl`): two of the job's pages are up at a time, and two
  links or doubts about it are followed.
- `RaceBound` (`upkeep`): groups that overlapping scans have raced on are followed
  with two postings, and `redo_dedup` overlaps nothing. `PagesBound`: a listing
  that never ends is followed for eight pages.
- `FewCredits`, `FewMishaps`, `FewResults`, `OneLogo`, `FewSources` (`accounts`):
  a charge that is not a job's ends a behaviour, and so does a period's count that
  was begun again, once its requests have ended; a behaviour is about the trial or
  about a plan that does not lapse; one request at a time has read another plan
  than the row's, and requests take turns once one of them charged such a plan or an
  older period was put back; two mishaps (an overlap, an edit
  in place, a deletion that failed), the latter two in the life of two resumes; two results once they
  are entangled; one company and one rival for its host (`SharedLimit` is 1 there,
  so that one rival is enough); and either two URLs become sources, under every
  adapter's record, or one source gets its name, under one URL.

Every mutant in `PROJECT.json` is found within these bounds.

## Where code and documentation disagree

Six runs end in a violation; `PROJECT.json` quotes the lines.

1. **`scan_politeness`.** An admin's rescan of a source clears the claims of lanes
   that are fetching. They stop counting against the cap, and new lanes come on
   top, maybe for the same page. The number of claims still keeps the cap, unless
   users rescan its URLs at the same time (`ClaimCapHolds`): what is exceeded is the
   number of fetches. `ListedFetchCap` counts only pages whose rows are still
   there, as a listing deleted while it is fetched takes its claim along, too.
2. **`scan_clobber`.** A user's rescan that read the posting before a lane stored a
   success writes its own failure over it. If the copy it read was FAILED already,
   only the changed columns go back: the posting stays SUCCESS, with the description
   of the incomplete result.
3. **`scan_stranded`.** A submitted URL whose message is lost at publication stays
   PENDING: the sweeps cover rows of sources, and failed rows.
4. **`board_overlap`.** Two crawls that overlap each close what is left of the
   day's share.
5. **`scan_trouble`.** adp reports a request that failed as an expired posting.
6. **`logo_shared`.** A host two companies lost to a third is given back to one of
   them at its next scan.

Others were met and not made into runs. Five of them are what the exceptions of a
checked property stand for, and TLC reaches each of them where the exception is
dropped:

- Half resets (`HalfReset` in `RetryBookkeeping`): `crawl_sources.py:161` and
  `180-182` say that a rescan resets each row to PENDING and picks up a row that is
  out of retries. A row loaded as PENDING with a failed attempt is reset in nothing but
  its count; if a lane stores its last failure before the commit, the row stays
  NEEDS_REVIEW, with a count of 0, and the lanes woken for it find nothing.
- Two live subscriptions (`parallel` in `MirrorConverges`): `billing.py:38-39` and
  `133` speak against a second one, but `create_checkout_session` looks at the mirror
  only, and only when the session is created, so two sessions may be open, and paid.
  The mirror has one of the two: when that one ends, the user loses access although
  the other is paid for, until an event of the other comes.
- Webhooks that overlap (one at a time in `accounts`): the one that fetched the
  subscription before a change may write after the webhook of that change, and the
  older state, or period, stays, although `billing.py:11-13` says that the fetched
  object is the latest state whatever event arrived last.
- An older period put back (`stale` in `PlanCap`), by such a webhook or by the other
  of two subscriptions: its count begins anew and unlocks up to the plan's limit again.
- Circles of duplicates (`raced` in `EveryGroupHasHead`): two heads of one job (of
  scans that overlapped) are rescanned at once, each reads the other as canonical and
  joins it, and the job is no longer listed. Chains, which `job_dedup.py:286-288` and
  `333-334` exclude, need no overlap at all: a head that was closed and is rescanned
  joins the group of another head, and its own followers are not re-pointed.

The others:

- Scans and crawls: a crawl whose insert collides registers nothing, is counted
  as failed and acknowledged (`crawl_worker.py:100`), though the docstring of
  `bulk_register_discovered_urls` says it is nacked and retried. A hidden teaser's
  status lags behind its row's when the row gives up later. Deleting a source
  leaves its PENDING rows without one.
- Adapters: ashby's listing, cached for 300 seconds, and paycom or dayforce
  rendering an error page, report open postings as expired (the named exceptions
  of `ExpiredIsDown`). Adapters that cut their rows at the cap (adp, attrax, avature,
  csod, eightfold, nlx, paradox, talemetry, talentbrew's search and the newest-first
  ones) drop repeated URLs after the cut, so rows that repeat, as when a posting is put up
  between two pages, leave a listing below the cap that counts as complete: when the
  loop stopped at the cap, or at its end with more rows than the cap, as with
  avature's pages of 6 under a cap of 500 (`CutByRepeats`). Adapters that stop at a
  page without a new URL (careerplug, icims's classic search, peopleadmin,
  smartrecruiters, successfactors) stop early when a page's worth of postings is put
  up between two pages (`PushedBack`). adp and csod count rows against the total; join and smartrecruiters stop at 100 pages as if at the end; an
  empty answer on a later page ends several listings as complete. hiringroom and
  schoolspring read on, until the cap or their time, if a site ignores the page
  parameter.
- Auto score: a stage can be begun twice in the gap after a commit
  (`auto_score.py:180-181`).
- Registration: `_find_existing_board` promises one board for one company's site,
  but white-label hosts that redirect (clinch, echo_jobs, happydance, icims, phenom,
  pinpoint, successfactors, talentbrew, talentreef, zenats) register one per
  submitted URL; keys of oracle_fusion, paradox, attrax and paylocity are read by
  fetching again, so an outage registers the board again; an admin's other spelling
  of a URL makes a second source; a failed fetch at detection files a board as an
  unknown site. The finder can overwrite a name an admin has just confirmed
  (`crawl_sources.py:116-118`), though the model says nothing automatic changes it;
  a PATCH that confirms the current text while a promotion commits marks the
  promoted name as manual. All are exemptions of the two properties, by name.
- Names: `promote_placeholder` aside, a pending row found by a later submission
  stays pending; a registration is uncommitted for the whole scan.
- Sign-in: "at most one" unused code (`auth.py:152`) does not hold after a link is
  requested beside a code. OAuth: revoking an access token from the token list
  leaves its refresh token usable (`auth.py:298-308`).
- Billing: rows with no period charge twice, being unequal to each other under the
  unique constraint; `_link_checkout_customer`
  loads the user before the subscription is retrieved, so what `sync_subscription`
  compares with may be as old as that call.
- Resumes: the default is not the latest after requests that overlap, one of which
  sets the default or deletes a version (the exceptions of `DefaultIsLatest`); a
  letter written through an older version is stored under the family's current one
  and not found under the id it was asked for; deleting a resume leaves its tailored and letter documents in storage.
- Alerts: `saved_search_alerts.py:72` says none can be missed; one is when its scan
  is uncommitted as the sweep reads, and when the search was off for more than 48
  hours. One failing commit at a sweep's end sends everything again.
- Collections: an evaluation that overlaps an admin's action moves a row outside
  the documented transitions.
- Logos: the sync overwrites what an admin set during its lookups (the history
  `doubt`); a placeholder may cover a logo just stored; an outage of the brand
  search counts as "no logo" for 30 days; an error after a domain change leaves the
  old object at the alias.
- Static pages: hubs, day pages and related pages may link to a job deleted between
  the index and the load; a page left at an old path after a crash, and a gone page
  after one, stay; a job reopened between the index and the load stays "closed";
  a hub uploaded before a crash that lost its manifest is never retired.

## Fairness

`FairSystemSpec` is used for the two temporal properties. Worker steps are weakly
fair: an invocation goes on unless it dies, and each of its steps, once enabled,
stays so (a row lock is held by an invocation that itself goes on; the run has
one worker). Delivery is
strongly fair: Pub/Sub delivers what it holds, but a worker that could take the
message may be taken by another one first. `Tick` is strongly fair because it is
disabled while an invocation is at its limit, again and again. Cloud Scheduler
keeps starting the sweeps, which are weakly fair. Faults, registrations and
people are not fair, and `StoreResult` is fair only as a whole: scans may fail
for ever, which is why giving up counts as settled.

`AutoScoreFairness`, for `RunEnds`: each step of a worker that lives is weakly
fair, the tick of the clock strongly (a call in progress holds it back), and the
page that polls a run is weakly fair while the run has not ended: a user who
closes the page leaves a dead worker's run where it is, until it is opened again.

## Proofs

All theorems are for arbitrary sets of actors and values and for any constants
that satisfy the modules' named assumptions; budgets (`FaultBudget`,
`CrashBudget`, the counts of rows that may be made) are any number. Each
component's theorem has the same shape: an inductive invariant, one lemma per
action saying that it keeps it, and the property as a consequence. The assumptions
are facts of the configuration (an invocation's timeout is below the claim's
lifetime, the backoff, the lease, the gap between misses), of the tables of
adapters and scanners (`ReadAgainAssumption`, `PostingScanAssumption`,
`AdaptersAssumption`: TLC checks them of the real tables), or finiteness of the set of URLs, workers or postings.
Where a theorem has a hypothesis of its own (`Requests = {}`, `OneCrawl`,
`OneAtATime`), it is named below, with the run that shows what happens without it
if there is one.

`ScanPipeline_proofs`

- `TypeCorrect`: `Spec => []TypeOK`. The invariant adds that a worker's fields fit
  its program counter (`WorkerOK`) and a request's its own (`RequestOK`): without
  them a finished lane could put "no URL" into the queue.
- `ClaimCapHolds`: `Spec => []ClaimCap` with users' rescans or with admins', but not
  both. The only step that adds a fresh claim is `ClaimNextUrl`, which checks the
  count; for every other step the set of fresh claims of a source shrinks. The
  strengthening says which rows have no claim though they are not PENDING, since a
  submission or an admin's commit makes such rows PENDING (`ReleasedFree`). With
  both, it is false: a user's request can store a status under a lane's claim, and
  an admin's commit, loaded before the claim, can make the row PENDING again with it.
- `LiveClaims`: `SystemSpec => []LiveClaimHonoured`. The invariant `LaneInv` says:
  a fetching lane's row is PENDING, in the lane's source, under a claim no older
  than the lane (`ClaimHeld`), so it is fresh while the lane is within its timeout
  (`TTLAboveTimeout`) and nobody else may take it; no two lanes have one row
  (`OneFetcher`). The delicate part is the scan of a submitted URL, which looks at
  no claim: its message may arrive twice, and when the first scan attributes the URL
  to a board, the second may find it in that board's lanes. `LateDuplicate` is why
  it does not: a row attributed meanwhile was scanned meanwhile, so it is settled or
  backs off for longer than the late invocation lives (`BackoffAboveTimeout`).
  `DirectHeld` says that a row being scanned under its lock is PENDING and has no
  source, and `Registered` that no message names a URL without a row.
- `FetchCapHolds`: `SystemSpec => []FetchCap`. The fetching lanes of a source map
  one-to-one into its fresh claims, so the claim cap bounds them too.
- `Throttles`: `SystemSpec => Throttled`, the refinement of `FetchLimiter`. A claim
  is a fetch begun, allowed because the fetches under way map into the claims that
  were counted; a result stored, a crash or a timeout is a fetch ended; every other
  step is a stutter. `LaneInv` is what makes the mapping one-to-one.
- `PostingsFollow`: `Spec => []PostingFollowsRow`, with people (`scan_admin`'s
  `PostingFollowsRescan` is an instance of it). The hazard is a request that writes
  back columns of a copy read before its fetch. `PostingInv` says the same of the
  copies as of the rows, and that a copy of a row not yet scanned says so too
  (`CopyHolds`), so its write-back always changes the posting's status.
- `BooksOfUnrescanned`, `GoodDataOfUnrescanned`: `RetryBookkeeping` and
  `GoodPostingKept` for the rows of any set of URLs that no user's request holds a
  copy of, whatever requests do to the other rows; `scan_clobber` shows why the
  condition is needed. `BooksKept` and `GoodDataKept` are the case of no requests at
  all, which is how `scan_admin` checks the two. All four are of any number of
  admins. `RetryBookkeeping` is of steps, and excepts one: an admin's commit on a row that has changed since it was loaded
  (`HalfReset`). `BooksOfUntouched` draws the consequence for states: rows of which
  no admin's rescan holds a copy either have a retry record that agrees with their
  status. `GoodInv`: a row scanned under its lock is PENDING and that worker's alone,
  so no result is counted twice; and a good posting has its full description.

`Boards_proofs` (`BoardCrawl`, `BoardListing`, `PostingScan`, `StaticPages`)

- `TypeCorrect`. The invariant adds that a crawl's reads are not after its present
  age, so what it dates back stays within its range.
- `DispatchesSpaced`: `Spec => DispatchSpaced`. The invariant `Spaced`: within a
  claim's lifetime of the last dispatch either its claim is still there, or the
  next crawl is at least the rest of that lifetime away. The second case needs
  `IntervalAboveTTL`; it is what makes it harmless that any crawl clears any claim.
- `TwoListingsNeeded`: `Spec => TwoListingsToClose`, from `GapAboveTimeout`.
- `ShareKeptByOne`: `OneCrawl => (Spec => []DailyShareKept)`, where `OneCrawl` says
  there is one crawler; `board_overlap` shows why. The share is of a board that
  shrinks as closed rows leave the window, so keeping it now is not inductive.
  `ShareInv` keeps it at every later moment of the window (`ShareLasts`), for the
  rows as they are and for the rows as the crawl under way is about to leave them
  (`AfterWrite`). It holds because when rows leave the window, no fewer of the
  closed ones leave than the limit loses, or only the minimum counts.
- `ListingTypes`, `CompleteListingIsWhole`: `ListingSpec => []ListingTypeOK` and
  `ListingSpec => []CompleteIsWhole`, for boards, pages and caps of any size, any number
  of changes and any table of adapters that satisfies `AdaptersAssumption`. A posting's
  place is the number of postings in front of it. `Gathered`: postings that were up
  throughout are read as far as the offset; what is read has moved back from there by
  no more places than there were changes; rows, URLs and offset agree as far as the
  adapter's loop relies on it (`FullPages`, `Distinct`). Each way to tell the end then
  has its own argument (`EndsWhole`): a short page, because a stretch of the board holds
  as many postings as it has places (`Stretch`); a page without news, because what it
  repeats was pushed back (`SeenAgain`); a total, by counting. `CapIsFull` and `NotCut`
  say that a listing that stopped at the cap fills it, and that one below the cap lost
  nothing to the cut, unless rows repeat.
- `ClosedIsDown`: `ScanSpec => []ExpiredIsDown`, for any table of scanners in which
  no scanner takes a posting with its details for one that is gone and the last look
  leaves nothing to a next. `ScanInv`: a page kept for the next scanner was read of
  the posting, which does not come back once it is down.
- `LinksLandSomewhere`, `LeftAloneStaysRight`: `LinksLand` and `LeftAloneIsRight`.
  `PagesInv` relates the manifest, the entry the run is about to save and the bucket:
  a page that is up has an entry (`SavedFits`, `EntryFits`), an entry's page is up
  (`EntriesUp`), a forward leads to a page and not to another forward
  (`ForwardsLand`), and whatever links to a path knows that it is up, due or promised
  (`LinksHold`). `ClosedSince` orders the closing of a row after the page that shows
  it open, which is why a run that finds a stale page writes it anew.

`Sweeps_proofs` (`AlertSweep`, `FollowUps`, `JobDedup`)

- `CursorNeverSkips`, `RemindersReach`: `CursorCovers` and `MarkedMeansTold`.
  `CursorInv` says of the cursor and of the value a sweep is about to give it that
  what is before it was mailed, was committed late, or is excused; `FollowUpsInv` that
  what a sweep will mark, it has mailed (`MailedMeansTold`).
- `DedupTypesHold`: the columns that grouping uses keep to their domains and no
  reference names a deleted posting.
- `DuplicatesLeadToHeads`: `EveryGroupHasHead`. While nothing has raced, transactions
  take turns (`TurnsTaken`), the primary a scan has found is still without a primary
  (`FoundStillHeads`), and every set of postings has one that leads out of it once
  `redo_dedup` has written (`RegroupSound`). Groups are graphs here, and "every set
  has a way out" is the form of "no circle" that a step can be shown to keep; for
  what `redo_dedup` writes, the way out is the follower that comes first in the order
  of its groups.
- `OfficialCopyFirst`: `OfficialFirst`, even when scans overlap. A scan's posting may
  be given another reference while it is being stored, but only an empty one or one
  to a complete official copy (`ClaimsStand`), so what it commits hides no official
  copy behind another site's; an official copy that has no title to be matched by was
  taken over by a complete one (`UnmatchedStand`); `RegroupOfficial` says the same
  of what `redo_dedup` is about to write.

`AutoScore_proofs`, `Collections_proofs`

- `ClaimsAreExclusive`: `ClaimsExclusive`, from `LeaseAboveDeadline`. The row covers
  a call in progress (`Covers`): the stage's result is stored, or the run has ended,
  or its status is that stage and was renewed no longer ago than the call began.
- `GraceIsKept`, `ArchivesStand`: `GraceKept` and `ArchiveStands`.
  `GoodBeforeBelow`: no evaluation that found the page good is later than the date
  it is recorded below the bar since; `ReadsHold`: what an evaluator read is still
  so, or it is marked as crossed.

`Access_proofs` (`AiCredits`, `Billing`, `SignIn`, `OAuthGrants`)

- `TrialIsAccounted`, `JobsChargedOnce`, `PlanCapHolds`: `TrialAccounted`,
  `NeverChargedTwice`, `PlanCap`. `CreditsInv`: one request at a time holds the
  user's row, and what allowed its charge stays true until it ends (`Held`); every job
  a period unlocks was admitted by a count of that period (`JobsAdmitted`); and unless
  an older period was put back or spent in, periods come in order, so that each is
  counted once (`PeriodsInOrder`).
- `MirrorIsRight`: `OneAtATime => (BillingSpec => []MirrorConverges)`, with webhooks
  handled one at a time, whatever their order and repetition. `BillingInv` says it of
  each subscription of which no event is left (`MirrorHolds`, `ActiveMirrored`): the
  mirror has the latest state of the subscription it names, and, unless two were live
  at once (`parallel`), access agrees with the payment service. Both conditions are needed, see above.
- `CodesAreSpent`: `CodesSpent`. `SignInInv` counts what becomes of the rows that
  requests dealt with one after another (`RowPast`); `OverlapIsMet` and
  `MadeMeanwhile` say that all others are marked as met.
- `GrantsEndTogether`: `GrantsEnd`. `GrantInv`: a pair whose refresh token was
  revoked lost its access token with it (`EndTogether`), and unless requests crossed,
  one pair stands and what a request has read is still so (`Lone`). The code has no
  detection of a token's reuse, and nothing is claimed of it.

`Companies_proofs` (`SourceRegistry`, `CompanyLogos`)

- `NameStays`: `ConfirmedNameStands`. What a registrar or a PATCH read of a row is
  still so, or the exemption holds (`FinderMet`, `AdminKnows`).
- `OneSource`: `OneSourcePerBoard`. `BoardsInv`: rows that count, and rows about to
  be added, have URLs the adapter tells apart, pairwise, or are marked unsure. It
  needs `ReadAgainAssumption`: what an adapter stores as submitted, it reads again
  by the key it was found by.
- `OwnLogoShown`, `AdminsChoiceStands`: `ShownLogoIsRight` and `ManualStands`.
  `LogosInv`: what the sync has stored was found for the row as it read it
  (`StoredWasFound`), never for a pinned one, and the alias shows what the row has
  unless that sync has stored anew (`AliasShows`), for every row not in doubt.

`Resumes_proofs` (`ResumeVersions`, `ResumeResults`)

- `FilesStay`, `DraftsStay`: `FilesOfRows` and `DraftsNotLost`. `VersionsInv`: ids
  and files of rows to come are their own (`RowsToCome`, `IdsApart`), a family has its
  root, one number once, and one default at most; a request that will delete drafts
  has their text (`AppliesKnow`).
- `LatestIsDefault`: `DefaultIsLatest`. `LatestInv`: a version number read before an
  LLM call is either still the next one or taken by the time of the commit, where
  the unique constraint refuses it, unless a request to set the default or a deletion
  overlapped (`NumberRead`, `AloneUntil`).
- `PointersFollow`: `ResultsInStep`. `ResultsInv`: rows being made are not there yet
  and nobody else's (`RowsFree`), and while nothing is entangled only one is being
  made, the newest (`OneMakes`).

The proofs corrected the models. `CompleteIsWhole` did not except the two ways
above in which a listing can be short of what it claims (`CutByRepeats` at the end
of the board, and `PushedBack`): the invariant would not go through, and TLC showed
both once the bounds had room (a cap that is no multiple of the page, as many
changes as a page has postings), which `upkeep` now has. `DefaultIsLatest` did not except a deletion that
overlaps, which can free a number another request has read; `StillInDoubt` in
`CompanyLogos` let a row out of doubt while an automatic logo was still in place;
and `JobDedup`'s regrouping was restated as a relation on groups, with the script's
condition that a company has two postings in the group, in place of a sort of the
rows.

Only model-checked:

- the liveness properties (`CrawledUrlSettles`, `RunEnds`), which like anything
  under fairness are out of the prover's reach;
- the type invariants of the composed instances (`PartsTypeOK`, `UpkeepTypeOK`,
  `AccountsTypeOK`) as such: those of their parts are proved, as theorems or within
  the invariants; `ShareKeptAlone` and
  `PostingFollowsRescan`, which are `DailyShareKept` and `PostingFollowsRow` of an
  instance, proved above in general.

## Not modelled

`PROJECT.json` gives the reason for each component. Left out whole:

- the coverage monitor: a streak counter over crawl counts; `BoardCrawl` takes its
  verdict as a free choice;
- the browser scaler and its cloud API client: a control loop without state;
- prompts, rendering, text extraction, e-mail bodies, markup, geographic data,
  image normalization: data without control that several actors share. What is
  parsed out of a page is a free choice among the results that the code tells
  apart.

Within the modelled parts: changes of a source's cap or status while lanes run, the
lane's pause between two fetches, the choice of the oldest unclaimed row; plan
limits of 0, which mean no limit; near-duplicate collections; two boards of one
company, sub-brands and `is_official`; the other jobs of the static pages, runs by
hand that overlap a scheduled one, the day pages' manifest; Google sign-in,
sessions and personal tokens, which store one row each.
