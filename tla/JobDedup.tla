------------------------------ MODULE JobDedup ------------------------------
(***************************************************************************)
(* Cross-source deduplication: postings of the same job at several URLs    *)
(* form a group, whose head alone is listed in search.  Membership is      *)
(* decided when a scan stores its result: the scan's transaction reads who *)
(* heads a matching group, and later writes where its own posting belongs. *)
(* Two such transactions may overlap, and postings are closed, reopened    *)
(* and deleted meanwhile; a maintenance script regroups a company at once. *)
(***************************************************************************)
EXTENDS Integers, FiniteSets

CONSTANTS
    Postings,      \* the URLs with their postings (url_id is unique)
    NoPosting,     \* NULL
    Jobs,          \* what a page may say the job is: a company key, a title
                   \* key, the locations that name a place, and their cities
    NoKey,         \* a company or a title that could not be read
    Domain,        \* Domain[p]: the site of p's URL
    Official,      \* Official[p]: p's source is the company's own site
    Created,       \* Created[p]: when p's URL was registered
    Id,            \* Id[p]: p's own id
    MaxWriters     \* transactions on groups at once

ASSUME PostingAssumption ==
    /\ IsFiniteSet(Postings) /\ NoPosting \notin Postings
    /\ Official \in [Postings -> BOOLEAN]
    /\ Created \in [Postings -> Int]
    /\ Id \in [Postings -> Int] /\ \A p, q \in Postings : Id[p] = Id[q] => p = q

ASSUME JobsAssumption == Jobs # {}

ASSUME MaxWritersAssumption == MaxWriters \in Nat

VARIABLES
    posting,    \* posting[p]: its columns that grouping reads and writes
    storing,    \* storing[p]: the scan of p whose transaction has read groups
    regroup,    \* what redo_dedup read and decided, before it writes
    raced       \* history: which kinds of transactions have overlapped

dedupVars == <<posting, storing, regroup, raced>>

MaybePosting == Postings \union {NoPosting}

\* "SUCCESS": searchable; "HIDDEN": only incomplete scans so far.
PostingState ==
    [status  : {"ABSENT", "SUCCESS", "HIDDEN"},
     job     : Jobs,
     primary : MaybePosting,
     closed  : BOOLEAN]

\* A scan's transaction: the primary it loaded, the one it found.
Storing ==
    [job : Jobs, complete : BOOLEAN, loaded : MaybePosting,
     found : MaybePosting, claims : BOOLEAN]

NoScan == [complete |-> FALSE]

Reading == {p \in Postings : storing[p] # NoScan}

\* The columns stay in their domains: in particular a reference never names
\* a posting that has been deleted, whoever overlaps with the deletion.
DedupTypeOK ==
    /\ posting \in [Postings -> PostingState]
    /\ storing \in [Postings -> Storing \union {NoScan}]
    /\ raced \subseteq {"scans", "regroup"}
    /\ \A p \in Postings :
          posting[p].primary # NoPosting => posting[posting[p].primary].status # "ABSENT"

-----------------------------------------------------------------------------
(* Matching.                                                               *)

\* No location is no evidence; on one site locations must be equal, across
\* sites a shared city will do.
SamePlace(a, aDomain, b, bDomain) ==
    /\ a.locations # {} /\ b.locations # {}
    /\ \/ a.locations = b.locations
       \/ aDomain # bDomain /\ a.places \intersect b.places # {}

SameKeys(a, b) == a.company = b.company /\ a.title = b.title

\* The oldest open, searchable canonical posting of the same job, or none.
FindDuplicatePrimary(p, job) ==
    LET candidates ==
          {q \in Postings \ {p} :
              /\ posting[q].status = "SUCCESS"
              /\ posting[q].primary = NoPosting
              /\ ~posting[q].closed
              /\ SameKeys(job, posting[q].job)
              /\ SamePlace(job, Domain[p], posting[q].job, Domain[q])}
    IN  IF job.company = NoKey \/ job.title = NoKey \/ candidates = {}
        THEN {NoPosting}
        ELSE {q \in candidates : \A r \in candidates : Created[q] <= Created[r]}

\* Mutant: an official copy joins whatever group was there first.
ClaimsNever(p, complete, found) == FALSE

\* The official site's copy takes over a group headed by another site's,
\* unless this scan is incomplete.
Claims(p, complete, found) ==
    /\ Official[p]
    /\ complete
    /\ found # NoPosting /\ ~Official[found]

-----------------------------------------------------------------------------
DedupInit ==
    /\ posting \in [Postings ->
          {[status |-> "ABSENT", job |-> CHOOSE j \in Jobs : TRUE,
            primary |-> NoPosting, closed |-> FALSE]}]
    /\ storing = [p \in Postings |-> NoScan]
    /\ regroup = {}
    /\ raced = {}

Writers == Cardinality(Reading) + (IF regroup = {} THEN 0 ELSE 1)

\* A scan's transaction up to its reads.  An incomplete scan leaves a posting
\* that is already complete alone.
ReadGroup(p, job, complete) ==
    /\ storing[p] = NoScan
    /\ Writers < MaxWriters
    /\ posting[p].status = "SUCCESS" => complete
    /\ \E found \in FindDuplicatePrimary(p, job) :
          storing' = [storing EXCEPT ![p] =
              [job |-> job, complete |-> complete, loaded |-> posting[p].primary,
               found |-> found, claims |-> Claims(p, complete, found)]]
    /\ raced' = raced \union (IF Reading = {} THEN {} ELSE {"scans"})
                      \union (IF regroup = {} THEN {} ELSE {"regroup"})
    /\ UNCHANGED <<posting, regroup>>

\* claim_primary: the old head and every posting that points at it by now.
Claimed(p) ==
    IF storing[p].claims
    THEN {q \in Postings \ {p} :
             /\ posting[q].status # "ABSENT"
             /\ q = storing[p].found \/ posting[q].primary = storing[p].found}
    ELSE {}

\* Mutant: the posting that takes over keeps pointing at the old head.
NewPrimaryKept(p) == storing[p].found

NewPrimary(p) == IF storing[p].claims THEN NoPosting ELSE storing[p].found

\* The rest of it, to its commit.  The ORM writes primary_posting_id only if
\* it differs from the value loaded.  If the primary found is gone by now,
\* the foreign key makes the transaction fail.
StoreGroup(p) ==
    LET s == storing[p]
        primary == IF NewPrimary(p) = s.loaded THEN posting[p].primary ELSE NewPrimary(p)
    IN  /\ s # NoScan
        /\ IF primary \in Postings /\ posting[primary].status = "ABSENT"
           THEN UNCHANGED posting
           ELSE posting' = [q \in Postings |->
                  CASE q = p -> [posting[p] EXCEPT
                                   !.status = IF s.complete THEN "SUCCESS" ELSE "HIDDEN",
                                   !.job = s.job, !.primary = primary]
                    [] q \in Claimed(p) -> [posting[q] EXCEPT !.primary = p]
                    [] OTHER -> posting[q]]
        /\ storing' = [storing EXCEPT ![p] = NoScan]
        /\ UNCHANGED <<regroup, raced>>

\* A board stops listing the job or lists it again, or a scan finds it gone.
\* The group is not looked at.
CloseOrReopen(p) ==
    /\ posting[p].status # "ABSENT"
    /\ posting' = [posting EXCEPT ![p].closed = ~@]
    /\ UNCHANGED <<storing, regroup, raced>>

\* Mutant: the reference is left as it was.
DeletePostingDangling(p) ==
    /\ posting[p].status # "ABSENT" /\ storing[p] = NoScan
    /\ posting' = [posting EXCEPT ![p].status = "ABSENT", ![p].primary = NoPosting,
                                  ![p].closed = FALSE]
    /\ UNCHANGED <<storing, regroup, raced>>

\* ON DELETE SET NULL.  The deletion waits for a scan that holds the row.
DeletePosting(p) ==
    /\ posting[p].status # "ABSENT" /\ storing[p] = NoScan
    /\ posting' = [q \in Postings |->
          CASE q = p -> [posting[p] EXCEPT !.status = "ABSENT", !.primary = NoPosting,
                                           !.closed = FALSE]
            [] q # p /\ posting[q].primary = p -> [posting[q] EXCEPT !.primary = NoPosting]
            [] OTHER -> posting[q]]
    /\ UNCHANGED <<storing, regroup, raced>>

-----------------------------------------------------------------------------
(* redo_dedup: who heads a group, and who joins it.                        *)

\* Official copies, then open listings, then present heads, then the oldest.
ComesFirst(p, q) ==
    LET Better(x, y, rest) == (~x /\ y) \/ (x = y /\ rest)
    IN  Better(~Official[p], ~Official[q],
          Better(posting[p].closed, posting[q].closed,
            Better(posting[p].primary # NoPosting, posting[q].primary # NoPosting,
                   \/ Created[p] < Created[q]
                   \/ Created[p] = Created[q] /\ Id[p] < Id[q])))

\* The rows it reads and writes: those of a company with more than one, and
\* among them those it matches.
OfCompany ==
    {p \in Postings :
        /\ posting[p].status # "ABSENT" /\ posting[p].job.company # NoKey
        /\ \E q \in Postings \ {p} : /\ posting[q].status # "ABSENT"
                                     /\ posting[q].job.company = posting[p].job.company}

Matched ==
    {p \in OfCompany : posting[p].status = "SUCCESS" /\ posting[p].job.title # NoKey}

\* One row after the other joins a head before it, one at its very locations
\* if there is any, or becomes a head.
JoinsFirst(groups, p) ==
    LET job   == posting[p].job
        heads == {h \in Matched : /\ groups[h] = NoPosting
                                  /\ ComesFirst(h, p)
                                  /\ SameKeys(job, posting[h].job)
                                  /\ SamePlace(job, Domain[p], posting[h].job, Domain[h])}
        exact == {h \in heads : posting[h].job.locations = job.locations}
    IN  groups[p] \in IF exact # {} THEN exact ELSE IF heads # {} THEN heads ELSE {NoPosting}

\* Rows outside the matching follow their old group to its new head, within
\* the company the script is working on; if that is outside too, it depends on
\* which of the two is looked at first.
Follows(groups, turn, p) ==
    LET old == posting[p].primary
        led == /\ old \in OfCompany /\ groups[old] # NoPosting
               /\ posting[old].job.company = posting[p].job.company
               /\ old \in Matched \/ turn[old] < turn[p]
    IN  groups[p] = IF led THEN groups[old] ELSE old

NewGroups ==
    LET others == OfCompany \ Matched
        turns  == {turn \in [others -> 1 .. Cardinality(others)] :
                      \A p, q \in others : turn[p] = turn[q] => p = q}
    IN  {groups \in [OfCompany -> MaybePosting] :
           /\ \A p \in Matched : JoinsFirst(groups, p)
           /\ \E turn \in turns : \A p \in others : Follows(groups, turn, p)}

RegroupRead ==
    /\ regroup = {}
    /\ Writers < MaxWriters
    /\ \E groups \in NewGroups :
          LET changed == {p \in OfCompany : groups[p] # posting[p].primary}
          IN  /\ changed # {}
              /\ regroup' = {<<p, groups[p]>> : p \in changed}
    /\ raced' = raced \union (IF Reading = {} THEN {} ELSE {"regroup"})
    /\ UNCHANGED <<posting, storing>>

\* One transaction; a head deleted since makes it fail.
RegroupWrite ==
    LET rows == {c \in regroup : posting[c[1]].status # "ABSENT"}
    IN  /\ regroup # {}
        /\ IF \E c \in rows : c[2] # NoPosting /\ posting[c[2]].status = "ABSENT"
           THEN UNCHANGED posting
           ELSE posting' = [p \in Postings |->
                  IF \E c \in rows : c[1] = p
                  THEN [posting[p] EXCEPT !.primary = (CHOOSE c \in rows : c[1] = p)[2]]
                  ELSE posting[p]]
        /\ regroup' = {}
        /\ UNCHANGED <<storing, raced>>

DedupNext ==
    \/ \E p \in Postings, j \in Jobs, complete \in BOOLEAN : ReadGroup(p, j, complete)
    \/ \E p \in Postings : StoreGroup(p) \/ CloseOrReopen(p) \/ DeletePosting(p)
    \/ RegroupRead
    \/ RegroupWrite

DedupSpec == DedupInit /\ [][DedupNext]_dedupVars

-----------------------------------------------------------------------------
(* Properties.                                                             *)

IsHead(p) == posting[p].primary = NoPosting

\* As long as transactions on groups do not overlap, every duplicate leads to
\* a head, however postings are rescanned, taken over, closed and deleted: no
\* job disappears from search in a circle of duplicates.
EveryGroupHasHead ==
    raced = {} =>
        \A circle \in SUBSET Postings :
            circle # {} => \E p \in circle : posting[p].primary \notin circle

\* A complete posting of a company's own site is never hidden behind another
\* site's copy, even when scans overlap.
OfficialFirst ==
    "regroup" \notin raced =>
        \A p \in Postings :
            Official[p] /\ posting[p].status = "SUCCESS" /\ ~IsHead(p)
                => Official[posting[p].primary]
=============================================================================
