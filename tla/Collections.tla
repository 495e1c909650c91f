----------------------------- MODULE Collections ----------------------------
(***************************************************************************)
(* The registry of job collections.  A nightly run scores every collection *)
(* and applies the lifecycle rules, an admin may have one scored at once:  *)
(* either reads a collection with its history, counts its jobs, and writes *)
(* back what it decided on what it read.  Admins approve, take out of the  *)
(* index, archive and restore meanwhile; discovery proposes new ones.      *)
(***************************************************************************)
EXTENDS Integers

CONSTANTS
    Collections,      \* keys a collection can have
    Evaluators,       \* the nightly run, and admins' re-evaluations
    GraceDays,        \* GRACE_DAYS
    EmptyDays,        \* EMPTY_DAYS
    LastEvaluation    \* bound on the calendar, in Eastern days

ASSUME CollectionsAssumption == {GraceDays, EmptyDays, LastEvaluation} \subseteq Nat

VARIABLES
    eastern,      \* today
    collection,   \* collection[c]: its row
    history,      \* history[c]: what its events tell the rules
    evaluating,   \* evaluating[e]: what an evaluator has read
    lastGood      \* history: the last day c did not score below the bar, if no
                  \* evaluation has since overwritten a newer one

collectionVars == <<eastern, collection, history, evaluating, lastGood>>

\* The recommendation their score makes; no open jobs score NOINDEX.
Recommendations == {"INDEX", "REVIEW", "NOINDEX", "EMPTY"}

\* PUBLISHED is passed through on the way to INDEXABLE, within a commit;
\* nothing sets PERFORMING and DECLINING yet.
CollectionStatus == {"ABSENT", "CANDIDATE", "QUALIFIED", "INDEXABLE", "NOINDEX", "ARCHIVED"}

NoDate == -1
Dates == (0 .. LastEvaluation) \union {NoDate}

Row == [status : CollectionStatus, belowSince : Dates, emptySince : Dates]

\* The day a person last put it in the index, who made the last change.
Events == [approved : Dates, trigger : {"MANUAL", "LIFECYCLE", "QUALIFICATION", "SYSTEM"}]

NotEvaluating == [of |-> "nothing"]

\* A row that is there has a history; what is read was there.
CollectionsTypeOK ==
    /\ eastern \in 0 .. LastEvaluation
    /\ collection \in [Collections -> Row]
    /\ history \in [Collections -> Events]
    /\ lastGood \in [Collections -> Dates]
    /\ \A e \in Evaluators : evaluating[e] # NotEvaluating =>
          collection[evaluating[e].of].status # "ABSENT" /\ evaluating[e].row.status # "ARCHIVED"

CollectionsInit ==
    /\ eastern = 0
    /\ collection = [c \in Collections |->
          [status |-> "ABSENT", belowSince |-> NoDate, emptySince |-> NoDate]]
    /\ history = [c \in Collections |-> [approved |-> NoDate, trigger |-> "SYSTEM"]]
    /\ evaluating = [e \in Evaluators |-> NotEvaluating]
    /\ lastGood = [c \in Collections |-> NoDate]

NextEasternDay ==
    /\ eastern < LastEvaluation
    /\ eastern' = eastern + 1
    /\ UNCHANGED <<collection, history, evaluating, lastGood>>

-----------------------------------------------------------------------------
(* Evaluation.                                                             *)

\* An evaluator reads a collection and the days a person put it in.
ReadCollection(e, c) ==
    /\ evaluating[e] = NotEvaluating
    /\ collection[c].status \notin {"ABSENT", "ARCHIVED"}
    /\ evaluating' = [evaluating EXCEPT ![e] =
          [of |-> c, row |-> collection[c], approved |-> history[c].approved,
           today |-> eastern, crossed |-> FALSE]]
    /\ UNCHANGED <<eastern, collection, history, lastGood>>

\* The date it is so since; the one already recorded if it was so before.
Since(r, holds, recorded) ==
    IF ~holds THEN NoDate ELSE IF recorded # NoDate THEN recorded ELSE r.today

Elapsed(r, since, days) == since # NoDate /\ r.today - since >= days

\* Mutant: an approval counts only if it came after the date.
ApprovedSinceNever(r, since) == FALSE

ApprovedSince(r, since) == r.approved # NoDate /\ r.approved >= since

\* _record: the rules, in their order, over what was read.
Rule(r, jobs, below, empty) ==
    CASE Elapsed(r, empty, EmptyDays) -> "ARCHIVED"
      [] /\ ~Elapsed(r, empty, EmptyDays)
         /\ r.row.status = "INDEXABLE" /\ Elapsed(r, below, GraceDays) /\ ~ApprovedSince(r, below) ->
           "NOINDEX"
      [] ~Elapsed(r, empty, EmptyDays) /\ r.row.status = "QUALIFIED" /\ jobs # "INDEX" -> "CANDIDATE"
      [] ~Elapsed(r, empty, EmptyDays) /\ r.row.status = "CANDIDATE" /\ jobs = "INDEX" -> "QUALIFIED"
      [] OTHER -> r.row.status

Crossed(c) == [e \in Evaluators |->
    IF evaluating[e] # NotEvaluating /\ evaluating[e].of = c
    THEN [evaluating[e] EXCEPT !.crossed = TRUE] ELSE evaluating[e]]

\* It scores the collection by the jobs it has: they come and go, and may
\* amount to anything.  Of the row, the status is written only if a rule changed the one read.
CommitEvaluation(e, jobs) ==
    LET r     == evaluating[e]
        c     == r.of
        below == Since(r, jobs \in {"NOINDEX", "EMPTY"}, r.row.belowSince)
        empty == Since(r, jobs = "EMPTY", r.row.emptySince)
        new   == Rule(r, jobs, below, empty)
    IN  /\ r # NotEvaluating
        /\ collection' = [collection EXCEPT ![c] =
              [status |-> IF new = r.row.status THEN @.status ELSE new,
               belowSince |-> below, emptySince |-> empty]]
        /\ history' = IF new = r.row.status THEN history
              ELSE [history EXCEPT ![c].trigger =
                      IF new \in {"ARCHIVED", "NOINDEX"} THEN "LIFECYCLE" ELSE "QUALIFICATION"]
        /\ evaluating' = [Crossed(c) EXCEPT ![e] = NotEvaluating]
        /\ lastGood' = [lastGood EXCEPT ![c] =
              IF r.crossed THEN NoDate
              ELSE IF jobs \in {"NOINDEX", "EMPTY"} THEN @ ELSE r.today]
        /\ UNCHANGED eastern

\* The run dies, or cannot read the jobs.
AbandonEvaluation(e) ==
    /\ evaluating[e] # NotEvaluating
    /\ evaluating' = [evaluating EXCEPT ![e] = NotEvaluating]
    /\ UNCHANGED <<eastern, collection, history, lastGood>>

-----------------------------------------------------------------------------
(* Everyone else.                                                          *)

\* collection_admin.apply_action, one by one or in bulk.
Path(action, status) ==
    CASE action = "approve" /\ status \in {"CANDIDATE", "QUALIFIED", "NOINDEX"} -> "INDEXABLE"
      [] action = "noindex" /\ status = "INDEXABLE" -> "NOINDEX"
      [] action = "archive" /\ status \notin {"ABSENT", "ARCHIVED"} -> "ARCHIVED"
      [] action = "restore" /\ status = "ARCHIVED" -> "CANDIDATE"
      [] OTHER -> status

ApplyAction(c, action) ==
    LET new == Path(action, collection[c].status)
    IN  /\ new # collection[c].status
        /\ collection' = [collection EXCEPT ![c].status = new]
        /\ history' = [history EXCEPT ![c] =
              [approved |-> IF new = "INDEXABLE" THEN eastern ELSE @.approved, trigger |-> "MANUAL"]]
        /\ evaluating' = Crossed(c)
        /\ UNCHANGED <<eastern, lastGood>>

\* A new evaluation's details replace the old, their dates included.
Proposed(status) == [status |-> status, belowSince |-> NoDate, emptySince |-> NoDate]

\* Mutant: whatever was archived is proposed again.
ReturningAll(c) == collection[c].status = "ARCHIVED"

\* _archived_by_lifecycle.
Returning(c) == collection[c].status = "ARCHIVED" /\ history[c].trigger = "LIFECYCLE"

\* discover, at the end of the nightly run: what is worth a page and is not
\* in the registry, or was archived by the lifecycle.
Discover(c, jobs) ==
    /\ jobs \in {"INDEX", "REVIEW"}
    /\ collection[c].status = "ABSENT" \/ Returning(c)
    /\ collection' = [collection EXCEPT ![c] =
          Proposed(IF jobs = "INDEX" THEN "QUALIFIED" ELSE "CANDIDATE")]
    /\ history' = [history EXCEPT ![c].trigger =
          IF jobs = "INDEX" THEN "QUALIFICATION"
          ELSE IF collection[c].status = "ABSENT" THEN "SYSTEM" ELSE "LIFECYCLE"]
    /\ lastGood' = [lastGood EXCEPT ![c] = eastern]
    /\ evaluating' = Crossed(c)
    /\ UNCHANGED eastern

\* publish_collection_batch: an admin approves all that score INDEX; a
\* collection that exists only has its score refreshed.
PublishBatch(c, jobs) ==
    LET new == IF collection[c].status = "ABSENT"
               THEN IF jobs = "INDEX" THEN "INDEXABLE" ELSE "CANDIDATE"
               ELSE collection[c].status
    IN  /\ collection' = [collection EXCEPT ![c] = Proposed(new)]
        /\ history' = IF collection[c].status = "ABSENT" /\ new = "INDEXABLE"
              THEN [history EXCEPT ![c] = [approved |-> eastern, trigger |-> "MANUAL"]]
              ELSE history
        /\ lastGood' = IF jobs \in {"NOINDEX", "EMPTY"} THEN lastGood
                       ELSE [lastGood EXCEPT ![c] = eastern]
        /\ evaluating' = Crossed(c)
        /\ UNCHANGED eastern

CollectionsNext ==
    \/ NextEasternDay
    \/ \E e \in Evaluators, c \in Collections : ReadCollection(e, c)
    \/ \E e \in Evaluators, jobs \in Recommendations : CommitEvaluation(e, jobs)
    \/ \E e \in Evaluators : AbandonEvaluation(e)
    \/ \E c \in Collections, action \in {"approve", "noindex", "archive", "restore"} :
          ApplyAction(c, action)
    \/ \E c \in Collections, jobs \in Recommendations : Discover(c, jobs) \/ PublishBatch(c, jobs)

CollectionsSpec == CollectionsInit /\ [][CollectionsNext]_collectionVars

-----------------------------------------------------------------------------
(* Properties.                                                             *)

LeavesIndex(c) == collection[c].status = "INDEXABLE" /\ collection'[c].status = "NOINDEX"

\* A rule takes a page out of the index only when no evaluation has found it
\* above the bar, and no person has approved it, for all the days of grace:
\* through nights that fail, re-evaluations, restores and batches, unless an
\* evaluation overlapped another's or somebody's action.
GraceKept ==
    [][\A e \in Evaluators, jobs \in Recommendations :
          CommitEvaluation(e, jobs) /\ ~evaluating[e].crossed =>
          LET c == evaluating[e].of
          IN  LeavesIndex(c) =>
                  /\ lastGood[c] # NoDate => evaluating[e].today - lastGood[c] >= GraceDays
                  /\ history[c].approved < evaluating[e].today - GraceDays]_collectionVars

\* What a person archived last is proposed again by a person alone, even if
\* the lifecycle had archived it before.
PersonArchived(c) == collection[c].status = "ARCHIVED" /\ history[c].trigger = "MANUAL"

ArchiveStands ==
    [][\A c \in Collections :
          PersonArchived(c) /\ (\A e \in Evaluators : evaluating[e] = NotEvaluating)
            /\ collection'[c].status # "ARCHIVED" => history'[c].trigger = "MANUAL"]_collectionVars
=============================================================================
