------------------------- MODULE Collections_proofs -------------------------
(***************************************************************************)
(* Proofs about Collections, for any registry, any number of evaluators    *)
(* and any length of the grace period and of the calendar.  GraceKept      *)
(* rests on the recorded date: no evaluation that found the collection     *)
(* good is later than the date it is recorded below the bar since.  A      *)
(* commit keeps that because what it read is still so, or its evaluation   *)
(* is marked as crossed, and then nothing is said of what was good.        *)
(***************************************************************************)
EXTENDS Collections, TLAPS

Evaluation ==
    [of : Collections, row : Row, approved : Dates, today : 0 .. LastEvaluation,
     crossed : BOOLEAN]

\* What an evaluator read is still so, unless somebody has changed it since.
ReadHolds(r) ==
    /\ r \in Evaluation
    /\ r.today <= eastern
    /\ collection[r.of].status # "ABSENT"
    /\ r.row.status \notin {"ABSENT", "ARCHIVED"}
    /\ ~r.crossed =>
          /\ r.row = collection[r.of]
          /\ r.approved = history[r.of].approved
          /\ lastGood[r.of] <= r.today

GoodBeforeBelow ==
    \A c \in Collections :
       /\ lastGood[c] <= eastern
       /\ collection[c].belowSince # NoDate => lastGood[c] <= collection[c].belowSince

ReadsHold ==
    \A e \in Evaluators, r \in Evaluation :
       evaluating[e] # NotEvaluating /\ evaluating[e] = r => ReadHolds(r)

CollectionsInv ==
    /\ eastern \in 0 .. LastEvaluation
    /\ collection \in [Collections -> Row]
    /\ history \in [Collections -> Events]
    /\ lastGood \in [Collections -> Dates]
    /\ evaluating \in [Evaluators -> Evaluation \union {NotEvaluating}]
    /\ GoodBeforeBelow
    /\ ReadsHold

-----------------------------------------------------------------------------
(* Constants and rows.                                                     *)

LEMMA Basics ==
    /\ LastEvaluation \in Nat /\ GraceDays \in Nat /\ EmptyDays \in Nat
    /\ NoDate \in Dates /\ NoDate \notin Nat /\ NoDate < 0
    /\ \A n \in Dates : n \in Int /\ NoDate <= n /\ (n # NoDate => n \in Nat)
    /\ \A n \in 0 .. LastEvaluation : n \in Dates /\ n \in Nat /\ n # NoDate
<1>1. LastEvaluation \in Nat /\ GraceDays \in Nat /\ EmptyDays \in Nat
  BY CollectionsAssumption
<1> QED
  BY <1>1 DEF Dates, NoDate

LEMMA RowTyped ==
    ASSUME NEW s \in CollectionStatus, NEW b \in Dates, NEW m \in Dates
    PROVE  \E row \in Row : /\ row = [status |-> s, belowSince |-> b, emptySince |-> m]
                            /\ row.status = s /\ row.belowSince = b
<1> DEFINE row == [status |-> s, belowSince |-> b, emptySince |-> m]
<1>1. row \in Row /\ row.status = s /\ row.belowSince = b
  BY DEF Row
<1>2. row = [status |-> s, belowSince |-> b, emptySince |-> m]
  OBVIOUS
<1> HIDE DEF row
<1> QED
  BY <1>1, <1>2

\* An evaluation that somebody crosses.
LEMMA CrossedTyped ==
    \A r \in Evaluation :
       /\ [r EXCEPT !.crossed = TRUE] \in Evaluation
       /\ [r EXCEPT !.crossed = TRUE].crossed = TRUE
       /\ [r EXCEPT !.crossed = TRUE].of = r.of
       /\ [r EXCEPT !.crossed = TRUE].today = r.today
       /\ [r EXCEPT !.crossed = TRUE].row = r.row
  BY DEF Evaluation

LEMMA InvInit == CollectionsInit => CollectionsInv
<1> SUFFICES ASSUME CollectionsInit PROVE CollectionsInv
  OBVIOUS
<1>1. collection \in [Collections -> Row] /\ \A c \in Collections : collection[c].belowSince = NoDate
  BY Basics DEF CollectionsInit, Row, CollectionStatus
<1>2. history \in [Collections -> Events]
  BY Basics DEF CollectionsInit, Events
<1>3. lastGood \in [Collections -> Dates] /\ \A c \in Collections : lastGood[c] = NoDate
  BY Basics DEF CollectionsInit
<1>4. eastern \in 0 .. LastEvaluation /\ eastern = 0
  BY Basics DEF CollectionsInit
<1>5. /\ evaluating \in [Evaluators -> Evaluation \union {NotEvaluating}]
      /\ \A e \in Evaluators : evaluating[e] = NotEvaluating
  BY DEF CollectionsInit
<1>6. NoDate <= 0
  BY Basics
<1> QED
  BY <1>1, <1>2, <1>3, <1>4, <1>5, <1>6 DEF CollectionsInv, GoodBeforeBelow, ReadsHold

-----------------------------------------------------------------------------
(* Steps.                                                                  *)

\* One row is written, its evaluations under way are crossed, or ended.
LEMMA OneRow ==
    ASSUME CollectionsInv, NEW c \in Collections,
           NEW row \in Row, NEW events \in Events, NEW good \in Dates,
           row.status # "ABSENT", good <= eastern,
           row.belowSince # NoDate => good <= row.belowSince,
           eastern' = eastern,
           collection' = [collection EXCEPT ![c] = row],
           history' = [history EXCEPT ![c] = events],
           lastGood' = [lastGood EXCEPT ![c] = good],
           \/ evaluating' = Crossed(c)
           \/ \E e \in Evaluators : evaluating' = [Crossed(c) EXCEPT ![e] = NotEvaluating]
    PROVE  CollectionsInv'
<1>1. /\ collection' \in [Collections -> Row] /\ collection'[c] = row
      /\ history' \in [Collections -> Events]
      /\ lastGood' \in [Collections -> Dates] /\ lastGood'[c] = good
      /\ \A o \in Collections : o # c =>
            /\ collection'[o] = collection[o] /\ history'[o] = history[o]
            /\ lastGood'[o] = lastGood[o]
  BY DEF CollectionsInv
<1>2. GoodBeforeBelow'
  BY <1>1 DEF CollectionsInv, GoodBeforeBelow
<1>3. \A x \in Evaluators : Crossed(c)[x] \in Evaluation \union {NotEvaluating}
  BY CrossedTyped DEF Crossed, CollectionsInv
<1>4. evaluating' \in [Evaluators -> Evaluation \union {NotEvaluating}]
  BY <1>3 DEF Crossed
<1>5. ASSUME NEW x \in Evaluators, NEW q \in Evaluation,
             evaluating'[x] # NotEvaluating, evaluating'[x] = q
      PROVE  ReadHolds(q)'
  <2>1. evaluating'[x] = Crossed(c)[x]
    BY <1>5 DEF Crossed
  <2>2. evaluating[x] # NotEvaluating
    BY <1>5, <2>1 DEF Crossed
  <2>3. PICK r \in Evaluation : r = evaluating[x] /\ ReadHolds(r)
    BY <2>2 DEF CollectionsInv, ReadsHold
  <2>4. CASE r.of = c
    <3>1. q = [r EXCEPT !.crossed = TRUE]
      BY <1>5, <2>1, <2>2, <2>3, <2>4 DEF Crossed
    <3>2. q.crossed = TRUE /\ q.of = r.of /\ q.today = r.today /\ q.row = r.row
      BY <3>1, CrossedTyped
    <3> QED
      BY <1>1, <2>3, <2>4, <3>2 DEF ReadHolds
  <2>5. CASE r.of # c
    <3>1. q = r
      BY <1>5, <2>1, <2>2, <2>3, <2>5 DEF Crossed
    <3>2. r.of \in Collections
      BY DEF Evaluation
    <3> QED
      BY <1>1, <2>3, <2>5, <3>1, <3>2 DEF ReadHolds
  <2> QED
    BY <2>4, <2>5
<1>6. ReadsHold'
  BY <1>5 DEF ReadsHold
<1> QED
  BY <1>1, <1>2, <1>4, <1>6 DEF CollectionsInv

\* The date a row is recorded below the bar since, and what it may become.
LEMMA SinceTyped ==
    ASSUME NEW r \in Evaluation, NEW holds \in BOOLEAN, NEW recorded \in Dates
    PROVE  /\ Since(r, holds, recorded) \in Dates
           /\ Since(r, holds, recorded) # NoDate =>
                 holds /\ Since(r, holds, recorded) \in {recorded, r.today}
           /\ Since(r, holds, recorded) = r.today \/ Since(r, holds, recorded) \in {recorded, NoDate}
           /\ recorded = NoDate /\ holds => Since(r, holds, recorded) = r.today
           /\ recorded # NoDate /\ holds => Since(r, holds, recorded) = recorded
  BY Basics DEF Since, Evaluation

LEMMA RuleTyped ==
    ASSUME NEW r \in Evaluation, NEW jobs, NEW below, NEW empty,
           r.row.status \notin {"ABSENT", "ARCHIVED"}
    PROVE  /\ Rule(r, jobs, below, empty) \in CollectionStatus
           /\ Rule(r, jobs, below, empty) # "ABSENT"
           /\ Rule(r, jobs, below, empty) = "NOINDEX" /\ r.row.status # "NOINDEX" =>
                 Elapsed(r, below, GraceDays) /\ ~ApprovedSince(r, below)
<1>1. r.row.status \in CollectionStatus
  BY DEF Evaluation, Row
<1> QED
  BY <1>1 DEF Rule, CollectionStatus

LEMMA CommitKeeps ==
    ASSUME CollectionsInv, NEW e \in Evaluators, NEW jobs \in Recommendations,
           CommitEvaluation(e, jobs)
    PROVE  CollectionsInv'
<1>1. PICK r \in Evaluation : r = evaluating[e] /\ ReadHolds(r)
  BY DEF CollectionsInv, ReadsHold, CommitEvaluation
<1>2. PICK bad \in BOOLEAN : bad = (jobs \in {"NOINDEX", "EMPTY"})
  <2>1. (jobs \in {"NOINDEX", "EMPTY"}) \in BOOLEAN
    OBVIOUS
  <2> QED
    BY <2>1, Zenon
<1>3. PICK none \in BOOLEAN : none = (jobs = "EMPTY")
  OBVIOUS
<1>4. PICK c \in Collections : c = r.of
  BY DEF Evaluation
<1>5. r.row \in Row /\ r.row.belowSince \in Dates /\ r.row.emptySince \in Dates
      /\ r.today \in Dates /\ r.today \in Nat
  BY Basics DEF Evaluation, Row
<1>6. PICK below \in Dates : below = Since(r, bad, r.row.belowSince)
  BY <1>5, SinceTyped
<1>7. PICK empty \in Dates : empty = Since(r, none, r.row.emptySince)
  BY <1>5, SinceTyped
<1>8. PICK new \in CollectionStatus : new = Rule(r, jobs, below, empty) /\ new # "ABSENT"
  BY <1>1, RuleTyped DEF ReadHolds
<1>9. collection[c] \in Row /\ collection[c].status # "ABSENT" /\ history[c] \in Events
      /\ lastGood[c] \in Dates
  BY <1>1, <1>4 DEF CollectionsInv, ReadHolds
<1>10. PICK s \in CollectionStatus :
          s = (IF new = r.row.status THEN collection[c].status ELSE new) /\ s # "ABSENT"
  BY <1>8, <1>9 DEF Row
<1>11. PICK row \in Row : /\ row = [status |-> s, belowSince |-> below, emptySince |-> empty]
                          /\ row.status = s /\ row.belowSince = below
  BY <1>6, <1>7, <1>10, RowTyped
<1>12. collection' = [collection EXCEPT ![c] = row]
  BY <1>1, <1>2, <1>3, <1>4, <1>6, <1>7, <1>8, <1>10, <1>11 DEF CommitEvaluation
<1>13. PICK events \in Events : history' = [history EXCEPT ![c] = events]
  <2>1. CASE new = r.row.status
    <3>1. history' = history
      BY <1>1, <1>2, <1>3, <1>6, <1>7, <1>8, <2>1 DEF CommitEvaluation
    <3>2. history' = [history EXCEPT ![c] = history[c]]
      BY <3>1 DEF CollectionsInv
    <3> QED
      BY <1>9, <3>2
  <2>2. CASE new # r.row.status
    <3>1. PICK t \in {"LIFECYCLE", "QUALIFICATION"} :
             t = IF new \in {"ARCHIVED", "NOINDEX"} THEN "LIFECYCLE" ELSE "QUALIFICATION"
      OBVIOUS
    <3>2. history' = [history EXCEPT ![c].trigger = t]
      BY <1>1, <1>2, <1>3, <1>4, <1>6, <1>7, <1>8, <2>2, <3>1 DEF CommitEvaluation
    <3>3. [history[c] EXCEPT !.trigger = t] \in Events
      BY <1>9, <3>1 DEF Events
    <3>4. history' = [history EXCEPT ![c] = [history[c] EXCEPT !.trigger = t]]
      BY <3>2 DEF CollectionsInv
    <3> QED
      BY <3>3, <3>4
  <2> QED
    BY <2>1, <2>2
<1>14. PICK good \in Dates :
          good = IF r.crossed THEN NoDate ELSE IF bad THEN lastGood[c] ELSE r.today
  BY <1>5, <1>9, Basics
<1>15. lastGood' = [lastGood EXCEPT ![c] = good]
  BY <1>1, <1>2, <1>4, <1>14 DEF CommitEvaluation
<1>16. evaluating' = [Crossed(c) EXCEPT ![e] = NotEvaluating] /\ eastern' = eastern
  BY <1>1, <1>4 DEF CommitEvaluation
<1>17. eastern \in Nat /\ r.today <= eastern /\ lastGood[c] <= eastern /\ NoDate <= eastern
  BY <1>1, Basics DEF CollectionsInv, GoodBeforeBelow, ReadHolds
<1>18. good <= eastern
  BY <1>14, <1>17
<1>19. row.belowSince # NoDate => good <= row.belowSince
  <2> SUFFICES ASSUME below # NoDate PROVE good <= below
    BY <1>11
  <2>1. bad /\ (r.row.belowSince = NoDate => below = r.today)
        /\ (r.row.belowSince # NoDate => below = r.row.belowSince)
    BY <1>5, <1>6, SinceTyped
  <2>2. CASE r.crossed
    BY <1>14, <2>2, Basics
  <2>3. CASE ~r.crossed
    <3>1. r.row = collection[c] /\ lastGood[c] <= r.today /\ good = lastGood[c]
      BY <1>1, <1>4, <1>14, <2>1, <2>3 DEF ReadHolds
    <3> QED
      BY <2>1, <3>1 DEF CollectionsInv, GoodBeforeBelow
  <2> QED
    BY <2>2, <2>3
<1> QED
  BY <1>10, <1>11, <1>12, <1>13, <1>15, <1>16, <1>18, <1>19, OneRow

LEMMA ActionKeeps ==
    ASSUME CollectionsInv, NEW c \in Collections,
           NEW action \in {"approve", "noindex", "archive", "restore"}, ApplyAction(c, action)
    PROVE  CollectionsInv'
<1>1. collection[c] \in Row /\ history[c] \in Events /\ lastGood[c] \in Dates
      /\ eastern \in Dates
  BY Basics DEF CollectionsInv
<1>2. PICK new \in CollectionStatus : new = Path(action, collection[c].status) /\ new # "ABSENT"
  BY <1>1 DEF Path, ApplyAction, Row, CollectionStatus
<1>3. [collection[c] EXCEPT !.status = new] \in Row
      /\ [collection[c] EXCEPT !.status = new].status = new
      /\ [collection[c] EXCEPT !.status = new].belowSince = collection[c].belowSince
  BY <1>1 DEF Row
<1>4. PICK row \in Row : /\ row = [collection[c] EXCEPT !.status = new] /\ row.status = new
                         /\ row.belowSince = collection[c].belowSince
  BY <1>3
<1>5. collection' = [collection EXCEPT ![c] = row]
  BY <1>2, <1>4 DEF ApplyAction, CollectionsInv
<1>6. PICK day \in Dates : day = IF new = "INDEXABLE" THEN eastern ELSE history[c].approved
  BY <1>1 DEF Events
<1>7. PICK events \in Events : events = [approved |-> day, trigger |-> "MANUAL"]
  BY DEF Events
<1>8. history' = [history EXCEPT ![c] = events]
  BY <1>2, <1>6, <1>7 DEF ApplyAction, CollectionsInv
<1>9. evaluating' = Crossed(c) /\ eastern' = eastern /\ lastGood' = [lastGood EXCEPT ![c] = lastGood[c]]
  BY DEF ApplyAction, CollectionsInv
<1>10. lastGood[c] <= eastern /\ (row.belowSince # NoDate => lastGood[c] <= row.belowSince)
  BY <1>4 DEF CollectionsInv, GoodBeforeBelow
<1> QED
  BY <1>1, <1>2, <1>4, <1>5, <1>8, <1>9, <1>10, OneRow

\* A new evaluation's details, with no dates.
LEMMA ProposedKeeps ==
    ASSUME CollectionsInv, NEW c \in Collections, NEW s \in CollectionStatus, s # "ABSENT",
           NEW events \in Events, NEW good \in {lastGood[c], eastern},
           collection' = [collection EXCEPT ![c] = Proposed(s)],
           history' = [history EXCEPT ![c] = events],
           lastGood' = [lastGood EXCEPT ![c] = good],
           evaluating' = Crossed(c), eastern' = eastern
    PROVE  CollectionsInv'
<1>1. PICK row \in Row : row = Proposed(s) /\ row.status = s /\ row.belowSince = NoDate
  BY Basics, RowTyped DEF Proposed
<1>2. good \in Dates /\ good <= eastern
  BY Basics DEF CollectionsInv, GoodBeforeBelow
<1> QED
  BY <1>1, <1>2, OneRow

LEMMA DiscoverKeeps ==
    ASSUME CollectionsInv, NEW c \in Collections, NEW jobs \in Recommendations, Discover(c, jobs)
    PROVE  CollectionsInv'
<1>1. PICK s \in {"QUALIFIED", "CANDIDATE"} : s = IF jobs = "INDEX" THEN "QUALIFIED" ELSE "CANDIDATE"
  OBVIOUS
<1>2. s \in CollectionStatus /\ s # "ABSENT"
  BY <1>1 DEF CollectionStatus
<1>3. PICK t \in {"QUALIFICATION", "SYSTEM", "LIFECYCLE"} :
         t = IF jobs = "INDEX" THEN "QUALIFICATION"
             ELSE IF collection[c].status = "ABSENT" THEN "SYSTEM" ELSE "LIFECYCLE"
  OBVIOUS
<1>4. PICK events \in Events : events = [history[c] EXCEPT !.trigger = t]
  <2>1. history[c] \in Events
    BY DEF CollectionsInv
  <2> QED
    BY <2>1, <1>3 DEF Events
<1>5. /\ collection' = [collection EXCEPT ![c] = Proposed(s)]
      /\ history' = [history EXCEPT ![c] = events]
      /\ lastGood' = [lastGood EXCEPT ![c] = eastern]
      /\ evaluating' = Crossed(c) /\ eastern' = eastern
  <2>1. history' = [history EXCEPT ![c].trigger = t]
    BY <1>3 DEF Discover
  <2>2. history' = [history EXCEPT ![c] = [history[c] EXCEPT !.trigger = t]]
    BY <2>1 DEF CollectionsInv
  <2> QED
    BY <1>1, <1>4, <2>2 DEF Discover
<1> QED
  BY <1>2, <1>5, ProposedKeeps

LEMMA PublishKeeps ==
    ASSUME CollectionsInv, NEW c \in Collections, NEW jobs \in Recommendations,
           PublishBatch(c, jobs)
    PROVE  CollectionsInv'
<1>1. collection[c] \in Row /\ history[c] \in Events /\ eastern \in Dates
  BY Basics DEF CollectionsInv
<1>2. PICK s \in CollectionStatus :
         /\ s = IF collection[c].status = "ABSENT"
                THEN IF jobs = "INDEX" THEN "INDEXABLE" ELSE "CANDIDATE"
                ELSE collection[c].status
         /\ s # "ABSENT"
  BY <1>1 DEF Row, CollectionStatus
<1>3. PICK events \in Events : history' = [history EXCEPT ![c] = events]
  <2>1. CASE collection[c].status = "ABSENT" /\ s = "INDEXABLE"
    <3>1. [approved |-> eastern, trigger |-> "MANUAL"] \in Events
      BY <1>1 DEF Events
    <3>2. history' = [history EXCEPT ![c] = [approved |-> eastern, trigger |-> "MANUAL"]]
      BY <1>2, <2>1 DEF PublishBatch
    <3> QED
      BY <3>1, <3>2
  <2>2. CASE ~(collection[c].status = "ABSENT" /\ s = "INDEXABLE")
    <3>1. history' = history
      BY <1>2, <2>2 DEF PublishBatch
    <3>2. history' = [history EXCEPT ![c] = history[c]]
      BY <3>1 DEF CollectionsInv
    <3> QED
      BY <1>1, <3>2
  <2> QED
    BY <2>1, <2>2
<1>4. PICK good \in {lastGood[c], eastern} : lastGood' = [lastGood EXCEPT ![c] = good]
  <2>1. CASE jobs \in {"NOINDEX", "EMPTY"}
    <3>1. lastGood' = [lastGood EXCEPT ![c] = lastGood[c]]
      BY <2>1 DEF PublishBatch, CollectionsInv
    <3> QED
      BY <3>1
  <2>2. CASE jobs \notin {"NOINDEX", "EMPTY"}
    BY <2>2 DEF PublishBatch
  <2> QED
    BY <2>1, <2>2
<1>5. /\ collection' = [collection EXCEPT ![c] = Proposed(s)]
      /\ evaluating' = Crossed(c) /\ eastern' = eastern
  BY <1>2 DEF PublishBatch
<1> QED
  BY <1>2, <1>3, <1>4, <1>5, ProposedKeeps

LEMMA ReadKeeps ==
    ASSUME CollectionsInv, NEW e \in Evaluators, NEW c \in Collections, ReadCollection(e, c)
    PROVE  CollectionsInv'
<1>1. collection[c] \in Row /\ history[c].approved \in Dates /\ eastern \in 0 .. LastEvaluation
  BY DEF CollectionsInv, Events
<1>2. PICK r \in Evaluation :
         r = [of |-> c, row |-> collection[c], approved |-> history[c].approved,
              today |-> eastern, crossed |-> FALSE]
  BY <1>1 DEF Evaluation
<1>3. /\ r.of = c /\ r.row = collection[c] /\ r.approved = history[c].approved
      /\ r.today = eastern /\ r.crossed = FALSE
  BY <1>2
<1>4. evaluating' = [evaluating EXCEPT ![e] = r] /\ UNCHANGED <<eastern, collection, history, lastGood>>
  BY <1>2 DEF ReadCollection
<1>5. eastern <= eastern /\ lastGood[c] <= eastern
  BY <1>1, Basics DEF CollectionsInv, GoodBeforeBelow
<1>6. ReadHolds(r)
  BY <1>3, <1>5 DEF ReadHolds, ReadCollection
<1>7. ASSUME NEW x \in Evaluators, NEW q \in Evaluation,
             evaluating'[x] # NotEvaluating, evaluating'[x] = q
      PROVE  ReadHolds(q)'
  <2>1. ReadHolds(q)
    <3>1. CASE x = e
      BY <1>4, <1>6, <1>7, <3>1 DEF CollectionsInv
    <3>2. CASE x # e
      BY <1>4, <1>7, <3>2 DEF CollectionsInv, ReadsHold
    <3> QED
      BY <3>1, <3>2
  <2> QED
    BY <1>4, <2>1 DEF ReadHolds
<1>8. ReadsHold'
  BY <1>7 DEF ReadsHold
<1>9. evaluating' \in [Evaluators -> Evaluation \union {NotEvaluating}]
  BY <1>4 DEF CollectionsInv
<1> QED
  BY <1>4, <1>8, <1>9 DEF CollectionsInv, GoodBeforeBelow

LEMMA InvStep == CollectionsInv /\ [CollectionsNext]_collectionVars => CollectionsInv'
<1> SUFFICES ASSUME CollectionsInv, [CollectionsNext]_collectionVars PROVE CollectionsInv'
  OBVIOUS
<1>1. CASE NextEasternDay
  <2>1. /\ eastern' \in 0 .. LastEvaluation /\ eastern' = eastern + 1
        /\ UNCHANGED <<collection, history, evaluating, lastGood>>
    BY <1>1, Basics DEF NextEasternDay, CollectionsInv
  <2>2. \A n \in Int : n <= eastern => n <= eastern'
    BY <2>1 DEF CollectionsInv
  <2>3. GoodBeforeBelow'
    BY <2>1, <2>2, Basics DEF CollectionsInv, GoodBeforeBelow
  <2>4. ASSUME NEW x \in Evaluators, NEW q \in Evaluation,
               evaluating'[x] # NotEvaluating, evaluating'[x] = q
        PROVE  ReadHolds(q)'
    <3>1. ReadHolds(q)
      BY <2>1, <2>4 DEF CollectionsInv, ReadsHold
    <3>2. q.today \in Int
      BY DEF Evaluation
    <3> QED
      BY <2>1, <2>2, <3>1, <3>2 DEF ReadHolds
  <2>5. ReadsHold'
    BY <2>4 DEF ReadsHold
  <2> QED
    BY <2>1, <2>3, <2>5 DEF CollectionsInv
<1>2. CASE \E e \in Evaluators, c \in Collections : ReadCollection(e, c)
  BY <1>2, ReadKeeps
<1>3. CASE \E e \in Evaluators, jobs \in Recommendations : CommitEvaluation(e, jobs)
  BY <1>3, CommitKeeps
<1>4. ASSUME NEW e \in Evaluators, AbandonEvaluation(e) PROVE CollectionsInv'
  BY <1>4 DEF AbandonEvaluation, CollectionsInv, GoodBeforeBelow, ReadsHold, ReadHolds
<1>5. CASE \E c \in Collections, action \in {"approve", "noindex", "archive", "restore"} :
              ApplyAction(c, action)
  BY <1>5, ActionKeeps
<1>6. ASSUME NEW c \in Collections, NEW jobs \in Recommendations,
             Discover(c, jobs) \/ PublishBatch(c, jobs)
      PROVE  CollectionsInv'
  BY <1>6, DiscoverKeeps, PublishKeeps
<1>7. CASE UNCHANGED collectionVars
  BY <1>7 DEF collectionVars, CollectionsInv, GoodBeforeBelow, ReadsHold, ReadHolds
<1> QED
  BY <1>1, <1>2, <1>3, <1>4, <1>5, <1>6, <1>7 DEF CollectionsNext

LEMMA InvHolds == CollectionsSpec => []CollectionsInv
  BY InvInit, InvStep, PTL DEF CollectionsSpec

-----------------------------------------------------------------------------
(* Theorems.                                                               *)

\* Rows keep to their types; what an evaluator has read was there.
THEOREM TypeCorrect == CollectionsSpec => []CollectionsTypeOK
<1>1. CollectionsInv => CollectionsTypeOK
  BY DEF CollectionsInv, CollectionsTypeOK, ReadsHold, ReadHolds
<1> QED
  BY <1>1, InvHolds, PTL

\* A rule that takes a page out has waited for all the days of grace.
LEMMA GraceStep ==
    ASSUME CollectionsInv, NEW e \in Evaluators, NEW jobs \in Recommendations,
           CommitEvaluation(e, jobs), ~evaluating[e].crossed, LeavesIndex(evaluating[e].of)
    PROVE  LET c == evaluating[e].of
           IN  /\ lastGood[c] # NoDate => evaluating[e].today - lastGood[c] >= GraceDays
               /\ history[c].approved < evaluating[e].today - GraceDays
<1>1. PICK r \in Evaluation : r = evaluating[e] /\ ReadHolds(r)
  BY DEF CollectionsInv, ReadsHold, CommitEvaluation
<1>2. PICK c \in Collections : c = r.of
  BY DEF Evaluation
<1>3. PICK bad \in BOOLEAN : bad = (jobs \in {"NOINDEX", "EMPTY"})
  <2>1. (jobs \in {"NOINDEX", "EMPTY"}) \in BOOLEAN
    OBVIOUS
  <2> QED
    BY <2>1, Zenon
<1>4. PICK none \in BOOLEAN : none = (jobs = "EMPTY")
  OBVIOUS
<1>5. r.row.belowSince \in Dates /\ r.row.emptySince \in Dates /\ r.today \in Nat
      /\ r.approved \in Dates /\ lastGood[c] \in Dates
  BY Basics DEF Evaluation, Row, CollectionsInv
<1>6. PICK below \in Dates : below = Since(r, bad, r.row.belowSince)
  BY <1>5, SinceTyped
<1>7. PICK empty \in Dates : empty = Since(r, none, r.row.emptySince)
  BY <1>5, SinceTyped
<1>8. PICK new \in CollectionStatus : new = Rule(r, jobs, below, empty)
  BY <1>1, RuleTyped DEF ReadHolds
<1>9. new = "NOINDEX" /\ r.row.status # "NOINDEX"
  <2>1. collection'[c].status = IF new = r.row.status THEN collection[c].status ELSE new
    <3>1. collection' = [collection EXCEPT ![c] =
             [status |-> IF new = r.row.status THEN collection[c].status ELSE new,
              belowSince |-> below, emptySince |-> empty]]
      BY <1>1, <1>2, <1>3, <1>4, <1>6, <1>7, <1>8 DEF CommitEvaluation
    <3> QED
      BY <3>1 DEF CollectionsInv
  <2>2. collection[c].status = "INDEXABLE" /\ collection'[c].status = "NOINDEX"
    BY <1>1, <1>2 DEF LeavesIndex
  <2>3. r.row.status = "INDEXABLE"
    BY <1>1, <1>2, <2>2 DEF ReadHolds
  <2> QED
    BY <2>1, <2>2, <2>3
<1>10. below # NoDate /\ r.today - below >= GraceDays /\ (r.approved = NoDate \/ ~(r.approved >= below))
  <2>1. Elapsed(r, below, GraceDays) /\ ~ApprovedSince(r, below)
    BY <1>1, <1>8, <1>9, RuleTyped DEF ReadHolds
  <2> QED
    BY <2>1 DEF Elapsed, ApprovedSince
<1>11. lastGood[c] <= below
  <2>1. /\ r.row.belowSince = NoDate => below = r.today
        /\ r.row.belowSince # NoDate => below = r.row.belowSince
    BY <1>5, <1>6, <1>10, SinceTyped
  <2>2. r.row = collection[c] /\ lastGood[c] <= r.today
    BY <1>1, <1>2 DEF ReadHolds
  <2> QED
    BY <2>1, <2>2 DEF CollectionsInv, GoodBeforeBelow
<1>12. below \in Nat /\ lastGood[c] \in Int /\ r.approved \in Int /\ GraceDays \in Nat
  BY <1>5, <1>10, Basics
<1>13. r.today - lastGood[c] >= GraceDays
  BY <1>5, <1>10, <1>11, <1>12
<1>14. r.approved < r.today - GraceDays
  BY <1>5, <1>10, <1>12, Basics
<1>15. history[c].approved = r.approved
  BY <1>1, <1>2 DEF ReadHolds
<1> QED
  BY <1>1, <1>2, <1>13, <1>14, <1>15

\* However nights fail and people act, the nightly rule takes a page out only
\* when the page was below the bar, and not approved, for the days of grace.
THEOREM GraceIsKept == CollectionsSpec => GraceKept
<1> DEFINE Step == \A e \in Evaluators, jobs \in Recommendations :
          CommitEvaluation(e, jobs) /\ ~evaluating[e].crossed =>
          LET c == evaluating[e].of
          IN  LeavesIndex(c) =>
                  /\ lastGood[c] # NoDate => evaluating[e].today - lastGood[c] >= GraceDays
                  /\ history[c].approved < evaluating[e].today - GraceDays
<1>1. CollectionsInv /\ [CollectionsNext]_collectionVars => [Step]_collectionVars
  BY GraceStep
<1> QED
  BY <1>1, InvHolds, PTL DEF CollectionsSpec, GraceKept

\* What a person archived is left archived by everyone but a person.
THEOREM ArchivesStand == CollectionsSpec => ArchiveStands
<1> DEFINE Step == \A c \in Collections :
          PersonArchived(c) /\ (\A e \in Evaluators : evaluating[e] = NotEvaluating)
            /\ collection'[c].status # "ARCHIVED" => history'[c].trigger = "MANUAL"
<1>1. CollectionsInv /\ [CollectionsNext]_collectionVars => [Step]_collectionVars
  <2> SUFFICES ASSUME CollectionsInv, CollectionsNext, NEW c \in Collections, PersonArchived(c),
                      \A e \in Evaluators : evaluating[e] = NotEvaluating,
                      collection'[c].status # "ARCHIVED"
               PROVE  history'[c].trigger = "MANUAL"
    OBVIOUS
  <2>1. /\ collection \in [Collections -> Row] /\ history \in [Collections -> Events]
        /\ collection[c].status = "ARCHIVED" /\ history[c].trigger = "MANUAL"
    BY DEF CollectionsInv, PersonArchived
  <2>2. collection' # collection
    BY <2>1
  <2>3. \A e \in Evaluators, jobs \in Recommendations : ~CommitEvaluation(e, jobs)
    BY DEF CommitEvaluation
  <2>4. ASSUME NEW o \in Collections, NEW action \in {"approve", "noindex", "archive", "restore"},
               ApplyAction(o, action)
        PROVE  history'[c].trigger = "MANUAL"
    BY <2>1, <2>4 DEF ApplyAction
  <2>5. ASSUME NEW o \in Collections, NEW jobs \in Recommendations, Discover(o, jobs) PROVE FALSE
    <3>1. o = c
      BY <2>1, <2>5 DEF Discover
    <3> QED
      BY <2>1, <2>5, <3>1 DEF Discover, Returning
  <2>6. ASSUME NEW o \in Collections, NEW jobs \in Recommendations, PublishBatch(o, jobs) PROVE FALSE
    <3>1. o = c
      BY <2>1, <2>6 DEF PublishBatch
    <3>2. collection'[c].status = "ARCHIVED"
      BY <2>1, <2>6, <3>1 DEF PublishBatch, Proposed
    <3> QED
      BY <3>2
  <2> QED
    BY <2>2, <2>3, <2>4, <2>5, <2>6
    DEF CollectionsNext, NextEasternDay, ReadCollection, AbandonEvaluation
<1> QED
  BY <1>1, InvHolds, PTL DEF CollectionsSpec, ArchiveStands
=============================================================================
