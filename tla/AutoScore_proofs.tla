-------------------------- MODULE AutoScore_proofs --------------------------
(***************************************************************************)
(* Proofs about AutoScore, for any number of runs, of deliveries and of    *)
(* faults, and for any leases above the calls' deadline.  ClaimsExclusive  *)
(* rests on what the row says of a call that is under way: its result is   *)
(* there already, or the run was ended, or the row still has the call's    *)
(* status and was written no longer ago than the call has lasted.  In the  *)
(* last case the lease, which is longer than a call, has not run out.      *)
(***************************************************************************)
EXTENDS AutoScore, FiniteSetTheorems, TLAPS

Result(r, stage) ==
    CASE stage = "SCORING" -> r.resumeScore # NoScore
      [] stage = "TAILORING" -> r.tailored
      [] stage = "SCORING_TAILORED" -> r.tailoredScore # NoScore

\* What the row r says of a call of that stage that has lasted for age: the
\* stages before it are stored, and nobody else would take the stage up.
Covers(r, stage, age) ==
    /\ stage \in Stages
    /\ stage # "SCORING" => r.resumeScore # NoScore
    /\ stage = "SCORING_TAILORED" => r.tailored
    /\ \/ Result(r, stage)
       \/ r.status \in Ended
       \/ r.status = stage /\ r.idle <= age

RunsInOrder == \E k \in 0 .. MaxRuns : Started = 1 .. k

AutoScoreInv ==
    /\ run \in [1 .. MaxRuns -> RunRow]
    /\ messages \subseteq Started
    /\ delivery \in [Deliveries -> DeliveryState]
    /\ crashes \in 0 .. CrashBudget
    /\ RunsInOrder
    /\ \A d \in Deliveries :
          /\ delivery[d].pc # "idle" => delivery[d].run \in Started
          /\ delivery[d].pc = "calling" =>
                Covers(run[delivery[d].run], delivery[d].stage, delivery[d].age)

\* What every step but a tick does to a row: results stay, and the status is
\* kept and perhaps renewed, or ends the run, or is that of the next stage.
Onward(r, new) ==
    /\ r.resumeScore # NoScore => new.resumeScore # NoScore
    /\ r.tailored => new.tailored
    /\ r.tailoredScore # NoScore => new.tailoredScore # NoScore
    /\ new.status # "ABSENT"
    /\ \/ new.status \in Ended
       \/ new.status = r.status /\ new.idle <= r.idle
       \/ new.status = Unfinished(r) /\ new.idle = 0

-----------------------------------------------------------------------------
(* Constants and rows.                                                     *)

LEMMA Basics ==
    /\ MaxRuns \in Nat /\ CallDeadline \in Nat /\ Lease \in Nat /\ QueuedLease \in Nat
    /\ StaleAfter \in Nat /\ CrashBudget \in Nat
    /\ Scores \subseteq Int /\ NoScore \notin Scores
    /\ Ceiling(Lease, QueuedLease) \in Nat
    /\ Lease <= Ceiling(Lease, QueuedLease)
<1>1. /\ MaxRuns \in Nat /\ CallDeadline \in Nat /\ Lease \in Nat /\ QueuedLease \in Nat
      /\ StaleAfter \in Nat /\ CrashBudget \in Nat /\ Scores \subseteq 0 .. 100
  BY AutoScoreAssumption
<1>2. Scores \subseteq Int /\ NoScore \notin Scores
  BY <1>1 DEF NoScore
<1> QED
  BY <1>1, <1>2 DEF Ceiling

LEMMA IdleTyped == IdleDelivery \in DeliveryState /\ IdleDelivery.pc = "idle"
  BY Basics DEF IdleDelivery, DeliveryState

\* A status that is set, and a result that is stored.
LEMMA StatusTyped ==
    ASSUME NEW r \in RunRow, NEW s \in Active \union Ended
    PROVE  /\ SetStatus(r, s) \in RunRow
           /\ SetStatus(r, s).status = s /\ SetStatus(r, s).idle = 0
           /\ SetStatus(r, s).resumeScore = r.resumeScore
           /\ SetStatus(r, s).tailored = r.tailored
           /\ SetStatus(r, s).tailoredScore = r.tailoredScore
<1>1. 0 \in 0 .. Ceiling(Lease, QueuedLease)
  BY Basics
<1>2. SetStatus(r, s) = [r EXCEPT !.status = s, !.idle = 0]
  BY DEF SetStatus
<1> HIDE DEF SetStatus
<1> QED
  BY <1>1, <1>2 DEF RunRow

LEMMA OnwardCovers ==
    ASSUME NEW r \in RunRow, NEW new \in RunRow, Onward(r, new),
           NEW stage, NEW age \in Nat, Covers(r, stage, age)
    PROVE  Covers(new, stage, age)
<1>1. r.idle \in Int /\ new.idle \in Int
  BY Basics DEF RunRow
<1>2. stage \in Stages
  BY DEF Covers
<1>3. Result(r, stage) => Result(new, stage)
  BY <1>2 DEF Onward, Result, Stages
<1>4. ~Result(r, stage) => Unfinished(r) = stage
  BY <1>2 DEF Covers, Result, Unfinished, Stages, RunRow
<1>5. r.status \in Ended => r.status \notin Stages
  BY DEF Ended, Stages
<1>6. CASE Result(r, stage)
  BY <1>3, <1>6 DEF Covers, Onward
<1>7. CASE ~Result(r, stage)
  <2>1. Unfinished(r) = stage
    BY <1>4, <1>7
  <2>2. \/ new.status \in Ended
        \/ new.status = stage /\ new.idle <= age
    BY <1>1, <1>7, <2>1 DEF Covers, Onward
  <2> QED
    BY <2>2 DEF Covers, Onward
<1> QED
  BY <1>6, <1>7

\* The status of the next stage covers the call that is made for it.
LEMMA NextCovers ==
    ASSUME NEW r \in RunRow, Unfinished(r) # "QUEUED"
    PROVE  /\ Unfinished(r) \in Stages
           /\ Covers(SetStatus(r, Unfinished(r)), Unfinished(r), 0)
<1>1. Unfinished(r) \in Stages
  BY DEF Unfinished, Stages
<1>2. PICK s \in Stages : s = Unfinished(r)
  BY <1>1
<1>3. s \in Active
  BY DEF Active
<1>4. /\ SetStatus(r, s).status = s /\ SetStatus(r, s).idle = 0
      /\ SetStatus(r, s).resumeScore = r.resumeScore
      /\ SetStatus(r, s).tailored = r.tailored
  BY <1>3, StatusTyped
<1>5. /\ s # "SCORING" => r.resumeScore # NoScore
      /\ s = "SCORING_TAILORED" => r.tailored
  BY <1>2 DEF Unfinished, RunRow
<1> QED
  BY <1>2, <1>4, <1>5 DEF Covers

-----------------------------------------------------------------------------
(* Steps.                                                                  *)

\* The invariant is kept by a step that takes the rows onward, has messages
\* and deliveries of rows that are there, and covers the call it begins.
LEMMA Keep ==
    ASSUME AutoScoreInv,
           run' \in [1 .. MaxRuns -> RunRow],
           \A n \in Started : Onward(run[n], run'[n]),
           RunsInOrder',
           messages' \subseteq Started',
           delivery' \in [Deliveries -> DeliveryState],
           crashes' \in 0 .. CrashBudget,
           \A d \in Deliveries :
              \/ delivery'[d] = delivery[d]
              \/ delivery'[d].pc = "idle"
              \/ /\ delivery'[d].run \in Started
                 /\ delivery'[d].pc = "calling" =>
                       Covers(run'[delivery'[d].run], delivery'[d].stage, delivery'[d].age)
    PROVE  AutoScoreInv'
<1>1. Started \subseteq Started'
  BY DEF Started, Onward
<1>2. ASSUME NEW d \in Deliveries
      PROVE  /\ delivery'[d].pc # "idle" => delivery'[d].run \in Started'
             /\ delivery'[d].pc = "calling" =>
                   Covers(run'[delivery'[d].run], delivery'[d].stage, delivery'[d].age)
  <2>1. CASE delivery'[d] = delivery[d]
    <3>1. delivery'[d].pc # "idle" => delivery'[d].run \in Started
      BY <2>1 DEF AutoScoreInv
    <3>2. ASSUME delivery[d].pc = "calling"
          PROVE  Covers(run'[delivery[d].run], delivery[d].stage, delivery[d].age)
      <4> DEFINE n == delivery[d].run
      <4>1. n \in Started /\ n \in 1 .. MaxRuns /\ Covers(run[n], delivery[d].stage, delivery[d].age)
        BY <3>2 DEF AutoScoreInv, Started
      <4>2. run[n] \in RunRow /\ run'[n] \in RunRow /\ Onward(run[n], run'[n])
        BY <4>1 DEF AutoScoreInv
      <4>3. delivery[d].age \in Nat
        BY Basics DEF AutoScoreInv, DeliveryState
      <4> QED
        BY <4>1, <4>2, <4>3, OnwardCovers
    <3> QED
      BY <1>1, <2>1, <3>1, <3>2
  <2>2. CASE delivery'[d].pc = "idle"
    BY <2>2
  <2>3. CASE /\ delivery'[d].run \in Started
             /\ delivery'[d].pc = "calling" =>
                   Covers(run'[delivery'[d].run], delivery'[d].stage, delivery'[d].age)
    BY <1>1, <2>3
  <2> QED
    BY <2>1, <2>2, <2>3
<1> QED
  BY <1>2 DEF AutoScoreInv

\* A row that does not change goes onward.
LEMMA Same == \A r \in RunRow : r.status # "ABSENT" => Onward(r, r)
<1> SUFFICES ASSUME NEW r \in RunRow, r.status # "ABSENT" PROVE Onward(r, r)
  OBVIOUS
<1>1. r.idle \in Int
  BY Basics DEF RunRow
<1> QED
  BY <1>1 DEF Onward

\* Steps that leave the rows alone.
LEMMA KeepRows ==
    ASSUME AutoScoreInv, run' = run,
           messages' \subseteq Started,
           delivery' \in [Deliveries -> DeliveryState],
           crashes' \in 0 .. CrashBudget,
           \A d \in Deliveries :
              \/ delivery'[d] = delivery[d]
              \/ delivery'[d].pc = "idle"
              \/ delivery'[d].run \in Started /\ delivery'[d].pc # "calling"
    PROVE  AutoScoreInv'
<1>1. Started' = Started /\ (RunsInOrder' <=> RunsInOrder)
  BY DEF Started, RunsInOrder
<1>2. \A n \in Started : Onward(run[n], run'[n])
  BY Same DEF AutoScoreInv, Started
<1> QED
  BY <1>1, <1>2, Keep DEF AutoScoreInv

\* Steps that change one row that is there.
LEMMA KeepRow ==
    ASSUME AutoScoreInv, NEW n \in Started, NEW r \in RunRow, Onward(run[n], r),
           run' = [run EXCEPT ![n] = r],
           messages' \subseteq Started,
           delivery' \in [Deliveries -> DeliveryState],
           crashes' \in 0 .. CrashBudget,
           \A d \in Deliveries :
              \/ delivery'[d] = delivery[d]
              \/ delivery'[d].pc = "idle"
              \/ /\ delivery'[d].run \in Started
                 /\ delivery'[d].pc = "calling" =>
                       Covers(run'[delivery'[d].run], delivery'[d].stage, delivery'[d].age)
    PROVE  AutoScoreInv'
<1>1. n \in 1 .. MaxRuns /\ run \in [1 .. MaxRuns -> RunRow]
  BY DEF AutoScoreInv, Started
<1>2. run' \in [1 .. MaxRuns -> RunRow] /\ run'[n] = r
  BY <1>1
<1>3. r.status # "ABSENT" /\ run[n].status # "ABSENT"
  BY DEF Onward, Started
<1>4. Started' = Started
  <2>1. \A m \in 1 .. MaxRuns : m # n => run'[m] = run[m]
    BY <1>1
  <2> QED
    BY <1>1, <1>2, <1>3, <2>1 DEF Started
<1>5. RunsInOrder'
  BY <1>4 DEF AutoScoreInv, RunsInOrder
<1>6. \A m \in Started : Onward(run[m], run'[m])
  BY <1>1, <1>2, Same DEF Started
<1> QED
  BY <1>2, <1>4, <1>5, <1>6, Keep

\* Runs are numbered in the order they were started.
LEMMA LatestIs ==
    ASSUME AutoScoreInv
    PROVE  Latest \in 0 .. MaxRuns /\ Started = 1 .. Latest
<1>1. PICK k \in 0 .. MaxRuns : Started = 1 .. k
  BY DEF AutoScoreInv, RunsInOrder
<1>2. k \in Nat /\ k \in Int /\ 1 \in Int
  BY Basics
<1>3. Cardinality(1 .. k) = IF 1 > k THEN 0 ELSE k - 1 + 1
  BY <1>2, FS_Interval
<1>4. Cardinality(1 .. k) = k
  BY <1>2, <1>3
<1> QED
  BY <1>1, <1>4 DEF Latest

\* An ended or given-up row goes onward.
LEMMA Given ==
    ASSUME NEW r \in RunRow, NEW s \in Ended
    PROVE  [r EXCEPT !.status = s, !.idle = 0] \in RunRow
           /\ Onward(r, [r EXCEPT !.status = s, !.idle = 0])
<1>1. s \in Active \union Ended /\ s # "ABSENT"
  BY DEF Ended
<1>2. SetStatus(r, s) = [r EXCEPT !.status = s, !.idle = 0]
  BY DEF SetStatus
<1>3. SetStatus(r, s) \in RunRow /\ Onward(r, SetStatus(r, s))
  BY <1>1, StatusTyped DEF Onward
<1> QED
  BY <1>2, <1>3

LEMMA DeliveryTyped ==
    ASSUME NEW e \in DeliveryState
    PROVE  /\ [e EXCEPT !.pc = "failing"] \in DeliveryState
           /\ [e EXCEPT !.pc = "stored"] \in DeliveryState
           /\ \A s \in Stages : [e EXCEPT !.pc = "calling", !.stage = s, !.age = 0] \in DeliveryState
<1>1. 0 \in 0 .. CallDeadline
  BY Basics
<1> QED
  BY <1>1 DEF DeliveryState

LEMMA StartKeeps ==
    ASSUME AutoScoreInv, StartRun PROVE AutoScoreInv'
<1> DEFINE cleared == [n \in 1 .. MaxRuns |->
              IF n = Latest /\ run[n].status \in Active /\ Stale(n)
              THEN [run[n] EXCEPT !.status = "FAILED", !.idle = 0] ELSE run[n]]
<1>1. /\ Latest \in 0 .. MaxRuns /\ Started = 1 .. Latest /\ Latest < MaxRuns
      /\ run \in [1 .. MaxRuns -> RunRow]
  BY LatestIs DEF AutoScoreInv, StartRun
<1>2. PICK k \in 0 .. MaxRuns : k = Latest
  BY <1>1
<1>3. k \in Nat /\ k + 1 \in 1 .. MaxRuns /\ k + 1 \notin Started
  BY <1>1, <1>2, Basics
<1>4. "FAILED" \in Ended
  BY DEF Ended
<1>5. ASSUME NEW n \in 1 .. MaxRuns
      PROVE  cleared[n] \in RunRow /\ (n \in Started => Onward(run[n], cleared[n]))
  <2>1. run[n] \in RunRow
    BY <1>1
  <2>2. cleared[n] = run[n] \/ cleared[n] = [run[n] EXCEPT !.status = "FAILED", !.idle = 0]
    OBVIOUS
  <2>3. n \in Started => Onward(run[n], run[n])
    BY <2>1, Same DEF Started
  <2> HIDE DEF cleared
  <2> QED
    BY <1>4, <2>1, <2>2, <2>3, Given
<1>6. PICK s \in {"QUEUED", "FAILED"} : run' = [cleared EXCEPT ![k + 1].status = s]
  BY <1>2 DEF StartRun
<1>7. messages' \subseteq messages \union {k + 1}
  BY <1>2 DEF StartRun
<1>8. UNCHANGED <<delivery, crashes>>
  BY DEF StartRun
<1>9. cleared \in [1 .. MaxRuns -> RunRow]
  BY <1>5
<1> HIDE DEF cleared
<1>10. /\ run' \in [1 .. MaxRuns -> RunRow] /\ run'[k + 1].status # "ABSENT"
       /\ \A n \in 1 .. MaxRuns : n # k + 1 => run'[n] = cleared[n]
  <2>1. cleared[k + 1] \in RunRow
    BY <1>3, <1>9
  <2>2. s \in Active \union Ended /\ s # "ABSENT"
    BY <1>6 DEF Active, Ended
  <2>3. [cleared[k + 1] EXCEPT !.status = s] \in RunRow
        /\ [cleared[k + 1] EXCEPT !.status = s].status = s
    BY <2>1, <2>2 DEF RunRow
  <2>4. run' = [cleared EXCEPT ![k + 1] = [cleared[k + 1] EXCEPT !.status = s]]
    BY <1>3, <1>6, <1>9
  <2> QED
    BY <1>3, <1>9, <2>2, <2>3, <2>4
<1>11. \A n \in Started : Onward(run[n], run'[n])
  BY <1>3, <1>5, <1>10 DEF Started
<1>12. Started' = 1 .. (k + 1)
  <2>1. ASSUME NEW n \in 1 .. MaxRuns PROVE run'[n].status # "ABSENT" <=> n <= k + 1
    <3>1. CASE n = k + 1
      BY <1>3, <1>10, <3>1
    <3>2. CASE n < k + 1
      <4>1. n \in Started
        BY <1>1, <1>2, <1>3, <3>2
      <4> QED
        BY <1>11, <3>2, <4>1 DEF Onward
    <3>3. CASE n > k + 1
      <4>1. n \notin Started /\ run[n].status = "ABSENT"
        BY <1>1, <1>2, <1>3, <3>3 DEF Started
      <4>2. n # Latest
        BY <1>2, <1>3, <3>3
      <4>3. cleared[n] = run[n]
        BY <4>2 DEF cleared
      <4> QED
        BY <1>3, <1>10, <3>3, <4>1, <4>3
    <3> QED
      BY <1>3, <3>1, <3>2, <3>3
  <2>2. Started' = {n \in 1 .. MaxRuns : run'[n].status # "ABSENT"}
    BY DEF Started
  <2>3. \A n : n \in 1 .. (k + 1) <=> n \in 1 .. MaxRuns /\ n <= k + 1
    BY <1>3, Basics
  <2> QED
    BY <2>1, <2>2, <2>3
<1>13. RunsInOrder'
  BY <1>3, <1>12, Basics DEF RunsInOrder
<1>14. messages' \subseteq Started'
  <2>1. messages \subseteq 1 .. k
    BY <1>1, <1>2 DEF AutoScoreInv
  <2> QED
    BY <1>3, <1>7, <1>12, <2>1
<1> QED
  BY <1>8, <1>10, <1>11, <1>13, <1>14, Keep DEF AutoScoreInv

LEMMA PollKeeps ==
    ASSUME AutoScoreInv, PollRun PROVE AutoScoreInv'
<1>1. Latest \in Started
  BY LatestIs DEF PollRun
<1>2. PICK k \in Started : k = Latest
  BY <1>1
<1>3. run \in [1 .. MaxRuns -> RunRow] /\ k \in 1 .. MaxRuns
  BY DEF AutoScoreInv, Started
<1>4. CASE /\ run' = [run EXCEPT ![k].status = "FAILED", ![k].idle = 0]
           /\ UNCHANGED <<messages, delivery, crashes>>
  <2>1. run[k] \in RunRow /\ "FAILED" \in Ended
    BY <1>3 DEF Ended
  <2>2. PICK r \in RunRow : /\ r = [run[k] EXCEPT !.status = "FAILED", !.idle = 0]
                            /\ Onward(run[k], r)
    BY <2>1, Given
  <2>3. run' = [run EXCEPT ![k] = r]
    BY <1>3, <1>4, <2>2
  <2> QED
    BY <1>4, <2>2, <2>3, KeepRow DEF AutoScoreInv
<1>5. CASE run' = run /\ messages' = messages \union {k} /\ UNCHANGED <<delivery, crashes>>
  BY <1>5, KeepRows DEF AutoScoreInv
<1> QED
  BY <1>2, <1>4, <1>5 DEF PollRun

LEMMA DeliverKeeps ==
    ASSUME AutoScoreInv, NEW d \in Deliveries, NEW n \in 1 .. MaxRuns, DeliverRun(d, n)
    PROVE  AutoScoreInv'
<1>1. /\ run' = run /\ messages' \subseteq messages /\ n \in Started
      /\ crashes' \in 0 .. CrashBudget
  BY Basics DEF DeliverRun, AutoScoreInv
<1> DEFINE e == [IdleDelivery EXCEPT !.pc = "deciding", !.run = n]
<1>2. e \in DeliveryState /\ e.pc = "deciding" /\ e.run = n
  <2>1. n \in 0 .. MaxRuns
    BY Basics
  <2> QED
    BY <2>1, IdleTyped DEF DeliveryState
<1>3. delivery' = [delivery EXCEPT ![d] = e]
  BY DEF DeliverRun
<1> HIDE DEF e
<1>4. /\ delivery' \in [Deliveries -> DeliveryState]
      /\ \A o \in Deliveries : delivery'[o] = IF o = d THEN e ELSE delivery[o]
  BY <1>2, <1>3 DEF AutoScoreInv
<1> QED
  BY <1>1, <1>2, <1>4, KeepRows DEF AutoScoreInv

\* A delivery that ends or fails, and no row but its own changed.
LEMMA EndTyped ==
    ASSUME AutoScoreInv, NEW d \in Deliveries, EndDelivery(d)
    PROVE  /\ delivery' \in [Deliveries -> DeliveryState]
           /\ \A o \in Deliveries : delivery'[o] = delivery[o] \/ delivery'[o].pc = "idle"
<1>1. delivery \in [Deliveries -> DeliveryState]
  BY DEF AutoScoreInv
<1> QED
  BY <1>1, IdleTyped DEF EndDelivery

LEMMA FailTyped ==
    ASSUME AutoScoreInv, NEW d \in Deliveries, FailDelivery(d), delivery[d].run \in Started
    PROVE  /\ delivery' \in [Deliveries -> DeliveryState]
           /\ \A o \in Deliveries :
                 \/ delivery'[o] = delivery[o]
                 \/ delivery'[o].run \in Started /\ delivery'[o].pc = "failing"
<1>1. delivery \in [Deliveries -> DeliveryState] /\ delivery[d] \in DeliveryState
  BY DEF AutoScoreInv
<1> DEFINE e == [delivery[d] EXCEPT !.pc = "failing"]
<1>2. e \in DeliveryState
  BY <1>1, DeliveryTyped
<1>3. e.pc = "failing" /\ e.run = delivery[d].run
  BY <1>1 DEF DeliveryState
<1>4. delivery' = [delivery EXCEPT ![d] = e]
  BY <1>1 DEF FailDelivery
<1> HIDE DEF e
<1> QED
  BY <1>1, <1>2, <1>3, <1>4

LEMMA ProceedKeeps ==
    ASSUME AutoScoreInv, NEW d \in Deliveries, delivery[d].pc # "idle",
           Proceed(d), UNCHANGED <<messages, crashes>>
    PROVE  AutoScoreInv'
<1> DEFINE n == delivery[d].run
           stage == Unfinished(run[n])
<1>1. /\ n \in Started /\ n \in 1 .. MaxRuns /\ run[n] \in RunRow
      /\ run \in [1 .. MaxRuns -> RunRow]
      /\ delivery \in [Deliveries -> DeliveryState] /\ delivery[d] \in DeliveryState
  BY DEF AutoScoreInv, Started
<1>2. ASSUME NEW s \in Ended, run' = [run EXCEPT ![n] = SetStatus(run[n], s)], EndDelivery(d)
      PROVE  AutoScoreInv'
  <2>1. /\ SetStatus(run[n], s) \in RunRow /\ Onward(run[n], SetStatus(run[n], s))
    <3>1. SetStatus(run[n], s) = [run[n] EXCEPT !.status = s, !.idle = 0]
      BY DEF SetStatus
    <3> QED
      BY <1>1, <3>1, Given
  <2>2. PICK r \in RunRow : r = SetStatus(run[n], s) /\ Onward(run[n], r)
    BY <2>1
  <2>3. run' = [run EXCEPT ![n] = r]
    BY <1>2, <2>2
  <2> QED
    BY <1>1, <1>2, <2>2, <2>3, EndTyped, KeepRow DEF AutoScoreInv
<1>3. ASSUME stage # "QUEUED", run' = [run EXCEPT ![n] = SetStatus(run[n], stage)],
             delivery' = [delivery EXCEPT ![d].pc = "calling", ![d].stage = stage, ![d].age = 0]
      PROVE  AutoScoreInv'
  <2>1. stage \in Stages /\ Covers(SetStatus(run[n], stage), stage, 0)
    BY <1>1, <1>3, NextCovers
  <2>2. PICK s \in Stages : s = stage
    BY <2>1
  <2>3. s \in Active \union Ended /\ s # "ABSENT"
    BY DEF Active, Stages
  <2>4. SetStatus(run[n], s) \in RunRow /\ Onward(run[n], SetStatus(run[n], s))
    BY <1>1, <2>2, <2>3, StatusTyped DEF Onward
  <2>5. PICK r \in RunRow : /\ r = SetStatus(run[n], s) /\ Onward(run[n], r)
                            /\ Covers(r, s, 0)
    BY <2>1, <2>2, <2>4
  <2>6. run' = [run EXCEPT ![n] = r]
    BY <1>3, <2>2, <2>5
  <2> DEFINE e == [delivery[d] EXCEPT !.pc = "calling", !.stage = s, !.age = 0]
  <2>7. e \in DeliveryState
    BY <1>1, DeliveryTyped
  <2>8. e.pc = "calling" /\ e.run = n /\ e.stage = s /\ e.age = 0
    BY <1>1 DEF DeliveryState
  <2>9. delivery' = [delivery EXCEPT ![d] = e]
    BY <1>1, <1>3, <2>2
  <2> HIDE DEF e
  <2>10. /\ delivery' \in [Deliveries -> DeliveryState]
         /\ \A o \in Deliveries : delivery'[o] = IF o = d THEN e ELSE delivery[o]
    BY <1>1, <2>7, <2>9
  <2>11. run'[n] = r
    BY <1>1, <2>6
  <2> HIDE DEF n
  <2> QED
    BY <1>1, <2>5, <2>6, <2>8, <2>10, <2>11, KeepRow DEF AutoScoreInv
<1>4. "BELOW_THRESHOLD" \in Ended /\ "READY" \in Ended /\ "NOT_READY" \in Ended
  BY DEF Ended
<1> QED
  BY <1>2, <1>3, <1>4 DEF Proceed

LEMMA DecideKeeps ==
    ASSUME AutoScoreInv, NEW d \in Deliveries, Decide(d) PROVE AutoScoreInv'
<1>1. delivery[d].pc # "idle" /\ delivery[d].run \in Started /\ UNCHANGED <<messages, crashes>>
  BY DEF Decide, AutoScoreInv
<1>2. CASE EndDelivery(d) /\ UNCHANGED run
  BY <1>1, <1>2, EndTyped, KeepRows DEF AutoScoreInv
<1>3. CASE FailDelivery(d) /\ UNCHANGED run
  BY <1>1, <1>3, FailTyped, KeepRows DEF AutoScoreInv
<1>4. CASE Proceed(d)
  BY <1>1, <1>4, ProceedKeeps
<1> QED
  BY <1>2, <1>3, <1>4 DEF Decide

LEMMA StoreKeeps ==
    ASSUME AutoScoreInv, NEW d \in Deliveries, NEW score \in Scores, StoreStage(d, score)
    PROVE  AutoScoreInv'
<1> DEFINE n == delivery[d].run
<1>1. /\ n \in Started /\ n \in 1 .. MaxRuns /\ run[n] \in RunRow
      /\ run \in [1 .. MaxRuns -> RunRow] /\ delivery[d].stage \in Stages
      /\ delivery \in [Deliveries -> DeliveryState] /\ delivery[d] \in DeliveryState
      /\ run[n].status # "ABSENT"
  BY DEF AutoScoreInv, Started, StoreStage, Covers
<1> DEFINE r == CASE delivery[d].stage = "SCORING" -> [run[n] EXCEPT !.resumeScore = score, !.idle = 0]
                  [] delivery[d].stage = "TAILORING" -> [run[n] EXCEPT !.tailored = TRUE, !.idle = 0]
                  [] delivery[d].stage = "SCORING_TAILORED" ->
                       [run[n] EXCEPT !.tailoredScore = score, !.idle = 0]
<1>2. run' = [run EXCEPT ![n] = r]
  BY <1>1 DEF StoreStage
<1>3. r \in RunRow /\ Onward(run[n], r)
  <2>1. /\ 0 \in 0 .. Ceiling(Lease, QueuedLease) /\ score \in Scores \union {NoScore}
        /\ score # NoScore /\ run[n].idle \in Nat
    BY <1>1, Basics DEF RunRow
  <2>2. ASSUME NEW x \in RunRow, x.status # "ABSENT", x.idle \in Nat
        PROVE  /\ [x EXCEPT !.resumeScore = score, !.idle = 0] \in RunRow
               /\ Onward(x, [x EXCEPT !.resumeScore = score, !.idle = 0])
               /\ [x EXCEPT !.tailored = TRUE, !.idle = 0] \in RunRow
               /\ Onward(x, [x EXCEPT !.tailored = TRUE, !.idle = 0])
               /\ [x EXCEPT !.tailoredScore = score, !.idle = 0] \in RunRow
               /\ Onward(x, [x EXCEPT !.tailoredScore = score, !.idle = 0])
    <3>1. x.status \in Active \union Ended \union {"ABSENT"} /\ x.age \in 0 .. StaleAfter
      BY DEF RunRow
    <3>2. /\ [x EXCEPT !.resumeScore = score, !.idle = 0] \in RunRow
          /\ [x EXCEPT !.tailored = TRUE, !.idle = 0] \in RunRow
          /\ [x EXCEPT !.tailoredScore = score, !.idle = 0] \in RunRow
      BY <2>1 DEF RunRow
    <3>3. Onward(x, [x EXCEPT !.resumeScore = score, !.idle = 0])
      BY <2>1, <2>2 DEF RunRow, Onward
    <3>4. Onward(x, [x EXCEPT !.tailored = TRUE, !.idle = 0])
      BY <2>1, <2>2 DEF RunRow, Onward
    <3>5. Onward(x, [x EXCEPT !.tailoredScore = score, !.idle = 0])
      BY <2>1, <2>2 DEF RunRow, Onward
    <3> QED
      BY <3>2, <3>3, <3>4, <3>5
  <2> QED
    BY <1>1, <2>1, <2>2 DEF Stages
<1> DEFINE e == [delivery[d] EXCEPT !.pc = "stored"]
<1>4. e \in DeliveryState
  BY <1>1, DeliveryTyped
<1>5. e.pc = "stored" /\ e.run = n
  BY <1>1 DEF DeliveryState
<1>6. delivery' = [delivery EXCEPT ![d] = e]
  BY <1>1 DEF StoreStage
<1> HIDE DEF e, r
<1>7. /\ delivery' \in [Deliveries -> DeliveryState]
      /\ \A o \in Deliveries : delivery'[o] = IF o = d THEN e ELSE delivery[o]
  BY <1>1, <1>4, <1>6
<1>8. UNCHANGED <<messages, crashes>>
  BY DEF StoreStage
<1> HIDE DEF n
<1> QED
  BY <1>1, <1>2, <1>3, <1>5, <1>7, <1>8, KeepRow DEF AutoScoreInv

LEMMA FailRunKeeps ==
    ASSUME AutoScoreInv, NEW d \in Deliveries, FailRun(d) PROVE AutoScoreInv'
<1> DEFINE n == delivery[d].run
<1>1. /\ n \in Started /\ n \in 1 .. MaxRuns /\ run[n] \in RunRow
      /\ run \in [1 .. MaxRuns -> RunRow] /\ run[n].idle \in Nat
  BY Basics DEF AutoScoreInv, Started, FailRun, RunRow
<1>2. PICK i \in 0 .. Ceiling(Lease, QueuedLease) :
         /\ i = IF run[n].status = "FAILED" THEN run[n].idle ELSE 0
         /\ i <= run[n].idle
  BY <1>1, Basics DEF RunRow
<1> DEFINE r == [run[n] EXCEPT !.status = "FAILED", !.idle = i]
<1>3. run' = [run EXCEPT ![n] = r]
  BY <1>1, <1>2 DEF FailRun
<1>4. r \in RunRow /\ r.status = "FAILED" /\ r.resumeScore = run[n].resumeScore
      /\ r.tailored = run[n].tailored /\ r.tailoredScore = run[n].tailoredScore
  BY <1>1 DEF RunRow, Ended
<1> HIDE DEF r
<1>5. Onward(run[n], r)
  BY <1>4 DEF Onward, Ended
<1> HIDE DEF n
<1> QED
  BY <1>1, <1>3, <1>4, <1>5, EndTyped, KeepRow DEF AutoScoreInv, FailRun

LEMMA TickKeeps ==
    ASSUME AutoScoreInv, AutoScoreTick PROVE AutoScoreInv'
<1>1. run \in [1 .. MaxRuns -> RunRow] /\ delivery \in [Deliveries -> DeliveryState]
  BY DEF AutoScoreInv
<1>2. UNCHANGED <<messages, crashes>>
  BY DEF AutoScoreTick
<1>3. ASSUME NEW n \in 1 .. MaxRuns
      PROVE  /\ run'[n] \in RunRow
             /\ run'[n].status = run[n].status
             /\ run'[n].resumeScore = run[n].resumeScore
             /\ run'[n].tailored = run[n].tailored
             /\ run'[n].tailoredScore = run[n].tailoredScore
             /\ run'[n].idle \in Nat /\ run'[n].idle <= run[n].idle + 1
             /\ run[n].status \notin Active => run'[n] = run[n]
  <2>1. run[n] \in RunRow /\ run[n].idle \in Nat /\ run[n].age \in Nat
    BY <1>1, Basics DEF RunRow
  <2>2. PICK a \in 0 .. StaleAfter, i \in 0 .. Ceiling(Lease, QueuedLease) :
           /\ a = IF run[n].age < StaleAfter THEN run[n].age + 1 ELSE run[n].age
           /\ i = IF run[n].idle < Ceiling(Lease, QueuedLease) THEN run[n].idle + 1 ELSE run[n].idle
    BY <2>1, Basics DEF RunRow
  <2>3. i \in Nat /\ i <= run[n].idle + 1
    BY <2>1, <2>2, Basics
  <2>4. run'[n] = IF run[n].status \notin Active THEN run[n]
                  ELSE [run[n] EXCEPT !.age = a, !.idle = i]
    BY <2>1, <2>2 DEF AutoScoreTick, RunRow
  <2>5. [run[n] EXCEPT !.age = a, !.idle = i] \in RunRow
    BY <2>1 DEF RunRow
  <2> QED
    BY <2>1, <2>3, <2>4, <2>5 DEF RunRow
<1>4. run' \in [1 .. MaxRuns -> RunRow]
  BY <1>3 DEF AutoScoreTick
<1>5. Started' = Started
  BY <1>3 DEF Started
<1>6. RunsInOrder'
  BY <1>5 DEF AutoScoreInv, RunsInOrder
<1>7. ASSUME NEW d \in Deliveries
      PROVE  /\ delivery'[d] \in DeliveryState
             /\ delivery'[d].pc = delivery[d].pc
             /\ delivery'[d].run = delivery[d].run
             /\ delivery'[d].stage = delivery[d].stage
             /\ delivery[d].pc = "calling" => delivery'[d].age = delivery[d].age + 1
  <2>1. delivery[d] \in DeliveryState /\ delivery[d].age \in Nat
    BY <1>1, Basics DEF DeliveryState
  <2>2. CASE delivery[d].pc = "calling"
    <3>1. delivery[d].age + 1 \in 0 .. CallDeadline
      <4>1. delivery[d].age < CallDeadline
        BY <2>2 DEF AutoScoreTick
      <4>2. CallDeadline \in Nat
        BY Basics
      <4> QED
        BY <2>1, <4>1, <4>2
    <3>2. delivery'[d] = [delivery[d] EXCEPT !.age = delivery[d].age + 1]
      BY <2>2 DEF AutoScoreTick
    <3> QED
      BY <2>1, <3>1, <3>2 DEF DeliveryState
  <2>3. CASE delivery[d].pc # "calling"
    BY <2>1, <2>3 DEF AutoScoreTick
  <2> QED
    BY <2>2, <2>3
<1>8. delivery' \in [Deliveries -> DeliveryState]
  BY <1>7 DEF AutoScoreTick
<1>9. ASSUME NEW d \in Deliveries, delivery'[d].pc = "calling"
      PROVE  Covers(run'[delivery'[d].run], delivery'[d].stage, delivery'[d].age)
  <2> DEFINE n == delivery[d].run
  <2>1. /\ n \in Started /\ n \in 1 .. MaxRuns /\ run[n] \in RunRow
        /\ Covers(run[n], delivery[d].stage, delivery[d].age)
    BY <1>1, <1>7, <1>9 DEF AutoScoreInv, Started
  <2>2. run[n].idle \in Nat /\ delivery[d].age \in Nat
    BY <1>1, <2>1, Basics DEF RunRow, DeliveryState
  <2>3. PICK s \in Stages : s = delivery[d].stage
    BY <2>1 DEF Covers
  <2>4. Result(run[n], s) => Result(run'[n], s)
    BY <1>3, <2>1 DEF Result, Stages
  <2>5. run[n].idle <= delivery[d].age => run'[n].idle <= delivery[d].age + 1
    BY <1>3, <2>1, <2>2
  <2>6. Covers(run'[n], s, delivery[d].age + 1)
    BY <1>3, <2>1, <2>3, <2>4, <2>5 DEF Covers
  <2> QED
    BY <1>7, <1>9, <2>3, <2>6
<1>10. messages' \subseteq Started'
  BY <1>2, <1>5 DEF AutoScoreInv
<1> QED
  BY <1>2, <1>4, <1>5, <1>6, <1>7, <1>8, <1>9, <1>10 DEF AutoScoreInv

LEMMA InvInit == AutoScoreInit => AutoScoreInv
<1> SUFFICES ASSUME AutoScoreInit PROVE AutoScoreInv
  OBVIOUS
<1>1. \A n \in 1 .. MaxRuns : run[n].status = "ABSENT"
  BY DEF AutoScoreInit
<1>2. run \in [1 .. MaxRuns -> RunRow]
  <2>1. [status |-> "ABSENT", age |-> 0, idle |-> 0, resumeScore |-> NoScore,
         tailored |-> FALSE, tailoredScore |-> NoScore] \in RunRow
    BY Basics DEF RunRow
  <2> QED
    BY <2>1 DEF AutoScoreInit
<1>3. Started = {}
  BY <1>1 DEF Started
<1>4. RunsInOrder
  <2>1. 0 \in 0 .. MaxRuns /\ 1 .. 0 = {}
    BY Basics
  <2> QED
    BY <1>3, <2>1 DEF RunsInOrder
<1>5. delivery \in [Deliveries -> DeliveryState] /\ \A d \in Deliveries : delivery[d].pc = "idle"
  BY IdleTyped DEF AutoScoreInit
<1>6. crashes \in 0 .. CrashBudget
  BY Basics DEF AutoScoreInit
<1> QED
  BY <1>2, <1>3, <1>4, <1>5, <1>6 DEF AutoScoreInit, AutoScoreInv

LEMMA InvStep == AutoScoreInv /\ [AutoScoreNext]_autoScoreVars => AutoScoreInv'
<1> SUFFICES ASSUME AutoScoreInv, [AutoScoreNext]_autoScoreVars PROVE AutoScoreInv'
  OBVIOUS
<1>1. CASE StartRun
  BY <1>1, StartKeeps
<1>2. CASE PollRun
  BY <1>2, PollKeeps
<1>3. CASE AutoScoreTick
  BY <1>3, TickKeeps
<1>4. CASE \E d \in Deliveries, n \in 1 .. MaxRuns : DeliverRun(d, n)
  BY <1>4, DeliverKeeps
<1>5. ASSUME NEW d \in Deliveries, Decide(d) PROVE AutoScoreInv'
  BY <1>5, DecideKeeps
<1>6. ASSUME NEW d \in Deliveries, NextStage(d) PROVE AutoScoreInv'
  BY <1>6, ProceedKeeps DEF NextStage
<1>7. ASSUME NEW d \in Deliveries, CallFails(d) PROVE AutoScoreInv'
  <2>1. delivery[d].run \in Started
    BY <1>7 DEF CallFails, AutoScoreInv
  <2> QED
    BY <1>7, <2>1, FailTyped, KeepRows DEF CallFails, AutoScoreInv
<1>8. ASSUME NEW d \in Deliveries, FailRun(d) PROVE AutoScoreInv'
  BY <1>8, FailRunKeeps
<1>9. ASSUME NEW d \in Deliveries, DeliveryDies(d) PROVE AutoScoreInv'
  <2>1. messages' \subseteq Started /\ crashes' \in 0 .. CrashBudget
    BY <1>9, Basics DEF DeliveryDies, AutoScoreInv
  <2> QED
    BY <1>9, <2>1, EndTyped, KeepRows DEF DeliveryDies
<1>10. CASE \E d \in Deliveries, s \in Scores : StoreStage(d, s)
  BY <1>10, StoreKeeps
<1>11. CASE UNCHANGED autoScoreVars
  BY <1>11 DEF autoScoreVars, AutoScoreInv, RunsInOrder, Started
<1> QED
  BY <1>1, <1>2, <1>3, <1>4, <1>5, <1>6, <1>7, <1>8, <1>9, <1>10, <1>11 DEF AutoScoreNext

LEMMA InvHolds == AutoScoreSpec => []AutoScoreInv
  BY InvInit, InvStep, PTL DEF AutoScoreSpec

-----------------------------------------------------------------------------
(* Theorems.                                                               *)

\* Rows, messages and deliveries keep to their types; whoever works, works on
\* a run that was started.
THEOREM TypeCorrect == AutoScoreSpec => []AutoScoreTypeOK
<1>1. AutoScoreInv => AutoScoreTypeOK
  BY DEF AutoScoreInv, AutoScoreTypeOK, Started
<1> QED
  BY <1>1, InvHolds, PTL

\* No delivery takes a run up into a stage whose call another one is making.
LEMMA ClaimExclusive ==
    ASSUME AutoScoreInv, NEW d \in Deliveries, NEW e \in Deliveries, NEW stage \in Stages,
           Decide(d), delivery'[d].pc = "calling", delivery'[d].stage = stage
    PROVE  ~Calling(e, delivery[d].run, stage)
<1> DEFINE n == delivery[d].run
           r == run[n]
<1>1. /\ n \in Started /\ n \in 1 .. MaxRuns /\ r \in RunRow
      /\ delivery \in [Deliveries -> DeliveryState] /\ delivery[d] \in DeliveryState
  BY DEF AutoScoreInv, Started, Decide
<1>2. ~EndDelivery(d) /\ ~FailDelivery(d)
  BY <1>1, IdleTyped DEF EndDelivery, FailDelivery, DeliveryState
<1>3. /\ r.status \in Active /\ ~(StartedButUnfinished(r) /\ ~LeaseExpired(n))
      /\ Unfinished(r) = stage
  <2>1. r.status \in Active /\ ~(StartedButUnfinished(r) /\ ~LeaseExpired(n)) /\ Proceed(d)
    BY <1>2 DEF Decide
  <2>2. Unfinished(r) = delivery'[d].stage
    BY <1>1, <1>2, <2>1 DEF Proceed, DeliveryState
  <2> QED
    BY <2>1, <2>2
<1>4. SUFFICES ASSUME Calling(e, n, stage) PROVE FALSE
  OBVIOUS
<1>5. Covers(r, stage, delivery[e].age) /\ delivery[e].age \in 0 .. CallDeadline
  BY <1>1, <1>4 DEF Calling, AutoScoreInv, DeliveryState
<1>6. ~Result(r, stage)
  BY <1>1, <1>3 DEF Unfinished, Result, Stages, RunRow
<1>7. r.status = stage /\ r.idle <= delivery[e].age
  BY <1>3, <1>5, <1>6 DEF Covers, Active, Ended, Stages
<1>8. StartedButUnfinished(r)
  BY <1>6, <1>7 DEF StartedButUnfinished, Result, Stages
<1>9. r.idle >= Lease
  BY <1>3, <1>7, <1>8 DEF LeaseExpired, Stages
<1>10. r.idle \in Nat
  BY <1>1, Basics DEF RunRow
<1> QED
  BY <1>5, <1>7, <1>9, <1>10, Basics, LeaseAboveDeadline

\* Duplicates, restarts and messages sent again wait for the lease, whatever
\* the deadline of a call as long as the lease is longer.
THEOREM ClaimsAreExclusive == AutoScoreSpec => ClaimsExclusive
<1> DEFINE Step == \A d, e \in Deliveries, stage \in Stages :
              LET n == delivery[d].run
              IN  d # e /\ delivery[d].pc = "deciding" /\ delivery'[d].pc = "calling"
                    /\ delivery'[d].stage = stage => ~Calling(e, n, stage)
<1>1. AutoScoreInv /\ [AutoScoreNext]_autoScoreVars => [Step]_autoScoreVars
  <2> SUFFICES ASSUME AutoScoreInv, AutoScoreNext,
                      NEW d \in Deliveries, NEW e \in Deliveries, NEW stage \in Stages,
                      delivery[d].pc = "deciding", delivery'[d].pc = "calling",
                      delivery'[d].stage = stage
               PROVE  ~Calling(e, delivery[d].run, stage)
    OBVIOUS
  <2>1. CASE Decide(d)
    BY <2>1, ClaimExclusive
  <2>2. delivery \in [Deliveries -> DeliveryState]
    BY DEF AutoScoreInv
  <2>3. delivery' # delivery
    OBVIOUS
  <2>4. ~StartRun /\ ~PollRun
    BY <2>3 DEF StartRun, PollRun
  <2>5. ~AutoScoreTick
    BY <2>2 DEF AutoScoreTick, DeliveryState
  <2>6. ASSUME NEW o \in Deliveries, NEW n \in 1 .. MaxRuns, DeliverRun(o, n) PROVE FALSE
    <3>1. delivery' = [delivery EXCEPT ![o] = [IdleDelivery EXCEPT !.pc = "deciding", !.run = n]]
      BY <2>6 DEF DeliverRun
    <3>2. [IdleDelivery EXCEPT !.pc = "deciding", !.run = n].pc = "deciding"
      BY IdleTyped DEF DeliveryState
    <3> QED
      BY <2>2, <3>1, <3>2
  <2>7. ASSUME NEW o \in Deliveries, o # d, Decide(o) \/ NextStage(o) PROVE FALSE
    <3>1. delivery'[d] = delivery[d]
      BY <2>2, <2>7 DEF Decide, NextStage, Proceed, EndDelivery, FailDelivery
    <3> QED
      BY <3>1
  <2>8. ~NextStage(d)
    BY DEF NextStage
  <2>9. ASSUME NEW o \in Deliveries, EndDelivery(o) \/ FailDelivery(o) PROVE FALSE
    <3>1. CASE o = d
      BY <2>2, <2>9, <3>1, IdleTyped DEF EndDelivery, FailDelivery, DeliveryState
    <3>2. CASE o # d
      BY <2>2, <2>9, <3>2 DEF EndDelivery, FailDelivery
    <3> QED
      BY <3>1, <3>2
  <2>10. ASSUME NEW o \in Deliveries, CallFails(o) \/ FailRun(o) \/ DeliveryDies(o) PROVE FALSE
    BY <2>9, <2>10 DEF CallFails, FailRun, DeliveryDies
  <2>11. ASSUME NEW o \in Deliveries, NEW s \in Scores, StoreStage(o, s) PROVE FALSE
    BY <2>2, <2>11 DEF StoreStage, DeliveryState
  <2> QED
    BY <2>1, <2>4, <2>5, <2>6, <2>7, <2>8, <2>10, <2>11 DEF AutoScoreNext
<1> QED
  BY <1>1, InvHolds, PTL DEF AutoScoreSpec, ClaimsExclusive
=============================================================================
