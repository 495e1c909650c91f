----------------------------- MODULE AutoScore ------------------------------
(***************************************************************************)
(* Auto score: a run scores a resume for a job, tailors it, and scores it  *)
(* again, one LLM call per stage.  The worker commits before and after     *)
(* every call and holds no lock across it; messages may be delivered       *)
(* twice, and the page that polls a run sends another one when the run     *)
(* looks abandoned.  A lease, the age of the row's last status, tells the  *)
(* stage somebody is working on from the stage somebody died in.           *)
(***************************************************************************)
EXTENDS Integers, FiniteSets

CONSTANTS
    MaxRuns,          \* runs one behaviour may start for this user and job
    Deliveries,       \* concurrent invocations of the worker
    Scores,           \* what the LLM may answer, 0 .. 100
    CallDeadline,     \* ticks an LLM call may last (QUICK_SCORE_/TAILOR_DEADLINE)
    Lease,            \* _LEASES of a stage: its deadline plus 30 seconds
    QueuedLease,      \* _LEASES[QUEUED]
    StaleAfter,       \* _STALE_AFTER
    CrashBudget       \* crashes and duplicate deliveries of one behaviour

ASSUME AutoScoreAssumption ==
    /\ {MaxRuns, CallDeadline, Lease, QueuedLease, StaleAfter, CrashBudget} \subseteq Nat
    /\ Scores \subseteq 0 .. 100

\* The lease is the call's deadline plus room to store its result.
ASSUME LeaseAboveDeadline == CallDeadline < Lease

TailorThreshold == 75
ReadyThreshold  == 85

VARIABLES
    run,        \* run[n]: the n-th run's row
    messages,   \* runs waiting in the queue
    delivery,   \* delivery[d]: what an invocation is doing
    crashes     \* faults that may still happen

autoScoreVars == <<run, messages, delivery, crashes>>

Stages == {"SCORING", "TAILORING", "SCORING_TAILORED"}
Active == {"QUEUED"} \union Stages
Ended  == {"BELOW_THRESHOLD", "READY", "NOT_READY", "FAILED"}

NoScore == -1

Ceiling(a, b) == IF a < b THEN b ELSE a

RunRow ==
    [status        : Active \union Ended \union {"ABSENT"},
     age           : 0 .. StaleAfter,                     \* since created_at
     idle          : 0 .. Ceiling(Lease, QueuedLease),    \* since updated_at
     resumeScore   : Scores \union {NoScore},
     tailored      : BOOLEAN,
     tailoredScore : Scores \union {NoScore}]

\* "deciding": about to lock the row; "calling": in a stage's LLM call;
\* "stored": its result is committed, the next stage not begun.
DeliveryState ==
    [pc : {"idle", "deciding", "calling", "stored", "failing"},
     run : 0 .. MaxRuns, stage : Stages \union {"QUEUED"}, age : 0 .. CallDeadline]

IdleDelivery == [pc |-> "idle", run |-> 0, stage |-> "QUEUED", age |-> 0]

\* Rows, messages and deliveries keep to their types; a delivery always has
\* a run to work on.
AutoScoreTypeOK ==
    /\ run \in [1 .. MaxRuns -> RunRow]
    /\ messages \subseteq 1 .. MaxRuns
    /\ delivery \in [Deliveries -> DeliveryState]
    /\ crashes \in 0 .. CrashBudget
    /\ \A d \in Deliveries : delivery[d].pc # "idle" => run[delivery[d].run].status # "ABSENT"

AutoScoreInit ==
    /\ run = [n \in 1 .. MaxRuns |->
                [status |-> "ABSENT", age |-> 0, idle |-> 0, resumeScore |-> NoScore,
                 tailored |-> FALSE, tailoredScore |-> NoScore]]
    /\ messages = {}
    /\ delivery = [d \in Deliveries |-> IdleDelivery]
    /\ crashes = CrashBudget

-----------------------------------------------------------------------------
Started == {n \in 1 .. MaxRuns : run[n].status # "ABSENT"}
Latest  == Cardinality(Started)

Stale(n) == run[n].age = StaleAfter

LeaseExpired(n) ==
    run[n].idle >= (IF run[n].status = "QUEUED" THEN QueuedLease ELSE Lease)

\* The stage whose result the row has not got yet.
Unfinished(r) ==
    CASE r.resumeScore = NoScore -> "SCORING"
      [] r.resumeScore # NoScore /\ ~r.tailored -> "TAILORING"
      [] r.resumeScore # NoScore /\ r.tailored /\ r.tailoredScore = NoScore -> "SCORING_TAILORED"
      [] OTHER -> "QUEUED"

StartedButUnfinished(r) ==
    \/ r.status = "SCORING" /\ r.resumeScore = NoScore
    \/ r.status = "TAILORING" /\ ~r.tailored
    \/ r.status = "SCORING_TAILORED" /\ r.tailoredScore = NoScore

\* Mutant: updated_at is left to the column's onupdate, which a status that
\* does not change does not trigger.
SetStatusOnUpdate(r, status) ==
    [r EXCEPT !.status = status, !.idle = IF r.status = status THEN @ ELSE 0]

SetStatus(r, status) == [r EXCEPT !.status = status, !.idle = 0]

\* A user starts a run; the publish may fail, which ends it.  A run past its
\* time is failed on the way.
StartRun ==
    LET cleared == [n \in 1 .. MaxRuns |->
                      IF n = Latest /\ run[n].status \in Active /\ Stale(n)
                      THEN [run[n] EXCEPT !.status = "FAILED", !.idle = 0] ELSE run[n]]
    IN  /\ Latest < MaxRuns
        /\ Latest > 0 => cleared[Latest].status \in Ended
        /\ \/ /\ run' = [cleared EXCEPT ![Latest + 1].status = "QUEUED"]
              /\ messages' = messages \union {Latest + 1}
           \/ /\ run' = [cleared EXCEPT ![Latest + 1].status = "FAILED"]
              /\ UNCHANGED messages
        /\ UNCHANGED <<delivery, crashes>>

\* Mutant: a stale run is sent to the worker again like an abandoned one.
PollRunAgain ==
    /\ Latest > 0 /\ run[Latest].status \in Active
    /\ LeaseExpired(Latest)
    /\ messages' = messages \union {Latest}
    /\ UNCHANGED <<run, delivery, crashes>>

\* The page polls: a stale run is given up, an abandoned one sent again.
PollRun ==
    /\ Latest > 0 /\ run[Latest].status \in Active
    /\ IF Stale(Latest)
       THEN /\ run' = [run EXCEPT ![Latest].status = "FAILED", ![Latest].idle = 0]
            /\ UNCHANGED messages
       ELSE /\ LeaseExpired(Latest)
            /\ messages' = messages \union {Latest}
            /\ UNCHANGED run
    /\ UNCHANGED <<delivery, crashes>>

DeliverRun(d, n) ==
    /\ delivery[d].pc = "idle"
    /\ n \in messages
    /\ \/ messages' = messages \ {n} /\ UNCHANGED crashes
       \/ crashes > 0 /\ crashes' = crashes - 1 /\ UNCHANGED messages
    /\ delivery' = [delivery EXCEPT ![d] = [IdleDelivery EXCEPT !.pc = "deciding", !.run = n]]
    /\ UNCHANGED run

EndDelivery(d) == delivery' = [delivery EXCEPT ![d] = IdleDelivery]

FailDelivery(d) == delivery' = [delivery EXCEPT ![d].pc = "failing"]

\* What the row says is to be done next: end the run, or commit the next
\* stage's status and make its call.
Proceed(d) ==
    LET n     == delivery[d].run
        r     == run[n]
        stage == Unfinished(r)
        best  == Ceiling(r.resumeScore, r.tailoredScore)
    IN  IF r.resumeScore # NoScore /\ r.resumeScore < TailorThreshold
        THEN run' = [run EXCEPT ![n] = SetStatus(r, "BELOW_THRESHOLD")] /\ EndDelivery(d)
        ELSE IF stage = "QUEUED"
        THEN /\ run' = [run EXCEPT ![n] =
                   SetStatus(r, IF best >= ReadyThreshold THEN "READY" ELSE "NOT_READY")]
             /\ EndDelivery(d)
        ELSE /\ run' = [run EXCEPT ![n] = SetStatus(r, stage)]
             /\ delivery' = [delivery EXCEPT ![d].pc = "calling", ![d].stage = stage, ![d].age = 0]

\* run_auto_score, up to the first call: the row is locked while deciding.
Decide(d) ==
    LET n == delivery[d].run
    IN  /\ delivery[d].pc = "deciding"
        /\ CASE run[n].status \notin Active -> EndDelivery(d) /\ UNCHANGED run
             [] run[n].status \in Active /\ Stale(n) -> FailDelivery(d) /\ UNCHANGED run
             [] /\ run[n].status \in Active /\ ~Stale(n)
                /\ StartedButUnfinished(run[n]) /\ ~LeaseExpired(n) ->
                  EndDelivery(d) /\ UNCHANGED run
             [] OTHER -> Proceed(d)
        /\ UNCHANGED <<messages, crashes>>

\* The call answers: its result alone is written, which renews updated_at.
StoreStage(d, score) ==
    LET n == delivery[d].run
    IN  /\ delivery[d].pc = "calling"
        /\ run' = [run EXCEPT ![n] =
              CASE delivery[d].stage = "SCORING" -> [@ EXCEPT !.resumeScore = score, !.idle = 0]
                [] delivery[d].stage = "TAILORING" -> [@ EXCEPT !.tailored = TRUE, !.idle = 0]
                [] delivery[d].stage = "SCORING_TAILORED" ->
                     [@ EXCEPT !.tailoredScore = score, !.idle = 0]]
        /\ delivery' = [delivery EXCEPT ![d].pc = "stored"]
        /\ UNCHANGED <<messages, crashes>>

\* The next stage is read off the row afresh, with no lock.
NextStage(d) ==
    /\ delivery[d].pc = "stored"
    /\ Proceed(d)
    /\ UNCHANGED <<messages, crashes>>

CallFails(d) ==
    /\ delivery[d].pc = "calling"
    /\ FailDelivery(d)
    /\ UNCHANGED <<run, messages, crashes>>

\* _fail: a transaction of its own, whatever the run has become meanwhile.
FailRun(d) ==
    LET n == delivery[d].run
    IN  /\ delivery[d].pc = "failing"
        /\ run' = [run EXCEPT ![n].status = "FAILED",
                              ![n].idle = IF run[n].status = "FAILED" THEN @ ELSE 0]
        /\ EndDelivery(d)
        /\ UNCHANGED <<messages, crashes>>

\* The worker dies; its message was not acknowledged.
DeliveryDies(d) ==
    /\ delivery[d].pc # "idle"
    /\ crashes > 0 /\ crashes' = crashes - 1
    /\ messages' = messages \union {delivery[d].run}
    /\ EndDelivery(d)
    /\ UNCHANGED run

\* A call is over by its deadline.
AutoScoreTick ==
    /\ \A d \in Deliveries : delivery[d].pc = "calling" => delivery[d].age < CallDeadline
    /\ run' = [n \in 1 .. MaxRuns |->
          IF run[n].status \notin Active THEN run[n]
          ELSE [run[n] EXCEPT !.age = IF @ < StaleAfter THEN @ + 1 ELSE @,
                              !.idle = IF @ < Ceiling(Lease, QueuedLease) THEN @ + 1 ELSE @]]
    /\ delivery' = [d \in Deliveries |->
          IF delivery[d].pc = "calling" THEN [delivery[d] EXCEPT !.age = @ + 1] ELSE delivery[d]]
    /\ UNCHANGED <<messages, crashes>>

AutoScoreNext ==
    \/ StartRun \/ PollRun \/ AutoScoreTick
    \/ \E d \in Deliveries, n \in 1 .. MaxRuns : DeliverRun(d, n)
    \/ \E d \in Deliveries : Decide(d) \/ NextStage(d) \/ CallFails(d) \/ FailRun(d) \/ DeliveryDies(d)
    \/ \E d \in Deliveries, s \in Scores : StoreStage(d, s)

AutoScoreSpec == AutoScoreInit /\ [][AutoScoreNext]_autoScoreVars

DeliveryStep(d) ==
    \/ Decide(d) \/ NextStage(d) \/ CallFails(d) \/ FailRun(d)
    \/ \E s \in Scores : StoreStage(d, s)

\* A worker that lives goes on, time passes, and the page polls.
AutoScoreFairness ==
    /\ \A d \in Deliveries : WF_autoScoreVars(DeliveryStep(d))
    /\ SF_autoScoreVars(AutoScoreTick)
    /\ WF_autoScoreVars(PollRun)

-----------------------------------------------------------------------------
(* Properties.                                                             *)

Calling(d, n, stage) ==
    delivery[d].pc = "calling" /\ delivery[d].run = n /\ delivery[d].stage = stage

\* A delivery that takes a run up never begins a stage while another one is
\* still in that stage's call: duplicates and restarts wait out the lease.
ClaimsExclusive ==
    [][\A d, e \in Deliveries, stage \in Stages :
          LET n == delivery[d].run
          IN  d # e /\ delivery[d].pc = "deciding" /\ delivery'[d].pc = "calling"
                /\ delivery'[d].stage = stage => ~Calling(e, n, stage)]_autoScoreVars

\* A run the page keeps polling ends, or makes way for a newer one: whatever
\* messages and workers are lost, and although a worker that was given up may
\* come back and set the run going again.
RunEnds ==
    \A n \in 1 .. MaxRuns : run[n].status \in Active ~> run[n].status \in Ended \/ Latest > n
=============================================================================
