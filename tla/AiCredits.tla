----------------------------- MODULE AiCredits ------------------------------
(***************************************************************************)
(* What a user's AI requests run on, and what they cost.  A subscription   *)
(* counts distinct jobs and other requests per billing period, the free    *)
(* trial counts distinct jobs and restructures for good.  A request spends *)
(* before its LLM call, in the transaction that commits after it, so the   *)
(* row it updated stays locked through the call and a failed call rolls    *)
(* the charge back.  What it decides on was loaded when the request began. *)
(***************************************************************************)
EXTENDS Integers, FiniteSets

CONSTANTS
    CreditJobs,        \* jobs AI features are used for
    AiRequests,        \* concurrent requests
    Periods,           \* ends of billing periods, in order of time
    FreeLimit,         \* free_evaluation_limit, free_restructure_limit
    PlanLimit          \* subscription_evaluation_limit, ..._monthly_request_limit

ASSUME CreditsAssumption ==
    /\ IsFiniteSet(CreditJobs) /\ IsFiniteSet(AiRequests)
    /\ Periods \subseteq Nat \ {0}
    /\ FreeLimit \in Nat /\ PlanLimit \in Nat \ {0}

\* Requests about no job: structuring a resume, and the rest (a review).
Other == {"structure", "review"}

ASSUME JobsAreNotOther == CreditJobs \intersect Other = {}

NoPeriod == 0
AnyPeriod == Periods \union {NoPeriod}

VARIABLES
    plan,       \* the mirrored subscription: active, and its period's end
    counter,    \* counter[c]: what is used of it, and in which period
    freeJobs,   \* FreeTrialJob rows
    planJobs,   \* SubscriptionEvaluationJob rows: a job and a period
    aiRequest,  \* aiRequest[q]: what a request is doing
    countsBegun,      \* history: how often the count of a period's jobs was begun
    stale       \* history: a charge was made in another period than the row's,
                \* or the row went back to an older one

creditsVars == <<plan, counter, countsBegun, freeJobs, planJobs, aiRequest, stale>>

Plan == [active : BOOLEAN, period : AnyPeriod]

\* "evaluations" and "requests" of the plan are reset every period.
Counters == {"evaluations", "requests", "free evaluations", "free restructures"}
PerPeriod == {"evaluations", "requests"}

Limit(c) == IF c \in PerPeriod THEN PlanLimit ELSE FreeLimit

\* "loaded": the user row is read; "charging": about to spend; "calling":
\* charged, if at all, and in the LLM call.  `charge' names the counter.
AiRequest ==
    [pc : {"idle", "loaded", "charging", "calling"}, for : CreditJobs \union Other,
     plan : Plan, charge : Counters \union {"none"}]

IdleAiRequest ==
    [pc |-> "idle", for |-> "review", plan |-> [active |-> FALSE, period |-> NoPeriod],
     charge |-> "none"]

\* No counter exceeds its limit, however requests overlap; everything else
\* has its type.
CreditsTypeOK ==
    /\ plan \in Plan
    /\ counter \in [Counters -> [used : Nat, period : AnyPeriod]]
    /\ \A c \in Counters : counter[c].used <= Limit(c)
    /\ freeJobs \subseteq CreditJobs
    /\ planJobs \subseteq CreditJobs \X AnyPeriod
    /\ aiRequest \in [AiRequests -> AiRequest]
    /\ countsBegun \in [AnyPeriod -> Nat]
    /\ stale \in BOOLEAN

CreditsInit ==
    /\ plan = [active |-> FALSE, period |-> NoPeriod]
    /\ counter = [c \in Counters |-> [used |-> 0, period |-> NoPeriod]]
    /\ freeJobs = {}
    /\ planJobs = {}
    /\ aiRequest = [q \in AiRequests |-> IdleAiRequest]
    /\ countsBegun = [period \in AnyPeriod |-> 0]
    /\ stale = FALSE

-----------------------------------------------------------------------------
\* The conditional UPDATE holds the user's row until the request ends.
HoldsUser(q) == aiRequest[q].pc = "calling" /\ aiRequest[q].charge # "none"

UserFree == \A q \in AiRequests : ~HoldsUser(q)

NewPeriod(c, period) == c \in PerPeriod /\ counter[c].period # period

\* Mutant: the counter is compared after the period it was used in is forgotten.
AllowsStale(c, period) == counter[c].used <= Limit(c)

\* The UPDATE's WHERE.
Allows(c, period) == NewPeriod(c, period) \/ counter[c].used < Limit(c)

\* Mutant: the count of the last period is carried over.
SpendOn(c, period) ==
    [used |-> counter[c].used + 1, period |-> IF c \in PerPeriod THEN period ELSE NoPeriod]

\* Its SET: a period that is not the counter's starts the count again.
Spend(c, period) ==
    [used   |-> IF NewPeriod(c, period) THEN 1 ELSE counter[c].used + 1,
     period |-> IF c \in PerPeriod THEN period ELSE NoPeriod]

Unlocked(q) ==
    LET r == aiRequest[q]
    IN  IF r.plan.active THEN <<r.for, r.plan.period>> \in planJobs ELSE r.for \in freeJobs

\* The unlock's row goes in before the counter: its unique constraint, under
\* which NULL periods are never equal, has the second of two requests for a
\* job wait for the first, and find it there if that was committed.
Unique(r) == r.for \in CreditJobs /\ ~(r.plan.active /\ r.plan.period = NoPeriod)

WaitsForUnlock(q) ==
    \E o \in AiRequests \ {q} :
        /\ HoldsUser(o) /\ Unique(aiRequest[o])
        /\ aiRequest[o].for = aiRequest[q].for /\ aiRequest[o].plan = aiRequest[q].plan

\* Mutant: there is no such constraint.
NeverConflicts(q) == FALSE

Conflicts(q) == Unique(aiRequest[q]) /\ Unlocked(q)

\* The request begins: authentication loads the user.
LoadUser(q, for) ==
    /\ aiRequest[q].pc = "idle"
    /\ aiRequest' = [aiRequest EXCEPT ![q] =
                      [pc |-> "loaded", for |-> for, plan |-> plan, charge |-> "none"]]
    /\ UNCHANGED <<plan, counter, countsBegun, freeJobs, planJobs, stale>>

\* What it runs on: the plan, else the user's own key, which is free of
\* charge, else what the trial covers.
Charge(q, ownKey) ==
    LET r == aiRequest[q]
    IN  CASE r.plan.active /\ r.for \in Other -> "requests"
          [] r.plan.active /\ r.for \in CreditJobs ->
               IF Unlocked(q) THEN "none" ELSE "evaluations"
          [] ~r.plan.active /\ ownKey -> "none"
          [] ~r.plan.active /\ ~ownKey /\ r.for \in CreditJobs ->
               IF Unlocked(q) THEN "none" ELSE "free evaluations"
          [] ~r.plan.active /\ ~ownKey /\ r.for = "structure" -> "free restructures"
          [] OTHER -> "refused"

ResolveCredentials(q) ==
    /\ aiRequest[q].pc = "loaded"
    /\ \E ownKey \in BOOLEAN :
          LET charge == Charge(q, ownKey)
          IN  aiRequest' = [aiRequest EXCEPT ![q] =
                  CASE charge = "refused" -> IdleAiRequest
                    [] charge = "none" -> [@ EXCEPT !.pc = "calling"]
                    [] OTHER -> [@ EXCEPT !.pc = "charging", !.charge = charge]]
    /\ UNCHANGED <<plan, counter, countsBegun, freeJobs, planJobs, stale>>

\* A request over the limit ends in an error.
TakeCredit(q) ==
    LET r == aiRequest[q]
    IN  /\ r.pc = "charging"
        /\ UserFree /\ ~WaitsForUnlock(q)
        /\ CASE Conflicts(q) ->
                  aiRequest' = [aiRequest EXCEPT ![q].pc = "calling", ![q].charge = "none"]
             [] ~Conflicts(q) /\ ~Allows(r.charge, r.plan.period) ->
                  aiRequest' = [aiRequest EXCEPT ![q] = IdleAiRequest]
             [] ~Conflicts(q) /\ Allows(r.charge, r.plan.period) ->
                  aiRequest' = [aiRequest EXCEPT ![q].pc = "calling"]
        /\ stale' = (stale \/ (aiRequest'[q].charge \in PerPeriod /\ r.plan.period # plan.period))
        /\ UNCHANGED <<plan, counter, countsBegun, freeJobs, planJobs>>

\* The call answered: the charge and the unlocked job are committed.
CommitRequest(q) ==
    LET r == aiRequest[q]
    IN  /\ r.pc = "calling"
        /\ counter' = IF r.charge = "none" THEN counter
                      ELSE [counter EXCEPT ![r.charge] = Spend(r.charge, r.plan.period)]
        /\ freeJobs' = IF r.charge = "free evaluations" THEN freeJobs \union {r.for} ELSE freeJobs
        /\ planJobs' = IF r.charge = "evaluations"
                       THEN planJobs \union {<<r.for, r.plan.period>>} ELSE planJobs
        /\ countsBegun' = IF r.charge = "evaluations" /\ NewPeriod(r.charge, r.plan.period)
                    THEN [countsBegun EXCEPT ![r.plan.period] = @ + 1] ELSE countsBegun
        /\ aiRequest' = [aiRequest EXCEPT ![q] = IdleAiRequest]
        /\ UNCHANGED <<plan, stale>>

\* The call, or anything before the commit, fails.
RollBack(q) ==
    /\ aiRequest[q].pc # "idle"
    /\ aiRequest' = [aiRequest EXCEPT ![q] = IdleAiRequest]
    /\ UNCHANGED <<plan, counter, countsBegun, freeJobs, planJobs, stale>>

\* A webhook mirrors the subscription it fetched, whichever that is: the
\* period is not compared with the one that is there.  Its write waits for
\* the row.
SyncPlan(active, period) ==
    /\ UserFree
    /\ plan' = [active |-> active, period |-> period]
    /\ stale' = (stale \/ period < plan.period)
    /\ UNCHANGED <<counter, countsBegun, freeJobs, planJobs, aiRequest>>

CreditsNext ==
    \/ \E q \in AiRequests, for \in CreditJobs \union Other : LoadUser(q, for)
    \/ \E q \in AiRequests : ResolveCredentials(q) \/ TakeCredit(q)
    \/ \E q \in AiRequests : CommitRequest(q) \/ RollBack(q)
    \/ \E active \in BOOLEAN, period \in AnyPeriod : SyncPlan(active, period)

CreditsSpec == CreditsInit /\ [][CreditsNext]_creditsVars

-----------------------------------------------------------------------------
(* Properties.                                                             *)

PlanJobsOf(period) == {j \in CreditJobs : <<j, period>> \in planJobs}

\* The trial is spent exactly on the jobs it unlocked: no job is charged for
\* twice, whether by a double click or a retry, and none is unlocked unpaid.
TrialAccounted == counter["free evaluations"].used = Cardinality(freeJobs)

\* The plan never counts a job of a period twice.
NeverChargedTwice ==
    LET c == counter["evaluations"]
    IN  c.period # NoPeriod => c.used <= Cardinality(PlanJobsOf(c.period))

\* Each period's cap on distinct jobs is kept, each time its count is begun;
\* and it is begun once, as long as no request spends in another period than
\* the row's and the row never goes back to an older one.
PlanCap ==
    \A period \in Periods :
        /\ Cardinality(PlanJobsOf(period)) <= PlanLimit * countsBegun[period]
        /\ ~stale => countsBegun[period] <= 1
=============================================================================
