--------------------------- MODULE Access_proofs ---------------------------
EXTENDS AiCredits, Billing, SignIn, OAuthGrants,
        FiniteSetTheorems, TLAPS

-----------------------------------------------------------------------------
\* AiCredits: AI access, trials and job credits.

Count == [used : Nat, period : AnyPeriod]

\* The facts about limits and periods that the proofs need.
LEMMA Basics ==
    /\ Periods \subseteq Nat /\ AnyPeriod \subseteq Nat /\ NoPeriod \in AnyPeriod /\ NoPeriod \notin Periods
    /\ PlanLimit \in Nat /\ PlanLimit >= 1 /\ FreeLimit \in Nat
    /\ \A c \in Counters : Limit(c) \in Nat
    /\ \A c \in PerPeriod : Limit(c) = PlanLimit
    /\ PerPeriod \subseteq Counters
    /\ "evaluations" \in PerPeriod /\ "evaluations" \in Counters
    /\ "free evaluations" \in Counters /\ "free evaluations" \notin PerPeriod
    /\ "none" \notin Counters
BY CreditsAssumption DEF AnyPeriod, NoPeriod, Limit, Counters, PerPeriod

LEMMA RequestsTyped ==
    /\ IdleAiRequest \in AiRequest
    /\ IdleAiRequest.pc = "idle" /\ IdleAiRequest.charge = "none"
    /\ \A r \in AiRequest :
          /\ [r EXCEPT !.pc = "calling"] \in AiRequest
          /\ [r EXCEPT !.pc = "calling", !.charge = "none"] \in AiRequest
          /\ \A c \in Counters : [r EXCEPT !.pc = "charging", !.charge = c] \in AiRequest
<1>1. IdleAiRequest \in AiRequest
  BY Basics DEF IdleAiRequest, AiRequest, Plan, Other
<1>2. IdleAiRequest.pc = "idle" /\ IdleAiRequest.charge = "none"
  BY DEF IdleAiRequest
<1>3. \A r \in AiRequest : [r EXCEPT !.pc = "calling"] \in AiRequest
  BY DEF AiRequest
<1>4. \A r \in AiRequest : [r EXCEPT !.pc = "calling", !.charge = "none"] \in AiRequest
  BY DEF AiRequest
<1>5. \A r \in AiRequest, c \in Counters : [r EXCEPT !.pc = "charging", !.charge = c] \in AiRequest
  BY DEF AiRequest
<1> QED
  BY <1>1, <1>2, <1>3, <1>4, <1>5

\* A charge is of the kind the plan and the subject of its request call for.
Charges ==
    \A q \in AiRequests :
        LET r == aiRequest[q]
        IN  /\ r.charge = "evaluations" => r.plan.active /\ r.for \in CreditJobs
            /\ r.charge = "free evaluations" => ~r.plan.active /\ r.for \in CreditJobs
            /\ r.pc = "loaded" => r.charge = "none"

\* One request at a time holds the user's row, and until it ends what allowed
\* its charge stays true: the counter has room, and its job is still locked.
Held ==
    /\ \A q, o \in AiRequests : HoldsUser(q) /\ HoldsUser(o) => q = o
    /\ \A q \in AiRequests : HoldsUser(q) =>
          LET r == aiRequest[q]
          IN  /\ Allows(r.charge, r.plan.period)
              /\ Unique(r) => ~Unlocked(q)
              /\ ~stale /\ r.charge = "evaluations" => r.plan.period = plan.period

\* Each time the count of a period is begun it admits PlanLimit jobs, and the
\* time that goes on has admitted those it counts.
Admitted(period) ==
    LET c == counter["evaluations"]
    IN  IF c.period = period
        THEN /\ countsBegun[period] >= 1
             /\ Cardinality(PlanJobsOf(period)) <= PlanLimit * (countsBegun[period] - 1) + c.used
        ELSE Cardinality(PlanJobsOf(period)) <= PlanLimit * countsBegun[period]

JobsAdmitted == \A period \in Periods : Admitted(period)

\* As long as no request spends in another period than the row's and that one
\* only advances, no count is begun twice.
PeriodsInOrder ==
    LET c == counter["evaluations"]
    IN  /\ c.period <= plan.period
        /\ \A period \in Periods :
              /\ countsBegun[period] <= 1
              /\ period > c.period => countsBegun[period] = 0

CreditsInv ==
    /\ CreditsTypeOK /\ Charges /\ Held
    /\ TrialAccounted /\ NeverChargedTwice /\ JobsAdmitted
    /\ ~stale => PeriodsInOrder

-----------------------------------------------------------------------------
LEMMA InvInit == CreditsInit => CreditsInv
<1> SUFFICES ASSUME CreditsInit PROVE CreditsInv
  OBVIOUS
<1>1. /\ \A q \in AiRequests : aiRequest[q] = IdleAiRequest
      /\ \A c \in Counters : counter[c] = [used |-> 0, period |-> NoPeriod]
      /\ freeJobs = {} /\ planJobs = {} /\ stale = FALSE
      /\ plan = [active |-> FALSE, period |-> NoPeriod] /\ plan.period = NoPeriod
      /\ \A c \in Counters : counter[c].used = 0 /\ counter[c].period = NoPeriod
      /\ countsBegun \in [AnyPeriod -> Nat] /\ \A period \in AnyPeriod : countsBegun[period] = 0
  BY DEF CreditsInit
<1>2. CreditsTypeOK
  <2>1. plan \in Plan
    BY <1>1, Basics DEF Plan
  <2>2. counter \in [Counters -> Count]
    BY Basics DEF CreditsInit, Count
  <2>3. \A c \in Counters : counter[c].used <= Limit(c)
    <3> SUFFICES ASSUME NEW c \in Counters PROVE counter[c].used <= Limit(c)
      OBVIOUS
    <3>1. counter[c].used = 0 /\ Limit(c) \in Nat
      BY <1>1, Basics
    <3> QED
      BY <3>1
  <2>4. aiRequest \in [AiRequests -> AiRequest]
    BY RequestsTyped DEF CreditsInit
  <2> QED
    BY <1>1, <2>1, <2>2, <2>3, <2>4 DEF CreditsTypeOK, Count
<1>3. Charges /\ Held
  BY <1>1, RequestsTyped DEF Charges, Held, HoldsUser
<1>4. Cardinality({}) = 0
  BY FS_EmptySet
<1>5. \A period : PlanJobsOf(period) = {}
  BY <1>1 DEF PlanJobsOf
<1>6. TrialAccounted /\ NeverChargedTwice
  BY <1>1, <1>4, Basics DEF TrialAccounted, NeverChargedTwice
<1>7. PeriodsInOrder
  <2>1. counter["evaluations"].period = NoPeriod /\ plan.period = NoPeriod
    BY <1>1, Basics
  <2>2. NoPeriod <= NoPeriod
    BY DEF NoPeriod
  <2> QED
    BY <1>1, <2>1, <2>2 DEF PeriodsInOrder, AnyPeriod
<1>8. JobsAdmitted
  <2> SUFFICES ASSUME NEW period \in Periods PROVE Admitted(period)
    BY DEF JobsAdmitted
  <2>1. counter["evaluations"].period # period /\ countsBegun[period] = 0
    BY <1>1, Basics DEF AnyPeriod
  <2>2. Cardinality(PlanJobsOf(period)) = 0
    BY <1>4, <1>5
  <2>3. 0 <= PlanLimit * 0
    <3>1. PlanLimit \in Nat
      BY CreditsAssumption
    <3> QED
      BY ONLY <3>1
  <2> QED
    BY <2>1, <2>2, <2>3 DEF Admitted
<1> QED
  BY <1>2, <1>3, <1>6, <1>7, <1>8 DEF CreditsInv

\* A request that moves, and no row but its own in the model with it.
Moves(q) ==
    /\ UNCHANGED <<plan, counter, countsBegun, freeJobs, planJobs>>
    /\ aiRequest' \in [AiRequests -> AiRequest]
    /\ \A o \in AiRequests : o # q => aiRequest'[o] = aiRequest[o]
    /\ stale' \in BOOLEAN /\ (stale => stale')

\* It keeps the invariant if its charge is of its kind, and it holds the row
\* only when nobody did and the charge is allowed.
LEMMA MovesKeep ==
    ASSUME CreditsInv, NEW q \in AiRequests, Moves(q),
           aiRequest'[q].charge = "evaluations" =>
              aiRequest'[q].plan.active /\ aiRequest'[q].for \in CreditJobs,
           aiRequest'[q].charge = "free evaluations" =>
              ~aiRequest'[q].plan.active /\ aiRequest'[q].for \in CreditJobs,
           aiRequest'[q].pc = "loaded" => aiRequest'[q].charge = "none",
           HoldsUser(q)' =>
              /\ UserFree
              /\ Allows(aiRequest'[q].charge, aiRequest'[q].plan.period)
              /\ Unique(aiRequest'[q]) => ~Unlocked(q)'
              /\ ~stale' /\ aiRequest'[q].charge = "evaluations" =>
                    aiRequest'[q].plan.period = plan.period
    PROVE  CreditsInv'
<1>1. CreditsTypeOK'
  BY DEF CreditsInv, CreditsTypeOK, Moves
<1>2. Charges'
  BY DEF CreditsInv, Charges, Moves
<1>3. /\ TrialAccounted' /\ NeverChargedTwice' /\ JobsAdmitted'
      /\ ~stale' => PeriodsInOrder'
  BY DEF CreditsInv, Moves, TrialAccounted, NeverChargedTwice, JobsAdmitted, Admitted,
         PeriodsInOrder, PlanJobsOf
<1>4. ASSUME NEW o \in AiRequests, o # q
      PROVE  /\ HoldsUser(o)' = HoldsUser(o)
             /\ Unlocked(o)' = Unlocked(o)
             /\ \A c, p : Allows(c, p)' = Allows(c, p)
  BY <1>4 DEF Moves, HoldsUser, Unlocked, Allows, NewPeriod
<1>5. \A a, b \in AiRequests : HoldsUser(a)' /\ HoldsUser(b)' => a = b
  BY <1>4 DEF CreditsInv, Held, UserFree
<1>6. ASSUME NEW o \in AiRequests, HoldsUser(o)'
      PROVE  /\ Allows(aiRequest[o].charge, aiRequest[o].plan.period)'
             /\ Unique(aiRequest[o])' => ~Unlocked(o)'
             /\ ~stale' /\ aiRequest'[o].charge = "evaluations" =>
                   aiRequest'[o].plan.period = plan'.period
  <2>1. CASE o = q
    <3>1. Allows(aiRequest[q].charge, aiRequest[q].plan.period)'
      BY <1>6, <2>1 DEF Moves, Allows, NewPeriod
    <3>2. Unique(aiRequest[q])' => ~Unlocked(q)'
      BY <1>6, <2>1 DEF Unique
    <3> QED
      BY <1>6, <2>1, <3>1, <3>2 DEF Moves
  <2>2. CASE o # q
    <3>1. aiRequest'[o] = aiRequest[o] /\ HoldsUser(o)
      BY <1>4, <1>6, <2>2 DEF Moves
    <3>2. /\ Allows(aiRequest[o].charge, aiRequest[o].plan.period)
          /\ Unique(aiRequest[o]) => ~Unlocked(o)
          /\ ~stale /\ aiRequest[o].charge = "evaluations" => aiRequest[o].plan.period = plan.period
      BY <3>1 DEF CreditsInv, Held
    <3>3. Allows(aiRequest[o].charge, aiRequest[o].plan.period)'
      BY <3>1, <3>2 DEF Moves, Allows, NewPeriod
    <3>4. Unique(aiRequest[o])' => ~Unlocked(o)'
      BY <1>4, <2>2, <3>1, <3>2 DEF Unique
    <3> QED
      BY <3>1, <3>2, <3>3, <3>4 DEF Moves
  <2> QED
    BY <2>1, <2>2
<1>7. Held'
  BY <1>5, <1>6 DEF Held
<1> QED
  BY <1>1, <1>2, <1>3, <1>7 DEF CreditsInv

LEMMA LoadKeeps ==
    ASSUME CreditsInv, NEW q \in AiRequests, NEW for \in CreditJobs \union Other, LoadUser(q, for)
    PROVE  CreditsInv'
<1> DEFINE r == [pc |-> "loaded", for |-> for, plan |-> plan, charge |-> "none"]
<1>1. r \in AiRequest
  BY DEF CreditsInv, CreditsTypeOK, AiRequest
<1>2. aiRequest \in [AiRequests -> AiRequest] /\ stale \in BOOLEAN
  BY DEF CreditsInv, CreditsTypeOK
<1>3. aiRequest' = [aiRequest EXCEPT ![q] = r]
  BY DEF LoadUser
<1>4. r.pc = "loaded" /\ r.charge = "none"
  OBVIOUS
<1> HIDE DEF r
<1>5. Moves(q) /\ aiRequest'[q] = r
  BY <1>1, <1>2, <1>3 DEF LoadUser, Moves
<1>6. ~HoldsUser(q)'
  BY <1>4, <1>5 DEF HoldsUser
<1> QED
  BY <1>4, <1>5, <1>6, MovesKeep

LEMMA RollBackKeeps ==
    ASSUME CreditsInv, NEW q \in AiRequests, RollBack(q)
    PROVE  CreditsInv'
<1>1. aiRequest \in [AiRequests -> AiRequest] /\ stale \in BOOLEAN
  BY DEF CreditsInv, CreditsTypeOK
<1>2. Moves(q) /\ aiRequest'[q] = IdleAiRequest
  BY <1>1, RequestsTyped DEF RollBack, Moves
<1>3. ~HoldsUser(q)'
  BY <1>2, RequestsTyped DEF HoldsUser
<1> QED
  BY <1>2, <1>3, RequestsTyped, MovesKeep

\* What Charge returns is of the kind its request calls for.
LEMMA ChargeKind ==
    ASSUME NEW q \in AiRequests, NEW ownKey \in BOOLEAN, aiRequest[q] \in AiRequest
    PROVE  LET c == Charge(q, ownKey)
               r == aiRequest[q]
           IN  /\ c \in Counters \union {"none", "refused"}
               /\ c = "evaluations" => r.plan.active /\ r.for \in CreditJobs
               /\ c = "free evaluations" => ~r.plan.active /\ r.for \in CreditJobs
<1>1. aiRequest[q].plan.active \in BOOLEAN /\ aiRequest[q].for \in CreditJobs \union Other
  BY DEF AiRequest, Plan
<1> QED
  BY <1>1 DEF Charge, Counters

LEMMA ResolveKeeps ==
    ASSUME CreditsInv, NEW q \in AiRequests, ResolveCredentials(q)
    PROVE  CreditsInv'
<1>1. aiRequest \in [AiRequests -> AiRequest] /\ stale \in BOOLEAN
  BY DEF CreditsInv, CreditsTypeOK
<1>2. aiRequest[q].pc = "loaded" /\ aiRequest[q].charge = "none" /\ aiRequest[q] \in AiRequest
  BY <1>1 DEF ResolveCredentials, CreditsInv, Charges
<1>3. PICK ownKey \in BOOLEAN :
          LET charge == Charge(q, ownKey)
          IN  aiRequest' = [aiRequest EXCEPT ![q] =
                  CASE charge = "refused" -> IdleAiRequest
                    [] charge = "none" -> [@ EXCEPT !.pc = "calling"]
                    [] OTHER -> [@ EXCEPT !.pc = "charging", !.charge = charge]]
  BY DEF ResolveCredentials
<1> DEFINE charge == Charge(q, ownKey)
<1>4. /\ charge \in Counters \union {"none", "refused"}
      /\ charge = "evaluations" => aiRequest[q].plan.active /\ aiRequest[q].for \in CreditJobs
      /\ charge = "free evaluations" => ~aiRequest[q].plan.active /\ aiRequest[q].for \in CreditJobs
  BY <1>2, ChargeKind
<1> HIDE DEF charge
<1>5. \/ charge = "refused" /\ aiRequest' = [aiRequest EXCEPT ![q] = IdleAiRequest]
      \/ charge = "none" /\ aiRequest' = [aiRequest EXCEPT ![q] = [aiRequest[q] EXCEPT !.pc = "calling"]]
      \/ /\ charge \in Counters
         /\ aiRequest' = [aiRequest EXCEPT ![q] =
                            [aiRequest[q] EXCEPT !.pc = "charging", !.charge = charge]]
  BY <1>3, <1>4 DEF charge
<1>6. UNCHANGED <<plan, counter, countsBegun, freeJobs, planJobs, stale>>
  BY DEF ResolveCredentials
<1>7. CASE charge = "refused" /\ aiRequest' = [aiRequest EXCEPT ![q] = IdleAiRequest]
  <2>1. Moves(q) /\ aiRequest'[q] = IdleAiRequest
    BY <1>1, <1>6, <1>7, RequestsTyped DEF Moves
  <2> QED
    BY <2>1, RequestsTyped, MovesKeep DEF HoldsUser
<1>8. CASE charge = "none" /\ aiRequest' = [aiRequest EXCEPT ![q] = [aiRequest[q] EXCEPT !.pc = "calling"]]
  <2>1. [aiRequest[q] EXCEPT !.pc = "calling"] \in AiRequest
    BY <1>2, RequestsTyped
  <2>2. Moves(q) /\ aiRequest'[q] = [aiRequest[q] EXCEPT !.pc = "calling"]
    BY <1>1, <1>6, <1>8, <2>1 DEF Moves
  <2>3. aiRequest'[q].pc = "calling" /\ aiRequest'[q].charge = "none"
    BY <1>2, <2>2 DEF AiRequest
  <2> QED
    BY <2>2, <2>3, MovesKeep DEF HoldsUser
<1>9. CASE /\ charge \in Counters
           /\ aiRequest' = [aiRequest EXCEPT ![q] =
                              [aiRequest[q] EXCEPT !.pc = "charging", !.charge = charge]]
  <2>1. [aiRequest[q] EXCEPT !.pc = "charging", !.charge = charge] \in AiRequest
    BY <1>2, <1>9, RequestsTyped
  <2>2. Moves(q) /\ aiRequest'[q] = [aiRequest[q] EXCEPT !.pc = "charging", !.charge = charge]
    BY <1>1, <1>6, <1>9, <2>1 DEF Moves
  <2>3. /\ aiRequest'[q].pc = "charging" /\ aiRequest'[q].charge = charge
        /\ aiRequest'[q].plan = aiRequest[q].plan /\ aiRequest'[q].for = aiRequest[q].for
    BY <1>2, <2>2 DEF AiRequest
  <2> QED
    BY <1>4, <2>2, <2>3, MovesKeep DEF HoldsUser
<1> QED
  BY <1>5, <1>7, <1>8, <1>9

LEMMA TakeKeeps ==
    ASSUME CreditsInv, NEW q \in AiRequests, TakeCredit(q)
    PROVE  CreditsInv'
<1> DEFINE r == aiRequest[q]
<1>1. aiRequest \in [AiRequests -> AiRequest] /\ stale \in BOOLEAN /\ r \in AiRequest
  BY DEF CreditsInv, CreditsTypeOK
<1>2. /\ r.charge = "evaluations" => r.plan.active /\ r.for \in CreditJobs
      /\ r.charge = "free evaluations" => ~r.plan.active /\ r.for \in CreditJobs
  BY DEF CreditsInv, Charges
<1>3. UserFree /\ UNCHANGED <<plan, counter, countsBegun, freeJobs, planJobs>>
  BY DEF TakeCredit
<1>4. stale' = (stale \/ (aiRequest'[q].charge \in PerPeriod /\ r.plan.period # plan.period))
  BY DEF TakeCredit
<1>5. stale' \in BOOLEAN /\ (stale => stale')
  BY <1>4
<1>6. \/ aiRequest' = [aiRequest EXCEPT ![q].pc = "calling", ![q].charge = "none"]
      \/ aiRequest' = [aiRequest EXCEPT ![q] = IdleAiRequest]
      \/ /\ ~Conflicts(q) /\ Allows(r.charge, r.plan.period)
         /\ aiRequest' = [aiRequest EXCEPT ![q].pc = "calling"]
  BY DEF TakeCredit
<1>7. CASE aiRequest' = [aiRequest EXCEPT ![q].pc = "calling", ![q].charge = "none"]
  <2>1. [r EXCEPT !.pc = "calling", !.charge = "none"] \in AiRequest
    BY <1>1, RequestsTyped
  <2>2. /\ aiRequest' \in [AiRequests -> AiRequest]
        /\ \A o \in AiRequests : o # q => aiRequest'[o] = aiRequest[o]
        /\ aiRequest'[q] = [r EXCEPT !.pc = "calling", !.charge = "none"]
    BY <1>1, <1>7, <2>1
  <2>3. aiRequest'[q].pc = "calling" /\ aiRequest'[q].charge = "none"
    BY <1>1, <2>2 DEF AiRequest
  <2>4. Moves(q)
    BY <1>3, <1>5, <2>2 DEF Moves
  <2> QED
    BY <2>3, <2>4, MovesKeep DEF HoldsUser
<1>8. CASE aiRequest' = [aiRequest EXCEPT ![q] = IdleAiRequest]
  <2>1. Moves(q) /\ aiRequest'[q] = IdleAiRequest
    BY <1>1, <1>3, <1>5, <1>8, RequestsTyped DEF Moves
  <2> QED
    BY <2>1, RequestsTyped, MovesKeep DEF HoldsUser
<1>9. CASE /\ ~Conflicts(q) /\ Allows(r.charge, r.plan.period)
           /\ aiRequest' = [aiRequest EXCEPT ![q].pc = "calling"]
  <2>1. [r EXCEPT !.pc = "calling"] \in AiRequest
    BY <1>1, RequestsTyped
  <2>2. /\ aiRequest' \in [AiRequests -> AiRequest]
        /\ \A o \in AiRequests : o # q => aiRequest'[o] = aiRequest[o]
        /\ aiRequest'[q] = [r EXCEPT !.pc = "calling"]
    BY <1>1, <1>9, <2>1
  <2>3. /\ aiRequest'[q].pc = "calling" /\ aiRequest'[q].charge = r.charge
        /\ aiRequest'[q].plan = r.plan /\ aiRequest'[q].for = r.for
    BY <1>1, <2>2 DEF AiRequest
  <2>4. Moves(q)
    BY <1>3, <1>5, <2>2 DEF Moves
  <2>5. Unique(aiRequest'[q]) => ~Unlocked(q)'
    BY <1>3, <1>9, <2>3 DEF Conflicts, Unique, Unlocked
  <2>6. ~stale' /\ aiRequest'[q].charge = "evaluations" => aiRequest'[q].plan.period = plan.period
    BY <1>4, <2>3, Basics
  <2>7. Allows(aiRequest'[q].charge, aiRequest'[q].plan.period)
    BY <1>9, <2>3
  <2>8. aiRequest'[q].pc # "loaded"
    BY <2>3
  <2>9. /\ aiRequest'[q].charge = "evaluations" =>
              aiRequest'[q].plan.active /\ aiRequest'[q].for \in CreditJobs
        /\ aiRequest'[q].charge = "free evaluations" =>
              ~aiRequest'[q].plan.active /\ aiRequest'[q].for \in CreditJobs
    BY <1>2, <2>3
  <2> QED
    BY <1>3, <2>4, <2>5, <2>6, <2>7, <2>8, <2>9, MovesKeep
<1> QED
  BY <1>6, <1>7, <1>8, <1>9

-----------------------------------------------------------------------------
(* The commit, the one step that counts.                                   *)

\* A request that ends without holding the row changes no count.
LEMMA FreeCommitKeeps ==
    ASSUME CreditsInv, NEW q \in AiRequests, CommitRequest(q), aiRequest[q].charge = "none"
    PROVE  CreditsInv'
<1>1. aiRequest \in [AiRequests -> AiRequest] /\ stale \in BOOLEAN
  BY DEF CreditsInv, CreditsTypeOK
<1>2. Moves(q) /\ aiRequest'[q] = IdleAiRequest
  BY <1>1, RequestsTyped DEF CommitRequest, Moves
<1> QED
  BY <1>2, RequestsTyped, MovesKeep DEF HoldsUser

\* The one that holds it spends what it was allowed.
LEMMA SpendTyped ==
    ASSUME CreditsTypeOK, NEW c \in Counters, NEW period \in AnyPeriod, Allows(c, period)
    PROVE  Spend(c, period) \in Count /\ Spend(c, period).used <= Limit(c)
<1>1. counter[c].used \in Nat /\ counter[c].used <= Limit(c) /\ Limit(c) \in Nat
  BY Basics DEF CreditsTypeOK
<1>2. CASE NewPeriod(c, period)
  <2>1. Limit(c) >= 1 /\ c \in PerPeriod
    BY <1>2, Basics DEF NewPeriod
  <2> QED
    BY <1>1, <1>2, <2>1 DEF Spend, Count
<1>3. CASE ~NewPeriod(c, period)
  <2>1. counter[c].used < Limit(c)
    BY <1>3 DEF Allows
  <2>2. counter[c].used + 1 \in Nat /\ counter[c].used + 1 <= Limit(c)
    BY <1>1, <2>1
  <2> QED
    BY <1>3, <2>2, Basics DEF Spend, Count
<1> QED
  BY <1>2, <1>3

LEMMA CommitKeeps ==
    ASSUME CreditsInv, NEW q \in AiRequests, CommitRequest(q), aiRequest[q].charge # "none"
    PROVE  CreditsInv'
<1> DEFINE r == aiRequest[q]
           c == r.charge
<1> USE DEF CreditsInv
<1>1. aiRequest \in [AiRequests -> AiRequest] /\ r \in AiRequest /\ stale \in BOOLEAN
  BY DEF CreditsTypeOK
<1>0. c \in Counters /\ r.plan.period \in AnyPeriod /\ r.for \in CreditJobs \union Other
  BY <1>1 DEF AiRequest, Plan
<1> PICK period \in AnyPeriod : period = r.plan.period
  BY <1>0
<1>2. c \in Counters /\ period \in AnyPeriod /\ r.for \in CreditJobs \union Other
  BY <1>0
<1>3. r.pc = "calling" /\ HoldsUser(q)
  BY DEF CommitRequest, HoldsUser
<1>4. Allows(c, period) /\ (Unique(r) => ~Unlocked(q))
      /\ (~stale /\ c = "evaluations" => period = plan.period)
  BY <1>3 DEF Held
<1>5. /\ c = "evaluations" => r.plan.active /\ r.for \in CreditJobs
      /\ c = "free evaluations" => ~r.plan.active /\ r.for \in CreditJobs
  BY DEF Charges
<1>6. /\ counter' = [counter EXCEPT ![c] = Spend(c, period)]
      /\ freeJobs' = IF c = "free evaluations" THEN freeJobs \union {r.for} ELSE freeJobs
      /\ planJobs' = IF c = "evaluations" THEN planJobs \union {<<r.for, period>>} ELSE planJobs
      /\ aiRequest' = [aiRequest EXCEPT ![q] = IdleAiRequest]
      /\ UNCHANGED <<plan, stale>>
  BY DEF CommitRequest
<1>7. Spend(c, period) \in Count /\ Spend(c, period).used <= Limit(c)
  BY <1>2, <1>4, SpendTyped
<1>8. counter \in [Counters -> Count]
  BY DEF CreditsTypeOK, Count
<1>9. /\ counter'[c] = Spend(c, period)
      /\ \A d \in Counters : d # c => counter'[d] = counter[d]
  BY <1>2, <1>6, <1>8
<1>19. /\ countsBegun \in [AnyPeriod -> Nat]
       /\ countsBegun' = IF c = "evaluations" /\ NewPeriod(c, period)
                         THEN [countsBegun EXCEPT ![period] = @ + 1] ELSE countsBegun
  BY DEF CreditsTypeOK, CommitRequest
<1>10. CreditsTypeOK'
  <2>1. counter' \in [Counters -> Count]
    BY <1>6, <1>7, <1>8
  <2>2. \A d \in Counters : counter'[d].used <= Limit(d)
    BY <1>7, <1>9 DEF CreditsTypeOK
  <2>3. freeJobs' \subseteq CreditJobs
    BY <1>5, <1>6 DEF CreditsTypeOK
  <2>4. planJobs' \subseteq CreditJobs \X AnyPeriod
    <3>1. CASE c = "evaluations"
      <4>1. <<r.for, period>> \in CreditJobs \X AnyPeriod
        BY <1>2, <1>5, <3>1
      <4> QED
        BY <1>6, <3>1, <4>1 DEF CreditsTypeOK
    <3>2. CASE c # "evaluations"
      BY <1>6, <3>2 DEF CreditsTypeOK
    <3> QED
      BY <3>1, <3>2
  <2>5. aiRequest' \in [AiRequests -> AiRequest]
    BY <1>1, <1>6, RequestsTyped
  <2>6. countsBegun' \in [AnyPeriod -> Nat]
    BY <1>19
  <2> QED
    BY <1>6, <2>1, <2>2, <2>3, <2>4, <2>5, <2>6 DEF CreditsTypeOK, Count
<1>11. /\ aiRequest'[q] = IdleAiRequest
       /\ \A o \in AiRequests : o # q => aiRequest'[o] = aiRequest[o]
  BY <1>1, <1>6
<1>12. Charges'
  BY <1>11, RequestsTyped DEF Charges
<1>13. Held'
  <2>1. \A o \in AiRequests : o # q => ~HoldsUser(o)
    BY <1>3 DEF Held
  <2>2. \A o \in AiRequests : ~HoldsUser(o)'
    BY <1>11, <2>1, RequestsTyped DEF HoldsUser
  <2> QED
    BY <2>2 DEF Held
<1>14. TrialAccounted'
  <2>1. CASE c = "free evaluations"
    <3>1. ~r.plan.active /\ r.for \in CreditJobs /\ r.for \notin freeJobs
      BY <1>4, <1>5, <2>1 DEF Unique, Unlocked
    <3>2. Cardinality(freeJobs \union {r.for}) = Cardinality(freeJobs) + 1
      <4>1. IsFiniteSet(freeJobs)
        BY CreditsAssumption, FS_Subset DEF CreditsTypeOK
      <4> QED
        BY <3>1, <4>1, FS_AddElement
    <3>3. Spend(c, period).used = counter[c].used + 1
      BY <2>1, Basics DEF Spend, NewPeriod
    <3> QED
      BY <1>6, <1>9, <2>1, <3>2, <3>3 DEF TrialAccounted
  <2>2. CASE c # "free evaluations"
    BY <1>6, <1>9, <2>2, Basics DEF TrialAccounted
  <2> QED
    BY <2>1, <2>2
<1>15. \A p \in AnyPeriod : IsFiniteSet(PlanJobsOf(p)) /\ Cardinality(PlanJobsOf(p)) \in Nat
  BY CreditsAssumption, FS_Subset, FS_CardinalityType DEF PlanJobsOf
<1>16. ASSUME c = "evaluations"
       PROVE  /\ \A p : p # period => PlanJobsOf(p)' = PlanJobsOf(p)
              /\ PlanJobsOf(period)' = PlanJobsOf(period) \union {r.for}
              /\ period # NoPeriod =>
                    Cardinality(PlanJobsOf(period)') = Cardinality(PlanJobsOf(period)) + 1
  <2>1. r.plan.active /\ r.for \in CreditJobs
    BY <1>5, <1>16
  <2>2. planJobs' = planJobs \union {<<r.for, period>>}
    BY <1>6, <1>16
  <2>3. PlanJobsOf(period)' = PlanJobsOf(period) \union {r.for}
    BY <2>1, <2>2 DEF PlanJobsOf
  <2>4. \A p : p # period => PlanJobsOf(p)' = PlanJobsOf(p)
    BY <2>2 DEF PlanJobsOf
  <2>5. ASSUME period # NoPeriod
        PROVE  Cardinality(PlanJobsOf(period)') = Cardinality(PlanJobsOf(period)) + 1
    <3>1. r.for \notin PlanJobsOf(period)
      BY <1>4, <2>1, <2>5 DEF Unique, Unlocked, PlanJobsOf
    <3> QED
      BY <1>2, <1>15, <2>3, <3>1, FS_AddElement
  <2> QED
    BY <2>3, <2>4, <2>5
<1>17. ASSUME c # "evaluations"
       PROVE  /\ \A p : PlanJobsOf(p)' = PlanJobsOf(p)
              /\ counter'["evaluations"] = counter["evaluations"]
  BY <1>6, <1>9, <1>17, Basics DEF PlanJobsOf
<1>18. NeverChargedTwice'
  <2>1. CASE c # "evaluations"
    BY <1>17, <2>1 DEF NeverChargedTwice
  <2>2. CASE c = "evaluations"
    <3>0. Spend(c, period).period = period
      BY <2>2, Basics DEF Spend
    <3> SUFFICES ASSUME period # NoPeriod
                 PROVE  Spend(c, period).used <= Cardinality(PlanJobsOf(period)')
      BY <1>9, <2>2, <3>0 DEF NeverChargedTwice
    <3>1. period # NoPeriod
      OBVIOUS
    <3>2. Cardinality(PlanJobsOf(period)') = Cardinality(PlanJobsOf(period)) + 1
      BY <1>16, <2>2, <3>1
    <3> DEFINE n == Cardinality(PlanJobsOf(period))
               m == Cardinality(PlanJobsOf(period)')
    <3>5. n \in Nat /\ m = n + 1
      BY <1>2, <1>15, <3>2
    <3> HIDE DEF n, m
    <3>3. CASE NewPeriod(c, period)
      <4>1. Spend(c, period).used = 1
        BY <3>3 DEF Spend
      <4>2. 1 <= m
        BY <3>5
      <4> QED
        BY <4>1, <4>2 DEF m
    <3>4. CASE ~NewPeriod(c, period)
      <4>1. counter[c].period = period /\ Spend(c, period).used = counter[c].used + 1
        BY <2>2, <3>4, Basics DEF NewPeriod, Spend
      <4>2. counter[c].used <= n
        BY <2>2, <3>1, <4>1 DEF NeverChargedTwice, n
      <4>3. counter[c].used \in Nat
        BY <1>2, <1>8 DEF Count
      <4>4. counter[c].used + 1 <= m
        BY <3>5, <4>2, <4>3
      <4> QED
        BY <4>1, <4>4 DEF m
    <3> QED
      BY <3>3, <3>4
  <2> QED
    BY <2>1, <2>2
<1>20. JobsAdmitted'
  <2>1. CASE c # "evaluations"
    BY <1>17, <1>19, <2>1 DEF JobsAdmitted, Admitted
  <2>2. CASE c = "evaluations"
    <3> SUFFICES ASSUME NEW p \in Periods PROVE Admitted(p)'
      BY DEF JobsAdmitted
    <3> DEFINE b == countsBegun[p]
               n == Cardinality(PlanJobsOf(p))
               u == counter[c].used
    <3>1. p \in AnyPeriod /\ p # NoPeriod
      BY Basics DEF AnyPeriod
    <3>2. b \in Nat /\ n \in Nat /\ u \in Nat /\ u <= PlanLimit /\ PlanLimit \in Nat
      BY <1>2, <1>8, <1>15, <1>19, <2>2, <3>1, Basics DEF Count, CreditsTypeOK
    <3>3. PlanLimit * (b - 1) + PlanLimit = PlanLimit * b
      BY <3>2
    <3>4. Admitted(p)
      BY DEF JobsAdmitted
    <3>5. counter'["evaluations"] = Spend(c, period) /\ Spend(c, period).period = period
      BY <1>9, <2>2, Basics DEF Spend
    <3>6. CASE p # period
      <4>1. countsBegun'[p] = b /\ PlanJobsOf(p)' = PlanJobsOf(p)
        BY <1>2, <1>16, <1>19, <2>2, <3>1, <3>6
      <4>2. n <= PlanLimit * b
        <5>1. CASE counter[c].period = p
          <6>1. n <= PlanLimit * (b - 1) + u
            BY <2>2, <3>4, <5>1 DEF Admitted
          <6> DEFINE x == PlanLimit * (b - 1)
                     y == PlanLimit * b
          <6>2. x \in Int /\ y \in Int /\ x + PlanLimit = y /\ n <= x + u
            BY <3>2, <3>3, <6>1
          <6> HIDE DEF x, y
          <6>3. n <= y
            BY <3>2, <6>2
          <6> QED
            BY <6>3 DEF y
        <5>2. CASE counter[c].period # p
          BY <2>2, <3>4, <5>2 DEF Admitted
        <5> QED
          BY <5>1, <5>2
      <4> QED
        BY <3>5, <3>6, <4>1, <4>2 DEF Admitted
    <3>7. CASE p = period
      <4>1. Cardinality(PlanJobsOf(p)') = n + 1
        BY <1>16, <2>2, <3>1, <3>7
      <4>2. CASE NewPeriod(c, period)
        <5>1. countsBegun'[p] = b + 1 /\ Spend(c, period).used = 1
          BY <1>2, <1>19, <2>2, <3>7, <4>2 DEF Spend
        <5>2. n <= PlanLimit * b
          BY <2>2, <3>4, <3>7, <4>2 DEF Admitted, NewPeriod
        <5>3. (b + 1) - 1 = b /\ b + 1 >= 1
          BY <3>2
        <5>4. n + 1 <= PlanLimit * b + 1
          BY <3>2, <5>2
        <5> QED
          BY <3>5, <3>7, <4>1, <5>1, <5>3, <5>4 DEF Admitted
      <4>3. CASE ~NewPeriod(c, period)
        <5>1. /\ countsBegun'[p] = b /\ counter[c].period = p
              /\ Spend(c, period).used = u + 1
          BY <1>19, <2>2, <3>7, <4>3, Basics DEF NewPeriod, Spend
        <5>2. b >= 1 /\ n <= PlanLimit * (b - 1) + u
          BY <2>2, <3>4, <5>1 DEF Admitted
        <5>3. n + 1 <= PlanLimit * (b - 1) + (u + 1)
          BY <3>2, <5>2
        <5> QED
          BY <3>5, <3>7, <4>1, <5>1, <5>2, <5>3 DEF Admitted
      <4> QED
        BY <4>2, <4>3
    <3> QED
      BY <3>6, <3>7
  <2> QED
    BY <2>1, <2>2
<1>21. ASSUME ~stale PROVE PeriodsInOrder'
  <2>1. PeriodsInOrder
    BY <1>21
  <2>2. CASE c # "evaluations"
    BY <1>6, <1>17, <1>19, <2>1, <2>2 DEF PeriodsInOrder
  <2>3. CASE c = "evaluations"
    <3>0. plan' = plan /\ period = plan.period
      BY <1>4, <1>6, <1>21, <2>3
    <3>1. counter'["evaluations"].period = period
      <4>1. Spend(c, period).period = period
        BY <2>3, Basics DEF Spend
      <4> QED
        BY <1>9, <2>3, <4>1
    <3>2. counter[c].period \in Nat /\ period \in Nat /\ counter[c].period <= period
      BY <1>2, <1>8, <2>1, <2>3, <3>0, Basics DEF Count, PeriodsInOrder
    <3>3. ASSUME NEW p \in Periods
          PROVE  /\ countsBegun'[p] <= 1
                 /\ p > period => countsBegun'[p] = 0
      <4>1. p \in Nat /\ p \in AnyPeriod
        BY Basics DEF AnyPeriod
      <4>2. countsBegun[p] <= 1 /\ (p > counter[c].period => countsBegun[p] = 0)
        BY <2>1, <2>3 DEF PeriodsInOrder
      <4>3. CASE NewPeriod(c, period) /\ p = period
        <5>1. p > counter[c].period
          BY <3>2, <4>3 DEF NewPeriod
        <5>2. countsBegun'[p] = 1
          BY <1>2, <1>19, <2>3, <4>2, <4>3, <5>1
        <5> QED
          BY <3>2, <4>3, <5>2
      <4>4. CASE ~(NewPeriod(c, period) /\ p = period)
        <5>1. countsBegun'[p] = countsBegun[p]
          BY <1>2, <1>19, <4>1, <4>4
        <5> QED
          BY <3>2, <4>1, <4>2, <5>1
      <4> QED
        BY <4>3, <4>4
    <3>4. period <= plan'.period
      BY <3>0, <3>2
    <3> QED
      BY <3>1, <3>3, <3>4 DEF PeriodsInOrder
  <2> QED
    BY <2>2, <2>3
<1> QED
  BY <1>6, <1>10, <1>12, <1>13, <1>14, <1>18, <1>20, <1>21

\* A webhook waits for whoever holds the row; one that puts an older period
\* back is remembered.
LEMMA SyncKeeps ==
    ASSUME CreditsInv, NEW active \in BOOLEAN, NEW period \in AnyPeriod, SyncPlan(active, period)
    PROVE  CreditsInv'
<1>1. /\ UserFree /\ plan' = [active |-> active, period |-> period]
      /\ stale' = (stale \/ period < plan.period)
      /\ UNCHANGED <<counter, countsBegun, freeJobs, planJobs, aiRequest>>
  BY DEF SyncPlan
<1>2. plan' \in Plan /\ plan'.period = period /\ stale' \in BOOLEAN
  BY <1>1 DEF Plan, CreditsInv, CreditsTypeOK
<1>3. CreditsTypeOK'
  BY <1>1, <1>2 DEF CreditsInv, CreditsTypeOK
<1>4. Charges' /\ TrialAccounted' /\ NeverChargedTwice' /\ JobsAdmitted'
  BY <1>1 DEF CreditsInv, Charges, TrialAccounted, NeverChargedTwice, JobsAdmitted, Admitted, PlanJobsOf
<1>5. \A q \in AiRequests : ~HoldsUser(q)'
  BY <1>1 DEF UserFree, HoldsUser
<1>6. Held'
  BY <1>5 DEF Held
<1>7. ASSUME ~stale' PROVE PeriodsInOrder'
  <2>1. PeriodsInOrder /\ ~(period < plan.period)
    BY <1>1, <1>7 DEF CreditsInv
  <2>2. counter["evaluations"].period \in Nat /\ plan.period \in Nat /\ period \in Nat
    BY Basics DEF CreditsInv, CreditsTypeOK, Plan
  <2>3. counter["evaluations"].period <= period
    BY <2>1, <2>2 DEF PeriodsInOrder
  <2> QED
    BY <1>1, <1>2, <2>1, <2>3 DEF PeriodsInOrder
<1> QED
  BY <1>1, <1>3, <1>4, <1>6, <1>7 DEF CreditsInv

LEMMA InvStep == CreditsInv /\ [CreditsNext]_creditsVars => CreditsInv'
<1> SUFFICES ASSUME CreditsInv, [CreditsNext]_creditsVars PROVE CreditsInv'
  OBVIOUS
<1>1. ASSUME NEW q \in AiRequests, NEW for \in CreditJobs \union Other, LoadUser(q, for)
      PROVE  CreditsInv'
  BY <1>1, LoadKeeps
<1>2. ASSUME NEW q \in AiRequests, ResolveCredentials(q) PROVE CreditsInv'
  BY <1>2, ResolveKeeps
<1>3. ASSUME NEW q \in AiRequests, TakeCredit(q) PROVE CreditsInv'
  BY <1>3, TakeKeeps
<1>4. ASSUME NEW q \in AiRequests, CommitRequest(q) PROVE CreditsInv'
  BY <1>4, FreeCommitKeeps, CommitKeeps
<1>5. ASSUME NEW q \in AiRequests, RollBack(q) PROVE CreditsInv'
  BY <1>5, RollBackKeeps
<1>6. ASSUME NEW active \in BOOLEAN, NEW period \in AnyPeriod, SyncPlan(active, period)
      PROVE  CreditsInv'
  BY <1>6, SyncKeeps
<1>7. CASE UNCHANGED creditsVars
  BY <1>7 DEF creditsVars, CreditsInv, CreditsTypeOK, Charges, Held, HoldsUser, Allows, NewPeriod,
              Unlocked, TrialAccounted, NeverChargedTwice, JobsAdmitted, Admitted, PeriodsInOrder,
              PlanJobsOf
<1> QED
  BY <1>1, <1>2, <1>3, <1>4, <1>5, <1>6, <1>7 DEF CreditsNext

LEMMA InvHolds == CreditsSpec => []CreditsInv
BY InvInit, InvStep, PTL DEF CreditsSpec

-----------------------------------------------------------------------------
\* However requests and renewals overlap, no counter exceeds its limit.
THEOREM CreditsTypes == CreditsSpec => []CreditsTypeOK
<1>1. CreditsInv => CreditsTypeOK
  BY DEF CreditsInv
<1> QED
  BY <1>1, InvHolds, PTL

\* The trial is spent exactly on the jobs it unlocked.
THEOREM TrialIsAccounted == CreditsSpec => []TrialAccounted
<1>1. CreditsInv => TrialAccounted
  BY DEF CreditsInv
<1> QED
  BY <1>1, InvHolds, PTL

\* The plan never counts a job of a period twice.
THEOREM JobsChargedOnce == CreditsSpec => []NeverChargedTwice
<1>1. CreditsInv => NeverChargedTwice
  BY DEF CreditsInv
<1> QED
  BY <1>1, InvHolds, PTL

\* Every period's cap on distinct jobs is kept each time its count is begun:
\* once, as long as no request spends in another period than the row's and the
\* row does not go back to an older one.
THEOREM PlanCapHolds == CreditsSpec => []PlanCap
<1>1. CreditsInv => PlanCap
  <2> SUFFICES ASSUME CreditsInv, NEW period \in Periods
               PROVE  /\ Cardinality(PlanJobsOf(period)) <= PlanLimit * countsBegun[period]
                      /\ ~stale => countsBegun[period] <= 1
    BY DEF PlanCap
  <2> DEFINE u == counter["evaluations"].used
             b == countsBegun[period]
             n == Cardinality(PlanJobsOf(period))
             x == PlanLimit * (b - 1)
             y == PlanLimit * b
  <2>1. u \in Nat /\ u <= PlanLimit /\ b \in Nat /\ PlanLimit \in Nat
    BY Basics DEF CreditsInv, CreditsTypeOK, AnyPeriod
  <2>2. n \in Nat
    BY CreditsAssumption, FS_Subset, FS_CardinalityType DEF PlanJobsOf
  <2>3. x \in Int /\ y \in Int /\ x + PlanLimit = y
    BY <2>1
  <2>4. n <= x + u \/ n <= y
    BY DEF CreditsInv, JobsAdmitted, Admitted
  <2> HIDE DEF u, n, x, y
  <2>5. n <= y
    BY <2>1, <2>2, <2>3, <2>4
  <2>6. ~stale => b <= 1
    BY DEF CreditsInv, PeriodsInOrder
  <2> QED
    BY <2>5, <2>6 DEF n, y
<1> QED
  BY <1>1, InvHolds, PTL

-----------------------------------------------------------------------------
\* Billing: subscriptions mirrored from the payment service.

\* What a webhook fetched, and what is mirrored.
Fetched == [subscription : Subscriptions \union {NoSubscription}, status : Status]

Settled(s) == s \notin events /\ \A h \in Webhooks : webhook[h].subscription # s

\* Events and webhooks are about subscriptions there are, and a webhook's
\* status is the current one unless another event is to come.
FetchedHolds ==
    /\ \A s \in events : stripe[s] \notin Unpaid
    /\ \A h \in Webhooks :
          LET w == webhook[h]
          IN  /\ w.subscription = NoSubscription => w = IdleWebhook
              /\ w.subscription # NoSubscription =>
                    /\ stripe[w.subscription] \notin Unpaid
                    /\ w.subscription \notin events => w.status = stripe[w.subscription]

\* Unless two were live at once: a webhook that has fetched an active
\* subscription which is not the live one any more comes before the live one's.
LateActive ==
    \A h \in Webhooks, s \in Subscriptions :
        webhook[h].status = "active" /\ webhook[h].subscription # s /\ Live(s) => s \in events

MirrorHolds ==
    /\ mirror.subscription = NoSubscription => mirror.status = "none"
    /\ mirror.subscription # NoSubscription /\ Settled(mirror.subscription) =>
          mirror.status = stripe[mirror.subscription]

\* No two subscriptions are live: ChangeAtStripe notes when that is over.
OneLive == \A s, t \in Subscriptions : Live(s) /\ Live(t) => s = t

\* Unless two were live at once.
ActiveMirrored ==
    \A s \in Subscriptions :
        stripe[s] = "active" /\ Settled(s) => mirror = [subscription |-> s, status |-> "active"]

\* What MirrorConverges is under: webhooks do not overlap.
OneAtATime == \A g, h \in Webhooks : g = h

BillingInv ==
    /\ BillingTypeOK /\ FetchedHolds /\ MirrorHolds
    /\ ~parallel => OneLive /\ LateActive /\ ActiveMirrored

LEMMA IdleIsFetched ==
    /\ IdleWebhook \in Fetched
    /\ IdleWebhook.subscription = NoSubscription /\ IdleWebhook.status = "none"
    /\ \A s \in Subscriptions, x \in Status :
          /\ [subscription |-> s, status |-> x] \in Fetched
          /\ [subscription |-> s, status |-> x].subscription = s
          /\ [subscription |-> s, status |-> x].status = x
    /\ NoSubscription \notin Subscriptions
BY BillingAssumption DEF IdleWebhook, Fetched, Status

LEMMA BillingInvInit == BillingInit => BillingInv
<1> SUFFICES ASSUME BillingInit PROVE BillingInv
  OBVIOUS
<1>1. BillingTypeOK
  <2>1. stripe \in [Subscriptions -> Status \union Unpaid] /\ changes \in 0 .. MaxChanges
    BY BillingAssumption DEF BillingInit, Status
  <2>2. webhook \in [Webhooks -> Fetched] /\ mirror \in Fetched
    BY IdleIsFetched DEF BillingInit, Fetched, Status
  <2> QED
    BY <2>1, <2>2 DEF BillingInit, BillingTypeOK, Fetched
<1>2. OneLive /\ LateActive /\ ActiveMirrored
  BY DEF BillingInit, OneLive, LateActive, ActiveMirrored, Live
<1>3. FetchedHolds
  BY IdleIsFetched DEF BillingInit, FetchedHolds
<1>4. MirrorHolds
  BY DEF BillingInit, MirrorHolds
<1> QED
  BY <1>1, <1>2, <1>3, <1>4 DEF BillingInv

\* A checkout session is no subscription yet.
LEMMA CheckoutKeeps ==
    ASSUME BillingInv, NEW s \in Subscriptions, CreateCheckoutSession(s)
    PROVE  BillingInv'
<1>1. /\ stripe \in [Subscriptions -> Status \union Unpaid] /\ events \subseteq Subscriptions
      /\ webhook \in [Webhooks -> Fetched] /\ mirror \in Fetched
  BY DEF BillingInv, BillingTypeOK, Fetched
<1>2. /\ stripe' = [stripe EXCEPT ![s] = "checkout"] /\ stripe[s] = "none"
      /\ UNCHANGED <<mirror, events, webhook, changes, parallel>>
  BY DEF CreateCheckoutSession
<1>3. /\ stripe'[s] = "checkout" /\ stripe' \in [Subscriptions -> Status \union Unpaid]
      /\ \A t \in Subscriptions \ {s} : stripe'[t] = stripe[t]
  BY <1>1, <1>2 DEF Unpaid
<1>4. \A t \in Subscriptions :
         /\ Live(t)' = Live(t)
         /\ stripe[t] \notin Unpaid => t # s /\ stripe'[t] = stripe[t]
         /\ stripe'[t] = "active" => stripe[t] = "active"
         /\ Settled(t)' = Settled(t)
  BY <1>2, <1>3 DEF Live, Unpaid, Settled
<1>5. \A x \in Fetched : x.subscription # NoSubscription => x.subscription \in Subscriptions
  BY DEF Fetched
<1>6. BillingTypeOK'
  BY <1>1, <1>2, <1>3, <1>4, <1>5 DEF BillingInv, BillingTypeOK
<1>7. FetchedHolds'
  <2>1. \A t \in events' : stripe'[t] \notin Unpaid
    BY <1>1, <1>2, <1>4 DEF BillingInv, FetchedHolds
  <2>2. ASSUME NEW h \in Webhooks, webhook[h].subscription # NoSubscription
        PROVE  /\ stripe'[webhook[h].subscription] \notin Unpaid
               /\ webhook[h].subscription \notin events =>
                     webhook[h].status = stripe'[webhook[h].subscription]
    <3>1. webhook[h] \in Fetched
      BY <1>1
    <3>2. webhook[h].subscription \in Subscriptions
      BY <1>5, <2>2, <3>1
    <3> QED
      BY <1>4, <2>2, <3>2 DEF BillingInv, FetchedHolds
  <2> QED
    BY <1>2, <2>1, <2>2 DEF BillingInv, FetchedHolds
<1>8. MirrorHolds'
  <2>1. ASSUME mirror.subscription # NoSubscription
        PROVE  stripe'[mirror.subscription] = stripe[mirror.subscription]
               /\ Settled(mirror.subscription)' = Settled(mirror.subscription)
    <3>1. mirror.subscription \in Subscriptions
      BY <1>1, <1>5, <2>1
    <3> QED
      BY <1>2, <1>4, <2>1, <3>1 DEF BillingInv, BillingTypeOK, Settled
  <2> QED
    BY <1>2, <2>1 DEF BillingInv, MirrorHolds
<1>9. ~parallel' => OneLive' /\ LateActive' /\ ActiveMirrored'
  BY <1>2, <1>4 DEF BillingInv, OneLive, LateActive, ActiveMirrored
<1> QED
  BY <1>6, <1>7, <1>8, <1>9 DEF BillingInv

\* A subscription starts or changes: an event about it is to come.
LEMMA ChangeKeeps ==
    ASSUME BillingInv, NEW s \in Subscriptions, NEW status \in Status \ {"none"},
           ChangeAtStripe(s, status)
    PROVE  BillingInv'
<1>1. /\ stripe \in [Subscriptions -> Status \union Unpaid] /\ events \subseteq Subscriptions
      /\ changes \in 0 .. MaxChanges
      /\ webhook \in [Webhooks -> Fetched] /\ mirror \in Fetched
  BY DEF BillingInv, BillingTypeOK, Fetched
<1>2. /\ stripe' = [stripe EXCEPT ![s] = status] /\ events' = events \union {s}
      /\ changes' \in 0 .. MaxChanges
      /\ parallel' = (parallel \/ (Live(s)' /\ \E t \in Subscriptions \ {s} : Live(t)))
      /\ mirror' = mirror /\ webhook' = webhook
  BY <1>1, BillingAssumption DEF ChangeAtStripe
<1>3. /\ stripe'[s] = status /\ stripe' \in [Subscriptions -> Status \union Unpaid]
      /\ status \notin Unpaid
      /\ \A t \in Subscriptions \ {s} : stripe'[t] = stripe[t] /\ Live(t)' = Live(t)
  BY <1>1, <1>2 DEF Status, Unpaid, Live
<1>4. BillingTypeOK'
  <2>1. mirror'.subscription # NoSubscription => stripe'[mirror'.subscription] \notin Unpaid
    BY <1>1, <1>2, <1>3 DEF BillingInv, BillingTypeOK, Fetched
  <2>2. parallel' \in BOOLEAN
    BY <1>2 DEF BillingInv, BillingTypeOK
  <2> QED
    BY <1>1, <1>2, <1>3, <2>1, <2>2 DEF BillingTypeOK, Fetched
<1>5. ~parallel' => OneLive'
  BY <1>2, <1>3 DEF BillingInv, OneLive
<1>6. FetchedHolds'
  BY <1>1, <1>2, <1>3 DEF BillingInv, FetchedHolds, Fetched
<1>7. ~parallel' => LateActive'
  BY <1>1, <1>2, <1>3 DEF BillingInv, LateActive
<1>8. \A t \in Subscriptions : Settled(t)' => t # s /\ Settled(t) /\ stripe'[t] = stripe[t]
  BY <1>1, <1>2, <1>3 DEF Settled
<1>9. MirrorHolds' /\ (~parallel' => ActiveMirrored')
  <2>1. mirror.subscription # NoSubscription => mirror.subscription \in Subscriptions
    BY <1>1 DEF Fetched
  <2> QED
    BY <1>2, <1>8, <2>1 DEF BillingInv, MirrorHolds, ActiveMirrored
<1> QED
  BY <1>4, <1>5, <1>6, <1>7, <1>9 DEF BillingInv

LEMMA FetchKeeps ==
    ASSUME BillingInv, OneAtATime, NEW h \in Webhooks, NEW s \in Subscriptions, FetchSubscription(h, s)
    PROVE  BillingInv'
<1> DEFINE new == [subscription |-> s, status |-> stripe[s]]
<1>1. /\ stripe \in [Subscriptions -> Status \union Unpaid] /\ events \subseteq Subscriptions
      /\ webhook \in [Webhooks -> Fetched] /\ mirror \in Fetched
  BY DEF BillingInv, BillingTypeOK, Fetched
<1>7. stripe[s] \notin Unpaid
  BY DEF FetchSubscription, BillingInv, FetchedHolds
<1>2. new \in Fetched /\ new.subscription = s /\ new.status = stripe[s] /\ s # NoSubscription
  BY <1>1, <1>7, IdleIsFetched
<1> HIDE DEF new
<1>3. /\ webhook' = [webhook EXCEPT ![h] = new] /\ s \in events
      /\ events' \subseteq events /\ events \subseteq events' \union {s}
      /\ UNCHANGED <<stripe, mirror, changes, parallel>>
  BY DEF FetchSubscription, new
<1>4. /\ webhook' \in [Webhooks -> Fetched] /\ webhook'[h] = new
      /\ \A g \in Webhooks \ {h} : webhook'[g] = webhook[g]
  BY <1>1, <1>2, <1>3
<1>5. BillingTypeOK'
  BY <1>1, <1>3, <1>4 DEF BillingInv, BillingTypeOK, Fetched
<1>6. ~parallel' => OneLive'
  BY <1>3 DEF BillingInv, OneLive, Live
<1>8. FetchedHolds'
  <2>1. \A t \in events' : stripe'[t] \notin Unpaid
    BY <1>3 DEF BillingInv, FetchedHolds
  <2>2. \A g \in Webhooks : webhook'[g] = new
    BY <1>4 DEF OneAtATime
  <2> QED
    BY <1>2, <1>3, <1>7, <2>1, <2>2 DEF FetchedHolds
<1>9. ~parallel' => LateActive'
  <2> SUFFICES ASSUME ~parallel PROVE LateActive'
    BY <1>3
  <2>1. ASSUME NEW t \in Subscriptions, stripe[s] = "active", t # s PROVE ~Live(t)
    BY <2>1 DEF BillingInv, OneLive, Live
  <2>2. \A g \in Webhooks : webhook'[g] = new
    BY <1>4 DEF OneAtATime
  <2> QED
    BY <1>2, <1>3, <2>1, <2>2 DEF LateActive, Live
<1>10. \A t \in Subscriptions : Settled(t)' => Settled(t)
  <2>1. ~Settled(s)'
    BY <1>2, <1>4 DEF Settled
  <2>2. \A g \in Webhooks : webhook[g].subscription = NoSubscription
    BY IdleIsFetched DEF FetchSubscription, OneAtATime
  <2> QED
    BY <1>3, <2>1, <2>2, IdleIsFetched DEF Settled
<1>11. MirrorHolds' /\ (~parallel' => ActiveMirrored')
  <2>1. mirror.subscription # NoSubscription => mirror.subscription \in Subscriptions
    BY <1>1 DEF Fetched
  <2> QED
    BY <1>3, <1>10, <2>1 DEF BillingInv, MirrorHolds, ActiveMirrored
<1> QED
  BY <1>5, <1>6, <1>8, <1>9, <1>11 DEF BillingInv

LEMMA BillingSyncKeeps ==
    ASSUME BillingInv, OneAtATime, NEW h \in Webhooks, SyncSubscription(h)
    PROVE  BillingInv'
<1> DEFINE w == webhook[h]
<1>1. /\ stripe \in [Subscriptions -> Status \union Unpaid] /\ events \subseteq Subscriptions
      /\ webhook \in [Webhooks -> Fetched] /\ mirror \in Fetched
  BY DEF BillingInv, BillingTypeOK, Fetched
<1>2. /\ webhook' = [webhook EXCEPT ![h] = IdleWebhook]
      /\ mirror' \in {mirror, w}
      /\ UNCHANGED <<stripe, events, changes, parallel>>
      /\ w \in Fetched
  BY <1>1 DEF SyncSubscription
<1>3. \A g \in Webhooks : webhook'[g] = IdleWebhook /\ webhook[g] = w
  BY <1>1, <1>2 DEF OneAtATime
<1>4. /\ w.subscription \in Subscriptions /\ w.subscription # NoSubscription
      /\ stripe[w.subscription] \notin Unpaid
      /\ w.subscription \notin events => w.status = stripe[w.subscription]
  BY <1>2, IdleIsFetched DEF SyncSubscription, BillingInv, FetchedHolds, Fetched
<1>5. BillingTypeOK'
  <2>1. webhook' \in [Webhooks -> Fetched]
    BY <1>1, <1>2, IdleIsFetched
  <2> QED
    BY <1>1, <1>2, <1>4, <2>1 DEF BillingInv, BillingTypeOK, Fetched
<1>6. FetchedHolds' /\ (~parallel' => OneLive' /\ LateActive')
  BY <1>2, <1>3, IdleIsFetched DEF BillingInv, OneLive, Live, FetchedHolds, LateActive
<1>7. \A t \in Subscriptions : Settled(t)' <=> t \notin events
  BY <1>2, <1>3, IdleIsFetched DEF Settled
<1>8. \A t \in Subscriptions \ {w.subscription} : t \notin events => Settled(t)
  BY <1>3 DEF Settled
<1>9. MirrorHolds' /\ (~parallel' => ActiveMirrored')
  <2>1. CASE Ignored(w)
    <3>1. mirror' = mirror
      BY <2>1 DEF SyncSubscription
    <3>2. /\ mirror.subscription \in Subscriptions \ {w.subscription}
          /\ mirror.status = "active" /\ w.status # "active"
      BY <1>1, <2>1 DEF Ignored, Fetched
    <3>3. w.subscription \notin events => stripe[w.subscription] # "active"
      BY <1>4, <3>2
    <3> QED
      BY <1>2, <1>7, <1>8, <3>1, <3>2, <3>3 DEF BillingInv, MirrorHolds, ActiveMirrored
  <2>2. CASE ~Ignored(w)
    <3>1. mirror' = w
      BY <2>2 DEF SyncSubscription
    <3>2. w = [subscription |-> w.subscription, status |-> w.status]
      BY <1>2 DEF Fetched
    <3>3. ASSUME ~parallel, NEW t \in Subscriptions \ {w.subscription}, stripe[t] = "active",
                 t \notin events
          PROVE  FALSE
      <4>1. w.status # "active"
        BY <1>3, <3>3 DEF BillingInv, LateActive, Live
      <4>2. mirror = [subscription |-> t, status |-> "active"]
        BY <1>8, <3>3 DEF BillingInv, ActiveMirrored
      <4> QED
        BY <2>2, <4>1, <4>2, <3>3, IdleIsFetched DEF Ignored
    <3> QED
      BY <1>2, <1>4, <1>7, <3>1, <3>2, <3>3 DEF MirrorHolds, ActiveMirrored
  <2> QED
    BY <2>1, <2>2
<1> QED
  BY <1>5, <1>6, <1>9 DEF BillingInv

LEMMA FailKeeps ==
    ASSUME BillingInv, OneAtATime, NEW h \in Webhooks, WebhookFails(h)
    PROVE  BillingInv'
<1> DEFINE w == webhook[h]
<1>1. /\ stripe \in [Subscriptions -> Status \union Unpaid] /\ events \subseteq Subscriptions
      /\ webhook \in [Webhooks -> Fetched] /\ mirror \in Fetched
  BY DEF BillingInv, BillingTypeOK, Fetched
<1>2. /\ webhook' = [webhook EXCEPT ![h] = IdleWebhook]
      /\ events' = events \union {w.subscription}
      /\ UNCHANGED <<stripe, mirror, changes, parallel>>
      /\ w \in Fetched
  BY <1>1 DEF WebhookFails
<1>3. \A g \in Webhooks : webhook'[g] = IdleWebhook /\ webhook[g] = w
  BY <1>1, <1>2 DEF OneAtATime
<1>4. w.subscription \in Subscriptions /\ stripe[w.subscription] \notin Unpaid
  BY <1>2, IdleIsFetched DEF WebhookFails, BillingInv, FetchedHolds, Fetched
<1>5. BillingTypeOK'
  <2>1. webhook' \in [Webhooks -> Fetched]
    BY <1>1, <1>2, IdleIsFetched
  <2> QED
    BY <1>1, <1>2, <1>4, <2>1 DEF BillingInv, BillingTypeOK, Fetched
<1>6. FetchedHolds' /\ (~parallel' => OneLive' /\ LateActive')
  BY <1>2, <1>3, <1>4, IdleIsFetched DEF BillingInv, OneLive, Live, FetchedHolds, LateActive
<1>7. \A t \in Subscriptions : Settled(t)' => Settled(t)
  BY <1>2, <1>3, IdleIsFetched DEF Settled
<1>8. mirror.subscription # NoSubscription => mirror.subscription \in Subscriptions
  BY <1>1 DEF Fetched
<1>9. MirrorHolds' /\ (~parallel' => ActiveMirrored')
  BY <1>2, <1>7, <1>8 DEF BillingInv, MirrorHolds, ActiveMirrored
<1> QED
  BY <1>5, <1>6, <1>9 DEF BillingInv

LEMMA BillingInvStep ==
    ASSUME BillingInv, OneAtATime, [BillingNext]_billingVars
    PROVE  BillingInv'
<1>1. ASSUME NEW s \in Subscriptions, CreateCheckoutSession(s) \/ PayCheckout(s)
      PROVE  BillingInv'
  BY <1>1, CheckoutKeeps, ChangeKeeps DEF PayCheckout, Status
<1>2. ASSUME NEW s \in Subscriptions, NEW x \in Status, ChangeSubscription(s, x)
      PROVE  BillingInv'
  BY <1>2, ChangeKeeps DEF ChangeSubscription
<1>3. ASSUME NEW h \in Webhooks, NEW s \in Subscriptions, FetchSubscription(h, s)
      PROVE  BillingInv'
  BY <1>3, FetchKeeps
<1>4. ASSUME NEW h \in Webhooks, SyncSubscription(h) \/ WebhookFails(h) PROVE BillingInv'
  BY <1>4, BillingSyncKeeps, FailKeeps
<1>5. CASE UNCHANGED billingVars
  BY <1>5 DEF billingVars, BillingInv, BillingTypeOK, OneLive, Live, FetchedHolds, LateActive,
              MirrorHolds, ActiveMirrored, Settled
<1> QED
  BY <1>1, <1>2, <1>3, <1>4, <1>5 DEF BillingNext

\* For any number of subscriptions, sessions and events, lost to errors and
\* repeated: when all events are handled, one webhook after another, the user's
\* row has the latest state of the subscription it names; and, unless two were
\* live at once, it says active if and only if Stripe has an active one.
THEOREM MirrorIsRight == OneAtATime => (BillingSpec => []MirrorConverges)
<1> SUFFICES ASSUME OneAtATime PROVE BillingSpec => []MirrorConverges
  OBVIOUS
<1>1. BillingInv => MirrorConverges
  <2> SUFFICES ASSUME BillingInv, AllHandled
               PROVE  /\ mirror.subscription # NoSubscription =>
                            mirror.status = stripe[mirror.subscription]
                      /\ ~parallel => (mirror.status = "active" <=>
                                          \E s \in Subscriptions : stripe[s] = "active")
    BY DEF MirrorConverges, MirrorIsLatest
  <2>1. \A s \in Subscriptions : Settled(s)
    BY IdleIsFetched DEF Settled, AllHandled
  <2>2. mirror.subscription # NoSubscription => mirror.subscription \in Subscriptions
    BY DEF BillingInv, BillingTypeOK
  <2>3. mirror.subscription # NoSubscription => mirror.status = stripe[mirror.subscription]
    BY <2>1, <2>2 DEF BillingInv, MirrorHolds
  <2>4. mirror.status = "active" =>
            mirror.subscription \in Subscriptions /\ stripe[mirror.subscription] = "active"
    BY <2>2, <2>3 DEF BillingInv, MirrorHolds
  <2>5. ASSUME ~parallel, NEW s \in Subscriptions, stripe[s] = "active"
        PROVE  mirror.status = "active"
    BY <2>1, <2>5 DEF BillingInv, ActiveMirrored
  <2> QED
    BY <2>3, <2>4, <2>5
<1>2. BillingInit => BillingInv
  BY BillingInvInit
<1>3. BillingInv /\ [BillingNext]_billingVars => BillingInv'
  BY BillingInvStep
<1> QED
  BY <1>1, <1>2, <1>3, PTL DEF BillingSpec

-----------------------------------------------------------------------------
\* SignIn: sign-in codes and links.

Signing == [op : SignInOps, row : Row \union {0}, failed : Nat]

Asking == {q \in SignInRequests : signing[q].op \in {"link", "code"}}

\* The rows are made in order.
RowsInOrder == Issued = 1 .. Cardinality(Issued)

\* A request knows rows that are there, and a request without an operation is
\* none.
RequestsHold ==
    \A q \in SignInRequests :
        /\ signing[q].op = "none" => signing[q] = NoRequest
        /\ signing[q].op \in {"redeem", "right", "wrong", "refused"} => signing[q].row \in Issued
        /\ signing[q].row <= Cardinality(Issued)

\* Every row there is while two requests are under way is met, and so is every
\* row that those which ask for one will make.
OverlapIsMet ==
    \A p, q \in SignInRequests :
        p # q /\ signing[p] # NoRequest /\ signing[q] # NoRequest =>
            \A r \in Row : r <= Cardinality(Issued) + Cardinality(Asking) => r \in met

\* What a request that asks has not seen was made beside it.
MadeMeanwhile ==
    \A q \in Asking : \A r \in Issued : r > signing[q].row => r \in met

\* What is known of a row that requests dealt with one after another: whether
\* it signed in, and how many wrong codes, the one being counted included.
RowPast(r) ==
    /\ past[r].ins <= 1
    /\ tokens[r].unused => past[r].ins = 0
    /\ past[r].wrong <= MaxAttempts
    /\ r \notin Issued => past[r] = NoPast
    /\ (\A q \in SignInRequests : ~(signing[q].op = "wrong" /\ signing[q].row = r)) =>
          past[r].wrong = tokens[r].failed
    /\ \A q \in SignInRequests : signing[q].row = r =>
          /\ signing[q].op \in {"redeem", "right"} => tokens[r].unused
          /\ signing[q].op = "wrong" =>
                signing[q].failed = tokens[r].failed /\ past[r].wrong = tokens[r].failed + 1

CodesRetire ==
    \A old, new \in Issued \ met : old < new /\ tokens[new].kind = "code" => old \notin Unused

SignInInv ==
    /\ SignInTypeOK /\ RowsInOrder /\ RequestsHold /\ OverlapIsMet /\ MadeMeanwhile
    /\ \A r \in Row \ met : RowPast(r)
    /\ CodesRetire

LEMMA SignInBasics ==
    /\ NoRequest \in Signing /\ NoRequest.op = "none" /\ NoRequest.row = 0
    /\ NoToken \in Token /\ NoToken.kind = "none" /\ ~NoToken.unused /\ NoToken.failed = 0
    /\ NoPast \in [ins : Nat, wrong : Nat] /\ NoPast.ins = 0 /\ NoPast.wrong = 0
    /\ \A op \in SignInOps, r \in Row \union {0}, f \in Nat :
          LET s == [op |-> op, row |-> r, failed |-> f]
          IN  s \in Signing /\ s.op = op /\ s.row = r /\ s.failed = f
    /\ Row \subseteq Nat \ {0} /\ MaxTokens \in Nat /\ MaxAttempts \in Nat \ {0}
BY SignInAssumption DEF NoRequest, Signing, NoToken, Token, NoPast, SignInOps, Row

\* Any set of rows, and any set of requests, can be counted.
LEMMA Counts ==
    /\ \A S \in SUBSET Row : IsFiniteSet(S) /\ Cardinality(S) \in Nat
    /\ \A S \in SUBSET SignInRequests : 
          /\ IsFiniteSet(S) /\ Cardinality(S) \in Nat
          /\ Cardinality(S) <= Cardinality(SignInRequests)
    /\ Cardinality(SignInRequests) \in Nat
    /\ \A n \in Nat : Cardinality(1 .. n) = n
<1>1. IsFiniteSet(Row)
  BY FS_Interval, SignInAssumption DEF Row
<1>2. IsFiniteSet(SignInRequests)
  BY SignInAssumption
<1>3. \A n \in Nat : Cardinality(1 .. n) = n
  <2>1. TAKE n \in Nat
  <2>2. Cardinality(1 .. n) = IF 1 > n THEN 0 ELSE n - 1 + 1
    BY FS_Interval
  <2> QED
    BY <2>2
<1>4. ASSUME NEW S \in SUBSET Row PROVE IsFiniteSet(S) /\ Cardinality(S) \in Nat
  <2>1. IsFiniteSet(S)
    BY <1>1, FS_Subset
  <2> QED
    BY <2>1, FS_CardinalityType
<1>5. ASSUME NEW S \in SUBSET SignInRequests
      PROVE  /\ IsFiniteSet(S) /\ Cardinality(S) \in Nat
             /\ Cardinality(S) <= Cardinality(SignInRequests)
  <2>1. IsFiniteSet(S) /\ Cardinality(S) <= Cardinality(SignInRequests)
    BY <1>2, FS_Subset
  <2> QED
    BY <2>1, FS_CardinalityType
<1>6. Cardinality(SignInRequests) \in Nat
  BY <1>2, FS_CardinalityType
<1> QED
  BY <1>3, <1>4, <1>5, <1>6

LEMMA Sums == \A a, b, c \in Nat : a <= b => a <= b + c
OBVIOUS

LEMMA IssuedCounts ==
    ASSUME SignInTypeOK, RowsInOrder
    PROVE  /\ Cardinality(Issued) \in Nat
           /\ \A r \in Row : r \in Issued <=> r <= Cardinality(Issued)
           /\ Cardinality(Issued) \in Row \union {0}
           /\ Issued \subseteq Row
<1>1. Issued \subseteq Row /\ Cardinality(Issued) \in Nat
  BY Counts DEF Issued
<1>2. \A r \in Row : r \in Issued <=> r <= Cardinality(Issued)
  BY <1>1, SignInBasics DEF RowsInOrder
<1>3. Cardinality(Issued) # 0 => Cardinality(Issued) \in Issued
  BY <1>1 DEF RowsInOrder
<1> QED
  BY <1>1, <1>2, <1>3

LEMMA SignInInvInit == SignInInit => SignInInv
<1> SUFFICES ASSUME SignInInit PROVE SignInInv
  OBVIOUS
<1>1. SignInTypeOK
  BY SignInBasics DEF SignInInit, SignInTypeOK, Signing
<1>2. Issued = {} /\ Cardinality(Issued) = 0
  <2>1. Issued = {}
    BY SignInBasics DEF SignInInit, Issued
  <2> QED
    BY <2>1, FS_EmptySet
<1>3. RowsInOrder
  BY <1>2 DEF RowsInOrder
<1>4. RequestsHold /\ OverlapIsMet /\ MadeMeanwhile /\ CodesRetire
  BY <1>2, SignInBasics DEF SignInInit, RequestsHold, OverlapIsMet, MadeMeanwhile, CodesRetire
<1>5. \A r \in Row : RowPast(r)
  BY SignInBasics DEF SignInInit, RowPast, Issued
<1> QED
  BY <1>1, <1>3, <1>4, <1>5 DEF SignInInv

\* A request that starts: those it overlaps with meet every row.
LEMMA DecideKeeps ==
    ASSUME SignInInv, NEW q \in SignInRequests, NEW op \in SignInOps \ {"none"},
           NEW r \in Row \union {0}, NEW failed \in Nat, Decides(q, op, r, failed),
           r <= Cardinality(Issued),
           op \in {"link", "code"} => r = Cardinality(Issued),
           op \in {"redeem", "right", "wrong", "refused"} => r \in Issued,
           op \in {"redeem", "right"} => tokens[r].unused,
           op = "wrong" => failed = tokens[r].failed /\ failed < MaxAttempts
    PROVE  SignInInv'
<1> DEFINE new == [op |-> op, row |-> r, failed |-> failed]
<1>1. /\ signing \in [SignInRequests -> Signing] /\ tokens \in [Row -> Token]
      /\ past \in [Row -> [ins : Nat, wrong : Nat]] /\ met \subseteq Row
  BY DEF SignInInv, SignInTypeOK, Signing
<1>2. /\ new \in Signing /\ new.op = op /\ new.row = r /\ new.failed = failed
      /\ new # NoRequest
  BY SignInBasics
<1> HIDE DEF new
<1>3. /\ signing[q] = NoRequest /\ signing' = [signing EXCEPT ![q] = new]
      /\ met' = Overlaps(q) /\ tokens' = tokens
  BY DEF Decides, new
<1>4. /\ signing' \in [SignInRequests -> Signing] /\ signing'[q] = new
      /\ \A p \in SignInRequests \ {q} : signing'[p] = signing[p]
  BY <1>1, <1>2, <1>3
<1>5. Issued' = Issued /\ Unused' = Unused
  BY <1>3 DEF Issued, Unused
<1>6. met \subseteq met' /\ met' \subseteq Row
  BY <1>1, <1>3 DEF Overlaps
<1>7. \A x \in Row \ met' : 
         /\ past'[x].ins = past[x].ins
         /\ past'[x].wrong = past[x].wrong + (IF op = "wrong" /\ x = r THEN 1 ELSE 0)
         /\ past'[x] \in [ins : Nat, wrong : Nat]
         /\ op # "wrong" \/ x # r => past'[x] = past[x]
  BY <1>1 DEF Decides, Past
<1>8. SignInTypeOK'
  <2>1. past' \in [Row -> [ins : Nat, wrong : Nat]]
    BY <1>1, SignInBasics DEF Decides, Past
  <2> QED
    BY <1>1, <1>3, <1>4, <1>6, <2>1 DEF SignInTypeOK, Signing
<1>9. RowsInOrder'
  BY <1>5 DEF SignInInv, RowsInOrder
<1>10. RequestsHold'
  BY <1>2, <1>4, <1>5, SignInBasics DEF SignInInv, RequestsHold
<1>11. Cardinality(Issued) \in Nat /\ \A x \in Issued : x <= Cardinality(Issued)
  BY IssuedCounts DEF SignInInv
<1>12. ASSUME NEW p \in SignInRequests \ {q}, signing[p] # NoRequest
       PROVE  \A x \in Row : x <= Cardinality(Issued) + Cardinality(Asking') => x \in met'
  <2>1. \A x \in Row : x <= Cardinality(Issued) + Cardinality(SignInRequests) => x \in met'
    BY <1>3, <1>12 DEF Overlaps
  <2>2. Asking' \in SUBSET SignInRequests
    BY DEF Asking
  <2>3. /\ Cardinality(Asking') \in Nat /\ Cardinality(SignInRequests) \in Nat
        /\ Cardinality(Asking') <= Cardinality(SignInRequests)
    BY <2>2, Counts
  <2> QED
    BY <1>11, <2>1, <2>3, SignInBasics
<1>13. OverlapIsMet'
  <2> SUFFICES ASSUME NEW p1 \in SignInRequests, NEW p2 \in SignInRequests, p1 # p2,
                      signing'[p1] # NoRequest, signing'[p2] # NoRequest,
                      NEW x \in Row, x <= Cardinality(Issued) + Cardinality(Asking')
               PROVE  x \in met'
    BY <1>5 DEF OverlapIsMet
  <2>1. CASE p1 # q /\ signing[p1] # NoRequest
    BY <2>1, <1>12
  <2>2. CASE p2 # q /\ signing[p2] # NoRequest
    BY <2>2, <1>12
  <2> QED
    BY <1>4, <2>1, <2>2
<1>14. MadeMeanwhile'
  <2> SUFFICES ASSUME NEW p \in SignInRequests, signing'[p].op \in {"link", "code"},
                      NEW x \in Issued, x > signing'[p].row
               PROVE  x \in met'
    BY <1>5 DEF MadeMeanwhile, Asking
  <2>1. CASE p = q
    <3>1. x > Cardinality(Issued)
      BY <2>1, <1>2, <1>4
    <3> QED
      BY <3>1, <1>11, SignInBasics DEF Issued
  <2>2. CASE p # q
    BY <2>2, <1>4, <1>6 DEF SignInInv, MadeMeanwhile, Asking
  <2> QED
    BY <2>1, <2>2
<1>15. ASSUME NEW x \in Row \ met' PROVE RowPast(x)'
  <2>1. RowPast(x) /\ x \notin met
    BY <1>6 DEF SignInInv
  <2>2. CASE x # r
    <3>1. past'[x] = past[x]
      BY <2>2, <1>7
    <3>2. signing[q].row # x /\ signing'[q].row # x
      BY <2>2, <1>2, <1>3, <1>4, SignInBasics
    <3>3. \A p \in SignInRequests : signing'[p].row = x \/ signing[p].row = x => signing'[p] = signing[p]
      BY <3>2, <1>4
    <3>4. (\A p \in SignInRequests : ~(signing'[p].op = "wrong" /\ signing'[p].row = x)) =>
            \A p \in SignInRequests : ~(signing[p].op = "wrong" /\ signing[p].row = x)
      BY <3>3
    <3> QED
      BY <2>1, <3>1, <3>3, <3>4, <1>3, <1>5 DEF RowPast
  <2>3. CASE x = r
    <3>1. ASSUME NEW p \in SignInRequests, p # q, signing[p].row = x, x \in Issued PROVE signing[p] = NoRequest
      <4>1. Asking' \in SUBSET SignInRequests
        BY DEF Asking
      <4>2. Cardinality(Asking') \in Nat
        BY <4>1, Counts
      <4>3. x \in Nat /\ Cardinality(Issued) \in Nat /\ x <= Cardinality(Issued)
        BY <3>1, <1>11, SignInBasics
      <4>4. x <= Cardinality(Issued) + Cardinality(Asking')
        BY <4>2, <4>3
      <4> QED
        BY <3>1, <1>12, <4>4
    <3>2. CASE op \in {"link", "code", "refused"}
      BY <2>1, <2>3, <3>2, <1>2, <1>3, <1>4, <1>5, <1>7, SignInBasics DEF RowPast
    <3>3. CASE op \in {"redeem", "right"}
      <4>1. past'[x] = past[x] /\ tokens'[x] = tokens[x] /\ tokens[x].unused
        BY <2>3, <3>3, <1>3, <1>7
      <4>2. signing[q].op = "none" /\ signing'[q].op \in {"redeem", "right"}
        BY <3>3, <1>2, <1>3, <1>4, SignInBasics
      <4>3. (\A p \in SignInRequests : ~(signing'[p].op = "wrong" /\ signing'[p].row = x)) =>
              \A p \in SignInRequests : ~(signing[p].op = "wrong" /\ signing[p].row = x)
        BY <4>2, <1>4
      <4>4. \A p \in SignInRequests : signing'[p].row = x =>
              /\ signing'[p].op \in {"redeem", "right"} => tokens'[x].unused
              /\ signing'[p].op = "wrong" =>
                    signing'[p].failed = tokens'[x].failed /\ past'[x].wrong = tokens'[x].failed + 1
        BY <2>1, <4>1, <4>2, <1>4 DEF RowPast
      <4> QED
        BY <2>1, <4>1, <4>3, <4>4, <1>5 DEF RowPast
    <3>4. CASE op = "wrong"
      <4>1. x \in Issued /\ \A p \in SignInRequests : signing[p].row = x => signing[p].op = "none"
        BY <2>3, <3>1, <3>4, <1>3, SignInBasics
      <4>2. past[x].wrong = tokens[x].failed
        BY <2>1, <4>1 DEF RowPast
      <4>3. past'[x].wrong = tokens[x].failed + 1 /\ tokens[x].failed < MaxAttempts
        BY <1>7, <2>3, <3>4, <4>2
      <4>4. \A p \in SignInRequests \ {q} : signing'[p].row = x => signing'[p].op = "none"
        BY <1>4, <4>1
      <4>5. tokens[x].failed \in Nat
        BY <1>1 DEF Token
      <4> QED
        BY <2>1, <2>3, <3>4, <4>1, <4>3, <4>4, <4>5, <1>2, <1>3, <1>4, <1>5, <1>7, SignInBasics DEF RowPast
    <3> QED
      BY <3>2, <3>3, <3>4 DEF SignInOps
  <2> QED
    BY <2>2, <2>3
<1>16. CodesRetire'
  BY <1>3, <1>5, <1>6 DEF SignInInv, CodesRetire
<1> QED
  BY <1>8, <1>9, <1>10, <1>13, <1>14, <1>15, <1>16 DEF SignInInv

\* A request that ends without a word.
LEMMA EndKeeps ==
    ASSUME SignInInv, NEW q \in SignInRequests,
           signing[q].op # "wrong",
           signing' = [signing EXCEPT ![q] = NoRequest], UNCHANGED <<tokens, past, met>>
    PROVE  SignInInv'
<1>1. /\ signing \in [SignInRequests -> Signing] /\ tokens \in [Row -> Token]
      /\ past \in [Row -> [ins : Nat, wrong : Nat]] /\ met \subseteq Row
  BY DEF SignInInv, SignInTypeOK, Signing
<1>2. /\ signing' \in [SignInRequests -> Signing] /\ signing'[q] = NoRequest
      /\ \A p \in SignInRequests \ {q} : signing'[p] = signing[p]
  BY <1>1, SignInBasics
<1>3. Issued' = Issued /\ Unused' = Unused
  BY DEF Issued, Unused
<1>4. Asking' \subseteq Asking /\ Asking \in SUBSET SignInRequests
  BY <1>2, SignInBasics DEF Asking
<1>5. Cardinality(Asking') \in Nat /\ Cardinality(Asking) \in Nat
      /\ Cardinality(Asking') <= Cardinality(Asking)
  BY <1>4, Counts, FS_Subset
<1>6. Cardinality(Issued) \in Nat
  BY IssuedCounts DEF SignInInv
<1>7. SignInTypeOK'
  BY <1>1, <1>2 DEF SignInInv, SignInTypeOK, Signing
<1>8. RowsInOrder' /\ RequestsHold' /\ CodesRetire'
  BY <1>2, <1>3, <1>6, SignInBasics DEF SignInInv, RowsInOrder, RequestsHold, CodesRetire
<1>9. OverlapIsMet'
  BY <1>2, <1>3, <1>5, <1>6, SignInBasics DEF SignInInv, OverlapIsMet
<1>10. MadeMeanwhile'
  BY <1>2, <1>3, <1>4, SignInBasics DEF SignInInv, MadeMeanwhile, Asking
<1>11. ASSUME NEW x \in Row \ met' PROVE RowPast(x)'
  <2>1. RowPast(x)
    BY DEF SignInInv
  <2> QED
    BY <2>1, <1>2, <1>3, SignInBasics DEF RowPast
<1> QED
  BY <1>7, <1>8, <1>9, <1>10, <1>11 DEF SignInInv

\* A request that writes to its row and ends: no other one deals with it.
LEMMA RowKeeps ==
    ASSUME SignInInv, NEW q \in SignInRequests,
           signing[q].op \in {"redeem", "right", "wrong"},
           NEW t \in Token, t.kind = tokens[signing[q].row].kind,
           t.unused => tokens[signing[q].row].unused,
           tokens' = [tokens EXCEPT ![signing[q].row] = t],
           signing' = [signing EXCEPT ![q] = NoRequest],
           met' = met, past' \in [Row -> [ins : Nat, wrong : Nat]],
           \A x \in Row \ met : x # signing[q].row => past'[x] = past[x],
           signing[q].row \notin met =>
               LET r == signing[q].row
               IN  /\ past'[r].wrong = past[r].wrong
                   /\ \/ past'[r].ins = past[r].ins
                      \/ past'[r].ins = past[r].ins + 1 /\ tokens[r].unused /\ ~t.unused
                   /\ t.failed = past[r].wrong
    PROVE  SignInInv'
<1> DEFINE r == signing[q].row
<1>1. /\ signing \in [SignInRequests -> Signing] /\ tokens \in [Row -> Token]
      /\ past \in [Row -> [ins : Nat, wrong : Nat]] /\ met \subseteq Row
  BY DEF SignInInv, SignInTypeOK, Signing
<1>2. /\ signing' \in [SignInRequests -> Signing] /\ signing'[q] = NoRequest
      /\ \A p \in SignInRequests \ {q} : signing'[p] = signing[p]
  BY <1>1, SignInBasics
<1>3. r \in Issued /\ r \in Row /\ signing[q] # NoRequest
  BY SignInBasics DEF SignInInv, RequestsHold, Issued
<1>4. /\ tokens' \in [Row -> Token] /\ tokens'[r] = t
      /\ \A x \in Row \ {r} : tokens'[x] = tokens[x]
  BY <1>1, <1>3
<1>5. Issued' = Issued /\ Unused' \subseteq Unused
  BY <1>4, <1>3 DEF Issued, Unused
<1>6. \A x \in Row : tokens'[x].kind = tokens[x].kind
  BY <1>4
<1>7. Asking' = Asking
  BY <1>2, SignInBasics DEF Asking
<1>8. SignInTypeOK'
  BY <1>1, <1>2, <1>4 DEF SignInInv, SignInTypeOK, Signing
<1>9. RowsInOrder' /\ RequestsHold' /\ CodesRetire'
  BY <1>1, <1>2, <1>5, <1>6, SignInBasics, IssuedCounts DEF SignInInv, RowsInOrder, RequestsHold, CodesRetire
<1>10. OverlapIsMet' /\ MadeMeanwhile'
  BY <1>2, <1>5, <1>7 DEF SignInInv, OverlapIsMet, MadeMeanwhile, Asking
<1>11. ASSUME NEW x \in Row \ met' PROVE RowPast(x)'
  <2>1. RowPast(x)
    BY <1>1 DEF SignInInv
  <2>2. CASE x # r
    BY <2>1, <2>2, <1>2, <1>3, <1>4, <1>5, SignInBasics DEF RowPast
  <2>3. CASE x = r
    <3>1. ASSUME NEW p \in SignInRequests, p # q, signing[p].row = x PROVE signing[p] = NoRequest
      <4>1. Asking \in SUBSET SignInRequests
        BY DEF Asking
      <4>2. Cardinality(Asking) \in Nat /\ Cardinality(Issued) \in Nat /\ x <= Cardinality(Issued)
        BY <2>3, <1>3, <4>1, Counts, IssuedCounts DEF SignInInv
      <4>3. x <= Cardinality(Issued) + Cardinality(Asking)
        BY <4>2, SignInBasics
      <4> QED
        BY <3>1, <1>3, <4>3 DEF SignInInv, OverlapIsMet
    <3>2. \A p \in SignInRequests : signing'[p].row # x
      BY <3>1, <1>2, <1>3, SignInBasics
    <3>3. past'[x].ins <= 1 /\ (t.unused => past'[x].ins = 0)
      BY <2>1, <2>3, <1>1 DEF RowPast
    <3> QED
      BY <2>1, <2>3, <3>2, <3>3, <1>1, <1>3, <1>4, <1>5 DEF RowPast
  <2> QED
    BY <2>2, <2>3
<1> QED
  BY <1>8, <1>9, <1>10, <1>11 DEF SignInInv

LEMMA CountKeeps ==
    ASSUME SignInInv, NEW q \in SignInRequests, CountWrong(q)
    PROVE  SignInInv'
<1> DEFINE r == signing[q].row
           t == [tokens[r] EXCEPT !.failed = signing[q].failed + 1]
<1>1. /\ signing[q] \in Signing /\ tokens \in [Row -> Token]
      /\ past \in [Row -> [ins : Nat, wrong : Nat]]
  BY DEF SignInInv, SignInTypeOK, Signing
<1>2. r \in Row /\ signing[q].failed \in Nat
  BY <1>1 DEF CountWrong, SignInInv, RequestsHold, Issued, Signing
<1>3. tokens[r] \in Token
  BY <1>1, <1>2
<1>4. /\ t \in Token /\ t.kind = tokens[r].kind /\ t.unused = tokens[r].unused
      /\ t.failed = signing[q].failed + 1
  BY <1>2, <1>3 DEF Token
<1>5. tokens' = [tokens EXCEPT ![r] = t]
  BY DEF CountWrong
<1>6. r \notin met => t.failed = past[r].wrong
  BY <1>2, <1>4 DEF SignInInv, RowPast, CountWrong
<1> HIDE DEF t
<1> QED
  BY <1>1, <1>4, <1>5, <1>6, RowKeeps DEF CountWrong

LEMMA StartKeeps ==
    ASSUME SignInInv, NEW q \in SignInRequests, StartSession(q)
    PROVE  SignInInv'
<1> DEFINE r == signing[q].row
           t == [tokens[r] EXCEPT !.unused = FALSE]
<1>1. /\ signing[q] \in Signing /\ tokens \in [Row -> Token]
      /\ past \in [Row -> [ins : Nat, wrong : Nat]] /\ met \subseteq Row
  BY DEF SignInInv, SignInTypeOK, Signing
<1>2. r \in Row
  BY <1>1 DEF StartSession, SignInInv, RequestsHold, Issued
<1>3. tokens[r] \in Token
  BY <1>1, <1>2
<1>4. t \in Token /\ t.kind = tokens[r].kind /\ ~t.unused /\ t.failed = tokens[r].failed
  BY <1>3 DEF Token
<1>5. tokens' = [tokens EXCEPT ![r] = t] /\ met' = met
      /\ signing[q].op \in {"redeem", "right", "wrong"}
      /\ signing' = [signing EXCEPT ![q] = NoRequest]
  BY DEF StartSession
<1>6. past' \in [Row -> [ins : Nat, wrong : Nat]]
  BY <1>1, SignInBasics DEF StartSession, Past
<1>7. \A x \in Row \ met : x # r => past'[x] = past[x]
  BY <1>5 DEF StartSession, Past
<1>8. r \notin met => past'[r].ins = past[r].ins + 1 /\ past'[r].wrong = past[r].wrong
  BY <1>1, <1>2, <1>5 DEF StartSession, Past
<1>9. ASSUME r \notin met PROVE tokens[r].unused /\ t.failed = past[r].wrong
  <2>1. RowPast(r)
    BY <1>2, <1>9 DEF SignInInv
  <2>2. ASSUME NEW p \in SignInRequests, signing[p].op = "wrong", signing[p].row = r PROVE FALSE
    <3>1. p # q /\ signing[p] # NoRequest /\ signing[q] # NoRequest
      BY <2>2, SignInBasics DEF StartSession
    <3>2. r \in Issued /\ Asking \in SUBSET SignInRequests
      BY <1>5 DEF SignInInv, RequestsHold, Asking
    <3>3. Cardinality(Asking) \in Nat /\ Cardinality(Issued) \in Nat /\ r <= Cardinality(Issued)
      BY <1>2, <3>2, Counts, IssuedCounts DEF SignInInv
    <3>4. r <= Cardinality(Issued) + Cardinality(Asking)
      BY <1>2, <3>3, Sums, SignInBasics
    <3> QED
      BY <1>2, <1>9, <3>1, <3>4 DEF SignInInv, OverlapIsMet
  <2> QED
    BY <2>1, <2>2, <1>4 DEF RowPast, StartSession
<1> HIDE DEF t
<1> QED
  BY <1>4, <1>5, <1>6, <1>7, <1>8, <1>9, RowKeeps

\* The row made is the next one, and a code retires what its request has seen.
LEMMA IssueKeeps ==
    ASSUME SignInInv, NEW q \in SignInRequests, Issue(q)
    PROVE  SignInInv'
<1> DEFINE kind == signing[q].op
           n    == Cardinality(Issued)
           seen == signing[q].row
           t    == [kind |-> kind, unused |-> TRUE, fresh |-> TRUE, recent |-> TRUE, failed |-> 0]
<1>1. /\ signing \in [SignInRequests -> Signing] /\ tokens \in [Row -> Token]
      /\ past \in [Row -> [ins : Nat, wrong : Nat]] /\ met \subseteq Row
  BY DEF SignInInv, SignInTypeOK, Signing
<1>2. /\ kind \in {"link", "code"} /\ n + 1 \in Row /\ met' = met /\ past' = past
      /\ signing' = [signing EXCEPT ![q] = NoRequest]
  BY DEF Issue
<1>3. t \in Token /\ t.kind = kind /\ t.unused /\ t.failed = 0 /\ kind # "none"
  BY <1>2 DEF Token
<1> HIDE DEF t
<1>4. n \in Nat /\ \A x \in Row : x \in Issued <=> x <= n
  BY IssuedCounts DEF SignInInv
<1>5. seen \in Nat /\ seen <= n
  <2>1. signing[q] \in Signing /\ seen <= n
    BY <1>1 DEF SignInInv, RequestsHold
  <2>2. seen \in Row \union {0}
    BY <2>1 DEF Signing
  <2> QED
    BY <2>1, <2>2, SignInBasics
<1>6. \A x \in Row \ {n + 1} :
         tokens'[x] = IF kind = "code" /\ x <= seen THEN [tokens[x] EXCEPT !.unused = FALSE]
                      ELSE tokens[x]
  BY <1>1, <1>2 DEF Issue
<1>7. tokens'[n + 1] = t
  BY <1>1, <1>2 DEF Issue, t
<1>8. \A x \in Row \ {n + 1} :
         /\ tokens'[x] \in Token /\ tokens'[x].kind = tokens[x].kind
         /\ tokens'[x].failed = tokens[x].failed
         /\ tokens'[x].unused => tokens[x].unused
         /\ kind = "code" /\ x <= seen => ~tokens'[x].unused
         /\ ~(kind = "code" /\ x <= seen) => tokens'[x] = tokens[x]
  BY <1>1, <1>6 DEF Token
<1>9. tokens' \in [Row -> Token]
  <2>1. tokens' = [x \in Row |-> tokens'[x]]
    BY <1>1, <1>2 DEF Issue
  <2>2. \A x \in Row : tokens'[x] \in Token
    BY <1>2, <1>3, <1>7, <1>8
  <2> QED
    BY <2>1, <2>2
<1>10. /\ signing' \in [SignInRequests -> Signing] /\ signing'[q] = NoRequest
       /\ \A p \in SignInRequests \ {q} : signing'[p] = signing[p]
  BY <1>1, <1>2, SignInBasics
<1>11. Issued' = Issued \union {n + 1} /\ n + 1 \notin Issued
  <2>1. n + 1 \notin Issued
    BY <1>2, <1>4
  <2>2. n + 1 \in Issued'
    BY <1>2, <1>3, <1>7 DEF Issued
  <2>3. ASSUME NEW x \in Row \ {n + 1} PROVE x \in Issued' <=> x \in Issued
    BY <1>8 DEF Issued
  <2>4. Issued \subseteq Row /\ Issued' \subseteq Row
    BY DEF Issued
  <2> HIDE DEF n
  <2> QED
    BY <2>1, <2>2, <2>3, <2>4
<1>12. Issued' = 1 .. n + 1 /\ Cardinality(Issued') = n + 1
  <2>1. Issued' = 1 .. n + 1
    BY <1>4, <1>11 DEF SignInInv, RowsInOrder
  <2> QED
    BY <1>4, <2>1, Counts
<1>13. Asking' = Asking \ {q} /\ q \in Asking /\ Asking \in SUBSET SignInRequests
  BY <1>2, <1>10, SignInBasics DEF Asking
<1>14. Cardinality(Asking) \in Nat /\ Cardinality(Asking') = Cardinality(Asking) - 1
       /\ Cardinality(Asking) >= 1
  <2>1. IsFiniteSet(Asking) /\ Cardinality(Asking) \in Nat /\ Cardinality(Asking') \in Nat
    BY <1>13, Counts
  <2>2. Cardinality(Asking') = Cardinality(Asking) - 1
    BY <1>13, <2>1, FS_RemoveElement
  <2> QED
    BY <2>1, <2>2
<1>15. SignInTypeOK'
  BY <1>1, <1>2, <1>9, <1>10 DEF SignInTypeOK, Signing
<1>16. RowsInOrder'
  BY <1>12 DEF RowsInOrder
<1>17. RequestsHold'
  <2> SUFFICES ASSUME NEW p \in SignInRequests
               PROVE  /\ signing'[p].op = "none" => signing'[p] = NoRequest
                      /\ signing'[p].op \in {"redeem", "right", "wrong", "refused"} =>
                            signing'[p].row \in Issued'
                      /\ signing'[p].row <= Cardinality(Issued')
    BY DEF RequestsHold
  <2>1. CASE p = q
    BY <2>1, <1>4, <1>10, <1>12, SignInBasics
  <2>2. CASE p # q
    <3>1. signing[p] \in Signing /\ signing'[p] = signing[p] /\ signing[p].row <= n
      BY <2>2, <1>1, <1>10 DEF SignInInv, RequestsHold
    <3>2. signing[p].row \in Nat
      BY <3>1, SignInBasics DEF Signing
    <3>3. signing'[p].row <= Cardinality(Issued')
      BY <3>1, <3>2, <1>4, <1>12
    <3> QED
      BY <3>1, <3>3, <1>11 DEF SignInInv, RequestsHold
  <2> QED
    BY <2>1, <2>2
<1>18. OverlapIsMet'
  BY <1>2, <1>4, <1>10, <1>12, <1>14, SignInBasics DEF SignInInv, OverlapIsMet
<1>19. signing[q] # NoRequest
  BY <1>2, SignInBasics
<1>20. ASSUME NEW p \in SignInRequests \ {q}, signing[p] # NoRequest
       PROVE  \A x \in Row : x <= n + 1 => x \in met
  BY <1>4, <1>14, <1>19, <1>20, SignInBasics DEF SignInInv, OverlapIsMet
<1>21. MadeMeanwhile'
  <2> SUFFICES ASSUME NEW p \in Asking', NEW x \in Issued', x > signing'[p].row
               PROVE  x \in met
    BY <1>2 DEF MadeMeanwhile
  <2>1. p \in SignInRequests \ {q} /\ signing[p] # NoRequest
    BY <1>10, <1>13, SignInBasics DEF Asking
  <2>2. x \in Row /\ x <= n + 1
    BY <1>12 DEF Issued
  <2> QED
    BY <2>1, <2>2, <1>20
<1>22. ASSUME NEW x \in Row \ met PROVE RowPast(x)'
  <2>1. RowPast(x)
    BY DEF SignInInv
  <2>2. ASSUME NEW p \in SignInRequests \ {q}, signing[p] # NoRequest PROVE x > n + 1
    <3>1. ~(x <= n + 1)
      BY <2>2, <1>20
    <3>2. x \in Nat /\ n + 1 \in Nat
      BY <1>4, SignInBasics
    <3> HIDE DEF n
    <3> QED
      BY <3>1, <3>2
  <2>3. CASE x = n + 1
    <3>1. past[x] = NoPast
      BY <2>1, <2>3, <1>11 DEF RowPast
    <3>2. \A p \in SignInRequests : signing'[p] = NoRequest
      BY <2>2, <2>3, <1>4, <1>10
    <3> QED
      BY <2>3, <3>1, <3>2, <1>2, <1>3, <1>7, <1>11, SignInBasics DEF RowPast
  <2>4. CASE x # n + 1
    <3>1. /\ tokens'[x].failed = tokens[x].failed /\ (tokens'[x].unused => tokens[x].unused)
          /\ (x \in Issued' <=> x \in Issued)
      BY <2>4, <1>8, <1>11
    <3>2. x <= n => \A p \in SignInRequests : signing'[p] = NoRequest
      BY <2>2, <1>4, <1>10, SignInBasics
    <3>3. x <= n =>
            \A p \in SignInRequests : ~(signing[p].op = "wrong" /\ signing[p].row = x)
      BY <2>2, <1>2, <1>4, SignInBasics
    <3>4. x > n => tokens'[x] = tokens[x]
      BY <2>4, <1>4, <1>5, <1>8, SignInBasics
    <3>5. CASE x <= n
      BY <2>1, <3>1, <3>2, <3>3, <3>5, <1>2, SignInBasics DEF RowPast
    <3>6. CASE x > n
      BY <2>1, <3>1, <3>4, <3>6, <1>2, <1>10, SignInBasics DEF RowPast
    <3> QED
      BY <3>5, <3>6, <1>4, SignInBasics
  <2> QED
    BY <2>3, <2>4
<1>23. CodesRetire'
  <2> SUFFICES ASSUME NEW old \in Issued' \ met, NEW new \in Issued' \ met,
                      old < new, tokens'[new].kind = "code", old \in Unused'
               PROVE  FALSE
    BY <1>2 DEF CodesRetire
  <2>1. old \in Issued /\ old \in Row /\ old # n + 1 /\ new \in Row /\ new <= n + 1
    BY <1>4, <1>11, <1>12, SignInBasics DEF Issued
  <2>2. tokens'[old].unused /\ old \in Unused
    BY <2>1, <1>8 DEF Unused
  <2>3. CASE new = n + 1
    <3>1. kind = "code"
      BY <2>3, <1>3, <1>7
    <3>2. old > seen
      BY <2>1, <2>2, <3>1, <1>5, <1>8, SignInBasics
    <3> QED
      BY <2>1, <3>2, <1>13 DEF SignInInv, MadeMeanwhile
  <2>4. CASE new # n + 1
    <3>1. new \in Issued /\ tokens[new].kind = "code"
      BY <2>1, <2>4, <1>8, <1>11
    <3> QED
      BY <2>1, <2>2, <3>1 DEF SignInInv, CodesRetire
  <2> QED
    BY <2>3, <2>4
<1> QED
  BY <1>2, <1>15, <1>16, <1>17, <1>18, <1>21, <1>22, <1>23 DEF SignInInv

LEMMA AgeKeeps ==
    ASSUME SignInInv, NEW r \in Row, TokenAges(r)
    PROVE  SignInInv'
<1> DEFINE t == [tokens[r] EXCEPT !.recent = tokens[r].fresh, !.fresh = FALSE]
<1>1. tokens \in [Row -> Token]
  BY DEF SignInInv, SignInTypeOK
<1>2. /\ t \in Token /\ t.kind = tokens[r].kind /\ t.unused = tokens[r].unused
      /\ t.failed = tokens[r].failed
  BY <1>1 DEF Token
<1>3. tokens' = [tokens EXCEPT ![r] = t] /\ UNCHANGED <<signing, past, met>>
  BY <1>1 DEF TokenAges
<1> HIDE DEF t
<1>4. /\ tokens' \in [Row -> Token]
      /\ \A x \in Row : /\ tokens'[x].kind = tokens[x].kind
                        /\ tokens'[x].unused = tokens[x].unused
                        /\ tokens'[x].failed = tokens[x].failed
  BY <1>1, <1>2, <1>3
<1>5. Issued' = Issued /\ Unused' = Unused
  BY <1>4 DEF Issued, Unused
<1>6. SignInTypeOK'
  BY <1>3, <1>4 DEF SignInInv, SignInTypeOK
<1>7. RowsInOrder' /\ RequestsHold' /\ OverlapIsMet' /\ MadeMeanwhile'
  BY <1>3, <1>5 DEF SignInInv, RowsInOrder, RequestsHold, OverlapIsMet, MadeMeanwhile, Asking
<1>8. \A x \in Row \ met : RowPast(x)'
  BY <1>3, <1>4, <1>5 DEF SignInInv, RowPast
<1>9. CodesRetire'
  BY <1>3, <1>4, <1>5 DEF SignInInv, CodesRetire, Issued
<1> QED
  BY <1>3, <1>6, <1>7, <1>8, <1>9 DEF SignInInv

LEMMA SignInInvStep ==
    ASSUME SignInInv, [SignInNext]_signInVars
    PROVE  SignInInv'
<1>1. Cardinality(Issued) \in Row \union {0} /\ \A r \in Issued : r \in Row /\ r <= Cardinality(Issued)
  BY IssuedCounts DEF SignInInv
<1>2. tokens \in [Row -> Token]
  BY DEF SignInInv, SignInTypeOK
<1>3. ASSUME NEW q \in SignInRequests, NEW kind \in {"link", "code"}, AskFor(q, kind)
      PROVE  SignInInv'
  <2>1. Decides(q, kind, Cardinality(Issued), 0)
    BY <1>3 DEF AskFor
  <2>2. kind \in SignInOps \ {"none"} /\ kind \in {"link", "code"}
    BY DEF SignInOps
  <2>3. Cardinality(Issued) <= Cardinality(Issued) /\ 0 \in Nat
    <3>1. \A k \in Row \union {0} : k <= k
      BY SignInBasics
    <3> QED
      BY <3>1, <1>1
  <2> QED
    BY <1>1, <2>1, <2>2, <2>3, DecideKeeps
<1>4. ASSUME NEW q \in SignInRequests, NEW right \in BOOLEAN, VerifyCode(q, right)
      PROVE  SignInInv'
  <2> DEFINE outcome(r) ==
               IF ~tokens[r].fresh \/ tokens[r].failed >= MaxAttempts THEN "refused"
               ELSE IF right /\ tokens[r].kind = "code" THEN "right" ELSE "wrong"
  <2>1. PICK r \in Unused : Decides(q, outcome(r), r, tokens[r].failed)
    BY <1>4 DEF VerifyCode
  <2>2. r \in Issued /\ tokens[r].unused /\ tokens[r].failed \in Nat /\ r \in Row /\ tokens[r].fresh \in BOOLEAN
    BY <1>1, <1>2 DEF Unused, Token
  <2>3. CASE ~tokens[r].fresh \/ tokens[r].failed >= MaxAttempts
    <3>1. outcome(r) = "refused"
      BY <2>2, <2>3, SignInBasics
    <3> QED
      BY <1>1, <2>1, <2>2, <3>1, DecideKeeps DEF SignInOps
  <2>4. CASE tokens[r].fresh /\ tokens[r].failed < MaxAttempts /\ right /\ tokens[r].kind = "code"
    <3>1. Decides(q, "right", r, tokens[r].failed)
      BY <2>1, <2>2, <2>4, SignInBasics
    <3> QED
      BY <1>1, <2>2, <3>1, DecideKeeps DEF SignInOps
  <2>5. CASE tokens[r].fresh /\ tokens[r].failed < MaxAttempts /\ ~(right /\ tokens[r].kind = "code")
    <3>1. Decides(q, "wrong", r, tokens[r].failed)
      BY <2>1, <2>2, <2>5, SignInBasics
    <3> QED
      BY <1>1, <2>2, <2>5, <3>1, DecideKeeps DEF SignInOps
  <2> QED
    BY <2>2, <2>3, <2>4, <2>5, SignInBasics
<1>5. ASSUME NEW q \in SignInRequests, NEW r \in Row, RedeemLink(q, r)
      PROVE  SignInInv'
  <2>1. r \in Issued
    BY <1>5 DEF RedeemLink, Issued
  <2>2. CASE tokens[r].unused /\ tokens[r].fresh
    BY <1>1, <1>5, <2>1, <2>2, DecideKeeps DEF RedeemLink, SignInOps
  <2>3. CASE ~(tokens[r].unused /\ tokens[r].fresh)
    BY <1>1, <1>5, <2>1, <2>3, DecideKeeps DEF RedeemLink, SignInOps
  <2> QED
    BY <2>2, <2>3
<1>6. ASSUME NEW q \in SignInRequests, Refuse(q) \/ RollBackSignIn(q)
      PROVE  SignInInv'
  BY <1>6, EndKeeps DEF Refuse, RollBackSignIn
<1>7. CASE UNCHANGED signInVars
  <2>1. UNCHANGED <<tokens, signing, past, met>>
    BY <1>7 DEF signInVars
  <2>2. \A r \in Row : RowPast(r)' <=> RowPast(r)
    BY <2>1 DEF RowPast, Issued
  <2> QED
    BY <2>1, <2>2 DEF SignInInv, SignInTypeOK, RowsInOrder, RequestsHold, OverlapIsMet,
                      MadeMeanwhile, CodesRetire, Issued, Unused, Asking
<1> QED
  BY <1>3, <1>4, <1>5, <1>6, <1>7, IssueKeeps, CountKeeps, StartKeeps, AgeKeeps DEF SignInNext

\* For any number of rows and requests: a link or a code signs in once, no
\* more wrong codes are compared with a row than are allowed, and a code
\* retires what was there before, requests that overlap excepted.
THEOREM CodesAreSpent == SignInSpec => []CodesSpent
<1>1. SignInInv => CodesSpent
  <2> SUFFICES ASSUME SignInInv PROVE CodesSpent
    OBVIOUS
  <2>1. ASSUME NEW r \in Row \ met PROVE past[r].ins <= 1 /\ past[r].wrong <= MaxAttempts
    BY DEF SignInInv, RowPast
  <2>2. \A old, new \in Issued \ met :
           old < new /\ tokens[new].kind = "code" => old \notin Unused
    BY DEF SignInInv, CodesRetire
  <2> QED
    BY <2>1, <2>2 DEF CodesSpent
<1>2. SignInInit => SignInInv
  BY SignInInvInit
<1>3. SignInInv /\ [SignInNext]_signInVars => SignInInv'
  BY SignInInvStep
<1> QED
  BY <1>1, <1>2, <1>3, PTL DEF SignInSpec

-----------------------------------------------------------------------------
\* OAuthGrants: OAuth codes, tokens and their grants.

TokenPair == [refresh : TokenStates, access : TokenStates]

Call == [op : GrantOps, of : Nat]

LEMMA PairsTyped ==
    /\ NoPair \in TokenPair
    /\ [refresh |-> "live", access |-> "live"] \in TokenPair
    /\ [refresh |-> "revoked", access |-> "revoked"] \in TokenPair
    /\ \A r \in TokenPair, s \in TokenStates :
          [r EXCEPT !.access = s] \in TokenPair /\ [r EXCEPT !.refresh = s] \in TokenPair
BY DEF TokenPair, NoPair, TokenStates

LEMMA CallsTyped ==
    /\ NoCall \in Call /\ NoCall.op = "none"
    /\ \A o \in GrantOps, n \in Nat :
          /\ [op |-> o, of |-> n] \in Call
          /\ [op |-> o, of |-> n].op = o /\ [op |-> o, of |-> n].of = n
BY DEF Call, NoCall, GrantOps

LEMMA PairsAreNumbers == Pair \subseteq Nat /\ 0 \in Nat /\ 0 .. MaxCodes \subseteq Nat
BY GrantAssumption DEF Pair

-----------------------------------------------------------------------------
(* Type correctness.                                                       *)

LEMMA TypeInit == GrantInit => GrantTypeOK
<1> SUFFICES ASSUME GrantInit PROVE GrantTypeOK
  OBVIOUS
<1>1. pairs \in [Pair -> TokenPair]
  BY PairsTyped DEF GrantInit
<1>2. granting \in [GrantRequests -> Call]
  BY CallsTyped DEF GrantInit
<1>3. grant \in [code : 0 .. MaxCodes, denied : BOOLEAN, used : BOOLEAN, fresh : BOOLEAN]
  BY GrantAssumption DEF GrantInit
<1>4. crossed \in BOOLEAN
  BY DEF GrantInit
<1> QED
  BY <1>1, <1>2, <1>3, <1>4 DEF GrantTypeOK, TokenPair, Call

\* What a call begun and a call ended do to the calls under way.
LEMMA BeginTyped ==
    ASSUME GrantTypeOK, NEW q \in GrantRequests, NEW op \in GrantOps, NEW of \in Nat,
           BeginCall(q, op, of)
    PROVE  GrantTypeOK'
<1>1. granting \in [GrantRequests -> Call]
  BY DEF GrantTypeOK, Call
<1>2. granting' \in [GrantRequests -> Call]
  BY <1>1, CallsTyped DEF BeginCall
<1>3. crossed' \in BOOLEAN
  BY DEF BeginCall, GrantTypeOK
<1> QED
  BY <1>2, <1>3 DEF BeginCall, GrantTypeOK, Call

LEMMA EndTyped ==
    ASSUME GrantTypeOK, NEW q \in GrantRequests, EndCall(q)
    PROVE  granting' \in [GrantRequests -> [op : GrantOps, of : Nat]]
<1>1. granting \in [GrantRequests -> Call]
  BY DEF GrantTypeOK, Call
<1>2. granting' \in [GrantRequests -> Call]
  BY <1>1, CallsTyped DEF EndCall
<1> QED
  BY <1>2 DEF Call

LEMMA MintTyped ==
    ASSUME NEW held \in [Pair -> TokenPair], Mint(held)
    PROVE  pairs' \in [Pair -> TokenPair]
BY PairsTyped DEF Mint

LEMMA TypeStep == GrantTypeOK /\ [GrantNext]_grantVars => GrantTypeOK'
<1> SUFFICES ASSUME GrantTypeOK, [GrantNext]_grantVars PROVE GrantTypeOK'
  OBVIOUS
<1>1. pairs \in [Pair -> TokenPair]
  BY DEF GrantTypeOK, TokenPair
<1>2. ASSUME NEW q \in GrantRequests, BeginApprove(q) \/ BeginDeny(q) PROVE GrantTypeOK'
  BY <1>2, BeginTyped DEF BeginApprove, BeginDeny, GrantOps
<1>3. ASSUME NEW q \in GrantRequests, NEW code \in 1 .. MaxCodes, BeginExchange(q, code)
      PROVE  GrantTypeOK'
  <2>1. code \in Nat /\ "exchange" \in GrantOps /\ BeginCall(q, "exchange", code)
    BY <1>3 DEF BeginExchange, GrantOps
  <2> QED
    BY <2>1, BeginTyped
<1>4. ASSUME NEW q \in GrantRequests, NEW p \in Pair,
             BeginRotate(q, p) \/ BeginRevoke(q, p) \/ BeginRevokeAccess(q, p)
      PROVE  GrantTypeOK'
  BY <1>4, BeginTyped, PairsAreNumbers DEF BeginRotate, BeginRevoke, BeginRevokeAccess, GrantOps
<1>5. ASSUME NEW q \in GrantRequests, Approve(q) PROVE GrantTypeOK'
  <2>1. grant.code \in 0 .. MaxCodes /\ grant.code < MaxCodes
    BY <1>5 DEF Approve, GrantTypeOK
  <2>2. grant.code + 1 \in 0 .. MaxCodes
    BY <2>1, GrantAssumption
  <2>3. grant' \in [code : 0 .. MaxCodes, denied : BOOLEAN, used : BOOLEAN, fresh : BOOLEAN]
    BY <1>5, <2>2 DEF Approve, GrantTypeOK
  <2> QED
    BY <1>5, <2>3, EndTyped DEF Approve, GrantTypeOK
<1>6. ASSUME NEW q \in GrantRequests, Deny(q) PROVE GrantTypeOK'
  BY <1>6, EndTyped DEF Deny, GrantTypeOK
<1>7. ASSUME NEW q \in GrantRequests, ExchangeCode(q) PROVE GrantTypeOK'
  <2>1. pairs' \in [Pair -> TokenPair]
    BY <1>1, <1>7, MintTyped DEF ExchangeCode
  <2> QED
    BY <1>7, <2>1, EndTyped DEF ExchangeCode, GrantTypeOK, TokenPair
<1>8. ASSUME NEW q \in GrantRequests, Rotate(q) PROVE GrantTypeOK'
  <2>1. BothRevoked(pairs, granting[q].of) \in [Pair -> TokenPair]
    BY <1>1, PairsTyped DEF BothRevoked
  <2>2. pairs' \in [Pair -> TokenPair]
    BY <1>8, <2>1, MintTyped DEF Rotate
  <2> QED
    BY <1>8, <2>2, EndTyped DEF Rotate, GrantTypeOK, TokenPair
<1>9. ASSUME NEW q \in GrantRequests, Revoke(q) PROVE GrantTypeOK'
  <2> DEFINE p == granting[q].of
  <2>1. BothRevoked(pairs, p) \in [Pair -> TokenPair]
    BY <1>1, PairsTyped DEF BothRevoked
  <2>2. [pairs EXCEPT ![p].access = "revoked"] \in [Pair -> TokenPair]
    BY <1>1, PairsTyped DEF TokenStates
  <2>3. pairs' \in [Pair -> TokenPair]
    BY <1>9, <2>1, <2>2 DEF Revoke
  <2> QED
    BY <1>9, <2>3, EndTyped DEF Revoke, GrantTypeOK, TokenPair
<1>10. ASSUME NEW q \in GrantRequests, RollBackCall(q) PROVE GrantTypeOK'
  BY <1>10, EndTyped DEF RollBackCall, GrantTypeOK
<1>11. CASE GrantExpires
  BY <1>11 DEF GrantExpires, GrantTypeOK
<1>12. ASSUME NEW p \in Pair, PairExpires(p) PROVE GrantTypeOK'
  <2>1. pairs' \in [Pair -> TokenPair]
    <3>1. "expired" \in TokenStates /\ pairs[p] \in TokenPair
      BY <1>1 DEF TokenStates
    <3>2. CASE pairs' = [pairs EXCEPT ![p].access = "expired"]
      BY <1>1, <3>1, <3>2, PairsTyped
    <3>3. CASE pairs' = [pairs EXCEPT ![p].refresh = "expired"]
      BY <1>1, <3>1, <3>3, PairsTyped
    <3> QED
      BY <1>12, <3>2, <3>3 DEF PairExpires
  <2> QED
    BY <1>12, <2>1 DEF PairExpires, GrantTypeOK, TokenPair
<1>13. CASE UNCHANGED grantVars
  BY <1>13 DEF grantVars, GrantTypeOK
<1> QED
  BY <1>2, <1>3, <1>4, <1>5, <1>6, <1>7, <1>8, <1>9, <1>10, <1>11, <1>12, <1>13 DEF GrantNext

\* Every variable of the grants keeps its type.
THEOREM GrantTypes == GrantSpec => []GrantTypeOK
BY TypeInit, TypeStep, PTL DEF GrantSpec

-----------------------------------------------------------------------------
(* How pairs end.                                                          *)

\* A pair whose refresh token was revoked lost its access token with it.
EndTogether == \A p \in Pair : pairs[p].refresh = "revoked" => pairs[p].access = "revoked"

\* Calls that do not overlap find the rows as they left them: an exchange or
\* a denial a request still unused, a rotation the one pair that stands, and
\* what works on a pair a request that was used and not denied.
Lone ==
    /\ \A q, o \in GrantRequests : q # o => granting[q].op = "none" \/ granting[o].op = "none"
    /\ \A a, b \in Standing : a = b
    /\ grant.denied => grant.used /\ Minted = {}
    /\ ~grant.used => Minted = {}
    /\ \A q \in GrantRequests :
          /\ granting[q].op \in {"exchange", "deny"} => ~grant.used
          /\ granting[q].op = "rotate" => \A a \in Standing : a = granting[q].of
          /\ granting[q].op \in {"rotate", "revoke pair", "revoke access"} =>
                grant.used /\ ~grant.denied

GrantInv == EndTogether /\ (~crossed => Lone)

LEMMA GrantInvInit == GrantInit => GrantInv
<1> SUFFICES ASSUME GrantInit PROVE GrantInv
  OBVIOUS
<1>1. \A p \in Pair : pairs[p] = NoPair
  BY DEF GrantInit
<1>2. Minted = {} /\ Standing = {}
  BY <1>1 DEF Minted, Standing, NoPair
<1>3. EndTogether
  BY <1>1 DEF EndTogether, NoPair
<1>4. \A q \in GrantRequests : granting[q].op = "none"
  BY DEF GrantInit, NoCall
<1> QED
  BY <1>2, <1>3, <1>4 DEF GrantInit, GrantInv, Lone

\* A call that begins alone leaves the rest as it is.
LEMMA BeginKeeps ==
    ASSUME GrantTypeOK, GrantInv, NEW q \in GrantRequests, NEW op \in GrantOps, NEW of \in Nat,
           BeginCall(q, op, of),
           Lone => /\ op \in {"exchange", "deny"} => ~grant.used
                   /\ op = "rotate" => \A a \in Standing : a = of
                   /\ op \in {"rotate", "revoke pair", "revoke access"} =>
                         grant.used /\ ~grant.denied
    PROVE  GrantInv'
<1>1. EndTogether' /\ Minted' = Minted /\ Standing' = Standing /\ UNCHANGED <<grant, pairs>>
  BY DEF BeginCall, GrantInv, EndTogether, Minted, Standing
<1>2. ASSUME ~crossed' PROVE Lone'
  <2>1. Lone
    BY <1>2 DEF BeginCall, GrantInv
  <2>2. /\ \A o \in GrantRequests \ {q} : granting[o] = NoCall /\ granting'[o] = granting[o]
        /\ granting'[q] = [op |-> op, of |-> of]
    BY <1>2 DEF BeginCall, GrantTypeOK
  <2>3. \A o \in GrantRequests \ {q} : granting'[o].op = "none"
    BY <2>2, CallsTyped
  <2>4. granting'[q].op = op /\ granting'[q].of = of
    <3>1. [op |-> op, of |-> of].op = op /\ [op |-> op, of |-> of].of = of
      BY CallsTyped
    <3> QED
      BY <2>2, <3>1, Zenon
  <2>5. \A a, b \in GrantRequests : a # b => granting'[a].op = "none" \/ granting'[b].op = "none"
    BY <2>3
  <2>6. \A o \in GrantRequests :
          /\ granting'[o].op \in {"exchange", "deny"} => ~grant.used
          /\ granting'[o].op = "rotate" => \A a \in Standing : a = granting'[o].of
          /\ granting'[o].op \in {"rotate", "revoke pair", "revoke access"} =>
                grant.used /\ ~grant.denied
    BY <2>1, <2>3, <2>4
  <2> QED
    BY <1>1, <2>1, <2>5, <2>6 DEF Lone
<1> QED
  BY <1>1, <1>2 DEF GrantInv

\* A call that ends, alone, leaves none.
LEMMA EndLeavesNone ==
    ASSUME GrantTypeOK, NEW q \in GrantRequests, EndCall(q), granting[q].op # "none", Lone
    PROVE  \A o \in GrantRequests : granting'[o].op = "none"
<1>1. granting'[q] = NoCall /\ \A o \in GrantRequests \ {q} : granting'[o] = granting[o]
  BY DEF EndCall, GrantTypeOK
<1>2. \A o \in GrantRequests \ {q} : granting[o].op = "none"
  BY DEF Lone
<1> QED
  BY <1>1, <1>2, CallsTyped

\* What is minted onto pairs that end together, where at most one stands that
\* is then revoked, ends together, and stands alone.
LEMMA MintKeeps ==
    ASSUME NEW held \in [Pair -> TokenPair], Mint(held),
           \A p \in Pair : held[p].refresh = "revoked" => held[p].access = "revoked"
    PROVE  /\ EndTogether'
           /\ (\A p \in Pair : held[p].refresh # "live") => \A a, b \in Standing' : a = b
<1> DEFINE new == Cardinality(Minted) + 1
<1>1. new \in Pair /\ pairs' = [held EXCEPT ![new] = [refresh |-> "live", access |-> "live"]]
  BY DEF Mint
<1>2. pairs'[new].refresh = "live" /\ \A p \in Pair \ {new} : pairs'[p] = held[p]
  BY <1>1
<1> QED
  BY <1>2 DEF EndTogether, Standing

LEMMA GrantInvStep == GrantTypeOK /\ GrantInv /\ [GrantNext]_grantVars => GrantInv'
<1> SUFFICES ASSUME GrantTypeOK, GrantInv, [GrantNext]_grantVars PROVE GrantInv'
  OBVIOUS
<1>1. pairs \in [Pair -> TokenPair]
  BY DEF GrantTypeOK, TokenPair
<1>2. \A p \in Standing : p \in Minted
  BY DEF Standing, Minted, NoPair
<1>3. ASSUME NEW q \in GrantRequests, BeginApprove(q) \/ BeginDeny(q) PROVE GrantInv'
  BY <1>3, BeginKeeps DEF BeginApprove, BeginDeny, GrantOps, Pending
<1>4. ASSUME NEW q \in GrantRequests, NEW code \in 1 .. MaxCodes, BeginExchange(q, code)
      PROVE  GrantInv'
  <2>1. code \in Nat /\ "exchange" \in GrantOps /\ BeginCall(q, "exchange", code) /\ ~grant.used
    BY <1>4 DEF BeginExchange, GrantOps, Pending
  <2> QED
    BY <2>1, BeginKeeps
<1>5. ASSUME NEW q \in GrantRequests, NEW p \in Pair,
             BeginRotate(q, p) \/ BeginRevoke(q, p) \/ BeginRevokeAccess(q, p)
      PROVE  GrantInv'
  <2>1. p \in Nat /\ p \in Minted
    BY <1>2, <1>5, PairsAreNumbers DEF BeginRotate, BeginRevoke, BeginRevokeAccess
  <2>2. Lone => grant.used /\ ~grant.denied
    BY <2>1 DEF Lone
  <2>3. CASE BeginRotate(q, p)
    <3>1. p \in Standing /\ BeginCall(q, "rotate", p)
      BY <2>3 DEF BeginRotate
    <3>2. Lone => \A a \in Standing : a = p
      BY <3>1 DEF Lone
    <3> QED
      BY <2>1, <2>2, <3>1, <3>2, BeginKeeps DEF GrantOps
  <2>4. CASE BeginRevoke(q, p)
    BY <2>1, <2>2, <2>4, BeginKeeps DEF BeginRevoke, GrantOps
  <2>5. CASE BeginRevokeAccess(q, p)
    BY <2>1, <2>2, <2>5, BeginKeeps DEF BeginRevokeAccess, GrantOps
  <2> QED
    BY <1>5, <2>3, <2>4, <2>5
<1>6. ASSUME NEW q \in GrantRequests, Approve(q) \/ Deny(q) PROVE GrantInv'
  <2>1. EndTogether' /\ Minted' = Minted /\ Standing' = Standing /\ UNCHANGED crossed
    BY <1>6 DEF Approve, Deny, GrantInv, EndTogether, Minted, Standing
  <2>2. ASSUME Lone PROVE Lone'
    <3>1. \A o \in GrantRequests : granting'[o].op = "none"
      BY <1>6, <2>2, EndLeavesNone DEF Approve, Deny
    <3>2. CASE Approve(q)
      <4>1. grant'.used = grant.used /\ grant'.denied = grant.denied
        BY <3>2 DEF Approve, GrantTypeOK
      <4> QED
        BY <2>1, <2>2, <3>1, <4>1 DEF Lone
    <3>3. CASE Deny(q)
      <4>1. grant'.used /\ grant'.denied /\ Minted = {}
        BY <2>2, <3>3 DEF Deny, GrantTypeOK, Lone
      <4> QED
        BY <2>1, <2>2, <3>1, <4>1 DEF Lone
    <3> QED
      BY <1>6, <3>2, <3>3
  <2> QED
    BY <2>1, <2>2 DEF GrantInv
<1>7. ASSUME NEW q \in GrantRequests, ExchangeCode(q) PROVE GrantInv'
  <2>1. Mint(pairs) /\ EndCall(q) /\ UNCHANGED crossed /\ granting[q].op = "exchange"
    BY <1>7 DEF ExchangeCode
  <2>2. grant'.used /\ grant'.denied = grant.denied
    BY <1>7 DEF ExchangeCode, GrantTypeOK
  <2>3. EndTogether' /\ ((\A p \in Pair : pairs[p].refresh # "live") => \A a, b \in Standing' : a = b)
    BY <1>1, <2>1, MintKeeps DEF GrantInv, EndTogether
  <2>4. ASSUME Lone PROVE Lone'
    <3>1. ~grant.used /\ ~grant.denied /\ Standing = {}
      BY <1>2, <2>1, <2>4 DEF Lone
    <3>2. \A a, b \in Standing' : a = b
      BY <2>3, <3>1 DEF Standing
    <3>3. \A o \in GrantRequests : granting'[o].op = "none"
      BY <2>1, <2>4, EndLeavesNone
    <3> QED
      BY <2>2, <3>1, <3>2, <3>3 DEF Lone
  <2> QED
    BY <2>1, <2>3, <2>4 DEF GrantInv
<1>8. ASSUME NEW q \in GrantRequests, Rotate(q) PROVE GrantInv'
  <2> DEFINE held == BothRevoked(pairs, granting[q].of)
  <2>1. Mint(held) /\ EndCall(q) /\ UNCHANGED <<grant, crossed>> /\ granting[q].op = "rotate"
    BY <1>8 DEF Rotate
  <2>2. held \in [Pair -> TokenPair]
    BY <1>1, PairsTyped DEF BothRevoked
  <2>3. \A p \in Pair :
          held[p] = IF p = granting[q].of THEN [refresh |-> "revoked", access |-> "revoked"]
                    ELSE pairs[p]
    BY <1>1 DEF BothRevoked
  <2>4. \A p \in Pair : held[p].refresh = "revoked" => held[p].access = "revoked"
    BY <2>3 DEF GrantInv, EndTogether
  <2> HIDE DEF held
  <2>5. EndTogether' /\ ((\A p \in Pair : held[p].refresh # "live") => \A a, b \in Standing' : a = b)
    BY <2>1, <2>2, <2>4, MintKeeps
  <2>6. ASSUME Lone PROVE Lone'
    <3>1. grant.used /\ ~grant.denied /\ \A a \in Standing : a = granting[q].of
      BY <2>1, <2>6 DEF Lone
    <3>2. \A p \in Pair : held[p].refresh # "live"
      BY <2>3, <3>1 DEF Standing
    <3>3. \A o \in GrantRequests : granting'[o].op = "none"
      BY <2>1, <2>6, EndLeavesNone
    <3> QED
      BY <2>1, <2>5, <3>1, <3>2, <3>3 DEF Lone
  <2> QED
    BY <2>1, <2>5, <2>6 DEF GrantInv
<1>9. ASSUME NEW q \in GrantRequests, Revoke(q) PROVE GrantInv'
  <2> DEFINE p == granting[q].of
  <2>1. /\ EndCall(q) /\ UNCHANGED <<grant, crossed>>
        /\ granting[q].op \in {"revoke pair", "revoke access"}
        /\ pairs' = BothRevoked(pairs, p) \/ pairs' = [pairs EXCEPT ![p].access = "revoked"]
    BY <1>9 DEF Revoke
  <2>2. \A o \in Pair :
          \/ pairs'[o] = pairs[o]
          \/ pairs'[o].refresh \in {pairs[o].refresh, "revoked"} /\ pairs'[o].access = "revoked"
    <3>1. CASE pairs' = BothRevoked(pairs, p)
      BY <1>1, <3>1 DEF BothRevoked
    <3>2. CASE pairs' = [pairs EXCEPT ![p].access = "revoked"]
      BY <1>1, <3>2 DEF TokenPair
    <3> QED
      BY <2>1, <3>1, <3>2
  <2>3. EndTogether' /\ Standing' \subseteq Standing
    BY <2>2 DEF GrantInv, EndTogether, Standing
  <2>4. ASSUME Lone PROVE Lone'
    <3>1. grant.used /\ ~grant.denied
      BY <2>1, <2>4 DEF Lone
    <3>2. \A o \in GrantRequests : granting'[o].op = "none"
      BY <2>1, <2>4, EndLeavesNone
    <3> QED
      BY <2>1, <2>3, <2>4, <3>1, <3>2 DEF Lone
  <2> QED
    BY <2>1, <2>3, <2>4 DEF GrantInv
<1>10. ASSUME NEW q \in GrantRequests, RollBackCall(q) PROVE GrantInv'
  <2>1. EndTogether' /\ Minted' = Minted /\ Standing' = Standing /\ UNCHANGED <<grant, crossed>>
    BY <1>10 DEF RollBackCall, GrantInv, EndTogether, Minted, Standing
  <2>2. granting'[q].op = "none" /\ \A o \in GrantRequests \ {q} : granting'[o] = granting[o]
    BY <1>10, CallsTyped DEF RollBackCall, EndCall, GrantTypeOK
  <2>3. ASSUME Lone PROVE Lone'
    <3>1. \A o \in GrantRequests : granting'[o].op = "none" \/ granting'[o] = granting[o]
      BY <2>2
    <3>2. \A a, b \in GrantRequests : a # b => granting'[a].op = "none" \/ granting'[b].op = "none"
      BY <2>3, <3>1 DEF Lone
    <3>3. \A o \in GrantRequests :
            /\ granting'[o].op \in {"exchange", "deny"} => ~grant.used
            /\ granting'[o].op = "rotate" => \A a \in Standing : a = granting'[o].of
            /\ granting'[o].op \in {"rotate", "revoke pair", "revoke access"} =>
                  grant.used /\ ~grant.denied
      <4> SUFFICES ASSUME NEW o \in GrantRequests
                   PROVE  /\ granting'[o].op \in {"exchange", "deny"} => ~grant.used
                          /\ granting'[o].op = "rotate" => \A a \in Standing : a = granting'[o].of
                          /\ granting'[o].op \in {"rotate", "revoke pair", "revoke access"} =>
                                grant.used /\ ~grant.denied
        OBVIOUS
      <4>1. CASE granting'[o].op = "none"
        BY <4>1
      <4>2. CASE granting'[o] = granting[o]
        BY <2>3, <4>2 DEF Lone
      <4> QED
        BY <3>1, <4>1, <4>2
    <3> QED
      BY <2>1, <2>3, <3>2, <3>3 DEF Lone
  <2> QED
    BY <2>1, <2>3 DEF GrantInv
<1>11. CASE GrantExpires
  <2>1. grant'.used = grant.used /\ grant'.denied = grant.denied
    BY <1>11 DEF GrantExpires, GrantTypeOK
  <2> QED
    BY <1>11, <2>1 DEF GrantExpires, GrantInv, EndTogether, Lone, Minted, Standing
<1>12. ASSUME NEW p \in Pair, PairExpires(p) PROVE GrantInv'
  <2>1. UNCHANGED <<grant, granting, crossed>>
    BY <1>12 DEF PairExpires
  <2>2. \A o \in Pair \ {p} : pairs'[o] = pairs[o]
    BY <1>1, <1>12 DEF PairExpires
  <2>3. /\ pairs'[p].refresh \in {pairs[p].refresh, "expired"}
        /\ pairs'[p].access \in {pairs[p].access, "expired"}
        /\ pairs[p].access = "revoked" => pairs'[p].access = "revoked"
    BY <1>1, <1>12 DEF PairExpires, TokenPair
  <2>4. pairs[p].access = "live" \/ pairs[p].refresh = "live"
    BY <1>12 DEF PairExpires
  <2>5. EndTogether' /\ Standing' \subseteq Standing
    BY <2>2, <2>3 DEF GrantInv, EndTogether, Standing
  <2>6. p \in Minted
    BY <2>4 DEF Minted, NoPair
  <2>7. Lone => Lone'
    BY <2>1, <2>5, <2>6 DEF Lone
  <2> QED
    BY <2>1, <2>5, <2>7 DEF GrantInv
<1>13. CASE UNCHANGED grantVars
  BY <1>13 DEF grantVars, GrantInv, EndTogether, Lone, Minted, Standing
<1> QED
  BY <1>3, <1>4, <1>5, <1>6, <1>7, <1>8, <1>9, <1>10, <1>11, <1>12, <1>13 DEF GrantNext

\* A refresh token never ends without its access token; and of an approval
\* whose requests do not overlap at most one pair stands, and none after a
\* denial, however many pairs are rotated, revoked and expire.
THEOREM GrantsEndTogether == GrantSpec => []GrantsEnd
<1>1. GrantTypeOK /\ GrantInv => GrantsEnd
  <2> SUFFICES ASSUME GrantTypeOK, GrantInv PROVE GrantsEnd
    OBVIOUS
  <2>1. ASSUME Lone PROVE Cardinality(Standing) <= 1
    <3>1. CASE Standing = {}
      BY <3>1, FS_EmptySet
    <3>2. ASSUME NEW s \in Standing PROVE Cardinality(Standing) <= 1
      <4>1. Standing = {s}
        BY <2>1, <3>2 DEF Lone
      <4> QED
        BY <4>1, FS_Singleton
    <3> QED
      BY <3>1, <3>2
  <2> QED
    BY <2>1 DEF GrantInv, EndTogether, Lone, GrantsEnd
<1>2. GrantInit => GrantTypeOK /\ GrantInv
  BY TypeInit, GrantInvInit
<1>3. GrantTypeOK /\ GrantInv /\ [GrantNext]_grantVars => (GrantTypeOK /\ GrantInv)'
  BY TypeStep, GrantInvStep
<1> QED
  BY <1>1, <1>2, <1>3, PTL DEF GrantSpec
=============================================================================
