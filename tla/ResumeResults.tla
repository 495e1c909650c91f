---------------------------- MODULE ResumeResults ---------------------------
(***************************************************************************)
(* The results made of a user's resumes for one job: scores, tailored      *)
(* resumes, their scores, cover letters, interview preparation, reviews.   *)
(* Each is a row of its own, made by a request whose transaction begins    *)
(* before its LLM call and commits after it; created_at is the             *)
(* transaction's beginning.  An evaluation fills in the breakdown of a     *)
(* score that is there.  The application, which comes and goes, points at  *)
(* the latest result of each kind.                                         *)
(***************************************************************************)
EXTENDS Integers, FiniteSets

CONSTANTS
    MaxResults,       \* results one behaviour makes
    Sources,          \* the resumes they are made of, versions of one: later is larger
    ResultRequests    \* concurrent requests

ASSUME ResultsAssumption == MaxResults \in Nat /\ Sources \subseteq Nat

VARIABLES
    result,        \* result[i]: a row, or NoResult; i is its created_at
    begun,         \* how many results were begun
    making,        \* making[q]: the result a request is making, or nothing
    sources,       \* the resumes that are there
    application,   \* the application: whether there is one, and its pointers
    entangled      \* history: results made, or resumes deleted, side by side

resultVars == <<result, begun, making, sources, application, entangled>>

\* The kinds an application points at, and those it does not.
Pointed == {"score", "tailored", "tailored score", "letter"}
Kinds == Pointed \union {"prep", "review"}
Scores == {"score", "tailored score"}
Results == 1 .. MaxResults

\* A result of a resume; a tailored score is of a tailored resume's row.
\* breakdown: the result whose number a score's categories add up to, or 0.
NoResult == [kind |-> "none", of |-> 0, breakdown |-> 0]
NoMaking == [does |-> "nothing"]

Made(kind) == {i \in Results : result[i].kind = kind}

NoApplication == [kind \in Pointed |-> -1]
HasApplication == application # NoApplication

\* What a result of a kind can be of.
MadeOf(kind) == IF kind = "tailored score" THEN Made("tailored") ELSE sources

\* Every result is of something there, every pointer names a row of its kind.
ResultsTypeOK ==
    /\ \A i \in Results : result[i] # NoResult => result[i].of \in MadeOf(result[i].kind)
    /\ \A kind \in Pointed : HasApplication => application[kind] \in Made(kind) \union {0}
    /\ sources \subseteq Sources
    /\ entangled \in BOOLEAN

ResultsInit ==
    /\ result = [i \in Results |-> NoResult]
    /\ begun = 0
    /\ making = [q \in ResultRequests |-> NoMaking]
    /\ sources = Sources
    /\ application = NoApplication
    /\ entangled = FALSE

-----------------------------------------------------------------------------
Newest(rows) == IF rows = {} THEN 0 ELSE CHOOSE i \in rows : \A j \in rows : j <= i

\* link_latest_results, for an application that was just created: the newest
\* of each kind, and the newest score of that tailored resume.
Linked(rows, kind) ==
    LET OfKind(k) == {i \in Results : rows[i].kind = k}
    IN  Newest(IF kind = "tailored score"
               THEN {i \in OfKind(kind) : rows[i].of = Newest(OfKind("tailored"))}
               ELSE OfKind(kind))

NewApplication(rows) == [kind \in Pointed |-> Linked(rows, kind)]

\* _stamp_application_pointer.
Stamped(rows, i, create) ==
    CASE rows[i].kind \notin Pointed -> application
      [] rows[i].kind \in Pointed /\ HasApplication -> [application EXCEPT ![rows[i].kind] = i]
      [] rows[i].kind \in Pointed /\ ~HasApplication /\ create -> [NewApplication(rows) EXCEPT ![rows[i].kind] = i]
      [] OTHER -> application

\* A request begins: it has read the resume, or the tailored resume, it is
\* about, and makes a result of it.  whole: the result comes with its
\* breakdown.
Make(q, kind, of, create, whole) ==
    /\ making[q] = NoMaking /\ begun < MaxResults
    /\ of \in MadeOf(kind)
    /\ begun' = begun + 1
    /\ making' = [making EXCEPT ![q] =
          [does |-> "make", row |-> begun', kind |-> kind, of |-> of, create |-> create,
           breakdown |-> IF whole THEN begun' ELSE 0]]
    /\ entangled' = (entangled \/ \E o \in ResultRequests : making[o] # NoMaking)
    /\ UNCHANGED <<result, sources, application>>

\* The user's requests create the application; the auto-score run's do not.
Score(q, s) == \E create \in BOOLEAN : Make(q, "score", s, create, FALSE)
UploadScore(q, s) == Make(q, "score", s, TRUE, TRUE)
Tailor(q, s) == \E create \in BOOLEAN : Make(q, "tailored", s, create, FALSE)
UploadTailored(q, s) == Make(q, "tailored", s, TRUE, FALSE)
ScoreTailored(q, t) == \E create \in BOOLEAN : Make(q, "tailored score", t, create, FALSE)
UploadTailoredScore(q, t) == Make(q, "tailored score", t, TRUE, TRUE)
UploadLetter(q, s) == Make(q, "letter", s, TRUE, FALSE)
PrepareInterview(q, s) == Make(q, "prep", s, FALSE, FALSE)
Review(q, s) == Make(q, "review", s, FALSE, FALSE)

\* A generated letter is of the resume's current version.
CurrentVersion == Newest(sources)
WriteLetter(q, s) == s \in sources /\ Make(q, "letter", CurrentVersion, TRUE, FALSE)

\* An evaluation is pinned to the number of the latest score.
Evaluate(q, kind, of) ==
    LET row == Newest({i \in Made(kind) : result[i].of = of})
    IN  /\ making[q] = NoMaking
        /\ of \in MadeOf(kind) /\ row # 0
        /\ making' = [making EXCEPT ![q] = [does |-> "evaluate", row |-> row, breakdown |-> row]]
        /\ UNCHANGED <<result, begun, sources, application, entangled>>

EvaluateResume(q, s) == Evaluate(q, "score", s)
EvaluateTailored(q, t) == Evaluate(q, "tailored score", t)

\* The result is stored and stamped.  What it is about may be gone: then the
\* transaction fails.
FinishResult(q) ==
    LET m == making[q]
        rows == [result EXCEPT ![m.row] = [kind |-> m.kind, of |-> m.of, breakdown |-> m.breakdown]]
    IN  /\ m.does = "make"
        /\ m.of \in MadeOf(m.kind)
        /\ result' = rows
        /\ application' = Stamped(rows, m.row, m.create)
        /\ making' = [making EXCEPT ![q] = NoMaking]
        /\ UNCHANGED <<begun, sources, entangled>>

\* Mutant: the breakdown goes to the score that is the latest by then.
LatestByThen(m) == Newest({i \in Results : result[i].kind = result[m.row].kind
                                             /\ result[i].of = result[m.row].of})

\* The row the breakdown is stored in: the one that was read.
Evaluated(m) == m.row

\* The breakdown is stored, unless the score is gone.
FinishEvaluation(q) ==
    LET m == making[q]
    IN  /\ m.does = "evaluate" /\ result[m.row] # NoResult
        /\ result' = [result EXCEPT ![Evaluated(m)].breakdown = m.breakdown]
        /\ making' = [making EXCEPT ![q] = NoMaking]
        /\ UNCHANGED <<begun, sources, application, entangled>>

\* The LLM call, or the commit, fails.
AbandonResult(q) ==
    /\ making[q] # NoMaking
    /\ making' = [making EXCEPT ![q] = NoMaking]
    /\ UNCHANGED <<result, begun, sources, application, entangled>>

\* create_application, ensure_user_applicant.
SaveJob ==
    /\ ~HasApplication
    /\ application' = NewApplication(result)
    /\ UNCHANGED <<result, begun, making, sources, entangled>>

\* delete_application leaves the results.
UnsaveJob ==
    /\ HasApplication
    /\ application' = NoApplication
    /\ UNCHANGED <<result, begun, making, sources, entangled>>

\* delete_resume: its results go with it, their scores too, and pointers at
\* them become NULL.
DeleteSource(s) ==
    LET gone   == {i \in Results : result[i].kind # "none" /\ result[i].kind # "tailored score"
                                     /\ result[i].of = s}
        scores == {i \in Made("tailored score") : result[i].of \in gone}
    IN  /\ s \in sources
        /\ sources' = sources \ {s}
        /\ result' = [i \in Results |-> IF i \in gone \union scores THEN NoResult ELSE result[i]]
        /\ application' = [kind \in Pointed |->
              IF application[kind] \in gone \union scores THEN 0 ELSE application[kind]]
        /\ entangled' = (entangled \/ gone # {} \/ \E q \in ResultRequests : making[q] # NoMaking)
        /\ UNCHANGED <<begun, making>>

ResultsNext ==
    \/ \E q \in ResultRequests, s \in Sources :
          \/ Score(q, s) \/ UploadScore(q, s) \/ Tailor(q, s) \/ UploadTailored(q, s)
          \/ WriteLetter(q, s) \/ UploadLetter(q, s) \/ PrepareInterview(q, s) \/ Review(q, s)
          \/ EvaluateResume(q, s)
    \/ \E q \in ResultRequests, t \in Results :
          ScoreTailored(q, t) \/ UploadTailoredScore(q, t) \/ EvaluateTailored(q, t)
    \/ \E q \in ResultRequests : FinishResult(q) \/ FinishEvaluation(q) \/ AbandonResult(q)
    \/ SaveJob \/ UnsaveJob
    \/ \E s \in Sources : DeleteSource(s)

ResultsSpec == ResultsInit /\ [][ResultsNext]_resultVars

-----------------------------------------------------------------------------
(* Properties.                                                             *)

\* The application points at the newest score, tailored resume and letter.
PointersInStep ==
    HasApplication /\ ~entangled =>
        \A kind \in Pointed \ {"tailored score"} : application[kind] = Newest(Made(kind))

\* A score's breakdown adds up to its own number.
BreakdownIsOwn ==
    \A i \in Results : result[i].kind \in Scores => result[i].breakdown \in {0, i}

\* However results are made with and without an application, and it comes
\* and goes, its pointers are in step with the results, as long as no two are
\* made at once and no resume with results goes.  An evaluation that was
\* under way while the resume was scored again is never taken for the newer
\* score's.
ResultsInStep == PointersInStep /\ BreakdownIsOwn
=============================================================================
