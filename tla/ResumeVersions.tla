--------------------------- MODULE ResumeVersions ---------------------------
(***************************************************************************)
(* A user's resumes: families of versions, the default one, the drafts of  *)
(* skill additions staged against a version, and the stored files.  A      *)
(* request reads, waits (for the LLM, or for object storage), and commits  *)
(* at its end; requests overlap.  The database keeps one default at most   *)
(* and no version number twice, by failing the request that would break    *)
(* that; everything else is up to the requests.                            *)
(***************************************************************************)
EXTENDS Integers, FiniteSets

CONSTANTS
    MaxResumes,       \* rows there may ever be
    Skills,           \* keywords a draft can be about
    ResumeRequests    \* concurrent requests

ASSUME MaxResumesAssumption == MaxResumes \in Nat

VARIABLES
    resume,       \* resume[r]: a version, or NoVersion
    created,      \* how many ids were handed out
    files,        \* the stored files, named after the row each was made for
    drafts,       \* ResumeSkillAddition rows: a version, a keyword, a text
    request,      \* request[q]: what a request has read
    wanted,       \* history: drafts as the user last wrote them
    editedUnder,  \* history: drafts edited while an LLM call applied them
    halfDeleted,  \* history: rows whose deletion failed after their file's
    overlapped    \* history: kinds of requests that ran beside another one

resumeVars == <<resume, created, files, drafts, request, wanted, editedUnder,
                halfDeleted, overlapped>>

Resumes == 1 .. MaxResumes
NoVersion == [root |-> 0]
Idle == [do |-> "nothing"]
Texts == {"first", "second"}

Present(r) == resume[r] # NoVersion

Version ==
    [root : Resumes, number : 1 .. MaxResumes, main : BOOLEAN,
     file : Resumes, skills : SUBSET (Skills \X Texts)]

Family(root) == {r \in Resumes : Present(r) /\ resume[r].root = root}

\* _latest_version_number: 0 for a family that is gone.
LatestNumber(root) ==
    IF Family(root) = {} THEN 0
    ELSE CHOOSE n \in {resume[r].number : r \in Family(root)} :
            \A r \in Family(root) : resume[r].number <= n

\* _resolve_current_version.
Latest(root) == {r \in Family(root) : resume[r].number = LatestNumber(root)}

Main == {r \in Resumes : Present(r) /\ resume[r].main}

\* A family's versions name its root, which is one of them, whoever deletes
\* the root meanwhile; their numbers differ; there is one default at most.
ResumesTypeOK ==
    /\ resume \in [Resumes -> Version \union {NoVersion}]
    /\ \A r \in Resumes : Present(r) =>
          /\ resume[r].root \in Family(resume[r].root)
          /\ \A s \in Family(resume[r].root) \ {r} : resume[s].number # resume[r].number
    /\ Cardinality(Main) <= 1
    /\ drafts \subseteq Resumes \X Skills \X Texts
    /\ \A d \in drafts : Present(d[1])

ResumesInit ==
    /\ resume = [r \in Resumes |-> NoVersion]
    /\ created = 0
    /\ files = {} /\ drafts = {}
    /\ request = [q \in ResumeRequests |-> Idle]
    /\ wanted = {} /\ editedUnder = {} /\ halfDeleted = {} /\ overlapped = {}

resumeHistory == <<wanted, editedUnder, halfDeleted, overlapped>>

-----------------------------------------------------------------------------
(* Requests.                                                               *)

Running == {q \in ResumeRequests : request[q] # Idle}

\* A request has read what it decides on.
Begin(q, r) ==
    /\ request[q] = Idle
    /\ request' = [request EXCEPT ![q] = r]
    /\ overlapped' = IF Running = {} THEN overlapped
                     ELSE overlapped \union {r.do} \union {request[o].do : o \in Running}
    /\ UNCHANGED <<resume, drafts, wanted, editedUnder, halfDeleted>>

\* A request fails, at a constraint or for a reason of its own, and takes
\* nothing back but its transaction.
Fail(q) ==
    /\ request' = [request EXCEPT ![q] = Idle]
    /\ UNCHANGED <<resume, created, files, drafts, resumeHistory>>

Abort(q) == q \in Running /\ Fail(q)

\* The next id, and a file stored under it.
Create(id) ==
    /\ created < MaxResumes /\ id = created + 1
    /\ created' = id

\* upload_resume: the first resume is to be the default.
BeginUpload(q, id) ==
    /\ Create(id)
    /\ files' = files \union {id}
    /\ Begin(q, [do |-> "upload", id |-> id, root |-> id, number |-> 1, file |-> id,
                 skills |-> {}, main |-> \A r \in Resumes : ~Present(r)])

\* update_resume: only a family's latest version can be made the default.
BeginSetDefault(q, r) ==
    /\ Present(r) /\ r \in Latest(resume[r].root)
    /\ Begin(q, [do |-> "default", of |-> r])
    /\ UNCHANGED <<created, files>>

\* Mutant: the restored version shares the old one's file.
RestoredFileShared(r, id) == resume[r].file

\* The old version's file is copied under a key of its own.
RestoredFile(r, id) == id

\* Mutant: a restored version is not made the default.
RestoredMainNever(root) == FALSE

\* It takes over if the family has the default.
RestoredMain(root) == Main \intersect Family(root) # {}

\* restore_resume_version: the old version's content, as the next version.
BeginRestore(q, r, id) ==
    /\ Present(r) /\ r \notin Latest(resume[r].root)
    /\ resume[r].file \in files
    /\ Create(id)
    /\ files' = files \union {RestoredFile(r, id)}
    /\ LET root == resume[r].root
       IN  Begin(q, [do |-> "restore", id |-> id, root |-> root,
                     number |-> LatestNumber(root) + 1, file |-> RestoredFile(r, id),
                     skills |-> resume[r].skills, main |-> RestoredMain(root)])

FamilyDrafts(root) == {d \in drafts : d[1] \in Family(root)}

\* apply_resume_skill_additions, to its LLM call: the latest version's
\* content with the drafts of the whole family.  `rows' are those to delete.
BeginApply(q, r) ==
    /\ Present(r)
    /\ LET root == resume[r].root
       IN  /\ FamilyDrafts(root) # {}
           /\ \E latest \in Latest(root) :
                 Begin(q, [do |-> "apply", root |-> root,
                           rows |-> {<<d[1], d[2]>> : d \in FamilyDrafts(root)},
                           skills |-> {s \in resume[latest].skills :
                                         \A d \in FamilyDrafts(root) : d[2] # s[1]}
                                      \union {<<d[2], d[3]>> : d \in FamilyDrafts(root)}])
    /\ UNCHANGED <<created, files>>

\* The LLM answered: the document is stored, and the next number is read.
StoreApplied(q, id) ==
    LET r == request[q]
    IN  /\ r.do = "apply"
        /\ Create(id)
        /\ files' = files \union {id}
        /\ request' = [request EXCEPT ![q] =
              [do |-> "applied", id |-> id, root |-> r.root,
               number |-> LatestNumber(r.root) + 1, file |-> id, skills |-> r.skills,
               main |-> TRUE, rows |-> r.rows]]
        /\ UNCHANGED <<resume, drafts, resumeHistory>>

-----------------------------------------------------------------------------
(* Commits.                                                                *)

\* Rows that a deletion has re-rooted and not committed.
Locked == UNION {request[q].siblings : q \in {o \in ResumeRequests : request[o].do = "delete"}}

\* _clear_existing_main comes before what makes a default.
ClearMain == [r \in Resumes |-> IF Present(r) THEN [resume[r] EXCEPT !.main = FALSE] ELSE NoVersion]

\* Mutant: numbers are not unique in a family.
RefusedRootGone(r) ==
    IF r.do = "upload" THEN r.main /\ Main # {} ELSE ~Present(r.root)

\* What the constraints keep out: a version of a root that is gone, a number
\* that is taken, and, in an upload, which clears nothing, a second default.
Refused(r) ==
    IF r.do = "upload" THEN r.main /\ Main # {}
    ELSE ~Present(r.root) \/ \E s \in Family(r.root) : resume[s].number = r.number

\* Mutant: every draft of the family is deleted.
ConsumedAll(r) == IF r.do = "applied" THEN FamilyDrafts(r.root) ELSE {}

\* Of the drafts, apply deletes the rows it read.
Consumed(r) == IF r.do = "applied" THEN {d \in drafts : <<d[1], d[2]>> \in r.rows} ELSE {}

CommitVersion(q) ==
    LET r == request[q]
    IN  /\ r.do \in {"upload", "restore", "applied"}
        /\ IF Refused(r) THEN Fail(q)
           ELSE /\ resume' = [(IF r.main THEN ClearMain ELSE resume) EXCEPT ![r.id] =
                      [root |-> r.root, number |-> r.number, main |-> r.main,
                       file |-> r.file, skills |-> r.skills]]
                /\ drafts' = drafts \ Consumed(r)
                /\ request' = [request EXCEPT ![q] = Idle]
                /\ UNCHANGED <<created, files, resumeHistory>>

\* A row that is gone by now fails the update.
CommitSetDefault(q) ==
    LET r == request[q]
    IN  /\ r.do = "default"
        /\ IF ~Present(r.of) THEN Fail(q)
           ELSE /\ resume' = [ClearMain EXCEPT ![r.of].main = TRUE]
                /\ request' = [request EXCEPT ![q] = Idle]
                /\ UNCHANGED <<created, files, drafts, resumeHistory>>

Oldest(versions) ==
    CHOOSE r \in versions : \A s \in versions : resume[r].number <= resume[s].number

\* delete_resume, to the removal of the file, which comes before the commit.
\* The siblings of a root are to follow the oldest of them, and are locked.
BeginDelete(q, r) ==
    LET siblings == Family(r) \ {r}
    IN  /\ Present(r)
        /\ siblings \intersect Locked = {}
        /\ Begin(q, [do |-> "delete", of |-> r, siblings |-> siblings])
        /\ files' = files \ {resume[r].file}
        /\ UNCHANGED created

ReRoot(siblings) ==
    [s \in Resumes |-> IF s \in siblings
                       THEN [resume[s] EXCEPT !.root = Oldest(siblings)] ELSE resume[s]]

RowsOf(r) == {d \in drafts : d[1] = r}

\* Rows that are gone are not there to be deleted by another request.
ForgetRows(rows) ==
    [o \in ResumeRequests |->
        IF request[o].do \in {"apply", "applied"} THEN [request[o] EXCEPT !.rows = @ \ rows]
        ELSE request[o]]

\* What of the wishes only r knew goes with it.
KnownWithout(r, w) ==
    \/ w[1] # r /\ w \in drafts
    \/ \E s \in Resumes \ {r} : Present(s) /\ <<w[2], w[3]>> \in resume[s].skills

\* A version that has come to refer to the row fails the deletion.
CommitDelete(q) ==
    LET r        == request[q]
        reRooted == ReRoot(r.siblings)
    IN  /\ r.do = "delete"
        /\ r.of \notin Locked /\ Present(r.of)
        /\ \A s \in Resumes \ {r.of} : reRooted[s].root # r.of
        /\ resume' = [reRooted EXCEPT ![r.of] = NoVersion]
        /\ drafts' = drafts \ RowsOf(r.of)
        /\ wanted' = {w \in wanted : KnownWithout(r.of, w)}
        /\ request' = [ForgetRows({<<d[1], d[2]>> : d \in RowsOf(r.of)}) EXCEPT ![q] = Idle]
        /\ UNCHANGED <<created, files, editedUnder, halfDeleted, overlapped>>

\* Its file is gone, the row is not.
AbortDelete(q) ==
    /\ request[q].do = "delete"
    /\ halfDeleted' = halfDeleted \union {request[q].of}
    /\ request' = [request EXCEPT ![q] = Idle]
    /\ UNCHANGED <<resume, created, files, drafts, wanted, editedUnder, overlapped>>

-----------------------------------------------------------------------------
(* Drafts: saved at once, edited in place.                                 *)

UpsertDraft(r, k, text) ==
    LET old == {d \in drafts : d[1] = r /\ d[2] = k}
    IN  /\ Present(r)
        /\ drafts' = (drafts \ old) \union {<<r, k, text>>}
        /\ wanted' = {w \in wanted : ~(w[1] = r /\ w[2] = k)} \union {<<r, k, text>>}
        /\ editedUnder' =
              IF \E q \in ResumeRequests :
                    request[q].do \in {"apply", "applied"} /\ <<r, k>> \in request[q].rows
              THEN editedUnder \union {<<r, k>>} ELSE editedUnder \ {<<r, k>>}
        /\ UNCHANGED <<resume, created, files, request, halfDeleted, overlapped>>

DeleteDraft(d) ==
    /\ d \in drafts
    /\ drafts' = drafts \ {d}
    /\ wanted' = wanted \ {d}
    /\ request' = ForgetRows({<<d[1], d[2]>>})
    /\ UNCHANGED <<resume, created, files, editedUnder, halfDeleted, overlapped>>

ResumesNext ==
    \/ \E q \in ResumeRequests, id \in {created + 1} : BeginUpload(q, id) \/ StoreApplied(q, id)
    \/ \E q \in ResumeRequests \ Running, r \in Resumes, id \in {created + 1} : BeginRestore(q, r, id)
    \/ \E q \in ResumeRequests \ Running, r \in Resumes :
          BeginSetDefault(q, r) \/ BeginApply(q, r) \/ BeginDelete(q, r)
    \/ \E q \in ResumeRequests :
          CommitVersion(q) \/ CommitSetDefault(q) \/ CommitDelete(q) \/ AbortDelete(q)
            \/ (request[q].do # "delete" /\ Abort(q))
    \/ \E r \in Resumes, k \in Skills, text \in Texts : UpsertDraft(r, k, text)
    \/ \E d \in drafts : DeleteDraft(d)

ResumesSpec == ResumesInit /\ [][ResumesNext]_resumeVars

-----------------------------------------------------------------------------
(* Properties.                                                             *)

\* Every version has a file of its own, whatever is restored, applied and
\* deleted, unless the row outlived a deletion that failed.
FilesOfRows ==
    \A r \in Resumes : Present(r) /\ r \notin halfDeleted =>
        \/ resume[r].file \in files
        \/ \E q \in ResumeRequests : request[q].do = "delete" /\ request[q].of = r

\* What the user wrote about a skill is staged, or in a version, until the
\* user takes it back: an LLM call that applies drafts swallows none that it
\* was not given, except an edit made in place during the call.
DraftsNotLost ==
    \A w \in wanted :
        \/ w \in drafts
        \/ \E r \in Resumes : Present(r) /\ <<w[2], w[3]>> \in resume[r].skills
        \/ <<w[1], w[2]>> \in editedUnder

\* The default version is its family's latest, unless a request to set the
\* default, or a deletion, has overlapped with another one: a deletion frees a
\* number that a waiting request still holds, and it commits below the latest.
DefaultIsLatest ==
    \A r \in Main : r \in Latest(resume[r].root) \/ {"default", "delete"} \intersect overlapped # {}
=============================================================================
