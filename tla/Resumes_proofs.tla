--------------------------- MODULE Resumes_proofs ---------------------------
EXTENDS ResumeVersions, ResumeResults,
        FiniteSetTheorems, WellFoundedInduction, TLAPS

-----------------------------------------------------------------------------
\* ResumeVersions: the versions of a resume.

NewRows == {"upload", "restore", "applied"}
Applies == {"apply", "applied"}
Contents == SUBSET (Skills \X Texts)

Making ==
    [do : {"upload", "restore"}, id : Resumes, root : Resumes, number : Nat, file : Resumes,
     skills : Contents, main : BOOLEAN]

Applied ==
    [do : {"applied"}, id : Resumes, root : Resumes, number : Nat, file : Resumes,
     skills : Contents, main : BOOLEAN, rows : SUBSET (Resumes \X Skills)]

Applying == [do : {"apply"}, root : Resumes, rows : SUBSET (Resumes \X Skills), skills : Contents]

Defaulting == [do : {"default"}, of : Resumes]

Deleting == [do : {"delete"}, of : Resumes, siblings : SUBSET Resumes]

Request == Making \union Applied \union Applying \union Defaulting \union Deleting \union {Idle}

VersionsTyped ==
    /\ resume \in [Resumes -> Version \union {NoVersion}]
    /\ created \in 0 .. MaxResumes
    /\ request \in [ResumeRequests -> Request]
    /\ drafts \subseteq Resumes \X Skills \X Texts
    /\ \A r \in Resumes : Present(r) => r <= created /\ resume[r].number <= r /\ resume[r].file = r

\* A row to come has an id and a file of its own.
RowsToCome ==
    \A q \in ResumeRequests : request[q].do \in NewRows =>
        /\ request[q].id <= created /\ ~Present(request[q].id)
        /\ request[q].file = request[q].id /\ request[q].id \in files
        /\ 1 <= request[q].number /\ request[q].number <= request[q].id
        /\ request[q].do = "upload" => request[q].root = request[q].id /\ request[q].number = 1

IdsApart ==
    \A p, q \in ResumeRequests :
        request[p].do \in NewRows /\ request[q].do \in NewRows /\ request[p].id = request[q].id => p = q

\* A root that was read is still a root, or is gone for good.
RootsRead ==
    \A q \in ResumeRequests : request[q].do \in {"restore", "apply", "applied"} =>
        /\ request[q].root <= created
        /\ Present(request[q].root) => resume[request[q].root].root = request[q].root
        /\ \A p \in ResumeRequests : request[p].do \in NewRows => request[p].id # request[q].root

FamiliesHold ==
    \A r \in Resumes : Present(r) => Present(resume[r].root) /\ resume[resume[r].root].root = resume[r].root

NumbersApart ==
    \A r, s \in Resumes : Present(r) /\ Present(s) /\ resume[r].root = resume[s].root
                            /\ resume[r].number = resume[s].number => r = s

\* The siblings of a row under deletion stay in its family, and in no other's.
SiblingsHeld ==
    \A q \in ResumeRequests : request[q].do = "delete" =>
        \A s \in request[q].siblings : Present(s) /\ s # request[q].of /\ resume[s].root = request[q].of

SiblingsApart ==
    \A p, q \in ResumeRequests : request[p].do = "delete" /\ request[q].do = "delete" /\ p # q =>
        \A s \in request[p].siblings : s \notin request[q].siblings

OneMain == \A r, s \in Main : r = s

DraftsThere == \A d \in drafts : Present(d[1])

\* An application's text has every draft it deletes, as the user wrote it.
AppliesKnow ==
    \A q \in ResumeRequests : request[q].do \in Applies =>
        \A d \in drafts : <<d[1], d[2]>> \in request[q].rows =>
            <<d[2], d[3]>> \in request[q].skills \/ <<d[1], d[2]>> \in editedUnder

VersionsInv ==
    /\ VersionsTyped /\ RowsToCome /\ IdsApart /\ RootsRead /\ FamiliesHold /\ NumbersApart
    /\ SiblingsHeld /\ SiblingsApart /\ OneMain /\ DraftsThere /\ AppliesKnow
    /\ FilesOfRows /\ DraftsNotLost

LEMMA VersionBasics ==
    /\ MaxResumes \in Nat
    /\ \A r \in Resumes : r \in Nat /\ 1 <= r /\ r <= MaxResumes
    /\ \A n \in Nat : 1 <= n /\ n <= MaxResumes => n \in Resumes
    /\ \A v \in Version : v # NoVersion
    /\ \A v \in Version : /\ v.root \in Resumes /\ v.number \in 1 .. MaxResumes /\ v.main \in BOOLEAN
                          /\ v.file \in Resumes /\ v.skills \in Contents
    /\ Idle.do = "nothing"
<1>1. NoVersion.root = 0 /\ Idle.do = "nothing"
  BY DEF NoVersion, Idle
<1>2. \A v \in Version : /\ v.root \in Resumes /\ v.number \in 1 .. MaxResumes /\ v.main \in BOOLEAN
                         /\ v.file \in Resumes /\ v.skills \in Contents
  BY DEF Version, Contents
<1>3. MaxResumes \in Nat /\ \A r \in Resumes : r \in Nat /\ 1 <= r /\ r <= MaxResumes
  BY MaxResumesAssumption DEF Resumes
<1>4. \A n \in Nat : 1 <= n /\ n <= MaxResumes => n \in Resumes
  BY <1>3 DEF Resumes
<1>5. \A v \in Version : v # NoVersion
  BY <1>1, <1>2, <1>3
<1> QED
  BY <1>1, <1>2, <1>3, <1>4, <1>5

\* What a request of each kind has read.
LEMMA RequestIs ==
    \A m \in Request :
        /\ m.do \in NewRows \union Applies \union {"default", "delete", "nothing"}
        /\ m # Idle <=> m.do # "nothing"
        /\ m.do \in NewRows => /\ m.id \in Resumes /\ m.root \in Resumes /\ m.number \in Nat
                               /\ m.file \in Resumes /\ m.skills \in Contents /\ m.main \in BOOLEAN
        /\ m.do \in Applies => /\ m.root \in Resumes /\ m.skills \in Contents
                               /\ m.rows \in SUBSET (Resumes \X Skills)
        /\ m.do = "default" => m.of \in Resumes
        /\ m.do = "delete" => m.of \in Resumes /\ m.siblings \in SUBSET Resumes
<1>1. Idle.do = "nothing"
  BY VersionBasics
<1>2. ASSUME NEW m \in Making
      PROVE  /\ m.do \in {"upload", "restore"} /\ m.id \in Resumes /\ m.root \in Resumes /\ m.number \in Nat
             /\ m.file \in Resumes /\ m.skills \in Contents /\ m.main \in BOOLEAN
  BY DEF Making
<1>3. ASSUME NEW m \in Applied
      PROVE  /\ m.do = "applied" /\ m.id \in Resumes /\ m.root \in Resumes /\ m.number \in Nat
             /\ m.file \in Resumes /\ m.skills \in Contents /\ m.main \in BOOLEAN
             /\ m.rows \in SUBSET (Resumes \X Skills)
  BY DEF Applied
<1>4. ASSUME NEW m \in Applying
      PROVE  /\ m.do = "apply" /\ m.root \in Resumes /\ m.skills \in Contents
             /\ m.rows \in SUBSET (Resumes \X Skills)
  BY DEF Applying
<1>5. ASSUME NEW m \in Defaulting PROVE m.do = "default" /\ m.of \in Resumes
  BY DEF Defaulting
<1>6. ASSUME NEW m \in Deleting PROVE m.do = "delete" /\ m.of \in Resumes /\ m.siblings \in SUBSET Resumes
  BY DEF Deleting
<1> TAKE m \in Request
<1>7. m \in Making \/ m \in Applied \/ m \in Applying \/ m \in Defaulting \/ m \in Deleting \/ m = Idle
  BY DEF Request
<1>8. CASE m \in Making
  BY <1>1, <1>2, <1>8 DEF NewRows, Applies
<1>9. CASE m \in Applied
  BY <1>1, <1>3, <1>9 DEF NewRows, Applies
<1>10. CASE m \in Applying
  BY <1>1, <1>4, <1>10 DEF NewRows, Applies
<1>11. CASE m \in Defaulting
  BY <1>1, <1>5, <1>11 DEF NewRows, Applies
<1>12. CASE m \in Deleting
  BY <1>1, <1>6, <1>12 DEF NewRows, Applies
<1>13. CASE m = Idle
  BY <1>1, <1>13 DEF NewRows, Applies
<1> QED
  BY <1>7, <1>8, <1>9, <1>10, <1>11, <1>12, <1>13

LEMMA VersionsInvInit == ResumesInit => VersionsInv
<1> SUFFICES ASSUME ResumesInit PROVE VersionsInv
  OBVIOUS
<1>1. resume = [r \in Resumes |-> NoVersion] /\ created = 0 /\ files = {} /\ drafts = {}
      /\ request = [q \in ResumeRequests |-> Idle] /\ wanted = {}
  BY DEF ResumesInit
<1>2. (\A r \in Resumes : ~Present(r)) /\ \A q \in ResumeRequests : request[q].do = "nothing"
  BY <1>1, VersionBasics DEF Present
<1>3. VersionsTyped
  BY <1>1, <1>2, VersionBasics DEF VersionsTyped, Request
<1>4. RowsToCome /\ IdsApart /\ RootsRead /\ FamiliesHold /\ NumbersApart /\ SiblingsHeld /\ SiblingsApart
  BY <1>2 DEF RowsToCome, IdsApart, RootsRead, FamiliesHold, NumbersApart, SiblingsHeld, SiblingsApart, NewRows
<1>5. OneMain /\ DraftsThere /\ AppliesKnow /\ FilesOfRows /\ DraftsNotLost
  BY <1>1, <1>2 DEF OneMain, Main, DraftsThere, AppliesKnow, FilesOfRows, DraftsNotLost
<1> QED
  BY <1>3, <1>4, <1>5 DEF VersionsInv

\* What may be read by a request that begins.
MayRead(m, created1, files1) ==
    /\ m.do \in NewRows =>
          /\ m.id = created1 /\ created1 = created + 1 /\ m.file = m.id /\ m.id \in files1
          /\ 1 <= m.number /\ m.number <= m.id
          /\ m.do = "upload" => m.root = m.id /\ m.number = 1
    /\ m.do = "delete" => /\ Present(m.of) /\ m.siblings = Family(m.of) \ {m.of}
                          /\ m.siblings \intersect Locked = {}
    /\ m.do \in Applies =>
          \A d \in drafts : <<d[1], d[2]>> \in m.rows =>
              <<d[2], d[3]>> \in m.skills \/ <<d[1], d[2]>> \in editedUnder
    /\ m.do \in {"restore", "apply", "applied"} =>
          /\ m.root <= created
          /\ Present(m.root) => resume[m.root].root = m.root
          /\ \A p \in ResumeRequests : request[p].do \in NewRows => request[p].id # m.root

LEMMA ReadKeeps ==
    ASSUME VersionsInv, NEW q \in ResumeRequests, NEW m \in Request, m # Idle,
           request[q].do # "delete", request' = [request EXCEPT ![q] = m],
           UNCHANGED <<resume, drafts, wanted, editedUnder, halfDeleted>>,
           created' \in 0 .. MaxResumes, created <= created', MayRead(m, created', files'),
           \A r \in files : r \in files' \/ (m.do = "delete" /\ Present(m.of) /\ r = m.of)
    PROVE  VersionsInv'
<1>1. /\ request[q].do # "delete" /\ request' = [request EXCEPT ![q] = m]
      /\ UNCHANGED <<resume, drafts, wanted, editedUnder, halfDeleted>>
  OBVIOUS
<1>2. /\ request' \in [ResumeRequests -> Request] /\ request'[q] = m
      /\ \A p \in ResumeRequests \ {q} : request'[p] = request[p]
  BY <1>1 DEF VersionsInv, VersionsTyped
<1>3. /\ \A r \in Resumes : Present(r)' <=> Present(r)
      /\ resume \in [Resumes -> Version \union {NoVersion}] /\ created \in 0 .. MaxResumes
  BY <1>1 DEF Present, VersionsInv, VersionsTyped
<1>4. VersionsTyped'
  BY <1>1, <1>2, <1>3, VersionBasics DEF VersionsInv, VersionsTyped
<1>5. \A p \in ResumeRequests : /\ request[p].do \in NewRows => request[p].id \in Resumes
                                /\ request[p].do = "delete" => request[p].siblings \subseteq Resumes
  BY RequestIs DEF VersionsInv, VersionsTyped
<1>6. m.do \in NewRows => m.id \in Resumes /\ ~Present(m.id)
  BY <1>3, RequestIs DEF MayRead, VersionsInv, VersionsTyped
<1>7. RowsToCome'
  <2> SUFFICES ASSUME NEW p \in ResumeRequests, request'[p].do \in NewRows
               PROVE  /\ request'[p].id <= created' /\ ~Present(request[p].id)'
                      /\ request'[p].file = request'[p].id /\ request'[p].id \in files'
                      /\ 1 <= request'[p].number /\ request'[p].number <= request'[p].id
                      /\ request'[p].do = "upload" => request'[p].root = request'[p].id /\ request'[p].number = 1
    BY DEF RowsToCome
  <2>1. CASE p = q
    BY <2>1, <1>2, <1>3, <1>6 DEF MayRead, Present
  <2>2. CASE p # q
    <3>1. request'[p] = request[p] /\ request[p].id \in Resumes
      BY <2>2, <1>2, <1>5
    <3>2. /\ request[p].id <= created /\ ~Present(request[p].id)
          /\ request[p].file = request[p].id /\ request[p].id \in files
          /\ 1 <= request[p].number /\ request[p].number <= request[p].id
          /\ request[p].do = "upload" => request[p].root = request[p].id /\ request[p].number = 1
      BY <3>1 DEF VersionsInv, RowsToCome
    <3>3. request[p].id <= created'
      BY <3>1, <3>2, <1>3, VersionBasics
    <3>4. ~Present(request[p].id)'
      BY <3>1, <3>2, <1>1 DEF Present
    <3> QED
      BY <3>1, <3>2, <3>3, <3>4
  <2> QED
    BY <2>1, <2>2
<1>8. IdsApart'
  <2>1. \A p \in ResumeRequests \ {q} : request[p].do \in NewRows /\ m.do \in NewRows => request[p].id # m.id
    BY <1>3, <1>5, <1>6, VersionBasics DEF MayRead, VersionsInv, RowsToCome
  <2> QED
    BY <2>1, <1>2 DEF VersionsInv, IdsApart
<1>9. FamiliesHold' /\ NumbersApart' /\ OneMain' /\ DraftsThere'
  BY <1>1 DEF VersionsInv, FamiliesHold, NumbersApart, OneMain, DraftsThere, Main, Present
<1>10. SiblingsHeld'
  <2>1. m.do = "delete" => \A s \in m.siblings : Present(s) /\ s # m.of /\ resume[s].root = m.of
    BY DEF MayRead, Family
  <2> QED
    BY <2>1, <1>1, <1>2 DEF VersionsInv, SiblingsHeld, Present
<1>11. SiblingsApart'
  <2>1. m.do = "delete" => \A p \in ResumeRequests \ {q} : request[p].do = "delete" =>
                               \A s \in request[p].siblings : s \notin m.siblings
    BY DEF MayRead, Locked
  <2> QED
    BY <2>1, <1>2 DEF VersionsInv, SiblingsApart
<1>12. AppliesKnow'
  BY <1>1, <1>2 DEF VersionsInv, AppliesKnow, MayRead
<1>13. FilesOfRows'
  <2> SUFFICES ASSUME NEW r \in Resumes, Present(r), r \notin halfDeleted
               PROVE  \/ resume[r].file \in files'
                      \/ \E p \in ResumeRequests : request'[p].do = "delete" /\ request'[p].of = r
    BY <1>1, <1>3 DEF FilesOfRows
  <2>1. CASE \E p \in ResumeRequests : request[p].do = "delete" /\ request[p].of = r
    BY <2>1, <1>1, <1>2, VersionBasics
  <2>2. CASE resume[r].file \in files
    <3>1. resume[r].file = r
      BY DEF VersionsInv, VersionsTyped
    <3> QED
      BY <2>2, <3>1, <1>2
  <2> QED
    BY <2>1, <2>2 DEF VersionsInv, FilesOfRows
<1>14. DraftsNotLost'
  BY <1>1, <1>3 DEF VersionsInv, DraftsNotLost
<1>15. RootsRead'
  <2> SUFFICES ASSUME NEW p \in ResumeRequests, request'[p].do \in {"restore", "apply", "applied"}
               PROVE  /\ request'[p].root <= created'
                      /\ Present(request[p].root)' => resume'[request'[p].root].root = request'[p].root
                      /\ \A o \in ResumeRequests : request'[o].do \in NewRows => request'[o].id # request'[p].root
    BY DEF RootsRead
  <2>1. m.do \in NewRows /\ m.do # "upload" => m.do \in {"restore", "apply", "applied"}
    BY DEF NewRows
  <2>2. request'[p] \in Request /\ request'[p].root \in Resumes
    BY <1>2, RequestIs DEF NewRows, Applies
  <2>3. /\ request'[p].root <= created
        /\ Present(request'[p].root) => resume[request'[p].root].root = request'[p].root
        /\ \A o \in ResumeRequests \ {q} : request[o].do \in NewRows => request[o].id # request'[p].root
    <3>1. CASE p = q
      BY <3>1, <1>2 DEF MayRead
    <3>2. CASE p # q
      BY <3>2, <1>2 DEF VersionsInv, RootsRead
    <3> QED
      BY <3>1, <3>2
  <2>4. m.do \in NewRows => m.id # request'[p].root
    BY <2>2, <2>3, <1>3, <1>6, VersionBasics DEF MayRead
  <2>5. request'[p].root <= created'
    BY <2>2, <2>3, <1>3, VersionBasics
  <2>6. Present(request[p].root)' <=> Present(request'[p].root)
    BY <1>1 DEF Present
  <2> QED
    BY <2>3, <2>4, <2>5, <2>6, <1>1, <1>2
<1> QED
  BY <1>4, <1>7, <1>8, <1>9, <1>10, <1>11, <1>12, <1>13, <1>14, <1>15 DEF VersionsInv

\* A request ends, its files stay.
LEMMA FailKeeps ==
    ASSUME VersionsInv, NEW q \in ResumeRequests, request[q].do # "delete", Fail(q)
    PROVE  VersionsInv'
<1>1. /\ request' = [request EXCEPT ![q] = Idle]
      /\ UNCHANGED <<resume, created, files, drafts, wanted, editedUnder, halfDeleted>>
  BY DEF Fail, resumeHistory
<1>2. /\ request' \in [ResumeRequests -> Request] /\ request'[q] = Idle
      /\ \A p \in ResumeRequests \ {q} : request'[p] = request[p]
  BY <1>1 DEF VersionsInv, VersionsTyped, Request
<1>3. Idle.do = "nothing"
  BY VersionBasics
<1>4. VersionsTyped'
  BY <1>1, <1>2 DEF VersionsInv, VersionsTyped, Present
<1>5. RowsToCome' /\ IdsApart' /\ RootsRead'
  BY <1>1, <1>2, <1>3 DEF VersionsInv, RowsToCome, IdsApart, RootsRead, NewRows, Present
<1>6. FamiliesHold' /\ NumbersApart' /\ OneMain' /\ DraftsThere'
  BY <1>1 DEF VersionsInv, FamiliesHold, NumbersApart, OneMain, DraftsThere, Main, Present
<1>7. SiblingsHeld' /\ SiblingsApart'
  BY <1>1, <1>2, <1>3 DEF VersionsInv, SiblingsHeld, SiblingsApart, Present
<1>8. AppliesKnow'
  BY <1>1, <1>2, <1>3 DEF VersionsInv, AppliesKnow, Applies
<1>9. FilesOfRows' /\ DraftsNotLost'
  BY <1>1, <1>2 DEF VersionsInv, FilesOfRows, DraftsNotLost, Present
<1> QED
  BY <1>4, <1>5, <1>6, <1>7, <1>8, <1>9 DEF VersionsInv

\* What the commit of a version leaves.
LEMMA VersionStored ==
    ASSUME VersionsInv, NEW q \in ResumeRequests, CommitVersion(q), ~Refused(request[q])
    PROVE  LET m == request[q]
               new == [root |-> m.root, number |-> m.number, main |-> m.main, file |-> m.file,
                       skills |-> m.skills]
           IN  /\ m.do \in NewRows /\ drafts' = drafts \ Consumed(m)
               /\ request' = [request EXCEPT ![q] = Idle]
               /\ UNCHANGED <<created, files, wanted, editedUnder, halfDeleted, overlapped>>
               /\ m.id \in Resumes /\ m.root \in Resumes /\ m.number \in Nat
               /\ new \in Version /\ resume'[m.id] = new /\ new # NoVersion
               /\ resume' \in [Resumes -> Version \union {NoVersion}]
               /\ resume[m.id] = NoVersion
               /\ \A s \in Resumes \ {m.id} :
                     /\ resume'[s] # NoVersion <=> resume[s] # NoVersion
                     /\ resume[s] # NoVersion =>
                           /\ resume'[s].root = resume[s].root /\ resume'[s].number = resume[s].number
                           /\ resume'[s].file = resume[s].file /\ resume'[s].skills = resume[s].skills
                           /\ resume'[s].main => resume[s].main /\ ~m.main
               /\ \A s \in Resumes : resume[s] # NoVersion =>
                     resume[s].root \in Resumes \ {m.id} /\ resume[resume[s].root] # NoVersion
                       /\ resume[resume[s].root].root = resume[s].root
               /\ m.do # "upload" => /\ m.root # m.id /\ resume[m.root] # NoVersion
                                     /\ resume[m.root].root = m.root
                                     /\ \A s \in Resumes : resume[s] # NoVersion /\ resume[s].root = m.root =>
                                            resume[s].number # m.number
               /\ \A p \in ResumeRequests \ {q} :
                     /\ request[p].do \in NewRows => request[p].id \in Resumes \ {m.id}
                     /\ request[p].do \in {"restore", "apply", "applied"} => request[p].root \in Resumes \ {m.id}
<1> DEFINE m == request[q]
           new == [root |-> m.root, number |-> m.number, main |-> m.main, file |-> m.file,
                   skills |-> m.skills]
           base == IF m.main THEN ClearMain ELSE resume
<1>1. m.do \in NewRows
  BY DEF CommitVersion, NewRows
<1>3. CASE ~Refused(m)
  <2>1. /\ resume' = [base EXCEPT ![m.id] = new] /\ drafts' = drafts \ Consumed(m)
        /\ request' = [request EXCEPT ![q] = Idle]
        /\ UNCHANGED <<created, files, wanted, editedUnder, halfDeleted, overlapped>>
    BY <1>3 DEF CommitVersion, resumeHistory
  <2>2. /\ m \in Request /\ m.id \in Resumes /\ m.root \in Resumes /\ m.number \in Nat
        /\ m.file \in Resumes /\ m.skills \in Contents /\ m.main \in BOOLEAN
    BY <1>1, RequestIs DEF VersionsInv, VersionsTyped
  <2>3. /\ m.id <= created /\ ~Present(m.id) /\ m.file = m.id /\ m.id \in files
        /\ 1 <= m.number /\ m.number <= m.id
        /\ m.do = "upload" => m.root = m.id /\ m.number = 1
    BY <1>1 DEF VersionsInv, RowsToCome
  <2>4. m.number \in 1 .. MaxResumes
    BY <2>2, <2>3, VersionBasics
  <2>5. /\ new \in Version /\ new.root = m.root /\ new.number = m.number /\ new.main = m.main
        /\ new.file = m.file /\ new.skills = m.skills
    BY <2>2, <2>4 DEF Version, Contents
  <2> HIDE DEF new
  <2>6. resume \in [Resumes -> Version \union {NoVersion}] /\ created \in 0 .. MaxResumes
    BY DEF VersionsInv, VersionsTyped
  <2>7. /\ base \in [Resumes -> Version \union {NoVersion}]
        /\ \A s \in Resumes : /\ base[s] # NoVersion <=> resume[s] # NoVersion
                              /\ resume[s] # NoVersion =>
                                    /\ base[s].root = resume[s].root /\ base[s].number = resume[s].number
                                    /\ base[s].file = resume[s].file /\ base[s].skills = resume[s].skills
                                    /\ base[s].main => resume[s].main /\ ~m.main
    <3>1. CASE m.main
      <4> DEFINE no == FALSE
                 off(s) == [resume[s] EXCEPT !.main = no]
      <4>1. base = [s \in Resumes |-> IF resume[s] # NoVersion THEN off(s) ELSE NoVersion]
        BY <3>1 DEF ClearMain, Present
      <4>2. no \in BOOLEAN /\ ~no
        OBVIOUS
      <4> HIDE DEF no
      <4>3. ASSUME NEW s \in Resumes, resume[s] # NoVersion
            PROVE  /\ off(s) \in Version /\ off(s) # NoVersion /\ off(s).root = resume[s].root
                   /\ off(s).number = resume[s].number /\ off(s).file = resume[s].file
                   /\ off(s).skills = resume[s].skills /\ ~off(s).main
        <5>1. resume[s] \in Version
          BY <2>6, <4>3
        <5>2. off(s) \in Version /\ off(s).main = no
          BY <5>1, <4>2 DEF Version
        <5> QED
          BY <5>1, <5>2, <4>2, VersionBasics DEF Version
      <4> HIDE DEF off, base
      <4> QED
        BY <3>1, <4>1, <4>3
    <3>2. CASE ~m.main
      BY <3>2, <2>6
    <3> QED
      BY <3>1, <3>2
  <2> HIDE DEF base
  <2>8. /\ resume' \in [Resumes -> Version \union {NoVersion}] /\ resume'[m.id] = new
        /\ \A s \in Resumes \ {m.id} : resume'[s] = base[s]
    BY <2>1, <2>2, <2>5, <2>7
  <2>9. \A s \in Resumes \ {m.id} :
            /\ resume'[s] # NoVersion <=> resume[s] # NoVersion
            /\ resume[s] # NoVersion =>
                  /\ resume'[s].root = resume[s].root /\ resume'[s].number = resume[s].number
                  /\ resume'[s].file = resume[s].file /\ resume'[s].skills = resume[s].skills
                  /\ resume'[s].main => resume[s].main /\ ~m.main
    BY <2>7, <2>8
  <2>10. resume'[m.id] # NoVersion /\ resume[m.id] = NoVersion
    BY <2>3, <2>5, <2>8, VersionBasics DEF Present
  <2>15. \A p \in ResumeRequests \ {q} :
            /\ request[p].do \in NewRows => request[p].id \in Resumes \ {m.id}
            /\ request[p].do \in {"restore", "apply", "applied"} => request[p].root \in Resumes \ {m.id}
    BY <1>1, RequestIs DEF VersionsInv, VersionsTyped, IdsApart, RootsRead, NewRows, Applies
  <2>18. \A s \in Resumes : resume[s] # NoVersion =>
            resume[s].root \in Resumes \ {m.id} /\ resume[resume[s].root] # NoVersion
              /\ resume[resume[s].root].root = resume[s].root
    BY <2>6, <2>10, VersionBasics DEF VersionsInv, FamiliesHold, Present
  <2>19. m.do # "upload" => /\ m.root # m.id /\ resume[m.root] # NoVersion /\ resume[m.root].root = m.root
                            /\ \A s \in Resumes : resume[s] # NoVersion /\ resume[s].root = m.root =>
                                   resume[s].number # m.number
    BY <1>1, <1>3, <2>2, <2>10 DEF Refused, Family, Present, VersionsInv, RootsRead, NewRows
  <2> QED
    BY <1>1, <2>1, <2>2, <2>3, <2>5, <2>8, <2>9, <2>10, <2>15, <2>18, <2>19, VersionBasics DEF new, Present
<1> QED
  BY <1>3

LEMMA CommitVersionKeeps ==
    ASSUME VersionsInv, NEW q \in ResumeRequests, CommitVersion(q)
    PROVE  VersionsInv'
<1> DEFINE m == request[q]
           new == [root |-> m.root, number |-> m.number, main |-> m.main, file |-> m.file,
                   skills |-> m.skills]
<1>1. m.do \in NewRows
  BY DEF CommitVersion, NewRows
<1>2. CASE Refused(m)
  BY <1>1, <1>2, FailKeeps DEF CommitVersion, NewRows
<1>3. CASE ~Refused(m)
  <2>1. /\ drafts' = drafts \ Consumed(m) /\ request' = [request EXCEPT ![q] = Idle]
        /\ UNCHANGED <<created, files, wanted, editedUnder, halfDeleted>>
    BY <1>3, VersionStored
  <2>2. /\ m \in Request /\ m.id \in Resumes /\ m.root \in Resumes /\ m.number \in Nat
        /\ m.file \in Resumes /\ m.skills \in Contents /\ m.main \in BOOLEAN
    BY <1>1, RequestIs DEF VersionsInv, VersionsTyped
  <2>3. /\ m.id <= created /\ ~Present(m.id) /\ m.file = m.id /\ m.id \in files
        /\ 1 <= m.number /\ m.number <= m.id
        /\ m.do = "upload" => m.root = m.id /\ m.number = 1
    BY <1>1 DEF VersionsInv, RowsToCome
  <2>5. /\ new.root = m.root /\ new.number = m.number /\ new.main = m.main
        /\ new.file = m.file /\ new.skills = m.skills
    OBVIOUS
  <2>6. resume \in [Resumes -> Version \union {NoVersion}] /\ created \in 0 .. MaxResumes
    BY DEF VersionsInv, VersionsTyped
  <2>8. /\ resume' \in [Resumes -> Version \union {NoVersion}] /\ resume'[m.id] = new /\ new \in Version
    BY <1>3, VersionStored
  <2>9. \A s \in Resumes \ {m.id} :
            /\ resume'[s] # NoVersion <=> resume[s] # NoVersion
            /\ resume[s] # NoVersion =>
                  /\ resume'[s].root = resume[s].root /\ resume'[s].number = resume[s].number
                  /\ resume'[s].file = resume[s].file /\ resume'[s].skills = resume[s].skills
                  /\ resume'[s].main => resume[s].main /\ ~m.main
    BY <1>3, VersionStored
  <2>10. resume'[m.id] # NoVersion /\ resume[m.id] = NoVersion
    BY <2>3, <2>8, VersionBasics DEF Present
  <2>11. /\ request' \in [ResumeRequests -> Request] /\ request'[q] = Idle
         /\ \A p \in ResumeRequests \ {q} : request'[p] = request[p]
    BY <2>1 DEF VersionsInv, VersionsTyped, Request
  <2>12. Idle.do = "nothing"
    BY VersionBasics
  <2>13. drafts' \subseteq drafts
    BY <2>1
  <2>14. VersionsTyped'
    BY <2>1, <2>2, <2>3, <2>5, <2>8, <2>9, <2>11, <2>13 DEF VersionsInv, VersionsTyped, Present
  <2>15. \A p \in ResumeRequests \ {q} :
            /\ request[p].do \in NewRows => request[p].id \in Resumes \ {m.id}
            /\ request[p].do \in {"restore", "apply", "applied"} => request[p].root \in Resumes \ {m.id}
    BY <1>3, VersionStored
  <2>16. RowsToCome'
    BY <2>1, <2>9, <2>11, <2>12, <2>15 DEF VersionsInv, RowsToCome, Present, NewRows
  <2>17. IdsApart' /\ RootsRead'
    <3>1. IdsApart'
      BY <2>11, <2>12 DEF VersionsInv, IdsApart, NewRows
    <3>2. RootsRead'
      BY <2>1, <2>9, <2>11, <2>12, <2>15 DEF VersionsInv, RootsRead, Present, NewRows
    <3> QED
      BY <3>1, <3>2
  <2>18. \A s \in Resumes : resume[s] # NoVersion =>
            resume[s].root \in Resumes \ {m.id} /\ resume[resume[s].root] # NoVersion
              /\ resume[resume[s].root].root = resume[s].root
    BY <1>3, VersionStored
  <2>19. m.do # "upload" => /\ m.root # m.id /\ resume[m.root] # NoVersion /\ resume[m.root].root = m.root
                            /\ \A s \in Resumes : resume[s] # NoVersion /\ resume[s].root = m.root =>
                                   resume[s].number # m.number
    BY <1>3, VersionStored
  <2> HIDE DEF new
  <2>20. FamiliesHold'
    <3>1. ASSUME NEW s \in Resumes, resume'[s] # NoVersion
          PROVE  resume'[resume'[s].root] # NoVersion /\ resume'[resume'[s].root].root = resume'[s].root
      <4>1. CASE s = m.id
        <5>1. CASE m.do = "upload"
          BY <5>1, <4>1, <2>3, <2>5, <2>8, <2>10
        <5>2. CASE m.do # "upload"
          BY <5>2, <4>1, <2>2, <2>5, <2>8, <2>9, <2>19
        <5> QED
          BY <5>1, <5>2
      <4>2. CASE s # m.id
        BY <3>1, <4>2, <2>9, <2>18
      <4> QED
        BY <4>1, <4>2
    <3> QED
      BY <3>1 DEF FamiliesHold, Present
  <2>21. NumbersApart'
    <3>1. \A s \in Resumes \ {m.id} : resume[s] # NoVersion /\ resume[s].root = m.root => resume[s].number # m.number
      BY <2>3, <2>18, <2>19
    <3>2. ASSUME NEW r \in Resumes, NEW s \in Resumes, resume'[r] # NoVersion, resume'[s] # NoVersion,
                 resume'[r].root = resume'[s].root, resume'[r].number = resume'[s].number, r # s
          PROVE  FALSE
      <4>1. CASE r = m.id
        BY <3>1, <3>2, <4>1, <2>5, <2>8, <2>9
      <4>2. CASE s = m.id
        BY <3>1, <3>2, <4>2, <2>5, <2>8, <2>9
      <4>3. CASE r # m.id /\ s # m.id
        BY <3>2, <4>3, <2>9 DEF VersionsInv, NumbersApart, Present
      <4> QED
        BY <4>1, <4>2, <4>3
    <3> QED
      BY <3>2 DEF NumbersApart, Present
  <2>22. SiblingsHeld' /\ SiblingsApart'
    <3>1. \A p \in ResumeRequests : request'[p].do = "delete" => request[p] = request'[p] /\ request[p].siblings \subseteq Resumes
      BY <2>11, <2>12, RequestIs DEF VersionsInv, VersionsTyped
    <3>2. SiblingsHeld'
      BY <3>1, <2>9, <2>10 DEF VersionsInv, SiblingsHeld, Present
    <3>3. SiblingsApart'
      BY <3>1 DEF VersionsInv, SiblingsApart
    <3> QED
      BY <3>2, <3>3
  <2>23. OneMain'
    <3>1. \A s \in Resumes \ {m.id} : resume'[s] # NoVersion /\ resume'[s].main =>
             resume[s] # NoVersion /\ resume[s].main /\ ~m.main
      BY <2>9
    <3>2. resume'[m.id].main => m.main
      BY <2>5, <2>8
    <3> QED
      BY <3>1, <3>2 DEF VersionsInv, OneMain, Main, Present
  <2>24. DraftsThere'
    <3>1. \A d \in drafts : d[1] \in Resumes
      BY DEF VersionsInv, VersionsTyped
    <3> QED
      BY <3>1, <2>9, <2>10, <2>13 DEF VersionsInv, DraftsThere, Present
  <2>25. AppliesKnow'
    BY <2>1, <2>11, <2>12, <2>13 DEF VersionsInv, AppliesKnow, Applies
  <2>26. FilesOfRows'
    <3>1. ASSUME NEW s \in Resumes, resume'[s] # NoVersion, s \notin halfDeleted
          PROVE  resume'[s].file \in files \/ \E p \in ResumeRequests : request'[p].do = "delete" /\ request'[p].of = s
      <4>1. CASE s = m.id
        BY <4>1, <2>3, <2>5, <2>8
      <4>2. CASE s # m.id
        <5>1. \/ resume[s].file \in files
              \/ \E p \in ResumeRequests : request[p].do = "delete" /\ request[p].of = s
          BY <3>1, <4>2, <2>9 DEF VersionsInv, FilesOfRows, Present
        <5>2. \A p \in ResumeRequests : request[p].do = "delete" => request'[p] = request[p]
          BY <1>1, <2>11 DEF NewRows
        <5> QED
          BY <3>1, <4>2, <5>1, <5>2, <2>9
      <4> QED
        BY <4>1, <4>2
    <3> QED
      BY <3>1, <2>1 DEF FilesOfRows, Present
  <2>27. DraftsNotLost'
    <3>1. ASSUME NEW w \in wanted
          PROVE  \/ w \in drafts'
                 \/ \E s \in Resumes : resume'[s] # NoVersion /\ <<w[2], w[3]>> \in resume'[s].skills
                 \/ <<w[1], w[2]>> \in editedUnder
      <4>1. CASE w \in drafts /\ w \notin drafts'
        <5>1. w \in Consumed(m)
          BY <4>1, <2>1
        <5>2. m.do = "applied" /\ <<w[1], w[2]>> \in m.rows
          BY <5>1 DEF Consumed
        <5>3. <<w[2], w[3]>> \in m.skills \/ <<w[1], w[2]>> \in editedUnder
          BY <4>1, <5>2 DEF VersionsInv, AppliesKnow, Applies
        <5> QED
          BY <5>3, <2>2, <2>5, <2>8, <2>10
      <4>2. CASE \E s \in Resumes : resume[s] # NoVersion /\ <<w[2], w[3]>> \in resume[s].skills
        BY <4>2, <2>9, <2>10
      <4> QED
        BY <4>1, <4>2 DEF VersionsInv, DraftsNotLost, Present
    <3> QED
      BY <3>1, <2>1 DEF DraftsNotLost, Present
  <2> QED
    BY <2>14, <2>16, <2>17, <2>20, <2>21, <2>22, <2>23, <2>24, <2>25, <2>26, <2>27 DEF VersionsInv
<1> QED
  BY <1>2, <1>3

\* What a commit that sets the default leaves.
LEMMA DefaultMoved ==
    ASSUME VersionsInv, NEW q \in ResumeRequests, CommitSetDefault(q), Present(request[q].of)
    PROVE  /\ resume' \in [Resumes -> Version \union {NoVersion}]
           /\ request' = [request EXCEPT ![q] = Idle]
           /\ UNCHANGED <<created, files, drafts, wanted, editedUnder, halfDeleted, overlapped>>
           /\ \A s \in Resumes :
                 /\ resume'[s] # NoVersion <=> resume[s] # NoVersion
                 /\ resume[s] # NoVersion =>
                       /\ resume'[s].root = resume[s].root /\ resume'[s].number = resume[s].number
                       /\ resume'[s].file = resume[s].file /\ resume'[s].skills = resume[s].skills
                       /\ resume'[s].main => s = request[q].of
<1> DEFINE m == request[q]
<1>1. m.do = "default" /\ m.of \in Resumes
  BY RequestIs DEF CommitSetDefault, VersionsInv, VersionsTyped
<1>3. CASE Present(m.of)
  <2>1. /\ resume' = [ClearMain EXCEPT ![m.of].main = TRUE]
        /\ request' = [request EXCEPT ![q] = Idle]
        /\ UNCHANGED <<created, files, drafts, wanted, editedUnder, halfDeleted, overlapped>>
    BY <1>3 DEF CommitSetDefault, resumeHistory
  <2>2. resume \in [Resumes -> Version \union {NoVersion}]
    BY DEF VersionsInv, VersionsTyped
  <2> DEFINE yes == TRUE
             no == FALSE
             with(s, main) == [resume[s] EXCEPT !.main = main]
  <2>3. /\ yes \in BOOLEAN /\ no \in BOOLEAN /\ yes /\ ~no
        /\ resume' = [[s \in Resumes |-> IF resume[s] # NoVersion THEN with(s, no) ELSE NoVersion]
                         EXCEPT ![m.of].main = yes]
    BY <2>1 DEF ClearMain, Present
  <2> HIDE DEF yes, no
  <2>4. ASSUME NEW s \in Resumes, resume[s] # NoVersion, NEW main \in BOOLEAN
        PROVE  /\ with(s, main) \in Version /\ with(s, main) # NoVersion
               /\ with(s, main).root = resume[s].root /\ with(s, main).number = resume[s].number
               /\ with(s, main).file = resume[s].file /\ with(s, main).skills = resume[s].skills
               /\ with(s, main).main = main
               /\ \A other \in BOOLEAN : [with(s, main) EXCEPT !.main = other] = with(s, other)
    <3>1. resume[s] \in Version
      BY <2>2, <2>4
    <3>2. with(s, main) \in Version /\ with(s, main).main = main
      BY <2>4, <3>1 DEF Version
    <3>3. \A other \in BOOLEAN : [with(s, main) EXCEPT !.main = other] = with(s, other)
      BY <3>1 DEF Version
    <3> QED
      BY <3>1, <3>2, <3>3, VersionBasics DEF Version
  <2>5. resume[m.of] # NoVersion
    BY <1>3 DEF Present
  <2> HIDE DEF with
  <2>6. \A s \in Resumes : resume'[s] = IF resume[s] # NoVersion THEN with(s, IF s = m.of THEN yes ELSE no)
                                        ELSE NoVersion
    <3>1. resume' = [[s \in Resumes |-> IF resume[s] # NoVersion THEN with(s, no) ELSE NoVersion]
                        EXCEPT ![m.of] = with(m.of, yes)]
      BY <1>1, <2>3, <2>4, <2>5
    <3> QED
      BY <1>1, <2>5, <3>1
  <2>23. \A s \in Resumes :
            /\ resume[s] = NoVersion => resume'[s] = NoVersion
            /\ resume[s] # NoVersion => \E main \in BOOLEAN : resume'[s] = with(s, main) /\ (main => s = m.of)
    <3>1. TAKE s \in Resumes
    <3>2. CASE s = m.of
      BY <3>2, <2>3, <2>5, <2>6
    <3>3. CASE s # m.of
      BY <3>3, <2>3, <2>6
    <3> QED
      BY <3>2, <3>3
  <2>7. resume' \in [Resumes -> Version \union {NoVersion}]
    <3>1. resume' = [s \in Resumes |-> resume'[s]]
      BY <2>3
    <3> QED
      BY <2>4, <2>23, <3>1
  <2>8. \A s \in Resumes :
            /\ resume'[s] # NoVersion <=> resume[s] # NoVersion
            /\ resume[s] # NoVersion =>
                  /\ resume'[s].root = resume[s].root /\ resume'[s].number = resume[s].number
                  /\ resume'[s].file = resume[s].file /\ resume'[s].skills = resume[s].skills
                  /\ resume'[s].main => s = m.of
    BY <2>4, <2>23
  <2> QED
    BY <2>1, <2>7, <2>8
<1> QED
  BY <1>3

LEMMA CommitSetDefaultKeeps ==
    ASSUME VersionsInv, NEW q \in ResumeRequests, CommitSetDefault(q)
    PROVE  VersionsInv'
<1> DEFINE m == request[q]
<1>1. m.do = "default" /\ m.of \in Resumes
  BY RequestIs DEF CommitSetDefault, VersionsInv, VersionsTyped
<1>2. CASE ~Present(m.of)
  BY <1>1, <1>2, FailKeeps DEF CommitSetDefault
<1>3. CASE Present(m.of)
  <2>1. /\ request' = [request EXCEPT ![q] = Idle]
        /\ UNCHANGED <<created, files, drafts, wanted, editedUnder, halfDeleted>>
    BY <1>3, DefaultMoved
  <2>2. resume \in [Resumes -> Version \union {NoVersion}]
    BY DEF VersionsInv, VersionsTyped
  <2>7. resume' \in [Resumes -> Version \union {NoVersion}]
    BY <1>3, DefaultMoved
  <2>8. \A s \in Resumes :
            /\ resume'[s] # NoVersion <=> resume[s] # NoVersion
            /\ resume[s] # NoVersion =>
                  /\ resume'[s].root = resume[s].root /\ resume'[s].number = resume[s].number
                  /\ resume'[s].file = resume[s].file /\ resume'[s].skills = resume[s].skills
                  /\ resume'[s].main => s = m.of
    BY <1>3, DefaultMoved
  <2>9. /\ request' \in [ResumeRequests -> Request] /\ request'[q] = Idle
         /\ \A p \in ResumeRequests \ {q} : request'[p] = request[p]
    BY <2>1 DEF VersionsInv, VersionsTyped, Request
  <2>10. Idle.do = "nothing"
    BY VersionBasics
  <2>11. VersionsTyped'
    BY <2>1, <2>7, <2>8, <2>9 DEF VersionsInv, VersionsTyped, Present
  <2>12. \A p \in ResumeRequests :
            /\ request[p].do \in NewRows => request[p].id \in Resumes
            /\ request[p].do \in {"restore", "apply", "applied"} => request[p].root \in Resumes
            /\ request[p].do = "delete" => request[p].siblings \subseteq Resumes
    BY RequestIs DEF VersionsInv, VersionsTyped, NewRows, Applies
  <2>13. RowsToCome' /\ IdsApart'
    BY <2>1, <2>8, <2>9, <2>10, <2>12 DEF VersionsInv, RowsToCome, IdsApart, Present, NewRows
  <2>14. RootsRead'
    BY <2>1, <2>8, <2>9, <2>10, <2>12 DEF VersionsInv, RootsRead, Present, NewRows
  <2>15. \A s \in Resumes : resume[s] # NoVersion => resume[s].root \in Resumes
    BY <2>2, VersionBasics
  <2>16. FamiliesHold' /\ NumbersApart'
    BY <2>8, <2>15 DEF VersionsInv, FamiliesHold, NumbersApart, Present
  <2>17. SiblingsHeld' /\ SiblingsApart'
    BY <2>8, <2>9, <2>10, <2>12 DEF VersionsInv, SiblingsHeld, SiblingsApart, Present
  <2>18. OneMain'
    BY <2>8 DEF OneMain, Main, Present
  <2>19. DraftsThere'
    BY <2>1, <2>8 DEF VersionsInv, VersionsTyped, DraftsThere, Present
  <2>20. AppliesKnow'
    BY <2>1, <2>9, <2>10 DEF VersionsInv, AppliesKnow, Applies
  <2>21. FilesOfRows'
    BY <1>1, <2>1, <2>8, <2>9 DEF VersionsInv, FilesOfRows, Present
  <2>22. DraftsNotLost'
    BY <2>1, <2>8 DEF VersionsInv, DraftsNotLost, Present
  <2> QED
    BY <2>11, <2>13, <2>14, <2>16, <2>17, <2>18, <2>19, <2>20, <2>21, <2>22 DEF VersionsInv
<1> QED
  BY <1>2, <1>3

LEMMA LeastExists ==
    ASSUME NEW S \in SUBSET Nat, S # {}
    PROVE  \E x \in S : \A y \in S : x <= y
<1>1. IsWellFoundedOn({p \in Nat \X Nat : p[1] < p[2]}, Nat)
  BY NatLessThanWellFounded DEF OpToRel
<1>2. PICK x \in S : \A y \in S : ~(<<y, x>> \in {p \in Nat \X Nat : p[1] < p[2]})
  BY <1>1, WFMin
<1>3. \A y \in S : ~(y < x)
  BY <1>2
<1> QED
  BY <1>3

\* The heir of a deleted root is one of its siblings.
LEMMA OldestIs ==
    ASSUME NEW S \in SUBSET Resumes, S # {}, \A s \in S : resume[s].number \in Nat
    PROVE  Oldest(S) \in S
<1> DEFINE N == {resume[s].number : s \in S}
<1>1. N \in SUBSET Nat /\ N # {}
  OBVIOUS
<1>2. PICK n \in N : \A k \in N : n <= k
  BY <1>1, LeastExists
<1>3. PICK r \in S : n = resume[r].number
  OBVIOUS
<1>4. \E x \in S : \A s \in S : resume[x].number <= resume[s].number
  BY <1>2, <1>3
<1> QED
  BY <1>4 DEF Oldest

LEMMA ForgetIs ==
    ASSUME VersionsTyped, NEW rows
    PROVE  /\ ForgetRows(rows) \in [ResumeRequests -> Request]
           /\ \A p \in ResumeRequests :
                 /\ ForgetRows(rows)[p].do = request[p].do
                 /\ request[p].do \in Applies =>
                       /\ ForgetRows(rows)[p].rows = request[p].rows \ rows
                       /\ ForgetRows(rows)[p].skills = request[p].skills
                       /\ ForgetRows(rows)[p].root = request[p].root
                 /\ request[p].do \notin Applies => ForgetRows(rows)[p] = request[p]
                 /\ request[p].do \in NewRows =>
                       /\ ForgetRows(rows)[p].id = request[p].id /\ ForgetRows(rows)[p].file = request[p].file
                       /\ ForgetRows(rows)[p].number = request[p].number
                       /\ ForgetRows(rows)[p].root = request[p].root
                       /\ ForgetRows(rows)[p].main = request[p].main
<1> DEFINE without(p) == [request[p] EXCEPT !.rows = request[p].rows \ rows]
<1>1. ForgetRows(rows) = [p \in ResumeRequests |-> IF request[p].do \in Applies THEN without(p) ELSE request[p]]
  BY DEF ForgetRows, Applies
<1>2. ASSUME NEW p \in ResumeRequests, request[p].do \in Applies
      PROVE  /\ without(p) \in Request /\ without(p).do = request[p].do
             /\ without(p).rows = request[p].rows \ rows /\ without(p).skills = request[p].skills
             /\ without(p).root = request[p].root
             /\ request[p].do \in NewRows => /\ without(p).id = request[p].id /\ without(p).file = request[p].file
                                             /\ without(p).number = request[p].number
                                             /\ without(p).main = request[p].main
  <2>1. request[p] \in Applied \/ request[p] \in Applying
    BY <1>2, VersionBasics DEF VersionsTyped, Request, Making, Defaulting, Deleting, Applies
  <2>2. CASE request[p] \in Applied
    <3>1. without(p) \in Applied
      BY <2>2 DEF Applied
    <3> QED
      BY <2>2, <3>1 DEF Applied, Request
  <2>3. CASE request[p] \in Applying
    <3>1. without(p) \in Applying
      BY <2>3 DEF Applying
    <3> QED
      BY <2>3, <3>1 DEF Applying, Request, NewRows
  <2> QED
    BY <2>1, <2>2, <2>3
<1> HIDE DEF without
<1>3. request \in [ResumeRequests -> Request]
  BY DEF VersionsTyped
<1>4. \A p \in ResumeRequests : ForgetRows(rows)[p] = IF request[p].do \in Applies THEN without(p) ELSE request[p]
  BY <1>1
<1>5. ForgetRows(rows) \in [ResumeRequests -> Request]
  BY <1>1, <1>2, <1>3
<1> QED
  BY <1>2, <1>4, <1>5

\* What the commit of a deletion leaves: every row but one, in the family it
\* was in, whatever its root is called.
LEMMA RowDeleted ==
    ASSUME VersionsInv, NEW q \in ResumeRequests, CommitDelete(q)
    PROVE  LET of == request[q].of
               S == request[q].siblings
           IN  /\ of \in Resumes /\ S \in SUBSET Resumes /\ (S # {} => Oldest(S) \in S)
               /\ \A s \in S : resume[s] # NoVersion /\ s # of /\ resume[s].root = of
               /\ resume' \in [Resumes -> Version \union {NoVersion}] /\ resume'[of] = NoVersion
               /\ \A s \in Resumes \ {of} :
                     /\ resume'[s] = ReRoot(S)[s]
                     /\ resume'[s] # NoVersion <=> resume[s] # NoVersion
                     /\ s \notin S => resume'[s] = resume[s]
                     /\ s \in S => resume'[s].root = Oldest(S)
                     /\ resume[s] # NoVersion =>
                           /\ resume'[s].number = resume[s].number /\ resume'[s].main = resume[s].main
                           /\ resume'[s].file = resume[s].file /\ resume'[s].skills = resume[s].skills
               /\ \A r, s \in Resumes :
                     resume'[r] # NoVersion /\ resume'[s] # NoVersion /\ resume'[r].root = resume'[s].root =>
                         resume[r].root = resume[s].root
<1> DEFINE m == request[q]
           S == m.siblings
           of == m.of
           rows == {<<d[1], d[2]>> : d \in RowsOf(of)}
           forgot == ForgetRows(rows)
           reRooted == ReRoot(S)
           heir == Oldest(S)
<1>1. /\ m.do = "delete" /\ of \notin Locked /\ Present(of)
      /\ \A s \in Resumes \ {of} : reRooted[s].root # of
      /\ resume' = [reRooted EXCEPT ![of] = NoVersion]
      /\ drafts' = drafts \ RowsOf(of)
      /\ wanted' = {w \in wanted : KnownWithout(of, w)}
      /\ request' = [forgot EXCEPT ![q] = Idle]
      /\ UNCHANGED <<created, files, editedUnder, halfDeleted>>
  BY DEF CommitDelete
<1>2. of \in Resumes /\ S \in SUBSET Resumes
  BY <1>1, RequestIs DEF VersionsInv, VersionsTyped
<1>3. resume \in [Resumes -> Version \union {NoVersion}] /\ created \in 0 .. MaxResumes
  BY DEF VersionsInv, VersionsTyped
<1>4. \A s \in S : resume[s] # NoVersion /\ s # of /\ resume[s].root = of
  BY <1>1 DEF VersionsInv, SiblingsHeld, Present
<1>5. S # {} => heir \in S
  <2>1. \A s \in S : resume[s].number \in Nat
    BY <1>2, <1>3, <1>4, VersionBasics
  <2> QED
    BY <1>2, <2>1, OldestIs
<1> HIDE DEF heir
<1>6. \A s \in S : /\ [resume[s] EXCEPT !.root = heir] \in Version
                   /\ [resume[s] EXCEPT !.root = heir] # NoVersion
                   /\ [resume[s] EXCEPT !.root = heir].root = heir
                   /\ [resume[s] EXCEPT !.root = heir].number = resume[s].number
                   /\ [resume[s] EXCEPT !.root = heir].file = resume[s].file
                   /\ [resume[s] EXCEPT !.root = heir].skills = resume[s].skills
                   /\ [resume[s] EXCEPT !.root = heir].main = resume[s].main
  <2> TAKE s \in S
  <2>1. resume[s] \in Version /\ heir \in Resumes
    BY <1>2, <1>3, <1>4, <1>5
  <2>2. [resume[s] EXCEPT !.root = heir] \in Version
    BY <2>1 DEF Version
  <2> QED
    BY <2>1, <2>2, VersionBasics DEF Version
<1>7. /\ reRooted = [s \in Resumes |-> IF s \in S THEN [resume[s] EXCEPT !.root = heir] ELSE resume[s]]
      /\ reRooted \in [Resumes -> Version \union {NoVersion}]
  <2>1. reRooted = [s \in Resumes |-> IF s \in S THEN [resume[s] EXCEPT !.root = heir] ELSE resume[s]]
    BY DEF ReRoot, heir
  <2> QED
    BY <2>1, <1>3, <1>6
<1> HIDE DEF reRooted
<1>8. /\ resume' \in [Resumes -> Version \union {NoVersion}] /\ resume'[of] = NoVersion
      /\ \A s \in Resumes \ {of} :
            /\ resume'[s] = reRooted[s]
            /\ resume'[s] # NoVersion <=> resume[s] # NoVersion
            /\ s \notin S => resume'[s] = resume[s]
            /\ s \in S => resume'[s].root = heir
            /\ resume[s] # NoVersion =>
                  /\ resume'[s].number = resume[s].number /\ resume'[s].main = resume[s].main
                  /\ resume'[s].file = resume[s].file /\ resume'[s].skills = resume[s].skills
  BY <1>1, <1>2, <1>4, <1>6, <1>7
<1>15. \A s \in Resumes : resume'[s] # NoVersion => s # of /\ resume[s] # NoVersion
  BY <1>8
<1>18. \A r \in Resumes : resume[r] # NoVersion /\ resume[r].root = r => r \notin S
  BY <1>4
<1>20. \A s \in Resumes : resume[s] # NoVersion =>
          resume[s].root \in Resumes /\ resume[resume[s].root] # NoVersion
            /\ resume[resume[s].root].root = resume[s].root
  BY <1>3, VersionBasics DEF VersionsInv, FamiliesHold, Present
<1>22. ASSUME NEW r \in Resumes, NEW s \in Resumes, resume'[r] # NoVersion, resume'[s] # NoVersion,
             resume'[r].root = resume'[s].root
      PROVE  resume[r].root = resume[s].root
  <2>1. r # of /\ s # of /\ resume[r] # NoVersion /\ resume[s] # NoVersion
    BY <1>22, <1>8, <1>15
  <2>2. \A x \in Resumes : x \notin S /\ x # of /\ resume[x] # NoVersion /\ S # {} => resume[x].root # heir
    BY <1>2, <1>4, <1>5, <1>18, <1>20
  <2> QED
    BY <1>22, <2>1, <2>2, <1>4, <1>8
<1> QED
  BY <1>2, <1>4, <1>5, <1>8, <1>22 DEF heir, reRooted

LEMMA CommitDeleteKeeps ==
    ASSUME VersionsInv, NEW q \in ResumeRequests, CommitDelete(q)
    PROVE  VersionsInv'
<1> DEFINE m == request[q]
           S == m.siblings
           of == m.of
           rows == {<<d[1], d[2]>> : d \in RowsOf(of)}
           forgot == ForgetRows(rows)
           reRooted == ReRoot(S)
           heir == Oldest(S)
<1>1. /\ m.do = "delete" /\ of \notin Locked /\ Present(of)
      /\ \A s \in Resumes \ {of} : reRooted[s].root # of
      /\ resume' = [reRooted EXCEPT ![of] = NoVersion]
      /\ drafts' = drafts \ RowsOf(of)
      /\ wanted' = {w \in wanted : KnownWithout(of, w)}
      /\ request' = [forgot EXCEPT ![q] = Idle]
      /\ UNCHANGED <<created, files, editedUnder, halfDeleted>>
  BY DEF CommitDelete
<1>2. of \in Resumes /\ S \in SUBSET Resumes
  BY <1>1, RequestIs DEF VersionsInv, VersionsTyped
<1>3. resume \in [Resumes -> Version \union {NoVersion}] /\ created \in 0 .. MaxResumes
  BY DEF VersionsInv, VersionsTyped
<1>4. \A s \in S : resume[s] # NoVersion /\ s # of /\ resume[s].root = of
  BY RowDeleted
<1>5. S # {} => heir \in S
  BY RowDeleted
<1>8. /\ resume' \in [Resumes -> Version \union {NoVersion}] /\ resume'[of] = NoVersion
      /\ \A s \in Resumes \ {of} :
            /\ resume'[s] = reRooted[s]
            /\ resume'[s] # NoVersion <=> resume[s] # NoVersion
            /\ s \notin S => resume'[s] = resume[s]
            /\ s \in S => resume'[s].root = heir
            /\ resume[s] # NoVersion =>
                  /\ resume'[s].number = resume[s].number /\ resume'[s].main = resume[s].main
                  /\ resume'[s].file = resume[s].file /\ resume'[s].skills = resume[s].skills
  <2>1. resume' \in [Resumes -> Version \union {NoVersion}] /\ resume'[of] = NoVersion
    BY RowDeleted
  <2>2. ASSUME NEW s \in Resumes \ {of}
        PROVE  /\ resume'[s] = reRooted[s]
               /\ resume'[s] # NoVersion <=> resume[s] # NoVersion
               /\ s \notin S => resume'[s] = resume[s]
               /\ s \in S => resume'[s].root = heir
               /\ resume[s] # NoVersion =>
                     /\ resume'[s].number = resume[s].number /\ resume'[s].main = resume[s].main
                     /\ resume'[s].file = resume[s].file /\ resume'[s].skills = resume[s].skills
    BY RowDeleted
  <2> QED
    BY <2>1, <2>2
<1> HIDE DEF heir, reRooted
<1>9. /\ forgot \in [ResumeRequests -> Request]
      /\ \A p \in ResumeRequests :
                 /\ forgot[p].do = request[p].do
                 /\ request[p].do \in Applies =>
                       /\ forgot[p].rows = request[p].rows \ rows
                       /\ forgot[p].skills = request[p].skills
                       /\ forgot[p].root = request[p].root
                 /\ request[p].do \notin Applies => forgot[p] = request[p]
                 /\ request[p].do \in NewRows =>
                       /\ forgot[p].id = request[p].id /\ forgot[p].file = request[p].file
                       /\ forgot[p].number = request[p].number
                       /\ forgot[p].root = request[p].root
  BY ForgetIs DEF VersionsInv
<1> HIDE DEF rows, forgot
<1>10. /\ request' \in [ResumeRequests -> Request] /\ request'[q] = Idle
       /\ \A p \in ResumeRequests \ {q} : request'[p] = forgot[p]
  BY <1>1, <1>9 DEF Request
<1>11. Idle.do = "nothing"
  BY VersionBasics
<1>12. \A p \in ResumeRequests :
            /\ request[p].do \in NewRows => request[p].id \in Resumes /\ resume[request[p].id] = NoVersion
            /\ request[p].do \in {"restore", "apply", "applied"} => request[p].root \in Resumes
            /\ request[p].do = "delete" => request[p].siblings \subseteq Resumes
  BY RequestIs DEF VersionsInv, VersionsTyped, NewRows, Applies, RowsToCome, Present
<1>13. \A p \in ResumeRequests : request'[p].do # "nothing" =>
          p # q /\ request'[p].do = request[p].do /\ request'[p] = forgot[p]
  BY <1>9, <1>10, <1>11
<1>14. VersionsTyped'
  BY <1>1, <1>8, <1>10 DEF VersionsInv, VersionsTyped, Present
<1>15. \A s \in Resumes : resume'[s] # NoVersion => s # of /\ resume[s] # NoVersion
  BY <1>8
<1>16. RowsToCome'
  <2>1. ASSUME NEW p \in ResumeRequests, request'[p].do \in NewRows
        PROVE  /\ request'[p].id <= created /\ resume'[request'[p].id] = NoVersion
               /\ request'[p].file = request'[p].id /\ request'[p].id \in files
               /\ 1 <= request'[p].number /\ request'[p].number <= request'[p].id
               /\ request'[p].do = "upload" => request'[p].root = request'[p].id /\ request'[p].number = 1
    <3>1. /\ p # q /\ request'[p].do = request[p].do /\ request'[p].id = request[p].id
          /\ request'[p].file = request[p].file /\ request'[p].number = request[p].number
          /\ request'[p].root = request[p].root
      BY <2>1, <1>9, <1>13 DEF NewRows
    <3> QED
      BY <2>1, <3>1, <1>8, <1>12, <1>15 DEF VersionsInv, RowsToCome
  <2> QED
    BY <2>1, <1>1 DEF RowsToCome, Present
<1>17. IdsApart'
  BY <1>9, <1>13 DEF VersionsInv, IdsApart, NewRows
<1>18. \A r \in Resumes : resume[r] # NoVersion /\ resume[r].root = r => r \notin S
  BY <1>4
<1>19. RootsRead'
  <2>1. ASSUME NEW p \in ResumeRequests, request'[p].do \in {"restore", "apply", "applied"}
        PROVE  /\ request'[p].root <= created
               /\ resume'[request'[p].root] # NoVersion => resume'[request'[p].root].root = request'[p].root
               /\ \A o \in ResumeRequests : request'[o].do \in NewRows => request'[o].id # request'[p].root
    <3>1. p # q /\ request'[p].do = request[p].do /\ request'[p].root = request[p].root
      BY <2>1, <1>9, <1>13 DEF NewRows, Applies
    <3>2. \A o \in ResumeRequests : request'[o].do \in NewRows => request[o].do \in NewRows /\ request'[o].id = request[o].id
      BY <1>9, <1>13 DEF NewRows
    <3>3. /\ request[p].root <= created /\ request[p].root \in Resumes
          /\ resume[request[p].root] # NoVersion => resume[request[p].root].root = request[p].root
          /\ \A o \in ResumeRequests : request[o].do \in NewRows => request[o].id # request[p].root
      BY <2>1, <3>1, <1>12 DEF VersionsInv, RootsRead, Present
    <3> QED
      BY <3>1, <3>2, <3>3, <1>8, <1>15, <1>18
  <2> QED
    BY <2>1, <1>1 DEF RootsRead, Present
<1>20. \A s \in Resumes : resume[s] # NoVersion =>
          resume[s].root \in Resumes /\ resume[resume[s].root] # NoVersion
            /\ resume[resume[s].root].root = resume[s].root
  BY <1>3, VersionBasics DEF VersionsInv, FamiliesHold, Present
<1>21. FamiliesHold'
  <2>1. ASSUME NEW s \in Resumes, resume'[s] # NoVersion
        PROVE  resume'[resume'[s].root] # NoVersion /\ resume'[resume'[s].root].root = resume'[s].root
    <3>1. s # of /\ resume[s] # NoVersion /\ resume'[s].root # of
      BY <2>1, <1>1, <1>8, <1>15
    <3>2. CASE s \in S
      BY <3>1, <3>2, <1>2, <1>4, <1>5, <1>8
    <3>3. CASE s \notin S
      BY <3>1, <3>3, <1>8, <1>18, <1>20
    <3> QED
      BY <3>2, <3>3
  <2> QED
    BY <2>1 DEF FamiliesHold, Present
<1>22. NumbersApart'
  <2>1. ASSUME NEW r \in Resumes, NEW s \in Resumes, resume'[r] # NoVersion, resume'[s] # NoVersion,
               resume'[r].root = resume'[s].root, resume'[r].number = resume'[s].number
        PROVE  resume[r].root = resume[s].root /\ resume[r].number = resume[s].number
                 /\ resume[r] # NoVersion /\ resume[s] # NoVersion
    BY <2>1, <1>8, <1>15, RowDeleted
  <2> QED
    BY <2>1 DEF VersionsInv, NumbersApart, Present
<1>23. \A p \in ResumeRequests : request'[p].do = "delete" =>
          p # q /\ request[p].do = "delete" /\ request'[p] = request[p]
  BY <1>9, <1>13 DEF Applies
<1>24. SiblingsHeld'
  <2>1. ASSUME NEW p \in ResumeRequests, request'[p].do = "delete", NEW s \in request'[p].siblings
        PROVE  resume'[s] # NoVersion /\ s # request'[p].of /\ resume'[s].root = request'[p].of
    <3>1. p # q /\ request[p].do = "delete" /\ request'[p] = request[p] /\ s \in Resumes
      BY <2>1, <1>12, <1>23
    <3>2. s # of
      BY <2>1, <3>1, <1>1 DEF Locked
    <3>3. s \notin S
      BY <2>1, <3>1, <1>1 DEF VersionsInv, SiblingsApart
    <3>4. resume[s] # NoVersion /\ s # request[p].of /\ resume[s].root = request[p].of
      BY <2>1, <3>1 DEF VersionsInv, SiblingsHeld, Present
    <3> QED
      BY <3>1, <3>2, <3>3, <3>4, <1>8
  <2> QED
    BY <2>1 DEF SiblingsHeld, Present
<1>25. SiblingsApart'
  BY <1>23 DEF VersionsInv, SiblingsApart
<1>26. OneMain'
  BY <1>8, <1>15 DEF VersionsInv, OneMain, Main, Present
<1>27. DraftsThere'
  <2>1. \A d \in drafts : d[1] \in Resumes
    BY DEF VersionsInv, VersionsTyped
  <2> QED
    BY <2>1, <1>1, <1>8 DEF VersionsInv, DraftsThere, Present, RowsOf
<1>28. AppliesKnow'
  <2>1. ASSUME NEW p \in ResumeRequests, request'[p].do \in Applies, NEW d \in drafts',
               <<d[1], d[2]>> \in request'[p].rows
        PROVE  <<d[2], d[3]>> \in request'[p].skills \/ <<d[1], d[2]>> \in editedUnder
    <3>1. /\ p # q /\ request[p].do \in Applies /\ request'[p].skills = request[p].skills
          /\ request'[p].rows = request[p].rows \ rows
      BY <2>1, <1>9, <1>13 DEF Applies
    <3> QED
      BY <2>1, <3>1, <1>1 DEF VersionsInv, AppliesKnow
  <2> QED
    BY <2>1, <1>1 DEF AppliesKnow
<1>29. FilesOfRows'
  <2>1. ASSUME NEW s \in Resumes, resume'[s] # NoVersion, s \notin halfDeleted
        PROVE  resume'[s].file \in files \/ \E p \in ResumeRequests : request'[p].do = "delete" /\ request'[p].of = s
    <3>1. s # of /\ resume[s] # NoVersion /\ resume'[s].file = resume[s].file
      BY <2>1, <1>8, <1>15
    <3>2. \A p \in ResumeRequests \ {q} : request[p].do = "delete" => request'[p] = request[p]
      BY <1>9, <1>10 DEF Applies
    <3> QED
      BY <2>1, <3>1, <3>2 DEF VersionsInv, FilesOfRows, Present
  <2> QED
    BY <2>1, <1>1 DEF FilesOfRows, Present
<1>30. DraftsNotLost'
  <2>1. ASSUME NEW w \in wanted'
        PROVE  w \in drafts' \/ \E s \in Resumes : resume'[s] # NoVersion /\ <<w[2], w[3]>> \in resume'[s].skills
    <3>1. CASE w[1] # of /\ w \in drafts
      BY <3>1, <1>1 DEF RowsOf
    <3>2. CASE \E s \in Resumes \ {of} : Present(s) /\ <<w[2], w[3]>> \in resume[s].skills
      BY <3>2, <1>8 DEF Present
    <3> QED
      BY <2>1, <3>1, <3>2, <1>1 DEF KnownWithout
  <2> QED
    BY <2>1 DEF DraftsNotLost, Present
<1> QED
  BY <1>14, <1>16, <1>17, <1>19, <1>21, <1>22, <1>24, <1>25, <1>26, <1>27, <1>28, <1>29, <1>30 DEF VersionsInv

LEMMA AbortDeleteKeeps ==
    ASSUME VersionsInv, NEW q \in ResumeRequests, AbortDelete(q)
    PROVE  VersionsInv'
<1>1. /\ request[q].do = "delete" /\ halfDeleted' = halfDeleted \union {request[q].of}
      /\ request' = [request EXCEPT ![q] = Idle]
      /\ UNCHANGED <<resume, created, files, drafts, wanted, editedUnder>>
  BY DEF AbortDelete
<1>2. /\ request' \in [ResumeRequests -> Request] /\ request'[q] = Idle
      /\ \A p \in ResumeRequests \ {q} : request'[p] = request[p]
  BY <1>1 DEF VersionsInv, VersionsTyped, Request
<1>3. Idle.do = "nothing"
  BY VersionBasics
<1>4. VersionsTyped'
  BY <1>1, <1>2 DEF VersionsInv, VersionsTyped, Present
<1>5. RowsToCome' /\ IdsApart' /\ RootsRead'
  BY <1>1, <1>2, <1>3 DEF VersionsInv, RowsToCome, IdsApart, RootsRead, NewRows, Present
<1>6. FamiliesHold' /\ NumbersApart' /\ OneMain' /\ DraftsThere'
  BY <1>1 DEF VersionsInv, FamiliesHold, NumbersApart, OneMain, DraftsThere, Main, Present
<1>7. SiblingsHeld' /\ SiblingsApart'
  BY <1>1, <1>2, <1>3 DEF VersionsInv, SiblingsHeld, SiblingsApart, Present
<1>8. AppliesKnow'
  BY <1>1, <1>2, <1>3 DEF VersionsInv, AppliesKnow, Applies
<1>9. FilesOfRows' /\ DraftsNotLost'
  BY <1>1, <1>2 DEF VersionsInv, FilesOfRows, DraftsNotLost, Present
<1> QED
  BY <1>4, <1>5, <1>6, <1>7, <1>8, <1>9 DEF VersionsInv

LEMMA UpsertDraftKeeps ==
    ASSUME VersionsInv, NEW r \in Resumes, NEW k \in Skills, NEW text \in Texts, UpsertDraft(r, k, text)
    PROVE  VersionsInv'
<1> DEFINE old == {d \in drafts : d[1] = r /\ d[2] = k}
<1>1. /\ Present(r) /\ drafts' = (drafts \ old) \union {<<r, k, text>>}
      /\ wanted' = {w \in wanted : ~(w[1] = r /\ w[2] = k)} \union {<<r, k, text>>}
      /\ UNCHANGED <<resume, created, files, request, halfDeleted>>
  BY DEF UpsertDraft
<1>2. /\ \A d \in drafts : d \notin drafts' => d[1] = r /\ d[2] = k
      /\ \A d \in drafts' : d \in drafts \/ d = <<r, k, text>>
      /\ <<r, k, text>> \in drafts'
  BY <1>1
<1>3. \A r1, k1 : <<r1, k1>> = <<r, k>> => r1 = r /\ k1 = k
  OBVIOUS
<1>4. /\ (\E q \in ResumeRequests : request[q].do \in Applies /\ <<r, k>> \in request[q].rows)
            => editedUnder' = editedUnder \union {<<r, k>>}
      /\ ~(\E q \in ResumeRequests : request[q].do \in Applies /\ <<r, k>> \in request[q].rows)
            => editedUnder' = editedUnder \ {<<r, k>>}
  BY DEF UpsertDraft, Applies
<1>5. VersionsTyped'
  BY <1>1, <1>2 DEF VersionsInv, VersionsTyped, Present
<1>6. RowsToCome' /\ IdsApart' /\ RootsRead'
  BY <1>1 DEF VersionsInv, RowsToCome, IdsApart, RootsRead, Present
<1>7. FamiliesHold' /\ NumbersApart' /\ OneMain' /\ SiblingsHeld' /\ SiblingsApart' /\ FilesOfRows'
  BY <1>1 DEF VersionsInv, FamiliesHold, NumbersApart, OneMain, SiblingsHeld, SiblingsApart, FilesOfRows,
              Main, Present
<1>8. DraftsThere'
  BY <1>1, <1>2 DEF VersionsInv, DraftsThere, Present
<1>9. AppliesKnow'
  <2>1. ASSUME NEW q \in ResumeRequests, request[q].do \in Applies, NEW d \in drafts',
               <<d[1], d[2]>> \in request[q].rows
        PROVE  <<d[2], d[3]>> \in request[q].skills \/ <<d[1], d[2]>> \in editedUnder'
    <3>1. CASE <<d[1], d[2]>> = <<r, k>>
      BY <2>1, <3>1, <1>4
    <3>2. CASE <<d[1], d[2]>> # <<r, k>>
      <4>1. d \in drafts
        BY <3>2, <2>1, <1>2
      <4>2. <<d[1], d[2]>> \in editedUnder => <<d[1], d[2]>> \in editedUnder'
        BY <3>2, <1>4
      <4> QED
        BY <2>1, <4>1, <4>2 DEF VersionsInv, AppliesKnow
    <3> QED
      BY <3>1, <3>2
  <2> QED
    BY <2>1, <1>1 DEF AppliesKnow
<1>10. DraftsNotLost'
  <2>1. ASSUME NEW w \in wanted'
        PROVE  \/ w \in drafts'
               \/ \E s \in Resumes : Present(s) /\ <<w[2], w[3]>> \in resume[s].skills
               \/ <<w[1], w[2]>> \in editedUnder'
    <3>1. CASE w = <<r, k, text>>
      BY <3>1, <1>2
    <3>2. CASE w \in wanted /\ ~(w[1] = r /\ w[2] = k)
      <4>1. w \in drafts => w \in drafts'
        BY <3>2, <1>2
      <4>2. <<w[1], w[2]>> \in editedUnder => <<w[1], w[2]>> \in editedUnder'
        BY <3>2, <1>3, <1>4
      <4> QED
        BY <3>2, <4>1, <4>2 DEF VersionsInv, DraftsNotLost
    <3> QED
      BY <2>1, <3>1, <3>2, <1>1
  <2> QED
    BY <2>1, <1>1 DEF DraftsNotLost, Present
<1> QED
  BY <1>5, <1>6, <1>7, <1>8, <1>9, <1>10 DEF VersionsInv

LEMMA DeleteDraftKeeps ==
    ASSUME VersionsInv, NEW d \in drafts, DeleteDraft(d)
    PROVE  VersionsInv'
<1> DEFINE rows == {<<d[1], d[2]>>}
           forgot == ForgetRows(rows)
<1>1. /\ drafts' = drafts \ {d} /\ wanted' = wanted \ {d} /\ request' = forgot
      /\ UNCHANGED <<resume, created, files, editedUnder, halfDeleted>>
  BY DEF DeleteDraft
<1>2. /\ forgot \in [ResumeRequests -> Request]
      /\ \A p \in ResumeRequests :
                 /\ forgot[p].do = request[p].do
                 /\ request[p].do \in Applies =>
                       /\ forgot[p].rows = request[p].rows \ rows
                       /\ forgot[p].skills = request[p].skills
                       /\ forgot[p].root = request[p].root
                 /\ request[p].do \notin Applies => forgot[p] = request[p]
                 /\ request[p].do \in NewRows =>
                       /\ forgot[p].id = request[p].id /\ forgot[p].file = request[p].file
                       /\ forgot[p].number = request[p].number
                       /\ forgot[p].root = request[p].root
  BY ForgetIs DEF VersionsInv
<1> HIDE DEF forgot, rows
<1>3. VersionsTyped'
  BY <1>1, <1>2 DEF VersionsInv, VersionsTyped, Present
<1>4. RowsToCome' /\ IdsApart'
  <2>1. \A p \in ResumeRequests : request'[p].do \in NewRows =>
            /\ request'[p].do = request[p].do /\ request'[p].id = request[p].id
            /\ request'[p].file = request[p].file /\ request'[p].number = request[p].number
            /\ request'[p].root = request[p].root
    BY <1>1, <1>2
  <2>2. IdsApart'
    BY <2>1 DEF VersionsInv, IdsApart
  <2>3. ASSUME NEW p \in ResumeRequests, request'[p].do \in NewRows
        PROVE  /\ request'[p].id <= created /\ resume[request'[p].id] = NoVersion
               /\ request'[p].file = request'[p].id /\ request'[p].id \in files
               /\ 1 <= request'[p].number /\ request'[p].number <= request'[p].id
               /\ request'[p].do = "upload" => request'[p].root = request'[p].id /\ request'[p].number = 1
    BY <2>1, <2>3 DEF VersionsInv, RowsToCome, Present
  <2>4. RowsToCome'
    BY <2>3, <1>1 DEF RowsToCome, Present
  <2> QED
    BY <2>2, <2>4
<1>5. RootsRead'
  <2>1. ASSUME NEW p \in ResumeRequests, request'[p].do \in {"restore", "apply", "applied"}
        PROVE  /\ request'[p].root <= created
               /\ resume[request'[p].root] # NoVersion => resume[request'[p].root].root = request'[p].root
               /\ \A o \in ResumeRequests : request'[o].do \in NewRows => request'[o].id # request'[p].root
    <3>1. request'[p].do = request[p].do /\ request'[p].root = request[p].root
      BY <2>1, <1>1, <1>2 DEF NewRows, Applies
    <3>2. \A o \in ResumeRequests : request'[o].do \in NewRows => request[o].do \in NewRows /\ request'[o].id = request[o].id
      BY <1>1, <1>2
    <3> QED
      BY <2>1, <3>1, <3>2 DEF VersionsInv, RootsRead, Present
  <2> QED
    BY <2>1, <1>1 DEF RootsRead, Present
<1>6. \A p \in ResumeRequests : request'[p].do = "delete" <=> request[p].do = "delete"
  BY <1>1, <1>2
<1>7. \A p \in ResumeRequests : request'[p].do = "delete" => request'[p] = request[p]
  BY <1>1, <1>2 DEF Applies
<1>8. FamiliesHold' /\ NumbersApart' /\ OneMain'
  BY <1>1 DEF VersionsInv, FamiliesHold, NumbersApart, OneMain, Main, Present
<1>9. SiblingsHeld' /\ SiblingsApart' /\ FilesOfRows'
  BY <1>1, <1>6, <1>7 DEF VersionsInv, SiblingsHeld, SiblingsApart, FilesOfRows, Present
<1>10. DraftsThere' /\ DraftsNotLost'
  BY <1>1 DEF VersionsInv, DraftsThere, DraftsNotLost, Present
<1>11. AppliesKnow'
  <2>1. ASSUME NEW p \in ResumeRequests, request'[p].do \in Applies, NEW e \in drafts',
               <<e[1], e[2]>> \in request'[p].rows
        PROVE  <<e[2], e[3]>> \in request'[p].skills \/ <<e[1], e[2]>> \in editedUnder
    <3>1. /\ request[p].do \in Applies /\ request'[p].skills = request[p].skills
          /\ request'[p].rows = request[p].rows \ rows
      BY <2>1, <1>1, <1>2
    <3> QED
      BY <2>1, <3>1, <1>1 DEF VersionsInv, AppliesKnow
  <2> QED
    BY <2>1, <1>1 DEF AppliesKnow
<1> QED
  BY <1>3, <1>4, <1>5, <1>8, <1>9, <1>10, <1>11 DEF VersionsInv

LEMMA GreatestExists ==
    ASSUME NEW n \in Nat, NEW S \in SUBSET (0 .. n), S # {}
    PROVE  \E x \in S : \A y \in S : y <= x
<1> DEFINE T == {n - x : x \in S}
<1>1. T \in SUBSET Nat /\ T # {}
  <2>1. \A x \in S : n - x \in Nat
    OBVIOUS
  <2>2. PICK x \in S : TRUE
    OBVIOUS
  <2>3. n - x \in T
    OBVIOUS
  <2> QED
    BY <2>1, <2>3
<1>2. PICK t \in T : \A u \in T : t <= u
  BY <1>1, LeastExists
<1>3. PICK x \in S : t = n - x
  OBVIOUS
<1>4. ASSUME NEW y \in S PROVE y <= x
  <2>1. n - x <= n - y
    BY <1>2, <1>3
  <2> QED
    BY <2>1
<1> QED
  BY <1>4

\* The latest number of a family is the greatest one, and not above the ids.
LEMMA LatestNumberIs ==
    ASSUME VersionsTyped, NEW root
    PROVE  /\ LatestNumber(root) \in 0 .. created
           /\ \A r \in Family(root) : resume[r].number <= LatestNumber(root)
           /\ Family(root) # {} => \E r \in Family(root) : resume[r].number = LatestNumber(root)
<1> DEFINE F == Family(root)
           N == {resume[r].number : r \in F}
<1>1. resume \in [Resumes -> Version \union {NoVersion}] /\ created \in 0 .. MaxResumes
  BY DEF VersionsTyped
<1>2. \A r \in F : r \in Resumes /\ resume[r].number \in 1 .. MaxResumes /\ r <= created /\ resume[r].number <= r
  BY <1>1, VersionBasics DEF Family, Present, VersionsTyped
<1>3. \A r \in F : resume[r].number \in 0 .. created
  BY <1>1, <1>2, VersionBasics
<1>4. LatestNumber(root) = IF F = {} THEN 0 ELSE CHOOSE n \in N : \A r \in F : resume[r].number <= n
  BY DEF LatestNumber
<1> HIDE DEF F
<1>5. CASE F = {}
  BY <1>1, <1>4, <1>5, VersionBasics DEF F
<1>6. CASE F # {}
  <2>1. N \in SUBSET (0 .. created) /\ N # {} /\ created \in Nat
    BY <1>1, <1>3, <1>6
  <2>2. PICK n \in N : \A k \in N : k <= n
    BY <2>1, GreatestExists
  <2>3. \E x \in N : \A r \in F : resume[r].number <= x
    BY <2>2
  <2>4. LatestNumber(root) \in N /\ \A r \in F : resume[r].number <= LatestNumber(root)
    BY <1>4, <1>6, <2>3
  <2> QED
    BY <2>1, <2>4 DEF F
<1> QED
  BY <1>5, <1>6

LEMMA BeginUploadKeeps ==
    ASSUME VersionsInv, NEW q \in ResumeRequests, NEW id, BeginUpload(q, id)
    PROVE  VersionsInv'
<1> DEFINE main == \A r \in Resumes : ~Present(r)
           m == [do |-> "upload", id |-> id, root |-> id, number |-> 1, file |-> id,
                 skills |-> {}, main |-> main]
<1>1. /\ created < MaxResumes /\ id = created + 1 /\ created' = id /\ files' = files \union {id}
      /\ Begin(q, m)
  BY DEF BeginUpload, Create
<1>2. main \in BOOLEAN
  OBVIOUS
<1> HIDE DEF main
<1>3. created \in 0 .. MaxResumes /\ created' \in 0 .. MaxResumes /\ id \in Resumes /\ id >= 1 /\ created <= created'
  BY <1>1, VersionBasics DEF VersionsInv, VersionsTyped
<1>4. m \in Making
  BY <1>2, <1>3 DEF Making, Contents
<1>5. m \in Request /\ m # Idle
  BY <1>4, VersionBasics DEF Making, Request
<1>6. /\ m.do = "upload" /\ m.id = id /\ m.root = id /\ m.number = 1 /\ m.file = id
  OBVIOUS
<1> HIDE DEF m
<1>7. /\ request[q].do # "delete" /\ request' = [request EXCEPT ![q] = m]
      /\ UNCHANGED <<resume, drafts, wanted, editedUnder, halfDeleted>>
  BY <1>1, VersionBasics DEF Begin
<1>8. MayRead(m, created', files')
  BY <1>1, <1>3, <1>6 DEF MayRead, Applies
<1> QED
  BY <1>1, <1>3, <1>5, <1>7, <1>8, ReadKeeps

LEMMA BeginSetDefaultKeeps ==
    ASSUME VersionsInv, NEW q \in ResumeRequests, NEW r \in Resumes, BeginSetDefault(q, r)
    PROVE  VersionsInv'
<1> DEFINE m == [do |-> "default", of |-> r]
<1>1. Begin(q, m) /\ UNCHANGED <<created, files>>
  BY DEF BeginSetDefault
<1>2. created \in 0 .. MaxResumes /\ created <= created
  BY VersionBasics DEF VersionsInv, VersionsTyped
<1>3. m \in Defaulting /\ m.do = "default"
  BY DEF Defaulting
<1>4. m \in Request /\ m # Idle
  BY <1>3, VersionBasics DEF Request
<1> HIDE DEF m
<1>5. /\ request[q].do # "delete" /\ request' = [request EXCEPT ![q] = m]
      /\ UNCHANGED <<resume, drafts, wanted, editedUnder, halfDeleted>>
  BY <1>1, VersionBasics DEF Begin
<1>6. MayRead(m, created', files')
  BY <1>3 DEF MayRead, Applies, NewRows
<1> QED
  BY <1>1, <1>2, <1>4, <1>5, <1>6, ReadKeeps

LEMMA BeginRestoreKeeps ==
    ASSUME VersionsInv, NEW q \in ResumeRequests, NEW r \in Resumes, NEW id, BeginRestore(q, r, id)
    PROVE  VersionsInv'
<1> DEFINE root == resume[r].root
           main == RestoredMain(root)
           number == LatestNumber(root) + 1
           m == [do |-> "restore", id |-> id, root |-> root, number |-> number, file |-> id,
                 skills |-> resume[r].skills, main |-> main]
<1>1. /\ created < MaxResumes /\ id = created + 1 /\ created' = id /\ files' = files \union {id}
      /\ Begin(q, m) /\ Present(r)
  BY DEF BeginRestore, Create, RestoredFile
<1>2. main \in BOOLEAN
  BY DEF RestoredMain
<1>3. created \in 0 .. MaxResumes /\ created' \in 0 .. MaxResumes /\ id \in Resumes /\ created <= created'
  BY <1>1, VersionBasics DEF VersionsInv, VersionsTyped
<1>4. number \in Nat /\ 1 <= number /\ number <= id
  BY <1>1, <1>3, LatestNumberIs, VersionBasics DEF VersionsInv
<1>5. resume[r] \in Version /\ root \in Resumes /\ resume[r].skills \in Contents
  BY <1>1, VersionBasics DEF VersionsInv, VersionsTyped, Present
<1> HIDE DEF main, number
<1>6. m \in Making
  BY <1>2, <1>3, <1>4, <1>5 DEF Making
<1>7. m \in Request /\ m # Idle
  BY <1>6, VersionBasics DEF Making, Request
<1>8. /\ m.do = "restore" /\ m.id = id /\ m.root = root /\ m.number = number /\ m.file = id
  OBVIOUS
<1> HIDE DEF m
<1>9. /\ request[q].do # "delete" /\ request' = [request EXCEPT ![q] = m]
      /\ UNCHANGED <<resume, drafts, wanted, editedUnder, halfDeleted>>
  BY <1>1, VersionBasics DEF Begin
<1>10. Present(root) /\ resume[root].root = root /\ root <= created
  BY <1>1, <1>5 DEF VersionsInv, VersionsTyped, FamiliesHold
<1>11. \A p \in ResumeRequests : request[p].do \in NewRows => request[p].id # root
  BY <1>10 DEF VersionsInv, RowsToCome
<1>12. MayRead(m, created', files')
  BY <1>1, <1>3, <1>4, <1>8, <1>10, <1>11 DEF MayRead, Applies
<1> QED
  BY <1>1, <1>3, <1>7, <1>9, <1>12, ReadKeeps

LEMMA BeginApplyKeeps ==
    ASSUME VersionsInv, NEW q \in ResumeRequests, NEW r \in Resumes, BeginApply(q, r)
    PROVE  VersionsInv'
<1> DEFINE root == resume[r].root
           of == FamilyDrafts(root)
           rows == {<<d[1], d[2]>> : d \in of}
<1>1. PICK latest \in Latest(root) :
          Begin(q, [do |-> "apply", root |-> root, rows |-> rows,
                    skills |-> {s \in resume[latest].skills : \A d \in of : d[2] # s[1]}
                                 \union {<<d[2], d[3]>> : d \in of}])
  BY DEF BeginApply
<1> DEFINE skills == {s \in resume[latest].skills : \A d \in of : d[2] # s[1]} \union {<<d[2], d[3]>> : d \in of}
           m == [do |-> "apply", root |-> root, rows |-> rows, skills |-> skills]
<1>2. Begin(q, m) /\ UNCHANGED <<created, files>> /\ Present(r)
  BY <1>1 DEF BeginApply
<1>3. created \in 0 .. MaxResumes /\ created <= created
  BY VersionBasics DEF VersionsInv, VersionsTyped
<1>4. resume[r] \in Version /\ root \in Resumes
  BY <1>2, VersionBasics DEF VersionsInv, VersionsTyped, Present
<1>5. \A d \in of : d \in drafts /\ d[1] \in Resumes /\ d[2] \in Skills /\ d[3] \in Texts /\ d[1] \in Family(root)
  BY DEF FamilyDrafts, VersionsInv, VersionsTyped
<1>6. resume[latest].skills \in Contents
  <2>1. latest \in Resumes /\ Present(latest)
    BY <1>1 DEF Latest, Family
  <2> QED
    BY <2>1, VersionBasics DEF VersionsInv, VersionsTyped, Present
<1>7. rows \in SUBSET (Resumes \X Skills) /\ skills \in Contents
  BY <1>5, <1>6 DEF Contents
<1>8. \A d \in drafts : <<d[1], d[2]>> \in rows => <<d[2], d[3]>> \in skills
  <2> SUFFICES ASSUME NEW d \in drafts, <<d[1], d[2]>> \in rows PROVE <<d[2], d[3]>> \in skills
    OBVIOUS
  <2>1. PICK e \in of : <<d[1], d[2]>> = <<e[1], e[2]>>
    OBVIOUS
  <2>2. d[1] \in Family(root)
    BY <2>1, <1>5
  <2>3. d \in of
    BY <2>2 DEF FamilyDrafts
  <2> QED
    BY <2>3
<1> HIDE DEF rows, skills, of
<1>9. m \in Applying
  BY <1>4, <1>7 DEF Applying
<1>10. m \in Request /\ m # Idle
  BY <1>9, VersionBasics DEF Applying, Request
<1>11. m.do = "apply" /\ m.root = root /\ m.rows = rows /\ m.skills = skills
  OBVIOUS
<1> HIDE DEF m
<1>12. /\ request[q].do # "delete" /\ request' = [request EXCEPT ![q] = m]
      /\ UNCHANGED <<resume, drafts, wanted, editedUnder, halfDeleted>>
  BY <1>2, VersionBasics DEF Begin
<1>13. Present(root) /\ resume[root].root = root /\ root <= created
  BY <1>2, <1>4 DEF VersionsInv, VersionsTyped, FamiliesHold
<1>14. \A p \in ResumeRequests : request[p].do \in NewRows => request[p].id # root
  BY <1>13 DEF VersionsInv, RowsToCome
<1>15. MayRead(m, created', files')
  BY <1>8, <1>11, <1>13, <1>14 DEF MayRead, NewRows
<1> QED
  BY <1>2, <1>3, <1>10, <1>12, <1>15, ReadKeeps

LEMMA StoreAppliedKeeps ==
    ASSUME VersionsInv, NEW q \in ResumeRequests, NEW id, StoreApplied(q, id)
    PROVE  VersionsInv'
<1> DEFINE o == request[q]
           number == LatestNumber(o.root) + 1
           yes == TRUE
           m == [do |-> "applied", id |-> id, root |-> o.root, number |-> number, file |-> id,
                 skills |-> o.skills, main |-> yes, rows |-> o.rows]
<1>1. /\ created < MaxResumes /\ id = created + 1 /\ created' = id /\ files' = files \union {id}
      /\ o.do = "apply" /\ request' = [request EXCEPT ![q] = m]
      /\ UNCHANGED <<resume, drafts, wanted, editedUnder, halfDeleted>>
  BY DEF StoreApplied, Create, resumeHistory
<1>2. yes \in BOOLEAN
  OBVIOUS
<1>3. created \in 0 .. MaxResumes /\ created' \in 0 .. MaxResumes /\ id \in Resumes /\ created <= created'
  BY <1>1, VersionBasics DEF VersionsInv, VersionsTyped
<1>4. number \in Nat /\ 1 <= number /\ number <= id
  BY <1>1, <1>3, LatestNumberIs, VersionBasics DEF VersionsInv
<1>5. o.root \in Resumes /\ o.skills \in Contents /\ o.rows \in SUBSET (Resumes \X Skills)
  BY <1>1, RequestIs DEF VersionsInv, VersionsTyped, Applies
<1> HIDE DEF yes, number
<1>6. m \in Applied
  BY <1>2, <1>3, <1>4, <1>5 DEF Applied
<1>7. m \in Request /\ m # Idle
  BY <1>6, VersionBasics DEF Applied, Request
<1>8. /\ m.do = "applied" /\ m.id = id /\ m.root = o.root /\ m.number = number /\ m.file = id
      /\ m.rows = o.rows /\ m.skills = o.skills
  OBVIOUS
<1> HIDE DEF m
<1>9. \A d \in drafts : <<d[1], d[2]>> \in o.rows =>
          <<d[2], d[3]>> \in o.skills \/ <<d[1], d[2]>> \in editedUnder
  BY <1>1 DEF VersionsInv, AppliesKnow, Applies
<1>10. /\ o.root <= created /\ (Present(o.root) => resume[o.root].root = o.root)
       /\ \A p \in ResumeRequests : request[p].do \in NewRows => request[p].id # o.root
  BY <1>1 DEF VersionsInv, RootsRead
<1>11. MayRead(m, created', files')
  BY <1>1, <1>3, <1>4, <1>8, <1>9, <1>10 DEF MayRead
<1>12. \A r \in files : r \in files'
  BY <1>1
<1>13. request[q].do # "delete"
  BY <1>1
<1> QED
  BY <1>1, <1>3, <1>7, <1>11, <1>12, <1>13, ReadKeeps

LEMMA BeginDeleteKeeps ==
    ASSUME VersionsInv, NEW q \in ResumeRequests, NEW r \in Resumes, BeginDelete(q, r)
    PROVE  VersionsInv'
<1> DEFINE siblings == Family(r) \ {r}
           m == [do |-> "delete", of |-> r, siblings |-> siblings]
<1>1. /\ Present(r) /\ siblings \intersect Locked = {} /\ Begin(q, m)
      /\ files' = files \ {resume[r].file} /\ created' = created
  BY DEF BeginDelete
<1>2. created \in 0 .. MaxResumes /\ created <= created
  BY VersionBasics DEF VersionsInv, VersionsTyped
<1>3. siblings \in SUBSET Resumes
  BY DEF Family
<1> HIDE DEF siblings
<1>4. m \in Deleting /\ m.do = "delete" /\ m.of = r /\ m.siblings = siblings
  BY <1>3 DEF Deleting
<1>5. m \in Request /\ m # Idle
  BY <1>4, VersionBasics DEF Request
<1> HIDE DEF m
<1>6. /\ request[q].do # "delete" /\ request' = [request EXCEPT ![q] = m]
      /\ UNCHANGED <<resume, drafts, wanted, editedUnder, halfDeleted>>
  BY <1>1, VersionBasics DEF Begin
<1>7. MayRead(m, created', files')
  BY <1>1, <1>4 DEF MayRead, Applies, NewRows, siblings
<1>8. resume[r].file = r
  BY <1>1 DEF VersionsInv, VersionsTyped
<1>9. \A x \in files : x \in files' \/ (m.do = "delete" /\ Present(m.of) /\ x = m.of)
  BY <1>1, <1>4, <1>8
<1> QED
  BY <1>1, <1>2, <1>5, <1>6, <1>7, <1>9, ReadKeeps

LEMMA VersionsInvStep == VersionsInv /\ [ResumesNext]_resumeVars => VersionsInv'
<1> SUFFICES ASSUME VersionsInv, [ResumesNext]_resumeVars PROVE VersionsInv'
  OBVIOUS
<1>1. CASE UNCHANGED resumeVars
  BY <1>1 DEF resumeVars, VersionsInv, VersionsTyped, RowsToCome, IdsApart, RootsRead, FamiliesHold,
              NumbersApart, SiblingsHeld, SiblingsApart, OneMain, DraftsThere, AppliesKnow, FilesOfRows,
              DraftsNotLost, Present, Main
<1>2. ASSUME NEW q \in ResumeRequests, request[q].do # "delete" /\ Abort(q) PROVE VersionsInv'
  BY <1>2, FailKeeps DEF Abort
<1> QED
  BY <1>1, <1>2, BeginUploadKeeps, StoreAppliedKeeps, BeginRestoreKeeps, BeginSetDefaultKeeps,
     BeginApplyKeeps, BeginDeleteKeeps, CommitVersionKeeps, CommitSetDefaultKeeps, CommitDeleteKeeps,
     AbortDeleteKeeps, UpsertDraftKeeps, DeleteDraftKeeps DEF ResumesNext

LEMMA VersionsInvTypes == VersionsInv => ResumesTypeOK
<1> SUFFICES ASSUME VersionsInv PROVE ResumesTypeOK
  OBVIOUS
<1>1. Cardinality(Main) <= 1
  <2>1. CASE Main = {}
    BY <2>1, FS_EmptySet
  <2>2. CASE Main # {}
    <3>1. PICK r \in Main : TRUE
      BY <2>2
    <3>2. Main = {r}
      BY <3>1 DEF VersionsInv, OneMain
    <3>3. Cardinality({r}) = 1
      BY FS_Singleton
    <3>4. Cardinality(Main) = 1
      BY <3>2, <3>3
    <3> QED
      BY <3>4
  <2> QED
    BY <2>1, <2>2
<1>2. ASSUME NEW r \in Resumes, Present(r)
      PROVE  /\ resume[r].root \in Family(resume[r].root)
             /\ \A s \in Family(resume[r].root) \ {r} : resume[s].number # resume[r].number
  <2>1. resume[r].root \in Resumes
    BY <1>2, VersionBasics DEF VersionsInv, VersionsTyped, Present
  <2> QED
    BY <1>2, <2>1 DEF VersionsInv, FamiliesHold, NumbersApart, Family
<1> QED
  BY <1>1, <1>2 DEF VersionsInv, VersionsTyped, DraftsThere, ResumesTypeOK

LEMMA VersionsInvHolds == ResumesSpec => []VersionsInv
<1> QED
  BY VersionsInvInit, VersionsInvStep, PTL DEF ResumesSpec

\* Families keep their root among them, their numbers apart, and there is one
\* default at most, however requests, failures and deletions overlap.
THEOREM VersionsFit == ResumesSpec => []ResumesTypeOK
<1> QED
  BY VersionsInvHolds, VersionsInvTypes, PTL

\* Every version has its own file, for any number of resumes and requests.
THEOREM FilesStay == ResumesSpec => []FilesOfRows
<1>1. VersionsInv => FilesOfRows
  BY DEF VersionsInv
<1> QED
  BY <1>1, VersionsInvHolds, PTL

\* No draft is lost by an application that was not given it, for any number
\* of resumes, skills and requests.
THEOREM DraftsStay == ResumesSpec => []DraftsNotLost
<1>1. VersionsInv => DraftsNotLost
  BY DEF VersionsInv
<1> QED
  BY <1>1, VersionsInvHolds, PTL

-----------------------------------------------------------------------------
(* The default version.                                                    *)

Disturbed == {"default", "delete"} \intersect overlapped # {}

\* Of r's family, none has a greater number.
Tops(r) == \A s \in Resumes : Present(s) /\ resume[s].root = resume[r].root => resume[s].number <= resume[r].number

\* A number that was read follows one that is there, and is above all of them
\* or taken by now; when it is free, the family has the default only as it
\* was read to have it.  A row that is to be the default is the latest.
NumberRead(q) ==
    /\ request[q].do \in {"restore", "applied"} /\ Present(request[q].root) =>
          /\ \E s \in Resumes : Present(s) /\ resume[s].root = request[q].root
                                  /\ resume[s].number = request[q].number - 1
          /\ \/ \E s \in Resumes : Present(s) /\ resume[s].root = request[q].root
                                     /\ resume[s].number = request[q].number
             \/ \A s \in Resumes : Present(s) /\ resume[s].root = request[q].root =>
                    resume[s].number < request[q].number /\ (resume[s].main => request[q].main)
    /\ request[q].do = "default" /\ Present(request[q].of) => Tops(request[q].of)

\* Until a request to set the default, or a deletion, has overlapped, such a
\* request is alone.
AloneUntil ==
    \A p, q \in ResumeRequests : request[q].do \in {"default", "delete"} /\ request[p].do # "nothing" => p = q

MainTops == \A r \in Main : Tops(r)

LatestInv == ~Disturbed => AloneUntil /\ MainTops /\ \A q \in ResumeRequests : NumberRead(q)

LEMMA LatestMeans ==
    ASSUME VersionsTyped, NEW r \in Resumes, Present(r)
    PROVE  r \in Latest(resume[r].root) <=> Tops(r)
<1> DEFINE root == resume[r].root
<1>1. r \in Family(root) /\ resume[r].number \in Nat
  BY VersionBasics DEF VersionsTyped, Family, Present
<1>2. /\ LatestNumber(root) \in Nat /\ \A s \in Family(root) : resume[s].number <= LatestNumber(root)
      /\ \E s \in Family(root) : resume[s].number = LatestNumber(root)
  BY <1>1, LatestNumberIs, VersionBasics DEF VersionsTyped
<1>3. r \in Latest(root) <=> resume[r].number = LatestNumber(root)
  BY <1>1 DEF Latest
<1>4. Tops(r) <=> \A s \in Family(root) : resume[s].number <= resume[r].number
  BY DEF Tops, Family
<1> QED
  BY <1>1, <1>2, <1>3, <1>4

\* What a request that begins may have read about numbers.
MayNumber(m) ==
    /\ m.do \in {"restore", "applied"} =>
          /\ \E s \in Resumes : Present(s) /\ resume[s].root = m.root /\ resume[s].number = m.number - 1
          /\ \A s \in Resumes : Present(s) /\ resume[s].root = m.root =>
                 resume[s].number < m.number /\ (resume[s].main => m.main)
    /\ m.do = "default" => Tops(m.of)

LEMMA ReadNumbers ==
    ASSUME VersionsInv, LatestInv, NEW q \in ResumeRequests, NEW m \in Request, Begin(q, m),
           m # Idle, MayNumber(m)
    PROVE  LatestInv'
<1>1. /\ request' = [request EXCEPT ![q] = m] /\ request[q] = Idle /\ resume' = resume
      /\ overlapped' = IF Running = {} THEN overlapped
                       ELSE overlapped \union {m.do} \union {request[o].do : o \in Running}
  BY DEF Begin
<1>2. /\ request'[q] = m /\ \A p \in ResumeRequests \ {q} : request'[p] = request[p]
  BY <1>1 DEF VersionsInv, VersionsTyped
<1> SUFFICES ASSUME ~Disturbed' PROVE AloneUntil' /\ MainTops' /\ \A p \in ResumeRequests : NumberRead(p)'
  BY DEF LatestInv
<1>3. ~Disturbed
  BY <1>1 DEF Disturbed
<1>4. \A p \in ResumeRequests : request[p].do # "nothing" => p \in Running
  BY RequestIs DEF Running, VersionsInv, VersionsTyped
<1>5. AloneUntil'
  <2>1. \A p \in ResumeRequests : request[p].do # "nothing" =>
            m.do \notin {"default", "delete"} /\ request[p].do \notin {"default", "delete"}
    BY <1>1, <1>4 DEF Disturbed
  <2> QED
    BY <2>1, <1>2, <1>3 DEF AloneUntil, LatestInv
<1>6. MainTops'
  BY <1>1, <1>3 DEF MainTops, Main, Tops, Present, LatestInv
<1>7. ASSUME NEW p \in ResumeRequests PROVE NumberRead(p)'
  <2>1. CASE p = q
    BY <2>1, <1>1, <1>2 DEF NumberRead, MayNumber, Tops, Present
  <2>2. CASE p # q
    BY <2>2, <1>1, <1>2, <1>3 DEF NumberRead, Tops, Present, LatestInv
  <2> QED
    BY <2>1, <2>2
<1> QED
  BY <1>5, <1>6, <1>7

\* A request ends and changes no row.
LEMMA EndNumbers ==
    ASSUME VersionsInv, LatestInv, NEW q \in ResumeRequests, request' = [request EXCEPT ![q] = Idle],
           UNCHANGED <<resume, overlapped>>
    PROVE  LatestInv'
<1>1. /\ request'[q] = Idle /\ \A p \in ResumeRequests \ {q} : request'[p] = request[p]
  BY DEF VersionsInv, VersionsTyped
<1>2. Idle.do = "nothing"
  BY VersionBasics
<1>3. AloneUntil => AloneUntil'
  BY <1>1, <1>2 DEF AloneUntil
<1>4. MainTops => MainTops'
  BY DEF MainTops, Main, Tops, Present
<1>5. ASSUME NEW p \in ResumeRequests, NumberRead(p) PROVE NumberRead(p)'
  <2>1. CASE p = q
    BY <2>1, <1>1, <1>2 DEF NumberRead
  <2>2. CASE p # q
    BY <2>2, <1>1, <1>5 DEF NumberRead, Tops, Present
  <2> QED
    BY <2>1, <2>2
<1> QED
  BY <1>3, <1>4, <1>5 DEF LatestInv, Disturbed

\* The next number of a family that is there.
LEMMA NextNumber ==
    ASSUME VersionsInv, NEW root \in Resumes, Present(root), resume[root].root = root
    PROVE  /\ \E s \in Resumes : Present(s) /\ resume[s].root = root /\ resume[s].number = LatestNumber(root)
           /\ \A s \in Resumes : Present(s) /\ resume[s].root = root => resume[s].number < LatestNumber(root) + 1
           /\ LatestNumber(root) \in Nat
<1>1. root \in Family(root)
  BY DEF Family
<1>2. /\ LatestNumber(root) \in 0 .. created /\ \A s \in Family(root) : resume[s].number <= LatestNumber(root)
      /\ \E s \in Family(root) : resume[s].number = LatestNumber(root)
  BY <1>1, LatestNumberIs DEF VersionsInv
<1>3. LatestNumber(root) \in Nat
  BY <1>2, VersionBasics DEF VersionsInv, VersionsTyped
<1>4. \A s \in Family(root) : resume[s].number \in Nat
  BY VersionBasics DEF Family, Present, VersionsInv, VersionsTyped
<1>5. \A s \in Resumes : Present(s) /\ resume[s].root = root <=> s \in Family(root)
  BY DEF Family
<1>6. \A k, n \in Nat : k <= n => k < n + 1
  OBVIOUS
<1>7. \A s \in Resumes : Present(s) /\ resume[s].root = root => resume[s].number < LatestNumber(root) + 1
  BY <1>2, <1>3, <1>4, <1>5, <1>6
<1>8. \E s \in Resumes : Present(s) /\ resume[s].root = root /\ resume[s].number = LatestNumber(root)
  BY <1>2 DEF Family
<1> QED
  BY <1>3, <1>7, <1>8

LEMMA BeginUploadNumbers ==
    ASSUME VersionsInv, LatestInv, NEW q \in ResumeRequests, NEW id, BeginUpload(q, id)
    PROVE  LatestInv'
<1> DEFINE main == \A r \in Resumes : ~Present(r)
           m == [do |-> "upload", id |-> id, root |-> id, number |-> 1, file |-> id,
                 skills |-> {}, main |-> main]
<1>1. created < MaxResumes /\ id = created + 1 /\ Begin(q, m)
  BY DEF BeginUpload, Create
<1>2. main \in BOOLEAN
  OBVIOUS
<1> HIDE DEF main
<1>3. id \in Resumes
  BY <1>1, VersionBasics DEF VersionsInv, VersionsTyped
<1>4. m \in Making
  BY <1>2, <1>3 DEF Making, Contents
<1>5. m \in Request /\ m # Idle /\ m.do = "upload"
  BY <1>4, VersionBasics DEF Making, Request
<1> HIDE DEF m
<1>6. MayNumber(m)
  BY <1>5 DEF MayNumber
<1> QED
  BY <1>1, <1>5, <1>6, ReadNumbers

LEMMA BeginSetDefaultNumbers ==
    ASSUME VersionsInv, LatestInv, NEW q \in ResumeRequests, NEW r \in Resumes, BeginSetDefault(q, r)
    PROVE  LatestInv'
<1> DEFINE m == [do |-> "default", of |-> r]
<1>1. Begin(q, m) /\ Present(r) /\ r \in Latest(resume[r].root)
  BY DEF BeginSetDefault
<1>2. m \in Defaulting /\ m.do = "default" /\ m.of = r
  BY DEF Defaulting
<1>3. m \in Request /\ m # Idle
  BY <1>2, VersionBasics DEF Request
<1> HIDE DEF m
<1>4. Tops(r)
  BY <1>1, LatestMeans DEF VersionsInv
<1>5. MayNumber(m)
  BY <1>2, <1>4 DEF MayNumber
<1> QED
  BY <1>1, <1>3, <1>5, ReadNumbers

LEMMA BeginRestoreNumbers ==
    ASSUME VersionsInv, LatestInv, NEW q \in ResumeRequests, NEW r \in Resumes, NEW id, BeginRestore(q, r, id)
    PROVE  LatestInv'
<1> DEFINE root == resume[r].root
           main == RestoredMain(root)
           number == LatestNumber(root) + 1
           m == [do |-> "restore", id |-> id, root |-> root, number |-> number, file |-> id,
                 skills |-> resume[r].skills, main |-> main]
<1>1. created < MaxResumes /\ id = created + 1 /\ Begin(q, m) /\ Present(r)
  BY DEF BeginRestore, Create, RestoredFile
<1>2. main \in BOOLEAN /\ \A s \in Resumes : Present(s) /\ resume[s].root = root /\ resume[s].main => main
  BY DEF RestoredMain, Main, Family
<1>3. id \in Resumes
  BY <1>1, VersionBasics DEF VersionsInv, VersionsTyped
<1>4. resume[r] \in Version /\ root \in Resumes /\ resume[r].skills \in Contents
  BY <1>1, VersionBasics DEF VersionsInv, VersionsTyped, Present
<1>5. Present(root) /\ resume[root].root = root
  BY <1>1 DEF VersionsInv, FamiliesHold
<1>6. /\ number \in Nat
      /\ \E s \in Resumes : Present(s) /\ resume[s].root = root /\ resume[s].number = number - 1
      /\ \A s \in Resumes : Present(s) /\ resume[s].root = root => resume[s].number < number
  <2>1. /\ \E s \in Resumes : Present(s) /\ resume[s].root = root /\ resume[s].number = LatestNumber(root)
        /\ \A s \in Resumes : Present(s) /\ resume[s].root = root => resume[s].number < LatestNumber(root) + 1
        /\ LatestNumber(root) \in Nat
    BY <1>4, <1>5, NextNumber
  <2>2. number \in Nat /\ number - 1 = LatestNumber(root)
    BY <2>1
  <2> QED
    BY <2>1, <2>2
<1> HIDE DEF main, number
<1>7. m \in Making
  BY <1>2, <1>3, <1>4, <1>6 DEF Making
<1>8. m \in Request /\ m # Idle
  BY <1>7, VersionBasics DEF Making, Request
<1>9. m.do = "restore" /\ m.root = root /\ m.number = number /\ m.main = main
  OBVIOUS
<1> HIDE DEF m
<1>10. MayNumber(m)
  BY <1>2, <1>6, <1>9 DEF MayNumber
<1> QED
  BY <1>1, <1>8, <1>10, ReadNumbers

LEMMA BeginApplyNumbers ==
    ASSUME VersionsInv, LatestInv, NEW q \in ResumeRequests, NEW r \in Resumes, BeginApply(q, r)
    PROVE  LatestInv'
<1>1. PICK latest \in Latest(resume[r].root) :
          Begin(q, [do |-> "apply", root |-> resume[r].root,
                    rows |-> {<<d[1], d[2]>> : d \in FamilyDrafts(resume[r].root)},
                    skills |-> {s \in resume[latest].skills :
                                         \A d \in FamilyDrafts(resume[r].root) : d[2] # s[1]}
                                 \union {<<d[2], d[3]>> : d \in FamilyDrafts(resume[r].root)}])
  BY DEF BeginApply
<1> DEFINE m == [do |-> "apply", root |-> resume[r].root,
                 rows |-> {<<d[1], d[2]>> : d \in FamilyDrafts(resume[r].root)},
                 skills |-> {s \in resume[latest].skills :
                                      \A d \in FamilyDrafts(resume[r].root) : d[2] # s[1]}
                              \union {<<d[2], d[3]>> : d \in FamilyDrafts(resume[r].root)}]
<1>2. Begin(q, m) /\ m.do = "apply"
  BY <1>1
<1> HIDE DEF m
<1>3. request' = [request EXCEPT ![q] = m]
  BY <1>2 DEF Begin
<1>4. m \in Request
  BY <1>3, BeginApplyKeeps DEF VersionsInv, VersionsTyped
<1>5. m # Idle
  BY <1>2, VersionBasics
<1>6. MayNumber(m)
  BY <1>2 DEF MayNumber
<1> QED
  BY <1>2, <1>4, <1>5, <1>6, ReadNumbers

LEMMA BeginDeleteNumbers ==
    ASSUME VersionsInv, LatestInv, NEW q \in ResumeRequests, NEW r \in Resumes, BeginDelete(q, r)
    PROVE  LatestInv'
<1> DEFINE siblings == Family(r) \ {r}
           m == [do |-> "delete", of |-> r, siblings |-> siblings]
<1>1. Begin(q, m)
  BY DEF BeginDelete
<1>2. siblings \in SUBSET Resumes
  BY DEF Family
<1> HIDE DEF siblings
<1>3. m \in Deleting /\ m.do = "delete"
  BY <1>2 DEF Deleting
<1>4. m \in Request /\ m # Idle
  BY <1>3, VersionBasics DEF Request
<1> HIDE DEF m
<1>5. MayNumber(m)
  BY <1>3 DEF MayNumber
<1> QED
  BY <1>1, <1>4, <1>5, ReadNumbers

LEMMA StoreAppliedNumbers ==
    ASSUME VersionsInv, LatestInv, NEW q \in ResumeRequests, NEW id, StoreApplied(q, id)
    PROVE  LatestInv'
<1> DEFINE o == request[q]
           number == LatestNumber(o.root) + 1
           yes == TRUE
           m == [do |-> "applied", id |-> id, root |-> o.root, number |-> number, file |-> id,
                 skills |-> o.skills, main |-> yes, rows |-> o.rows]
<1>1. o.do = "apply" /\ request' = [request EXCEPT ![q] = m] /\ UNCHANGED <<resume, overlapped>>
  BY DEF StoreApplied, resumeHistory
<1>2. yes
  OBVIOUS
<1>3. o.root \in Resumes
  BY <1>1, RequestIs DEF VersionsInv, VersionsTyped, Applies
<1>4. Present(o.root) =>
        /\ \E s \in Resumes : Present(s) /\ resume[s].root = o.root /\ resume[s].number = number - 1
        /\ \A s \in Resumes : Present(s) /\ resume[s].root = o.root => resume[s].number < number
  <2> SUFFICES ASSUME Present(o.root)
               PROVE  /\ \E s \in Resumes : Present(s) /\ resume[s].root = o.root /\ resume[s].number = number - 1
                      /\ \A s \in Resumes : Present(s) /\ resume[s].root = o.root => resume[s].number < number
    OBVIOUS
  <2>1. resume[o.root].root = o.root
    BY <1>1 DEF VersionsInv, RootsRead
  <2>2. /\ \E s \in Resumes : Present(s) /\ resume[s].root = o.root /\ resume[s].number = LatestNumber(o.root)
        /\ \A s \in Resumes : Present(s) /\ resume[s].root = o.root => resume[s].number < LatestNumber(o.root) + 1
        /\ LatestNumber(o.root) \in Nat
    BY <1>3, <2>1, NextNumber
  <2>3. number - 1 = LatestNumber(o.root)
    BY <2>2
  <2> QED
    BY <2>2, <2>3
<1> HIDE DEF yes, number
<1>5. m.do = "applied" /\ m.root = o.root /\ m.number = number /\ m.main = yes
  OBVIOUS
<1> HIDE DEF m
<1>6. request'[q] = m /\ \A p \in ResumeRequests \ {q} : request'[p] = request[p]
  BY <1>1 DEF VersionsInv, VersionsTyped
<1>7. AloneUntil => AloneUntil'
  BY <1>1, <1>5, <1>6 DEF AloneUntil
<1>8. MainTops => MainTops'
  BY <1>1 DEF MainTops, Main, Tops, Present
<1>9. ASSUME NEW p \in ResumeRequests, NumberRead(p) PROVE NumberRead(p)'
  <2>1. CASE p = q
    <3>1. /\ request'[q].do = "applied" /\ request'[q].root = o.root /\ request'[q].number = number
          /\ request'[q].main /\ resume' = resume
      BY <1>1, <1>2, <1>5, <1>6
    <3>2. o.root \in Resumes /\ resume[o.root] # NoVersion =>
        /\ \E s \in Resumes : resume[s] # NoVersion /\ resume[s].root = o.root /\ resume[s].number = number - 1
        /\ \A s \in Resumes : resume[s] # NoVersion /\ resume[s].root = o.root => resume[s].number < number
      BY <1>4 DEF Present
    <3>3. NumberRead(q)'
      BY <3>1, <3>2, <1>3 DEF NumberRead, Present
    <3> QED
      BY <2>1, <3>3
  <2>2. CASE p # q
    BY <2>2, <1>1, <1>6, <1>9 DEF NumberRead, Tops, Present
  <2> QED
    BY <2>1, <2>2
<1> QED
  BY <1>1, <1>7, <1>8, <1>9 DEF LatestInv, Disturbed

LEMMA CommitVersionNumbers ==
    ASSUME VersionsInv, LatestInv, NEW q \in ResumeRequests, CommitVersion(q)
    PROVE  LatestInv'
<1> DEFINE m == request[q]
<1>1. CASE Refused(m)
  BY <1>1, EndNumbers DEF CommitVersion, Fail, resumeHistory
<1>2. CASE ~Refused(m)
  <2>1. /\ m.do \in NewRows /\ m.id \in Resumes /\ m.number \in Nat /\ overlapped' = overlapped
        /\ request' = [request EXCEPT ![q] = Idle] /\ resume[m.id] = NoVersion
    BY <1>2, VersionStored
  <2>2. /\ resume'[m.id].root = m.root /\ resume'[m.id].number = m.number /\ resume'[m.id].main = m.main
        /\ resume'[m.id] # NoVersion
    <3> DEFINE new == [root |-> m.root, number |-> m.number, main |-> m.main, file |-> m.file,
                       skills |-> m.skills]
    <3>1. resume'[m.id] = new /\ new \in Version
      BY <1>2, VersionStored
    <3>2. new.root = m.root /\ new.number = m.number /\ new.main = m.main
      OBVIOUS
    <3> HIDE DEF new
    <3> QED
      BY <3>1, <3>2, VersionBasics
  <2>3. \A s \in Resumes \ {m.id} :
            /\ resume'[s] # NoVersion <=> resume[s] # NoVersion
            /\ resume[s] # NoVersion =>
                  /\ resume'[s].root = resume[s].root /\ resume'[s].number = resume[s].number
                  /\ resume'[s].main => resume[s].main /\ ~m.main
    BY <1>2, VersionStored
  <2>4. \A s \in Resumes : resume[s] # NoVersion => resume[s].root \in Resumes \ {m.id}
    BY <1>2, VersionStored
  <2>5. m.do # "upload" => /\ m.root # m.id /\ resume[m.root] # NoVersion
                           /\ \A s \in Resumes : resume[s] # NoVersion /\ resume[s].root = m.root =>
                                   resume[s].number # m.number
    BY <1>2, VersionStored
  <2>6. \A p \in ResumeRequests \ {q} : request[p].do \in {"restore", "apply", "applied"} =>
            request[p].root \in Resumes \ {m.id}
    BY <1>2, VersionStored
  <2>7. request'[q] = Idle /\ Idle.do = "nothing" /\ \A p \in ResumeRequests \ {q} : request'[p] = request[p]
    BY <2>1, VersionBasics DEF VersionsInv, VersionsTyped
  <2>8. m.do # "nothing" /\ m.do \notin {"default", "delete"}
    BY <2>1 DEF NewRows
  <2>9. m.do = "upload" => m.root = m.id
    BY <2>1 DEF VersionsInv, RowsToCome
  <2>10. \A s \in Resumes : resume[s] # NoVersion => resume[s].number \in Nat
    BY VersionBasics DEF VersionsInv, VersionsTyped
  <2>11. \A p \in ResumeRequests : request[p].do \in {"restore", "applied"} => request[p].number \in Nat
    BY RequestIs DEF VersionsInv, VersionsTyped, NewRows
  <2> SUFFICES ASSUME ~Disturbed' PROVE AloneUntil' /\ MainTops' /\ \A p \in ResumeRequests : NumberRead(p)'
    BY DEF LatestInv
  <2>12. AloneUntil /\ MainTops /\ \A p \in ResumeRequests : NumberRead(p)
    BY <2>1 DEF LatestInv, Disturbed
  <2>13. AloneUntil'
    BY <2>7, <2>12 DEF AloneUntil
  \* The number is free: it is the next one.
  <2>14. m.do # "upload" =>
            /\ \E s \in Resumes : resume[s] # NoVersion /\ resume[s].root = m.root /\ resume[s].number = m.number - 1
            /\ \A s \in Resumes : resume[s] # NoVersion /\ resume[s].root = m.root =>
                   resume[s].number < m.number /\ (resume[s].main => m.main)
    <3>1. m.do # "upload" => m.do \in {"restore", "applied"}
      BY <2>1 DEF NewRows
    <3>2. NumberRead(q)
      BY <2>12
    <3> QED
      BY <3>1, <3>2, <2>5 DEF NumberRead, Present
  <2>15. \A s \in Resumes : resume[s] # NoVersion /\ resume[s].root = m.root =>
            resume[s].number < m.number /\ (resume[s].main => m.main)
    BY <2>4, <2>9, <2>14
  <2>16. MainTops'
    <3> SUFFICES ASSUME NEW r \in Resumes, resume'[r] # NoVersion, resume'[r].main,
                        NEW s \in Resumes, resume'[s] # NoVersion, resume'[s].root = resume'[r].root
                 PROVE  resume'[s].number <= resume'[r].number
      BY DEF MainTops, Main, Tops, Present
    <3>1. CASE r = m.id
      <4>1. CASE s = m.id
        BY <3>1, <4>1, <2>1, <2>2
      <4>2. CASE s # m.id
        <5>1. resume[s] # NoVersion /\ resume[s].root = m.root /\ resume'[s].number = resume[s].number
          BY <3>1, <4>2, <2>2, <2>3
        <5>2. resume[s].number < m.number /\ resume[s].number \in Nat
          BY <5>1, <2>10, <2>15
        <5> QED
          BY <5>1, <5>2, <3>1, <2>1, <2>2
      <4> QED
        BY <4>1, <4>2
    <3>2. CASE r # m.id
      <4>1. /\ resume[r] # NoVersion /\ resume[r].main /\ ~m.main /\ resume'[r].root = resume[r].root
            /\ resume'[r].number = resume[r].number
        BY <3>2, <2>3
      <4>2. resume[r].root # m.root
        BY <4>1, <2>15
      <4>3. s # m.id
        BY <4>1, <4>2, <2>2
      <4>4. resume[s] # NoVersion /\ resume[s].root = resume[r].root /\ resume'[s].number = resume[s].number
        BY <4>1, <4>3, <2>3
      <4> QED
        BY <4>1, <4>4, <2>12 DEF MainTops, Main, Tops, Present
    <3> QED
      BY <3>1, <3>2
  <2>17. ASSUME NEW p \in ResumeRequests PROVE NumberRead(p)'
    <3>1. CASE p = q
      BY <3>1, <2>7 DEF NumberRead
    <3>2. CASE p # q /\ request[p].do = "default"
      BY <3>2, <2>8, <2>12 DEF AloneUntil
    <3>3. CASE p # q /\ request[p].do \in {"restore", "applied"}
      <4> DEFINE o == request[p]
      <4>1. request'[p] = o /\ o.root # m.id /\ o.root \in Resumes /\ o.number \in Nat
        BY <3>3, <2>6, <2>7, <2>11
      <4>2. NumberRead(p) /\ o.do # "default"
        BY <3>3, <2>12
      <4>3. resume'[o.root] # NoVersion => resume[o.root] # NoVersion
        BY <4>1, <2>3
      <4>4. ASSUME resume[o.root] # NoVersion
            PROVE  /\ \E s \in Resumes : resume'[s] # NoVersion /\ resume'[s].root = o.root
                                           /\ resume'[s].number = o.number - 1
                   /\ \/ \E s \in Resumes : resume'[s] # NoVersion /\ resume'[s].root = o.root
                                              /\ resume'[s].number = o.number
                      \/ \A s \in Resumes : resume'[s] # NoVersion /\ resume'[s].root = o.root =>
                             resume'[s].number < o.number /\ (resume'[s].main => o.main)
        <5>1. PICK w \in Resumes : resume[w] # NoVersion /\ resume[w].root = o.root
                                     /\ resume[w].number = o.number - 1
          BY <3>3, <4>2, <4>4 DEF NumberRead, Present
        <5>2. /\ w # m.id /\ resume'[w] # NoVersion /\ resume'[w].root = o.root
              /\ resume'[w].number = o.number - 1
          BY <5>1, <2>1, <2>3
        <5>3. CASE \E s \in Resumes : resume[s] # NoVersion /\ resume[s].root = o.root /\ resume[s].number = o.number
          <6>1. PICK s \in Resumes : resume[s] # NoVersion /\ resume[s].root = o.root /\ resume[s].number = o.number
            BY <5>3
          <6>2. s # m.id /\ resume'[s] # NoVersion /\ resume'[s].root = o.root /\ resume'[s].number = o.number
            BY <6>1, <2>1, <2>3
          <6> QED
            BY <5>2, <6>2
        <5>4. CASE \A s \in Resumes : resume[s] # NoVersion /\ resume[s].root = o.root =>
                       resume[s].number < o.number /\ (resume[s].main => o.main)
          <6>1. CASE o.root # m.root
            <7>1. ASSUME NEW s \in Resumes, resume'[s] # NoVersion, resume'[s].root = o.root
                  PROVE  resume'[s].number < o.number /\ (resume'[s].main => o.main)
              <8>1. s # m.id
                BY <6>1, <7>1, <2>2
              <8> QED
                BY <7>1, <8>1, <5>4, <2>3
            <7> QED
              BY <5>2, <7>1
          <6>2. CASE o.root = m.root
            <7>1. m.do # "upload"
              BY <6>2, <4>1, <2>9
            <7>2. o.number - 1 < m.number
              BY <6>2, <5>1, <2>15
            <7>3. PICK v \in Resumes : resume[v] # NoVersion /\ resume[v].root = m.root
                                         /\ resume[v].number = m.number - 1
              BY <7>1, <2>14
            <7>4. m.number - 1 < o.number
              BY <6>2, <7>3, <5>4
            <7>5. m.number = o.number
              BY <7>2, <7>4, <4>1, <2>1
            <7> QED
              BY <6>2, <7>5, <5>2, <2>1, <2>2
          <6> QED
            BY <6>1, <6>2
        <5> QED
          BY <3>3, <4>2, <4>4, <5>3, <5>4 DEF NumberRead, Present
      <4> QED
        BY <4>1, <4>2, <4>3, <4>4 DEF NumberRead, Present
    <3>4. CASE p # q /\ request[p].do \notin {"restore", "applied", "default"}
      BY <3>4, <2>7 DEF NumberRead
    <3> QED
      BY <3>1, <3>2, <3>3, <3>4
  <2> QED
    BY <2>13, <2>16, <2>17
<1> QED
  BY <1>1, <1>2

LEMMA CommitSetDefaultNumbers ==
    ASSUME VersionsInv, LatestInv, NEW q \in ResumeRequests, CommitSetDefault(q)
    PROVE  LatestInv'
<1> DEFINE m == request[q]
<1>1. m.do = "default" /\ m.of \in Resumes
  BY RequestIs DEF CommitSetDefault, VersionsInv, VersionsTyped
<1>2. CASE ~Present(m.of)
  BY <1>2, EndNumbers DEF CommitSetDefault, Fail, resumeHistory
<1>3. CASE Present(m.of)
  <2>1. /\ request' = [request EXCEPT ![q] = Idle] /\ overlapped' = overlapped
        /\ \A s \in Resumes :
              /\ resume'[s] # NoVersion <=> resume[s] # NoVersion
              /\ resume[s] # NoVersion =>
                    /\ resume'[s].root = resume[s].root /\ resume'[s].number = resume[s].number
                    /\ resume'[s].main => s = m.of
    BY <1>3, DefaultMoved
  <2>2. request'[q] = Idle /\ Idle.do = "nothing" /\ \A p \in ResumeRequests \ {q} : request'[p] = request[p]
    BY <2>1, VersionBasics DEF VersionsInv, VersionsTyped
  <2> SUFFICES ASSUME ~Disturbed' PROVE AloneUntil' /\ MainTops' /\ \A p \in ResumeRequests : NumberRead(p)'
    BY DEF LatestInv
  <2>3. AloneUntil /\ NumberRead(q)
    BY <2>1 DEF LatestInv, Disturbed
  <2>4. \A p \in ResumeRequests : request'[p].do = "nothing"
    BY <1>1, <2>2, <2>3 DEF AloneUntil
  <2>5. Tops(m.of)
    BY <1>1, <1>3, <2>3 DEF NumberRead
  <2>6. MainTops'
    BY <1>3, <2>1, <2>5 DEF MainTops, Main, Tops, Present
  <2> QED
    BY <2>4, <2>6 DEF AloneUntil, NumberRead
<1> QED
  BY <1>2, <1>3

LEMMA CommitDeleteNumbers ==
    ASSUME VersionsInv, LatestInv, NEW q \in ResumeRequests, CommitDelete(q)
    PROVE  LatestInv'
<1> DEFINE of == request[q].of
           forgot == ForgetRows({<<d[1], d[2]>> : d \in RowsOf(of)})
<1>1. request[q].do = "delete" /\ request' = [forgot EXCEPT ![q] = Idle] /\ overlapped' = overlapped
  BY DEF CommitDelete
<1>2. forgot \in [ResumeRequests -> Request] /\ \A p \in ResumeRequests : forgot[p].do = request[p].do
  BY ForgetIs DEF VersionsInv
<1> HIDE DEF forgot
<1>3. request'[q] = Idle /\ Idle.do = "nothing" /\ \A p \in ResumeRequests \ {q} : request'[p].do = request[p].do
  BY <1>1, <1>2, VersionBasics
<1>4. /\ resume'[of] = NoVersion
      /\ \A s \in Resumes \ {of} :
            /\ resume'[s] # NoVersion <=> resume[s] # NoVersion
            /\ resume[s] # NoVersion => resume'[s].number = resume[s].number /\ resume'[s].main = resume[s].main
      /\ \A r, s \in Resumes :
            resume'[r] # NoVersion /\ resume'[s] # NoVersion /\ resume'[r].root = resume'[s].root =>
                resume[r].root = resume[s].root
  BY RowDeleted
<1> SUFFICES ASSUME ~Disturbed' PROVE AloneUntil' /\ MainTops' /\ \A p \in ResumeRequests : NumberRead(p)'
  BY DEF LatestInv
<1>5. AloneUntil /\ MainTops
  BY <1>1 DEF LatestInv, Disturbed
<1>6. \A p \in ResumeRequests : request'[p].do = "nothing"
  BY <1>1, <1>3, <1>5 DEF AloneUntil
<1>7. MainTops'
  <2> SUFFICES ASSUME NEW r \in Resumes, resume'[r] # NoVersion, resume'[r].main,
                      NEW s \in Resumes, resume'[s] # NoVersion, resume'[s].root = resume'[r].root
               PROVE  resume'[s].number <= resume'[r].number
    BY DEF MainTops, Main, Tops, Present
  <2>1. r # of /\ s # of
    BY <1>4
  <2>2. /\ resume[r] # NoVersion /\ resume[r].main /\ resume[s] # NoVersion
        /\ resume'[r].number = resume[r].number /\ resume'[s].number = resume[s].number
    BY <2>1, <1>4
  <2>3. resume[s].root = resume[r].root
    BY <1>4
  <2> QED
    BY <2>2, <2>3, <1>5 DEF MainTops, Main, Tops, Present
<1> QED
  BY <1>6, <1>7 DEF AloneUntil, NumberRead

LEMMA DeleteDraftNumbers ==
    ASSUME VersionsInv, LatestInv, NEW d \in drafts, DeleteDraft(d)
    PROVE  LatestInv'
<1> DEFINE forgot == ForgetRows({<<d[1], d[2]>>})
<1>1. request' = forgot /\ UNCHANGED <<resume, overlapped>>
  BY DEF DeleteDraft
<1>2. \A p \in ResumeRequests :
          /\ forgot[p].do = request[p].do
          /\ request[p].do \notin Applies => forgot[p] = request[p]
          /\ request[p].do \in NewRows =>
                /\ forgot[p].number = request[p].number /\ forgot[p].root = request[p].root
                /\ forgot[p].main = request[p].main
  BY ForgetIs DEF VersionsInv
<1> HIDE DEF forgot
<1>3. AloneUntil => AloneUntil'
  BY <1>1, <1>2 DEF AloneUntil
<1>4. MainTops => MainTops'
  BY <1>1 DEF MainTops, Main, Tops, Present
<1>5. ASSUME NEW p \in ResumeRequests, NumberRead(p) PROVE NumberRead(p)'
  <2>1. CASE request[p].do \in {"restore", "applied"}
    <3>1. /\ request'[p].do = request[p].do /\ request'[p].number = request[p].number
          /\ request'[p].root = request[p].root /\ request'[p].main = request[p].main
      BY <2>1, <1>1, <1>2 DEF NewRows
    <3> QED
      BY <2>1, <3>1, <1>1, <1>5 DEF NumberRead, Present
  <2>2. CASE request[p].do \notin {"restore", "applied"}
    <3>1. request'[p].do = request[p].do /\ (request[p].do = "default" => request'[p] = request[p])
      BY <1>1, <1>2 DEF Applies
    <3> QED
      BY <2>2, <3>1, <1>1, <1>5 DEF NumberRead, Tops, Present
  <2> QED
    BY <2>1, <2>2
<1> QED
  BY <1>1, <1>3, <1>4, <1>5 DEF LatestInv, Disturbed

LEMMA SameNumbers ==
    ASSUME LatestInv, UNCHANGED <<resume, request, overlapped>>
    PROVE  LatestInv'
<1> QED
  BY DEF LatestInv, Disturbed, AloneUntil, MainTops, Main, NumberRead, Tops, Present

LEMMA LatestInvStep == VersionsInv /\ LatestInv /\ [ResumesNext]_resumeVars => LatestInv'
<1> SUFFICES ASSUME VersionsInv, LatestInv, [ResumesNext]_resumeVars PROVE LatestInv'
  OBVIOUS
<1>1. CASE UNCHANGED resumeVars
  BY <1>1, SameNumbers DEF resumeVars
<1>2. ASSUME NEW q \in ResumeRequests, request[q].do # "delete" /\ Abort(q) PROVE LatestInv'
  BY <1>2, EndNumbers DEF Abort, Fail, resumeHistory
<1>3. ASSUME NEW q \in ResumeRequests, AbortDelete(q) PROVE LatestInv'
  BY <1>3, EndNumbers DEF AbortDelete
<1>4. ASSUME NEW r \in Resumes, NEW k \in Skills, NEW text \in Texts, UpsertDraft(r, k, text) PROVE LatestInv'
  BY <1>4, SameNumbers DEF UpsertDraft
<1> QED
  BY <1>1, <1>2, <1>3, <1>4, BeginUploadNumbers, StoreAppliedNumbers, BeginRestoreNumbers,
     BeginSetDefaultNumbers, BeginApplyNumbers, BeginDeleteNumbers, CommitVersionNumbers,
     CommitSetDefaultNumbers, CommitDeleteNumbers, DeleteDraftNumbers DEF ResumesNext

LEMMA LatestInvInit == ResumesInit => LatestInv
<1> SUFFICES ASSUME ResumesInit PROVE LatestInv
  OBVIOUS
<1>1. (\A r \in Resumes : resume[r] = NoVersion) /\ \A q \in ResumeRequests : request[q].do = "nothing"
  BY VersionBasics DEF ResumesInit
<1> QED
  BY <1>1 DEF LatestInv, AloneUntil, MainTops, Main, NumberRead, Present

\* The default version is its family's latest, for any number of resumes and
\* requests, until a request that sets the default, or deletes, overlaps
\* another.
THEOREM LatestIsDefault == ResumesSpec => []DefaultIsLatest
<1>1. VersionsInv /\ LatestInv => DefaultIsLatest
  <2> SUFFICES ASSUME VersionsInv, LatestInv, ~Disturbed, NEW r \in Main
               PROVE  r \in Latest(resume[r].root)
    BY DEF DefaultIsLatest, Disturbed
  <2> QED
    BY LatestMeans DEF LatestInv, MainTops, Main, VersionsInv
<1> QED
  BY <1>1, VersionsInvHolds, LatestInvInit, LatestInvStep, PTL DEF ResumesSpec

-----------------------------------------------------------------------------
\* ResumeResults: results and pointers of the requests for a resume.

MakingNew ==
    [does : {"make"}, row : Results, kind : Kinds, of : Nat, create : BOOLEAN, breakdown : Nat]

Evaluating == [does : {"evaluate"}, row : Results, breakdown : Nat]

Result == [kind : Kinds \union {"none"}, of : Nat, breakdown : Nat]

\* Rows that are there, or being made, are among those begun; a breakdown is
\* made for its own row.
RowsBegun ==
    /\ result \in [Results -> Result]
    /\ begun \in 0 .. MaxResults
    /\ making \in [ResultRequests -> MakingNew \union Evaluating \union {NoMaking}]
    /\ \A i \in Results : result[i].kind # "none" => i <= begun
    /\ \A i \in Results : result[i].kind = "none" => result[i] = NoResult
    /\ \A i \in Results : result[i].breakdown \in {0, i}
    /\ \A q \in ResultRequests : making[q] # NoMaking =>
          making[q].row <= begun /\ making[q].breakdown \in {0, making[q].row}

Makes(q) == making[q] # NoMaking /\ making[q].does = "make"

\* Of requests that follow one another, one makes a result, the newest.
OneMakes ==
    ~entangled => \A q \in ResultRequests : Makes(q) =>
        /\ making[q].row = begun /\ result[begun].kind = "none"
        /\ \A p \in ResultRequests : Makes(p) => p = q

\* No two requests make one row, and it is not there before its request ends.
RowsFree ==
    \A q \in ResultRequests : Makes(q) =>
        /\ result[making[q].row].kind = "none"
        /\ \A p \in ResultRequests : Makes(p) /\ making[p].row = making[q].row => p = q

\* Every result is of something that is there.
OfThere == \A i \in Results : \A kind \in Kinds :
               result[i] # NoResult /\ result[i].kind = kind => result[i].of \in MadeOf(kind)

PointersThere == \A kind \in Pointed : HasApplication => application[kind] \in Made(kind) \union {0}

ApplicationIs ==
    /\ application = [kind \in Pointed |-> application[kind]]
    /\ entangled \in BOOLEAN

ResultsInv == ResultsTypeOK /\ RowsBegun /\ OneMakes /\ RowsFree /\ ApplicationIs /\ PointersInStep

LEMMA ResultsBasics ==
    /\ NoResult \in Result /\ NoResult.kind = "none" /\ NoResult.breakdown = 0 /\ NoResult.of = 0
    /\ NoMaking \notin MakingNew /\ NoMaking \notin Evaluating
    /\ \A m \in MakingNew : m # NoMaking
    /\ \A m \in Evaluating : m # NoMaking
    /\ \A i \in Results : i \in Nat /\ i # 0
    /\ Pointed \subseteq Kinds /\ "none" \notin Kinds
    /\ MaxResults \in Nat /\ Sources \subseteq Nat
<1>1. NoMaking.does = "nothing"
  BY DEF NoMaking
<1>2. (\A m \in MakingNew : m.does = "make") /\ \A m \in Evaluating : m.does = "evaluate"
  BY DEF MakingNew, Evaluating
<1>3. (\A m \in MakingNew : m # NoMaking) /\ \A m \in Evaluating : m # NoMaking
  BY <1>1, <1>2
<1>4. NoResult \in Result /\ NoResult.kind = "none" /\ NoResult.breakdown = 0 /\ NoResult.of = 0
  BY DEF NoResult, Result
<1>5. Pointed \subseteq Kinds /\ "none" \notin Kinds
  BY DEF Pointed, Kinds
<1>6. MaxResults \in Nat /\ Sources \subseteq Nat /\ \A i \in Results : i \in Nat /\ i # 0
  BY ResultsAssumption DEF Results
<1> QED
  BY <1>3, <1>4, <1>5, <1>6

LEMMA TypesAre ==
    RowsBegun => (ResultsTypeOK <=> /\ OfThere /\ PointersThere /\ sources \subseteq Sources
                                    /\ entangled \in BOOLEAN)
<1> SUFFICES ASSUME RowsBegun
             PROVE  ResultsTypeOK <=> /\ OfThere /\ PointersThere /\ sources \subseteq Sources
                                      /\ entangled \in BOOLEAN
  OBVIOUS
<1>1. \A i \in Results : result[i] # NoResult => result[i].kind \in Kinds
  BY DEF RowsBegun, Result
<1>2. OfThere <=> \A i \in Results : result[i] # NoResult => result[i].of \in MadeOf(result[i].kind)
  BY <1>1 DEF OfThere
<1> QED
  BY <1>2 DEF ResultsTypeOK, PointersThere

LEMMA TypesThen ==
    RowsBegun' => (ResultsTypeOK' <=> /\ OfThere' /\ PointersThere' /\ sources' \subseteq Sources
                                      /\ entangled' \in BOOLEAN)
<1> SUFFICES ASSUME RowsBegun'
             PROVE  ResultsTypeOK' <=> /\ OfThere' /\ PointersThere' /\ sources' \subseteq Sources
                                       /\ entangled' \in BOOLEAN
  OBVIOUS
<1>1. \A i \in Results : result'[i] # NoResult => result'[i].kind \in Kinds
  BY DEF RowsBegun, Result
<1>2. OfThere' <=> \A i \in Results : (result[i] # NoResult => result[i].of \in MadeOf(result[i].kind))'
  BY <1>1 DEF OfThere
<1> QED
  BY <1>2 DEF ResultsTypeOK, PointersThere

LEMMA NewestIs ==
    ASSUME NEW S \in SUBSET Nat, NEW i \in S, \A j \in S : j <= i
    PROVE  Newest(S) = i
<1>1. \A k \in S : (\A j \in S : j <= k) => k = i
  BY DEF Newest
<1> QED
  BY <1>1 DEF Newest

LEMMA ResultsInvInit == ResultsInit => ResultsInv
<1> SUFFICES ASSUME ResultsInit PROVE ResultsInv
  OBVIOUS
<1>1. RowsBegun
  BY ResultsBasics DEF ResultsInit, RowsBegun
<1>2. OneMakes
  BY DEF ResultsInit, OneMakes, Makes
<1>7. RowsFree
  BY DEF ResultsInit, RowsFree, Makes
<1>3. application = NoApplication /\ entangled = FALSE /\ ~HasApplication
  BY DEF ResultsInit, HasApplication
<1>4. PointersInStep
  BY <1>3 DEF PointersInStep
<1>5. ApplicationIs
  BY <1>3 DEF ApplicationIs, NoApplication
<1>6. ResultsTypeOK
  BY <1>3 DEF ResultsInit, ResultsTypeOK
<1> QED
  BY <1>1, <1>2, <1>4, <1>5, <1>6, <1>7 DEF ResultsInv

\* A request begins to make a result.
LEMMA MakeKeeps ==
    ASSUME ResultsInv, NEW q \in ResultRequests, NEW kind \in Kinds, NEW of, NEW create \in BOOLEAN,
           NEW whole \in BOOLEAN, Make(q, kind, of, create, whole)
    PROVE  ResultsInv'
<1> DEFINE row == begun + 1
           breakdown == IF whole THEN row ELSE 0
           m == [does |-> "make", row |-> row, kind |-> kind, of |-> of, create |-> create,
                 breakdown |-> breakdown]
<1>1. /\ making[q] = NoMaking /\ begun' = row /\ making' = [making EXCEPT ![q] = m]
      /\ entangled' = (entangled \/ \E o \in ResultRequests : making[o] # NoMaking)
      /\ UNCHANGED <<result, sources, application>> /\ begun < MaxResults
  BY DEF Make
<1>2. begun \in 0 .. MaxResults /\ row \in Results /\ row \in 0 .. MaxResults /\ breakdown \in Nat
      /\ breakdown \in {0, row}
  BY <1>1, ResultsBasics DEF ResultsInv, RowsBegun, Results
<1>0. of \in Nat
  BY ResultsBasics DEF Make, MadeOf, Made, ResultsInv, ResultsTypeOK
<1> HIDE DEF breakdown
<1>3. m \in MakingNew /\ m.row = row /\ m.breakdown = breakdown /\ m.does = "make" /\ m # NoMaking
  <2>1. m \in MakingNew
    BY <1>0, <1>2 DEF MakingNew
  <2> QED
    BY <2>1, ResultsBasics
<1> HIDE DEF m
<1>4. /\ making' \in [ResultRequests -> MakingNew \union Evaluating \union {NoMaking}]
      /\ making'[q] = m /\ \A p \in ResultRequests \ {q} : making'[p] = making[p]
  BY <1>1, <1>3 DEF ResultsInv, RowsBegun
<1>5. \A p \in ResultRequests : making[p] # NoMaking => making[p].row \in Results
  BY ResultsBasics DEF ResultsInv, RowsBegun, MakingNew, Evaluating
<1>6. \A i \in Results : i <= begun => i <= row
  BY <1>2, ResultsBasics
<1>7. RowsBegun'
  <2>1. \A p \in ResultRequests : making'[p] # NoMaking =>
           making'[p].row <= row /\ making'[p].breakdown \in {0, making'[p].row}
    <3>1. TAKE p \in ResultRequests
    <3>2. CASE p = q
      BY <3>2, <1>2, <1>3, <1>4
    <3>3. CASE p # q
      BY <3>3, <1>4, <1>5, <1>6 DEF ResultsInv, RowsBegun
    <3> QED
      BY <3>2, <3>3
  <2> QED
    BY <2>1, <1>1, <1>2, <1>4, <1>6 DEF ResultsInv, RowsBegun
<1>8. OneMakes'
  <2> SUFFICES ASSUME ~entangled', NEW p \in ResultRequests, Makes(p)'
               PROVE  /\ making'[p].row = begun' /\ result'[begun'].kind = "none"
                      /\ \A o \in ResultRequests : Makes(o)' => o = p
    BY DEF OneMakes
  <2>1. \A o \in ResultRequests \ {q} : making'[o] = NoMaking
    BY <1>1, <1>4
  <2>2. p = q
    BY <2>1 DEF Makes
  <2>3. result[row].kind = "none"
    BY <1>2, ResultsBasics DEF ResultsInv, RowsBegun
  <2> QED
    BY <2>1, <2>2, <2>3, <1>1, <1>3, <1>4 DEF Makes
<1>9. ApplicationIs' /\ ResultsTypeOK'
  BY <1>1 DEF ResultsInv, ApplicationIs, ResultsTypeOK, Made, MadeOf, HasApplication
<1>10. PointersInStep'
  BY <1>1 DEF ResultsInv, PointersInStep, HasApplication, Made
<1>11. RowsFree'
  <2>1. \A p \in ResultRequests \ {q} : making[p] # NoMaking => making[p].row # row
    BY <1>2, <1>5, ResultsBasics DEF ResultsInv, RowsBegun
  <2>2. result[row].kind = "none"
    BY <1>2, ResultsBasics DEF ResultsInv, RowsBegun
  <2> QED
    BY <2>1, <2>2, <1>1, <1>3, <1>4 DEF ResultsInv, RowsFree, Makes
<1> QED
  BY <1>7, <1>8, <1>9, <1>10, <1>11 DEF ResultsInv

LEMMA NewestIn ==
    ASSUME NEW S \in SUBSET Results
    PROVE  Newest(S) \in S \union {0}
<1>1. CASE S = {}
  BY <1>1 DEF Newest
<1>2. CASE S # {}
  <2>1. S \in SUBSET (0 .. MaxResults)
    BY ResultsAssumption DEF Results
  <2>2. \E i \in S : \A j \in S : j <= i
    BY <1>2, <2>1, GreatestExists, ResultsAssumption
  <2> QED
    BY <1>2, <2>2 DEF Newest
<1> QED
  BY <1>1, <1>2

\* A request ends without a result.
LEMMA EndKeeps ==
    ASSUME ResultsInv, NEW q \in ResultRequests, making' = [making EXCEPT ![q] = NoMaking],
           UNCHANGED <<result, begun, sources, application, entangled>>
    PROVE  ResultsInv'
<1>1. /\ making' \in [ResultRequests -> MakingNew \union Evaluating \union {NoMaking}]
      /\ making'[q] = NoMaking /\ \A p \in ResultRequests \ {q} : making'[p] = making[p]
  BY DEF ResultsInv, RowsBegun
<1>2. RowsBegun'
  BY <1>1 DEF ResultsInv, RowsBegun
<1>3. OneMakes' /\ RowsFree'
  BY <1>1 DEF ResultsInv, OneMakes, RowsFree, Makes
<1>4. ResultsTypeOK' /\ ApplicationIs' /\ PointersInStep'
  BY DEF ResultsInv, ResultsTypeOK, ApplicationIs, PointersInStep, Made, MadeOf, HasApplication
<1> QED
  BY <1>2, <1>3, <1>4 DEF ResultsInv

LEMMA EvaluateKeeps ==
    ASSUME ResultsInv, NEW q \in ResultRequests, NEW kind \in Kinds, NEW of, Evaluate(q, kind, of)
    PROVE  ResultsInv'
<1> DEFINE rows == {i \in Made(kind) : result[i].of = of}
           row == Newest(rows)
           m == [does |-> "evaluate", row |-> row, breakdown |-> row]
<1>1. rows \in SUBSET Results
  BY DEF Made
<1>2. row # 0 /\ making' = [making EXCEPT ![q] = m] /\ UNCHANGED <<result, begun, sources, application, entangled>>
  BY DEF Evaluate
<1>3. row \in Results /\ result[row].kind = kind
  <2>1. row \in rows
    BY <1>1, <1>2, NewestIn
  <2> QED
    BY <2>1 DEF Made
<1>4. m \in Evaluating /\ m.row = row /\ m.breakdown = row /\ m.does = "evaluate" /\ row <= begun
  BY <1>3, ResultsBasics DEF Evaluating, ResultsInv, RowsBegun
<1> HIDE DEF m, row, rows
<1>5. /\ making' \in [ResultRequests -> MakingNew \union Evaluating \union {NoMaking}]
      /\ making'[q] = m /\ \A p \in ResultRequests \ {q} : making'[p] = making[p]
  BY <1>2, <1>4 DEF ResultsInv, RowsBegun
<1>6. RowsBegun'
  BY <1>2, <1>4, <1>5 DEF ResultsInv, RowsBegun
<1>7. OneMakes' /\ RowsFree'
  BY <1>2, <1>4, <1>5 DEF ResultsInv, OneMakes, RowsFree, Makes
<1>8. ResultsTypeOK' /\ ApplicationIs' /\ PointersInStep'
  BY <1>2 DEF ResultsInv, ResultsTypeOK, ApplicationIs, PointersInStep, Made, MadeOf, HasApplication
<1> QED
  BY <1>6, <1>7, <1>8 DEF ResultsInv

\* What an application points at when it is created.
LEMMA LinkedIs ==
    ASSUME NEW rows \in [Results -> Result], NEW kind \in Pointed
    PROVE  /\ kind # "tailored score" => Linked(rows, kind) = Newest({i \in Results : rows[i].kind = kind})
           /\ Linked(rows, kind) \in {i \in Results : rows[i].kind = kind} \union {0}
<1> DEFINE all == {i \in Results : rows[i].kind = kind}
           some == {i \in all : rows[i].of = Newest({j \in Results : rows[j].kind = "tailored"})}
<1>1. Newest(all) \in all \union {0} /\ Newest(some) \in all \union {0}
  <2>1. all \in SUBSET Results /\ some \in SUBSET all /\ some \in SUBSET Results
    OBVIOUS
  <2> HIDE DEF all, some
  <2> QED
    BY <2>1, NewestIn
<1>2. Linked(rows, kind) = Newest(IF kind = "tailored score" THEN some ELSE all)
  BY DEF Linked
<1> HIDE DEF some
<1> QED
  BY <1>1, <1>2

LEMMA SaveKeeps ==
    ASSUME ResultsInv, SaveJob
    PROVE  ResultsInv'
<1>1. UNCHANGED <<result, begun, making, sources, entangled>> /\ application' = NewApplication(result)
  BY DEF SaveJob
<1>2. \A kind \in Pointed : application'[kind] = Linked(result, kind)
  BY <1>1 DEF NewApplication
<1>3. result \in [Results -> Result]
  BY DEF ResultsInv, RowsBegun
<1>4. RowsBegun' /\ OneMakes' /\ RowsFree'
  BY <1>1 DEF ResultsInv, RowsBegun, OneMakes, RowsFree, Makes
<1>5. ResultsTypeOK'
  BY <1>1, <1>2, <1>3, LinkedIs DEF ResultsInv, ResultsTypeOK, Made, MadeOf
<1>6. ApplicationIs'
  BY <1>1 DEF ResultsInv, ApplicationIs, NewApplication
<1>7. PointersInStep'
  BY <1>1, <1>2, <1>3, LinkedIs DEF PointersInStep, Made
<1> QED
  BY <1>4, <1>5, <1>6, <1>7 DEF ResultsInv

LEMMA UnsaveKeeps ==
    ASSUME ResultsInv, UnsaveJob
    PROVE  ResultsInv'
<1>1. UNCHANGED <<result, begun, making, sources, entangled>> /\ application' = NoApplication
  BY DEF UnsaveJob
<1>2. ~HasApplication'
  BY <1>1 DEF HasApplication
<1>3. RowsBegun' /\ OneMakes' /\ RowsFree'
  BY <1>1 DEF ResultsInv, RowsBegun, OneMakes, RowsFree, Makes
<1>4. ResultsTypeOK' /\ PointersInStep'
  BY <1>1, <1>2 DEF ResultsInv, ResultsTypeOK, PointersInStep, Made, MadeOf
<1>5. ApplicationIs'
  BY <1>1 DEF ResultsInv, ApplicationIs, NoApplication
<1> QED
  BY <1>3, <1>4, <1>5 DEF ResultsInv

LEMMA FinishEvaluationKeeps ==
    ASSUME ResultsInv, NEW q \in ResultRequests, FinishEvaluation(q)
    PROVE  ResultsInv'
<1> DEFINE m == making[q]
           new == [result[m.row] EXCEPT !.breakdown = m.breakdown]
<1>1. m.does = "evaluate" /\ result[m.row] # NoResult
      /\ result' = [result EXCEPT ![m.row].breakdown = m.breakdown]
      /\ making' = [making EXCEPT ![q] = NoMaking] /\ UNCHANGED <<begun, sources, application, entangled>>
  BY DEF FinishEvaluation, Evaluated
<1>2. m \in Evaluating /\ m # NoMaking
  BY <1>1 DEF ResultsInv, RowsBegun, MakingNew, NoMaking
<1>3. m.row \in Results /\ m.breakdown \in Nat /\ m.breakdown \in {0, m.row}
  BY <1>2 DEF ResultsInv, RowsBegun, Evaluating
<1>4. result \in [Results -> Result] /\ result[m.row] \in Result
  BY <1>3 DEF ResultsInv, RowsBegun
<1>5. new \in Result /\ new.kind = result[m.row].kind /\ new.of = result[m.row].of /\ new.breakdown = m.breakdown
  BY <1>3, <1>4 DEF Result
<1>6. result' = [result EXCEPT ![m.row] = new]
  BY <1>1, <1>4
<1> HIDE DEF new
<1>7. /\ result' \in [Results -> Result]
      /\ \A i \in Results : /\ result'[i].kind = result[i].kind /\ result'[i].of = result[i].of
                            /\ result'[i].breakdown \in {0, i}
                            /\ i # m.row => result'[i] = result[i]
  BY <1>3, <1>4, <1>5, <1>6 DEF ResultsInv, RowsBegun
<1>8. result'[m.row].kind # "none"
  BY <1>1, <1>3, <1>7 DEF ResultsInv, RowsBegun
<1>9. /\ making' \in [ResultRequests -> MakingNew \union Evaluating \union {NoMaking}]
      /\ making'[q] = NoMaking /\ \A p \in ResultRequests \ {q} : making'[p] = making[p]
  BY <1>1 DEF ResultsInv, RowsBegun
<1>10. RowsBegun'
  BY <1>1, <1>7, <1>8, <1>9 DEF ResultsInv, RowsBegun
<1>11. \A p \in ResultRequests : making[p] # NoMaking => making[p].row \in Results
  BY DEF ResultsInv, RowsBegun, MakingNew, Evaluating
<1>12. OneMakes'
  <2> SUFFICES ASSUME ~entangled, NEW p \in ResultRequests, Makes(p)'
               PROVE  /\ making'[p].row = begun /\ result'[begun].kind = "none"
                      /\ \A o \in ResultRequests : Makes(o)' => o = p
    BY <1>1 DEF OneMakes
  <2>1. p # q /\ Makes(p) /\ making'[p] = making[p] /\ \A o \in ResultRequests : Makes(o)' => Makes(o)
    BY <1>9 DEF Makes
  <2>2. making[p].row = begun /\ result[begun].kind = "none" /\ begun \in Results
    BY <2>1, <1>11 DEF ResultsInv, OneMakes, Makes
  <2> QED
    BY <2>1, <2>2, <1>7 DEF ResultsInv, OneMakes
<1>13. \A kind : Made(kind)' = Made(kind)
  BY <1>7 DEF Made
<1>14. \A i \in Results : result'[i] # NoResult => result[i] # NoResult
  BY <1>1, <1>7
<1>15. ResultsTypeOK'
  <2>1. \A i \in Results : result'[i] # NoResult => result'[i].of \in MadeOf(result'[i].kind)
    BY <1>7, <1>14 DEF ResultsInv, ResultsTypeOK
  <2>2. \A kind : MadeOf(kind)' = MadeOf(kind)
    BY <1>1, <1>13 DEF MadeOf
  <2> QED
    BY <2>1, <2>2, <1>1, <1>13 DEF ResultsInv, ResultsTypeOK, HasApplication
<1>16. ApplicationIs' /\ PointersInStep'
  BY <1>1, <1>13 DEF ResultsInv, ApplicationIs, PointersInStep, HasApplication
<1>17. RowsFree'
  BY <1>7, <1>9, <1>11 DEF ResultsInv, RowsFree, Makes
<1> QED
  BY <1>10, <1>12, <1>15, <1>16, <1>17 DEF ResultsInv

LEMMA FinishResultKeeps ==
    ASSUME ResultsInv, NEW q \in ResultRequests, FinishResult(q)
    PROVE  ResultsInv'
<1> DEFINE m == making[q]
           row == m.row
           new == [kind |-> m.kind, of |-> m.of, breakdown |-> m.breakdown]
<1>1. /\ m.does = "make" /\ m.of \in MadeOf(m.kind)
      /\ result' = [result EXCEPT ![m.row] = new]
      /\ application' = Stamped([result EXCEPT ![m.row] = new], m.row, m.create)
      /\ making' = [making EXCEPT ![q] = NoMaking] /\ UNCHANGED <<begun, sources, entangled>>
  BY DEF FinishResult
<1>2. m \in MakingNew /\ m # NoMaking
  BY <1>1 DEF ResultsInv, RowsBegun, Evaluating, NoMaking
<1>3. /\ row \in Results /\ m.breakdown \in Nat /\ m.breakdown \in {0, row} /\ m.kind \in Kinds
      /\ m.of \in Nat /\ row <= begun /\ m.create \in BOOLEAN
  BY <1>2 DEF ResultsInv, RowsBegun, MakingNew
<1>4. result \in [Results -> Result] /\ result[row].kind = "none" /\ Makes(q)
  BY <1>1, <1>2 DEF ResultsInv, RowsBegun, RowsFree, Makes
<1>5. new \in Result /\ new.kind = m.kind /\ new.of = m.of /\ new.breakdown = m.breakdown
  BY <1>3 DEF Result
<1> HIDE DEF new
<1>6. /\ result' \in [Results -> Result] /\ result'[row] = new
      /\ \A i \in Results \ {row} : result'[i] = result[i]
  BY <1>1, <1>3, <1>4, <1>5
<1>7. /\ making' \in [ResultRequests -> MakingNew \union Evaluating \union {NoMaking}]
      /\ making'[q] = NoMaking /\ \A p \in ResultRequests \ {q} : making'[p] = making[p]
  BY <1>1 DEF ResultsInv, RowsBegun
<1>8. m.kind # "none"
  BY <1>3, ResultsBasics
<1>9. RowsBegun'
  BY <1>1, <1>3, <1>5, <1>6, <1>7, <1>8 DEF ResultsInv, RowsBegun
<1>10. \A p \in ResultRequests \ {q} : Makes(p) => making[p].row \in Results /\ making[p].row # row
  BY <1>4 DEF ResultsInv, RowsFree, RowsBegun, MakingNew, Evaluating, Makes
<1>11. RowsFree'
  BY <1>6, <1>7, <1>10 DEF ResultsInv, RowsFree, Makes
<1>12. OneMakes'
  <2>1. ~entangled => \A p \in ResultRequests : ~Makes(p)'
    BY <1>4, <1>7 DEF ResultsInv, OneMakes, Makes
  <2> QED
    BY <2>1, <1>1 DEF OneMakes
<1>13. \A kind \in Kinds : Made(kind)' = IF kind = m.kind THEN Made(kind) \union {row} ELSE Made(kind)
  BY <1>3, <1>4, <1>5, <1>6, ResultsBasics DEF Made
<1>14. result' = [result EXCEPT ![row] = new] /\ application' = Stamped(result', row, m.create)
  BY <1>1
<1>15. \A kind \in Pointed : NewApplication(result')[kind] = Linked(result', kind)
  BY DEF NewApplication
<1>16. \A kind \in Pointed : /\ kind # "tailored score" => Linked(result', kind) = Newest(Made(kind)')
                             /\ Linked(result', kind) \in Made(kind)' \union {0}
  BY <1>6, LinkedIs DEF Made
<1>17. result'[row].kind = m.kind
  BY <1>5, <1>6
<1>18. \/ m.kind \notin Pointed /\ application' = application
       \/ ~HasApplication /\ application' = application
       \/ m.kind \in Pointed /\ HasApplication /\ application' = [application EXCEPT ![m.kind] = row]
       \/ m.kind \in Pointed /\ application' = [NewApplication(result') EXCEPT ![m.kind] = row]
  BY <1>14, <1>17 DEF Stamped
<1>19. ResultsTypeOK'
  <2>1. OfThere'
    <3>1. \A kind \in Kinds : MadeOf(kind) \subseteq MadeOf(kind)'
      BY <1>1, <1>13 DEF MadeOf, Kinds, Pointed
    <3>2. ASSUME NEW i \in Results, NEW kind \in Kinds, result'[i] # NoResult, result'[i].kind = kind
          PROVE  result'[i].of \in MadeOf(kind)'
      <4>1. CASE i = row
        BY <3>1, <3>2, <4>1, <1>1, <1>3, <1>5, <1>6
      <4>2. CASE i # row
        <5>1. result'[i] = result[i]
          BY <4>2, <1>6
        <5>2. result[i].of \in MadeOf(kind)
          BY <5>1, <3>2, TypesAre DEF ResultsInv, OfThere
        <5> QED
          BY <3>1, <5>1, <5>2
      <4> QED
        BY <4>1, <4>2
    <3> QED
      BY <3>2 DEF OfThere
  <2>2. \A kind \in Pointed : HasApplication' => application'[kind] \in Made(kind)' \union {0}
    <3>1. \A kind \in Pointed : Made(kind) \subseteq Made(kind)' /\ (kind = m.kind => row \in Made(kind)')
      BY <1>13, ResultsBasics
    <3>2. CASE application' = application
      BY <3>1, <3>2 DEF ResultsInv, ResultsTypeOK, HasApplication
    <3>3. CASE HasApplication /\ application' = [application EXCEPT ![m.kind] = row]
      BY <3>1, <3>3 DEF ResultsInv, ResultsTypeOK, ApplicationIs
    <3>4. CASE application' = [NewApplication(result') EXCEPT ![m.kind] = row]
      <4>1. \A kind \in Pointed : application'[kind] =
               IF kind = m.kind THEN row ELSE NewApplication(result')[kind]
        BY <3>4 DEF NewApplication
      <4> QED
        BY <3>1, <4>1, <1>15, <1>16
    <3> QED
      BY <3>2, <3>3, <3>4, <1>18
  <2>3. PointersThere'
    BY <2>2 DEF PointersThere
  <2>4. sources' \subseteq Sources /\ entangled' \in BOOLEAN
    BY <1>1 DEF ResultsInv, ResultsTypeOK, ApplicationIs
  <2>5. RowsBegun' => (ResultsTypeOK' <=> /\ OfThere' /\ PointersThere' /\ sources' \subseteq Sources
                                         /\ entangled' \in BOOLEAN)
    BY TypesThen
  <2> QED
    BY <2>1, <2>3, <2>4, <2>5, <1>9
<1>20. ApplicationIs'
  BY <1>1, <1>18 DEF ResultsInv, ApplicationIs, NewApplication
<1>21. PointersInStep'
  <2> SUFFICES ASSUME HasApplication', ~entangled, NEW kind \in Pointed \ {"tailored score"}
               PROVE  application'[kind] = Newest(Made(kind)')
    BY <1>1 DEF PointersInStep
  <2>1. kind = m.kind => Newest(Made(kind)') = row
    <3>1. row = begun
      BY <1>4 DEF ResultsInv, OneMakes
    <3>2. \A j \in Made(kind)' : j \in Results /\ j <= row
      <4>1. \A j \in Results : result'[j].kind # "none" => j <= begun'
        BY <1>9 DEF RowsBegun
      <4>2. \A j \in Made(kind)' : j \in Results /\ result'[j].kind # "none"
        BY ResultsBasics DEF Made
      <4> QED
        BY <4>1, <4>2, <3>1, <1>1
    <3>3. Made(kind)' \in SUBSET Nat /\ (kind = m.kind => row \in Made(kind)')
      BY <3>2, <1>13, ResultsBasics
    <3>4. DEFINE S == Made(kind)'
    <3> HIDE DEF S
    <3>5. S \in SUBSET Nat /\ (\A j \in S : j <= row) /\ (kind = m.kind => row \in S)
      BY <3>2, <3>3 DEF S
    <3>6. kind = m.kind => Newest(S) = row
      BY <3>5, NewestIs
    <3> QED
      BY <3>6 DEF S
  <2>2. kind # m.kind => Made(kind)' = Made(kind)
    BY <1>13, ResultsBasics
  <2>3. HasApplication => application[kind] = Newest(Made(kind))
    BY DEF ResultsInv, PointersInStep
  <2>4. CASE m.kind \notin Pointed /\ application' = application
    BY <2>2, <2>3, <2>4 DEF HasApplication
  <2>5. CASE ~HasApplication /\ application' = application
    BY <2>5 DEF HasApplication
  <2>6. CASE HasApplication /\ application' = [application EXCEPT ![m.kind] = row]
    BY <2>1, <2>2, <2>3, <2>6 DEF ResultsInv, ApplicationIs
  <2>7. CASE application' = [NewApplication(result') EXCEPT ![m.kind] = row]
    <3>1. application'[kind] = IF kind = m.kind THEN row ELSE NewApplication(result')[kind]
      BY <2>7 DEF NewApplication
    <3> QED
      BY <3>1, <2>1, <1>15, <1>16
  <2> QED
    BY <2>4, <2>5, <2>6, <2>7, <1>18
<1> QED
  BY <1>9, <1>11, <1>12, <1>19, <1>20, <1>21 DEF ResultsInv

LEMMA DeleteSourceKeeps ==
    ASSUME ResultsInv, NEW s \in Sources, DeleteSource(s)
    PROVE  ResultsInv'
<1> DEFINE gone == {i \in Results : result[i].kind # "none" /\ result[i].kind # "tailored score"
                                       /\ result[i].of = s}
           scores == {i \in Made("tailored score") : result[i].of \in gone}
           away == gone \union scores
<1>1. /\ sources' = sources \ {s} /\ UNCHANGED <<begun, making>>
      /\ result' = [i \in Results |-> IF i \in away THEN NoResult ELSE result[i]]
      /\ application' = [kind \in Pointed |-> IF application[kind] \in away THEN 0 ELSE application[kind]]
      /\ entangled' = (entangled \/ gone # {} \/ \E q \in ResultRequests : making[q] # NoMaking)
  BY DEF DeleteSource
<1>2. away \subseteq Results /\ (gone = {} => away = {})
  BY DEF Made
<1>3. \A i \in Results : result[i] # NoResult /\ i \notin away =>
         IF result[i].kind = "tailored score" THEN result[i].of \in Made("tailored") \ away
         ELSE result[i].of \in sources \ {s}
  <2>1. \A i \in Results : result[i] # NoResult => result[i].kind # "none" /\ result[i].of \in MadeOf(result[i].kind)
    BY DEF ResultsInv, RowsBegun, ResultsTypeOK
  <2>2. \A i \in Results : i \notin away /\ result[i].kind = "tailored score" => result[i].of \notin gone
    BY DEF Made
  <2>3. \A j \in Made("tailored") : j \in away => j \in gone
    BY DEF Made
  <2> QED
    BY <2>1, <2>2, <2>3 DEF MadeOf
<1> HIDE DEF gone, scores
<1>4. result' \in [Results -> Result] /\ \A i \in Results : result'[i] = IF i \in away THEN NoResult ELSE result[i]
  BY <1>1, ResultsBasics DEF ResultsInv, RowsBegun
<1>5. \A kind \in Kinds : Made(kind)' = Made(kind) \ away
  BY <1>4, ResultsBasics DEF Made
<1>6. RowsBegun'
  BY <1>1, <1>4, ResultsBasics DEF ResultsInv, RowsBegun
<1>7. OneMakes'
  BY <1>1 DEF OneMakes, Makes
<1>8. \A q \in ResultRequests : making[q] # NoMaking => making[q].row \in Results
  BY DEF ResultsInv, RowsBegun, MakingNew, Evaluating
<1>9. RowsFree'
  BY <1>1, <1>4, <1>8, ResultsBasics DEF ResultsInv, RowsFree, Makes
<1>10. ApplicationIs'
  BY <1>1 DEF ResultsInv, ApplicationIs
<1>11. HasApplication' => HasApplication
  <2>1. -1 \notin Results
    BY DEF Results
  <2> QED
    BY <2>1, <1>1, <1>2 DEF HasApplication, NoApplication
<1>12. ResultsTypeOK'
  <2>1. OfThere'
    <3>1. MadeOf("tailored score")' = Made("tailored") \ away
      BY <1>5 DEF MadeOf, Kinds, Pointed
    <3>2. \A kind \in Kinds : kind # "tailored score" => MadeOf(kind)' = sources \ {s}
      BY <1>1 DEF MadeOf
    <3>3. ASSUME NEW i \in Results, NEW kind \in Kinds, result'[i] # NoResult, result'[i].kind = kind
          PROVE  result'[i].of \in MadeOf(kind)'
      <4>1. i \notin away /\ result'[i] = result[i]
        BY <3>3, <1>4
      <4> QED
        BY <3>1, <3>2, <3>3, <4>1, <1>3
    <3> QED
      BY <3>3 DEF OfThere
  <2>2. \A kind \in Pointed : HasApplication' => application'[kind] \in Made(kind)' \union {0}
    BY <1>1, <1>5, <1>11, ResultsBasics DEF ResultsInv, ResultsTypeOK
  <2>3. PointersThere'
    BY <2>2 DEF PointersThere
  <2>4. sources' \subseteq Sources /\ entangled' \in BOOLEAN
    BY <1>1 DEF ResultsInv, ResultsTypeOK, ApplicationIs
  <2>5. RowsBegun' => (ResultsTypeOK' <=> /\ OfThere' /\ PointersThere' /\ sources' \subseteq Sources
                                         /\ entangled' \in BOOLEAN)
    BY TypesThen
  <2> QED
    BY <2>1, <2>3, <2>4, <2>5, <1>6
<1>13. PointersInStep'
  <2> SUFFICES ASSUME ~entangled', HasApplication', NEW kind \in Pointed \ {"tailored score"}
               PROVE  application'[kind] = Newest(Made(kind)')
    BY DEF PointersInStep
  <2>1. away = {} /\ ~entangled
    BY <1>1, <1>2
  <2>2. application'[kind] = application[kind] /\ Made(kind)' = Made(kind)
    BY <2>1, <1>1, <1>5, ResultsBasics
  <2> QED
    BY <2>1, <2>2, <1>11 DEF ResultsInv, PointersInStep
<1> QED
  BY <1>6, <1>7, <1>9, <1>10, <1>12, <1>13 DEF ResultsInv

LEMMA ResultsInvStep == ResultsInv /\ [ResultsNext]_resultVars => ResultsInv'
<1> SUFFICES ASSUME ResultsInv, [ResultsNext]_resultVars PROVE ResultsInv'
  OBVIOUS
<1> DEFINE yes == TRUE
           no == FALSE
<1>1. yes \in BOOLEAN /\ no \in BOOLEAN
  OBVIOUS
<1>2. ASSUME NEW q \in ResultRequests, NEW kind \in Kinds, NEW of, NEW create \in BOOLEAN,
             NEW whole \in BOOLEAN, Make(q, kind, of, create, whole)
      PROVE  ResultsInv'
  BY <1>2, MakeKeeps
<1>3. /\ \A q, kind, of, create : Make(q, kind, of, create, TRUE) => Make(q, kind, of, create, yes)
      /\ \A q, kind, of, create : Make(q, kind, of, create, FALSE) => Make(q, kind, of, create, no)
      /\ \A q, kind, of, whole : Make(q, kind, of, TRUE, whole) => Make(q, kind, of, yes, whole)
      /\ \A q, kind, of, whole : Make(q, kind, of, FALSE, whole) => Make(q, kind, of, no, whole)
  OBVIOUS
<1>4. "score" \in Kinds /\ "tailored" \in Kinds /\ "tailored score" \in Kinds /\ "letter" \in Kinds
      /\ "prep" \in Kinds /\ "review" \in Kinds
  BY DEF Kinds, Pointed
<1> HIDE DEF yes, no
<1>5. CASE \E q \in ResultRequests, s \in Sources :
              \/ Score(q, s) \/ UploadScore(q, s) \/ Tailor(q, s) \/ UploadTailored(q, s)
              \/ WriteLetter(q, s) \/ UploadLetter(q, s) \/ PrepareInterview(q, s) \/ Review(q, s)
              \/ EvaluateResume(q, s)
  <2> SUFFICES ASSUME NEW q \in ResultRequests, NEW s \in Sources,
                      \/ Score(q, s) \/ UploadScore(q, s) \/ Tailor(q, s) \/ UploadTailored(q, s)
                      \/ WriteLetter(q, s) \/ UploadLetter(q, s) \/ PrepareInterview(q, s) \/ Review(q, s)
                      \/ EvaluateResume(q, s)
               PROVE  ResultsInv'
    BY <1>5
  <2>1. CASE Score(q, s)
    <3>1. PICK create \in BOOLEAN : Make(q, "score", s, create, FALSE)
      BY <2>1 DEF Score
    <3>2. Make(q, "score", s, create, no)
      BY <3>1 DEF no
    <3> QED
      BY <3>2, <1>1, <1>2, <1>4
  <2>2. CASE UploadScore(q, s)
    BY <2>2, <1>1, <1>2, <1>3, <1>4 DEF UploadScore
  <2>3. CASE Tailor(q, s)
    <3>1. PICK create \in BOOLEAN : Make(q, "tailored", s, create, FALSE)
      BY <2>3 DEF Tailor
    <3>2. Make(q, "tailored", s, create, no)
      BY <3>1 DEF no
    <3> QED
      BY <3>2, <1>1, <1>2, <1>4
  <2>4. CASE UploadTailored(q, s)
    BY <2>4, <1>1, <1>2, <1>3, <1>4 DEF UploadTailored
  <2>5. CASE WriteLetter(q, s)
    BY <2>5, <1>1, <1>2, <1>3, <1>4 DEF WriteLetter
  <2>6. CASE UploadLetter(q, s)
    BY <2>6, <1>1, <1>2, <1>3, <1>4 DEF UploadLetter
  <2>7. CASE PrepareInterview(q, s)
    BY <2>7, <1>1, <1>2, <1>3, <1>4 DEF PrepareInterview
  <2>8. CASE Review(q, s)
    BY <2>8, <1>1, <1>2, <1>3, <1>4 DEF Review
  <2>9. CASE EvaluateResume(q, s)
    BY <2>9, <1>4, EvaluateKeeps DEF EvaluateResume
  <2> QED
    BY <2>1, <2>2, <2>3, <2>4, <2>5, <2>6, <2>7, <2>8, <2>9
<1>6. CASE \E q \in ResultRequests, t \in Results :
              ScoreTailored(q, t) \/ UploadTailoredScore(q, t) \/ EvaluateTailored(q, t)
  <2> SUFFICES ASSUME NEW q \in ResultRequests, NEW t \in Results,
                      ScoreTailored(q, t) \/ UploadTailoredScore(q, t) \/ EvaluateTailored(q, t)
               PROVE  ResultsInv'
    BY <1>6
  <2>1. CASE ScoreTailored(q, t)
    <3>1. PICK create \in BOOLEAN : Make(q, "tailored score", t, create, FALSE)
      BY <2>1 DEF ScoreTailored
    <3>2. Make(q, "tailored score", t, create, no)
      BY <3>1 DEF no
    <3> QED
      BY <3>2, <1>1, <1>2, <1>4
  <2>2. CASE UploadTailoredScore(q, t)
    BY <2>2, <1>1, <1>2, <1>3, <1>4 DEF UploadTailoredScore
  <2>3. CASE EvaluateTailored(q, t)
    BY <2>3, <1>4, EvaluateKeeps DEF EvaluateTailored
  <2> QED
    BY <2>1, <2>2, <2>3
<1>7. ASSUME NEW q \in ResultRequests, AbandonResult(q) PROVE ResultsInv'
  BY <1>7, EndKeeps DEF AbandonResult
<1>8. CASE UNCHANGED resultVars
  <2>1. ResultsTypeOK' /\ RowsBegun' /\ ApplicationIs'
    BY <1>8 DEF resultVars, ResultsInv, ResultsTypeOK, RowsBegun, ApplicationIs, HasApplication, Made, MadeOf
  <2>2. OneMakes' /\ RowsFree'
    BY <1>8 DEF resultVars, ResultsInv, OneMakes, RowsFree, Makes
  <2>3. PointersInStep'
    BY <1>8 DEF resultVars, ResultsInv, PointersInStep, HasApplication, Made
  <2> QED
    BY <2>1, <2>2, <2>3 DEF ResultsInv
<1> QED
  BY <1>5, <1>6, <1>7, <1>8, FinishResultKeeps, FinishEvaluationKeeps, SaveKeeps, UnsaveKeeps,
     DeleteSourceKeeps DEF ResultsNext

\* However requests, evaluations and deletions follow one another, a row is of
\* something there and a pointer at a row of its kind.
THEOREM ResultTypes == ResultsSpec => []ResultsTypeOK
<1>1. ResultsInit => ResultsInv
  BY ResultsInvInit
<1>2. ResultsInv /\ [ResultsNext]_resultVars => ResultsInv'
  BY ResultsInvStep
<1>3. ResultsInv => ResultsTypeOK
  BY DEF ResultsInv
<1> QED
  BY <1>1, <1>2, <1>3, PTL DEF ResultsSpec

\* The application's pointers stay in step with the newest results, and a
\* breakdown is of its own score, for any number of requests and results.
THEOREM PointersFollow == ResultsSpec => []ResultsInStep
<1>1. ResultsInit => ResultsInv
  BY ResultsInvInit
<1>2. ResultsInv /\ [ResultsNext]_resultVars => ResultsInv'
  BY ResultsInvStep
<1>3. ResultsInv => ResultsInStep
  BY DEF ResultsInv, ResultsInStep, RowsBegun, BreakdownIsOwn
<1> QED
  BY <1>1, <1>2, <1>3, PTL DEF ResultsSpec
=============================================================================
