--------------------------- MODULE Sweeps_proofs ---------------------------
EXTENDS AlertSweep, FollowUps, JobDedup,
        FiniteSetTheorems, WellFoundedInduction, TLAPS

-----------------------------------------------------------------------------
\* AlertSweep: the cursor of saved-search alerts.

AlertPosting ==
    [stamp : Day \union {NoDay}, scanned : Day \union {NoDay},
     first : Day \union {NoDay}, visible : BOOLEAN]

\* The facts about the calendar that the proofs need.
LEMMA Calendar ==
    /\ Day \subseteq Nat /\ 0 \in Day /\ AlertWindow \in Nat
    /\ NoDay \notin Day /\ NoDay \in Int
    /\ \A n \in Day \union {NoDay} : n \in Int
BY AlertAssumption DEF Day, NoDay

\* A posting that is news today was news on any day before.
LEMMA NewsThen ==
    ASSUME NEW first \in Int, NEW now \in Int, NEW then \in Int, then <= now,
           first >= now - AlertWindow
    PROVE  first >= then - AlertWindow
BY AlertAssumption

LEMMA ScanTyped ==
    ASSUME NEW a \in AlertPosting, NEW day \in Day \union {NoDay}, NEW first \in Day \union {NoDay},
           NEW visible \in BOOLEAN
    PROVE  /\ [a EXCEPT !.stamp = day] \in AlertPosting
           /\ [stamp |-> NoDay, scanned |-> day, first |-> first, visible |-> visible] \in AlertPosting
BY DEF AlertPosting

-----------------------------------------------------------------------------
(* Type correctness.                                                       *)

LEMMA TypeInit == AlertInit => AlertTypeOK
BY Calendar DEF AlertInit, AlertTypeOK

LEMMA TypeStep == AlertTypeOK /\ [AlertNext]_alertVars => AlertTypeOK'
<1> SUFFICES ASSUME AlertTypeOK, [AlertNext]_alertVars PROVE AlertTypeOK'
  OBVIOUS
<1> USE DEF AlertTypeOK
<1>1. CASE AlertTick
  BY <1>1, AlertAssumption DEF AlertTick, Day
<1>2. ASSUME NEW p \in AlertPostings, StampScan(p) PROVE AlertTypeOK'
  <2>1. alertPosting \in [AlertPostings -> AlertPosting]
    BY DEF AlertPosting
  <2>2. [alertPosting[p] EXCEPT !.stamp = clock] \in AlertPosting
    BY <2>1, ScanTyped
  <2>3. alertPosting' \in [AlertPostings -> AlertPosting]
    BY <1>2, <2>1, <2>2 DEF StampScan
  <2> QED
    BY <1>2, <2>3 DEF StampScan, AlertPosting
<1>3. ASSUME NEW p \in AlertPostings, NEW complete \in BOOLEAN, CommitScan(p, complete)
      PROVE  AlertTypeOK'
  <2>1. alertPosting \in [AlertPostings -> AlertPosting]
    BY DEF AlertPosting
  <2> DEFINE a == alertPosting[p]
             new == [stamp |-> NoDay, scanned |-> a.stamp,
                     first |-> IF a.first = NoDay THEN a.stamp ELSE a.first,
                     visible |-> a.visible \/ complete]
  <2>2. /\ a.stamp \in Day \union {NoDay} /\ a.visible \in BOOLEAN
        /\ (IF a.first = NoDay THEN a.stamp ELSE a.first) \in Day \union {NoDay}
    BY <2>1 DEF AlertPosting
  <2>3. new \in AlertPosting
    BY <2>2 DEF AlertPosting
  <2>4. alertPosting' = [alertPosting EXCEPT ![p] = new]
    BY <1>3 DEF CommitScan
  <2>5. alertPosting' \in [AlertPostings -> AlertPosting]
    BY <2>1, <2>3, <2>4
  <2> QED
    BY <1>3, <2>5 DEF CommitScan, AlertPosting
<1>4. CASE SwitchAlerts
  BY <1>4 DEF SwitchAlerts
<1>5. CASE StartAlerts
  BY <1>5 DEF StartAlerts
<1>6. CASE MailDigest
  BY <1>6 DEF MailDigest, Matches, InFlightScans
<1>7. CASE CommitAlerts
  BY <1>7 DEF CommitAlerts
<1>8. CASE AlertsFail
  BY <1>8 DEF AlertsFail
<1>9. CASE UNCHANGED alertVars
  BY <1>9 DEF alertVars
<1> QED
  BY <1>1, <1>2, <1>3, <1>4, <1>5, <1>6, <1>7, <1>8, <1>9 DEF AlertNext

\* Every variable of the alert sweep keeps its type.
THEOREM AlertTypes == AlertSpec => []AlertTypeOK
BY TypeInit, TypeStep, PTL DEF AlertSpec

-----------------------------------------------------------------------------
(* The cursor.                                                             *)

\* What was scanned before `day' and is still news, the user was told of.
CoveredBefore(day) ==
    \A p \in AlertPostings :
        /\ alertPosting[p].visible
        /\ alertPosting[p].scanned < day
        /\ alertPosting[p].first >= clock - AlertWindow
        => p \in mailed \union late

\* What is being scanned since before `day', the sweep gave up on.
InFlightBefore(day) ==
    \A p \in AlertPostings :
        alertPosting[p].stamp # NoDay /\ alertPosting[p].stamp < day => p \in late

\* A cursor, and what a sweep that has mailed will set it to, is passed only
\* by what was mailed; a scan under way may still date a posting before it.
CursorInv ==
    /\ search.cursor <= clock /\ alerts.now <= clock
    /\ CoveredBefore(search.cursor) /\ InFlightBefore(search.cursor)
    /\ alerts.phase = "mailed" => CoveredBefore(alerts.now) /\ InFlightBefore(alerts.now)

\* What a scan of p does to what it was before a day no later than the clock.
LEMMA ScanKeeps ==
    ASSUME AlertTypeOK, NEW day \in Day, day <= clock, NEW p \in AlertPostings,
           CoveredBefore(day), InFlightBefore(day),
           \/ StampScan(p)
           \/ \E complete \in BOOLEAN : CommitScan(p, complete)
    PROVE  CoveredBefore(day)' /\ InFlightBefore(day)'
<1> USE Calendar
<1>1. \A o \in AlertPostings : o # p => alertPosting'[o] = alertPosting[o]
  BY DEF StampScan, CommitScan, AlertTypeOK
<1>2. UNCHANGED <<clock, mailed, late>>
  BY DEF StampScan, CommitScan
<1>3. CASE StampScan(p)
  <2>1. /\ alertPosting'[p].stamp = clock
        /\ alertPosting'[p].visible = alertPosting[p].visible
        /\ alertPosting'[p].scanned = alertPosting[p].scanned
        /\ alertPosting'[p].first = alertPosting[p].first
    BY <1>3 DEF StampScan, AlertTypeOK
  <2>2. ~(clock < day)
    BY DEF AlertTypeOK
  <2> QED
    BY <1>1, <1>2, <2>1, <2>2 DEF CoveredBefore, InFlightBefore
<1>4. ASSUME NEW complete \in BOOLEAN, CommitScan(p, complete)
      PROVE  CoveredBefore(day)' /\ InFlightBefore(day)'
  <2>1. /\ alertPosting[p].stamp # NoDay
        /\ alertPosting'[p].stamp = NoDay
        /\ alertPosting'[p].scanned = alertPosting[p].stamp
    BY <1>4 DEF CommitScan, AlertTypeOK
  <2>2. alertPosting'[p].scanned < day => p \in late
    BY <2>1 DEF InFlightBefore
  <2> QED
    BY <1>1, <1>2, <2>1, <2>2 DEF CoveredBefore, InFlightBefore
<1> QED
  BY <1>3, <1>4

LEMMA CursorInit == AlertInit => CursorInv
BY Calendar DEF AlertInit, CursorInv, CoveredBefore, InFlightBefore

LEMMA CursorStep == AlertTypeOK /\ AlertTypeOK' /\ CursorInv /\ [AlertNext]_alertVars => CursorInv'
<1> SUFFICES ASSUME AlertTypeOK, AlertTypeOK', CursorInv, [AlertNext]_alertVars
             PROVE  CursorInv'
  OBVIOUS
<1> USE Calendar
<1>0. /\ search.cursor \in Day /\ alerts.now \in Day /\ clock \in Day
      /\ search.cursor \in Int /\ alerts.now \in Int /\ clock \in Int
      /\ \A p \in AlertPostings : alertPosting[p].scanned \in Int /\ alertPosting[p].first \in Int
  <2>1. search.cursor \in Day /\ alerts.now \in Day /\ clock \in Day
    BY DEF AlertTypeOK
  <2>2. \A p \in AlertPostings : /\ alertPosting[p].scanned \in Day \union {NoDay}
                                /\ alertPosting[p].first \in Day \union {NoDay}
    BY DEF AlertTypeOK
  <2> QED
    BY <2>1, <2>2
<1>1. CASE AlertTick
  <2>1. ASSUME NEW day \in Day, CoveredBefore(day) PROVE CoveredBefore(day)'
    <3>1. ASSUME NEW p \in AlertPostings, alertPosting[p].first >= clock' - AlertWindow
          PROVE  alertPosting[p].first >= clock - AlertWindow
      <4>1. clock <= clock' /\ clock' \in Int
        BY <1>0, <1>1 DEF AlertTick
      <4> QED
        BY <1>0, <3>1, <4>1, NewsThen
    <3> QED
      BY <1>1, <2>1, <3>1 DEF AlertTick, CoveredBefore
  <2>2. ASSUME NEW day \in Day, InFlightBefore(day) PROVE InFlightBefore(day)'
    BY <1>1, <2>2 DEF AlertTick, InFlightBefore
  <2>3. UNCHANGED <<search, alerts>> /\ clock <= clock' /\ clock' \in Int
    BY <1>0, <1>1 DEF AlertTick
  <2>4. CoveredBefore(search.cursor)' /\ InFlightBefore(search.cursor)'
    BY <1>0, <2>1, <2>2, <2>3 DEF CursorInv, CoveredBefore, InFlightBefore
  <2>5. alerts.phase = "mailed" => CoveredBefore(alerts.now)' /\ InFlightBefore(alerts.now)'
    BY <1>0, <2>1, <2>2, <2>3 DEF CursorInv, CoveredBefore, InFlightBefore
  <2>6. search'.cursor <= clock' /\ alerts'.now <= clock'
    BY <1>0, <2>3 DEF CursorInv
  <2> QED
    BY <2>3, <2>4, <2>5, <2>6 DEF CursorInv
<1>2. ASSUME NEW p \in AlertPostings,
             \/ StampScan(p)
             \/ \E complete \in BOOLEAN : CommitScan(p, complete)
      PROVE  CursorInv'
  <2>1. UNCHANGED <<clock, search, alerts>>
    BY <1>2 DEF StampScan, CommitScan
  <2>2. CoveredBefore(search.cursor)' /\ InFlightBefore(search.cursor)'
    BY <1>0, <1>2, <2>1, ScanKeeps DEF CursorInv, CoveredBefore, InFlightBefore
  <2>3. alerts.phase = "mailed" => CoveredBefore(alerts.now)' /\ InFlightBefore(alerts.now)'
    BY <1>0, <1>2, <2>1, ScanKeeps DEF CursorInv, CoveredBefore, InFlightBefore
  <2> QED
    BY <2>1, <2>2, <2>3 DEF CursorInv
<1>3. CASE SwitchAlerts
  BY <1>3 DEF SwitchAlerts, CursorInv, CoveredBefore, InFlightBefore, AlertTypeOK
<1>4. CASE StartAlerts
  BY <1>0, <1>4 DEF StartAlerts, CursorInv, CoveredBefore, InFlightBefore, AlertTypeOK
<1>5. CASE MailDigest
  <2>1. UNCHANGED <<clock, alertPosting, search>> /\ alerts'.now = alerts.now
        /\ mailed \subseteq mailed' /\ late \subseteq late'
    BY <1>5 DEF MailDigest, AlertTypeOK
  <2>2. CoveredBefore(search.cursor)' /\ InFlightBefore(search.cursor)'
    BY <2>1 DEF CursorInv, CoveredBefore, InFlightBefore
  <2>3. ASSUME alerts'.phase = "mailed"
        PROVE  CoveredBefore(alerts.now)' /\ InFlightBefore(alerts.now)'
    <3>1. mailed' = mailed \union Matches /\ late' = late \union InFlightScans
      BY <1>5, <2>3 DEF MailDigest, AlertTypeOK
    <3>2. InFlightBefore(alerts.now)'
      BY <2>1, <3>1 DEF InFlightBefore, InFlightScans
    <3>3. ASSUME NEW p \in AlertPostings, alertPosting[p].visible,
                 alertPosting[p].scanned < alerts.now,
                 alertPosting[p].first >= clock - AlertWindow
          PROVE  p \in mailed' \union late'
      <4>1. alertPosting[p].scanned \in Int /\ alertPosting[p].first \in Int
        BY <1>0
      <4>2. CASE alertPosting[p].scanned < search.cursor
        BY <2>1, <3>3, <4>2 DEF CursorInv, CoveredBefore
      <4>3. CASE ~(alertPosting[p].scanned < search.cursor)
        <5>1. alertPosting[p].scanned >= search.cursor
          BY <1>0, <4>1, <4>3
        <5>2. alertPosting[p].first >= alerts.now - AlertWindow
          BY <1>0, <3>3, <4>1, NewsThen DEF CursorInv
        <5> QED
          BY <3>1, <3>3, <5>1, <5>2 DEF Matches
      <4> QED
        BY <4>2, <4>3
    <3> QED
      BY <2>1, <3>2, <3>3 DEF CoveredBefore
  <2> QED
    BY <2>1, <2>2, <2>3 DEF CursorInv, CoveredBefore, InFlightBefore
<1>6. CASE CommitAlerts
  <2>1. search'.cursor = alerts.now /\ alerts'.phase = "idle" /\ alerts'.now = alerts.now
        /\ UNCHANGED <<clock, alertPosting, mailed, late>> /\ alerts.phase = "mailed"
    BY <1>6 DEF CommitAlerts, AlertTypeOK
  <2> QED
    BY <2>1 DEF CursorInv, CoveredBefore, InFlightBefore
<1>7. CASE AlertsFail
  BY <1>7 DEF AlertsFail, CursorInv, CoveredBefore, InFlightBefore, AlertTypeOK
<1>8. CASE UNCHANGED alertVars
  BY <1>8 DEF alertVars, CursorInv, CoveredBefore, InFlightBefore
<1> QED
  BY <1>1, <1>2, <1>3, <1>4, <1>5, <1>6, <1>7, <1>8 DEF AlertNext

\* However sweeps fail and scans come late, the cursor never passes a posting
\* that is still news and that the user was not told of, unless its scan was
\* not committed when a sweep read.
THEOREM CursorNeverSkips == AlertSpec => []CursorCovers
<1>1. AlertTypeOK /\ CursorInv => CursorCovers
  BY DEF CursorInv, CoveredBefore, CursorCovers
<1>2. AlertInit => AlertTypeOK /\ CursorInv
  BY TypeInit, CursorInit
<1>3. AlertTypeOK /\ CursorInv /\ [AlertNext]_alertVars => (AlertTypeOK /\ CursorInv)'
  BY TypeStep, CursorStep
<1> QED
  BY <1>1, <1>2, <1>3, PTL DEF AlertSpec

-----------------------------------------------------------------------------
\* FollowUps: follow-up reminders.

Sweep == [read : SUBSET Applications, mailed : SUBSET Applications]

Reminder == [due : Date, marked : BOOLEAN, told : BOOLEAN, open : BOOLEAN]

\* What the sweep has mailed and will mark.
MailedMeansTold ==
    \A a \in reminders.mailed : followUp[a].told \/ a \in setMidway

FollowUpsInv ==
    /\ FollowUpsTypeOK
    /\ reminders \in Sweep
    /\ MailedMeansTold
    /\ MarkedMeansTold

LEMMA DateBasics == NoDue \in Date /\ 0 \in 0 .. LastDue
  BY LastDueAssumption DEF Date, NoDue

LEMMA InvInit == FollowUpsInit => FollowUpsInv
<1> SUFFICES ASSUME FollowUpsInit PROVE FollowUpsInv
  OBVIOUS
<1>1. followUp \in [Applications -> Reminder]
  <2>1. [due |-> NoDue, marked |-> FALSE, told |-> FALSE, open |-> TRUE] \in Reminder
    BY DateBasics DEF Reminder
  <2> QED
    BY <2>1 DEF FollowUpsInit
<1>2. reminders \in Sweep /\ reminders.mailed = {} /\ reminders.read = {}
  BY DEF FollowUpsInit, NoReminders, Sweep
<1>3. \A a \in Applications : ~followUp[a].marked
  BY DEF FollowUpsInit
<1> QED
  BY <1>1, <1>2, <1>3, DateBasics
  DEF FollowUpsInit, FollowUpsInv, FollowUpsTypeOK, MailedMeansTold, MarkedMeansTold, Reminder

\* One row changes, and nothing of it but what is named.
LEMMA RowTyped ==
    /\ \A r \in Reminder, day \in Date :
          [r EXCEPT !.due = day, !.marked = FALSE, !.told = FALSE] \in Reminder
    /\ \A r \in Reminder, b \in BOOLEAN :
          [r EXCEPT !.open = b] \in Reminder /\ [r EXCEPT !.told = b] \in Reminder
    /\ \A r \in Reminder : [r EXCEPT !.marked = TRUE] \in Reminder
  BY DEF Reminder

LEMMA SetKeeps ==
    ASSUME FollowUpsInv, NEW a \in Applications, NEW day \in Date, SetFollowUp(a, day)
    PROVE  FollowUpsInv'
<1>1. followUp \in [Applications -> Reminder] /\ reminders' = reminders /\ today' = today
  BY DEF FollowUpsInv, FollowUpsTypeOK, Reminder, SetFollowUp
<1>2. followUp' = [followUp EXCEPT ![a] =
          [followUp[a] EXCEPT !.due = day, !.marked = FALSE, !.told = FALSE]]
  BY <1>1 DEF SetFollowUp
<1>3. followUp' \in [Applications -> Reminder]
  BY <1>1, <1>2, RowTyped
<1>4. ~followUp'[a].marked
  BY <1>1, <1>2 DEF Reminder
<1>5. \A o \in Applications : o # a => followUp'[o] = followUp[o]
  BY <1>1, <1>2
<1>6. /\ setMidway' \subseteq Applications
      /\ \A o \in Applications : o # a => (o \in setMidway' <=> o \in setMidway)
      /\ a \in reminders.mailed => a \in setMidway'
  BY DEF SetFollowUp, FollowUpsInv, FollowUpsTypeOK
<1> QED
  BY <1>1, <1>3, <1>4, <1>5, <1>6
  DEF FollowUpsInv, FollowUpsTypeOK, MailedMeansTold, MarkedMeansTold, Reminder, Sweep

LEMMA CloseKeeps ==
    ASSUME FollowUpsInv, NEW closed \in SUBSET Applications, NEW open \in BOOLEAN,
           CloseApplications(closed, open)
    PROVE  FollowUpsInv'
<1>1. /\ followUp \in [Applications -> Reminder]
      /\ UNCHANGED <<today, reminders, setMidway>>
  BY DEF FollowUpsInv, FollowUpsTypeOK, Reminder, CloseApplications
<1>2. followUp' \in [Applications -> Reminder]
  <2>1. \A a \in Applications : /\ followUp[a] \in Reminder
                                /\ [followUp[a] EXCEPT !.open = open] \in Reminder
    BY <1>1, RowTyped
  <2> QED
    BY <2>1 DEF CloseApplications
<1>3. \A a \in Applications : /\ followUp'[a].marked = followUp[a].marked
                              /\ followUp'[a].told = followUp[a].told
  BY <1>1 DEF CloseApplications, Reminder
<1> QED
  BY <1>1, <1>2, <1>3
  DEF FollowUpsInv, FollowUpsTypeOK, MailedMeansTold, MarkedMeansTold, Reminder, Sweep

LEMMA ReadKeeps ==
    ASSUME FollowUpsInv, ReadDue PROVE FollowUpsInv'
<1>1. Due \subseteq Applications /\ \A a \in Due : ~followUp[a].marked
  BY DEF Due
<1>2. /\ reminders' \in Sweep
      /\ reminders'.mailed = {} /\ reminders'.read = Due
  BY <1>1 DEF ReadDue, Sweep
<1> QED
  BY <1>1, <1>2 DEF ReadDue, FollowUpsInv, FollowUpsTypeOK, MailedMeansTold, MarkedMeansTold

LEMMA MailKeeps ==
    ASSUME FollowUpsInv, NEW a \in Applications, MailReminder(a) PROVE FollowUpsInv'
<1>1. /\ followUp \in [Applications -> Reminder] /\ reminders \in Sweep
      /\ UNCHANGED <<today, setMidway>>
      /\ a \in reminders.read /\ a \notin reminders.mailed
  BY DEF FollowUpsInv, FollowUpsTypeOK, Reminder, MailReminder
<1>2. CASE /\ reminders' = [reminders EXCEPT !.mailed = @ \union {a}]
           /\ followUp' = [followUp EXCEPT ![a].told = (a \notin setMidway)]
  <2>1. PICK b \in BOOLEAN : b = (a \notin setMidway)
    OBVIOUS
  <2>2. followUp' = [followUp EXCEPT ![a] = [followUp[a] EXCEPT !.told = b]]
    BY <1>1, <1>2, <2>1
  <2>3. followUp' \in [Applications -> Reminder]
    <3>1. [followUp[a] EXCEPT !.told = b] \in Reminder
      BY <1>1, RowTyped
    <3> QED
      BY <1>1, <2>2, <3>1
  <2>4. followUp'[a].told = b
    BY <1>1, <2>2 DEF Reminder
  <2>5. \A o \in Applications : o # a => followUp'[o] = followUp[o]
    BY <1>1, <2>2
  <2>6. /\ reminders' \in Sweep
        /\ reminders'.mailed = reminders.mailed \union {a} /\ reminders'.read = reminders.read
    BY <1>1, <1>2 DEF Sweep
  <2> QED
    BY <1>1, <2>1, <2>3, <2>4, <2>5, <2>6
    DEF FollowUpsInv, FollowUpsTypeOK, MailedMeansTold, MarkedMeansTold, Reminder, Sweep
<1>3. CASE reminders' = [reminders EXCEPT !.read = @ \ {a}] /\ UNCHANGED followUp
  <2>1. /\ reminders' \in Sweep
        /\ reminders'.mailed = reminders.mailed /\ reminders'.read = reminders.read \ {a}
    BY <1>1, <1>3 DEF Sweep
  <2> QED
    BY <1>1, <1>3, <2>1
    DEF FollowUpsInv, FollowUpsTypeOK, MailedMeansTold, MarkedMeansTold
<1> QED
  BY <1>2, <1>3 DEF MailReminder

LEMMA CommitKeeps ==
    ASSUME FollowUpsInv, CommitReminders PROVE FollowUpsInv'
<1>1. followUp \in [Applications -> Reminder] /\ reminders \in Sweep
  BY DEF FollowUpsInv, FollowUpsTypeOK, Reminder
<1>2. followUp' \in [Applications -> Reminder]
  <2>1. \A a \in Applications : /\ followUp[a] \in Reminder
                                /\ [followUp[a] EXCEPT !.marked = TRUE] \in Reminder
    BY <1>1, RowTyped
  <2> QED
    BY <2>1 DEF CommitReminders
<1>3. \A a \in Applications :
          /\ followUp'[a].told = followUp[a].told
          /\ followUp'[a].marked => followUp[a].marked \/ a \in reminders.mailed
  BY <1>1 DEF CommitReminders, Reminder
<1>4. reminders' \in Sweep /\ reminders'.mailed = {} /\ reminders'.read = {}
  BY DEF CommitReminders, NoReminders, Sweep
<1> QED
  BY <1>1, <1>2, <1>3, <1>4
  DEF CommitReminders, FollowUpsInv, FollowUpsTypeOK, MailedMeansTold, MarkedMeansTold, Reminder

LEMMA InvStep == FollowUpsInv /\ [FollowUpsNext]_followUpVars => FollowUpsInv'
<1> SUFFICES ASSUME FollowUpsInv, [FollowUpsNext]_followUpVars PROVE FollowUpsInv'
  OBVIOUS
<1>1. CASE NextDay
  BY <1>1, LastDueAssumption
  DEF NextDay, FollowUpsInv, FollowUpsTypeOK, MailedMeansTold, MarkedMeansTold
<1>2. CASE ReadDue
  BY <1>2, ReadKeeps
<1>3. CASE CommitReminders
  BY <1>3, CommitKeeps
<1>4. CASE RemindersFail
  <2>1. reminders' \in Sweep /\ reminders'.mailed = {} /\ reminders'.read = {}
    BY <1>4 DEF RemindersFail, NoReminders, Sweep
  <2> QED
    BY <1>4, <2>1
    DEF RemindersFail, FollowUpsInv, FollowUpsTypeOK, MailedMeansTold, MarkedMeansTold
<1>5. CASE \E a \in Applications, day \in Date : SetFollowUp(a, day)
  BY <1>5, SetKeeps
<1>6. CASE \E closed \in SUBSET Applications, open \in BOOLEAN : CloseApplications(closed, open)
  BY <1>6, CloseKeeps
<1>7. CASE \E a \in Applications : MailReminder(a)
  BY <1>7, MailKeeps
<1>8. CASE UNCHANGED followUpVars
  BY <1>8 DEF followUpVars, FollowUpsInv, FollowUpsTypeOK, MailedMeansTold, MarkedMeansTold
<1> QED
  BY <1>1, <1>2, <1>3, <1>4, <1>5, <1>6, <1>7, <1>8 DEF FollowUpsNext

LEMMA InvHolds == FollowUpsSpec => []FollowUpsInv
  BY InvInit, InvStep, PTL DEF FollowUpsSpec

\* The variables keep to their types, and no application is reminded of that
\* the sweep did not read.
THEOREM FollowUpsTypes == FollowUpsSpec => []FollowUpsTypeOK
<1>1. FollowUpsInv => FollowUpsTypeOK
  BY DEF FollowUpsInv
<1> QED
  BY <1>1, InvHolds, PTL

\* No failed mail, dying sweep or changed date leaves a reminder marked that
\* the user was not told of, unless its date was set under the sweep.
THEOREM RemindersReach == FollowUpsSpec => []MarkedMeansTold
<1>1. FollowUpsInv => MarkedMeansTold
  BY DEF FollowUpsInv
<1> QED
  BY <1>1, InvHolds, PTL

-----------------------------------------------------------------------------
\* JobDedup: the groups of postings of one job.

\* A posting no scan is at work on is none whose scan has read groups.
LEMMA NoScanApart == NoScan \notin Storing
<1>1. ASSUME NoScan \in Storing PROVE FALSE
  <2>1. DOMAIN NoScan = {"complete"}
    BY DEF NoScan
  <2>2. "job" \in DOMAIN NoScan
    BY <1>1 DEF Storing
  <2> QED
    BY <2>1, <2>2
<1> QED
  BY <1>1

\* What redo_dedup is about to write is one head a posting.
RegroupFits ==
    /\ regroup \subseteq Postings \X MaybePosting
    /\ \A c, d \in regroup : c[1] = d[1] => c[2] = d[2]

AbsentAlone == \A p \in Postings : posting[p].status = "ABSENT" => posting[p].primary = NoPosting

DedupTypes == DedupTypeOK /\ RegroupFits /\ AbsentAlone

\* The effect of a scan's commit that goes through, posting by posting.
Committed(p) ==
    LET s == storing[p]
        primary == IF NewPrimary(p) = s.loaded THEN posting[p].primary ELSE NewPrimary(p)
    IN  /\ primary \in Postings => posting[primary].status # "ABSENT"
        /\ posting'[p].status = IF s.complete THEN "SUCCESS" ELSE "HIDDEN"
        /\ posting'[p].job = s.job
        /\ posting'[p].primary = primary
        /\ \A q \in Postings \ {p} :
              /\ posting'[q].status = posting[q].status
              /\ posting'[q].job = posting[q].job
              /\ posting'[q].primary = IF q \in Claimed(p) THEN p ELSE posting[q].primary

LEMMA StoreCommits ==
    ASSUME DedupTypes, NEW p \in Postings, StoreGroup(p)
    PROVE  /\ p \in Reading /\ storing[p] \in Storing /\ NewPrimary(p) \in MaybePosting
           /\ storing' = [storing EXCEPT ![p] = NoScan] /\ UNCHANGED <<regroup, raced>>
           /\ posting' \in [Postings -> PostingState]
           /\ UNCHANGED posting \/ Committed(p)
<1> DEFINE s == storing[p]
           primary == IF NewPrimary(p) = s.loaded THEN posting[p].primary ELSE NewPrimary(p)
           status == IF s.complete THEN "SUCCESS" ELSE "HIDDEN"
           own == [posting[p] EXCEPT !.status = status, !.job = s.job, !.primary = primary]
<1>0. posting \in [Postings -> PostingState] /\ storing \in [Postings -> Storing \union {NoScan}]
  BY DEF DedupTypes, DedupTypeOK
<1>1. /\ p \in Reading /\ s \in Storing /\ NewPrimary(p) \in MaybePosting /\ primary \in MaybePosting
      /\ storing' = [storing EXCEPT ![p] = NoScan] /\ UNCHANGED <<regroup, raced>>
  <2>1. s # NoScan /\ storing' = [storing EXCEPT ![p] = NoScan] /\ UNCHANGED <<regroup, raced>>
    BY DEF StoreGroup
  <2>2. s \in Storing
    BY <1>0, <2>1
  <2>3. NewPrimary(p) \in MaybePosting
    BY <2>2 DEF NewPrimary, Storing, MaybePosting
  <2>4. posting[p].primary \in MaybePosting
    BY <1>0 DEF PostingState
  <2> QED
    BY <2>1, <2>2, <2>3, <2>4 DEF Reading
<1>2. CASE UNCHANGED posting
  BY <1>0, <1>1, <1>2
<1>3. CASE /\ ~(primary \in Postings /\ posting[primary].status = "ABSENT")
           /\ posting' = [q \in Postings |->
                 CASE q = p -> own
                   [] q \in Claimed(p) -> [posting[q] EXCEPT !.primary = p]
                   [] OTHER -> posting[q]]
  <2>1. /\ own \in PostingState /\ own.status = status
        /\ own.job = s.job /\ own.primary = primary
    <3>1. s.complete \in BOOLEAN /\ s.job \in Jobs
      BY <1>1 DEF Storing
    <3>2. status \in {"ABSENT", "SUCCESS", "HIDDEN"}
      OBVIOUS
    <3> HIDE DEF primary, status
    <3> QED
      BY <1>0, <1>1, <3>1, <3>2 DEF PostingState
  <2> HIDE DEF own
  <2>2. p \notin Claimed(p)
    BY DEF Claimed
  <2>3. posting'[p] = own
    BY <1>3, <2>2
  <2>4. ASSUME NEW q \in Postings, q # p
        PROVE  /\ posting'[q] \in PostingState
               /\ posting'[q].status = posting[q].status
               /\ posting'[q].job = posting[q].job
               /\ posting'[q].primary = IF q \in Claimed(p) THEN p ELSE posting[q].primary
    <3>1. p \in MaybePosting /\ posting[q] \in PostingState
      BY <1>0 DEF MaybePosting
    <3>2. CASE q \in Claimed(p)
      <4>1. posting'[q] = [posting[q] EXCEPT !.primary = p]
        BY <1>3, <2>4, <3>2
      <4> QED
        BY <3>1, <3>2, <4>1 DEF PostingState
    <3>3. CASE q \notin Claimed(p)
      <4>1. posting'[q] = posting[q]
        BY <1>3, <2>4, <3>3
      <4> QED
        BY <3>1, <3>3, <4>1
    <3> QED
      BY <3>2, <3>3
  <2>5. posting' \in [Postings -> PostingState]
    <3>1. DOMAIN posting' = Postings /\ posting' = [q \in Postings |-> posting'[q]]
      BY <1>3
    <3> QED
      BY <2>1, <2>3, <2>4, <3>1
  <2>6. Committed(p)
    BY <1>3, <2>1, <2>3, <2>4 DEF Committed
  <2> QED
    BY <1>1, <2>5, <2>6
<1> QED
  BY <1>2, <1>3 DEF StoreGroup

\* A deletion, posting by posting.
LEMMA Deleted ==
    ASSUME DedupTypes, NEW d \in Postings, DeletePosting(d)
    PROVE  /\ posting' \in [Postings -> PostingState] /\ storing[d] = NoScan
           /\ posting'[d].status = "ABSENT" /\ posting'[d].primary = NoPosting
           /\ posting'[d].job = posting[d].job
           /\ \A q \in Postings \ {d} :
                 /\ posting'[q].status = posting[q].status /\ posting'[q].job = posting[q].job
                 /\ posting'[q].primary = IF posting[q].primary = d THEN NoPosting
                                                                    ELSE posting[q].primary
           /\ UNCHANGED <<storing, regroup, raced>>
<1> DEFINE gone == [posting[d] EXCEPT !.status = "ABSENT", !.primary = NoPosting, !.closed = FALSE]
<1>0. posting \in [Postings -> PostingState] /\ NoPosting \in MaybePosting
  BY DEF DedupTypes, DedupTypeOK, MaybePosting
<1>1. /\ gone \in PostingState /\ gone.status = "ABSENT" /\ gone.primary = NoPosting
      /\ gone.job = posting[d].job
  BY <1>0 DEF PostingState
<1> HIDE DEF gone
<1>2. /\ posting' = [q \in Postings |->
            CASE q = d -> gone
              [] q # d /\ posting[q].primary = d -> [posting[q] EXCEPT !.primary = NoPosting]
              [] OTHER -> posting[q]]
      /\ storing[d] = NoScan /\ UNCHANGED <<storing, regroup, raced>>
  BY DEF DeletePosting, gone
<1>3. posting'[d] = gone
  BY <1>2
<1>4. ASSUME NEW q \in Postings, q # d
      PROVE  /\ posting'[q] \in PostingState
             /\ posting'[q].status = posting[q].status /\ posting'[q].job = posting[q].job
             /\ posting'[q].primary = IF posting[q].primary = d THEN NoPosting
                                                                ELSE posting[q].primary
  <2>1. CASE posting[q].primary = d
    <3>1. posting'[q] = [posting[q] EXCEPT !.primary = NoPosting]
      BY <1>2, <1>4, <2>1
    <3> QED
      BY <1>0, <2>1, <3>1 DEF PostingState
  <2>2. CASE posting[q].primary # d
    <3>1. posting'[q] = posting[q]
      BY <1>2, <1>4, <2>2
    <3> QED
      BY <1>0, <2>2, <3>1
  <2> QED
    BY <2>1, <2>2
<1>5. posting' = [q \in Postings |-> posting'[q]]
  BY <1>2
<1> QED
  BY <1>1, <1>2, <1>3, <1>4, <1>5

\* What redo_dedup writes, posting by posting.
LEMMA Regrouped ==
    ASSUME DedupTypes, RegroupWrite
    PROVE  /\ posting' \in [Postings -> PostingState] /\ regroup' = {} /\ UNCHANGED <<storing, raced>>
           /\ \/ UNCHANGED posting
              \/ \A p \in Postings :
                    /\ posting'[p].status = posting[p].status /\ posting'[p].job = posting[p].job
                    /\ \/ posting'[p].primary = posting[p].primary
                          /\ \A c \in regroup : c[1] = p => posting[p].status = "ABSENT"
                       \/ posting[p].status # "ABSENT" /\ \E c \in regroup :
                             /\ c[1] = p /\ posting'[p].primary = c[2]
                             /\ c[2] # NoPosting => posting[c[2]].status # "ABSENT"
<1> DEFINE rows == {c \in regroup : posting[c[1]].status # "ABSENT"}
<1>0. posting \in [Postings -> PostingState] /\ regroup \subseteq Postings \X MaybePosting
  BY DEF DedupTypes, DedupTypeOK, RegroupFits
<1>1. regroup' = {} /\ UNCHANGED <<storing, raced>>
  BY DEF RegroupWrite
<1>2. CASE UNCHANGED posting
  BY <1>0, <1>1, <1>2
<1>3. CASE /\ \A c \in rows : ~(c[2] # NoPosting /\ posting[c[2]].status = "ABSENT")
           /\ posting' = [p \in Postings |->
                 IF \E c \in rows : c[1] = p
                 THEN [posting[p] EXCEPT !.primary = (CHOOSE c \in rows : c[1] = p)[2]]
                 ELSE posting[p]]
  <2>1. ASSUME NEW p \in Postings
        PROVE  /\ posting'[p] \in PostingState
               /\ posting'[p].status = posting[p].status /\ posting'[p].job = posting[p].job
               /\ \/ posting'[p].primary = posting[p].primary
                     /\ \A c \in regroup : c[1] = p => posting[p].status = "ABSENT"
                  \/ posting[p].status # "ABSENT" /\ \E c \in regroup :
                        /\ c[1] = p /\ posting'[p].primary = c[2]
                        /\ c[2] # NoPosting => posting[c[2]].status # "ABSENT"
    <3>1. CASE \E c \in rows : c[1] = p
      <4> DEFINE k == CHOOSE c \in rows : c[1] = p
      <4>1. k \in rows /\ k[1] = p
        BY <3>1
      <4>2. posting'[p] = [posting[p] EXCEPT !.primary = k[2]]
        BY <1>3, <3>1
      <4> HIDE DEF k
      <4>3. k \in regroup /\ k[2] \in MaybePosting /\ posting[p].status # "ABSENT"
        BY <1>0, <4>1
      <4>4. k[2] # NoPosting => posting[k[2]].status # "ABSENT"
        BY <1>3, <4>1
      <4>5. posting'[p] \in PostingState /\ posting'[p].primary = k[2]
            /\ posting'[p].status = posting[p].status /\ posting'[p].job = posting[p].job
        BY <1>0, <4>2, <4>3 DEF PostingState
      <4> QED
        BY <4>1, <4>3, <4>4, <4>5
    <3>2. CASE ~ \E c \in rows : c[1] = p
      <4>1. posting'[p] = posting[p]
        BY <1>3, <3>2
      <4>2. \A c \in regroup : c[1] = p => posting[p].status = "ABSENT"
        BY <3>2
      <4> QED
        BY <1>0, <4>1, <4>2
    <3> QED
      BY <3>1, <3>2
  <2>2. posting' = [p \in Postings |-> posting'[p]]
    BY <1>3
  <2> QED
    BY <1>1, <2>1, <2>2
<1> QED
  BY <1>2, <1>3 DEF RegroupWrite

\* Who a scan may find is another posting that heads its group, or nobody.
LEMMA FoundHeads ==
    ASSUME NEW p \in Postings, NEW job \in Jobs, NEW x \in FindDuplicatePrimary(p, job)
    PROVE  /\ x \in MaybePosting
           /\ x # NoPosting => /\ x \in Postings /\ x # p
                               /\ posting[x].status = "SUCCESS" /\ posting[x].primary = NoPosting
                               /\ job.title # NoKey
<1>1. CASE x = NoPosting
  BY <1>1 DEF MaybePosting
<1>2. CASE x # NoPosting
  BY <1>2 DEF FindDuplicatePrimary, MaybePosting
<1> QED
  BY <1>1, <1>2

\* What a scan's transaction takes with it from its reads.
LEMMA GroupRead ==
    ASSUME DedupTypes, NEW p \in Postings, NEW job \in Jobs, NEW complete \in BOOLEAN,
           ReadGroup(p, job, complete)
    PROVE  \E found \in FindDuplicatePrimary(p, job), s \in Storing :
              /\ s.job = job /\ s.complete = complete /\ s.loaded = posting[p].primary
              /\ s.found = found /\ s.claims = Claims(p, complete, found)
              /\ storing' = [storing EXCEPT ![p] = s]
              /\ storing' \in [Postings -> Storing \union {NoScan}]
<1>0. storing \in [Postings -> Storing \union {NoScan}] /\ posting[p].primary \in MaybePosting
  BY DEF DedupTypes, DedupTypeOK, PostingState
<1>1. PICK found \in FindDuplicatePrimary(p, job) :
        storing' = [storing EXCEPT ![p] =
           [job |-> job, complete |-> complete, loaded |-> posting[p].primary,
            found |-> found, claims |-> Claims(p, complete, found)]]
  BY DEF ReadGroup
<1> DEFINE s == [job |-> job, complete |-> complete, loaded |-> posting[p].primary,
                 found |-> found, claims |-> Claims(p, complete, found)]
<1>2. Claims(p, complete, found) \in BOOLEAN
  BY DEF Claims
<1>3. found \in MaybePosting
  BY FoundHeads
<1>4. s \in Storing
  BY <1>0, <1>2, <1>3 DEF Storing
<1>5. /\ s.job = job /\ s.complete = complete /\ s.loaded = posting[p].primary
      /\ s.found = found /\ s.claims = Claims(p, complete, found)
  OBVIOUS
<1>6. storing' = [storing EXCEPT ![p] = s]
  BY <1>1
<1> HIDE DEF s
<1>7. storing' \in [Postings -> Storing \union {NoScan}]
  BY <1>0, <1>4, <1>6
<1> QED
  BY <1>4, <1>5, <1>6, <1>7

LEMMA RegroupDecided ==
    ASSUME DedupTypes, RegroupRead
    PROVE  \E groups \in NewGroups :
              /\ groups \in [OfCompany -> MaybePosting]
              /\ regroup' = {<<p, groups[p]>> : p \in {q \in OfCompany : groups[q] # posting[q].primary}}
              /\ RegroupFits'
<1>1. PICK groups \in NewGroups :
        regroup' = {<<p, groups[p]>> : p \in {q \in OfCompany : groups[q] # posting[q].primary}}
  BY DEF RegroupRead
<1>2. groups \in [OfCompany -> MaybePosting]
  BY DEF NewGroups
<1>3. OfCompany \subseteq Postings
  BY DEF OfCompany
<1>4. \A c \in regroup' : c[1] \in OfCompany /\ c = <<c[1], groups[c[1]]>> /\ c[2] = groups[c[1]]
  BY <1>1
<1>5. RegroupFits'
  <2>1. regroup' \subseteq Postings \X MaybePosting
    BY <1>1, <1>2, <1>3
  <2> QED
    BY <1>4, <2>1 DEF RegroupFits
<1> QED
  BY <1>1, <1>2, <1>5

LEMMA DedupTypesBegin == DedupInit => DedupTypes
<1> SUFFICES ASSUME DedupInit PROVE DedupTypes
  OBVIOUS
<1> DEFINE j == CHOOSE j \in Jobs : TRUE
<1>1. ASSUME NEW p \in Postings
      PROVE  /\ posting[p].status = "ABSENT" /\ posting[p].primary = NoPosting
  BY DEF DedupInit
<1>2. posting \in [Postings -> PostingState]
  <2>1. j \in Jobs
    BY JobsAssumption
  <2>2. NoPosting \in MaybePosting
    BY DEF MaybePosting
  <2> HIDE DEF j
  <2>3. [status |-> "ABSENT", job |-> j, primary |-> NoPosting, closed |-> FALSE] \in PostingState
    BY <2>1, <2>2 DEF PostingState
  <2> QED
    BY <2>3 DEF DedupInit, j
<1>3. storing \in [Postings -> Storing \union {NoScan}]
  BY DEF DedupInit
<1> QED
  BY <1>1, <1>2, <1>3 DEF DedupInit, DedupTypes, DedupTypeOK, RegroupFits, AbsentAlone

\* No reference names a posting that is gone, whoever overlaps with the
\* deletion: the foreign key takes care of what a transaction read before it.
LEMMA DedupTypesStep == DedupTypes /\ [DedupNext]_dedupVars => DedupTypes'
<1> SUFFICES ASSUME DedupTypes, [DedupNext]_dedupVars PROVE DedupTypes'
  OBVIOUS
<1>0. /\ posting \in [Postings -> PostingState] /\ storing \in [Postings -> Storing \union {NoScan}]
      /\ raced \subseteq {"scans", "regroup"}
      /\ \A p \in Postings :
            posting[p].primary # NoPosting => posting[posting[p].primary].status # "ABSENT"
  BY DEF DedupTypes, DedupTypeOK
<1>1. CASE UNCHANGED dedupVars
  BY <1>1 DEF dedupVars, DedupTypes, DedupTypeOK, RegroupFits, AbsentAlone
<1>2. ASSUME NEW p \in Postings, NEW job \in Jobs, NEW complete \in BOOLEAN,
             ReadGroup(p, job, complete)
      PROVE  DedupTypes'
  <2>1. storing' \in [Postings -> Storing \union {NoScan}]
    BY <1>2, GroupRead
  <2>2. UNCHANGED <<posting, regroup>> /\ raced' \subseteq {"scans", "regroup"}
    BY <1>0, <1>2 DEF ReadGroup
  <2> QED
    BY <1>0, <2>1, <2>2 DEF DedupTypes, DedupTypeOK, RegroupFits, AbsentAlone
<1>3. ASSUME NEW p \in Postings, StoreGroup(p) PROVE DedupTypes'
  <2>1. /\ posting' \in [Postings -> PostingState]
        /\ storing' \in [Postings -> Storing \union {NoScan}] /\ UNCHANGED <<regroup, raced>>
    BY <1>0, <1>3, StoreCommits
  <2>2. CASE UNCHANGED posting
    BY <1>0, <2>1, <2>2 DEF DedupTypes, DedupTypeOK, RegroupFits, AbsentAlone
  <2>3. CASE Committed(p)
    <3>1. posting'[p].status # "ABSENT"
      BY <2>3 DEF Committed
    <3>2. posting'[p].primary \in MaybePosting
      BY <2>1 DEF PostingState
    <3>3. ASSUME NEW q \in Postings, posting'[q].primary # NoPosting
          PROVE  posting'[posting'[q].primary].status # "ABSENT"
      <4> DEFINE h == posting'[q].primary
      <4>1. h \in Postings
        BY <2>1, <3>3 DEF PostingState, MaybePosting
      <4>2. h = p \/ posting[h].status # "ABSENT"
        <5>1. CASE q = p
          BY <2>3, <4>1, <5>1 DEF Committed
        <5>2. CASE q # p
          BY <1>0, <2>3, <3>3, <5>2 DEF Committed
        <5> QED
          BY <5>1, <5>2
      <4> HIDE DEF h
      <4>3. posting'[h].status # "ABSENT"
        BY <2>3, <3>1, <4>1, <4>2 DEF Committed
      <4> QED
        BY <4>3 DEF h
    <3>4. AbsentAlone'
      BY <2>3, <3>1 DEF Committed, Claimed, DedupTypes, AbsentAlone
    <3> QED
      BY <1>0, <2>1, <3>3, <3>4 DEF DedupTypes, DedupTypeOK, RegroupFits
  <2> QED
    BY <1>3, <2>2, <2>3, StoreCommits
<1>4. ASSUME NEW p \in Postings, CloseOrReopen(p) PROVE DedupTypes'
  <2>1. UNCHANGED <<storing, regroup, raced>>
    BY <1>4 DEF CloseOrReopen
  <2>2. \A q \in Postings : posting'[q].status = posting[q].status /\ posting'[q].primary = posting[q].primary
    BY <1>0, <1>4 DEF CloseOrReopen, PostingState
  <2>3. posting' \in [Postings -> PostingState]
    BY <1>0, <1>4 DEF CloseOrReopen, PostingState
  <2>4. \A q \in Postings : posting[q].primary # NoPosting => posting[q].primary \in Postings
    BY <1>0 DEF PostingState, MaybePosting
  <2> QED
    BY <1>0, <2>1, <2>2, <2>3, <2>4 DEF DedupTypes, DedupTypeOK, RegroupFits, AbsentAlone
<1>5. ASSUME NEW d \in Postings, DeletePosting(d) PROVE DedupTypes'
  <2>1. /\ posting' \in [Postings -> PostingState] /\ UNCHANGED <<storing, regroup, raced>>
        /\ posting'[d].status = "ABSENT" /\ posting'[d].primary = NoPosting
        /\ \A q \in Postings \ {d} :
              /\ posting'[q].status = posting[q].status
              /\ posting'[q].primary = IF posting[q].primary = d THEN NoPosting
                                                                 ELSE posting[q].primary
    BY <1>5, Deleted
  <2>2. \A q \in Postings : posting[q].primary # NoPosting => posting[q].primary \in Postings
    BY <1>0 DEF PostingState, MaybePosting
  <2>3. ASSUME NEW q \in Postings, posting'[q].primary # NoPosting
        PROVE  posting'[posting'[q].primary].status # "ABSENT"
    BY <1>0, <2>1, <2>2, <2>3
  <2>4. AbsentAlone'
    BY <2>1 DEF DedupTypes, AbsentAlone
  <2> QED
    BY <1>0, <2>1, <2>3, <2>4 DEF DedupTypes, DedupTypeOK, RegroupFits
<1>6. CASE RegroupRead
  <2>1. RegroupFits'
    BY <1>6, RegroupDecided
  <2>2. UNCHANGED <<posting, storing>> /\ raced' \subseteq {"scans", "regroup"}
    BY <1>0, <1>6 DEF RegroupRead
  <2> QED
    BY <1>0, <2>1, <2>2 DEF DedupTypes, DedupTypeOK, AbsentAlone
<1>7. CASE RegroupWrite
  <2>1. posting' \in [Postings -> PostingState] /\ regroup' = {} /\ UNCHANGED <<storing, raced>>
    BY <1>7, Regrouped
  <2>2. RegroupFits'
    BY <2>1 DEF RegroupFits
  <2>3. CASE UNCHANGED posting
    BY <1>0, <2>1, <2>2, <2>3 DEF DedupTypes, DedupTypeOK, AbsentAlone
  <2>4. CASE \A p \in Postings :
               /\ posting'[p].status = posting[p].status
               /\ \/ posting'[p].primary = posting[p].primary
                  \/ posting[p].status # "ABSENT" /\ \E c \in regroup :
                        /\ c[1] = p /\ posting'[p].primary = c[2]
                        /\ c[2] # NoPosting => posting[c[2]].status # "ABSENT"
    <3>1. \A q \in Postings : posting'[q].primary # NoPosting => posting'[q].primary \in Postings
      BY <2>1 DEF PostingState, MaybePosting
    <3>2. ASSUME NEW q \in Postings, posting'[q].primary # NoPosting
          PROVE  posting'[posting'[q].primary].status # "ABSENT"
      BY <1>0, <2>4, <3>1, <3>2
    <3>3. AbsentAlone'
      BY <2>4 DEF DedupTypes, AbsentAlone
    <3> QED
      BY <1>0, <2>1, <2>2, <3>2, <3>3 DEF DedupTypes, DedupTypeOK
  <2> QED
    BY <1>7, <2>3, <2>4, Regrouped
<1> QED
  BY <1>1, <1>2, <1>3, <1>4, <1>5, <1>6, <1>7 DEF DedupNext

\* Every column of the postings keeps its type, and no reference ever names a
\* posting that has been deleted, whoever overlaps with the deletion.
THEOREM DedupTypesHold == DedupSpec => []DedupTypeOK
<1>1. DedupTypes => DedupTypeOK
  BY DEF DedupTypes
<1> QED
  BY <1>1, DedupTypesBegin, DedupTypesStep, PTL DEF DedupSpec

-----------------------------------------------------------------------------
(* Every group has a head.  Besides the groups themselves the invariant    *)
(* speaks of what transactions have read and not written yet: one by one,  *)
(* what a scan found still heads its group, or is gone, and what           *)
(* redo_dedup is about to write leads to heads too.                        *)

\* As long as nothing has raced, transactions take turns.
TurnsTaken ==
    raced = {} => /\ \A p, q \in Reading : p = q
                  /\ regroup # {} => Reading = {}

FoundStillHeads ==
    raced = {} => \A p \in Reading :
        LET s == storing[p]
        IN  /\ s.found # p
            /\ s.found # NoPosting => posting[s.found].primary = NoPosting
            /\ posting[p].primary \in {s.loaded, NoPosting}

\* Whether p leads out of the set, once redo_dedup has written.
LeadsOut(p, set) ==
    /\ \A c \in regroup : c[1] = p => c[2] \notin set
    /\ (\A c \in regroup : c[1] # p) => posting[p].primary \notin set

RegroupSound ==
    raced = {} => \A circle \in SUBSET Postings :
                     circle # {} => \E p \in circle : LeadsOut(p, circle)

GroupInv == DedupTypes /\ TurnsTaken /\ FoundStillHeads /\ EveryGroupHasHead /\ RegroupSound

\* Leading out of a set is all there is to it when redo_dedup is not at work.
LEMMA NothingPlanned ==
    ASSUME regroup = {}, NEW p, NEW set
    PROVE  LeadsOut(p, set) <=> posting[p].primary \notin set
  BY DEF LeadsOut

\* A step that leaves references be, or empties them.
LEMMA EmptyingKeeps ==
    ASSUME GroupInv, UNCHANGED <<storing, regroup, raced>>,
           \A p \in Postings : posting'[p].primary \in {posting[p].primary, NoPosting}
    PROVE  TurnsTaken' /\ FoundStillHeads' /\ EveryGroupHasHead' /\ RegroupSound'
<1>0. NoPosting \notin Postings
  BY PostingAssumption
<1>1. TurnsTaken'
  BY DEF GroupInv, TurnsTaken, Reading
<1>2. FoundStillHeads'
  <2> SUFFICES ASSUME raced = {}, NEW p \in Postings, storing[p] # NoScan
               PROVE  /\ storing[p].found # p
                      /\ storing[p].found # NoPosting => posting'[storing[p].found].primary = NoPosting
                      /\ posting'[p].primary \in {storing[p].loaded, NoPosting}
    BY DEF FoundStillHeads, Reading
  <2>1. /\ storing[p].found # p
        /\ storing[p].found # NoPosting => posting[storing[p].found].primary = NoPosting
        /\ posting[p].primary \in {storing[p].loaded, NoPosting}
    BY DEF GroupInv, FoundStillHeads, Reading
  <2>2. storing[p].found \in MaybePosting
    BY DEF GroupInv, DedupTypes, DedupTypeOK, Storing
  <2> QED
    BY <2>1, <2>2 DEF MaybePosting
<1>3. EveryGroupHasHead'
  <2> SUFFICES ASSUME raced = {}, NEW circle \in SUBSET Postings, circle # {}
               PROVE  \E p \in circle : posting'[p].primary \notin circle
    BY DEF EveryGroupHasHead
  <2>1. PICK p \in circle : posting[p].primary \notin circle
    BY DEF GroupInv, EveryGroupHasHead
  <2> QED
    BY <1>0, <2>1
<1>4. RegroupSound'
  <2> SUFFICES ASSUME raced = {}, NEW circle \in SUBSET Postings, circle # {}
               PROVE  \E p \in circle : LeadsOut(p, circle)'
    BY DEF RegroupSound
  <2>1. PICK p \in circle : LeadsOut(p, circle)
    BY DEF GroupInv, RegroupSound
  <2>2. LeadsOut(p, circle)'
    BY <1>0, <2>1 DEF LeadsOut
  <2> QED
    BY <2>2
<1> QED
  BY <1>1, <1>2, <1>3, <1>4

LEMMA ReadKeepsGroups ==
    ASSUME GroupInv, NEW p \in Postings, NEW job \in Jobs, NEW complete \in BOOLEAN,
           ReadGroup(p, job, complete)
    PROVE  TurnsTaken' /\ FoundStillHeads' /\ EveryGroupHasHead' /\ RegroupSound'
<1>1. UNCHANGED <<posting, regroup>> /\ raced \subseteq raced'
  BY DEF ReadGroup
<1>2. PICK found \in FindDuplicatePrimary(p, job), s \in Storing :
        /\ s.loaded = posting[p].primary /\ s.found = found
        /\ storing' = [storing EXCEPT ![p] = s]
  BY GroupRead DEF GroupInv
<1>3. /\ storing \in [Postings -> Storing \union {NoScan}]
      /\ \A q \in Postings : storing'[q] = IF q = p THEN s ELSE storing[q]
  BY <1>2 DEF GroupInv, DedupTypes, DedupTypeOK
<1>4. raced' = {} => raced = {} /\ Reading = {} /\ regroup = {} /\ Reading' = {p}
  <2>1. raced' = {} => raced = {} /\ Reading = {} /\ regroup = {}
    BY DEF ReadGroup
  <2>2. Reading = {} => \A q \in Postings : storing[q] = NoScan
    BY DEF Reading
  <2>3. s # NoScan
    BY <1>2, NoScanApart
  <2> QED
    BY <1>3, <2>1, <2>2, <2>3 DEF Reading
<1>5. TurnsTaken'
  BY <1>1, <1>4 DEF TurnsTaken
<1>6. FoundStillHeads'
  <2> SUFFICES ASSUME raced' = {}
               PROVE  /\ s.found # p
                      /\ s.found # NoPosting => posting[s.found].primary = NoPosting
                      /\ posting[p].primary \in {s.loaded, NoPosting}
    BY <1>1, <1>3, <1>4 DEF FoundStillHeads
  <2> QED
    BY <1>2, FoundHeads, PostingAssumption
<1>7. EveryGroupHasHead'
  BY <1>1, <1>4 DEF GroupInv, EveryGroupHasHead
<1>8. RegroupSound'
  BY <1>1, <1>4 DEF GroupInv, RegroupSound, LeadsOut
<1> QED
  BY <1>5, <1>6, <1>7, <1>8

LEMMA StoreKeepsGroups ==
    ASSUME GroupInv, NEW p \in Postings, StoreGroup(p)
    PROVE  TurnsTaken' /\ FoundStillHeads' /\ EveryGroupHasHead' /\ RegroupSound'
<1> DEFINE s == storing[p]
<1>1. /\ p \in Reading /\ s \in Storing /\ storing' = [storing EXCEPT ![p] = NoScan]
      /\ UNCHANGED <<regroup, raced>> /\ (UNCHANGED posting \/ Committed(p))
  BY StoreCommits DEF GroupInv
<1>2. raced = {} => Reading = {p} /\ regroup = {} /\ Reading' = {}
  <2>1. raced = {} => Reading = {p} /\ regroup = {}
    BY <1>1 DEF GroupInv, TurnsTaken
  <2>2. \A q \in Postings : storing'[q] = IF q = p THEN NoScan ELSE storing[q]
    BY <1>1 DEF GroupInv, DedupTypes, DedupTypeOK
  <2>3. Reading = {p} => Reading' = {}
    BY <2>2 DEF Reading
  <2> QED
    BY <1>1, <2>1, <2>3
<1>3. TurnsTaken' /\ FoundStillHeads'
  BY <1>1, <1>2 DEF TurnsTaken, FoundStillHeads
<1>4. ASSUME raced = {}, NEW circle \in SUBSET Postings, circle # {}
      PROVE  \E q \in circle : posting'[q].primary \notin circle
  <2>1. PICK q \in circle : posting[q].primary \notin circle
    BY <1>4 DEF GroupInv, EveryGroupHasHead
  <2>2. CASE UNCHANGED posting
    BY <2>1, <2>2
  <2>3. CASE Committed(p)
    <3>1. /\ s.found # p /\ s.found \in MaybePosting
          /\ s.found # NoPosting => posting[s.found].primary = NoPosting
          /\ posting[p].primary \in {s.loaded, NoPosting}
      BY <1>1, <1>4 DEF GroupInv, FoundStillHeads, Storing
    <3>2. /\ posting'[p].primary = IF NewPrimary(p) = s.loaded THEN posting[p].primary
                                                              ELSE NewPrimary(p)
          /\ \A x \in Postings \ {p} :
                posting'[x].primary = IF x \in Claimed(p) THEN p ELSE posting[x].primary
      BY <2>3 DEF Committed
    <3>3. NoPosting \notin circle /\ circle \subseteq Postings
      BY PostingAssumption
    <3>4. CASE p \notin circle
      <4>1. CASE \E x \in circle : x \in Claimed(p)
        BY <3>2, <3>3, <3>4, <4>1
      <4>2. CASE \A x \in circle : x \notin Claimed(p)
        BY <2>1, <3>2, <3>3, <3>4, <4>2
      <4> QED
        BY <4>1, <4>2
    <3>5. CASE p \in circle /\ s.claims
      <4>1. posting'[p].primary = NoPosting
        BY <3>1, <3>2, <3>5 DEF NewPrimary
      <4> QED
        BY <3>3, <3>5, <4>1
    <3>6. CASE p \in circle /\ ~s.claims
      <4>1. Claimed(p) = {} /\ NewPrimary(p) = s.found
        BY <3>6 DEF Claimed, NewPrimary
      <4>2. posting'[p].primary \in {s.found, NoPosting}
        BY <3>1, <3>2, <4>1
      <4>3. CASE s.found \in circle
        <5>1. posting'[s.found].primary = NoPosting
          BY <3>1, <3>2, <3>3, <4>1, <4>3
        <5> QED
          BY <3>3, <4>3, <5>1
      <4>4. CASE s.found \notin circle
        BY <3>3, <3>6, <4>2, <4>4
      <4> QED
        BY <4>3, <4>4
    <3> QED
      BY <3>4, <3>5, <3>6
  <2> QED
    BY <1>1, <2>2, <2>3
<1>5. EveryGroupHasHead'
  BY <1>1, <1>4 DEF EveryGroupHasHead
<1>6. RegroupSound'
  <2> SUFFICES ASSUME raced = {}, NEW circle \in SUBSET Postings, circle # {}
               PROVE  \E q \in circle : LeadsOut(q, circle)'
    BY <1>1 DEF RegroupSound
  <2>1. PICK q \in circle : posting'[q].primary \notin circle
    BY <1>4
  <2>2. regroup' = {}
    BY <1>1, <1>2
  <2>3. LeadsOut(q, circle)'
    BY <2>1, <2>2 DEF LeadsOut
  <2> QED
    BY <2>3
<1> QED
  BY <1>3, <1>5, <1>6

\* What redo_dedup decides leads every posting to a head.
LEMMA DecisionSound ==
    ASSUME GroupInv, raced = {}, NEW groups \in NewGroups,
           NEW circle \in SUBSET Postings, circle # {}
    PROVE  \E p \in circle :
              (IF p \in OfCompany THEN groups[p] ELSE posting[p].primary) \notin circle
<1> DEFINE to(p) == IF p \in OfCompany THEN groups[p] ELSE posting[p].primary
<1>0. /\ Matched \subseteq OfCompany /\ OfCompany \subseteq Postings
      /\ NoPosting \notin circle /\ NoPosting \notin Postings
  BY PostingAssumption DEF Matched, OfCompany
<1>1. \A p \in Matched :
         groups[p] # NoPosting => groups[p] \in Matched /\ groups[groups[p]] = NoPosting
  <2>1. \A p \in Matched : JoinsFirst(groups, p)
    BY DEF NewGroups
  <2> QED
    BY <2>1 DEF JoinsFirst
<1>2. \A p \in OfCompany \ Matched :
         LET old == posting[p].primary
         IN  \/ groups[p] = old
             \/ old \in OfCompany /\ groups[p] = groups[old]
  <2>1. PICK turn : \A p \in OfCompany \ Matched : Follows(groups, turn, p)
    BY DEF NewGroups
  <2> QED
    BY <2>1 DEF Follows
<1> SUFFICES ASSUME \A p \in circle : to(p) \in circle PROVE FALSE
  OBVIOUS
<1>3. circle \cap Matched = {}
  <2> SUFFICES ASSUME NEW p \in circle, p \in Matched PROVE FALSE
    OBVIOUS
  <2>1. groups[p] \in circle
    BY <1>0
  <2>2. groups[p] \in Matched /\ groups[groups[p]] = NoPosting
    BY <1>0, <1>1, <2>1
  <2>3. groups[groups[p]] \in circle
    BY <1>0, <2>1, <2>2
  <2> QED
    BY <1>0, <2>2, <2>3
<1> DEFINE led == {p \in Postings \ Matched : to(p) \in circle}
<1>4. circle \subseteq led /\ led # {} /\ led \subseteq Postings
  BY <1>3
<1>5. ASSUME NEW p \in led PROVE posting[p].primary \in led
  <2> DEFINE old == posting[p].primary
  <2>0. p \in Postings /\ p \notin Matched /\ to(p) \in circle
    OBVIOUS
  <2>1. CASE p \notin OfCompany
    BY <1>4, <2>0, <2>1
  <2>2. CASE p \in OfCompany /\ groups[p] = old
    BY <1>4, <2>0, <2>2
  <2>3. CASE p \in OfCompany /\ old \in OfCompany /\ groups[p] = groups[old]
    <3>1. groups[old] \in circle
      BY <2>0, <2>3
    <3>2. old \notin Matched
      BY <1>0, <1>1, <1>3, <3>1
    <3> QED
      BY <1>0, <2>3, <3>1, <3>2
  <2> QED
    BY <1>2, <2>0, <2>1, <2>2, <2>3
<1> HIDE DEF led
<1>6. PICK p \in led : posting[p].primary \notin led
  BY <1>4 DEF GroupInv, EveryGroupHasHead
<1> QED
  BY <1>5, <1>6

LEMMA DecidingKeepsGroups ==
    ASSUME GroupInv, RegroupRead
    PROVE  TurnsTaken' /\ FoundStillHeads' /\ EveryGroupHasHead' /\ RegroupSound'
<1>1. /\ UNCHANGED <<posting, storing>> /\ raced \subseteq raced' /\ regroup = {}
      /\ raced' = {} => Reading = {}
  BY DEF RegroupRead
<1>2. raced' = {} => raced = {}
  BY <1>1
<1>3. TurnsTaken'
  BY <1>1, <1>2 DEF TurnsTaken, Reading
<1>4. FoundStillHeads'
  BY <1>1, <1>2 DEF GroupInv, FoundStillHeads, Reading
<1>5. EveryGroupHasHead'
  BY <1>1, <1>2 DEF GroupInv, EveryGroupHasHead
<1>6. RegroupSound'
  <2> SUFFICES ASSUME raced' = {}, NEW circle \in SUBSET Postings, circle # {}
               PROVE  \E p \in circle : LeadsOut(p, circle)'
    BY DEF RegroupSound
  <2>1. PICK groups \in NewGroups :
          /\ groups \in [OfCompany -> MaybePosting]
          /\ regroup' = {<<p, groups[p]>> : p \in {q \in OfCompany : groups[q] # posting[q].primary}}
    BY RegroupDecided DEF GroupInv
  <2>2. PICK p \in circle :
          (IF p \in OfCompany THEN groups[p] ELSE posting[p].primary) \notin circle
    BY <1>2, DecisionSound
  <2>3. \A c \in regroup' : c[1] \in OfCompany /\ c[2] = groups[c[1]]
    BY <2>1
  <2>4. p \in OfCompany /\ (\A c \in regroup' : c[1] # p) => groups[p] = posting[p].primary
    <3>1. ASSUME p \in OfCompany, groups[p] # posting[p].primary
          PROVE  \E c \in regroup' : c[1] = p
      <4>1. <<p, groups[p]>> \in regroup'
        BY <2>1, <3>1
      <4> QED
        BY <4>1
    <3> QED
      BY <3>1
  <2>5. LeadsOut(p, circle)'
    BY <1>1, <2>2, <2>3, <2>4 DEF LeadsOut
  <2> QED
    BY <2>5
<1> QED
  BY <1>3, <1>4, <1>5, <1>6

LEMMA WritingKeepsGroups ==
    ASSUME GroupInv, RegroupWrite
    PROVE  TurnsTaken' /\ FoundStillHeads' /\ EveryGroupHasHead' /\ RegroupSound'
<1>1. /\ regroup' = {} /\ UNCHANGED <<storing, raced>>
      /\ \/ UNCHANGED posting
         \/ \A p \in Postings :
               \/ posting'[p].primary = posting[p].primary
                     /\ \A c \in regroup : c[1] = p => posting[p].status = "ABSENT"
               \/ \E c \in regroup : c[1] = p /\ posting'[p].primary = c[2]
  BY Regrouped DEF GroupInv
<1>2. raced = {} => Reading = {} /\ Reading' = {}
  BY <1>1 DEF GroupInv, TurnsTaken, RegroupWrite, Reading
<1>3. TurnsTaken' /\ FoundStillHeads'
  BY <1>1, <1>2 DEF TurnsTaken, FoundStillHeads
<1>4. ASSUME raced = {}, NEW circle \in SUBSET Postings, circle # {}
      PROVE  \E p \in circle : posting'[p].primary \notin circle
  <2>1. CASE UNCHANGED posting
    BY <1>4, <2>1 DEF GroupInv, EveryGroupHasHead
  <2>2. CASE ~ UNCHANGED posting
    <3>1. PICK p \in circle : LeadsOut(p, circle)
      BY <1>4 DEF GroupInv, RegroupSound
    <3>2. CASE \E c \in regroup : c[1] = p /\ posting'[p].primary = c[2]
      BY <3>1, <3>2 DEF LeadsOut
    <3>3. CASE /\ posting'[p].primary = posting[p].primary
               /\ \A c \in regroup : c[1] = p => posting[p].status = "ABSENT"
      <4>1. CASE \A c \in regroup : c[1] # p
        BY <3>1, <3>3, <4>1 DEF LeadsOut
      <4>2. CASE posting[p].status = "ABSENT"
        BY <3>3, <4>2, PostingAssumption DEF GroupInv, DedupTypes, AbsentAlone
      <4> QED
        BY <3>3, <4>1, <4>2
    <3> QED
      BY <1>1, <2>2, <3>2, <3>3
  <2> QED
    BY <2>1, <2>2
<1>5. EveryGroupHasHead'
  BY <1>1, <1>4 DEF EveryGroupHasHead
<1>6. RegroupSound'
  <2> SUFFICES ASSUME raced = {}, NEW circle \in SUBSET Postings, circle # {}
               PROVE  \E p \in circle : LeadsOut(p, circle)'
    BY <1>1 DEF RegroupSound
  <2>1. PICK p \in circle : posting'[p].primary \notin circle
    BY <1>4
  <2>2. LeadsOut(p, circle)'
    BY <1>1, <2>1 DEF LeadsOut
  <2> QED
    BY <2>2
<1> QED
  BY <1>3, <1>5, <1>6

LEMMA GroupsBegin == DedupInit => GroupInv
<1> SUFFICES ASSUME DedupInit PROVE GroupInv
  OBVIOUS
<1>1. \A p \in Postings : posting[p].primary = NoPosting
  BY DEF DedupInit
<1>2. Reading = {} /\ regroup = {}
  BY DEF DedupInit, Reading
<1>3. TurnsTaken /\ FoundStillHeads
  BY <1>2 DEF TurnsTaken, FoundStillHeads
<1>4. EveryGroupHasHead
  BY <1>1, PostingAssumption DEF EveryGroupHasHead
<1>5. RegroupSound
  BY <1>1, <1>2, PostingAssumption DEF RegroupSound, LeadsOut
<1> QED
  BY <1>3, <1>4, <1>5, DedupTypesBegin DEF GroupInv

LEMMA GroupsStep == GroupInv /\ [DedupNext]_dedupVars => GroupInv'
<1> SUFFICES ASSUME GroupInv, [DedupNext]_dedupVars PROVE GroupInv'
  OBVIOUS
<1> DEFINE Rest == TurnsTaken /\ FoundStillHeads /\ EveryGroupHasHead /\ RegroupSound
<1>0. DedupTypes'
  BY DedupTypesStep DEF GroupInv
<1>1. CASE UNCHANGED dedupVars
  BY <1>0, <1>1, EmptyingKeeps DEF dedupVars, GroupInv
<1>2. ASSUME NEW p \in Postings, CloseOrReopen(p) PROVE Rest'
  <2>1. UNCHANGED <<storing, regroup, raced>>
    BY <1>2 DEF CloseOrReopen
  <2>2. \A q \in Postings : posting'[q].primary = posting[q].primary
    BY <1>2 DEF CloseOrReopen, GroupInv, DedupTypes, DedupTypeOK, PostingState
  <2> QED
    BY <2>1, <2>2, EmptyingKeeps
<1>3. ASSUME NEW p \in Postings, DeletePosting(p) PROVE Rest'
  <2>1. UNCHANGED <<storing, regroup, raced>>
    BY <1>3, Deleted DEF GroupInv
  <2>2. \A q \in Postings : posting'[q].primary \in {posting[q].primary, NoPosting}
    BY <1>3, Deleted DEF GroupInv
  <2> QED
    BY <2>1, <2>2, EmptyingKeeps
<1> QED
  BY <1>0, <1>1, <1>2, <1>3, ReadKeepsGroups, StoreKeepsGroups, DecidingKeepsGroups,
     WritingKeepsGroups DEF DedupNext, GroupInv

\* As long as transactions on groups take turns, every duplicate leads to a
\* head, however postings are rescanned, taken over, closed, deleted and
\* regrouped in between: no job is lost in a circle of duplicates.
THEOREM DuplicatesLeadToHeads == DedupSpec => []EveryGroupHasHead
<1>1. GroupInv => EveryGroupHasHead
  BY DEF GroupInv
<1> QED
  BY <1>1, GroupsBegin, GroupsStep, PTL DEF DedupSpec

-----------------------------------------------------------------------------
(* The company's own copy comes first.  Scans may overlap here, so a scan  *)
(* may find that others have written its posting's reference meanwhile:    *)
(* only ever to take it over for an official copy, or to empty it.         *)

\* What another official copy took over points at a complete one.
OfficialHead(h) == h # NoPosting => Official[h] /\ posting[h].status = "SUCCESS"

ClaimsStand ==
    "regroup" \notin raced =>
        /\ regroup # {} => Reading = {}
        /\ \A p \in Reading :
              LET s == storing[p]
              IN  /\ s.claims = Claims(p, s.complete, s.found)
                  /\ posting[p].status = "SUCCESS" => s.complete
                  /\ posting[p].primary = s.loaded \/ OfficialHead(posting[p].primary)
                  /\ s.job.title = NoKey => s.found = NoPosting

\* One that could not be matched by its title was taken over by a complete one.
UnmatchedStand ==
    "regroup" \notin raced =>
        \A p \in Postings :
            /\ Official[p] /\ posting[p].status = "SUCCESS" /\ posting[p].job.title = NoKey
            => OfficialHead(posting[p].primary)

RegroupOfficial ==
    "regroup" \notin raced =>
        \A c \in regroup :
            /\ Official[c[1]] /\ posting[c[1]].status = "SUCCESS" /\ c[2] # NoPosting
            => Official[c[2]] /\ posting[c[2]].status # "HIDDEN"

OfficialInv == DedupTypes /\ OfficialFirst /\ ClaimsStand /\ UnmatchedStand /\ RegroupOfficial

Officially == OfficialFirst /\ ClaimsStand /\ UnmatchedStand /\ RegroupOfficial

LEMMA StatusesOf ==
    ASSUME DedupTypes, NEW p \in Postings
    PROVE  /\ posting[p].status \in {"ABSENT", "SUCCESS", "HIDDEN"}
           /\ posting[p].primary # NoPosting => posting[p].primary \in Postings
  BY DEF DedupTypes, DedupTypeOK, PostingState, MaybePosting

\* A step that leaves the postings be but for what is closed.
LEMMA ClosingKeepsOfficial ==
    ASSUME OfficialInv, UNCHANGED <<storing, regroup, raced>>,
           \A p \in Postings :
              /\ posting'[p].status = posting[p].status /\ posting'[p].job = posting[p].job
              /\ posting'[p].primary = posting[p].primary
    PROVE  Officially'
<1>1. OfficialFirst'
  BY DEF OfficialInv, OfficialFirst, IsHead
<1>2. \A p \in Postings : OfficialHead(posting[p].primary) => OfficialHead(posting[p].primary)'
  BY StatusesOf DEF OfficialInv, OfficialHead
<1>3. ClaimsStand'
  BY <1>2 DEF OfficialInv, ClaimsStand, Reading, Claims, OfficialHead
<1>4. UnmatchedStand'
  BY <1>2 DEF OfficialInv, UnmatchedStand, OfficialHead
<1>5. RegroupOfficial'
  <2>1. \A c \in regroup : c[1] \in Postings /\ (c[2] # NoPosting => c[2] \in Postings)
    BY DEF OfficialInv, DedupTypes, RegroupFits, MaybePosting
  <2> QED
    BY <2>1 DEF OfficialInv, RegroupOfficial
<1> QED
  BY <1>1, <1>3, <1>4, <1>5 DEF Officially

LEMMA DeletingKeepsOfficial ==
    ASSUME OfficialInv, NEW d \in Postings, DeletePosting(d) PROVE Officially'
<1>1. /\ UNCHANGED <<storing, regroup, raced>> /\ storing[d] = NoScan
      /\ posting'[d].status = "ABSENT" /\ posting'[d].primary = NoPosting
      /\ \A q \in Postings \ {d} :
            /\ posting'[q].status = posting[q].status /\ posting'[q].job = posting[q].job
            /\ posting'[q].primary = IF posting[q].primary = d THEN NoPosting
                                                               ELSE posting[q].primary
  BY Deleted DEF OfficialInv
<1>2. OfficialFirst'
  BY <1>1 DEF OfficialInv, OfficialFirst, IsHead
<1>3. ASSUME NEW q \in Postings, OfficialHead(posting[q].primary)
      PROVE  OfficialHead(posting[q].primary)'
  <2>1. CASE posting'[q].primary = NoPosting
    BY <2>1 DEF OfficialHead
  <2>2. CASE posting'[q].primary # NoPosting
    <3> DEFINE h == posting[q].primary
    <3>1. posting'[q].primary = h /\ h \in Postings \ {d}
      BY <1>1, <2>2, StatusesOf DEF OfficialInv
    <3>2. Official[h] /\ posting[h].status = "SUCCESS"
      BY <1>3, <2>2, <3>1 DEF OfficialHead
    <3> HIDE DEF h
    <3>3. posting'[h].status = "SUCCESS"
      BY <1>1, <3>1, <3>2
    <3> QED
      BY <3>1, <3>2, <3>3 DEF OfficialHead
  <2> QED
    BY <2>1, <2>2
<1>4. ClaimsStand'
  <2> SUFFICES ASSUME "regroup" \notin raced
               PROVE  /\ regroup # {} => Reading = {}
                      /\ \A p \in Reading :
                            LET s == storing[p]
                            IN  /\ s.claims = Claims(p, s.complete, s.found)
                                /\ posting'[p].status = "SUCCESS" => s.complete
                                /\ posting'[p].primary = s.loaded \/ OfficialHead(posting[p].primary)'
                                /\ s.job.title = NoKey => s.found = NoPosting
    BY <1>1 DEF ClaimsStand, Reading, Claims
  <2>1. regroup # {} => Reading = {}
    BY DEF OfficialInv, ClaimsStand
  <2>2. ASSUME NEW p \in Reading
        PROVE  LET s == storing[p]
               IN  /\ s.claims = Claims(p, s.complete, s.found)
                   /\ posting'[p].status = "SUCCESS" => s.complete
                   /\ posting'[p].primary = s.loaded \/ OfficialHead(posting[p].primary)'
                   /\ s.job.title = NoKey => s.found = NoPosting
    <3>1. p \in Postings /\ p # d
      BY <1>1 DEF Reading
    <3>2. /\ storing[p].claims = Claims(p, storing[p].complete, storing[p].found)
          /\ posting[p].status = "SUCCESS" => storing[p].complete
          /\ posting[p].primary = storing[p].loaded \/ OfficialHead(posting[p].primary)
          /\ storing[p].job.title = NoKey => storing[p].found = NoPosting
      BY DEF OfficialInv, ClaimsStand
    <3>3. posting'[p].primary = storing[p].loaded \/ OfficialHead(posting[p].primary)'
      <4>1. CASE posting'[p].primary = posting[p].primary
        BY <1>3, <3>1, <3>2, <4>1
      <4>2. CASE posting'[p].primary = NoPosting
        BY <4>2 DEF OfficialHead
      <4> QED
        BY <1>1, <3>1, <4>1, <4>2
    <3> QED
      BY <1>1, <3>1, <3>2, <3>3
  <2> QED
    BY <2>1, <2>2
<1>5. UnmatchedStand'
  BY <1>1, <1>3 DEF OfficialInv, UnmatchedStand
<1>6. RegroupOfficial'
  <2>1. \A c \in regroup : c[1] \in Postings /\ (c[2] # NoPosting => c[2] \in Postings)
    BY DEF OfficialInv, DedupTypes, RegroupFits, MaybePosting
  <2> QED
    BY <1>1, <2>1 DEF OfficialInv, RegroupOfficial
<1> QED
  BY <1>2, <1>4, <1>5, <1>6 DEF Officially

LEMMA ReadingKeepsOfficial ==
    ASSUME OfficialInv, NEW p \in Postings, NEW job \in Jobs, NEW complete \in BOOLEAN,
           ReadGroup(p, job, complete)
    PROVE  Officially'
<1>1. /\ UNCHANGED <<posting, regroup>> /\ raced \subseteq raced'
      /\ posting[p].status = "SUCCESS" => complete
      /\ "regroup" \notin raced' => "regroup" \notin raced /\ regroup = {}
  BY DEF ReadGroup
<1>2. PICK found \in FindDuplicatePrimary(p, job), s \in Storing :
        /\ s.job = job /\ s.complete = complete /\ s.loaded = posting[p].primary
        /\ s.found = found /\ s.claims = Claims(p, complete, found)
        /\ storing' = [storing EXCEPT ![p] = s]
  BY GroupRead DEF OfficialInv
<1>3. \A q \in Postings : storing'[q] = IF q = p THEN s ELSE storing[q]
  BY <1>2 DEF OfficialInv, DedupTypes, DedupTypeOK
<1>4. OfficialFirst' /\ UnmatchedStand' /\ RegroupOfficial'
  BY <1>1 DEF OfficialInv, OfficialFirst, IsHead, UnmatchedStand, RegroupOfficial, OfficialHead
<1>5. ClaimsStand'
  <2>1. s.job.title = NoKey => s.found = NoPosting
    BY <1>2, FoundHeads
  <2>2. Reading' \subseteq Reading \union {p}
    BY <1>3 DEF Reading
  <2>3. ASSUME NEW q \in Reading', "regroup" \notin raced'
        PROVE  /\ storing'[q].claims = Claims(q, storing'[q].complete, storing'[q].found)
               /\ posting'[q].status = "SUCCESS" => storing'[q].complete
               /\ posting'[q].primary = storing'[q].loaded \/ OfficialHead(posting[q].primary)
               /\ storing'[q].job.title = NoKey => storing'[q].found = NoPosting
    <3>1. CASE q = p
      <4>1. storing'[q] = s
        BY <1>3, <3>1
      <4> QED
        BY <1>1, <1>2, <2>1, <3>1, <4>1
    <3>2. CASE q # p
      <4>1. q \in Reading /\ storing'[q] = storing[q]
        BY <1>3, <2>2, <3>2 DEF Reading
      <4> QED
        BY <1>1, <2>3, <4>1 DEF OfficialInv, ClaimsStand
    <3> QED
      BY <3>1, <3>2
  <2>4. \A q \in Postings : OfficialHead(posting[q].primary)' <=> OfficialHead(posting[q].primary)
    BY <1>1 DEF OfficialHead
  <2>5. \A q, c, x : Claims(q, c, x)' <=> Claims(q, c, x)
    BY DEF Claims
  <2>6. Reading' \subseteq Postings
    BY DEF Reading
  <2> QED
    BY <1>1, <2>3, <2>4, <2>6 DEF ClaimsStand, Claims
<1> QED
  BY <1>4, <1>5 DEF Officially

LEMMA StoringKeepsOfficial ==
    ASSUME OfficialInv, NEW p \in Postings, StoreGroup(p) PROVE Officially'
<1> DEFINE s == storing[p]
<1>1. /\ p \in Reading /\ s \in Storing /\ storing' = [storing EXCEPT ![p] = NoScan]
      /\ UNCHANGED <<regroup, raced>> /\ (UNCHANGED posting \/ Committed(p))
  BY StoreCommits DEF OfficialInv
<1>2. \A q \in Postings : storing'[q] = IF q = p THEN NoScan ELSE storing[q]
  BY <1>1 DEF OfficialInv, DedupTypes, DedupTypeOK
<1>3. Reading' = Reading \ {p}
  BY <1>2 DEF Reading
<1> SUFFICES ASSUME "regroup" \notin raced PROVE Officially'
  BY <1>1 DEF Officially, OfficialFirst, ClaimsStand, UnmatchedStand, RegroupOfficial
<1>4. /\ regroup = {}
      /\ s.claims = Claims(p, s.complete, s.found)
      /\ posting[p].status = "SUCCESS" => s.complete
      /\ posting[p].primary = s.loaded \/ OfficialHead(posting[p].primary)
      /\ s.job.title = NoKey => s.found = NoPosting
  BY <1>1 DEF OfficialInv, ClaimsStand
<1>5. RegroupOfficial'
  BY <1>1, <1>4 DEF RegroupOfficial
<1>6. CASE UNCHANGED posting
  <2>1. OfficialFirst' /\ UnmatchedStand'
    BY <1>1, <1>6 DEF OfficialInv, OfficialFirst, IsHead, UnmatchedStand, OfficialHead
  <2>2. ClaimsStand'
    <3>1. \A q \in Reading' : q \in Reading /\ q \in Postings /\ storing'[q] = storing[q]
      BY <1>2, <1>3 DEF Reading
    <3>2. \A q \in Postings : OfficialHead(posting[q].primary)' <=> OfficialHead(posting[q].primary)
      BY <1>6 DEF OfficialHead
    <3>3. ASSUME NEW q \in Reading'
          PROVE  /\ storing'[q].claims = Claims(q, storing'[q].complete, storing'[q].found)
                 /\ posting'[q].status = "SUCCESS" => storing'[q].complete
                 /\ posting'[q].primary = storing'[q].loaded \/ OfficialHead(posting[q].primary)'
                 /\ storing'[q].job.title = NoKey => storing'[q].found = NoPosting
      BY <1>6, <3>1, <3>2 DEF OfficialInv, ClaimsStand
    <3> QED
      BY <1>1, <1>4, <3>3 DEF ClaimsStand, Claims
  <2> QED
    BY <1>5, <2>1, <2>2 DEF Officially
<1>7. CASE Committed(p)
  <2>1. /\ posting'[p].status = (IF s.complete THEN "SUCCESS" ELSE "HIDDEN")
        /\ posting'[p].job = s.job
        /\ posting'[p].primary = IF NewPrimary(p) = s.loaded THEN posting[p].primary
                                                             ELSE NewPrimary(p)
        /\ \A q \in Postings \ {p} :
              /\ posting'[q].status = posting[q].status
              /\ posting'[q].job = posting[q].job
              /\ posting'[q].primary = IF q \in Claimed(p) THEN p ELSE posting[q].primary
    BY <1>7 DEF Committed
  <2>2. /\ s.claims => Official[p] /\ s.complete
        /\ Official[p] /\ s.complete /\ ~s.claims /\ s.found # NoPosting => Official[s.found]
        /\ s.found = NoPosting => ~s.claims
    BY <1>4 DEF Claims
  <2>3. \A q \in Claimed(p) : s.claims
    BY DEF Claimed
  <2>4. posting'[p].status = "SUCCESS" <=> s.complete
    BY <2>1
  <2>5. ASSUME NEW q \in Postings, OfficialHead(posting[q].primary)
        PROVE  posting[q].primary # NoPosting =>
                  Official[posting[q].primary] /\ posting'[posting[q].primary].status = "SUCCESS"
    BY <1>4, <2>1, <2>5, StatusesOf DEF OfficialHead, OfficialInv
  <2>6. Official[p] /\ s.complete /\ posting'[p].primary # NoPosting => Official[posting'[p].primary]
    BY <1>4, <2>1, <2>2 DEF NewPrimary, OfficialHead
  <2>7. OfficialFirst'
    <3> SUFFICES ASSUME NEW q \in Postings, Official[q], posting'[q].status = "SUCCESS",
                        posting'[q].primary # NoPosting
                 PROVE  Official[posting'[q].primary]
      BY DEF OfficialFirst, IsHead
    <3>1. CASE q = p
      BY <2>4, <2>6, <3>1
    <3>2. CASE q # p /\ q \in Claimed(p)
      BY <2>1, <2>2, <2>3, <3>2
    <3>3. CASE q # p /\ q \notin Claimed(p)
      BY <2>1, <3>3 DEF OfficialInv, OfficialFirst, IsHead
    <3> QED
      BY <3>1, <3>2, <3>3
  <2>8. ASSUME NEW q \in Postings, q # p, posting'[q].primary = posting[q].primary,
               OfficialHead(posting[q].primary)
        PROVE  OfficialHead(posting[q].primary)'
    BY <2>5, <2>8 DEF OfficialHead
  <2>9. ASSUME NEW q \in Postings, q # p, q \in Claimed(p)
        PROVE  OfficialHead(posting[q].primary)'
    <3>1. posting'[q].primary = p
      BY <2>1, <2>9
    <3> QED
      BY <2>2, <2>3, <2>4, <2>9, <3>1 DEF OfficialHead
  <2>10. UnmatchedStand'
    <3> SUFFICES ASSUME NEW q \in Postings, Official[q], posting'[q].status = "SUCCESS",
                        posting'[q].job.title = NoKey
                 PROVE  OfficialHead(posting[q].primary)'
      BY DEF UnmatchedStand
    <3>1. CASE q = p
      <4>1. s.found = NoPosting /\ NewPrimary(p) = NoPosting
        BY <1>4, <2>1, <2>2, <3>1 DEF NewPrimary
      <4>2. CASE s.loaded = NoPosting
        <5>1. posting'[p].primary = posting[p].primary /\ OfficialHead(posting[p].primary)
          BY <1>4, <2>1, <4>1, <4>2 DEF OfficialHead
        <5> QED
          BY <2>5, <3>1, <5>1 DEF OfficialHead
      <4>3. CASE s.loaded # NoPosting
        BY <2>1, <3>1, <4>1, <4>3 DEF OfficialHead
      <4> QED
        BY <4>2, <4>3
    <3>2. CASE q # p /\ q \in Claimed(p)
      BY <2>9, <3>2
    <3>3. CASE q # p /\ q \notin Claimed(p)
      <4>1. OfficialHead(posting[q].primary) /\ posting'[q].primary = posting[q].primary
        BY <2>1, <3>3 DEF OfficialInv, UnmatchedStand
      <4> QED
        BY <2>8, <3>3, <4>1
    <3> QED
      BY <3>1, <3>2, <3>3
  <2>11. ClaimsStand'
    <3>1. regroup' = {}
      BY <1>1, <1>4
    <3>2. ASSUME NEW q \in Reading, q # p
          PROVE  /\ q \in Postings /\ storing'[q] = storing[q]
                 /\ storing[q].claims = Claims(q, storing[q].complete, storing[q].found)
                 /\ posting'[q].status = "SUCCESS" => storing[q].complete
                 /\ posting'[q].primary = storing[q].loaded \/ OfficialHead(posting[q].primary)'
                 /\ storing[q].job.title = NoKey => storing[q].found = NoPosting
      <4>0. q \in Postings
        BY DEF Reading
      <4>1. /\ storing[q].claims = Claims(q, storing[q].complete, storing[q].found)
            /\ posting[q].status = "SUCCESS" => storing[q].complete
            /\ posting[q].primary = storing[q].loaded \/ OfficialHead(posting[q].primary)
            /\ storing[q].job.title = NoKey => storing[q].found = NoPosting
        BY DEF OfficialInv, ClaimsStand
      <4>2. posting'[q].primary = storing[q].loaded \/ OfficialHead(posting[q].primary)'
        <5>1. CASE q \in Claimed(p)
          BY <2>9, <3>2, <4>0, <5>1
        <5>2. CASE q \notin Claimed(p)
          <6>1. posting'[q].primary = posting[q].primary
            BY <2>1, <3>2, <4>0, <5>2
          <6> QED
            BY <2>8, <3>2, <4>0, <4>1, <6>1
        <5> QED
          BY <5>1, <5>2
      <4> QED
        BY <1>2, <2>1, <3>2, <4>0, <4>1, <4>2
    <3> QED
      BY <1>3, <3>1, <3>2 DEF ClaimsStand, Claims
  <2> QED
    BY <1>5, <2>7, <2>10, <2>11 DEF Officially
<1> QED
  BY <1>1, <1>6, <1>7

-----------------------------------------------------------------------------
\* The one whose turn comes first.
LEMMA FirstOfTurns ==
    ASSUME NEW T, T \subseteq Nat, T # {}
    PROVE  \E n \in T : \A m \in T : ~(m < n)
<1> DEFINE upTo == {1 .. n : n \in T}
<1>1. upTo \subseteq FiniteSubsetsOf(Int) /\ upTo # {}
  <2>1. ASSUME NEW n \in T PROVE 1 .. n \in FiniteSubsetsOf(Int)
    <3>1. n \in Int /\ 1 .. n \subseteq Int
      OBVIOUS
    <3>2. IsFiniteSet(1 .. n)
      BY <3>1, FS_Interval
    <3> QED
      BY <3>1, <3>2 DEF FiniteSubsetsOf
  <2> QED
    BY <2>1
<1>2. IsWellFoundedOn(StrictSubsetOrdering(Int), FiniteSubsetsOf(Int))
  BY FS_StrictSubsetOrderingWellFounded
<1> HIDE DEF upTo
<1>3. PICK s \in upTo : \A r \in upTo : <<r, s>> \notin StrictSubsetOrdering(Int)
  BY <1>1, <1>2, WFMin
<1> USE DEF upTo
<1>4. PICK n \in T : s = 1 .. n
  BY <1>3
<1>5. ASSUME NEW m \in T, m < n PROVE FALSE
  <2>1. n \in Nat /\ m \in Nat
    OBVIOUS
  <2>2. 1 .. m \subseteq 1 .. n /\ n \in 1 .. n /\ n \notin 1 .. m
    BY <1>5, <2>1
  <2>3. 1 .. m \in SUBSET Int /\ 1 .. n \in SUBSET Int
    OBVIOUS
  <2>4. <<1 .. m, 1 .. n>> \in StrictSubsetOrdering(Int)
    BY <2>2, <2>3 DEF StrictSubsetOrdering
  <2> QED
    BY <1>3, <1>4, <2>4
<1> QED
  BY <1>5

\* What redo_dedup decides for an official copy is no head, or a complete one
\* of an official site: those it matches are ordered that way, and the others
\* follow the heads they had.
LEMMA DecidedOfficial ==
    ASSUME OfficialInv, "regroup" \notin raced, NEW groups \in NewGroups,
           NEW p \in OfCompany, Official[p], posting[p].status = "SUCCESS"
    PROVE  OfficialHead(groups[p])
<1> DEFINE others == OfCompany \ Matched
<1>0. Matched \subseteq OfCompany /\ OfCompany \subseteq Postings
      /\ NoPosting \notin Postings /\ \A q \in Postings : Official[q] \in BOOLEAN
  BY PostingAssumption DEF Matched, OfCompany
<1>1. ASSUME NEW q \in Matched, Official[q] PROVE OfficialHead(groups[q])
  <2>1. JoinsFirst(groups, q)
    BY DEF NewGroups
  <2>2. groups[q] # NoPosting => groups[q] \in Matched /\ ComesFirst(groups[q], q)
    BY <2>1 DEF JoinsFirst
  <2>3. groups[q] # NoPosting => Official[groups[q]]
    BY <1>0, <1>1, <2>2 DEF ComesFirst
  <2> QED
    BY <2>2, <2>3 DEF OfficialHead, Matched
<1>2. PICK turn \in [others -> 1 .. Cardinality(others)] :
        \A q \in others : Follows(groups, turn, q)
  BY DEF NewGroups
<1>3. IsFiniteSet(others)
  BY <1>0, PostingAssumption, FS_Subset
<1>4. \A q \in others : turn[q] \in Nat
  BY <1>2, <1>3, FS_CardinalityType
<1>5. ASSUME NEW q \in others, Official[q], posting[q].status = "SUCCESS"
      PROVE  \/ OfficialHead(groups[q])
             \/ LET old == posting[q].primary
                IN  /\ old \in others /\ Official[old] /\ posting[old].status = "SUCCESS"
                    /\ turn[old] < turn[q] /\ groups[q] = groups[old]
  <2> DEFINE old == posting[q].primary
  <2>1. posting[q].job.title = NoKey
    BY <1>0, <1>5 DEF Matched, OfCompany
  <2>2. OfficialHead(old)
    BY <1>0, <1>5, <2>1 DEF OfficialInv, UnmatchedStand
  <2>3. \/ groups[q] = old
        \/ /\ old \in OfCompany /\ groups[q] = groups[old]
           /\ old \in Matched \/ turn[old] < turn[q]
    BY <1>2 DEF Follows
  <2>4. CASE groups[q] = old
    BY <2>2, <2>4
  <2>5. CASE /\ old \in OfCompany /\ groups[q] = groups[old]
             /\ old \in Matched \/ turn[old] < turn[q]
    <3>1. Official[old] /\ posting[old].status = "SUCCESS"
      BY <1>0, <2>2, <2>5 DEF OfficialHead
    <3>2. CASE old \in Matched
      BY <1>1, <2>5, <3>1, <3>2
    <3>3. CASE old \notin Matched
      BY <2>5, <3>1, <3>3
    <3> QED
      BY <3>2, <3>3
  <2> QED
    BY <2>3, <2>4, <2>5
<1> DEFINE wrong == {q \in others : /\ Official[q] /\ posting[q].status = "SUCCESS"
                                   /\ ~OfficialHead(groups[q])}
<1>6. wrong = {}
  <2> SUFFICES ASSUME wrong # {} PROVE FALSE
    OBVIOUS
  <2> DEFINE turns == {turn[q] : q \in wrong}
  <2>1. turns \subseteq Nat /\ turns # {}
    BY <1>4
  <2> HIDE DEF turns
  <2>2. PICK n \in turns : \A m \in turns : ~(m < n)
    BY <2>1, FirstOfTurns
  <2> USE DEF turns
  <2>3. PICK q \in wrong : turn[q] = n
    BY <2>2
  <2> DEFINE old == posting[q].primary
  <2>4. /\ old \in others /\ Official[old] /\ posting[old].status = "SUCCESS"
        /\ turn[old] < turn[q] /\ groups[q] = groups[old]
    BY <1>5
  <2>5. old \in wrong
    BY <2>4
  <2> QED
    BY <2>2, <2>3, <2>4, <2>5
<1>7. CASE p \in Matched
  BY <1>1, <1>7
<1>8. CASE p \notin Matched
  BY <1>6, <1>8
<1> QED
  BY <1>7, <1>8

LEMMA DecidingKeepsOfficial ==
    ASSUME OfficialInv, RegroupRead PROVE Officially'
<1>1. /\ UNCHANGED <<posting, storing>>
      /\ "regroup" \notin raced' => "regroup" \notin raced /\ Reading = {}
  BY DEF RegroupRead
<1>2. OfficialFirst' /\ UnmatchedStand'
  BY <1>1 DEF OfficialInv, OfficialFirst, IsHead, UnmatchedStand, OfficialHead
<1>3. ClaimsStand'
  BY <1>1 DEF ClaimsStand, Reading
<1>4. RegroupOfficial'
  <2> SUFFICES ASSUME "regroup" \notin raced', NEW c \in regroup',
                      Official[c[1]], posting[c[1]].status = "SUCCESS", c[2] # NoPosting
               PROVE  Official[c[2]] /\ posting[c[2]].status # "HIDDEN"
    BY <1>1 DEF RegroupOfficial
  <2>1. PICK groups \in NewGroups :
          regroup' = {<<p, groups[p]>> : p \in {q \in OfCompany : groups[q] # posting[q].primary}}
    BY RegroupDecided DEF OfficialInv
  <2>2. PICK p \in OfCompany : c = <<p, groups[p]>>
    BY <2>1
  <2>3. OfficialHead(groups[p])
    BY <1>1, <2>2, DecidedOfficial
  <2> QED
    BY <2>2, <2>3 DEF OfficialHead
<1> QED
  BY <1>2, <1>3, <1>4 DEF Officially

LEMMA WritingKeepsOfficial ==
    ASSUME OfficialInv, RegroupWrite PROVE Officially'
<1>1. /\ regroup' = {} /\ UNCHANGED <<storing, raced>>
      /\ \/ UNCHANGED posting
         \/ \A p \in Postings :
               /\ posting'[p].status = posting[p].status /\ posting'[p].job = posting[p].job
               /\ \/ posting'[p].primary = posting[p].primary
                  \/ \E c \in regroup :
                        /\ c[1] = p /\ posting'[p].primary = c[2]
                        /\ c[2] # NoPosting => posting[c[2]].status # "ABSENT"
  BY Regrouped DEF OfficialInv
<1> SUFFICES ASSUME "regroup" \notin raced PROVE Officially'
  BY <1>1 DEF Officially, OfficialFirst, ClaimsStand, UnmatchedStand, RegroupOfficial
<1>2. regroup # {} /\ Reading = {}
  BY DEF OfficialInv, ClaimsStand, RegroupWrite
<1>3. ClaimsStand' /\ RegroupOfficial'
  BY <1>1, <1>2 DEF ClaimsStand, RegroupOfficial, Reading
<1>4. CASE UNCHANGED posting
  <2>1. OfficialFirst' /\ UnmatchedStand'
    BY <1>1, <1>4 DEF OfficialInv, OfficialFirst, IsHead, UnmatchedStand, OfficialHead
  <2> QED
    BY <1>3, <2>1 DEF Officially
<1>5. CASE ~UNCHANGED posting
  <2>1. \A h \in Postings : posting'[h].status = posting[h].status /\ posting'[h].job = posting[h].job
    BY <1>1, <1>5
  <2>2. ASSUME NEW p \in Postings, Official[p], posting[p].status = "SUCCESS"
        PROVE  posting'[p].primary = posting[p].primary \/ OfficialHead(posting'[p].primary)
    <3>1. CASE posting'[p].primary = posting[p].primary
      BY <3>1
    <3>2. ASSUME NEW c \in regroup, c[1] = p, posting'[p].primary = c[2],
                 c[2] # NoPosting => posting[c[2]].status # "ABSENT"
          PROVE  OfficialHead(c[2])
      <4>1. c[2] # NoPosting => Official[c[2]] /\ posting[c[2]].status # "HIDDEN"
        BY <2>2, <3>2 DEF OfficialInv, RegroupOfficial
      <4>2. c[2] # NoPosting => c[2] \in Postings
        BY DEF OfficialInv, DedupTypes, RegroupFits, MaybePosting
      <4> QED
        BY <3>2, <4>1, <4>2, StatusesOf DEF OfficialHead, OfficialInv
    <3> QED
      BY <1>1, <1>5, <3>1, <3>2
  <2>3. \A p \in Postings : posting'[p].primary = posting[p].primary
           => (posting[p].primary # NoPosting => posting[p].primary \in Postings)
    BY StatusesOf DEF OfficialInv
  <2>4. OfficialFirst'
    <3> SUFFICES ASSUME NEW p \in Postings, Official[p], posting'[p].status = "SUCCESS",
                        posting'[p].primary # NoPosting
                 PROVE  Official[posting'[p].primary]
      BY DEF OfficialFirst, IsHead
    <3>1. CASE posting'[p].primary = posting[p].primary
      BY <2>1, <3>1 DEF OfficialInv, OfficialFirst, IsHead
    <3>2. CASE OfficialHead(posting'[p].primary)
      BY <3>2 DEF OfficialHead
    <3> QED
      BY <2>1, <2>2, <3>1, <3>2
  <2>5. UnmatchedStand'
    <3> SUFFICES ASSUME NEW p \in Postings, Official[p], posting'[p].status = "SUCCESS",
                        posting'[p].job.title = NoKey, posting'[p].primary # NoPosting
                 PROVE  /\ Official[posting'[p].primary]
                        /\ posting'[posting'[p].primary].status = "SUCCESS"
      BY DEF UnmatchedStand, OfficialHead
    <3> DEFINE h == posting'[p].primary
    <3>1. OfficialHead(h)
      <4>1. CASE h = posting[p].primary
        BY <2>1, <4>1 DEF OfficialInv, UnmatchedStand
      <4>2. CASE OfficialHead(h)
        BY <4>2
      <4> QED
        BY <2>1, <2>2, <4>1, <4>2
    <3>2. Official[h] /\ posting[h].status = "SUCCESS"
      BY <3>1 DEF OfficialHead
    <3>3. h \in Postings
      <4>1. CASE h = posting[p].primary
        BY <2>3, <4>1
      <4>2. CASE h # posting[p].primary
        BY <1>1, <1>5, <4>2 DEF OfficialInv, DedupTypes, RegroupFits, MaybePosting
      <4> QED
        BY <4>1, <4>2
    <3> QED
      BY <2>1, <3>2, <3>3
  <2> QED
    BY <1>3, <2>4, <2>5 DEF Officially
<1> QED
  BY <1>4, <1>5

LEMMA OfficialBegin == DedupInit => OfficialInv
<1> SUFFICES ASSUME DedupInit PROVE OfficialInv
  OBVIOUS
<1>1. DedupTypes
  BY DedupTypesBegin
<1>2. \A p \in Postings : posting[p].status = "ABSENT" /\ posting[p].primary = NoPosting
  BY DEF DedupInit
<1>3. Reading = {} /\ regroup = {}
  BY DEF DedupInit, Reading
<1> QED
  BY <1>1, <1>2, <1>3 DEF OfficialInv, OfficialFirst, IsHead, ClaimsStand, UnmatchedStand, RegroupOfficial

LEMMA OfficialStep == OfficialInv /\ [DedupNext]_dedupVars => OfficialInv'
<1> SUFFICES ASSUME OfficialInv, [DedupNext]_dedupVars PROVE OfficialInv'
  OBVIOUS
<1>0. DedupTypes'
  BY DedupTypesStep DEF OfficialInv
<1> SUFFICES Officially'
  BY <1>0 DEF OfficialInv, Officially
<1>1. ASSUME NEW p \in Postings, NEW job \in Jobs, NEW complete \in BOOLEAN,
             ReadGroup(p, job, complete)
      PROVE  Officially'
  BY <1>1, ReadingKeepsOfficial
<1>2. ASSUME NEW p \in Postings, StoreGroup(p) PROVE Officially'
  BY <1>2, StoringKeepsOfficial
<1>3. ASSUME NEW p \in Postings, CloseOrReopen(p) PROVE Officially'
  <2>1. \A q \in Postings :
           /\ posting'[q].status = posting[q].status /\ posting'[q].job = posting[q].job
           /\ posting'[q].primary = posting[q].primary
    BY <1>3 DEF CloseOrReopen, OfficialInv, DedupTypes, DedupTypeOK, PostingState
  <2> QED
    BY <1>3, <2>1, ClosingKeepsOfficial DEF CloseOrReopen
<1>4. ASSUME NEW p \in Postings, DeletePosting(p) PROVE Officially'
  BY <1>4, DeletingKeepsOfficial
<1>5. CASE RegroupRead
  BY <1>5, DecidingKeepsOfficial
<1>6. CASE RegroupWrite
  BY <1>6, WritingKeepsOfficial
<1>7. CASE UNCHANGED dedupVars
  BY <1>7, ClosingKeepsOfficial DEF dedupVars
<1> QED
  BY <1>1, <1>2, <1>3, <1>4, <1>5, <1>6, <1>7 DEF DedupNext

\* A complete posting of a company's own site is never hidden behind another
\* site's copy, however the transactions of scans overlap, for any postings,
\* sites and jobs; only redo_dedup has to be alone.
THEOREM OfficialCopyFirst == DedupSpec => []OfficialFirst
<1>1. OfficialInv => OfficialFirst
  BY DEF OfficialInv
<1> QED
  BY OfficialBegin, OfficialStep, <1>1, PTL DEF DedupSpec

=============================================================================
