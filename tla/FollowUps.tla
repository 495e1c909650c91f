------------------------------ MODULE FollowUps -----------------------------
(***************************************************************************)
(* Follow-up reminders.  A daily sweep mails a reminder for every open     *)
(* application whose date has come and is not marked, marks it, and        *)
(* commits once, at its end.  The user may change the date, or close the   *)
(* application, between the sweep's read and its commit.                   *)
(***************************************************************************)
EXTENDS Integers

CONSTANTS
    Applications,     \* the user's applications
    LastDue           \* bound on the calendar

ASSUME LastDueAssumption == LastDue \in Nat

VARIABLES
    today,
    followUp,     \* followUp[a]: date, mark, whether it is open, and, as
                  \* history, whether the user was told of that date
    reminders,    \* the sweep: what it read, and of that what it mailed
    setMidway     \* history: applications whose date changed under a sweep

followUpVars == <<today, followUp, reminders, setMidway>>

NoDue == -1
Date == (0 .. LastDue) \union {NoDue}

\* No application is reminded of that the sweep did not read.
FollowUpsTypeOK ==
    /\ today \in 0 .. LastDue
    /\ followUp \in [Applications -> [due : Date, marked : BOOLEAN, told : BOOLEAN, open : BOOLEAN]]
    /\ reminders.read \subseteq Applications /\ reminders.mailed \subseteq reminders.read
    /\ setMidway \subseteq Applications

NoReminders == [read |-> {}, mailed |-> {}]

FollowUpsInit ==
    /\ today = 0
    /\ followUp = [a \in Applications |->
                     [due |-> NoDue, marked |-> FALSE, told |-> FALSE, open |-> TRUE]]
    /\ reminders = NoReminders
    /\ setMidway = {}

NextDay ==
    /\ today < LastDue
    /\ today' = today + 1
    /\ UNCHANGED <<followUp, reminders, setMidway>>

-----------------------------------------------------------------------------
\* Mutant: the mark of the old date is kept.
SetFollowUpMarked(a, day) ==
    /\ day # followUp[a].due
    /\ followUp' = [followUp EXCEPT ![a].due = day, ![a].told = FALSE]
    /\ setMidway' = IF a \in reminders.read THEN setMidway \union {a} ELSE setMidway \ {a}
    /\ UNCHANGED <<today, reminders>>

\* update_application: a new or cleared date needs its own reminder.
SetFollowUp(a, day) ==
    /\ day # followUp[a].due
    /\ followUp' = [followUp EXCEPT ![a].due = day, ![a].marked = FALSE, ![a].told = FALSE]
    /\ setMidway' = IF a \in reminders.read THEN setMidway \union {a} ELSE setMidway \ {a}
    /\ UNCHANGED <<today, reminders>>

\* Archived, rejected or withdrawn, one by one or in bulk, or taken up again.
CloseApplications(closed, open) ==
    /\ followUp' = [a \in Applications |->
                      IF a \in closed THEN [followUp[a] EXCEPT !.open = open] ELSE followUp[a]]
    /\ UNCHANGED <<today, reminders, setMidway>>

Due ==
    {a \in Applications :
        /\ followUp[a].due # NoDue /\ followUp[a].due <= today
        /\ ~followUp[a].marked /\ followUp[a].open}

ReadDue ==
    /\ reminders = NoReminders /\ Due # {}
    /\ reminders' = [read |-> Due, mailed |-> {}]
    /\ setMidway' = setMidway \ Due
    /\ UNCHANGED <<today, followUp>>

\* The mail of the date the sweep read; one that fails is skipped.
MailReminder(a) ==
    /\ a \in reminders.read \ reminders.mailed
    /\ \/ /\ reminders' = [reminders EXCEPT !.mailed = @ \union {a}]
          /\ followUp' = [followUp EXCEPT ![a].told = (a \notin setMidway)]
       \/ /\ reminders' = [reminders EXCEPT !.read = @ \ {a}]
          /\ UNCHANGED followUp
    /\ UNCHANGED <<today, setMidway>>

\* The sweep's one commit marks whatever date the row has by now.
CommitReminders ==
    /\ reminders # NoReminders /\ reminders.mailed = reminders.read
    /\ followUp' = [a \in Applications |->
                      IF a \in reminders.mailed THEN [followUp[a] EXCEPT !.marked = TRUE] ELSE followUp[a]]
    /\ reminders' = NoReminders
    /\ UNCHANGED <<today, setMidway>>

\* The sweep dies, or its commit fails, with its mails sent.
RemindersFail ==
    /\ reminders # NoReminders
    /\ reminders' = NoReminders
    /\ UNCHANGED <<today, followUp, setMidway>>

FollowUpsNext ==
    \/ NextDay \/ ReadDue \/ CommitReminders \/ RemindersFail
    \/ \E a \in Applications, day \in Date : SetFollowUp(a, day)
    \/ \E closed \in SUBSET Applications, open \in BOOLEAN : CloseApplications(closed, open)
    \/ \E a \in Applications : MailReminder(a)

FollowUpsSpec == FollowUpsInit /\ [][FollowUpsNext]_followUpVars

-----------------------------------------------------------------------------
(* Properties.                                                             *)

\* A date is not marked as reminded of unless the user was, except one that
\* was set while a sweep had read the date before it: neither a failed mail,
\* nor a sweep that dies, nor a change of the date silences a reminder.
MarkedMeansTold ==
    \A a \in Applications : followUp[a].marked => followUp[a].told \/ a \in setMidway
=============================================================================
