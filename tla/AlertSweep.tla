----------------------------- MODULE AlertSweep -----------------------------
(***************************************************************************)
(* Saved-search alerts.  A sweep takes its time at its start, reads the    *)
(* matches of each search and mails them, and commits at its end how far   *)
(* each search's cursor has come.  Meanwhile scans commit stamps older     *)
(* than that time, the user switches alerts off and on, and the sweep may  *)
(* die with its mails sent.                                                *)
(***************************************************************************)
EXTENDS Integers

CONSTANTS
    AlertPostings,    \* postings one saved search would match
    AlertWindow,      \* NEW_JOB_WINDOW_HOURS
    LastDay           \* bound on the clock

ASSUME AlertAssumption == AlertWindow \in Nat /\ LastDay \in Nat

VARIABLES
    clock,
    alertPosting,   \* the stamps of a posting, and those of a scan not committed
    search,         \* the saved search: its cursor, and its user's switch
    alerts,         \* the alert sweep: its time, and the phase it is in
    mailed,         \* postings the user has been told of
    late            \* history: scans a sweep could not see, and moved past

alertVars == <<clock, alertPosting, search, alerts, mailed, late>>

NoDay == -1
Day == 0 .. LastDay

AlertTypeOK ==
    /\ clock \in Day
    /\ alertPosting \in [AlertPostings -> [stamp : Day \union {NoDay}, scanned : Day \union {NoDay},
                                           first : Day \union {NoDay}, visible : BOOLEAN]]
    /\ search \in [cursor : Day, on : BOOLEAN]
    /\ alerts \in [phase : {"idle", "started", "mailed"}, now : Day]
    /\ mailed \subseteq AlertPostings /\ late \subseteq AlertPostings

AlertInit ==
    /\ clock = 0
    /\ alertPosting = [p \in AlertPostings |->
                         [stamp |-> NoDay, scanned |-> NoDay, first |-> NoDay, visible |-> FALSE]]
    /\ search = [cursor |-> 0, on |-> TRUE]
    /\ alerts = [phase |-> "idle", now |-> 0]
    /\ mailed = {} /\ late = {}

AlertTick ==
    /\ clock < LastDay
    /\ clock' = clock + 1
    /\ UNCHANGED <<alertPosting, search, alerts, mailed, late>>

-----------------------------------------------------------------------------
(* Scans.                                                                  *)

\* A scan takes its time, and commits later.
StampScan(p) ==
    /\ alertPosting[p].stamp = NoDay
    /\ alertPosting' = [alertPosting EXCEPT ![p].stamp = clock]
    /\ UNCHANGED <<clock, search, alerts, mailed, late>>

\* _mark_scanned; an incomplete scan's posting stays hidden.
CommitScan(p, complete) ==
    LET a == alertPosting[p]
    IN  /\ a.stamp # NoDay
        /\ alertPosting' = [alertPosting EXCEPT ![p] =
              [stamp |-> NoDay, scanned |-> a.stamp,
               first |-> IF a.first = NoDay THEN a.stamp ELSE a.first,
               visible |-> a.visible \/ complete]]
        /\ UNCHANGED <<clock, search, alerts, mailed, late>>

-----------------------------------------------------------------------------
(* The alert sweep, for one search.                                        *)

SwitchAlerts ==
    /\ search' = [search EXCEPT !.on = ~@]
    /\ UNCHANGED <<clock, alertPosting, alerts, mailed, late>>

StartAlerts ==
    /\ alerts.phase = "idle" /\ search.on
    /\ alerts' = [phase |-> "started", now |-> clock]
    /\ UNCHANGED <<clock, alertPosting, search, mailed, late>>

\* Scanned since the cursor, and first seen recently.
Matches ==
    {p \in AlertPostings :
        /\ alertPosting[p].visible
        /\ alertPosting[p].scanned >= search.cursor
        /\ alertPosting[p].first >= alerts.now - AlertWindow}

InFlightScans == {p \in AlertPostings : alertPosting[p].stamp # NoDay /\ alertPosting[p].stamp < alerts.now}

\* _sweep_one: nothing new leaves the cursor where it is.
MailDigest ==
    /\ alerts.phase = "started"
    /\ IF Matches = {}
       THEN alerts' = [alerts EXCEPT !.phase = "idle"] /\ UNCHANGED <<mailed, late>>
       ELSE /\ alerts' = [alerts EXCEPT !.phase = "mailed"]
            /\ mailed' = mailed \union Matches
            /\ late' = late \union InFlightScans
    /\ UNCHANGED <<clock, alertPosting, search>>

\* Mutant: the cursor is set to the time of the commit.
CommitAlertsLate ==
    /\ alerts.phase = "mailed"
    /\ search' = [search EXCEPT !.cursor = clock]
    /\ alerts' = [alerts EXCEPT !.phase = "idle"]
    /\ UNCHANGED <<clock, alertPosting, mailed, late>>

CommitAlerts ==
    /\ alerts.phase = "mailed"
    /\ search' = [search EXCEPT !.cursor = alerts.now]
    /\ alerts' = [alerts EXCEPT !.phase = "idle"]
    /\ UNCHANGED <<clock, alertPosting, mailed, late>>

\* The mail cannot be sent, or the sweep dies before its one commit.
AlertsFail ==
    /\ alerts.phase # "idle"
    /\ alerts' = [alerts EXCEPT !.phase = "idle"]
    /\ UNCHANGED <<clock, alertPosting, search, mailed, late>>

AlertNext ==
    \/ AlertTick
    \/ \E p \in AlertPostings, complete \in BOOLEAN : StampScan(p) \/ CommitScan(p, complete)
    \/ SwitchAlerts \/ StartAlerts \/ MailDigest \/ CommitAlerts \/ AlertsFail

AlertSpec == AlertInit /\ [][AlertNext]_alertVars

-----------------------------------------------------------------------------
(* Properties.                                                             *)

\* The cursor never passes a posting the user was not told of, except one
\* whose scan was not committed when the sweep read, whatever is scanned while
\* a sweep mails, however sweeps fail, and however alerts are switched.
CursorCovers ==
    \A p \in AlertPostings :
        LET a == alertPosting[p]
        IN  a.visible /\ a.scanned < search.cursor /\ a.first >= clock - AlertWindow
              => p \in mailed \union late
=============================================================================
