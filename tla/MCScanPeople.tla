---------------------------- MODULE MCScanPeople ----------------------------
(***************************************************************************)
(* What people do to URLs that are already there, as two small instances   *)
(* of ScanPipeline side by side: two admins resetting and deleting a       *)
(* source under two lanes of one URL, and a request that rescans one URL   *)
(* beside one worker.                                                      *)
(* They share no state: a behaviour is one instance's, the other stays as  *)
(* it begins.                                                              *)
(***************************************************************************)
EXTENDS MCScanPipeline

CONSTANTS OneUrl, OneWorker, OneRequest

VARIABLES part, oRows, oLive, oQueue, oWorker, oRequest, oReset, oFaults

oneVars == <<oRows, oLive, oQueue, oWorker, oRequest, oReset, oFaults>>

One == INSTANCE ScanPipeline WITH
    Urls <- {OneUrl}, Workers <- {OneWorker}, Requests <- {OneRequest}, Admins <- {},
    FaultBudget <- 0,
    rows <- oRows, live <- oLive, queue <- oQueue, worker <- oWorker,
    request <- oRequest, reset <- oReset, faults <- oFaults

PeopleInit == Init /\ One!Init /\ part \in {"resets", "rescan"}

PeopleNext ==
    /\ UNCHANGED part
    /\ \/ part = "resets" /\ Next /\ UNCHANGED oneVars
       \/ part = "rescan" /\ One!Next /\ UNCHANGED vars

PeopleSpec == PeopleInit /\ [][PeopleNext]_<<part, vars, oneVars>>

-----------------------------------------------------------------------------
\* A posting is never left waiting for a scan nobody will run, although a
\* request rescans its URL beside the worker: while it says PENDING, so does
\* its row.
PostingFollowsRescan == One!PostingFollowsRow

\* One message waits at a time, in either instance.
FewMessages == Cardinality(queue) <= 1 /\ Cardinality(oQueue) <= 1
=============================================================================
