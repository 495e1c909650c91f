------------------------------ MODULE MCUpkeep ------------------------------
(***************************************************************************)
(* Small instances, for TLC, of the reading of the boards and of the parts *)
(* that work on what the scans have stored.  They share no state: a        *)
(* behaviour is one part's, the others stay as they begin.                 *)
(***************************************************************************)
EXTENDS JobDedup, AutoScore, Collections, FollowUps, BoardListing, Adapters, TLC

CONSTANTS p1, p2, p3

\* Two spellings of one city, of one job.  p3 is on the company's own site.
MCAustin == [company |-> "acme", title |-> "engineer",
             locations |-> {"austin, tx"}, places |-> {"austin"}]
MCAustinLong == [MCAustin EXCEPT !.locations = {"austin, texas"}]
MCJobs == {MCAustin, MCAustinLong}
MCDomain == (p1 :> "board") @@ (p2 :> "board") @@ (p3 :> "site")
MCOfficial == (p1 :> FALSE) @@ (p2 :> FALSE) @@ (p3 :> TRUE)
MCCreated == (p1 :> 1) @@ (p2 :> 2) @@ (p3 :> 3)
MCId == MCCreated

VARIABLE part     \* whose behaviour this is

Init ==
    /\ DedupInit /\ AutoScoreInit /\ CollectionsInit /\ FollowUpsInit /\ ListingInit
    /\ part \in {"dedup", "auto score", "collections", "follow-ups", "listing"}
    /\ part # "listing" => adapter = lever /\ board = {1} /\ ~uncapped /\ ~repeats

Next ==
    /\ UNCHANGED part
    /\ \/ /\ part = "dedup" /\ DedupNext
          /\ UNCHANGED <<autoScoreVars, collectionVars, followUpVars, listingVars>>
       \/ /\ part = "auto score" /\ AutoScoreNext
          /\ UNCHANGED <<dedupVars, collectionVars, followUpVars, listingVars>>
       \/ /\ part = "collections" /\ CollectionsNext
          /\ UNCHANGED <<dedupVars, autoScoreVars, followUpVars, listingVars>>
       \/ /\ part = "follow-ups" /\ FollowUpsNext
          /\ UNCHANGED <<dedupVars, autoScoreVars, collectionVars, listingVars>>
       \/ /\ part = "listing" /\ ListingNext
          /\ UNCHANGED <<dedupVars, autoScoreVars, collectionVars, followUpVars>>

Spec ==
    /\ Init
    /\ [][Next]_<<part, dedupVars, autoScoreVars, collectionVars, followUpVars, listingVars>>
    /\ part = "auto score" => AutoScoreFairness

-----------------------------------------------------------------------------
\* Every part's variables keep to their types.
UpkeepTypeOK ==
    DedupTypeOK /\ AutoScoreTypeOK /\ CollectionsTypeOK /\ FollowUpsTypeOK /\ ListingTypeOK

\* No transaction overlaps redo_dedup; other overlaps are of two postings.
RaceBound ==
    /\ "regroup" \notin raced
    /\ raced # {} => Cardinality(Reading \union {p \in Postings : posting[p].status # "ABSENT"}) <= 2

\* A listing that never ends is followed so far.
PagesBound == reading.page <= 8
=============================================================================
