--------------------------- MODULE MCScanPipeline ---------------------------
(* Small instances of ScanPipeline for TLC.                                 *)
EXTENDS ScanPipeline, TLC

CONSTANT CapValue     \* the cap of every source

MCCap == [s \in Sources |-> CapValue]

\* Workers, URLs, requests and admins are interchangeable.
Symmetry == Permutations(Workers) \union Permutations(Urls) \union Permutations(Requests)
              \union Permutations(Admins)
=============================================================================
