---------------------------- MODULE MCBoardCrawl ----------------------------
(* Small instances of BoardCrawl for TLC.                                   *)
EXTENDS BoardCrawl, TLC

\* URLs and crawlers are interchangeable.
Symmetry == Permutations(Urls) \union Permutations(Crawlers)
=============================================================================
