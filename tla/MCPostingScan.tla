--------------------------- MODULE MCPostingScan ---------------------------
(***************************************************************************)
(* PostingScan for TLC, with the scanners of the registry.                 *)
(***************************************************************************)
EXTENDS PostingScan, Scanners
=============================================================================
