--------------------------- MODULE MCResultsSync ---------------------------
(* Two cycles that may overlap, two versions of the listings with something *)
(* final.                                                                   *)
EXTENDS ResultsSync, TLC

CONSTANTS c1, c2
=============================================================================
