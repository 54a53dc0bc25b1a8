---------------------------- MODULE MCReadLedger ----------------------------
(* Two interchangeable processes and a cap of a few requests, so that draws *)
(* are granted in part and the cap is reached.                              *)
EXTENDS ReadLedger, TLC

CONSTANTS p, q

Symmetry == Permutations(Proc)
=============================================================================
