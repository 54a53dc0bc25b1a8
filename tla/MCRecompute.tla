---------------------------- MODULE MCRecompute ----------------------------
(* Instances of Recompute for TLC: three fencers, two events, two or three  *)
(* categories.  Event 2 shares fencer b with event 1.                      *)
EXTENDS Recompute, TLC

CONSTANTS a, b, d

MCEntrants == 1 :> {a, b} @@ 2 :> {b, d}
=============================================================================
