--------------------------- MODULE MCJoinedFiling ---------------------------
(* Instances of JoinedFiling.  Every listing has a place that was never      *)
(* stored.                                                                  *)
EXTENDS JoinedFiling, TLC

CONSTANTS a, b, d, e, f, g, L1

OneListing  == [x \in Fencer |-> L1]
FourPlaces  == a :> 1 @@ b :> 2 @@ d :> 4 @@ e :> 5
FivePlaces  == [l \in Listing |-> 5]

SixPlaces   == FourPlaces @@ f :> 6 @@ g :> 7
SevenPlaces == [l \in Listing |-> 7]

TiedPlaces  == a :> 1 @@ b :> 1 @@ d :> 3
FourRows    == [l \in Listing |-> 4]
=============================================================================
