----------------------------- MODULE Publication -----------------------------
(***************************************************************************)
(* What ADR-108 promises of one event on PROD, with no CERT, no runs, jobs,  *)
(* calls or fingerprints.  An event's results are published whole: listings  *)
(* the organiser has shown, no older than those they replace, filed by the   *)
(* participants of that moment, and in a state the gate does not block.      *)
(* What somebody else wrote is left alone.  Only listings that PROD shows,   *)
(* or that were replaced since, are ever announced as published.             *)
(* Promotion implements this where nothing is taken back (IsPublication).    *)
(***************************************************************************)
EXTENDS Naturals

CONSTANTS Listing, Roster, Blocked, ByHand

VARIABLES
    source,      \* the listings the organiser shows
    roster,      \* the revision of PROD's participants
    shown,       \* PROD's results: the listing, and the roster they are filed by
    announced    \* the listings the ledger calls published

vars == <<source, roster, shown, announced>>

NoListing == 0

Init == /\ source = NoListing /\ roster \in Roster
        /\ shown = [listing |-> NoListing, filed |-> NoListing]
        /\ announced = {}

\* The organiser publishes; a participant is corrected.
SourceMoves == /\ \E l \in Listing : l > source /\ source' = l
               /\ UNCHANGED <<roster, shown, announced>>
Correct     == /\ \E r \in Roster : r > roster /\ roster' = r
               /\ UNCHANGED <<source, shown, announced>>

\* Somebody writes the results by hand.
HandWrite == /\ shown' = [listing |-> ByHand, filed |-> roster]
             /\ UNCHANGED <<source, roster, announced>>

\* The results move to the participants' present birth years.
Refile == /\ shown.listing # NoListing
          /\ shown' = [shown EXCEPT !.filed = roster]
          /\ UNCHANGED <<source, roster, announced>>

Publish(l) == /\ shown.listing # ByHand
              /\ shown.listing <= l /\ l <= source
              /\ <<l, roster>> \notin Blocked
              /\ shown' = [listing |-> l, filed |-> roster]
              /\ UNCHANGED <<source, roster, announced>>

\* The ledger announces what PROD shows or has shown; an entry may be lost again.
Past(l)  == shown.listing = ByHand \/ shown.listing >= l
Announce == /\ announced' \in SUBSET (announced \cup {l \in 0..source : Past(l)})
            /\ UNCHANGED <<source, roster, shown>>

Next == \/ SourceMoves \/ Correct \/ HandWrite \/ Refile
        \/ \E l \in Listing : Publish(l)
        \/ Announce

Spec == Init /\ [][Next]_vars
=============================================================================
