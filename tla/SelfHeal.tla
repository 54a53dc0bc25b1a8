------------------------------ MODULE SelfHeal ------------------------------
(***************************************************************************)
(* What ADR-072 promises of the self-healing recompute, without its queue, *)
(* worker or brackets: an event whose results a birth-year correction has  *)
(* touched is due; healing it re-files all of its results at once by the   *)
(* current birth years; an event stops being due only when every result is *)
(* where it belongs.  Recompute implements this as long as nothing changes *)
(* or dies in the middle of one event (run RecomputeHeals).                *)
(***************************************************************************)
CONSTANTS Fencer, Event, Category, International

VARIABLES
    year,      \* the category each fencer's birth year gives
    results,   \* [Event -> SUBSET (Fencer \X Category)]
    due        \* events to be healed

vars == <<year, results, due>>

Fits(e, r) == e \in International \/ r[2] = year[r[1]]

Init == /\ year \in [Fencer -> Category]
        /\ results \in [Event -> SUBSET (Fencer \X Category)]
        /\ \A e \in Event : \A r \in results[e] : Fits(e, r)
        /\ due = {}

\* A correction makes every event of the fencer due, in the same step.
Correct(f, c) ==
    /\ year' = [year EXCEPT ![f] = c]
    /\ due' = due \cup {e \in Event : \E d \in Category : <<f, d>> \in results[e]}
    /\ UNCHANGED results

\* All of an event's results move to their fencers' categories together.
Heal(e) ==
    /\ e \in due \ International
    /\ results' = [results EXCEPT ![e] = {<<r[1], year[r[1]]>> : r \in results[e]}]
    /\ UNCHANGED <<year, due>>

\* Healed events are done.
Settle(S) ==
    /\ \A e \in S : \A r \in results[e] : Fits(e, r)
    /\ due' = due \ S
    /\ UNCHANGED <<year, results>>

Next == \/ \E f \in Fencer, c \in Category : Correct(f, c)
        \/ \E e \in Event : Heal(e)
        \/ \E S \in SUBSET due : Settle(S)

Spec == Init /\ [][Next]_vars
=============================================================================
