-------------------------- MODULE RecomputeProofs --------------------------
(***************************************************************************)
(* Proofs about Recompute for every set of fencers, events and categories  *)
(* and every bound: type correctness, and that no correction is forgotten  *)
(* (StaleIsQueued) whatever crashes, roster changes and merges interleave  *)
(* with the worker; then, that Recompute implements SelfHeal.              *)
(***************************************************************************)
EXTENDS Recompute, TLAPS

\* Type correctness: no action of the roster's writers or of the worker leaves
\* the columns' domains.
LEMMA TypeInit == Init => TypeOK
<1> USE RecomputeAssumption
<1> SUFFICES ASSUME Init PROVE TypeOK
  OBVIOUS
<1>1. year \in [Fencer -> Category \cup {NoCategory, Deleted}]
  BY DEF Init
<1>2. rows \in [Event -> [Category -> SUBSET Fencer]]
  <2>1. PICK filed \in [Event -> [Fencer -> Category]] :
          rows = [e \in Event |-> [c \in Category |-> {f \in Entrants[e] : filed[e][f] = c}]]
    BY DEF Init
  <2>2. \A e \in Event, c \in Category : {f \in Entrants[e] : filed[e][f] = c} \in SUBSET Fencer
    OBVIOUS
  <2> QED BY <2>1, <2>2
<1>3. known \in [Fencer -> Category \cup {NoCategory}]
  BY DEF Init, Unread
<1> QED BY <1>1, <1>2, <1>3 DEF Init, TypeOK, Phases, InCommit

LEMMA TypeNext == TypeOK /\ [Next]_vars => TypeOK'
<1> USE RecomputeAssumption
<1> SUFFICES ASSUME TypeOK, [Next]_vars PROVE TypeOK'
  OBVIOUS
<1>1. ASSUME NEW f \in Fencer, NEW c \in Category, Correct(f, c) PROVE TypeOK'
  <2>1. pending' \subseteq Event
    BY <1>1 DEF TypeOK, Correct, Affected
  <2>2. year' \in [Fencer -> Category \cup {NoCategory, Deleted}]
    BY <1>1 DEF TypeOK, Correct
  <2>3. edits' \in 0..MaxEdits
    BY <1>1 DEF TypeOK, Correct
  <2> QED BY <1>1, <2>1, <2>2, <2>3 DEF TypeOK, Correct, worker, InCommit, Phases
<1>2. ASSUME NEW f \in Fencer, NEW c \in Category, BeginCorrection(f, c) PROVE TypeOK'
  BY <1>2 DEF TypeOK, BeginCorrection, Affected, worker, InCommit, Phases
<1>3. CASE CommitCorrection
  <2>1. PICK t \in open :
          /\ year' = [year EXCEPT ![t.fencer] = t.category]
          /\ pending' = pending \cup t.inserted
          /\ missed' = (missed \cup Affected(t.fencer)) \ pending'
    BY <1>3 DEF CommitCorrection
  <2>2. t.fencer \in Fencer /\ t.category \in Category /\ t.inserted \subseteq Event
    BY DEF TypeOK
  <2>3. year' \in [Fencer -> Category \cup {NoCategory, Deleted}]
    BY <2>1, <2>2 DEF TypeOK
  <2>4. pending' \subseteq Event /\ missed' \subseteq Event
    BY <2>1, <2>2 DEF TypeOK, Affected
  <2> QED BY <1>3, <2>3, <2>4 DEF TypeOK, CommitCorrection, worker, bounds, InCommit, Phases
<1>4. ASSUME NEW s \in Fencer, NEW d \in Fencer, Merge(s, d) PROVE TypeOK'
  <2>1. \A e \in Event, c \in Category :
           (IF d \in rows[e][c] THEN (rows[e][c] \ {d}) \cup {s} ELSE rows[e][c]) \in SUBSET Fencer
    BY DEF TypeOK
  <2>2. rows' \in [Event -> [Category -> SUBSET Fencer]]
    BY <1>4, <2>1 DEF Merge
  <2>3. pending' \subseteq Event
    BY <1>4 DEF TypeOK, Merge, Affected
  <2>4. year' \in [Fencer -> Category \cup {NoCategory, Deleted}]
    BY <1>4 DEF TypeOK, Merge
  <2>5. merges' \in 0..MaxMerges
    BY <1>4 DEF TypeOK, Merge
  <2> QED BY <1>4, <2>2, <2>3, <2>4, <2>5 DEF TypeOK, Merge, worker, InCommit, Phases
<1>5. CASE BecomeQuiet
  BY <1>5 DEF TypeOK, BecomeQuiet, worker, bounds, InCommit, Phases
<1>6. CASE CheckQuiet
  BY <1>6 DEF TypeOK, CheckQuiet, database, bounds, InCommit, Phases
<1>7. CASE Select
  <2>1. batch' \subseteq Event
    BY <1>7 DEF TypeOK, Select, Queued
  <2> QED BY <1>7, <2>1 DEF TypeOK, Select, database, bounds, InCommit, Phases
<1>8. CASE Claim
  BY <1>8 DEF TypeOK, Claim, bounds, InCommit, Phases
<1>9. CASE LoadRows
  BY <1>9 DEF TypeOK, LoadRows, database, bounds, InCommit, Phases
<1>10. CASE LoadYears
  BY <1>10 DEF TypeOK, LoadYears, Partition, database, bounds, InCommit, Phases
<1>11. ASSUME NEW c \in Category, WriteBracket(c) PROVE TypeOK'
  <2>1. Members(event, c) \subseteq Fencer
    BY DEF TypeOK, Members, Group
  <2>2. rows' \in [Event -> [Category -> SUBSET Fencer]]
    BY <1>11, <2>1 DEF TypeOK, WriteBracket
  <2> QED BY <1>11, <2>2 DEF TypeOK, WriteBracket, bounds, InCommit, Phases
<1>12. ASSUME NEW c \in Category, ClearBracket(c) PROVE TypeOK'
  BY <1>12 DEF TypeOK, ClearBracket, bounds, InCommit, Phases
<1>13. CASE EventDone
  BY <1>13 DEF TypeOK, EventDone, LeaveEvent, Unread, database, bounds, InCommit, Phases
<1>14. CASE MarkDone
  BY <1>14 DEF TypeOK, MarkDone, Stop, LeaveEvent, Unread, bounds, InCommit, Phases
<1>15. CASE WriteRefused
  BY <1>15 DEF TypeOK, WriteRefused, Stop, LeaveEvent, Unread, database, bounds, InCommit, Phases
<1>16. CASE Crash
  BY <1>16 DEF TypeOK, Crash, Stop, LeaveEvent, Unread, database, bounds, InCommit, Phases
<1>17. CASE UNCHANGED vars
  BY <1>17 DEF TypeOK, vars, database, worker, bounds, InCommit, Phases
<1> QED
  BY <1>1, <1>2, <1>3, <1>4, <1>5, <1>6, <1>7, <1>8, <1>9, <1>10, <1>11, <1>12, <1>13,
     <1>14, <1>15, <1>16, <1>17 DEF Next, Roster, Drain

THEOREM TypeCorrect == Spec => []TypeOK
<1>1. Init => TypeOK
  BY TypeInit
<1>2. TypeOK /\ [Next]_vars => TypeOK'
  BY TypeNext
<1> QED BY <1>1, <1>2, PTL DEF Spec
-----------------------------------------------------------------------------
(* No correction is forgotten *)

HealingInv == TypeOK /\ StaleIsQueued /\ FinishedIsFresh

\* Events the history accounts for, with or without a row.
Noted == pending \cup missed

\* The V-category guard admits no stale row, so a written bracket is fresh.
LEMMA WrittenIsFresh ==
    ASSUME TypeOK, NEW c \in Category, WriteBracket(c), event \in Domestic
    PROVE  ~Stale(event, c)'
<1>1. rows'[event][c] = Members(event, c)
  BY RecomputeAssumption DEF WriteBracket, TypeOK, InCommit
<1>2. \A f \in Members(event, c) : year[f] \in {c, NoCategory}
  BY DEF WriteBracket, Writable, Admits, Domestic
<1> QED BY <1>1, <1>2 DEF Stale, WriteBracket

\* A correction disturbs only events it queues: elsewhere the fencer has no row.
LEMMA CorrectQueues ==
    ASSUME TypeOK, NEW f \in Fencer, NEW k \in Category, Correct(f, k),
           NEW e \in Event, e \notin pending', NEW c \in Category
    PROVE  Stale(e, c)' => Stale(e, c)
<1>1. f \notin rows[e][c]
  BY DEF Correct, Affected
<1>2. rows' = rows
  BY DEF Correct
<1>3. \A g \in rows[e][c] : year'[g] = year[g]
  BY <1>1 DEF Correct, TypeOK
<1> QED BY <1>2, <1>3 DEF Stale

\* So does a merge, whose duplicate and survivor both have their events queued.
LEMMA MergeQueues ==
    ASSUME TypeOK, NEW s \in Fencer, NEW d \in Fencer, Merge(s, d),
           NEW e \in Event, e \notin pending', NEW c \in Category
    PROVE  Stale(e, c)' => Stale(e, c)
<1>1. d \notin rows[e][c]
  BY DEF Merge, Affected
<1>2. rows'[e][c] = rows[e][c]
  BY <1>1 DEF Merge
<1>3. \A g \in rows[e][c] : year'[g] = year[g]
  BY <1>1 DEF Merge, TypeOK
<1> QED BY <1>2, <1>3 DEF Stale

\* So does a correction that ends a long transaction, but for the events it
\* coalesced into a row that is no longer PENDING.
LEMMA CommitNotes ==
    ASSUME TypeOK, CommitCorrection, NEW e \in Event, e \notin Noted', NEW c \in Category
    PROVE  Stale(e, c)' => Stale(e, c)
<1>1. PICK t \in open :
        /\ year' = [year EXCEPT ![t.fencer] = t.category]
        /\ missed' = (missed \cup Affected(t.fencer)) \ pending'
  BY DEF CommitCorrection
<1>2. t.fencer \notin rows[e][c]
  BY <1>1 DEF Noted, Affected
<1>3. rows' = rows
  BY DEF CommitCorrection
<1>4. \A g \in rows[e][c] : year'[g] = year[g]
  BY <1>1, <1>2 DEF TypeOK
<1> QED BY <1>3, <1>4 DEF Stale

\* If results go stale only in events that end up noted, and the worker's
\* position does not change, the invariant is kept.
LEMMA RosterKeepsHealing ==
    ASSUME HealingInv, TypeOK', UNCHANGED <<claimed, worker>>,
           Noted \subseteq Noted',
           \A e \in Event : e \notin Noted' =>
              \A c \in Category : Stale(e, c)' => Stale(e, c)
    PROVE  HealingInv'
<1> USE DEF HealingInv
<1>0. Domestic \subseteq Event
  BY DEF Domestic
<1>1. \A e \in Domestic : e \notin Noted' /\ Fresh(e) => Fresh(e)'
  BY <1>0 DEF Fresh
<1>2. StaleIsQueued'
  BY <1>1 DEF StaleIsQueued, Queued, Noted
<1>3. FinishedIsFresh'
  BY <1>0, <1>1 DEF FinishedIsFresh, Noted, worker
<1> QED BY <1>2, <1>3

\* A step of the worker that writes no result and takes nothing from the queue,
\* leaving or staying in a phase that has finished no further event.
LEMMA QuietStepKeepsStale ==
    ASSUME StaleIsQueued, UNCHANGED <<year, rows, missed>>, Queued \subseteq Queued'
    PROVE  StaleIsQueued'
  BY DEF StaleIsQueued, Fresh, Stale

LEMMA HealingInit == Init => HealingInv
<1> SUFFICES ASSUME Init PROVE HealingInv
  OBVIOUS
<1>1. PICK filed \in [Event -> [Fencer -> Category]] :
        /\ \A e \in Event : \A f \in Entrants[e] : Admits(e, f, filed[e][f])
        /\ rows = [e \in Event |-> [c \in Category |-> {f \in Entrants[e] : filed[e][f] = c}]]
  BY DEF Init
<1>2. \A e \in Domestic : Fresh(e)
  <2> SUFFICES ASSUME NEW e \in Domestic, NEW c \in Category, NEW f \in rows[e][c]
               PROVE  year[f] \in {c, NoCategory}
    BY DEF Fresh, Stale
  <2>1. e \in Event /\ e \notin International
    BY DEF Domestic
  <2>2. f \in Entrants[e] /\ filed[e][f] = c
    BY <1>1, <2>1
  <2> QED BY <1>1, <2>1, <2>2 DEF Admits
<1> QED BY <1>2, TypeInit DEF Init, HealingInv, StaleIsQueued, FinishedIsFresh

LEMMA HealingNext == HealingInv /\ [Next]_vars => HealingInv'
<1> SUFFICES ASSUME HealingInv, [Next]_vars PROVE HealingInv'
  OBVIOUS
<1> USE DEF HealingInv
<1>0. TypeOK' /\ Domestic \subseteq Event
  BY TypeNext DEF Domestic
<1>1. ASSUME NEW f \in Fencer, NEW k \in Category, Correct(f, k) PROVE HealingInv'
  <2>1. \A e \in Event : e \notin Noted' => \A c \in Category : Stale(e, c)' => Stale(e, c)
    BY <1>1, CorrectQueues DEF Noted
  <2>2. Noted \subseteq Noted' /\ UNCHANGED <<claimed, worker>>
    BY <1>1 DEF Correct, Noted
  <2> QED BY <1>0, <2>1, <2>2, RosterKeepsHealing
<1>2. ASSUME NEW f \in Fencer, NEW k \in Category, BeginCorrection(f, k) PROVE HealingInv'
  BY <1>0, <1>2 DEF BeginCorrection, StaleIsQueued, FinishedIsFresh, Fresh, Stale, Queued, worker
<1>3. CASE CommitCorrection
  <2>1. \A e \in Event : e \notin Noted' => \A c \in Category : Stale(e, c)' => Stale(e, c)
    BY <1>3, CommitNotes
  <2>2. Noted \subseteq Noted' /\ UNCHANGED <<claimed, worker>>
    BY <1>3 DEF CommitCorrection, Noted
  <2> QED BY <1>0, <2>1, <2>2, RosterKeepsHealing
<1>4. ASSUME NEW s \in Fencer, NEW d \in Fencer, Merge(s, d) PROVE HealingInv'
  <2>1. \A e \in Event : e \notin Noted' => \A c \in Category : Stale(e, c)' => Stale(e, c)
    BY <1>4, MergeQueues DEF Noted
  <2>2. Noted \subseteq Noted' /\ UNCHANGED <<claimed, worker>>
    BY <1>4 DEF Merge, Noted
  <2> QED BY <1>0, <2>1, <2>2, RosterKeepsHealing
<1>5. CASE BecomeQuiet
  BY <1>0, <1>5 DEF BecomeQuiet, StaleIsQueued, FinishedIsFresh, Fresh, Stale, Queued, worker
<1>6. CASE CheckQuiet
  BY <1>0, <1>6 DEF CheckQuiet, database, StaleIsQueued, FinishedIsFresh, Fresh, Stale, Queued
<1>7. CASE Select
  BY <1>0, <1>7 DEF Select, database, StaleIsQueued, FinishedIsFresh, Fresh, Stale, Queued
<1>8. CASE Claim
  <2>1. StaleIsQueued'
    BY <1>0, <1>8, QuietStepKeepsStale DEF Claim, Queued
  <2>2. FinishedIsFresh'
    BY <1>8 DEF Claim, FinishedIsFresh
  <2> QED BY <1>0, <1>8, <2>1, <2>2 DEF Claim
<1>9. CASE LoadRows
  BY <1>0, <1>9 DEF LoadRows, database, StaleIsQueued, FinishedIsFresh, Fresh, Stale, Queued
<1>10. CASE LoadYears
  <2>1. StaleIsQueued' /\ UNCHANGED <<batch, todo, event, pending, missed>>
    BY <1>10, QuietStepKeepsStale DEF LoadYears, database, Queued
  <2>2. \A c \in Category \ (unwritten' \cup uncleared') : ~Stale(event, c)'
    BY <1>10 DEF LoadYears, database, Stale
  <2>3. \A e \in (batch \ todo) \cap Domestic : (Fresh(e) \/ e \in pending \cup missed)'
    BY <1>10 DEF LoadYears, database, FinishedIsFresh, Fresh, Stale
  <2> QED BY <1>0, <1>10, <2>1, <2>2, <2>3 DEF LoadYears, FinishedIsFresh
<1>11. ASSUME NEW c \in Category, WriteBracket(c) PROVE HealingInv'
  <2>1. event \in Event
    BY <1>11 DEF WriteBracket, TypeOK, InCommit
  <2>2. event \in Domestic => ~Stale(event, c)'
    BY <1>11, WrittenIsFresh
  <2>3. \A e \in Domestic, k \in Category : Stale(e, k)' => Stale(e, k)
    <3> SUFFICES ASSUME NEW e \in Domestic, NEW k \in Category, Stale(e, k)' PROVE Stale(e, k)
      OBVIOUS
    <3>1. CASE e = event /\ k = c
      <4>1. event' = event
        BY <1>11 DEF WriteBracket
      <4> QED BY <2>2, <3>1, <4>1 DEF Stale
    <3>2. CASE ~(e = event /\ k = c)
      <4>1. rows'[e][k] = rows[e][k] /\ year' = year
        BY <1>0, <1>11, <2>1, <3>2 DEF WriteBracket, TypeOK
      <4> QED BY <4>1 DEF Stale
    <3> QED BY <3>1, <3>2
  <2>4. \A e \in Domestic : Fresh(e) => Fresh(e)'
    BY <2>3 DEF Fresh
  <2>5. StaleIsQueued'
    BY <1>11, <2>4 DEF WriteBracket, StaleIsQueued, Queued
  <2>6. FinishedIsFresh'
    <3>1. phase = "writing" /\ UNCHANGED <<phase, batch, todo, event, pending, missed, uncleared>>
      BY <1>11 DEF WriteBracket
    <3>2. \A e \in (batch \ todo) \cap Domestic : (Fresh(e) \/ e \in pending \cup missed)'
      BY <2>4, <3>1 DEF FinishedIsFresh
    <3>3. event \in Domestic \ (pending \cup missed) =>
            \A k \in Category \ (unwritten' \cup uncleared) : ~Stale(event, k)'
      BY <1>11, <2>2, <2>3, <3>1 DEF WriteBracket, FinishedIsFresh
    <3> QED BY <3>1, <3>2, <3>3 DEF FinishedIsFresh
  <2> QED BY <1>0, <1>11, <2>5, <2>6 DEF WriteBracket
<1>12. ASSUME NEW c \in Category, ClearBracket(c) PROVE HealingInv'
  <2>1. event \in Event
    BY <1>12 DEF ClearBracket, TypeOK, InCommit
  <2>2. \A e \in Domestic, k \in Category : Stale(e, k)' => Stale(e, k) /\ ~(e = event /\ k = c)
    <3> SUFFICES ASSUME NEW e \in Domestic, NEW k \in Category, Stale(e, k)'
                 PROVE  Stale(e, k) /\ ~(e = event /\ k = c)
      OBVIOUS
    <3>1. year' = year /\ rows' = [rows EXCEPT ![event][c] = {}]
      BY <1>12 DEF ClearBracket
    <3>2. rows'[event][c] = {}
      BY <2>1, <3>1 DEF TypeOK
    <3>3. ~(e = event /\ k = c)
      BY <3>2 DEF Stale
    <3>4. rows'[e][k] = rows[e][k]
      BY <1>0, <2>1, <3>1, <3>3 DEF TypeOK
    <3> QED BY <3>1, <3>3, <3>4 DEF Stale
  <2>3. \A e \in Domestic : Fresh(e) => Fresh(e)'
    BY <2>2 DEF Fresh
  <2>4. StaleIsQueued'
    BY <1>12, <2>3 DEF ClearBracket, StaleIsQueued, Queued
  <2>5. FinishedIsFresh'
    <3>1. phase = "writing" /\ UNCHANGED <<phase, batch, todo, event, pending, missed, unwritten>>
      BY <1>12 DEF ClearBracket
    <3>2. \A e \in (batch \ todo) \cap Domestic : (Fresh(e) \/ e \in pending \cup missed)'
      BY <2>3, <3>1 DEF FinishedIsFresh
    <3>3. event \in Domestic \ (pending \cup missed) =>
            \A k \in Category \ (unwritten \cup uncleared') : ~Stale(event, k)'
      BY <1>12, <2>2, <3>1 DEF ClearBracket, FinishedIsFresh
    <3> QED BY <3>1, <3>2, <3>3 DEF FinishedIsFresh
  <2> QED BY <1>0, <1>12, <2>4, <2>5 DEF ClearBracket
<1>13. CASE EventDone
  <2>1. StaleIsQueued'
    BY <1>13, QuietStepKeepsStale DEF EventDone, database, Queued
  <2>2. event \in Domestic \ (pending \cup missed) => Fresh(event)
    BY <1>13 DEF EventDone, FinishedIsFresh, Fresh
  <2>3. \A e \in (batch \ todo') \cap Domestic : Fresh(e) \/ e \in pending \cup missed
    BY <1>13, <2>2 DEF EventDone, FinishedIsFresh
  <2>4. FinishedIsFresh'
    BY <1>13, <2>3 DEF EventDone, LeaveEvent, database, FinishedIsFresh, Fresh, Stale
  <2> QED BY <1>0, <1>13, <2>1, <2>4 DEF EventDone, database
<1>14. CASE MarkDone
  <2>1. \A e \in batch \cap Domestic : Fresh(e) \/ e \in pending \cup missed
    BY <1>14 DEF MarkDone, FinishedIsFresh
  <2>2. StaleIsQueued'
    BY <1>14, <2>1 DEF MarkDone, StaleIsQueued, Queued, Fresh, Stale
  <2>3. FinishedIsFresh'
    BY <1>14 DEF MarkDone, Stop, FinishedIsFresh
  <2> QED BY <1>0, <1>14, <2>2, <2>3 DEF MarkDone
<1>15. CASE WriteRefused
  <2>1. StaleIsQueued' /\ FinishedIsFresh'
    BY <1>15, QuietStepKeepsStale DEF WriteRefused, Stop, database, Queued, FinishedIsFresh
  <2> QED BY <1>0, <1>15, <2>1 DEF WriteRefused, database
<1>16. CASE Crash
  <2>1. StaleIsQueued' /\ FinishedIsFresh'
    BY <1>16, QuietStepKeepsStale DEF Crash, Stop, database, Queued, FinishedIsFresh
  <2> QED BY <1>0, <1>16, <2>1 DEF Crash, database
<1>17. CASE UNCHANGED vars
  BY <1>0, <1>17 DEF vars, database, worker, StaleIsQueued, FinishedIsFresh, Fresh, Stale, Queued
<1> QED
  BY <1>1, <1>2, <1>3, <1>4, <1>5, <1>6, <1>7, <1>8, <1>9, <1>10, <1>11, <1>12, <1>13,
     <1>14, <1>15, <1>16, <1>17 DEF Next, Roster, Drain

\* No correction is forgotten, for any number of fencers, events, crashes, merges
\* and corrections: a domestic event with a misfiled result has a queue row that
\* is not DONE, unless a long correction coalesced into a row DONE before it ended.
THEOREM NoCorrectionForgotten == Spec => []StaleIsQueued
<1>1. Init => HealingInv
  BY HealingInit
<1>2. HealingInv /\ [Next]_vars => HealingInv'
  BY HealingNext
<1>3. HealingInv => StaleIsQueued
  BY DEF HealingInv
<1> QED BY <1>1, <1>2, <1>3, PTL DEF Spec

\* What the drain has finished, and the written part of the event it is at, holds
\* only fresh results unless a new row or the history says otherwise.
THEOREM FinishedStaysFresh == Spec => []FinishedIsFresh
<1>1. Init => HealingInv
  BY HealingInit
<1>2. HealingInv /\ [Next]_vars => HealingInv'
  BY HealingNext
<1>3. HealingInv => FinishedIsFresh
  BY DEF HealingInv
<1> QED BY <1>1, <1>2, <1>3, PTL DEF Spec
-----------------------------------------------------------------------------
(* Recompute implements SelfHeal for every set of fencers, events and        *)
(* categories, under the assumption its run makes: the worker dies between   *)
(* events' writes only, no correction lands in the middle of one event,      *)
(* nothing is merged and every birth year is known.                          *)

\* The environment of the run RecomputeHeals.
Gentle == Faults \subseteq {"crash"} /\ MaxMerges = 0 /\ Unknown = {}

Stored(e) == {r \in Fencer \X Category : r[1] \in rows[e][r[2]]}
OneRow(S) == \A r, s \in S : r[1] = s[1] => r = s

\* What re-filing makes of the loaded rows.
Healed == IF event \in International THEN loaded
          ELSE {<<r[1], year[r[1]]>> : r \in loaded}

Plain   == year \in [Fencer -> Category] /\ open = {} /\ missed = {}
Filed   == \A e \in Event : OneRow(Settled(e))
Batched == /\ phase = "claiming" => batch \subseteq Queued
           /\ phase \in {"running", "years", "writing", "marking"} =>
                 batch \subseteq claimed /\ todo \subseteq batch
           /\ InCommit => event \in todo

\* Between two calls of one event's writes each bracket holds its former fencers
\* or its new ones.
Between == /\ phase = "years" => loaded = Stored(event)
           /\ phase = "writing" =>
                 /\ known = year
                 /\ unwritten \subseteq Partition /\ uncleared \cap Partition = {}
                 /\ \A c \in Category :
                       rows[event][c] = IF c \in unwritten \cup uncleared
                                        THEN {f \in Fencer : <<f, c>> \in loaded}
                                        ELSE Members(event, c)

AtomicInv == HealingInv /\ Plain /\ Filed /\ Batched /\ Between
-----------------------------------------------------------------------------
(* What the writes of one event amount to *)

LEMMA WrittenIsHealed ==
    ASSUME TypeOK, year \in [Fencer -> Category], known = year, event \in Event,
           \A c \in Category : rows[event][c] = Members(event, c)
    PROVE  Stored(event) = Healed
<1>0. loaded \subseteq Fencer \X Category
  BY DEF TypeOK
<1>1. CASE event \in International
  <2>1. \A c \in Category : Members(event, c) = {r[1] : r \in {s \in loaded : s[2] = c}}
    BY <1>1 DEF Members, Group, Target
  <2>2. ASSUME NEW r \in Fencer \X Category
        PROVE  r[1] \in rows[event][r[2]] <=> r \in loaded
    <3>1. rows[event][r[2]] = {s[1] : s \in {t \in loaded : t[2] = r[2]}}
      BY <2>1
    <3> QED BY <1>0, <3>1
  <2> QED BY <1>0, <1>1, <2>2 DEF Stored, Healed
<1>2. CASE event \notin International
  <2>1. \A c \in Category : Members(event, c) = {r[1] : r \in {s \in loaded : year[s[1]] = c}}
    BY <1>2 DEF Members, Group, Target
  <2>2. ASSUME NEW r \in Fencer \X Category
        PROVE  r[1] \in rows[event][r[2]] <=> \E s \in loaded : r = <<s[1], year[s[1]]>>
    <3>1. rows[event][r[2]] = {s[1] : s \in {t \in loaded : year[t[1]] = r[2]}}
      BY <2>1
    <3>2. r = <<r[1], r[2]>>
      OBVIOUS
    <3> QED BY <1>0, <3>1, <3>2
  <2>3. \A s \in loaded : <<s[1], year[s[1]]>> \in Fencer \X Category
    BY <1>0
  <2> QED BY <1>2, <2>2, <2>3 DEF Stored, Healed
<1> QED BY <1>1, <1>2

LEMMA HealedIsFiled ==
    ASSUME TypeOK, OneRow(loaded)
    PROVE  OneRow(Healed)
  BY DEF OneRow, Healed, TypeOK

\* A drain that leaves an event has written none of it or all of it.
LEMMA LeftWhole ==
    ASSUME AtomicInv, phase = "writing", ~HalfWritten
    PROVE  Stored(event) \in {loaded, Healed}
<1>0. TypeOK /\ Plain /\ Between /\ event \in Event
  BY DEF AtomicInv, HealingInv, TypeOK, InCommit
<1>1. CASE unwritten \cup uncleared = {}
  BY <1>0, <1>1, WrittenIsHealed DEF Plain, Between
<1>2. CASE unwritten = Partition /\ Emptied \subseteq uncleared
  <2>1. ASSUME NEW c \in Category
        PROVE  rows[event][c] = {f \in Fencer : <<f, c>> \in loaded}
    <3>1. CASE c \in unwritten \cup uncleared
      BY <1>0, <3>1 DEF Between
    <3>2. CASE c \notin unwritten \cup uncleared
      <4>1. c \notin Partition /\ c \notin Emptied
        BY <1>2, <3>2
      <4>2. Group(event, c) = {}
        BY <4>1 DEF Partition
      <4>3. rows[event][c] = {}
        BY <1>0, <3>2, <4>2 DEF Between, Members
      <4>4. ~\E f \in Fencer : <<f, c>> \in loaded
        BY <4>1 DEF Emptied
      <4> QED BY <4>3, <4>4
    <3> QED BY <3>1, <3>2
  <2>2. ASSUME NEW r \in Fencer \X Category
        PROVE  r[1] \in rows[event][r[2]] <=> r \in loaded
    <3>1. r = <<r[1], r[2]>> /\ r[1] \in Fencer /\ r[2] \in Category
      OBVIOUS
    <3> QED BY <2>1, <3>1
  <2>3. loaded \subseteq Fencer \X Category
    BY <1>0 DEF TypeOK
  <2> QED BY <2>2, <2>3 DEF Stored
<1> QED BY <1>1, <1>2 DEF HalfWritten
-----------------------------------------------------------------------------
(* The invariant the refinement rests on *)

LEMMA AtomicInit ==
    ASSUME Gentle, Init
    PROVE  AtomicInv
<1> USE RecomputeAssumption
<1>1. PICK filed \in [Event -> [Fencer -> Category]] :
        rows = [e \in Event |-> [c \in Category |-> {f \in Entrants[e] : filed[e][f] = c}]]
  BY DEF Init
<1>2. Filed
  <2>1. ASSUME NEW e \in Event, NEW r \in Settled(e)
        PROVE  r \in Fencer \X Category /\ filed[e][r[1]] = r[2]
    <3>1. r \in Fencer \X Category /\ r[1] \in rows[e][r[2]]
      BY <2>1 DEF Settled, Init
    <3>2. r[2] \in Category
      BY <3>1
    <3> QED BY <1>1, <3>1, <3>2
  <2>2. ASSUME NEW e \in Event, NEW r \in Settled(e), NEW s \in Settled(e), r[1] = s[1]
        PROVE  r = s
    <3>1. r = <<r[1], r[2]>> /\ s = <<s[1], s[2]>> /\ r[2] = s[2]
      BY <2>1, <2>2
    <3> QED BY <2>2, <3>1
  <2> QED BY <2>2 DEF Filed, OneRow
<1>3. Plain
  BY DEF Init, Gentle, Plain
<1>4. Batched /\ Between
  BY DEF Init, Batched, Between, InCommit
<1> QED BY <1>2, <1>3, <1>4, HealingInit DEF AtomicInv

\* Outside an event's writes a reader sees the stored rows.
LEMMA SettledIsStored ==
    /\ \A e : phase # "writing" => Settled(e) = Stored(e)
    /\ phase = "writing" => Settled(event) = loaded
    /\ \A e : e # event => Settled(e) = Stored(e)
  BY DEF Settled, Stored

\* Every group of the new partition is accepted: nothing has changed since the load.
LEMMA EveryGroupIsWritable ==
    ASSUME Gentle, AtomicInv, phase = "writing", NEW c \in Category
    PROVE  Writable(event, c)
<1> USE RecomputeAssumption
<1>0. /\ TypeOK /\ event \in Event /\ known = year /\ year \in [Fencer -> Category]
      /\ OneRow(loaded) /\ loaded \subseteq Fencer \X Category
  BY SettledIsStored DEF AtomicInv, HealingInv, TypeOK, InCommit, Plain, Between, Filed
<1>1. \A r, s \in Group(event, c) : r[1] = s[1] => r = s
  BY <1>0 DEF Group, OneRow
<1>2. ASSUME NEW f \in Members(event, c)
      PROVE  year[f] # Deleted /\ Admits(event, f, c)
  <2>1. PICK r \in loaded : r[1] = f /\ Target(event, f, r[2]) = c
    BY DEF Members, Group
  <2>2. f \in Fencer /\ year[f] \in Category
    BY <1>0, <2>1
  <2>3. year[f] # Deleted
    BY <2>2
  <2>4. Admits(event, f, c)
    BY <1>0, <2>1 DEF Target, Admits
  <2> QED BY <2>3, <2>4
<1> QED BY <1>1, <1>2 DEF Writable

LEMMA AtomicNext ==
    ASSUME Gentle, AtomicInv, [Next]_vars
    PROVE  AtomicInv'
<1> USE RecomputeAssumption
<1>0. /\ HealingInv' /\ TypeOK /\ TypeOK'
      /\ Plain /\ Filed /\ Batched /\ Between /\ (InCommit => event \in Event)
  BY HealingNext DEF AtomicInv, HealingInv, TypeOK
<1>g. "midCommitEdit" \notin Faults /\ "longEdit" \notin Faults /\ "midCommitCrash" \notin Faults
  BY DEF Gentle
\* A step that writes no result and neither enters nor leaves an event's writes.
<1>k. ASSUME UNCHANGED rows, phase # "writing", phase' # "writing"
      PROVE  Filed'
  BY <1>0, <1>k DEF Filed, Settled
<1>1. ASSUME NEW f \in Fencer, NEW c \in Category, Correct(f, c)
      PROVE  AtomicInv'
  <2>1. ~InCommit
    BY <1>1, <1>g DEF Correct, RosterFree
  <2>2. Plain'
    BY <1>0, <1>1 DEF Correct, Plain
  <2>3. Filed'
    BY <1>1, <2>1, <1>k DEF Correct, worker, InCommit
  <2>4. Batched' /\ Between'
    BY <1>0, <1>1, <2>1 DEF Correct, worker, InCommit, Batched, Between, Queued
  <2> QED BY <1>0, <2>2, <2>3, <2>4 DEF AtomicInv
<1>2. ASSUME NEW f \in Fencer, NEW c \in Category, BeginCorrection(f, c)
      PROVE  FALSE
  BY <1>2, <1>g DEF BeginCorrection
<1>3. CASE CommitCorrection
  BY <1>0, <1>3 DEF CommitCorrection, Plain
<1>4. ASSUME NEW s \in Fencer, NEW d \in Fencer, Merge(s, d)
      PROVE  FALSE
  BY <1>0, <1>4 DEF Merge, TypeOK, Gentle
\* A step that leaves the results and the worker alone.
<1>u. ASSUME UNCHANGED <<year, rows, pending, claimed, open, missed, phase, batch, todo,
                         event, loaded, known, unwritten, uncleared>>
      PROVE  AtomicInv'
  <2>1. Plain' /\ Batched'
    BY <1>0, <1>u DEF Plain, Batched, Queued, InCommit
  <2>2. \A e \in Event : Settled(e)' = Settled(e) /\ Stored(e)' = Stored(e)
    BY <1>u DEF Settled, Stored
  <2>3. Filed'
    BY <1>0, <2>2 DEF Filed
  <2>4. \A c \in Category : Group(event, c)' = Group(event, c)
    BY <1>u DEF Group, Target
  <2>5. Partition' = Partition /\ \A c \in Category : Members(event, c)' = Members(event, c)
    BY <2>4 DEF Partition, Members
  <2>6. Between'
    BY <1>0, <1>u, <2>2, <2>5 DEF Between, InCommit
  <2> QED BY <1>0, <2>1, <2>3, <2>6 DEF AtomicInv
<1>5. CASE BecomeQuiet
  BY <1>5, <1>u DEF BecomeQuiet, worker
<1>6. CASE CheckQuiet
  BY <1>0, <1>6, <1>k
  DEF CheckQuiet, database, AtomicInv, Plain, Batched, InCommit, Between
<1>7. CASE Select
  BY <1>0, <1>7, <1>k
  DEF Select, database, AtomicInv, Plain, Batched, InCommit, Between, Queued
<1>8. CASE Claim
  BY <1>0, <1>8, <1>k
  DEF Claim, AtomicInv, Plain, Batched, InCommit, Between, Queued
<1>9. CASE LoadRows
  <2>1. PICK e \in todo : event' = e /\ loaded' = Stored(e)
    BY <1>9 DEF LoadRows, Stored
  <2>2. Between' /\ Plain'
    BY <1>0, <1>9, <2>1 DEF LoadRows, database, Between, Stored, Plain
  <2>3. Batched'
    BY <1>0, <1>9, <2>1 DEF LoadRows, database, Batched, InCommit
  <2>4. Filed'
    BY <1>9, <1>k DEF LoadRows, database
  <2> QED BY <1>0, <2>2, <2>3, <2>4 DEF AtomicInv
<1>10. CASE LoadYears
  <2>1. /\ phase = "years" /\ phase' = "writing" /\ loaded = Stored(event)
        /\ UNCHANGED <<year, rows, pending, claimed, open, missed, batch, todo, event, loaded>>
    BY <1>0, <1>10 DEF LoadYears, database, Between
  <2>2. known' = year
    BY <1>0, <1>10 DEF LoadYears, Plain
  <2>3. Filed'
    BY <1>0, <2>1, SettledIsStored DEF Filed, Settled, Stored
  <2>4. Between'
    <3>1. unwritten' = Partition' /\ uncleared' = {c \in Category \ Partition' : rows[event][c] # {}}
      BY <1>10 DEF LoadYears
    <3>2. ASSUME NEW c \in Category
          PROVE  rows[event][c] = {f \in Fencer : <<f, c>> \in loaded}
      <4>1. rows[event][c] \subseteq Fencer
        BY <1>0, <2>1 DEF TypeOK, InCommit
      <4> QED BY <2>1, <4>1 DEF Stored
    <3>3. ASSUME NEW c \in Category, c \notin unwritten' \cup uncleared'
          PROVE  rows[event][c] = Members(event, c)'
      <4>1. rows[event][c] = {} /\ c \notin Partition'
        BY <3>1, <3>3
      <4>2. Group(event, c)' = {}
        BY <4>1 DEF Partition
      <4> QED BY <4>1, <4>2 DEF Members
    <3> QED BY <2>1, <2>2, <3>1, <3>2, <3>3 DEF Between
  <2> QED BY <1>0, <2>1, <2>3, <2>4 DEF AtomicInv, Plain, Batched, InCommit
\* A bracket write leaves the loaded rows and what they re-file to alone.
<1>w. ASSUME phase = "writing", NEW c \in Category, NEW S,
             rows' = [rows EXCEPT ![event][c] = S],
             UNCHANGED <<year, pending, claimed, open, missed, phase, batch, todo, event,
                         loaded, known>>
      PROVE  /\ Plain' /\ Filed' /\ Batched' /\ Partition' = Partition
             /\ \A k \in Category : Members(event, k)' = Members(event, k)
             /\ \A k \in Category : rows'[event][k] = IF k = c THEN S ELSE rows[event][k]
  <2>1. Plain' /\ Batched'
    BY <1>0, <1>w DEF Plain, Batched, Queued, InCommit
  <2>2. \A e \in Event : e # event => rows'[e] = rows[e]
    BY <1>0, <1>w DEF TypeOK
  <2>3. \A e \in Event : Settled(e)' = Settled(e)
    BY <1>w, <2>2 DEF Settled
  <2>4. Filed'
    BY <1>0, <2>3 DEF Filed
  <2>5. \A k \in Category : Group(event, k)' = Group(event, k)
    BY <1>w DEF Group, Target
  <2>6. \A k \in Category : rows'[event][k] = IF k = c THEN S ELSE rows[event][k]
    BY <1>0, <1>w DEF TypeOK, InCommit
  <2> QED BY <1>w, <2>1, <2>4, <2>5, <2>6 DEF Partition, Members
<1>11. ASSUME NEW c \in Category, WriteBracket(c)
       PROVE  AtomicInv'
  <2>1. /\ Plain' /\ Filed' /\ Batched' /\ Partition' = Partition
        /\ \A k \in Category : Members(event, k)' = Members(event, k)
        /\ \A k \in Category : rows'[event][k] = IF k = c THEN Members(event, c)
                                                          ELSE rows[event][k]
    BY <1>11, <1>w DEF WriteBracket
  <2>2. /\ phase = "writing" /\ c \in unwritten /\ unwritten' = unwritten \ {c}
        /\ UNCHANGED <<year, phase, event, loaded, known, uncleared>>
    BY <1>11 DEF WriteBracket
  <2>3. c \in Partition /\ c \notin uncleared
    BY <1>0, <2>2 DEF Between
  <2>4. Between'
    BY <1>0, <2>1, <2>2, <2>3 DEF Between
  <2> QED BY <1>0, <2>1, <2>4 DEF AtomicInv
<1>12. ASSUME NEW c \in Category, ClearBracket(c)
       PROVE  AtomicInv'
  <2>1. /\ Plain' /\ Filed' /\ Batched' /\ Partition' = Partition
        /\ \A k \in Category : Members(event, k)' = Members(event, k)
        /\ \A k \in Category : rows'[event][k] = IF k = c THEN {} ELSE rows[event][k]
    BY <1>12, <1>w DEF ClearBracket
  <2>2. /\ phase = "writing" /\ c \in uncleared /\ unwritten = {}
        /\ uncleared' = uncleared \ {c}
        /\ UNCHANGED <<year, phase, event, loaded, known, unwritten>>
    BY <1>12 DEF ClearBracket
  <2>3. c \notin Partition
    BY <1>0, <2>2 DEF Between
  <2>4. Members(event, c) = {}
    BY <2>3 DEF Partition, Members
  <2>5. Between'
    BY <1>0, <2>1, <2>2, <2>4 DEF Between
  <2> QED BY <1>0, <2>1, <2>5 DEF AtomicInv
\* A drain leaves an event that is wholly as it was or wholly healed.
<1>l. ASSUME UNCHANGED rows, phase = "writing" => Stored(event) \in {loaded, Healed},
             phase' # "writing"
      PROVE  Filed'
  <2>1. \A e \in Event : Settled(e)' = Stored(e)
    BY <1>l DEF Settled, Stored
  <2>2. \A e \in Event : OneRow(Stored(e))
    <3>1. CASE phase # "writing"
      BY <1>0, <3>1, SettledIsStored DEF Filed
    <3>2. CASE phase = "writing"
      <4>1. event \in Event /\ OneRow(loaded)
        BY <1>0, <3>2, SettledIsStored DEF Filed, InCommit
      <4>2. OneRow(Stored(event))
        BY <1>0, <1>l, <3>2, <4>1, HealedIsFiled
      <4> QED BY <1>0, <4>2, SettledIsStored DEF Filed
    <3> QED BY <3>1, <3>2
  <2> QED BY <2>1, <2>2 DEF Filed
<1>13. CASE EventDone
  <2>1. phase = "writing" /\ Stored(event) = Healed
    BY <1>0, <1>13, WrittenIsHealed DEF EventDone, Between, Plain, InCommit
  <2>2. Filed'
    BY <1>13, <2>1, <1>l DEF EventDone, database
  <2>3. Plain' /\ Batched' /\ Between'
    BY <1>0, <1>13 DEF EventDone, LeaveEvent, database, Plain, Batched, Between, InCommit
  <2> QED BY <1>0, <2>2, <2>3 DEF AtomicInv
<1>14. CASE MarkDone
  BY <1>0, <1>14, <1>l DEF MarkDone, Stop, AtomicInv, Plain, Batched, Between, InCommit
<1>15. CASE WriteRefused
  <2>1. PICK c \in unwritten : phase = "writing" /\ ~Writable(event, c)
    BY <1>15 DEF WriteRefused
  <2>2. c \in Category
    BY <1>0, <2>1 DEF TypeOK
  <2> QED BY <2>1, <2>2, EveryGroupIsWritable
<1>16. CASE Crash
  <2>1. ~HalfWritten
    BY <1>16, <1>g DEF Crash
  <2>2. phase = "writing" => Stored(event) \in {loaded, Healed}
    BY <2>1, LeftWhole
  <2> QED BY <1>0, <1>16, <2>2, <1>l
          DEF Crash, Stop, database, AtomicInv, Plain, Batched, Between, InCommit
<1>17. CASE UNCHANGED vars
  BY <1>17, <1>u DEF vars, database, worker
<1> QED
  BY <1>1, <1>2, <1>3, <1>4, <1>5, <1>6, <1>7, <1>8, <1>9, <1>10, <1>11, <1>12, <1>13,
     <1>14, <1>15, <1>16, <1>17 DEF Next, Roster, Drain
-----------------------------------------------------------------------------
(* The refinement *)

Results == [e \in Event |-> Settled(e)]

LEMMA HealingInitMaps ==
    ASSUME Gentle, Init
    PROVE  Healing!Init
<1> USE RecomputeAssumption
<1>1. /\ year \in [Fencer -> Category] /\ Queued = {} /\ phase = "idle"
  BY DEF Init, Gentle, Queued
<1>2. Results \in [Event -> SUBSET (Fencer \X Category)]
  BY <1>1 DEF Results, Settled
<1>3. ASSUME NEW e \in Event, NEW r \in Results[e]
      PROVE  Healing!Fits(e, r)
  <2>1. PICK filed \in [Event -> [Fencer -> Category]] :
          /\ \A o \in Event : \A f \in Entrants[o] : Admits(o, f, filed[o][f])
          /\ rows = [o \in Event |-> [c \in Category |-> {f \in Entrants[o] : filed[o][f] = c}]]
    BY DEF Init
  <2>2. r[1] \in Fencer /\ r[2] \in Category /\ r[1] \in rows[e][r[2]]
    BY <1>1, <1>3 DEF Results, Settled
  <2>3. r[1] \in Entrants[e] /\ filed[e][r[1]] = r[2]
    BY <2>1, <2>2
  <2>4. e \in International \/ year[r[1]] \in {r[2], NoCategory}
    BY <2>1, <2>3 DEF Admits
  <2>5. year[r[1]] # NoCategory
    BY <1>1, <2>2
  <2> QED BY <2>4, <2>5 DEF Healing!Fits
<1> QED BY <1>1, <1>2, <1>3 DEF Healing!Init, Results

\* A step that shows a reader nothing new.
LEMMA Stutters ==
    ASSUME year' = year, Queued' = Queued, \A e \in Event : Settled(e)' = Settled(e)
    PROVE  UNCHANGED Healing!vars
<1>1. Results' = Results
  BY DEF Results
<1> QED BY <1>1 DEF Healing!vars, Results

\* Leaving an event's writes heals it, or shows nothing new.
LEMMA LeavingHeals ==
    ASSUME AtomicInv, UNCHANGED <<year, rows>>, Queued' = Queued, phase' # "writing",
           phase = "writing" => Stored(event) \in {loaded, Healed}
    PROVE  [Healing!Next]_(Healing!vars)
<1>0. \A e \in Event : Settled(e)' = Stored(e)
  BY DEF Settled, Stored
<1>1. CASE phase # "writing" \/ Stored(event) = loaded
  <2>1. \A e \in Event : Settled(e)' = Settled(e)
    BY <1>0, <1>1, SettledIsStored
  <2> QED BY <2>1, Stutters
<1>2. CASE phase = "writing" /\ Stored(event) # loaded
  <2>1. Stored(event) = Healed /\ event \in Event \ International
    BY <1>2 DEF Healed, AtomicInv, HealingInv, TypeOK, InCommit
  <2>2. event \in Queued
    BY <1>2 DEF AtomicInv, Batched, InCommit, Queued
  <2>3. Results[event] = loaded
    BY <1>2, <2>1, SettledIsStored DEF Results
  <2>4. Results' = [Results EXCEPT ![event] =
                       {<<r[1], year[r[1]]>> : r \in Results[event]}]
    <3>1. \A e \in Event : Settled(e)' = IF e = event THEN Healed ELSE Settled(e)
      BY <1>0, <2>1, SettledIsStored
    <3>2. Healed = {<<r[1], year[r[1]]>> : r \in Results[event]}
      BY <2>1, <2>3 DEF Healed
    <3>3. Results' = [e \in Event |-> IF e = event THEN Healed ELSE Settled(e)]
      BY <3>1 DEF Results
    <3>4. Results' = [Results EXCEPT ![event] = Healed]
      BY <2>1, <3>3 DEF Results
    <3> QED BY <3>2, <3>4
  <2>5. Healing!Heal(event)
    BY <2>1, <2>2, <2>4 DEF Healing!Heal, Results
  <2> QED BY <2>1, <2>5 DEF Healing!Next
<1> QED BY <1>1, <1>2

LEMMA StepMaps ==
    ASSUME Gentle, AtomicInv, [Next]_vars
    PROVE  [Healing!Next]_(Healing!vars)
<1> USE RecomputeAssumption
<1>0. /\ TypeOK /\ StaleIsQueued /\ FinishedIsFresh
      /\ Plain /\ Filed /\ Batched /\ Between /\ (InCommit => event \in Event)
  BY DEF AtomicInv, HealingInv, TypeOK
<1>g. "midCommitEdit" \notin Faults /\ "longEdit" \notin Faults /\ "midCommitCrash" \notin Faults
  BY DEF Gentle
\* A step outside an event's writes that writes no result.
<1>k. ASSUME UNCHANGED <<year, rows>>, Queued' = Queued, phase # "writing", phase' # "writing"
      PROVE  [Healing!Next]_(Healing!vars)
  BY <1>k, Stutters DEF Settled
<1>1. ASSUME NEW f \in Fencer, NEW c \in Category, Correct(f, c)
      PROVE  [Healing!Next]_(Healing!vars)
  <2>1. ~InCommit /\ UNCHANGED <<rows, phase>>
    BY <1>1, <1>g DEF Correct, RosterFree, worker
  <2>2. \A e \in Event : Settled(e) = Stored(e) /\ Settled(e)' = Settled(e)
    BY <2>1 DEF InCommit, Settled, Stored
  <2>3. Results' = Results
    BY <2>2 DEF Results
  <2>4. Affected(f) = {e \in Event : \E d \in Category : <<f, d>> \in Results[e]}
    <3>1. \A e \in Event, d \in Category : <<f, d>> \in Results[e] <=> f \in rows[e][d]
      BY <2>2 DEF Results, Stored
    <3> QED BY <3>1 DEF Affected
  <2>5. Queued' = Queued \cup Affected(f) /\ year' = [year EXCEPT ![f] = c]
    BY <1>1 DEF Correct, Queued
  <2>6. Healing!Correct(f, c)
    BY <2>3, <2>4, <2>5 DEF Healing!Correct, Results
  <2> QED BY <2>6 DEF Healing!Next
<1>2. ASSUME NEW f \in Fencer, NEW c \in Category, BeginCorrection(f, c)
      PROVE  FALSE
  BY <1>2, <1>g DEF BeginCorrection
<1>3. CASE CommitCorrection
  BY <1>0, <1>3 DEF CommitCorrection, Plain
<1>4. ASSUME NEW s \in Fencer, NEW d \in Fencer, Merge(s, d)
      PROVE  FALSE
  BY <1>0, <1>4 DEF Merge, TypeOK, Gentle
<1>5. CASE BecomeQuiet
  BY <1>5, Stutters DEF BecomeQuiet, worker, Queued, Settled
<1>6. CASE CheckQuiet
  BY <1>6, <1>k DEF CheckQuiet, database, Queued
<1>7. CASE Select
  BY <1>7, <1>k DEF Select, database, Queued
<1>8. CASE Claim
  <2>1. Queued' = Queued
    BY <1>0, <1>8 DEF Claim, Queued, Batched
  <2> QED BY <1>8, <1>k, <2>1 DEF Claim
<1>9. CASE LoadRows
  BY <1>9, <1>k DEF LoadRows, database, Queued
<1>10. CASE LoadYears
  <2>1. \A e \in Event : Settled(e)' = Settled(e)
    BY <1>0, <1>10 DEF LoadYears, database, Between, Settled, Stored
  <2> QED BY <1>10, <2>1, Stutters DEF LoadYears, database, Queued
<1>11. ASSUME NEW c \in Category, NEW S, phase = "writing",
              rows' = [rows EXCEPT ![event][c] = S],
              UNCHANGED <<year, pending, claimed, phase, event, loaded>>
       PROVE  [Healing!Next]_(Healing!vars)
  <2>1. \A e \in Event : e # event => rows'[e] = rows[e]
    BY <1>0, <1>11 DEF TypeOK
  <2>2. \A e \in Event : Settled(e)' = Settled(e)
    BY <1>11, <2>1 DEF Settled
  <2> QED BY <1>11, <2>2, Stutters DEF Queued
<1>12. ASSUME NEW c \in Category, WriteBracket(c) \/ ClearBracket(c)
       PROVE  [Healing!Next]_(Healing!vars)
  BY <1>11, <1>12 DEF WriteBracket, ClearBracket
<1>13. CASE EventDone
  <2>1. Stored(event) = Healed
    BY <1>0, <1>13, WrittenIsHealed DEF EventDone, Between, Plain, InCommit
  <2>2. phase' # "writing" /\ UNCHANGED <<year, rows, pending, claimed>>
    BY <1>13 DEF EventDone, database
  <2> QED BY <2>1, <2>2, LeavingHeals DEF Queued
<1>14. CASE MarkDone
  <2>1. /\ phase = "marking" /\ batch \subseteq claimed /\ phase' = "idle"
        /\ UNCHANGED <<year, rows, pending>> /\ claimed' = claimed \ batch
    BY <1>0, <1>14 DEF MarkDone, Stop, Batched
  <2>2. ASSUME NEW e \in batch \ pending, NEW r \in Results[e]
        PROVE  Healing!Fits(e, r)
    <3>1. e \in Event /\ r \in Stored(e)
      BY <1>0, <2>1, <2>2, SettledIsStored DEF Results, TypeOK
    <3>2. CASE e \in Domestic
      <4>1. Fresh(e)
        BY <1>0, <2>1, <2>2, <3>2 DEF FinishedIsFresh, Plain
      <4>2. r[1] \in Fencer /\ r[2] \in Category /\ r[1] \in rows[e][r[2]]
        BY <3>1 DEF Stored
      <4>3. year[r[1]] \in {r[2], NoCategory} /\ year[r[1]] \in Category
        BY <1>0, <4>1, <4>2 DEF Fresh, Stale, Plain
      <4> QED BY <4>3 DEF Healing!Fits
    <3>3. CASE e \notin Domestic
      BY <3>1, <3>3 DEF Domestic, Healing!Fits
    <3> QED BY <3>2, <3>3
  <2>3. Queued' = Queued \ (batch \ pending) /\ batch \ pending \in SUBSET Queued
    BY <2>1 DEF Queued
  <2>4. Results' = Results
    BY <2>1 DEF Results, Settled
  <2>5. Healing!Settle(batch \ pending)
    BY <2>1, <2>2, <2>3, <2>4 DEF Healing!Settle, Results
  <2> QED BY <2>3, <2>5 DEF Healing!Next
<1>15. CASE WriteRefused
  <2>1. PICK c \in unwritten : phase = "writing" /\ ~Writable(event, c)
    BY <1>15 DEF WriteRefused
  <2>2. c \in Category
    BY <1>0, <2>1 DEF TypeOK
  <2> QED BY <2>1, <2>2, EveryGroupIsWritable
<1>16. CASE Crash
  <2>1. phase = "writing" => Stored(event) \in {loaded, Healed}
    BY <1>16, <1>g, LeftWhole DEF Crash
  <2>2. phase' = "idle" /\ UNCHANGED <<year, rows, pending, claimed>>
    BY <1>16 DEF Crash, Stop, database
  <2> QED BY <2>1, <2>2, LeavingHeals DEF Queued
<1>17. CASE UNCHANGED vars
  BY <1>17, Stutters DEF vars, database, worker, Queued, Settled
<1> QED
  BY <1>1, <1>2, <1>3, <1>4, <1>5, <1>6, <1>7, <1>8, <1>9, <1>10, <1>12, <1>13,
     <1>14, <1>15, <1>16, <1>17 DEF Next, Roster, Drain

\* For any number of fencers, events, categories, corrections and deaths between
\* events, a reader who waits for the recompute under way to end sees each event's
\* results move to the current birth years all at once or not at all, only while the
\* event is queued, and sees the event leave the queue with every result in place.
THEOREM RecomputeHealsAtomically ==
    ASSUME Gentle
    PROVE  Spec => HealsAtomically
<1>1. Init => AtomicInv
  BY AtomicInit
<1>2. AtomicInv /\ [Next]_vars => AtomicInv'
  BY AtomicNext
<1>3. Init => Healing!Init
  BY HealingInitMaps
<1>4. AtomicInv /\ [Next]_vars => [Healing!Next]_(Healing!vars)
  BY StepMaps
<1> QED BY <1>1, <1>2, <1>3, <1>4, PTL DEF Spec, Healing!Spec, HealsAtomically
=============================================================================
