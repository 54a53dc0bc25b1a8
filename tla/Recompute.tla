----------------------------- MODULE Recompute -----------------------------
(***************************************************************************)
(* The self-healing recompute of ADR-072.  A correction of master data (a  *)
(* birth year, a merge of two fencers) queues every event the fencer has a *)
(* result in; a scheduled worker waits for the roster to be quiet, claims  *)
(* the queue, re-files each claimed event's stored results by the current  *)
(* birth years, one bracket per remote call, and marks the rows DONE.      *)
(*                                                                         *)
(* The database (roster, results, queue) is shared: administrators, public *)
(* registrations and migrations write the roster while the worker runs.    *)
(* Workers are serialised by a workflow lane, so there is one at a time.   *)
(***************************************************************************)
EXTENDS Naturals, FiniteSets

CONSTANTS
    Fencer,         \* tbl_fencer.id_fencer
    Event,          \* tbl_event.id_event: numbers, a batch is worked in ascending order
    Category,       \* enum_age_category; one weapon and gender per event
    NoCategory,     \* a fencer whose birth year is unknown
    Deleted,        \* a fencer row a merge removed
    International,  \* events of an international type: never re-filed (ADR-105)
    Entrants,       \* [Event -> SUBSET Fencer]: who was ingested in each event
    Unknown,        \* fencers ingested without a birth year
    Faults,         \* the hazards of the environment that may happen, see Hazards
    MaxEdits, MaxCrashes, MaxMerges   \* bounds on the environment's actions

\* crash:          the worker dies while no event is half written
\* midCommitCrash: the worker dies between two bracket writes of one event
\* midCommitEdit:  the roster changes between an event's load and its last write
\* longEdit:       a correction's transaction stays open across worker calls
NoEvent == 0

Hazards == {"crash", "midCommitCrash", "midCommitEdit", "longEdit"}

ASSUME RecomputeAssumption ==
    /\ Event \subseteq Nat \ {NoEvent}
    /\ NoCategory \notin Category /\ Deleted \notin Category /\ NoCategory # Deleted
    /\ International \subseteq Event
    /\ Entrants \in [Event -> SUBSET Fencer]
    /\ Unknown \subseteq Fencer
    /\ Faults \subseteq Hazards
    /\ MaxEdits \in Nat /\ MaxCrashes \in Nat /\ MaxMerges \in Nat

VARIABLES
    year,       \* the category the roster's birth year gives each fencer
    rows,       \* rows[e][c]: the fencers with a result in event e, category c
    pending,    \* events with a PENDING row of tbl_recompute_queue
    claimed,    \* events with CLAIMED rows
    quiet,      \* the watermark is older than the debounce window
    open,       \* the correction whose transaction is still open, if any
    missed,     \* history: events a committed correction touched without queueing
    phase,      \* where the worker is
    batch,      \* the ids claim_recompute_batch returned
    todo,       \* those not yet recomputed
    event,      \* the one being recomputed, or NoEvent
    loaded,     \* its stored rows as LoadCommitted read them: <<fencer, category>>
    known,      \* the categories of the birth years it read after them
    unwritten,  \* categories of the new partition not yet written
    uncleared,  \* categories the new partition empties, not yet cleared
    edits, crashes, merges

database == <<year, rows, pending, claimed, quiet, open, missed>>
worker   == <<phase, batch, todo, event, loaded, known, unwritten, uncleared>>
bounds   == <<edits, crashes, merges>>
vars     == <<database, worker, bounds>>

Domestic == Event \ International
Queued   == pending \cup claimed
-----------------------------------------------------------------------------
(* The stored results *)

\* No birth year read.
Unread == [f \in Fencer |-> NoCategory]

Affected(f) == {e \in Event : \E c \in Category : f \in rows[e][c]}

\* trg_assert_result_vcat: a result is refused in a category its fencer's birth
\* year contradicts, unless it carries its source bracket's category.
Admits(e, f, c) == e \in International \/ year[f] \in {c, NoCategory}

\* Mutant: the international guard of _commit_recompute is lost.
TargetAlwaysRefiled(e, f, c) == known[f]

\* The rows _commit_recompute files under category c.
Target(e, f, c) == IF e \in International THEN c ELSE known[f]
Group(e, c)     == {r \in loaded : Target(e, r[1], r[2]) = c}
Members(e, c)   == {r[1] : r \in Group(e, c)}

\* fn_ingest_tournament_results accepts the group: one row per fencer
\* (uq_result_fencer_tournament), every fencer exists, the guard admits each.
Writable(e, c) ==
    /\ \A r, s \in Group(e, c) : r[1] = s[1] => r = s
    /\ \A f \in Members(e, c) : year[f] # Deleted /\ Admits(e, f, c)

\* The new partition of the loaded rows, and the categories it empties.
Partition == {c \in Category : Group(event, c) # {}}
Emptied   == {c \in Category \ Partition : \E f \in Fencer : <<f, c>> \in loaded}

InCommit    == phase \in {"years", "writing"}
HalfWritten == /\ phase = "writing"
               /\ ~(unwritten = Partition /\ Emptied \subseteq uncleared)
               /\ unwritten \cup uncleared # {}
-----------------------------------------------------------------------------
Init ==
    /\ year \in [Fencer -> Category \cup {NoCategory}]
    /\ \A f \in Fencer : year[f] = NoCategory <=> f \in Unknown
    /\ \E filed \in [Event -> [Fencer -> Category]] :
          /\ \A e \in Event : \A f \in Entrants[e] : Admits(e, f, filed[e][f])
          /\ rows = [e \in Event |-> [c \in Category |->
                       {f \in Entrants[e] : filed[e][f] = c}]]
    /\ pending = {} /\ claimed = {}
    /\ quiet = TRUE
    /\ open = {} /\ missed = {}
    /\ phase = "idle"
    /\ batch = {} /\ todo = {} /\ event = NoEvent
    /\ loaded = {} /\ known = Unread
    /\ unwritten = {} /\ uncleared = {}
    /\ edits = 0 /\ crashes = 0 /\ merges = 0
-----------------------------------------------------------------------------
(* The roster's writers.  Each correction updates the watermark's one row, *)
(* so a second one waits until an open transaction ends.                   *)

RosterFree == open = {} /\ (InCommit => "midCommitEdit" \in Faults)

\* Mutant: the trigger dedups against CLAIMED rows as well as PENDING ones.
CorrectSkipsClaimed(f, c) ==
    /\ RosterFree /\ edits < MaxEdits
    /\ year[f] # Deleted
    /\ year' = [year EXCEPT ![f] = c]
    /\ pending' = pending \cup (Affected(f) \ claimed)
    /\ missed' = missed \ pending'
    /\ quiet' = FALSE
    /\ edits' = edits + 1
    /\ UNCHANGED <<rows, claimed, open, worker, crashes, merges>>

\* A birth year or nationality changes in one short transaction: the trigger
\* inserts a PENDING row for each affected event that has none.
Correct(f, c) ==
    /\ RosterFree /\ edits < MaxEdits
    /\ year[f] # Deleted
    /\ year' = [year EXCEPT ![f] = c]
    /\ pending' = pending \cup Affected(f)
    /\ missed' = missed \ pending'
    /\ quiet' = FALSE
    /\ edits' = edits + 1
    /\ UNCHANGED <<rows, claimed, open, worker, crashes, merges>>

\* The same in a transaction that stays open.  ON CONFLICT DO NOTHING leaves an
\* existing PENDING row alone and takes no lock on it; nothing is visible yet.
BeginCorrection(f, c) ==
    /\ RosterFree /\ edits < MaxEdits
    /\ "longEdit" \in Faults
    /\ year[f] # Deleted
    /\ open' = {[fencer |-> f, category |-> c, inserted |-> Affected(f) \ pending]}
    /\ edits' = edits + 1
    /\ UNCHANGED <<year, rows, pending, claimed, quiet, missed, worker, crashes, merges>>

CommitCorrection ==
    /\ InCommit => "midCommitEdit" \in Faults
    /\ \E t \in open :
          /\ year' = [year EXCEPT ![t.fencer] = t.category]
          /\ pending' = pending \cup t.inserted
          /\ missed' = (missed \cup Affected(t.fencer)) \ pending'
    /\ quiet' = FALSE
    /\ open' = {}
    /\ UNCHANGED <<rows, claimed, worker, bounds>>

\* fn_merge_fencers: both sides' events are queued, the duplicate's results are
\* re-pointed (a collision in one tournament keeps the survivor's), its row goes.
\* The guard also fires on the re-pointed rows; its refusal undoes the merge.
Merge(s, d) ==
    /\ RosterFree /\ merges < MaxMerges
    /\ s # d /\ year[s] # Deleted /\ year[d] # Deleted
    /\ \A e \in Event, c \in Category :
          d \in rows[e][c] /\ s \notin rows[e][c] => Admits(e, s, c)
    /\ rows' = [e \in Event |-> [c \in Category |->
                  IF d \in rows[e][c] THEN (rows[e][c] \ {d}) \cup {s} ELSE rows[e][c]]]
    /\ year' = [year EXCEPT ![d] = Deleted]
    /\ pending' = pending \cup Affected(s) \cup Affected(d)
    /\ missed' = missed \ pending'
    /\ quiet' = FALSE
    /\ merges' = merges + 1
    /\ UNCHANGED <<claimed, open, worker, edits, crashes>>

\* The debounce window passes without another change.
BecomeQuiet ==
    /\ ~quiet
    /\ quiet' = TRUE
    /\ UNCHANGED <<year, rows, pending, claimed, open, missed, worker, bounds>>
-----------------------------------------------------------------------------
(* The worker: one action per remote call of drain_recompute_queue *)

\* The event's local data go with the call that worked on it,
LeaveEvent == /\ event' = NoEvent
              /\ loaded' = {} /\ known' = Unread
              /\ unwritten' = {} /\ uncleared' = {}

\* and the rest when the drain ends, returning or raising.
Stop == /\ phase' = "idle"
        /\ batch' = {} /\ todo' = {}
        /\ LeaveEvent

\* The watermark is read; within the window the drain ends with nothing claimed.
CheckQuiet ==
    /\ phase = "idle" /\ quiet
    /\ phase' = "selecting"
    /\ UNCHANGED <<database, batch, todo, event, loaded, known, unwritten, uncleared, bounds>>

\* Mutant: only PENDING rows are claimed, as before the stranded-row amendment.
SelectPending ==
    /\ phase = "selecting"
    /\ batch' = pending
    /\ phase' = IF pending = {} THEN "idle" ELSE "claiming"
    /\ UNCHANGED <<database, todo, event, loaded, known, unwritten, uncleared, bounds>>

\* claim_recompute_batch, first call: the ids of every row not DONE.
Select ==
    /\ phase = "selecting"
    /\ batch' = Queued
    /\ phase' = IF Queued = {} THEN "idle" ELSE "claiming"
    /\ UNCHANGED <<database, todo, event, loaded, known, unwritten, uncleared, bounds>>

\* Second call: their rows become CLAIMED, those added in between included.
Claim ==
    /\ phase = "claiming"
    /\ claimed' = claimed \cup batch
    /\ pending' = pending \ batch
    /\ todo' = batch
    /\ phase' = "running"
    /\ UNCHANGED <<year, rows, quiet, open, missed, batch, event, loaded, known,
                   unwritten, uncleared, bounds>>

\* fetch_event_results of the next event, in ascending id order: the rows first,
LoadRows ==
    /\ phase = "running"
    /\ \E e \in todo :
          /\ \A o \in todo : e <= o
          /\ event' = e
          /\ loaded' = {r \in Fencer \X Category : r[1] \in rows[e][r[2]]}
    /\ phase' = "years"
    /\ UNCHANGED <<database, batch, todo, known, unwritten, uncleared, bounds>>

\* Mutant: a merged-away fencer's birth year is read as a value.
LoadYearsOfDeleted ==
    /\ phase = "years"
    /\ UNCHANGED <<database, batch, todo, event, loaded, bounds>>
    /\ known' = year
    /\ unwritten' = Partition'
    /\ uncleared' = {c \in Category \ unwritten' : rows[event][c] # {}}
    /\ phase' = "writing"

\* then the birth years (a fencer gone meanwhile reads as unknown).  A category
\* that holds rows and receives none is cleared after the others are written.
LoadYears ==
    /\ phase = "years"
    /\ UNCHANGED <<database, batch, todo, event, loaded, bounds>>
    /\ known' = [f \in Fencer |-> IF year[f] = Deleted THEN NoCategory ELSE year[f]]
    /\ unwritten' = Partition'
    /\ uncleared' = {c \in Category \ unwritten' : rows[event][c] # {}}
    /\ phase' = "writing"

\* Mutant: the function upserts without deleting the bracket's former rows.
WriteBracketUpsert(c) ==
    /\ phase = "writing" /\ c \in unwritten
    /\ Writable(event, c)
    /\ rows' = [rows EXCEPT ![event][c] = @ \cup Members(event, c)]
    /\ unwritten' = unwritten \ {c}
    /\ UNCHANGED <<year, pending, claimed, quiet, open, missed, phase, batch, todo,
                   event, loaded, known, uncleared, bounds>>

\* One atomic fn_ingest_tournament_results.  The brackets come in the order of
\* the rows, which no ORDER BY fixes.
WriteBracket(c) ==
    /\ phase = "writing" /\ c \in unwritten
    /\ Writable(event, c)
    /\ rows' = [rows EXCEPT ![event][c] = Members(event, c)]
    /\ unwritten' = unwritten \ {c}
    /\ UNCHANGED <<year, pending, claimed, quiet, open, missed, phase, batch, todo,
                   event, loaded, known, uncleared, bounds>>

ClearBracket(c) ==
    /\ phase = "writing" /\ unwritten = {} /\ c \in uncleared
    /\ rows' = [rows EXCEPT ![event][c] = {}]
    /\ uncleared' = uncleared \ {c}
    /\ UNCHANGED <<year, pending, claimed, quiet, open, missed, phase, batch, todo,
                   event, loaded, known, unwritten, bounds>>

EventDone ==
    /\ phase = "writing" /\ unwritten = {} /\ uncleared = {}
    /\ todo' = todo \ {event}
    /\ phase' = IF todo' = {} THEN "marking" ELSE "running"
    /\ LeaveEvent
    /\ UNCHANGED <<database, batch, bounds>>

\* mark_recompute_done: only CLAIMED rows, so a row queued meanwhile stays.
MarkDone ==
    /\ phase = "marking"
    /\ claimed' = claimed \ batch
    /\ Stop
    /\ UNCHANGED <<year, rows, pending, quiet, open, missed, bounds>>

\* A refused write raises out of the drain: the batch stays CLAIMED.
WriteRefused ==
    /\ phase = "writing"
    /\ \E c \in unwritten : ~Writable(event, c)
    /\ Stop
    /\ UNCHANGED <<database, bounds>>

\* The job dies or is cancelled at any point.
Crash ==
    /\ phase # "idle" /\ crashes < MaxCrashes
    /\ (IF HalfWritten THEN "midCommitCrash" ELSE "crash") \in Faults
    /\ Stop
    /\ crashes' = crashes + 1
    /\ UNCHANGED <<database, edits, merges>>
-----------------------------------------------------------------------------
Roster == \/ \E f \in Fencer, c \in Category : Correct(f, c) \/ BeginCorrection(f, c)
          \/ CommitCorrection
          \/ \E s, d \in Fencer : Merge(s, d)

Drain == \/ CheckQuiet \/ Select \/ Claim \/ LoadRows \/ LoadYears
         \/ \E c \in Category : WriteBracket(c) \/ ClearBracket(c)
         \/ EventDone \/ MarkDone \/ WriteRefused

Next == Roster \/ BecomeQuiet \/ Drain \/ Crash

Spec == Init /\ [][Next]_vars

\* The window passes, the cron starts a drain again and again, and a running
\* drain is not paused for ever.  Corrections and crashes are never obliged.
Fairness == WF_vars(BecomeQuiet) /\ WF_vars(Drain) /\ WF_vars(CommitCorrection)

FairSpec == Spec /\ Fairness
-----------------------------------------------------------------------------
(* Properties *)

Phases == {"idle", "selecting", "claiming", "running", "years", "writing", "marking"}

\* Every variable stays in its domain (the tables' column types).
TypeOK ==
    /\ year \in [Fencer -> Category \cup {NoCategory, Deleted}]
    /\ rows \in [Event -> [Category -> SUBSET Fencer]]
    /\ pending \subseteq Event /\ claimed \subseteq Event
    /\ quiet \in BOOLEAN
    /\ open \subseteq [fencer : Fencer, category : Category, inserted : SUBSET Event]
    /\ missed \subseteq Event
    /\ phase \in Phases
    /\ batch \subseteq Event /\ todo \subseteq Event /\ event \in Event \cup {NoEvent}
    /\ InCommit => event \in Event
    /\ loaded \subseteq Fencer \X Category
    /\ known \in [Fencer -> Category \cup {NoCategory}]
    /\ unwritten \subseteq Category /\ uncleared \subseteq Category
    /\ edits \in 0..MaxEdits /\ crashes \in 0..MaxCrashes /\ merges \in 0..MaxMerges

\* A domestic result filed where its fencer's birth year does not put it.
Stale(e, c) == \E f \in rows[e][c] : year[f] \notin {c, NoCategory}
Fresh(e)    == \A c \in Category : ~Stale(e, c)

\* No correction is forgotten: an event with a result filed under a birth year
\* the roster no longer holds has a queue row that is not DONE, whatever the worker
\* was doing when the correction, a merge or a crash came.  The one exception: a
\* correction in a long transaction that coalesced into a row DONE before it ended.
StaleIsQueued == \A e \in Domestic : Fresh(e) \/ e \in Queued \/ e \in missed

\* Why StaleIsQueued survives MarkDone: an event the drain has finished, and the
\* part of the current one already written, holds only fresh results unless a new
\* PENDING row has come meanwhile.  "marking" is reached with nothing left to do.
FinishedIsFresh ==
    /\ phase \in {"running", "years", "writing", "marking"} =>
          \A e \in (batch \ todo) \cap Domestic : Fresh(e) \/ e \in pending \cup missed
    /\ phase = "writing" /\ event \in Domestic \ (pending \cup missed) =>
          \A c \in Category \ (unwritten \cup uncleared) : ~Stale(event, c)
    /\ phase = "marking" => todo = {}

\* The event's results as a reader sees them once the recompute under way has
\* either not started or completed.
Settled(e) == IF phase = "writing" /\ e = event THEN loaded
              ELSE {r \in Fencer \X Category : r[1] \in rows[e][r[2]]}

\* The worker implements SelfHeal: one event's recompute, however many calls it
\* takes, is one step that re-files all of its results.
Healing == INSTANCE SelfHeal WITH
              results <- [e \in Event |-> Settled(e)],
              due     <- Queued

HealsAtomically == Healing!Spec

\* Once corrections stop, the worker empties the queue and every domestic
\* result is where its fencer's birth year puts it.
QueueDrains == <>[](Queued = {} /\ \A e \in Domestic : Fresh(e))
=============================================================================
