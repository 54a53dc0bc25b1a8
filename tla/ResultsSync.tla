----------------------------- MODULE ResultsSync -----------------------------
(***************************************************************************)
(* The hourly results sync (ADR-119 section 4) of one event.  A scheduled  *)
(* cycle selects, begins, compares the organiser's listings with the       *)
(* latest finished CERT run and PROD, ingests and promotes when something  *)
(* changed, and records its verdict; a failure pauses the event.  Manual   *)
(* syncs, ingests and promotes run beside it.  Jobs wait for their lane:   *)
(* cert-write (compare, refresh, ingest) and prod-write (promote); nothing *)
(* serialises two cycles.  The ingest and the promote are those of         *)
(* Promotion, in fewer steps.                                              *)
(***************************************************************************)
EXTENDS Naturals, Sequences, FiniteSets

CONSTANTS
    Cycle,           \* the cycles that may be under way at once
    Watched,         \* those whose selection NothingMissed looks back to
    Manual,          \* whoever starts an ingest or a promote by hand
    Unfit,           \* the versions of the listings the gate blocks
    MaxVersion,      \* bound: versions of the listings; version 0 has nothing final
    MaxTroubles      \* bound: failures, jobs started by hand and corrections, together

ASSUME ResultsSyncAssumption ==
    /\ Manual \notin Cycle /\ Watched \subseteq Cycle
    /\ MaxVersion \in Nat
    /\ Unfit \subseteq 1..MaxVersion
    /\ MaxTroubles \in Nat

VARIABLES
    source,      \* the version the organiser's pages show
    roster,      \* the revision of PROD's roster
    prod, cert,  \* the results each database holds
    certRoster,  \* the revision of the roster CERT has taken from PROD
    runs,        \* tbl_ingest_run, oldest first
    paused,      \* tbl_results_sync_event: ts_paused_at is set
    recent,      \* a scheduled cycle began within the last twenty minutes
    cycle,       \* per cycle, its jobs' outputs
    ingest,      \* the job that holds cert-write
    promote,     \* the job that holds prod-write
    troubles     \* failures, jobs started by hand and corrections so far

vars == <<source, roster, prod, cert, certRoster, runs, paused, recent, cycle,
          ingest, promote, troubles>>

-----------------------------------------------------------------------------
(* Results are named by what determines their fingerprint. *)

Filed(v, r) == IF v = 0 THEN <<0, 0>> ELSE <<v, r>>
Results == {Filed(v, r) : v \in 0..MaxVersion, r \in 0..MaxTroubles}

Verdicts == {"unchanged", "promoted", "nothing_final", "failed", "blocked", "refused",
             "stopped", "budget"}
PausingButRefused == {"failed", "blocked", "stopped"}
Pausing == {"failed", "blocked", "refused", "stopped"}

Run == [version : 0..MaxVersion, status : {"RUNNING", "FINISHED", "FAILED", "ABANDONED"},
        gate : {"none", "passed", "blocked"}, result : Results, prior : Results,
        roster : 0..MaxTroubles, ledger : {"none", "applied", "skipped", "refused"}]
RunIds == 1..Len(runs)
Finished == {i \in RunIds : runs[i].status = "FINISHED"}
LatestFinished == IF Finished = {} THEN 0 ELSE CHOOSE i \in Finished : \A j \in Finished : j <= i

Idle == [at |-> "idle", asked |-> 0, fresh |-> {}, previous |-> 0, seen |-> <<0, 0>>,
         compared |-> "none", stop |-> "none", run |-> 0, job |-> "none", verdict |-> "unchanged"]
NoIngest == [at |-> "idle", by |-> Manual]
NoPromote == [at |-> "idle", by |-> Manual, run |-> 0, prior |-> <<0, 0>>, outcome |-> "none"]

TypeOK ==
    /\ source \in 0..MaxVersion
    /\ roster \in 0..MaxTroubles
    /\ certRoster \in 0..MaxTroubles
    /\ prod \in Results
    /\ cert \in Results
    /\ runs \in Seq(Run)
    /\ paused \in BOOLEAN
    /\ recent \in BOOLEAN
    /\ cycle \in [Cycle -> [at : {"idle", "selected", "waiting", "job", "promote", "promoting",
                                  "outcome", "record"},
                            asked : 0..MaxVersion, fresh : SUBSET RunIds, previous : 0..Len(runs),
                            seen : Results, compared : {"none", "unchanged", "promote_only", "changed"},
                            stop : {"none", "read", "refresh", "refused", "budget", "ingest"},
                            run : 0..Len(runs), job : {"none", "success", "failure"},
                            verdict : Verdicts]]
    /\ ingest \in [at : {"idle", "compare", "refresh", "open", "finish"}, by : Cycle \cup {Manual}]
    /\ promote \in [at : {"idle", "check", "apply", "record"}, by : Cycle \cup {Manual},
                    run : 0..Len(runs), prior : Results,
                    outcome : {"none", "applied", "skipped", "refused"}]
    /\ troubles \in 0..MaxTroubles

Init ==
    /\ source = 0
    /\ roster = 0
    /\ prod = <<0, 0>>
    /\ cert = <<0, 0>>
    /\ certRoster = 0
    /\ runs = <<>>
    /\ paused = FALSE
    /\ recent = FALSE
    /\ cycle = [c \in Cycle |-> Idle]
    /\ ingest = NoIngest
    /\ promote = NoPromote
    /\ troubles = 0

-----------------------------------------------------------------------------

Trouble == troubles < MaxTroubles /\ troubles' = troubles + 1
Asked(c) == IF c \in Watched THEN source ELSE 0
Goto(c, stage) == cycle' = [cycle EXCEPT ![c].at = stage]

(* The job of ingest-event.yml ends; in sync mode its cycle goes on. *)
EndIngest(stage, stop) ==
    /\ ingest' = NoIngest
    /\ cycle' = IF ingest.by = Manual THEN cycle
                ELSE [cycle EXCEPT ![ingest.by].at = stage, ![ingest.by].stop = stop]

(* The promote job ends. *)
EndPromote(result) ==
    /\ promote' = NoPromote
    /\ cycle' = [c \in Cycle |->
                    IF c = promote.by
                    THEN [cycle[c] EXCEPT !.at = "outcome", !.job = result] ELSE cycle[c]]

-----------------------------------------------------------------------------
(* The select: events, links and pauses are read, then the start recorded.  *)
(* A scheduled cycle's moment is when it was due: the runs whose ledger has *)
(* an entry may all have one since then (GitHub starts it hours late).      *)

Select(c) ==
    /\ cycle[c].at = "idle"
    /\ ~paused
    /\ \E late \in BOOLEAN :
           cycle' = [cycle EXCEPT ![c] =
               [Idle EXCEPT !.at = "selected", !.asked = Asked(c),
                            !.fresh = {i \in RunIds : late /\ runs[i].ledger # "none"}]]
    /\ UNCHANGED <<source, roster, prod, cert, certRoster, runs, paused, recent, ingest, promote, troubles>>

Begin(c) ==
    /\ cycle[c].at = "selected"
    /\ \/ /\ recent
          /\ cycle' = [cycle EXCEPT ![c] = Idle]
       \/ /\ ~recent
          /\ Goto(c, "waiting")
    /\ recent' = TRUE
    /\ UNCHANGED <<source, roster, prod, cert, certRoster, runs, paused, ingest, promote, troubles>>

(* A cycle without this event takes the twenty minutes all the same. *)
BeginOthers ==
    /\ ~recent
    /\ paused
    /\ recent' = TRUE
    /\ UNCHANGED <<source, roster, prod, cert, certRoster, runs, paused, cycle,
                   ingest, promote, troubles>>

(* sync <code>: its pause is lifted first, and no begin refuses it. *)
SelectManual(c) ==
    /\ cycle[c].at = "idle"
    /\ Trouble
    /\ paused' = FALSE
    /\ cycle' = [cycle EXCEPT ![c] = [Idle EXCEPT !.at = "waiting", !.asked = Asked(c)]]
    /\ UNCHANGED <<source, roster, prod, cert, certRoster, runs, recent, ingest,
                   promote>>

-----------------------------------------------------------------------------
(* The compare: the latest finished run and PROD's fingerprint, then the pages. *)

StartCompare(c) ==
    /\ cycle[c].at = "waiting"
    /\ ingest = NoIngest
    /\ ingest' = [at |-> "compare", by |-> c]
    /\ cycle' = [cycle EXCEPT ![c] =
           [@ EXCEPT !.at = "job", !.previous = LatestFinished, !.seen = prod]]
    /\ UNCHANGED <<source, roster, prod, cert, certRoster, runs, paused, recent, promote, troubles>>

ComparedListings(c) ==
    LET previous == cycle[c].previous
    IN  IF previous = 0 \/ runs[previous].version # source THEN "changed" ELSE "unchanged"
Compared(c) ==
    LET previous == cycle[c].previous
    IN  IF previous = 0 \/ runs[previous].version # source THEN "changed"
        ELSE IF runs[previous].result = cycle[c].seen THEN "unchanged"
        ELSE "promote_only"

Compare(c) ==
    /\ ingest.at = "compare"
    /\ ingest.by = c
    /\ \/ /\ Compared(c) = "unchanged"
          /\ cycle' = [cycle EXCEPT ![c] =
                 [@ EXCEPT !.compared = "unchanged", !.at = "outcome",
                           !.seen = <<0, 0>>, !.previous = 0, !.fresh = {}]]
          /\ ingest' = NoIngest
       \/ /\ Compared(c) = "promote_only"
          /\ cycle' = [cycle EXCEPT ![c] =
                 [@ EXCEPT !.compared = "promote_only", !.at = "promote", !.seen = <<0, 0>>]]
          /\ ingest' = NoIngest
       \/ /\ Compared(c) = "changed"   \* a run yet to open has no entry
          /\ cycle' = [cycle EXCEPT ![c] =
                 [@ EXCEPT !.compared = "changed", !.seen = <<0, 0>>, !.previous = 0, !.fresh = {}]]
          /\ ingest' = [ingest EXCEPT !.at = "refresh"]
    /\ UNCHANGED <<source, roster, prod, cert, certRoster, runs, paused, recent, promote, troubles>>

(* The read fails, or the day's FTL allowance is spent. *)
CompareFails ==
    /\ ingest.at = "compare"
    /\ Trouble
    /\ \E stop \in {"read", "budget"} : EndIngest("outcome", stop)
    /\ UNCHANGED <<source, roster, prod, cert, certRoster, runs, paused, recent, promote>>

-----------------------------------------------------------------------------
(* The refresh of CERT from PROD and the recorded ingest. *)

StartIngest ==
    /\ ingest = NoIngest
    /\ Trouble
    /\ ingest' = [at |-> "refresh", by |-> Manual]
    /\ UNCHANGED <<source, roster, prod, cert, certRoster, runs, paused, recent, cycle,
                   promote>>

Refresh ==
    /\ ingest.at = "refresh"
    /\ certRoster' = roster
    /\ cert' = Filed(cert[1], roster)
    /\ ingest' = [ingest EXCEPT !.at = "open"]
    /\ UNCHANGED <<source, roster, prod, runs, paused, recent, cycle, promote,
                   troubles>>

(* It stops for the administrator, or refuses. *)
RefreshStops ==
    /\ ingest.at = "refresh"
    /\ Trouble
    /\ \E stop \in {"refresh", "refused"} : EndIngest("outcome", stop)
    /\ UNCHANGED <<source, roster, prod, cert, certRoster, runs, paused, recent, promote>>

(* The listings are read, then the run opens; an older RUNNING row is abandoned. *)
OpenRun ==
    /\ ingest.at = "open"
    /\ runs' = Append([i \in RunIds |-> IF runs[i].status = "RUNNING"
                                        THEN [runs[i] EXCEPT !.status = "ABANDONED"] ELSE runs[i]],
                      [version |-> source, status |-> "RUNNING", gate |-> "none", result |-> cert,
                       prior |-> cert, roster |-> certRoster, ledger |-> "none"])
    /\ ingest' = [ingest EXCEPT !.at = "finish"]
    /\ cycle' = [c \in Cycle |-> IF c = ingest.by THEN [cycle[c] EXCEPT !.run = Len(runs) + 1]
                                 ELSE cycle[c]]
    /\ UNCHANGED <<source, roster, prod, cert, certRoster, paused, recent, promote,
                   troubles>>

ReadFails ==
    /\ ingest.at = "open"
    /\ Trouble
    /\ \E stop \in {"ingest", "budget"} : EndIngest("outcome", stop)
    /\ UNCHANGED <<source, roster, prod, cert, certRoster, runs, paused, recent, promote>>

Current == Len(runs)
CloseSwapped(gate, status) == runs' = [runs EXCEPT ![Current].status = status, ![Current].gate = gate,
                                                   ![Current].result = cert']
Close(status, gate) == runs' = [runs EXCEPT ![Current].status = status, ![Current].gate = gate,
                                            ![Current].result = cert']
GateOf(v) == IF v \notin Unfit /\ certRoster = roster THEN "passed" ELSE "blocked"

(* Nothing final: nothing is written, and the run closes FINISHED. *)
NothingFinal ==
    /\ ingest.at = "finish"
    /\ runs[Current].version = 0
    /\ UNCHANGED cert
    /\ Close("FINISHED", "none")
    /\ paused' = FALSE
    /\ EndIngest("outcome", "none")
    /\ UNCHANGED <<source, roster, prod, certRoster, recent, promote, troubles>>

(* One apply; the run closes, the pause is lifted, the gate runs. *)
FinishRun ==
    /\ ingest.at = "finish"
    /\ runs[Current].version # 0
    /\ cert' = Filed(runs[Current].version, certRoster)
    /\ Close("FINISHED", GateOf(runs[Current].version))
    /\ paused' = FALSE
    /\ IF GateOf(runs[Current].version) = "passed" THEN EndIngest("promote", "none")
       ELSE EndIngest("outcome", "ingest")
    /\ UNCHANGED <<source, roster, prod, certRoster, recent, promote, troubles>>

(* The run is FINISHED and the job fails: the drain, the gate's reads (no     *)
(* verdict then) or the report after it.                                      *)
FailsAfterApply ==
    /\ ingest.at = "finish"
    /\ runs[Current].version # 0
    /\ Trouble
    /\ cert' = Filed(runs[Current].version, certRoster)
    /\ \E gate \in {"none", GateOf(runs[Current].version)} : Close("FINISHED", gate)
    /\ paused' = FALSE
    /\ EndIngest("outcome", "ingest")
    /\ UNCHANGED <<source, roster, prod, certRoster, recent, promote>>

(* A finished run whose pause could not be lifted. *)
PauseNotLifted ==
    /\ ingest.at = "finish"
    /\ runs[Current].version \notin {0} \cup Unfit
    /\ certRoster = roster
    /\ Trouble
    /\ cert' = Filed(runs[Current].version, certRoster)
    /\ Close("FINISHED", "passed")
    /\ EndIngest("promote", "none")
    /\ UNCHANGED <<source, roster, prod, certRoster, paused, recent, promote>>

(* A listing is refused, or the apply. *)
IngestFails ==
    /\ ingest.at = "finish"
    /\ Trouble
    /\ UNCHANGED cert
    /\ Close("FAILED", "none")
    /\ EndIngest("outcome", "ingest")
    /\ UNCHANGED <<source, roster, prod, certRoster, paused, recent, promote>>

(* The job ends and its run stays RUNNING: a call to the database between the *)
(* open and the close fails, or the closing itself, before or after the apply. *)
Unclosed ==
    /\ ingest.at = "finish"
    /\ Trouble
    /\ cert' \in {cert} \cup {Filed(v, certRoster) : v \in {runs[Current].version} \ {0}}
    /\ EndIngest("outcome", "ingest")
    /\ UNCHANGED <<source, roster, prod, certRoster, runs, paused, recent, promote>>

-----------------------------------------------------------------------------
(* The promote job replays the latest run, whoever asked for it. *)

StartPromote(who) ==
    /\ promote = NoPromote
    /\ RunIds # {}
    /\ promote' = [NoPromote EXCEPT !.at = "check", !.by = who]
    /\ UNCHANGED <<source, roster, prod, cert, certRoster, runs, paused, recent, ingest>>

PromoteOfCycle(c) ==
    /\ cycle[c].at = "promote"
    /\ StartPromote(c)
    /\ Goto(c, "promoting")
    /\ UNCHANGED troubles

PromoteByHand == StartPromote(Manual) /\ Trouble /\ UNCHANGED cycle

(* The gate, PROD's known prior, the source and the master data. *)
Known(i) == {<<0, 0>>, runs[i].prior} \cup {runs[j].result : j \in Finished}
Replayable(i) ==
    /\ runs[i].status = "FINISHED"
    /\ runs[i].version \notin {0} \cup Unfit
    /\ runs[i].version = source
    /\ runs[i].result = cert
    /\ runs[i].roster = roster
    /\ prod \in Known(i)

PromoteCheck ==
    /\ promote.at = "check"
    /\ promote' = IF Replayable(Current)
                  THEN [promote EXCEPT !.at = "apply", !.run = Current, !.prior = prod]
                  ELSE [promote EXCEPT !.at = "record", !.run = Current, !.outcome = "refused"]
    /\ UNCHANGED <<source, roster, prod, cert, certRoster, runs, paused, recent, cycle,
                   ingest, troubles>>

PromoteApply ==
    /\ promote.at = "apply"
    /\ LET r == runs[promote.run]
           outcome == IF prod = r.result THEN "skipped"
                      ELSE IF prod = promote.prior /\ roster = r.roster THEN "applied"
                      ELSE "refused"
       IN  /\ prod' = IF outcome = "applied" THEN r.result ELSE prod
           /\ promote' = [promote EXCEPT !.at = "record", !.outcome = outcome]
    /\ UNCHANGED <<source, roster, cert, certRoster, runs, paused, recent, cycle,
                   ingest, troubles>>

(* The ledger's entry, then the job's end; an entry not written is only logged. *)
PromoteRecord ==
    /\ promote.at = "record"
    /\ LET result == IF promote.outcome = "refused" THEN "failure" ELSE "success"
       IN  \/ /\ runs' = [runs EXCEPT ![promote.run].ledger = promote.outcome]
              /\ promote' = NoPromote
              /\ cycle' = [c \in Cycle |->
                     [cycle[c] EXCEPT
                         !.fresh = IF cycle[c].at = "idle" THEN @ ELSE @ \cup {promote.run},
                         !.at = IF c = promote.by THEN "outcome" ELSE @,
                         !.job = IF c = promote.by THEN result ELSE @]]
              /\ UNCHANGED troubles
           \/ Trouble /\ EndPromote(result) /\ UNCHANGED runs
    /\ UNCHANGED <<source, roster, prod, cert, certRoster, paused, recent, ingest>>

(* The job fails before its replay (the run's commit), or dies. *)
PromoteDies ==
    /\ promote.at # "idle"
    /\ Trouble
    /\ EndPromote("failure")
    /\ UNCHANGED <<source, roster, prod, cert, certRoster, runs, paused, recent, ingest>>

-----------------------------------------------------------------------------
(* The outcome: the verdict; then the cycle's row and the pause. *)

JudgedRun(c) == IF cycle[c].run # 0 THEN cycle[c].run
                ELSE IF cycle[c].compared = "promote_only" THEN cycle[c].previous ELSE 0
Read(i) == IF runs[i].status \in {"FINISHED", "FAILED"} THEN runs[i].version ELSE 0

VerdictOfPromote(c, i) ==
    LET current == runs[i].ledger = "none" \/ i \in cycle[c].fresh
        reached == current /\ runs[i].ledger \in {"applied", "skipped"}
    IN  IF current /\ runs[i].ledger = "refused" THEN "refused"
        ELSE IF cycle[c].job = "success" /\ reached THEN "promoted"
        ELSE "failed"

\* Mutant: nothing final is looked for before failure.
VerdictFinalFirst(c) ==
    LET i == JudgedRun(c)
        promoteOnly == cycle[c].compared = "promote_only"
    IN  CASE cycle[c].stop = "refresh" -> "stopped"
          [] cycle[c].stop = "refused" -> "failed"
          [] cycle[c].stop = "budget" /\ i = 0 -> "budget"
          [] cycle[c].stop \in {"read", "ingest"} /\ i = 0 -> "failed"
          [] cycle[c].compared = "unchanged" -> "unchanged"
          [] OTHER ->
                IF i = 0 THEN "failed"
                ELSE IF ~promoteOnly /\ runs[i].gate = "none" /\ Read(i) = 0 THEN "nothing_final"
                ELSE IF runs[i].status = "FAILED" THEN "failed"
                ELSE IF ~promoteOnly /\ runs[i].gate # "passed" THEN "blocked"
                ELSE VerdictOfPromote(c, i)

Verdict(c) ==
    LET i == JudgedRun(c)
        promoteOnly == cycle[c].compared = "promote_only"
    IN  CASE cycle[c].stop = "refresh" -> "stopped"
          [] cycle[c].stop = "refused" -> "failed"
          [] cycle[c].stop = "budget" /\ i = 0 -> "budget"
          [] cycle[c].stop \in {"read", "ingest"} /\ i = 0 -> "failed"
          [] cycle[c].compared = "unchanged" -> "unchanged"
          [] OTHER ->
                IF i = 0 THEN "failed"
                ELSE IF runs[i].status = "FAILED" THEN "failed"
                ELSE IF ~promoteOnly /\ runs[i].gate = "none" /\ Read(i) = 0 THEN "nothing_final"
                ELSE IF ~promoteOnly /\ runs[i].gate # "passed" THEN "blocked"
                ELSE VerdictOfPromote(c, i)

Judge(c) ==
    /\ cycle[c].at = "outcome"
    /\ cycle' = [cycle EXCEPT ![c] = [Idle EXCEPT !.at = "record", !.asked = cycle[c].asked,
                                                 !.stop = cycle[c].stop, !.run = cycle[c].run,
                                                 !.verdict = Verdict(c)]]
    /\ UNCHANGED <<source, roster, prod, cert, certRoster, runs, paused, recent, ingest, promote, troubles>>

Record(c) ==
    /\ cycle[c].at = "record"
    /\ paused' = (paused \/ cycle[c].verdict \in Pausing)
    /\ cycle' = [cycle EXCEPT ![c] = Idle]
    /\ UNCHANGED <<source, roster, prod, cert, certRoster, runs, recent, ingest,
                   promote, troubles>>

(* The outcome job dies: the event is not paused. *)
OutcomeDies(c) ==
    /\ cycle[c].at \in {"outcome", "record"}
    /\ Trouble
    /\ cycle' = [cycle EXCEPT ![c] = Idle]
    /\ UNCHANGED <<source, roster, prod, cert, certRoster, runs, paused, recent, ingest, promote>>

-----------------------------------------------------------------------------
(* The world. *)

SourceMoves ==
    /\ source < MaxVersion
    /\ source' = source + 1
    /\ UNCHANGED <<roster, prod, cert, certRoster, runs, paused, recent, cycle,
                   ingest, promote, troubles>>

(* A correction on PROD and the drain that files PROD's results anew. *)
Correct ==
    /\ Trouble
    /\ roster' = roster + 1
    /\ prod' = Filed(prod[1], roster + 1)
    /\ UNCHANGED <<source, cert, certRoster, runs, paused, recent, cycle, ingest, promote>>

TwentyMinutes ==
    /\ recent
    /\ recent' = FALSE
    /\ UNCHANGED <<source, roster, prod, cert, certRoster, runs, paused, cycle, ingest,
                   promote, troubles>>

Scheduled(c) == Select(c) \/ Begin(c)
Job(c) == StartCompare(c) \/ Compare(c) \/ PromoteOfCycle(c) \/ Judge(c) \/ Record(c)
IngestJob == Refresh \/ OpenRun \/ NothingFinal \/ FinishRun
PromoteJob == PromoteCheck \/ PromoteApply \/ PromoteRecord
Faults == \/ CompareFails \/ RefreshStops \/ ReadFails \/ FailsAfterApply \/ PauseNotLifted
          \/ IngestFails \/ Unclosed \/ PromoteDies
          \/ \E c \in Cycle : OutcomeDies(c)
Hands == StartIngest \/ PromoteByHand \/ \E c \in Cycle : SelectManual(c)
World == SourceMoves \/ Correct \/ TwentyMinutes \/ BeginOthers

Next ==
    \/ \E c \in Cycle : Scheduled(c) \/ Job(c)
    \/ IngestJob \/ PromoteJob \/ Hands \/ Faults \/ World

(* The crons and the bot start cycles for ever, a job that holds its lane *)
(* goes on, and time passes.                                              *)
Fairness ==
    /\ \A c \in Cycle : WF_vars(Scheduled(c)) /\ WF_vars(Job(c))
    /\ WF_vars(IngestJob)
    /\ WF_vars(PromoteJob)
    /\ WF_vars(TwentyMinutes)

Spec == Init /\ [][Next]_vars /\ Fairness

-----------------------------------------------------------------------------
(* Properties. *)

(* A cycle that says "unchanged" or "promoted" missed nothing: PROD holds     *)
(* listings at least as new as those the organiser showed when the cycle was  *)
(* selected, whatever overlapping cycles, manual runs and failures came       *)
(* between its reads (run_compare's order of reads, _said's use of the ledger). *)
NothingMissed ==
    \A c \in Watched :
        cycle[c].at = "record" /\ cycle[c].verdict \in {"unchanged", "promoted"}
            => prod[1] >= cycle[c].asked

(* Once listings, corrections, failures and hands rest, PROD shows the        *)
(* listings the organiser shows, unless the event is paused or nothing is     *)
(* final: a job that died, a promote that was lost or an outcome that was     *)
(* never recorded does not leave the event behind for good (compare, _said).  *)
CatchesUp == <>[](paused \/ source = 0 \/ prod[1] = source)

(* Any failure pauses the event (ADR-119 section 4, D8): a cycle whose ingest   *)
(* job failed, FTL's spent allowance aside, ends with the event paused,        *)
(* whatever hands, other cycles and their runs did between its failure and its *)
(* outcome.  Aside are an outcome job that dies itself, and a run that was     *)
(* never closed: that one reads as "nothing final yet".                       *)
Failure == {"read", "refresh", "refused", "ingest"}
LeftOpen(i) == i # 0 /\ runs[i].status \in {"RUNNING", "ABANDONED"}
FailurePauses ==
    [][\A c \in Cycle :
          cycle[c].at = "record" /\ cycle[c].stop \in Failure /\ cycle'[c].at = "idle"
              => paused' \/ OutcomeDies(c) \/ LeftOpen(cycle[c].run)]_vars
=============================================================================
