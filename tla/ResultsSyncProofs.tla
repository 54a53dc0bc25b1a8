------------------------- MODULE ResultsSyncProofs -------------------------
(***************************************************************************)
(* Proofs about the results sync.  DomainInv gives the types.  SyncInv is   *)
(* the argument of NothingMissed: what PROD shows never gets older, and     *)
(* what a cycle read and asked for is no newer than what it will say.       *)
(* PauseInv is the argument of FailurePauses: the job that holds a lane is  *)
(* the one its cycle waits for, so a stopped ingest has no promote, and a   *)
(* run of it that was closed read something final or says so; its verdict   *)
(* pauses then and is what the cycle records.                               *)
(***************************************************************************)
EXTENDS ResultsSync, FiniteSetTheorems, WellFoundedInduction, TLAPS

\* No revision of the roster without the correction that made it.
Corrected == roster <= troubles

\* A job past its first step has a run.
Started ==
    /\ ingest.at = "finish" \/ promote.at # "idle" => RunIds # {}
    /\ promote.at \in {"apply", "record"} => promote.run \in RunIds

\* Nothing is ahead of what the organiser shows.
NothingAhead ==
    /\ cert[1] <= source /\ prod[1] <= source
    /\ \A i \in RunIds : runs[i].version <= source

\* A FINISHED run's result is of the listings it read; the run of an ingest under
\* way is still RUNNING, and one with nothing final meets an empty CERT.
RunsSound ==
    /\ \A i \in Finished : runs[i].result[1] = runs[i].version
    /\ ingest.at = "finish" =>
          /\ runs[Current].status = "RUNNING"
          /\ runs[Current].version = 0 => cert[1] = 0

\* What the promote job knows: PROD's prior is no newer than the run it applies,
\* and what it or the ledger calls applied or skipped has reached PROD.
PromoteSound ==
    /\ promote.at = "apply" =>
          promote.run \in Finished /\ promote.prior[1] <= runs[promote.run].version
    /\ promote.at = "record" /\ promote.outcome \in {"applied", "skipped"} =>
          prod[1] >= runs[promote.run].version
    /\ \A i \in RunIds : runs[i].ledger \in {"applied", "skipped"} => prod[1] >= runs[i].version

\* What a cycle has read is no newer than what it compares or says now.
SoundCycle(c) ==
    /\ cycle[c].at \in {"idle", "selected", "waiting"} => cycle[c].compared # "promote_only"
    /\ cycle[c].asked <= source /\ cycle[c].seen[1] <= prod[1]
    /\ cycle[c].previous # 0 => cycle[c].previous \in Finished
    /\ cycle[c].run # 0 => runs[cycle[c].run].version >= cycle[c].asked
    /\ cycle[c].compared = "unchanged" => prod[1] >= cycle[c].asked
    /\ cycle[c].compared = "promote_only" =>
          cycle[c].previous # 0 /\ runs[cycle[c].previous].version >= cycle[c].asked
    /\ cycle[c].at = "record" /\ cycle[c].verdict \in {"unchanged", "promoted"} =>
          prod[1] >= cycle[c].asked
CycleSound == \A c \in Cycle : SoundCycle(c)

DomainInv == TypeOK /\ Corrected /\ Started

SyncInv == DomainInv /\ NothingAhead /\ RunsSound /\ PromoteSound /\ CycleSound

\* A job that holds a lane is the job its cycle waits for, and the run of an ingest
\* under way is no other cycle's.
Waits(c) ==
    /\ ingest.at # "idle" /\ ingest.by = c =>
          cycle[c].at = "job" /\ cycle[c].run = (IF ingest.at = "finish" THEN Current ELSE 0)
    /\ promote.at # "idle" /\ promote.by = c => cycle[c].at = "promoting"
    /\ ingest.at = "finish" /\ cycle[c].run = Current => ingest.by = c

\* What the outcome leaves of a cycle.
Judged(c) == [Idle EXCEPT !.at = "record", !.asked = cycle[c].asked, !.stop = cycle[c].stop,
                          !.run = cycle[c].run, !.verdict = Verdict(c)]

\* A cycle whose ingest stopped compared nothing that needs no ingest, has no
\* promote, and if its run is FINISHED, something was final; its verdict pauses.
Stopped(c) ==
    /\ cycle[c].at \in {"idle", "selected", "waiting"} => cycle[c].run = 0
    /\ cycle[c].at \in {"idle", "selected", "waiting", "record"} => cycle[c].compared = "none"
    /\ cycle[c].at \notin {"outcome", "record"} => cycle[c].stop = "none"
    /\ cycle[c].at # "outcome" => cycle[c].job = "none"
    /\ cycle[c].at = "record" /\ cycle[c].stop \in Failure =>
          cycle[c].verdict \in Pausing \/ LeftOpen(cycle[c].run)
    /\ cycle[c].at = "job" => cycle[c].compared \in {"none", "changed"}
    /\ cycle[c].stop # "none" => cycle[c].job = "none" /\ cycle[c].compared \in {"none", "changed"}
    /\ cycle[c].stop \in {"read", "ingest"} /\ cycle[c].run \in Finished =>
          runs[cycle[c].run].version # 0

PauseInv == \A c \in Cycle : Waits(c) /\ Stopped(c)

\* Results are pairs whose first part is the version of the listings.
LEMMA FiledVersion ==
    ASSUME NEW v \in 0..MaxVersion, NEW r \in 0..MaxTroubles
    PROVE  Filed(v, r) \in Results /\ Filed(v, r)[1] = v
BY DEF Results, Filed

LEMMA ResultVersion ==
    ASSUME NEW x \in Results
    PROVE  x[1] \in 0..MaxVersion
BY DEF Results, Filed

LEMMA NothingIsAResult == <<0, 0>> \in Results
<1>1. 0 \in 0..MaxVersion /\ 0 \in 0..MaxTroubles
  BY ResultsSyncAssumption
<1> QED BY <1>1 DEF Results, Filed

\* A cycle's outputs when there are n runs.
Outputs(n) == [at : {"idle", "selected", "waiting", "job", "promote", "promoting",
                     "outcome", "record"},
               asked : 0..MaxVersion, fresh : SUBSET (1..n), previous : 0..n,
               seen : Results, compared : {"none", "unchanged", "promote_only", "changed"},
               stop : {"none", "read", "refresh", "refused", "budget", "ingest"},
               run : 0..n, job : {"none", "success", "failure"},
               verdict : Verdicts]

LEMMA OutputsGrow == ASSUME NEW n \in Nat, NEW m \in Nat, n <= m PROVE Outputs(n) \subseteq Outputs(m)
BY DEF Outputs

\* Steps of a cycle keep the outputs' domains.
Stages == {"idle", "selected", "waiting", "job", "promote", "promoting", "outcome", "record"}
Stops == {"none", "read", "refresh", "refused", "budget", "ingest"}
JobResults == {"none", "success", "failure"}

LEMMA OutputsStop ==
    ASSUME NEW n \in Nat, NEW o \in Outputs(n), NEW stage \in Stages, NEW stop \in Stops
    PROVE  [o EXCEPT !.at = stage, !.stop = stop] \in Outputs(n)
BY DEF Outputs, Stages, Stops

LEMMA OutputsJob ==
    ASSUME NEW n \in Nat, NEW o \in Outputs(n), NEW stage \in Stages, NEW job \in JobResults
    PROVE  [o EXCEPT !.at = stage, !.job = job] \in Outputs(n)
BY DEF Outputs, Stages, JobResults

LEMMA OutputsRecorded ==
    ASSUME NEW n \in Nat, NEW o \in Outputs(n), NEW fresh \in SUBSET (1..n), NEW stage \in Stages,
           NEW job \in JobResults
    PROVE  [o EXCEPT !.fresh = fresh, !.at = stage, !.job = job] \in Outputs(n)
BY DEF Outputs, Stages, JobResults

LEMMA OutputsStage ==
    ASSUME NEW n \in Nat, NEW o \in Outputs(n), NEW stage \in Stages
    PROVE  [o EXCEPT !.at = stage] \in Outputs(n)
BY DEF Outputs, Stages

LEMMA CycleType == TypeOK => Len(runs) \in Nat /\ cycle \in [Cycle -> Outputs(Len(runs))]
BY DEF TypeOK, Outputs, RunIds

LEMMA IdleType == ASSUME NEW n \in Nat PROVE Idle \in Outputs(n)
BY NothingIsAResult, ResultsSyncAssumption DEF Idle, Outputs, Verdicts

LEMMA JudgedType ==
    ASSUME NEW n \in Nat, NEW c \in Cycle, cycle \in [Cycle -> Outputs(n)]
    PROVE  Judged(c) \in Outputs(n)
<1>1. Verdict(c) \in Verdicts
  BY DEF Verdict, VerdictOfPromote, Verdicts
<1> QED BY <1>1, IdleType DEF Judged, Outputs

LEMMA JudgedFields ==
    ASSUME NEW c \in Cycle, NEW n, cycle \in [Cycle -> Outputs(n)], Judge(c)
    PROVE  /\ cycle' = [cycle EXCEPT ![c] = Judged(c)]
           /\ cycle[c].at = "outcome" /\ cycle'[c].at = "record" /\ cycle'[c].asked = cycle[c].asked
           /\ cycle'[c].stop = cycle[c].stop /\ cycle'[c].run = cycle[c].run
           /\ cycle'[c].verdict = Verdict(c) /\ cycle'[c].previous = 0 /\ cycle'[c].seen = <<0, 0>>
           /\ cycle'[c].compared = "none" /\ cycle'[c].job = "none"
<1>1. cycle' = [cycle EXCEPT ![c] = Judged(c)] /\ cycle[c].at = "outcome"
  BY DEF Judge, Judged
<1>2. cycle'[c] = Judged(c)
  BY <1>1
<1> QED BY <1>1, <1>2 DEF Judged, Idle

\* Closing a run and entering it in the ledger leave the runs' number and ids.
LEMMA CloseType ==
    ASSUME TypeOK, RunIds # {}, cert' \in Results,
           NEW status \in {"RUNNING", "FINISHED", "FAILED", "ABANDONED"},
           NEW gate \in {"none", "passed", "blocked"}, Close(status, gate)
    PROVE  /\ runs' \in Seq(Run) /\ Len(runs') = Len(runs)
           /\ \A i \in RunIds : i # Current => runs'[i] = runs[i]
           /\ runs'[Current] = [runs[Current] EXCEPT !.status = status, !.gate = gate, !.result = cert']
<1>1. runs \in Seq(Run) /\ Len(runs) \in Nat /\ Current \in 1..Len(runs) /\ Current = Len(runs)
  BY DEF TypeOK, RunIds, Current
<1>2. runs[Current] \in Run
  BY <1>1
<1>3. [runs[Current] EXCEPT !.status = status, !.gate = gate, !.result = cert'] \in Run
  BY <1>2 DEF Run
<1>4. runs' = [runs EXCEPT ![Current] = [runs[Current] EXCEPT !.status = status, !.gate = gate,
                                                            !.result = cert']]
  BY <1>1, <1>2 DEF Close, Run
<1>5. runs' \in Seq(Run) /\ Len(runs') = Len(runs)
  BY <1>1, <1>3, <1>4
<1>6. runs \in [1..Len(runs) -> Run]
  BY <1>1
<1> DEFINE closed == [runs[Current] EXCEPT !.status = status, !.gate = gate, !.result = cert']
<1>7. /\ \A i \in RunIds : i # Current => runs'[i] = runs[i]
      /\ runs'[Current] = closed
  <2> HIDE DEF closed
  <2>1. runs' = [runs EXCEPT ![Current] = closed]
    BY <1>4 DEF closed
  <2> QED BY <1>1, <1>6, <2>1 DEF RunIds
<1> QED BY <1>5, <1>7

LEMMA EndIngestType ==
    ASSUME TypeOK, NEW stage \in {"outcome", "promote"}, NEW stop \in Stops,
           EndIngest(stage, stop)
    PROVE  /\ cycle' \in [Cycle -> Outputs(Len(runs))]
           /\ ingest' = NoIngest
           /\ \A c \in Cycle : cycle'[c] = IF c = ingest.by
                                            THEN [cycle[c] EXCEPT !.at = stage, !.stop = stop]
                                            ELSE cycle[c]
<1>1. cycle \in [Cycle -> Outputs(Len(runs))] /\ Len(runs) \in Nat
  BY CycleType
<1>2. ingest.by \in Cycle \cup {Manual}
  BY DEF TypeOK
<1>3. ASSUME NEW c \in Cycle PROVE [cycle[c] EXCEPT !.at = stage, !.stop = stop] \in Outputs(Len(runs))
  BY <1>1, OutputsStop DEF Stages
<1>4. CASE ingest.by = Manual
  BY <1>1, <1>4, ResultsSyncAssumption DEF EndIngest
<1>5. CASE ingest.by \in Cycle
  <2>1. ingest.by # Manual
    BY <1>5, ResultsSyncAssumption
  <2>2. cycle' = [cycle EXCEPT ![ingest.by] =
                     [cycle[ingest.by] EXCEPT !.at = stage, !.stop = stop]]
    BY <1>1, <1>5, <2>1 DEF EndIngest, Outputs
  <2> QED BY <1>1, <1>3, <1>5, <2>2 DEF EndIngest
<1> QED BY <1>2, <1>4, <1>5

LEMMA EndPromoteType ==
    ASSUME TypeOK, NEW result \in JobResults, EndPromote(result)
    PROVE  /\ cycle' \in [Cycle -> Outputs(Len(runs))]
           /\ promote' = NoPromote
           /\ \A c \in Cycle : cycle'[c] = IF c = promote.by
                                            THEN [cycle[c] EXCEPT !.at = "outcome", !.job = result]
                                            ELSE cycle[c]
<1>1. cycle \in [Cycle -> Outputs(Len(runs))] /\ Len(runs) \in Nat
  BY CycleType
<1>2. ASSUME NEW c \in Cycle PROVE [cycle[c] EXCEPT !.at = "outcome", !.job = result] \in Outputs(Len(runs))
  BY <1>1, OutputsJob DEF Stages
<1> QED BY <1>1, <1>2 DEF EndPromote

Parts == /\ source \in 0..MaxVersion /\ roster \in 0..MaxTroubles /\ certRoster \in 0..MaxTroubles
         /\ prod \in Results /\ cert \in Results
         /\ runs \in Seq(Run) /\ paused \in BOOLEAN /\ recent \in BOOLEAN
         /\ cycle \in [Cycle -> Outputs(Len(runs))]
         /\ troubles \in 0..MaxTroubles
IngestPart == ingest \in [at : {"idle", "compare", "refresh", "open", "finish"}, by : Cycle \cup {Manual}]
Claims(n) == [at : {"idle", "check", "apply", "record"}, by : Cycle \cup {Manual},
              run : 0..n, prior : Results, outcome : {"none", "applied", "skipped", "refused"}]
PromotePart == promote \in Claims(Len(runs))

LEMMA ClaimsOutcome ==
    ASSUME NEW n \in Nat, NEW p \in Claims(n), NEW o \in {"none", "applied", "skipped", "refused"}
    PROVE  [p EXCEPT !.at = "record", !.outcome = o] \in Claims(n)
BY DEF Claims

LEMMA NoPromoteType == ASSUME NEW n \in Nat PROVE NoPromote \in Claims(n)
BY NothingIsAResult DEF NoPromote, Claims

LEMMA TypeParts == TypeOK <=> Parts /\ IngestPart /\ PromotePart
BY DEF TypeOK, Parts, IngestPart, PromotePart, Claims, Outputs, RunIds

LEMMA TypePartsNext == Parts' /\ IngestPart' /\ PromotePart' => TypeOK'
BY DEF TypeOK, Parts, IngestPart, PromotePart, Claims, Outputs, RunIds

LEMMA DomainInit == Init => DomainInv
<1> SUFFICES ASSUME Init PROVE DomainInv
  OBVIOUS
<1>1. Len(runs) = 0 /\ runs \in Seq(Run) /\ 0 \in 0..MaxVersion /\ 0 \in 0..MaxTroubles
  BY ResultsSyncAssumption DEF Init
<1>2. Parts
  BY <1>1, IdleType, NothingIsAResult DEF Init, Parts
<1>3. IngestPart /\ PromotePart /\ Corrected /\ Started
  BY <1>1, NoPromoteType DEF Init, IngestPart, PromotePart, NoIngest, NoPromote, Corrected, Started
<1> QED BY <1>2, <1>3, TypeParts DEF DomainInv

\* A bounded, non-empty set of numbers has a largest.
LEMMA LargestExists ==
    ASSUME NEW n \in Nat, NEW S, S \subseteq 1..n, S # {}
    PROVE  \E s \in S : \A t \in S : t <= s
<1> DEFINE U == {s..n : s \in S}
<1>1. U \subseteq FiniteSubsetsOf(1..n) /\ U # {}
  <2>1. \A s \in S : IsFiniteSet(s..n) /\ s..n \subseteq 1..n
    BY FS_Interval
  <2> QED BY <2>1 DEF FiniteSubsetsOf
<1>2. PICK u \in U : \A v \in U : <<v, u>> \notin StrictSubsetOrdering(1..n)
  BY <1>1, WFMin, FS_StrictSubsetOrderingWellFounded
<1>3. PICK s \in S : u = s..n
  OBVIOUS
<1>4. ASSUME NEW t \in S, ~(t <= s) PROVE FALSE
  <2>1. s \in 1..n /\ t \in 1..n /\ t > s
    BY <1>4
  <2>2. t..n \subseteq s..n /\ s \in s..n /\ s \notin t..n /\ s..n \subseteq 1..n
    BY <2>1
  <2>3. <<t..n, s..n>> \in StrictSubsetOrdering(1..n)
    BY <2>2 DEF StrictSubsetOrdering
  <2> QED BY <1>2, <1>3, <2>3
<1> QED BY <1>4

\* The latest finished run is one, when there is one.
LEMMA LatestFinishedType ==
    ASSUME TypeOK
    PROVE  LatestFinished \in 0..Len(runs) /\ (LatestFinished # 0 => LatestFinished \in Finished)
<1>1. Len(runs) \in Nat /\ Finished \subseteq 1..Len(runs)
  BY CycleType DEF Finished, RunIds
<1>2. CASE Finished = {}
  BY <1>1, <1>2 DEF LatestFinished
<1>3. CASE Finished # {}
  <2>1. \E i \in Finished : \A j \in Finished : j <= i
    BY <1>1, <1>3, LargestExists
  <2>2. LatestFinished \in Finished
    BY <1>3, <2>1 DEF LatestFinished
  <2> QED BY <1>1, <2>2
<1> QED BY <1>2, <1>3

USE DEF Stages, Stops, JobResults

\* Cycles' own steps.
LEMMA TypeCycleSteps ==
    ASSUME TypeOK, Corrected, NEW c \in Cycle, Scheduled(c) \/ Job(c) \/ SelectManual(c) \/ OutcomeDies(c)
    PROVE  TypeOK' /\ Corrected'
<1> DEFINE n == Len(runs)
<1>0. /\ n \in Nat /\ cycle \in [Cycle -> Outputs(n)] /\ cycle[c] \in Outputs(n)
      /\ Parts /\ IngestPart /\ PromotePart
  BY CycleType, TypeParts
<1>1. Idle \in Outputs(n) /\ Asked(c) \in 0..MaxVersion
  BY <1>0, IdleType, ResultsSyncAssumption DEF Parts, Asked
<1>2. CASE Select(c)
  <2>1. PICK late \in BOOLEAN : cycle' = [cycle EXCEPT ![c] =
               [Idle EXCEPT !.at = "selected", !.asked = Asked(c),
                            !.fresh = {i \in RunIds : late /\ runs[i].ledger # "none"}]]
    BY <1>2 DEF Select
  <2>2. [Idle EXCEPT !.at = "selected", !.asked = Asked(c),
                     !.fresh = {i \in RunIds : late /\ runs[i].ledger # "none"}] \in Outputs(n)
    BY <1>0, <1>1 DEF Outputs, RunIds
  <2>3. cycle' \in [Cycle -> Outputs(n)]
    BY <1>0, <2>1, <2>2
  <2> QED BY <1>0, <1>2, <2>3, TypePartsNext DEF Select, Parts, IngestPart, PromotePart, Corrected
<1>3. CASE Begin(c)
  <2>1. [cycle[c] EXCEPT !.at = "waiting"] \in Outputs(n)
    BY <1>0, OutputsStage
  <2>2. cycle' \in [Cycle -> Outputs(n)]
    BY <1>0, <1>1, <1>3, <2>1 DEF Begin, Goto
  <2> QED BY <1>0, <1>3, <2>2, TypePartsNext DEF Begin, Parts, IngestPart, PromotePart, Corrected
<1>4. CASE SelectManual(c)
  <2>1. [Idle EXCEPT !.at = "waiting", !.asked = Asked(c)] \in Outputs(n)
    BY <1>1 DEF Outputs
  <2>2. cycle' \in [Cycle -> Outputs(n)]
    BY <1>0, <1>4, <2>1 DEF SelectManual
  <2>3. troubles' \in 0..MaxTroubles /\ troubles' >= troubles
    BY <1>0, <1>4, ResultsSyncAssumption DEF SelectManual, Trouble, Parts
  <2>4. /\ UNCHANGED <<source, roster, prod, cert, certRoster, runs, recent, ingest, promote>>
        /\ paused' \in BOOLEAN
    BY <1>4 DEF SelectManual
  <2> QED BY <1>0, <2>2, <2>3, <2>4, TypePartsNext, ResultsSyncAssumption
          DEF Parts, IngestPart, PromotePart, Corrected
<1>5. CASE StartCompare(c)
  <2>1. [cycle[c] EXCEPT !.at = "job", !.previous = LatestFinished, !.seen = prod] \in Outputs(n)
    BY <1>0, LatestFinishedType DEF Outputs, Parts
  <2>2. cycle' \in [Cycle -> Outputs(n)]
    BY <1>0, <1>5, <2>1 DEF StartCompare
  <2>3. IngestPart'
    BY <1>5 DEF StartCompare, IngestPart
  <2>4. UNCHANGED <<source, roster, prod, cert, certRoster, runs, paused, recent, promote, troubles>>
    BY <1>5 DEF StartCompare
  <2> QED BY <1>0, <2>2, <2>3, <2>4, TypePartsNext DEF Parts, PromotePart, Corrected
<1>6. CASE Compare(c)
  <2>0. 0 \in 0..n /\ {} \in SUBSET (1..n) /\ <<0, 0>> \in Results
    BY <1>0, NothingIsAResult
  <2>1. [cycle[c] EXCEPT !.compared = "unchanged", !.at = "outcome",
                         !.seen = <<0, 0>>, !.previous = 0, !.fresh = {}] \in Outputs(n)
    BY <1>0, <2>0 DEF Outputs
  <2>2. [cycle[c] EXCEPT !.compared = "promote_only", !.at = "promote", !.seen = <<0, 0>>]
          \in Outputs(n)
    BY <1>0, <2>0 DEF Outputs
  <2>3. [cycle[c] EXCEPT !.compared = "changed", !.seen = <<0, 0>>, !.previous = 0, !.fresh = {}]
          \in Outputs(n)
    BY <1>0, <2>0 DEF Outputs
  <2>5. cycle' \in [Cycle -> Outputs(n)]
    BY <1>0, <1>6, <2>1, <2>2, <2>3 DEF Compare
  <2>6. IngestPart'
    BY <1>0, <1>6 DEF Compare, IngestPart, NoIngest
  <2> QED BY <1>0, <1>6, <2>5, <2>6, TypePartsNext DEF Compare, Parts, PromotePart, Corrected
<1>7. CASE PromoteOfCycle(c)
  <2>1. [cycle[c] EXCEPT !.at = "promoting"] \in Outputs(n)
    BY <1>0, OutputsStage
  <2>2. cycle' \in [Cycle -> Outputs(n)]
    BY <1>0, <1>7, <2>1 DEF PromoteOfCycle, Goto
  <2>3. PromotePart'
    BY <1>0, <1>7, NoPromoteType DEF PromoteOfCycle, StartPromote, NoPromote, PromotePart, Claims
  <2> QED BY <1>0, <1>7, <2>2, <2>3, TypePartsNext
          DEF PromoteOfCycle, StartPromote, Parts, IngestPart, Corrected
<1>8. CASE Judge(c)
  <2>1. Judged(c) \in Outputs(n)
    BY <1>0, JudgedType
  <2>2. cycle' \in [Cycle -> Outputs(n)]
    BY <1>0, <1>8, <2>1, JudgedFields
  <2> QED BY <1>0, <1>8, <2>2, TypePartsNext DEF Judge, Parts, IngestPart, PromotePart, Corrected
<1>9. CASE Record(c)
  <2>1. cycle' \in [Cycle -> Outputs(n)] /\ paused' \in BOOLEAN
    BY <1>0, <1>1, <1>9 DEF Record, Parts
  <2> QED BY <1>0, <1>9, <2>1, TypePartsNext DEF Record, Parts, IngestPart, PromotePart, Corrected
<1>10. CASE OutcomeDies(c)
  <2>1. cycle' \in [Cycle -> Outputs(n)]
    BY <1>0, <1>1, <1>10 DEF OutcomeDies
  <2>2. troubles' \in 0..MaxTroubles /\ troubles' >= troubles
    BY <1>0, <1>10, ResultsSyncAssumption DEF OutcomeDies, Trouble, Parts
  <2> QED BY <1>0, <1>10, <2>1, <2>2, TypePartsNext, ResultsSyncAssumption
          DEF OutcomeDies, Parts, IngestPart, PromotePart, Corrected
<1> QED BY <1>2, <1>3, <1>4, <1>5, <1>6, <1>7, <1>8, <1>9, <1>10 DEF Scheduled, Job

\* The trouble that a failure, a hand or a correction counts as.
LEMMA TroubleType ==
    ASSUME Parts, Trouble
    PROVE  troubles' \in 0..MaxTroubles /\ troubles' >= troubles
BY ResultsSyncAssumption DEF Trouble, Parts

\* A run that opens: the older rows keep their values but for RUNNING ones.
LEMMA OpenRunType ==
    ASSUME TypeOK, OpenRun
    PROVE  /\ runs' \in Seq(Run) /\ Len(runs') = Len(runs) + 1
           /\ \A i \in RunIds : runs'[i] = IF runs[i].status = "RUNNING"
                                           THEN [runs[i] EXCEPT !.status = "ABANDONED"] ELSE runs[i]
           /\ runs'[Len(runs) + 1] =
                 [version |-> source, status |-> "RUNNING", gate |-> "none", result |-> cert,
                  prior |-> cert, roster |-> certRoster, ledger |-> "none"]
           /\ cycle' \in [Cycle -> Outputs(Len(runs'))]
           /\ \A c \in Cycle : cycle'[c] = IF c = ingest.by
                                           THEN [cycle[c] EXCEPT !.run = Len(runs) + 1] ELSE cycle[c]
<1> DEFINE older == [i \in RunIds |-> IF runs[i].status = "RUNNING"
                                      THEN [runs[i] EXCEPT !.status = "ABANDONED"] ELSE runs[i]]
           row == [version |-> source, status |-> "RUNNING", gate |-> "none", result |-> cert,
                   prior |-> cert, roster |-> certRoster, ledger |-> "none"]
<1>1. runs \in Seq(Run) /\ Len(runs) \in Nat /\ RunIds = 1..Len(runs)
  BY DEF TypeOK, RunIds
<1>2. \A i \in RunIds : runs[i] \in Run
  BY <1>1
<1>3. \A i \in RunIds : [runs[i] EXCEPT !.status = "ABANDONED"] \in Run
  BY <1>2 DEF Run
<1>4. older \in [1..Len(runs) -> Run]
  BY <1>1, <1>2, <1>3
<1>5. older \in Seq(Run) /\ Len(older) = Len(runs)
  <2> HIDE DEF older
  <2> QED BY <1>1, <1>4
<1>6. row \in Run
  BY DEF Run, TypeOK
<1>7. runs' = Append(older, row)
  BY DEF OpenRun
<1>8. /\ runs' \in Seq(Run) /\ Len(runs') = Len(runs) + 1
      /\ \A i \in RunIds : runs'[i] = older[i]
      /\ runs'[Len(runs) + 1] = row
  <2> HIDE DEF older, row
  <2> QED BY <1>1, <1>5, <1>6, <1>7
<1>9. cycle' = [c \in Cycle |-> IF c = ingest.by THEN [cycle[c] EXCEPT !.run = Len(runs) + 1]
                                ELSE cycle[c]]
  BY DEF OpenRun
<1>10. \A c \in Cycle : cycle[c] \in Outputs(Len(runs) + 1)
  BY <1>1, CycleType, OutputsGrow
<1>11. ASSUME NEW c \in Cycle PROVE [cycle[c] EXCEPT !.run = Len(runs) + 1] \in Outputs(Len(runs) + 1)
  BY <1>1, <1>10 DEF Outputs
<1>12. cycle' \in [Cycle -> Outputs(Len(runs'))]
  <2> HIDE DEF older, row
  <2> QED BY <1>8, <1>9, <1>10, <1>11
<1> QED BY <1>8, <1>9, <1>12

\* The ways an ingest that has opened its run ends.
LEMMA FinishType ==
    ASSUME TypeOK, ingest.at = "finish", RunIds # {},
           NothingFinal \/ FinishRun \/ FailsAfterApply \/ PauseNotLifted \/ IngestFails \/ Unclosed
    PROVE  /\ cert' \in Results
           /\ runs' \in Seq(Run) /\ Len(runs') = Len(runs)
           /\ paused' \in BOOLEAN
           /\ cycle' \in [Cycle -> Outputs(Len(runs'))]
           /\ ingest' = NoIngest
           /\ UNCHANGED <<source, roster, prod, certRoster, recent, promote>>
<1>1. Parts /\ Len(runs) \in Nat /\ runs[Current] \in Run
  BY CycleType, TypeParts DEF Parts, Current, RunIds
<1>2. runs[Current].version \in 0..MaxVersion /\ certRoster \in 0..MaxTroubles /\ cert \in Results
  BY <1>1 DEF Run, Parts
<1>3. Filed(runs[Current].version, certRoster) \in Results
  BY <1>2, FiledVersion
<1>4. GateOf(runs[Current].version) \in {"none", "passed", "blocked"}
  BY DEF GateOf
<1>5. UNCHANGED <<source, roster, prod, certRoster, recent, promote>> /\ cert' \in Results
      /\ paused' \in BOOLEAN
  BY <1>1, <1>2, <1>3 DEF NothingFinal, FinishRun, FailsAfterApply, PauseNotLifted, IngestFails, Unclosed, Parts
<1>6. \E stage \in {"outcome", "promote"}, stop \in Stops : EndIngest(stage, stop)
  BY DEF NothingFinal, FinishRun, FailsAfterApply, PauseNotLifted, IngestFails, Unclosed
<1>7. runs' = runs \/ \E status \in {"RUNNING", "FINISHED", "FAILED", "ABANDONED"},
                         gate \in {"none", "passed", "blocked"} : Close(status, gate)
  BY <1>4 DEF NothingFinal, FinishRun, FailsAfterApply, PauseNotLifted, IngestFails, Unclosed
<1>8. runs' \in Seq(Run) /\ Len(runs') = Len(runs)
  BY <1>1, <1>5, <1>7, CloseType DEF Parts
<1>9. cycle' \in [Cycle -> Outputs(Len(runs))] /\ ingest' = NoIngest
  BY <1>6, EndIngestType
<1> QED BY <1>5, <1>8, <1>9

LEMMA TypeJobSteps ==
    ASSUME DomainInv, IngestJob \/ PromoteJob \/ Faults \/ Hands \/ World
    PROVE  TypeOK' /\ Corrected'
<1> DEFINE n == Len(runs)
<1>0. /\ n \in Nat /\ cycle \in [Cycle -> Outputs(n)] /\ Parts /\ IngestPart /\ PromotePart
      /\ TypeOK /\ Corrected /\ Started /\ RunIds = 1..n
  BY CycleType, TypeParts DEF DomainInv, RunIds
<1>1. CASE Refresh
  <2>1. cert' \in Results
    BY <1>0, <1>1, FiledVersion, ResultVersion DEF Refresh, Parts
  <2>2. IngestPart'
    BY <1>0, <1>1 DEF Refresh, IngestPart
  <2> QED BY <1>0, <1>1, <2>1, <2>2, TypePartsNext DEF Refresh, Parts, PromotePart, Corrected
<1>2. CASE OpenRun
  <2>1. Parts'
    BY <1>0, <1>2, OpenRunType DEF OpenRun, Parts
  <2>2. IngestPart' /\ Corrected'
    BY <1>0, <1>2 DEF OpenRun, IngestPart, Corrected
  <2>3. PromotePart'
    <3>1. Len(runs') = n + 1 /\ promote' = promote
      BY <1>0, <1>2, OpenRunType DEF OpenRun
    <3> QED BY <1>0, <3>1 DEF PromotePart, Claims
  <2> QED BY <2>1, <2>2, <2>3, TypePartsNext
<1>3. CASE NothingFinal \/ FinishRun \/ FailsAfterApply \/ PauseNotLifted \/ IngestFails \/ Unclosed
  <2>1. ingest.at = "finish" /\ RunIds # {}
    BY <1>0, <1>3 DEF Started, NothingFinal, FinishRun, FailsAfterApply, PauseNotLifted, IngestFails, Unclosed
  <2>2. troubles' \in 0..MaxTroubles /\ troubles' >= troubles
    BY <1>0, <1>3, TroubleType
       DEF NothingFinal, FinishRun, FailsAfterApply, PauseNotLifted, IngestFails, Unclosed, Parts
  <2>3. /\ cert' \in Results /\ runs' \in Seq(Run) /\ Len(runs') = n /\ paused' \in BOOLEAN
        /\ cycle' \in [Cycle -> Outputs(Len(runs'))] /\ ingest' = NoIngest
        /\ UNCHANGED <<source, roster, prod, certRoster, recent, promote>>
    BY <1>0, <1>3, <2>1, FinishType
  <2>4. Parts' /\ IngestPart' /\ PromotePart' /\ Corrected'
    BY <1>0, <2>2, <2>3 DEF Parts, IngestPart, NoIngest, PromotePart, Corrected
  <2> QED BY <2>4, TypePartsNext
<1>4. CASE CompareFails \/ RefreshStops \/ ReadFails
  <2>1. \E stop \in Stops : EndIngest("outcome", stop)
    BY <1>4 DEF CompareFails, RefreshStops, ReadFails
  <2>2. cycle' \in [Cycle -> Outputs(n)] /\ ingest' = NoIngest
    BY <1>0, <2>1, EndIngestType
  <2>3. troubles' \in 0..MaxTroubles /\ troubles' >= troubles
    BY <1>0, <1>4, TroubleType DEF CompareFails, RefreshStops, ReadFails, Parts
  <2>4. UNCHANGED <<source, roster, prod, cert, certRoster, runs, paused, recent, promote>>
    BY <1>4 DEF CompareFails, RefreshStops, ReadFails
  <2>5. Parts' /\ IngestPart' /\ PromotePart' /\ Corrected'
    BY <1>0, <2>2, <2>3, <2>4 DEF Parts, IngestPart, NoIngest, PromotePart, Corrected
  <2> QED BY <2>5, TypePartsNext
<1>5. CASE PromoteCheck
  <2>0. promote \in Claims(n) /\ Len(runs) \in 0..n /\ prod \in Results /\ runs' = runs
    BY <1>0, <1>5 DEF PromoteCheck, PromotePart, Parts
  <2>1. promote' \in Claims(n)
    BY <1>5, <2>0 DEF PromoteCheck, Claims, Current
  <2> QED BY <1>0, <1>5, <2>0, <2>1, TypePartsNext DEF PromoteCheck, Parts, IngestPart, PromotePart, Corrected
<1>6. CASE PromoteApply
  <2>1. runs[promote.run] \in Run
    BY <1>0, <1>6 DEF PromoteApply, Started, Parts
  <2>2. runs[promote.run].result \in Results
    BY <2>1 DEF Run
  <2>3. prod' \in Results
    BY <1>0, <1>6, <2>2 DEF PromoteApply, Parts
  <2>5. PICK outcome \in {"applied", "skipped", "refused"} :
          promote' = [promote EXCEPT !.at = "record", !.outcome = outcome]
    BY <1>6 DEF PromoteApply
  <2>6. UNCHANGED runs
    BY <1>6 DEF PromoteApply
  <2>4. PromotePart'
    <3>1. promote' \in Claims(n)
      BY <1>0, <2>5, ClaimsOutcome DEF PromotePart
    <3> QED BY <2>6, <3>1 DEF PromotePart
  <2> QED BY <1>0, <1>6, <2>3, <2>4, TypePartsNext DEF PromoteApply, Parts, IngestPart, Corrected
<1>7. CASE PromoteDies
  <2>1. cycle' \in [Cycle -> Outputs(n)] /\ promote' = NoPromote
    BY <1>0, <1>7, EndPromoteType DEF PromoteDies
  <2>2. troubles' \in 0..MaxTroubles /\ troubles' >= troubles
    BY <1>0, <1>7, TroubleType DEF PromoteDies, Parts
  <2>3. PromotePart'
    BY <1>0, <1>7, <2>1, NoPromoteType DEF PromoteDies, PromotePart
  <2> QED BY <1>0, <1>7, <2>1, <2>2, <2>3, TypePartsNext DEF PromoteDies, Parts, IngestPart, Corrected
<1>8. CASE PromoteRecord
  <2> DEFINE result == IF promote.outcome = "refused" THEN "failure" ELSE "success"
  <2>0. promote.at = "record" /\ UNCHANGED <<source, roster, prod, cert, certRoster, paused, recent, ingest>>
    BY <1>8 DEF PromoteRecord
  <2>1. /\ promote.run \in RunIds /\ runs \in [1..n -> Run]
        /\ promote.outcome \in {"none", "applied", "skipped", "refused"}
    BY <1>0, <2>0 DEF Started, Parts, PromotePart, Claims
  <2>2. [runs[promote.run] EXCEPT !.ledger = promote.outcome] \in Run
    BY <1>0, <2>1 DEF Run
  <2>3. CASE /\ runs' = [runs EXCEPT ![promote.run].ledger = promote.outcome]
             /\ promote' = NoPromote
             /\ cycle' = [c \in Cycle |->
                     [cycle[c] EXCEPT
                         !.fresh = IF cycle[c].at = "idle" THEN @ ELSE @ \cup {promote.run},
                         !.at = IF c = promote.by THEN "outcome" ELSE @,
                         !.job = IF c = promote.by THEN result ELSE @]]
             /\ UNCHANGED troubles
    <3>1. runs' \in Seq(Run) /\ Len(runs') = n
      <4> DEFINE row == [runs[promote.run] EXCEPT !.ledger = promote.outcome]
      <4>1. runs' = [runs EXCEPT ![promote.run] = row]
        BY <2>3
      <4> HIDE DEF row
      <4> QED BY <1>0, <2>1, <2>2, <4>1 DEF Parts, row
    <3>2. ASSUME NEW c \in Cycle
          PROVE  [cycle[c] EXCEPT
                         !.fresh = IF cycle[c].at = "idle" THEN @ ELSE @ \cup {promote.run},
                         !.at = IF c = promote.by THEN "outcome" ELSE @,
                         !.job = IF c = promote.by THEN result ELSE @] \in Outputs(n)
      <4> DEFINE fresh == IF cycle[c].at = "idle" THEN cycle[c].fresh ELSE cycle[c].fresh \cup {promote.run}
                 stage == IF c = promote.by THEN "outcome" ELSE cycle[c].at
                 job == IF c = promote.by THEN result ELSE cycle[c].job
      <4>1. cycle[c] \in Outputs(n)
        BY <1>0
      <4>2. fresh \in SUBSET (1..n) /\ stage \in Stages /\ job \in JobResults
        BY <1>0, <2>1, <4>1 DEF Outputs
      <4>3. [cycle[c] EXCEPT !.fresh = fresh, !.at = stage, !.job = job] \in Outputs(n)
        <5> HIDE DEF fresh, stage, job
        <5> QED BY <1>0, <4>1, <4>2, OutputsRecorded
      <4> QED BY <4>3
    <3>3. cycle' \in [Cycle -> Outputs(n)]
      BY <2>3, <3>2
    <3>4. PromotePart'
      BY <1>0, <2>3, <3>1, NoPromoteType DEF PromotePart
    <3> QED BY <1>0, <2>0, <2>3, <3>1, <3>3, <3>4, TypePartsNext DEF Parts, IngestPart, Corrected
  <2>4. CASE Trouble /\ EndPromote(result) /\ UNCHANGED runs
    <3>1. cycle' \in [Cycle -> Outputs(n)] /\ promote' = NoPromote
      BY <1>0, <2>4, EndPromoteType
    <3>2. troubles' \in 0..MaxTroubles /\ troubles' >= troubles
      BY <1>0, <2>4, TroubleType
    <3>3. PromotePart'
      BY <1>0, <2>4, <3>1, NoPromoteType DEF PromotePart
    <3> QED BY <1>0, <2>0, <2>4, <3>1, <3>2, <3>3, TypePartsNext DEF Parts, IngestPart, Corrected
  <2> QED BY <1>8, <2>3, <2>4 DEF PromoteRecord
<1>9. CASE StartIngest
  <2>1. troubles' \in 0..MaxTroubles /\ troubles' >= troubles
    BY <1>0, <1>9, TroubleType DEF StartIngest
  <2> QED BY <1>0, <1>9, <2>1, TypePartsNext DEF StartIngest, Parts, IngestPart, PromotePart, Corrected
<1>10. CASE PromoteByHand
  <2>1. troubles' \in 0..MaxTroubles /\ troubles' >= troubles
    BY <1>0, <1>10, TroubleType DEF PromoteByHand
  <2>2. PromotePart'
    BY <1>0, <1>10, NoPromoteType DEF PromoteByHand, StartPromote, NoPromote, PromotePart, Claims
  <2> QED BY <1>0, <1>10, <2>1, <2>2, TypePartsNext
          DEF PromoteByHand, StartPromote, Parts, IngestPart, Corrected
<1>11. CASE SourceMoves
  BY <1>0, <1>11, TypePartsNext, ResultsSyncAssumption
     DEF SourceMoves, Parts, IngestPart, PromotePart, Corrected
<1>12. CASE Correct
  <2>1. troubles' \in 0..MaxTroubles /\ troubles' = troubles + 1
    BY <1>0, <1>12, ResultsSyncAssumption DEF Correct, Trouble, Parts
  <2>2. roster' \in 0..MaxTroubles /\ roster' <= troubles' /\ roster' = roster + 1
    BY <1>0, <1>12, <2>1, ResultsSyncAssumption DEF Correct, Parts, Corrected
  <2>3. prod' \in Results
    BY <1>0, <1>12, <2>2, FiledVersion, ResultVersion DEF Correct, Parts
  <2> QED BY <1>0, <1>12, <2>1, <2>2, <2>3, TypePartsNext
          DEF Correct, Parts, IngestPart, PromotePart, Corrected
<1>13. CASE TwentyMinutes \/ BeginOthers
  BY <1>0, <1>13, TypePartsNext DEF TwentyMinutes, BeginOthers, Parts, IngestPart, PromotePart, Corrected
<1>14. ASSUME NEW c \in Cycle, OutcomeDies(c) \/ SelectManual(c) PROVE TypeOK' /\ Corrected'
  BY <1>0, <1>14, TypeCycleSteps
<1> QED
  BY <1>1, <1>2, <1>3, <1>4, <1>5, <1>6, <1>7, <1>8, <1>9, <1>10, <1>11, <1>12, <1>13, <1>14
     DEF IngestJob, PromoteJob, Faults, Hands, World

\* A job past its first step still has its run.
LEMMA StartedStep == ASSUME DomainInv, [Next]_vars PROVE Started'
<1> DEFINE n == Len(runs)
<1>0. n \in Nat /\ RunIds = 1..n /\ TypeOK /\ Started
  BY CycleType DEF DomainInv, RunIds
<1> USE DEF Started, RunIds
<1>1. ASSUME NEW c \in Cycle, Scheduled(c) \/ Job(c) \/ SelectManual(c) \/ OutcomeDies(c) PROVE Started'
  <2>1. CASE PromoteOfCycle(c)
    BY <1>0, <2>1 DEF PromoteOfCycle, StartPromote, NoPromote
  <2>2. CASE ~PromoteOfCycle(c)
    <3>1. UNCHANGED <<runs, promote>>
      BY <1>1, <2>2 DEF Scheduled, Job, Select, Begin, SelectManual, OutcomeDies, StartCompare,
                        Compare, Judge, Record
    <3>2. ingest' = ingest \/ ingest'.at # "finish"
      <4>1. CASE StartCompare(c)
        BY <4>1 DEF StartCompare
      <4>2. CASE Compare(c)
        BY <1>0, <4>2 DEF Compare, NoIngest, TypeOK
      <4>3. CASE ~StartCompare(c) /\ ~Compare(c)
        BY <1>1, <2>2, <4>3 DEF Scheduled, Job, Select, Begin, SelectManual, OutcomeDies, Judge, Record
      <4> QED BY <4>1, <4>2, <4>3
    <3> QED BY <1>0, <3>1, <3>2
  <2> QED BY <2>1, <2>2
<1>2. CASE Refresh
  BY <1>0, <1>2 DEF Refresh
<1>3. CASE OpenRun
  <2>1. Len(runs') = n + 1 /\ UNCHANGED promote
    BY <1>0, <1>3, OpenRunType DEF OpenRun
  <2> QED BY <1>0, <2>1
<1>4. CASE NothingFinal \/ FinishRun \/ FailsAfterApply \/ PauseNotLifted \/ IngestFails \/ Unclosed
  <2>1. ingest.at = "finish" /\ RunIds # {}
    BY <1>0, <1>4 DEF NothingFinal, FinishRun, FailsAfterApply, PauseNotLifted, IngestFails, Unclosed
  <2>2. Len(runs') = n /\ UNCHANGED promote
    BY <1>0, <1>4, <2>1, FinishType
  <2> QED BY <1>0, <2>1, <2>2
<1>5. CASE CompareFails \/ RefreshStops \/ ReadFails
  BY <1>0, <1>5 DEF CompareFails, RefreshStops, ReadFails, EndIngest, NoIngest
<1>6. CASE PromoteCheck
  BY <1>0, <1>6 DEF PromoteCheck, Current, TypeOK
<1>7. CASE PromoteApply
  <2>1. PICK outcome \in {"applied", "skipped", "refused"} :
          promote' = [promote EXCEPT !.at = "record", !.outcome = outcome]
    BY <1>7 DEF PromoteApply
  <2>2. promote'.run = promote.run /\ promote.at = "apply" /\ UNCHANGED <<runs, ingest>>
    BY <1>0, <1>7, <2>1 DEF PromoteApply, TypeOK
  <2> QED BY <1>0, <2>2
<1>8. CASE PromoteRecord \/ PromoteDies
  <2>1. promote' = NoPromote /\ UNCHANGED ingest
    BY <1>8 DEF PromoteRecord, PromoteDies, EndPromote
  <2>2. runs' = runs \/ runs' = [runs EXCEPT ![promote.run].ledger = promote.outcome]
    BY <1>8 DEF PromoteRecord, PromoteDies
  <2>3. Len(runs') = n
    BY <1>0, <2>2 DEF TypeOK
  <2> QED BY <1>0, <2>1, <2>3 DEF NoPromote
<1>9. CASE StartIngest
  BY <1>0, <1>9 DEF StartIngest
<1>12. CASE PromoteByHand
  BY <1>0, <1>12 DEF PromoteByHand, StartPromote, NoPromote
<1>10. CASE World
  BY <1>0, <1>10 DEF World, SourceMoves, Correct, TwentyMinutes, BeginOthers
<1>11. CASE UNCHANGED vars
  BY <1>0, <1>11 DEF vars
<1> QED
  BY <1>1, <1>2, <1>3, <1>4, <1>5, <1>6, <1>7, <1>8, <1>9, <1>10, <1>11, <1>12
     DEF Next, IngestJob, PromoteJob, Faults, Hands

LEMMA DomainNext == DomainInv /\ [Next]_vars => DomainInv'
<1> SUFFICES ASSUME DomainInv, [Next]_vars PROVE DomainInv'
  OBVIOUS
<1>1. Started'
  BY StartedStep
<1>2. CASE UNCHANGED vars
  BY <1>2 DEF vars, DomainInv, TypeOK, Corrected, Started, RunIds
<1>3. ASSUME NEW c \in Cycle, Scheduled(c) \/ Job(c) PROVE DomainInv'
  BY <1>1, <1>3, TypeCycleSteps DEF DomainInv
<1>4. CASE IngestJob \/ PromoteJob \/ Faults \/ Hands \/ World
  BY <1>1, <1>4, TypeJobSteps DEF DomainInv
<1> QED BY <1>2, <1>3, <1>4 DEF Next

\* Type correctness: whatever cycles, jobs and failures interleave, every column
\* and every output of a job stays in its domain.
THEOREM SyncTypeCorrect == Spec => []TypeOK
<1>1. DomainInv => TypeOK
  BY DEF DomainInv
<1> QED BY <1>1, DomainInit, DomainNext, PTL DEF Spec

Numbers ==
    /\ source \in Nat /\ prod[1] \in Nat /\ cert[1] \in Nat
    /\ Len(runs) \in Nat /\ RunIds = 1..Len(runs) /\ Current = Len(runs)
    /\ \A i \in RunIds : runs[i] \in Run /\ runs[i].version \in Nat /\ runs[i].result[1] \in Nat
    /\ \A c \in Cycle : cycle[c].asked \in Nat /\ cycle[c].seen[1] \in Nat
    /\ promote.prior[1] \in Nat

LEMMA VersionsAreNumbers == TypeOK => Numbers
<1> SUFFICES ASSUME TypeOK PROVE Numbers
  OBVIOUS
<1>1. TypeOK /\ MaxVersion \in Nat
  BY ResultsSyncAssumption
<1>2. /\ Len(runs) \in Nat /\ RunIds = 1..Len(runs) /\ Current = Len(runs)
      /\ cycle \in [Cycle -> Outputs(Len(runs))]
  BY CycleType DEF RunIds, Current
<1>3. \A i \in RunIds : runs[i] \in Run
  BY <1>1, <1>2 DEF TypeOK
<1>4. \A i \in RunIds : runs[i].version \in Nat /\ runs[i].result \in Results
  BY <1>1, <1>3 DEF Run
<1>5. \A c \in Cycle : cycle[c].asked \in Nat /\ cycle[c].seen \in Results
  BY <1>1, <1>2 DEF Outputs
<1>6. promote.prior \in Results /\ prod \in Results /\ cert \in Results /\ source \in Nat
  BY <1>1 DEF TypeOK
<1>7. \A x \in Results : x[1] \in Nat
  BY <1>1, ResultVersion
<1> QED BY <1>2, <1>3, <1>4, <1>5, <1>6, <1>7 DEF Numbers

LEMMA VersionsAreNumbersNext == TypeOK' => Numbers'
BY VersionsAreNumbers, PTL

\* Rows are added, and a row keeps its listings; a FINISHED one stays so, with its result.
RunsKept ==
    /\ Len(runs) <= Len(runs)'
    /\ \A i \in RunIds : /\ i \in RunIds' /\ runs'[i].version = runs[i].version
                         /\ i \in Finished => i \in Finished' /\ runs'[i].result = runs[i].result

\* The ways an ingest that has opened its run ends, and what they leave of the rows.
Closes == \E status \in {"FINISHED", "FAILED"}, gate \in {"none", "passed", "blocked"} : Close(status, gate)

LEMMA FinishRows ==
    ASSUME DomainInv, RunsSound,
           NothingFinal \/ FinishRun \/ FailsAfterApply \/ PauseNotLifted \/ IngestFails \/ Unclosed
    PROVE  /\ ingest.at = "finish" /\ Current \in RunIds
           /\ runs' = runs \/ Closes
           /\ Len(runs') = Len(runs) /\ RunIds' = RunIds
           /\ \A i \in RunIds : i # Current => runs'[i] = runs[i]
           /\ \E status \in {"RUNNING", "FINISHED", "FAILED"}, gate \in {"none", "passed", "blocked"} :
                 \E result \in Results :
                    /\ runs'[Current] = [runs[Current] EXCEPT !.status = status, !.gate = gate, !.result = result]
                    /\ status = "FINISHED" => result[1] = runs[Current].version
           /\ cert'[1] \in {cert[1], runs[Current].version}
<1>0. TypeOK /\ Started /\ Numbers /\ TypeOK' /\ Numbers'
  BY TypeJobSteps, VersionsAreNumbers, VersionsAreNumbersNext DEF DomainInv, Faults, IngestJob
<1>1. ingest.at = "finish"
  BY DEF NothingFinal, FinishRun, FailsAfterApply, PauseNotLifted, IngestFails, Unclosed
<1>2. RunIds # {} /\ Current \in RunIds /\ runs[Current] \in Run
  BY <1>0, <1>1 DEF Started, Numbers
<1>3. runs[Current].version \in 0..MaxVersion /\ certRoster \in 0..MaxTroubles
  BY <1>0, <1>2 DEF Run, TypeOK
<1>4. Filed(runs[Current].version, certRoster)[1] = runs[Current].version
  BY <1>3, FiledVersion
<1>5. cert'[1] \in {cert[1], runs[Current].version}
  BY <1>4 DEF NothingFinal, FinishRun, FailsAfterApply, PauseNotLifted, IngestFails, Unclosed
<1>6. GateOf(runs[Current].version) \in {"none", "passed", "blocked"}
  BY DEF GateOf
<1>7. cert' \in Results
  BY <1>0 DEF TypeOK
<1>8. CASE Unclosed
  <2>1. runs' = runs
    BY <1>8 DEF Unclosed
  <2>2. runs[Current].status = "RUNNING" /\ runs[Current].gate \in {"none", "passed", "blocked"}
        /\ runs[Current].result \in Results
    BY <1>1, <1>2 DEF RunsSound, Run
  <2>3. runs[Current] = [runs[Current] EXCEPT !.status = "RUNNING", !.gate = runs[Current].gate,
                                              !.result = runs[Current].result]
    BY <1>2, <2>2 DEF Run
  <2> QED BY <1>1, <1>2, <1>5, <2>1, <2>2, <2>3 DEF RunIds
<1>9. CASE ~Unclosed
  <2>1. PICK status \in {"FINISHED", "FAILED"}, gate \in {"none", "passed", "blocked"} :
           Close(status, gate) /\ (status = "FINISHED" => cert'[1] = runs[Current].version)
    <3>1. NothingFinal => cert'[1] = runs[Current].version
      BY <1>1 DEF NothingFinal, RunsSound
    <3> QED BY <1>4, <1>6, <1>9, <3>1
            DEF NothingFinal, FinishRun, FailsAfterApply, PauseNotLifted, IngestFails
  <2>2. /\ Len(runs') = Len(runs)
        /\ \A i \in RunIds : i # Current => runs'[i] = runs[i]
        /\ runs'[Current] = [runs[Current] EXCEPT !.status = status, !.gate = gate, !.result = cert']
    BY <1>0, <1>2, <1>7, <2>1, CloseType
  <2> QED BY <1>1, <1>2, <1>5, <1>7, <2>1, <2>2 DEF RunIds, Closes
<1> QED BY <1>8, <1>9

LEMMA RowsChange ==
    ASSUME [Next]_vars
    PROVE  \/ OpenRun
           \/ NothingFinal \/ FinishRun \/ FailsAfterApply \/ PauseNotLifted \/ IngestFails \/ Unclosed
           \/ PromoteRecord
           \/ runs' = runs
BY DEF Next, vars, Scheduled, Job, IngestJob, PromoteJob, Hands, Faults, World, Select, Begin, StartCompare,
       Compare, PromoteOfCycle, StartPromote, Judge, Record, Refresh, PromoteCheck, PromoteApply,
       StartIngest, PromoteByHand, SelectManual, CompareFails, RefreshStops, ReadFails, PromoteDies,
       OutcomeDies, SourceMoves, Correct, TwentyMinutes, BeginOthers

LEMMA RowsEntered ==
    ASSUME DomainInv, PromoteRecord
    PROVE  /\ promote.run \in RunIds /\ promote.at = "record"
           /\ Len(runs') = Len(runs) /\ RunIds' = RunIds
           /\ \A i \in RunIds :
                 \/ runs'[i] = runs[i]
                 \/ i = promote.run /\ runs'[i] = [runs[i] EXCEPT !.ledger = promote.outcome]
<1>1. promote.run \in RunIds /\ promote.at = "record" /\ runs \in Seq(Run) /\ Len(runs) \in Nat
  BY CycleType DEF PromoteRecord, DomainInv, Started, TypeOK
<1>2. runs' = runs \/ runs' = [runs EXCEPT ![promote.run].ledger = promote.outcome]
  BY DEF PromoteRecord
<1>3. runs \in [1..Len(runs) -> Run]
  BY <1>1
<1> DEFINE row == [runs[promote.run] EXCEPT !.ledger = promote.outcome]
<1>4. runs' = runs \/ runs' = [runs EXCEPT ![promote.run] = row]
  BY <1>2
<1>5. promote.outcome \in {"none", "applied", "skipped", "refused"}
  BY DEF DomainInv, TypeOK
<1>6. row \in Run
  BY <1>1, <1>3, <1>5 DEF Run, RunIds
<1>7. Len(runs') = Len(runs) /\ \A i \in RunIds : runs'[i] = runs[i] \/ (i = promote.run /\ runs'[i] = row)
  <2> HIDE DEF row
  <2> QED BY <1>1, <1>3, <1>4, <1>6 DEF RunIds
<1> QED BY <1>1, <1>7 DEF RunIds

LEMMA RunsKeptStep == ASSUME DomainInv, RunsSound, [Next]_vars PROVE RunsKept
<1>0. TypeOK /\ Numbers /\ DomainInv' /\ Numbers'
  BY DomainNext, VersionsAreNumbers, VersionsAreNumbersNext DEF DomainInv
<1>1. CASE OpenRun
  <2>1. /\ Len(runs') = Len(runs) + 1
        /\ \A i \in RunIds : runs'[i] = IF runs[i].status = "RUNNING"
                                           THEN [runs[i] EXCEPT !.status = "ABANDONED"] ELSE runs[i]
    BY <1>0, <1>1, OpenRunType
  <2>2. \A i \in RunIds : runs'[i].version = runs[i].version /\ runs'[i].result = runs[i].result
    <3> TAKE i \in RunIds
    <3>1. runs[i] \in Run
      BY <1>0 DEF Numbers
    <3>2. /\ [runs[i] EXCEPT !.status = "ABANDONED"].version = runs[i].version
          /\ [runs[i] EXCEPT !.status = "ABANDONED"].result = runs[i].result
      BY <3>1 DEF Run
    <3> QED BY <2>1, <3>2
  <2>4. \A i \in RunIds : i \in RunIds'
    BY <1>0, <2>1 DEF Numbers
  <2>3. \A i \in RunIds : runs[i].status = "FINISHED" => runs'[i].status = "FINISHED"
    BY <2>1
  <2> QED BY <1>0, <2>1, <2>2, <2>3, <2>4 DEF RunsKept, Numbers, Finished
<1>2. CASE NothingFinal \/ FinishRun \/ FailsAfterApply \/ PauseNotLifted \/ IngestFails \/ Unclosed
  <2>1. /\ ingest.at = "finish" /\ Current \in RunIds /\ Len(runs') = Len(runs) /\ RunIds' = RunIds
        /\ \A i \in RunIds : i # Current => runs'[i] = runs[i]
    BY <1>2, FinishRows
  <2>2. PICK status \in {"RUNNING", "FINISHED", "FAILED"}, gate \in {"none", "passed", "blocked"},
             result \in Results :
          runs'[Current] = [runs[Current] EXCEPT !.status = status, !.gate = gate, !.result = result]
    BY <1>2, FinishRows
  <2>3. Current \notin Finished /\ runs'[Current].version = runs[Current].version
    BY <1>0, <2>1, <2>2 DEF RunsSound, Finished, Numbers, Run
  <2> QED BY <1>0, <2>1, <2>3 DEF RunsKept, Numbers, Finished
<1>3. CASE PromoteRecord
  <2>1. \A i \in RunIds : runs'[i] = runs[i] \/ runs'[i] = [runs[i] EXCEPT !.ledger = promote.outcome]
    BY <1>3, RowsEntered
  <2>2. \A i \in RunIds : /\ runs'[i].version = runs[i].version /\ runs'[i].status = runs[i].status
                          /\ runs'[i].result = runs[i].result
    BY <1>0, <2>1 DEF Numbers, Run
  <2> QED BY <1>0, <1>3, <2>2, RowsEntered DEF RunsKept, Numbers, Finished
<1>4. CASE runs' = runs
  BY <1>0, <1>4 DEF RunsKept, Numbers, Finished, RunIds
<1> QED BY <1>1, <1>2, <1>3, <1>4, RowsChange

\* The listings PROD shows never get older, and nothing gets ahead of the source.
LEMMA ForwardStep ==
    ASSUME DomainInv, NothingAhead, RunsSound, PromoteSound, [Next]_vars
    PROVE  NothingAhead' /\ prod'[1] >= prod[1] /\ source' >= source
<1>0. TypeOK /\ Numbers /\ DomainInv' /\ Numbers' /\ Started
  BY DomainNext, VersionsAreNumbers, VersionsAreNumbersNext DEF DomainInv
<1>1. source' >= source
  <2>1. source' = source \/ source' = source + 1
    BY DEF Next, vars, Scheduled, Job, IngestJob, PromoteJob, Hands, Faults, World, Select, Begin,
       StartCompare, Compare, PromoteOfCycle, StartPromote, Judge, Record, Refresh, PromoteCheck,
       PromoteApply, StartIngest, PromoteByHand, SelectManual, CompareFails, RefreshStops, ReadFails,
       PromoteDies, OutcomeDies, SourceMoves, Correct, TwentyMinutes, BeginOthers, OpenRun,
       NothingFinal, FinishRun, FailsAfterApply, PauseNotLifted, IngestFails, Unclosed, PromoteRecord
  <2> QED BY <1>0, <2>1 DEF Numbers
<1>2. prod'[1] >= prod[1] /\ prod'[1] <= source'
  <2>1. CASE PromoteApply
    <3>1. /\ promote.run \in RunIds /\ promote.run \in Finished
          /\ promote.prior[1] <= runs[promote.run].version
          /\ runs[promote.run].result[1] = runs[promote.run].version
      BY <1>0, <2>1 DEF PromoteApply, PromoteSound, RunsSound, Started
    <3>2. prod' = prod \/ (prod = promote.prior /\ prod' = runs[promote.run].result)
      BY <2>1 DEF PromoteApply
    <3> QED BY <1>0, <1>1, <3>1, <3>2 DEF Numbers, NothingAhead
  <2>2. CASE Correct
    <3>1. prod[1] \in 0..MaxVersion /\ roster + 1 \in 0..MaxTroubles
      BY <1>0, <2>2, ResultVersion, ResultsSyncAssumption DEF Correct, TypeOK, DomainInv
    <3>2. prod'[1] = prod[1]
      BY <2>2, <3>1, FiledVersion DEF Correct
    <3> QED BY <1>0, <1>1, <3>2 DEF Numbers, NothingAhead
  <2>3. CASE prod' = prod
    BY <1>0, <1>1, <2>3 DEF Numbers, NothingAhead
  <2>4. PromoteApply \/ Correct \/ prod' = prod
    BY DEF Next, vars, Scheduled, Job, IngestJob, PromoteJob, Hands, Faults, World, Select, Begin,
       StartCompare, Compare, PromoteOfCycle, StartPromote, Judge, Record, Refresh, PromoteCheck,
       StartIngest, PromoteByHand, SelectManual, CompareFails, RefreshStops, ReadFails,
       PromoteDies, OutcomeDies, SourceMoves, TwentyMinutes, BeginOthers, OpenRun,
       NothingFinal, FinishRun, FailsAfterApply, PauseNotLifted, IngestFails, Unclosed, PromoteRecord
  <2> QED BY <2>1, <2>2, <2>3, <2>4
<1>3. cert'[1] <= source'
  <2>1. CASE Refresh
    <3>1. cert[1] \in 0..MaxVersion /\ roster \in 0..MaxTroubles
      BY <1>0, ResultVersion DEF TypeOK
    <3>2. cert'[1] = cert[1]
      BY <2>1, <3>1, FiledVersion DEF Refresh
    <3> QED BY <1>0, <1>1, <3>2 DEF Numbers, NothingAhead
  <2>2. CASE NothingFinal \/ FinishRun \/ FailsAfterApply \/ PauseNotLifted \/ IngestFails \/ Unclosed
    <3>1. Current \in RunIds /\ cert'[1] \in {cert[1], runs[Current].version}
      BY <2>2, FinishRows
    <3> QED BY <1>0, <1>1, <3>1 DEF Numbers, NothingAhead
  <2>3. CASE cert' = cert
    BY <1>0, <1>1, <2>3 DEF Numbers, NothingAhead
  <2>4. \/ Refresh \/ cert' = cert
        \/ NothingFinal \/ FinishRun \/ FailsAfterApply \/ PauseNotLifted \/ IngestFails \/ Unclosed
    BY DEF Next, vars, Scheduled, Job, IngestJob, PromoteJob, Hands, Faults, World, Select, Begin,
       StartCompare, Compare, PromoteOfCycle, StartPromote, Judge, Record, PromoteCheck, PromoteApply,
       StartIngest, PromoteByHand, SelectManual, CompareFails, RefreshStops, ReadFails,
       PromoteDies, OutcomeDies, SourceMoves, Correct, TwentyMinutes, BeginOthers, OpenRun, PromoteRecord
  <2> QED BY <2>1, <2>2, <2>3, <2>4
<1>4. \A i \in RunIds' : runs'[i].version <= source'
  <2>1. CASE OpenRun
    <3>1. Len(runs') = Len(runs) + 1 /\ runs'[Len(runs) + 1].version = source /\ RunsKept
      BY <1>0, <2>1, OpenRunType, RunsKeptStep
    <3>2. \A i \in RunIds' : i \in RunIds \/ i = Len(runs) + 1
      BY <1>0, <3>1 DEF Numbers
    <3>3. source \in Nat /\ source' \in Nat /\ \A i \in RunIds : runs[i].version \in Nat
      BY <1>0 DEF Numbers
    <3>4. \A i \in RunIds : runs'[i].version = runs[i].version /\ runs[i].version <= source
      BY <3>1 DEF RunsKept, NothingAhead
    <3>5. \A i \in RunIds : runs'[i].version <= source'
      BY <1>1, <3>3, <3>4
    <3> QED BY <1>1, <3>1, <3>2, <3>5
  <2>2. CASE ~OpenRun
    <3>1. ASSUME NothingFinal \/ FinishRun \/ FailsAfterApply \/ PauseNotLifted \/ IngestFails \/ Unclosed
          PROVE  RunIds' = RunIds
      BY <3>1, FinishRows
    <3>2. ASSUME PromoteRecord PROVE RunIds' = RunIds
      BY <3>2, RowsEntered
    <3>3. ASSUME runs' = runs PROVE RunIds' = RunIds
      BY <3>3 DEF RunIds
    <3>4. RunIds' = RunIds
      BY <2>2, <3>1, <3>2, <3>3, RowsChange
    <3>5. RunsKept
      BY RunsKeptStep
    <3>6. \A i \in RunIds : runs'[i].version = runs[i].version /\ runs[i].version <= source
      BY <3>5 DEF RunsKept, NothingAhead
    <3>7. source \in Nat /\ source' \in Nat /\ \A i \in RunIds : runs[i].version \in Nat
      BY <1>0 DEF Numbers
    <3>8. \A i \in RunIds : runs'[i].version <= source'
      BY <1>1, <3>6, <3>7
    <3> QED BY <3>4, <3>8
  <2> QED BY <2>1, <2>2
<1> QED BY <1>1, <1>2, <1>3, <1>4 DEF NothingAhead

\* While an ingest is between its open and its close, only the ledger's entries change.
LEMMA FinishUnderWay ==
    ASSUME TypeOK, [Next]_vars, ~OpenRun, ingest'.at = "finish"
    PROVE  /\ ingest.at = "finish" /\ ingest' = ingest /\ cert' = cert
           /\ PromoteRecord \/ runs' = runs
<1>1. ASSUME NEW c \in Cycle, Scheduled(c) \/ Job(c)
      PROVE  ingest' = ingest /\ cert' = cert /\ runs' = runs
  <2>1. StartCompare(c) => ingest'.at = "compare"
    BY DEF StartCompare
  <2>2. Compare(c) => ingest'.at # "finish"
    BY DEF Compare, NoIngest, TypeOK
  <2> QED BY <1>1, <2>1, <2>2 DEF Scheduled, Job, Select, Begin, StartCompare, Compare, PromoteOfCycle,
                                  StartPromote, Judge, Record
<1>2. ASSUME IngestJob PROVE FALSE
  <2>1. Refresh => ingest'.at = "open"
    BY DEF Refresh, TypeOK
  <2> QED BY <1>2, <2>1 DEF IngestJob, NothingFinal, FinishRun, EndIngest, NoIngest
<1>3. ASSUME PromoteJob PROVE ingest' = ingest /\ cert' = cert /\ (PromoteRecord \/ runs' = runs)
  BY <1>3 DEF PromoteJob, PromoteCheck, PromoteApply, PromoteRecord
<1>4. ASSUME Faults PROVE ingest' = ingest /\ cert' = cert /\ runs' = runs
  <2>1. CompareFails \/ RefreshStops \/ ReadFails \/ FailsAfterApply \/ PauseNotLifted \/ IngestFails \/ Unclosed
          => ingest' = NoIngest
    BY DEF CompareFails, RefreshStops, ReadFails, FailsAfterApply, PauseNotLifted, IngestFails, Unclosed, EndIngest
  <2>2. PromoteDies => ingest' = ingest /\ cert' = cert /\ runs' = runs
    BY DEF PromoteDies
  <2>3. ASSUME NEW c \in Cycle, OutcomeDies(c) PROVE ingest' = ingest /\ cert' = cert /\ runs' = runs
    BY <2>3 DEF OutcomeDies
  <2> QED BY <1>4, <2>1, <2>2, <2>3 DEF Faults, NoIngest
<1>5. ASSUME Hands PROVE ingest' = ingest /\ cert' = cert /\ runs' = runs
  <2>1. StartIngest => ingest'.at = "refresh"
    BY DEF StartIngest
  <2> QED BY <1>5, <2>1 DEF Hands, PromoteByHand, StartPromote, SelectManual
<1>6. ASSUME World \/ UNCHANGED vars PROVE ingest' = ingest /\ cert' = cert /\ runs' = runs
  BY <1>6 DEF World, SourceMoves, Correct, TwentyMinutes, BeginOthers, vars
<1> QED BY <1>1, <1>2, <1>3, <1>4, <1>5, <1>6 DEF Next

LEMMA RunsSoundStep == ASSUME DomainInv, NothingAhead, RunsSound, [Next]_vars PROVE RunsSound'
<1>0. TypeOK /\ Numbers /\ DomainInv' /\ Numbers' /\ Started /\ Started'
  BY DomainNext, VersionsAreNumbers, VersionsAreNumbersNext DEF DomainInv
<1>1. \A i \in Finished' : runs'[i].result[1] = runs'[i].version
  <2>1. CASE OpenRun
    <3>1. /\ Len(runs') = Len(runs) + 1
          /\ \A i \in RunIds : runs'[i] = IF runs[i].status = "RUNNING"
                                          THEN [runs[i] EXCEPT !.status = "ABANDONED"] ELSE runs[i]
          /\ runs'[Len(runs) + 1].status = "RUNNING"
      BY <1>0, <2>1, OpenRunType
    <3>2. \A i \in RunIds' : i \in RunIds \/ i = Len(runs) + 1
      BY <1>0, <3>1 DEF Numbers
    <3>3. ASSUME NEW i \in RunIds, runs'[i].status = "FINISHED" PROVE runs[i] = runs'[i] /\ i \in Finished
      <4>1. runs[i].status = "RUNNING" => [runs[i] EXCEPT !.status = "ABANDONED"].status = "ABANDONED"
        BY <1>0 DEF Numbers, Run
      <4> QED BY <3>1, <3>3, <4>1 DEF Finished
    <3>4. ASSUME NEW i \in Finished' PROVE runs'[i].result[1] = runs'[i].version
      <4>1. i \in RunIds' /\ runs'[i].status = "FINISHED"
        BY DEF Finished
      <4>2. i \in RunIds
        BY <3>1, <3>2, <4>1
      <4> QED BY <3>3, <4>1, <4>2 DEF RunsSound
    <3> QED BY <3>4
  <2>2. CASE NothingFinal \/ FinishRun \/ FailsAfterApply \/ PauseNotLifted \/ IngestFails \/ Unclosed
    <3>1. Current \in RunIds /\ RunIds' = RunIds /\ \A i \in RunIds : i # Current => runs'[i] = runs[i]
      BY <2>2, FinishRows
    <3>2. PICK status \in {"RUNNING", "FINISHED", "FAILED"}, gate \in {"none", "passed", "blocked"},
               result \in Results :
            /\ runs'[Current] = [runs[Current] EXCEPT !.status = status, !.gate = gate, !.result = result]
            /\ status = "FINISHED" => result[1] = runs[Current].version
      BY <2>2, FinishRows
    <3>3. /\ runs'[Current].status = status /\ runs'[Current].version = runs[Current].version
          /\ runs'[Current].result = result
      BY <1>0, <3>1, <3>2 DEF Numbers, Run
    <3>4. ASSUME NEW i \in RunIds, runs'[i].status = "FINISHED"
          PROVE  runs'[i].result[1] = runs'[i].version
      <4>1. CASE i = Current
        BY <3>2, <3>3, <3>4, <4>1
      <4>2. CASE i # Current
        <5>1. i \in Finished /\ runs'[i] = runs[i]
          BY <3>1, <3>4, <4>2 DEF Finished
        <5> QED BY <5>1 DEF RunsSound
      <4> QED BY <4>1, <4>2
    <3> QED BY <3>1, <3>4 DEF Finished
  <2>3. CASE PromoteRecord
    <3>1. /\ RunIds' = RunIds
          /\ \A i \in RunIds : \/ runs'[i] = runs[i]
                               \/ runs'[i] = [runs[i] EXCEPT !.ledger = promote.outcome]
      BY <2>3, RowsEntered
    <3>2. \A i \in RunIds : /\ runs'[i].status = runs[i].status /\ runs'[i].version = runs[i].version
                            /\ runs'[i].result = runs[i].result
      BY <1>0, <3>1 DEF Numbers, Run
    <3> QED BY <3>1, <3>2 DEF RunsSound, Finished
  <2>4. CASE runs' = runs
    BY <2>4 DEF RunsSound, Finished, RunIds
  <2> QED BY <2>1, <2>2, <2>3, <2>4, RowsChange
<1>2. ASSUME ingest'.at = "finish"
      PROVE  runs'[Current'].status = "RUNNING" /\ (runs'[Current'].version = 0 => cert'[1] = 0)
  <2>1. CASE OpenRun
    <3>1. /\ Len(runs') = Len(runs) + 1 /\ cert' = cert
          /\ runs'[Len(runs) + 1].status = "RUNNING" /\ runs'[Len(runs) + 1].version = source
      BY <1>0, <2>1, OpenRunType DEF OpenRun
    <3>2. source = 0 => cert[1] = 0
      BY <1>0 DEF Numbers, NothingAhead
    <3> QED BY <3>1, <3>2 DEF Current
  <2>2. CASE ~OpenRun
    <3>1. ingest.at = "finish" /\ cert' = cert /\ \/ PromoteRecord \/ runs' = runs
      BY <1>0, <1>2, <2>2, FinishUnderWay
    <3>2. /\ Current \in RunIds /\ runs[Current].status = "RUNNING"
          /\ runs[Current].version = 0 => cert[1] = 0
      BY <1>0, <3>1 DEF RunsSound, Started, Numbers
    <3>3. runs'[Current].status = runs[Current].status /\ runs'[Current].version = runs[Current].version
      <4>1. runs[Current] \in Run
        BY <1>0, <3>2 DEF Numbers
      <4>2. PromoteRecord => \/ runs'[Current] = runs[Current]
                             \/ runs'[Current] = [runs[Current] EXCEPT !.ledger = promote.outcome]
        BY <3>2, RowsEntered
      <4> QED BY <3>1, <4>1, <4>2 DEF Run
    <3>4. Current' = Current
      BY <3>1, RowsEntered DEF Current
    <3> QED BY <3>1, <3>2, <3>3, <3>4
  <2> QED BY <2>1, <2>2
<1> QED BY <1>1, <1>2 DEF RunsSound

\* Only the record of a promote writes an entry of the ledger.
LEMMA LedgerKept ==
    ASSUME DomainInv, RunsSound, [Next]_vars
    PROVE  \A i \in RunIds' : \/ i \in RunIds /\ runs'[i].ledger = runs[i].ledger
                              \/ runs'[i].ledger = "none"
                              \/ PromoteRecord /\ i = promote.run /\ runs'[i].ledger = promote.outcome
<1>0. TypeOK /\ Numbers /\ DomainInv' /\ Numbers'
  BY DomainNext, VersionsAreNumbers, VersionsAreNumbersNext DEF DomainInv
<1>1. CASE OpenRun
  <2>1. /\ Len(runs') = Len(runs) + 1
        /\ \A i \in RunIds : runs'[i] = IF runs[i].status = "RUNNING"
                                        THEN [runs[i] EXCEPT !.status = "ABANDONED"] ELSE runs[i]
        /\ runs'[Len(runs) + 1].ledger = "none"
    BY <1>0, <1>1, OpenRunType
  <2>2. \A i \in RunIds' : i \in RunIds \/ i = Len(runs) + 1
    BY <1>0, <2>1 DEF Numbers
  <2>3. ASSUME NEW i \in RunIds PROVE runs'[i].ledger = runs[i].ledger
    <3>1. [runs[i] EXCEPT !.status = "ABANDONED"].ledger = runs[i].ledger
      BY <1>0 DEF Numbers, Run
    <3> QED BY <2>1, <3>1
  <2> QED BY <2>1, <2>2, <2>3
<1>2. CASE NothingFinal \/ FinishRun \/ FailsAfterApply \/ PauseNotLifted \/ IngestFails \/ Unclosed
  <2>1. Current \in RunIds /\ RunIds' = RunIds /\ \A i \in RunIds : i # Current => runs'[i] = runs[i]
    BY <1>2, FinishRows
  <2>2. PICK status \in {"RUNNING", "FINISHED", "FAILED"}, gate \in {"none", "passed", "blocked"},
             result \in Results :
          runs'[Current] = [runs[Current] EXCEPT !.status = status, !.gate = gate, !.result = result]
    BY <1>2, FinishRows
  <2>3. runs'[Current].ledger = runs[Current].ledger
    BY <1>0, <2>1, <2>2 DEF Numbers, Run
  <2> QED BY <2>1, <2>3
<1>3. CASE PromoteRecord
  <2>1. /\ RunIds' = RunIds
        /\ \A i \in RunIds :
              \/ runs'[i] = runs[i]
              \/ i = promote.run /\ runs'[i] = [runs[i] EXCEPT !.ledger = promote.outcome]
    BY <1>3, RowsEntered
  <2>2. \A i \in RunIds : [runs[i] EXCEPT !.ledger = promote.outcome].ledger = promote.outcome
    BY <1>0 DEF Numbers, Run
  <2> QED BY <1>3, <2>1, <2>2
<1>4. CASE runs' = runs
  BY <1>4 DEF RunIds
<1> QED BY <1>1, <1>2, <1>3, <1>4, RowsChange

LEMMA PromoteChange ==
    ASSUME [Next]_vars
    PROVE  PromoteCheck \/ PromoteApply \/ promote' = promote \/ promote'.at \in {"idle", "check"}
<1>1. ASSUME NEW c \in Cycle, Scheduled(c) \/ Job(c) PROVE promote' = promote \/ promote'.at = "check"
  BY <1>1 DEF Scheduled, Job, Select, Begin, StartCompare, Compare, PromoteOfCycle, StartPromote, NoPromote,
              Judge, Record
<1>2. IngestJob => promote' = promote
  BY DEF IngestJob, Refresh, OpenRun, NothingFinal, FinishRun
<1>0. NoPromote.at = "idle"
  BY DEF NoPromote
<1>3. PromoteRecord => promote' = NoPromote
  BY DEF PromoteRecord, EndPromote
<1>4. Faults => promote' = promote \/ promote' = NoPromote
  BY DEF Faults, CompareFails, RefreshStops, ReadFails, FailsAfterApply, PauseNotLifted, IngestFails,
         Unclosed, PromoteDies, EndPromote, OutcomeDies
<1>5. Hands => promote' = promote \/ promote'.at = "check"
  BY DEF Hands, StartIngest, PromoteByHand, StartPromote, NoPromote, SelectManual
<1>6. World \/ UNCHANGED vars => promote' = promote
  BY DEF World, SourceMoves, Correct, TwentyMinutes, BeginOthers, vars
<1> QED BY <1>0, <1>1, <1>2, <1>3, <1>4, <1>5, <1>6 DEF Next, PromoteJob

LEMMA PromoteSoundStep ==
    ASSUME DomainInv, NothingAhead, RunsSound, PromoteSound, [Next]_vars
    PROVE  PromoteSound'
<1>0. TypeOK /\ Numbers /\ DomainInv' /\ Numbers' /\ Started /\ Started' /\ PromotePart
  BY DomainNext, VersionsAreNumbers, VersionsAreNumbersNext, TypeParts DEF DomainInv
<1>1. RunsKept /\ prod'[1] >= prod[1]
  BY RunsKeptStep, ForwardStep
<1>2. prod[1] \in Nat /\ prod'[1] \in Nat /\ source \in Nat /\ Current \in Nat
  BY <1>0 DEF Numbers
<1>3. ASSUME promote'.at = "apply"
      PROVE  promote'.run \in Finished' /\ promote'.prior[1] <= runs'[promote'.run].version
  <2>1. CASE PromoteCheck
    <3>1. Replayable(Current) /\ promote'.run = Current /\ promote'.prior = prod /\ runs' = runs
      BY <1>0, <1>3, <2>1 DEF PromoteCheck, PromotePart, Claims
    <3>2. Current \in RunIds /\ runs[Current].version = source
      BY <1>0, <2>1, <3>1 DEF Started, Numbers, PromoteCheck, Replayable
    <3>3. Current \in Finished'
      BY <3>1, <3>2 DEF Replayable, Finished, RunIds
    <3> QED BY <3>1, <3>2, <3>3 DEF NothingAhead
  <2>2. CASE PromoteApply
    BY <1>0, <1>3, <2>2 DEF PromoteApply, PromotePart, Claims
  <2>3. CASE promote' = promote
    <3>1. promote.run \in Finished /\ promote.run \in RunIds
      BY <1>3, <2>3 DEF PromoteSound, Finished
    <3> QED BY <1>1, <1>3, <2>3, <3>1 DEF PromoteSound, RunsKept
  <2> QED BY <1>3, <2>1, <2>2, <2>3, PromoteChange
<1>4. ASSUME promote'.at = "record", promote'.outcome \in {"applied", "skipped"}
      PROVE  prod'[1] >= runs'[promote'.run].version
  <2>1. CASE PromoteCheck
    BY <1>0, <1>4, <2>1 DEF PromoteCheck, PromotePart, Claims
  <2>2. CASE PromoteApply
    <3>1. /\ promote.run \in Finished /\ promote.run \in RunIds
          /\ runs[promote.run].result[1] = runs[promote.run].version
      BY <2>2 DEF PromoteApply, PromoteSound, RunsSound, Finished
    <3>2. promote'.run = promote.run /\ runs' = runs
      BY <1>0, <2>2 DEF PromoteApply, PromotePart, Claims
    <3>3. prod' = runs[promote.run].result
      BY <1>0, <1>4, <2>2 DEF PromoteApply, PromotePart, Claims
    <3> QED BY <1>2, <3>1, <3>2, <3>3
  <2>3. CASE promote' = promote
    <3>1. promote.run \in RunIds /\ prod[1] >= runs[promote.run].version
      BY <1>0, <1>4, <2>3 DEF PromoteSound, Started
    <3>2. runs'[promote.run].version = runs[promote.run].version /\ runs[promote.run].version \in Nat
      BY <1>0, <1>1, <3>1 DEF RunsKept, Numbers
    <3> QED BY <1>1, <1>2, <2>3, <3>1, <3>2
  <2> QED BY <1>4, <2>1, <2>2, <2>3, PromoteChange
<1>5. ASSUME NEW i \in RunIds', runs'[i].ledger \in {"applied", "skipped"}
      PROVE  prod'[1] >= runs'[i].version
  <2>1. i \in RunIds /\ prod[1] >= runs[i].version
    <3>1. CASE i \in RunIds /\ runs'[i].ledger = runs[i].ledger
      BY <1>5, <3>1 DEF PromoteSound
    <3>2. CASE PromoteRecord /\ i = promote.run /\ runs'[i].ledger = promote.outcome
      BY <1>0, <1>5, <3>2 DEF PromoteSound, PromoteRecord, Started
    <3> QED BY <1>5, <3>1, <3>2, LedgerKept
  <2>2. runs'[i].version = runs[i].version /\ runs[i].version \in Nat
    BY <1>0, <1>1, <2>1 DEF RunsKept, Numbers
  <2> QED BY <1>1, <1>2, <2>1, <2>2
<1> QED BY <1>3, <1>4, <1>5 DEF PromoteSound

\* What may change a cycle's outputs: its own steps, the run an ingest opens, the end of
\* the ingest or the promote it waits for, and a ledger entry that is new to it.
Own(c) == Scheduled(c) \/ Job(c) \/ SelectManual(c) \/ OutcomeDies(c)
IngestEnds(c) ==
    /\ ingest.at # "idle" /\ c = ingest.by /\ ingest' = NoIngest
    /\ \E stage \in {"outcome", "promote"}, stop \in Stops :
          /\ cycle'[c] = [cycle[c] EXCEPT !.at = stage, !.stop = stop]
          /\ stage = "promote" => stop = "none"
PromoteEnds(c) ==
    /\ promote.at # "idle" /\ c = promote.by /\ promote' = NoPromote
    /\ \E fresh \in SUBSET RunIds, job \in JobResults :
          cycle'[c] = [cycle[c] EXCEPT !.fresh = fresh, !.at = "outcome", !.job = job]
Noted(c) == \E fresh \in SUBSET RunIds : cycle'[c] = [cycle[c] EXCEPT !.fresh = fresh]

LEMMA OtherCycle ==
    ASSUME TypeOK, NEW c \in Cycle, NEW d \in Cycle, d # c, Own(d)
    PROVE  cycle'[c] = cycle[c]
<1>1. cycle \in [Cycle -> Outputs(Len(runs))]
  BY CycleType
<1>2. \E o : cycle' = [cycle EXCEPT ![d] = o]
  <2>1. Select(d) => \E o : cycle' = [cycle EXCEPT ![d] = o]
    BY DEF Select
  <2>2. Begin(d) => \E o : cycle' = [cycle EXCEPT ![d] = o]
    BY DEF Begin, Goto
  <2>3. StartCompare(d) \/ Compare(d) => \E o : cycle' = [cycle EXCEPT ![d] = o]
    BY DEF StartCompare, Compare
  <2>4. PromoteOfCycle(d) => \E o : cycle' = [cycle EXCEPT ![d] = o]
    BY DEF PromoteOfCycle, Goto
  <2>5. Judge(d) \/ Record(d) \/ SelectManual(d) \/ OutcomeDies(d) => \E o : cycle' = [cycle EXCEPT ![d] = o]
    BY DEF Judge, Record, SelectManual, OutcomeDies
  <2> QED BY <2>1, <2>2, <2>3, <2>4, <2>5 DEF Own, Scheduled, Job
<1> QED BY <1>1, <1>2

LEMMA CycleChange ==
    ASSUME TypeOK, Started, [Next]_vars, NEW c \in Cycle
    PROVE  Own(c) \/ OpenRun \/ cycle'[c] = cycle[c] \/ IngestEnds(c) \/ PromoteEnds(c) \/ Noted(c)
<1>0. cycle \in [Cycle -> Outputs(Len(runs))] /\ cycle[c] \in Outputs(Len(runs)) /\ RunIds = 1..Len(runs)
  BY CycleType DEF RunIds
<1>1. ASSUME NEW d \in Cycle, Own(d) PROVE Own(c) \/ cycle'[c] = cycle[c]
  BY <1>1, OtherCycle
<1>2. ASSUME NEW stage \in {"outcome", "promote"}, NEW stop \in Stops, EndIngest(stage, stop),
             ingest.at # "idle", stage = "promote" => stop = "none"
      PROVE  cycle'[c] = cycle[c] \/ IngestEnds(c)
  BY <1>2, EndIngestType DEF IngestEnds
<1>3. ASSUME NEW job \in JobResults, EndPromote(job), promote.at # "idle"
      PROVE  cycle'[c] = cycle[c] \/ PromoteEnds(c)
  <2>1. promote' = NoPromote /\ cycle'[c] = IF c = promote.by THEN [cycle[c] EXCEPT !.at = "outcome", !.job = job]
                                            ELSE cycle[c]
    BY <1>3 DEF EndPromote
  <2>2. [cycle[c] EXCEPT !.at = "outcome", !.job = job] =
          [cycle[c] EXCEPT !.fresh = cycle[c].fresh, !.at = "outcome", !.job = job]
    BY <1>0 DEF Outputs
  <2>3. cycle[c].fresh \in SUBSET RunIds
    BY <1>0 DEF Outputs
  <2> QED BY <1>3, <2>1, <2>2, <2>3 DEF PromoteEnds
<1>4. ASSUME IngestJob PROVE OpenRun \/ cycle'[c] = cycle[c] \/ IngestEnds(c)
  <2>1. Refresh => cycle' = cycle
    BY DEF Refresh
  <2>2. NothingFinal \/ FinishRun =>
          /\ ingest.at # "idle"
          /\ \E stage \in {"outcome", "promote"}, stop \in Stops :
                EndIngest(stage, stop) /\ (stage = "promote" => stop = "none")
    BY DEF NothingFinal, FinishRun
  <2> QED BY <1>2, <1>4, <2>1, <2>2 DEF IngestJob
<1>5. ASSUME PromoteJob PROVE cycle'[c] = cycle[c] \/ PromoteEnds(c) \/ Noted(c)
  <2>1. PromoteCheck \/ PromoteApply => cycle' = cycle
    BY DEF PromoteCheck, PromoteApply
  <2>2. ASSUME PromoteRecord, ~\E job \in JobResults : EndPromote(job)
        PROVE  PromoteEnds(c) \/ Noted(c)
    <3> DEFINE fresh == IF cycle[c].at = "idle" THEN cycle[c].fresh ELSE cycle[c].fresh \cup {promote.run}
               job == IF promote.outcome = "refused" THEN "failure" ELSE "success"
    <3>1. /\ promote' = NoPromote /\ promote.at = "record"
          /\ cycle'[c] = [cycle[c] EXCEPT !.fresh = fresh,
                                          !.at = IF c = promote.by THEN "outcome" ELSE @,
                                          !.job = IF c = promote.by THEN job ELSE @]
      BY <2>2 DEF PromoteRecord
    <3>2. fresh \in SUBSET RunIds /\ job \in JobResults
      BY <1>0, <3>1 DEF Outputs, Started
    <3> HIDE DEF fresh, job
    <3>3. CASE c = promote.by
      BY <3>1, <3>2, <3>3 DEF PromoteEnds
    <3>4. CASE c # promote.by
      <4>1. cycle'[c] = [cycle[c] EXCEPT !.fresh = fresh]
        BY <1>0, <3>1, <3>4 DEF Outputs
      <4> QED BY <3>2, <4>1 DEF Noted
    <3> QED BY <3>3, <3>4
  <2>3. PromoteRecord => promote.at # "idle"
    BY DEF PromoteRecord
  <2> QED BY <1>3, <1>5, <2>1, <2>2, <2>3 DEF PromoteJob
<1>6. ASSUME Faults PROVE Own(c) \/ cycle'[c] = cycle[c] \/ IngestEnds(c) \/ PromoteEnds(c)
  <2>1. CompareFails \/ RefreshStops \/ ReadFails \/ FailsAfterApply \/ PauseNotLifted \/ IngestFails \/ Unclosed
          => /\ ingest.at # "idle"
             /\ \E stage \in {"outcome", "promote"}, stop \in Stops :
                   EndIngest(stage, stop) /\ (stage = "promote" => stop = "none")
    BY DEF CompareFails, RefreshStops, ReadFails, FailsAfterApply, PauseNotLifted, IngestFails, Unclosed
  <2>2. PromoteDies => promote.at # "idle" /\ EndPromote("failure")
    BY DEF PromoteDies
  <2>3. (\E d \in Cycle : OutcomeDies(d)) => \E d \in Cycle : Own(d)
    BY DEF Own
  <2> QED BY <1>1, <1>2, <1>3, <1>6, <2>1, <2>2, <2>3 DEF Faults
<1>7. ASSUME Hands PROVE Own(c) \/ cycle'[c] = cycle[c]
  <2>1. StartIngest \/ PromoteByHand => cycle' = cycle
    BY DEF StartIngest, PromoteByHand
  <2>2. (\E d \in Cycle : SelectManual(d)) => \E d \in Cycle : Own(d)
    BY DEF Own
  <2> QED BY <1>1, <1>7, <2>1, <2>2 DEF Hands
<1>8. World \/ UNCHANGED vars => cycle' = cycle
  BY DEF World, SourceMoves, Correct, TwentyMinutes, BeginOthers, vars
<1>9. (\E d \in Cycle : Scheduled(d) \/ Job(d)) => \E d \in Cycle : Own(d)
  BY DEF Own
<1> QED BY <1>1, <1>4, <1>5, <1>6, <1>7, <1>8, <1>9 DEF Next

\* What a cycle has read stays true of what it compares and says.
LEMMA SoundKept ==
    ASSUME DomainInv, NothingAhead, RunsSound, PromoteSound, CycleSound, [Next]_vars, NEW c \in Cycle,
           cycle'[c].asked = cycle[c].asked, cycle'[c].seen = cycle[c].seen,
           cycle'[c].previous = cycle[c].previous, cycle'[c].run = cycle[c].run,
           cycle'[c].compared = cycle[c].compared,
           cycle'[c].at = "record" => cycle[c].at = "record" /\ cycle'[c].verdict = cycle[c].verdict,
           cycle'[c].at \in {"idle", "selected", "waiting"} => cycle[c].at \in {"idle", "selected", "waiting"}
    PROVE  SoundCycle(c)'
<1>0. TypeOK /\ Numbers /\ Numbers' /\ SoundCycle(c) /\ cycle[c] \in Outputs(Len(runs))
  BY DomainNext, VersionsAreNumbers, VersionsAreNumbersNext, CycleType DEF DomainInv, CycleSound
<1>1. RunsKept /\ prod'[1] >= prod[1] /\ source' >= source
  BY RunsKeptStep, ForwardStep
<1>2. /\ prod[1] \in Nat /\ prod'[1] \in Nat /\ source \in Nat /\ source' \in Nat
      /\ cycle[c].asked \in Nat /\ cycle[c].seen[1] \in Nat
  BY <1>0 DEF Numbers
<1>3. /\ cycle[c].previous # 0 => cycle[c].previous \in Finished' /\ cycle[c].previous \in RunIds
      /\ cycle[c].run # 0 => cycle[c].run \in RunIds
  <2>1. cycle[c].run \in 0..Len(runs) /\ RunIds = 1..Len(runs) /\ Len(runs) \in Nat
    BY <1>0 DEF Outputs, Numbers
  <2> QED BY <1>0, <1>1, <2>1 DEF SoundCycle, RunsKept, Finished
<1>4. \A i \in RunIds : runs'[i].version = runs[i].version
  BY <1>1 DEF RunsKept
<1>5. /\ cycle'[c].asked <= source' /\ cycle'[c].seen[1] <= prod'[1]
      /\ cycle'[c].compared = "unchanged" => prod'[1] >= cycle'[c].asked
      /\ cycle'[c].at = "record" /\ cycle'[c].verdict \in {"unchanged", "promoted"}
            => prod'[1] >= cycle'[c].asked
  BY <1>0, <1>1, <1>2 DEF SoundCycle
<1>6. /\ cycle'[c].previous # 0 => cycle'[c].previous \in Finished'
      /\ cycle'[c].run # 0 => runs'[cycle'[c].run].version >= cycle'[c].asked
      /\ cycle'[c].compared = "promote_only" =>
            cycle'[c].previous # 0 /\ runs'[cycle'[c].previous].version >= cycle'[c].asked
  BY <1>0, <1>3, <1>4 DEF SoundCycle
<1>7. cycle'[c].at \in {"idle", "selected", "waiting"} => cycle'[c].compared # "promote_only"
  BY <1>0 DEF SoundCycle
<1> QED BY <1>5, <1>6, <1>7 DEF SoundCycle

LEMMA SoundOwn ==
    ASSUME DomainInv, NothingAhead, RunsSound, PromoteSound, CycleSound, [Next]_vars, NEW c \in Cycle, Own(c)
    PROVE  SoundCycle(c)'
<1>0. /\ TypeOK /\ Numbers /\ SoundCycle(c) /\ cycle \in [Cycle -> Outputs(Len(runs))]
      /\ cycle[c] \in Outputs(Len(runs))
  BY VersionsAreNumbers, CycleType DEF DomainInv, CycleSound
<1>1. /\ prod[1] \in Nat /\ source \in Nat /\ cycle[c].asked \in Nat /\ cycle[c].seen[1] \in Nat
      /\ RunIds = 1..Len(runs) /\ Len(runs) \in Nat
  BY <1>0 DEF Numbers
<1>2. UNCHANGED <<prod, runs>> /\ source' = source /\ RunIds' = RunIds /\ Finished' = Finished
  <2>1. UNCHANGED <<prod, runs, source>>
    BY DEF Own, Scheduled, Job, Select, Begin, SelectManual, OutcomeDies, StartCompare, Compare,
           PromoteOfCycle, StartPromote, Judge, Record
  <2> QED BY <2>1 DEF RunIds, Finished
<1>3. Asked(c) <= source
  BY <1>1 DEF Asked
<1>4. CASE Select(c)
  <2>1. PICK late \in BOOLEAN : cycle'[c] =
               [Idle EXCEPT !.at = "selected", !.asked = Asked(c),
                            !.fresh = {i \in RunIds : late /\ runs[i].ledger # "none"}]
    BY <1>0, <1>4 DEF Select
  <2> QED BY <1>1, <1>2, <1>3, <2>1 DEF Idle, SoundCycle
<1>5. CASE SelectManual(c)
  <2>1. cycle'[c] = [Idle EXCEPT !.at = "waiting", !.asked = Asked(c)]
    BY <1>0, <1>5 DEF SelectManual
  <2> QED BY <1>1, <1>2, <1>3, <2>1 DEF Idle, SoundCycle
<1>6. CASE Begin(c)
  <2>1. cycle'[c] = Idle \/ cycle'[c] = [cycle[c] EXCEPT !.at = "waiting"]
    BY <1>0, <1>6 DEF Begin, Goto
  <2>2. CASE cycle'[c] = Idle
    BY <1>1, <1>2, <2>2 DEF Idle, SoundCycle
  <2>3. CASE cycle'[c] = [cycle[c] EXCEPT !.at = "waiting"]
    <3>1. cycle[c].at = "selected"
      BY <1>6 DEF Begin
    <3> QED BY <1>0, <2>3, <3>1, SoundKept DEF Outputs
  <2> QED BY <2>1, <2>2, <2>3
<1>7. CASE Record(c) \/ OutcomeDies(c)
  <2>1. cycle'[c] = Idle
    BY <1>0, <1>7 DEF Record, OutcomeDies
  <2> QED BY <1>1, <1>2, <2>1 DEF Idle, SoundCycle
<1>8. CASE StartCompare(c)
  <2>1. cycle'[c] = [cycle[c] EXCEPT !.at = "job", !.previous = LatestFinished, !.seen = prod]
    BY <1>0, <1>8 DEF StartCompare
  <2>2. /\ cycle'[c].asked = cycle[c].asked /\ cycle'[c].seen = prod /\ cycle'[c].at = "job"
        /\ cycle'[c].previous = LatestFinished /\ cycle'[c].run = cycle[c].run
        /\ cycle'[c].compared = cycle[c].compared
    BY <1>0, <2>1 DEF Outputs
  <2>3. LatestFinished # 0 => LatestFinished \in Finished
    BY <1>0, LatestFinishedType
  <2>4. cycle[c].compared # "promote_only"
    BY <1>0, <1>8 DEF SoundCycle, StartCompare
  <2> QED BY <1>0, <1>1, <1>2, <2>2, <2>3, <2>4 DEF SoundCycle
<1>9. CASE Compare(c)
  <2>1. CASE Compared(c) = "unchanged"
    <3>0. cycle'[c] = [cycle[c] EXCEPT !.compared = "unchanged", !.at = "outcome",
                           !.seen = <<0, 0>>, !.previous = 0, !.fresh = {}]
      BY <1>0, <1>9, <2>1 DEF Compare
    <3>1. /\ cycle'[c].asked = cycle[c].asked /\ cycle'[c].seen = <<0, 0>> /\ cycle'[c].at = "outcome"
          /\ cycle'[c].previous = 0 /\ cycle'[c].run = cycle[c].run /\ cycle'[c].compared = "unchanged"
      BY <1>0, <3>0 DEF Outputs
    <3>2. cycle[c].previous \in Finished /\ runs[cycle[c].previous].version = source
          /\ runs[cycle[c].previous].result = cycle[c].seen
      BY <1>0, <2>1 DEF Compared, SoundCycle
    <3>3. cycle[c].seen[1] = source
      BY <3>2 DEF RunsSound
    <3> QED BY <1>0, <1>1, <1>2, <3>1, <3>3 DEF SoundCycle
  <2>2. CASE Compared(c) = "promote_only"
    <3>0. cycle'[c] = [cycle[c] EXCEPT !.compared = "promote_only", !.at = "promote", !.seen = <<0, 0>>]
      BY <1>0, <1>9, <2>2 DEF Compare
    <3>1. /\ cycle'[c].asked = cycle[c].asked /\ cycle'[c].seen = <<0, 0>> /\ cycle'[c].at = "promote"
          /\ cycle'[c].previous = cycle[c].previous /\ cycle'[c].run = cycle[c].run
          /\ cycle'[c].compared = "promote_only"
      BY <1>0, <3>0 DEF Outputs
    <3>2. cycle[c].previous # 0 /\ runs[cycle[c].previous].version = source
      BY <2>2 DEF Compared
    <3> QED BY <1>0, <1>1, <1>2, <3>1, <3>2 DEF SoundCycle
  <2>3. CASE Compared(c) = "changed"
    <3>0. cycle'[c] = [cycle[c] EXCEPT !.compared = "changed", !.seen = <<0, 0>>, !.previous = 0, !.fresh = {}]
      BY <1>0, <1>9, <2>3 DEF Compare
    <3>1. /\ cycle'[c].asked = cycle[c].asked /\ cycle'[c].seen = <<0, 0>> /\ cycle'[c].at = cycle[c].at
          /\ cycle'[c].previous = 0 /\ cycle'[c].run = cycle[c].run /\ cycle'[c].compared = "changed"
          /\ cycle'[c].verdict = cycle[c].verdict
      BY <1>0, <3>0 DEF Outputs
    <3> QED BY <1>0, <1>1, <1>2, <3>1 DEF SoundCycle
  <2> QED BY <1>9, <2>1, <2>2, <2>3 DEF Compare
<1>10. CASE PromoteOfCycle(c)
  <2>1. cycle'[c] = [cycle[c] EXCEPT !.at = "promoting"]
    BY <1>0, <1>10 DEF PromoteOfCycle, Goto
  <2> QED BY <1>0, <2>1, SoundKept DEF Outputs
<1>11. CASE Judge(c)
  <2>1. /\ cycle'[c].asked = cycle[c].asked /\ cycle'[c].run = cycle[c].run
        /\ cycle'[c].verdict = Verdict(c) /\ cycle'[c].previous = 0 /\ cycle'[c].seen = <<0, 0>>
        /\ cycle'[c].compared = "none" /\ cycle'[c].at = "record" /\ runs' = runs
    BY <1>0, <1>11, JudgedFields DEF Judge
  <2>2. Verdict(c) = "unchanged" => cycle[c].compared = "unchanged"
    BY DEF Verdict, VerdictOfPromote
  <2>3. Verdict(c) = "promoted" => /\ JudgedRun(c) # 0
                                   /\ runs[JudgedRun(c)].ledger \in {"applied", "skipped"}
    BY DEF Verdict, VerdictOfPromote
  <2>4. JudgedRun(c) # 0 => /\ JudgedRun(c) \in RunIds
                            /\ runs[JudgedRun(c)].version >= cycle[c].asked
    BY <1>0, <1>1 DEF JudgedRun, Outputs, SoundCycle, Finished
  <2>5. Verdict(c) = "promoted" => prod[1] >= cycle[c].asked
    <3>1. ASSUME NEW i \in RunIds, runs[i].ledger \in {"applied", "skipped"}, runs[i].version >= cycle[c].asked
          PROVE  prod[1] >= cycle[c].asked
      BY <1>0, <1>1, <3>1 DEF PromoteSound, Numbers
    <3> QED BY <2>3, <2>4, <3>1
  <2>6. Verdict(c) \in {"unchanged", "promoted"} => prod[1] >= cycle[c].asked
    BY <1>0, <2>2, <2>5 DEF SoundCycle
  <2> QED BY <1>0, <1>1, <1>2, <2>1, <2>6 DEF SoundCycle
<1> QED BY <1>4, <1>5, <1>6, <1>7, <1>8, <1>9, <1>10, <1>11 DEF Own, Scheduled, Job

LEMMA SyncNext == SyncInv /\ [Next]_vars => SyncInv'
<1> SUFFICES ASSUME SyncInv, [Next]_vars PROVE SyncInv'
  OBVIOUS
<1>0. DomainInv /\ NothingAhead /\ RunsSound /\ PromoteSound /\ CycleSound /\ DomainInv' /\ TypeOK /\ Numbers /\ Started
  BY DomainNext, VersionsAreNumbers DEF SyncInv, DomainInv
<1>1. ASSUME NEW c \in Cycle PROVE SoundCycle(c)'
  <2>0. cycle \in [Cycle -> Outputs(Len(runs))] /\ cycle[c] \in Outputs(Len(runs)) /\ SoundCycle(c)
    BY <1>0, CycleType DEF CycleSound
  <2>1. CASE OpenRun /\ c = ingest.by
    <3>1. /\ cycle'[c] = [cycle[c] EXCEPT !.run = Len(runs) + 1]
          /\ runs'[Len(runs) + 1].version = source /\ UNCHANGED <<source, prod>>
      BY <1>0, <2>1, OpenRunType DEF OpenRun
    <3>2. /\ cycle'[c].asked = cycle[c].asked /\ cycle'[c].seen = cycle[c].seen /\ cycle'[c].at = cycle[c].at
          /\ cycle'[c].previous = cycle[c].previous /\ cycle'[c].run = Len(runs) + 1
          /\ cycle'[c].compared = cycle[c].compared /\ cycle'[c].verdict = cycle[c].verdict
      BY <2>0, <3>1 DEF Outputs
    <3>3. /\ cycle[c].previous # 0 => /\ cycle[c].previous \in Finished'
                                      /\ runs'[cycle[c].previous].version = runs[cycle[c].previous].version
      BY <1>0, <2>0, RunsKeptStep DEF RunsKept, SoundCycle, Finished
    <3> QED BY <2>0, <3>1, <3>2, <3>3 DEF SoundCycle
  <2>2. CASE OpenRun /\ c # ingest.by
    <3>1. cycle'[c] = cycle[c]
      BY <2>2 DEF OpenRun
    <3> QED BY <1>0, <3>1, SoundKept
  <2>3. CASE Own(c)
    BY <1>0, <2>3, SoundOwn
  <2>4. CASE cycle'[c] = cycle[c]
    BY <1>0, <2>4, SoundKept
  <2>5. CASE IngestEnds(c)
    <3>1. PICK stage \in {"outcome", "promote"}, stop \in Stops :
             cycle'[c] = [cycle[c] EXCEPT !.at = stage, !.stop = stop]
      BY <2>5 DEF IngestEnds
    <3> QED BY <1>0, <2>0, <3>1, SoundKept DEF Outputs
  <2>6. CASE PromoteEnds(c)
    <3>1. PICK fresh \in SUBSET RunIds, job \in JobResults :
             cycle'[c] = [cycle[c] EXCEPT !.fresh = fresh, !.at = "outcome", !.job = job]
      BY <2>6 DEF PromoteEnds
    <3> QED BY <1>0, <2>0, <3>1, SoundKept DEF Outputs
  <2>7. CASE Noted(c)
    <3>1. PICK fresh \in SUBSET RunIds : cycle'[c] = [cycle[c] EXCEPT !.fresh = fresh]
      BY <2>7 DEF Noted
    <3> QED BY <1>0, <2>0, <3>1, SoundKept DEF Outputs
  <2> QED BY <1>0, <2>1, <2>2, <2>3, <2>4, <2>5, <2>6, <2>7, CycleChange
<1>2. NothingAhead' /\ RunsSound' /\ PromoteSound'
  BY <1>0, ForwardStep, RunsSoundStep, PromoteSoundStep
<1> QED BY <1>0, <1>1, <1>2 DEF SyncInv, CycleSound

LEMMA SyncInit == Init => SyncInv
<1> SUFFICES ASSUME Init PROVE SyncInv
  OBVIOUS
<1>1. DomainInv
  BY DomainInit
<1>2. RunIds = {} /\ Finished = {}
  BY DEF Init, RunIds, Finished
<1>3. NothingAhead /\ RunsSound /\ PromoteSound
  BY <1>2 DEF Init, NothingAhead, RunsSound, PromoteSound, NoPromote, NoIngest
<1>4. CycleSound
  BY <1>2 DEF Init, CycleSound, SoundCycle, Idle
<1> QED BY <1>1, <1>3, <1>4 DEF SyncInv

LEMMA SyncAlways == Spec => []SyncInv
<1> QED BY SyncInit, SyncNext, PTL DEF Spec

\* A cycle that says "unchanged" or "promoted" missed nothing: PROD holds listings at
\* least as new as those the organiser showed when the cycle was selected, for any
\* number of cycles, manual runs, failures and versions (run_compare, _said).
THEOREM SyncMissesNothing == Spec => []NothingMissed
<1>1. SyncInv => NothingMissed
  BY ResultsSyncAssumption DEF SyncInv, CycleSound, SoundCycle, NothingMissed
<1> QED BY <1>1, SyncAlways, PTL

\* What may become of the job that holds cert-write.
LEMMA IngestChange ==
    ASSUME TypeOK, [Next]_vars, ingest'.at # "idle"
    PROVE  \/ OpenRun \/ ingest' = ingest
           \/ \E d \in Cycle : StartCompare(d) /\ ingest'.by = d /\ ingest'.at = "compare"
           \/ ingest'.by = Manual
           \/ /\ ingest.at \in {"compare", "refresh"} /\ ingest'.at \in {"refresh", "open"}
              /\ ingest'.by = ingest.by
<1>0. NoIngest.at = "idle" /\ ingest' # NoIngest
  BY DEF NoIngest
<1>1. ASSUME NEW d \in Cycle, Own(d)
      PROVE  \/ ingest' = ingest
             \/ StartCompare(d) /\ ingest'.by = d /\ ingest'.at = "compare"
             \/ ingest.at = "compare" /\ ingest'.at = "refresh" /\ ingest'.by = ingest.by
  <2>1. StartCompare(d) => ingest'.by = d /\ ingest'.at = "compare"
    BY DEF StartCompare
  <2>2. Compare(d) => ingest.at = "compare" /\ ingest'.at = "refresh" /\ ingest'.by = ingest.by
    BY <1>0 DEF Compare, TypeOK
  <2> QED BY <1>1, <2>1, <2>2 DEF Own, Scheduled, Job, Select, Begin, PromoteOfCycle, StartPromote, Judge,
                                  Record, SelectManual, OutcomeDies
<1>2. IngestJob => \/ OpenRun
                   \/ ingest.at = "refresh" /\ ingest'.at = "open" /\ ingest'.by = ingest.by
  BY <1>0 DEF IngestJob, Refresh, NothingFinal, FinishRun, EndIngest, TypeOK
<1>3. PromoteJob => ingest' = ingest
  BY DEF PromoteJob, PromoteCheck, PromoteApply, PromoteRecord
<1>4. Faults => ingest' = ingest
  <2>1. ~(CompareFails \/ RefreshStops \/ ReadFails \/ FailsAfterApply \/ PauseNotLifted \/ IngestFails \/ Unclosed)
    BY <1>0 DEF CompareFails, RefreshStops, ReadFails, FailsAfterApply, PauseNotLifted, IngestFails, Unclosed, EndIngest
  <2> QED BY <2>1 DEF Faults, PromoteDies, OutcomeDies
<1>5. Hands => ingest' = ingest \/ ingest'.by = Manual
  <2>1. StartIngest => ingest'.by = Manual
    BY DEF StartIngest
  <2> QED BY <2>1 DEF Hands, PromoteByHand, StartPromote, SelectManual
<1>6. World \/ UNCHANGED vars => ingest' = ingest
  BY DEF World, SourceMoves, Correct, TwentyMinutes, BeginOthers, vars
<1>7. (\E d \in Cycle : Scheduled(d) \/ Job(d)) => \E d \in Cycle : Own(d)
  BY DEF Own
<1> QED BY <1>1, <1>2, <1>3, <1>4, <1>5, <1>6, <1>7 DEF Next

\* What may become of the job that holds prod-write.
LEMMA PromoteHolder ==
    ASSUME TypeOK, [Next]_vars, promote'.at # "idle"
    PROVE  \/ promote.at # "idle" /\ promote'.by = promote.by
           \/ \E d \in Cycle : PromoteOfCycle(d) /\ promote'.by = d
           \/ promote'.by = Manual
<1>0. NoPromote.at = "idle" /\ promote' # NoPromote
  BY DEF NoPromote
<1>1. ASSUME NEW d \in Cycle, Own(d) PROVE promote' = promote \/ (PromoteOfCycle(d) /\ promote'.by = d)
  <2>1. PromoteOfCycle(d) => promote'.by = d
    BY DEF PromoteOfCycle, StartPromote, NoPromote
  <2> QED BY <1>1, <2>1 DEF Own, Scheduled, Job, Select, Begin, StartCompare, Compare, Judge, Record,
                            SelectManual, OutcomeDies
<1>2. IngestJob => promote' = promote
  BY DEF IngestJob, Refresh, OpenRun, NothingFinal, FinishRun
<1>3. PromoteJob => promote.at # "idle" /\ promote'.by = promote.by
  <2>1. PromoteRecord => promote' = NoPromote
    BY DEF PromoteRecord, EndPromote
  <2>2. PromoteCheck => promote.at # "idle" /\ promote'.by = promote.by
    BY DEF PromoteCheck, TypeOK
  <2>3. PromoteApply => promote.at # "idle" /\ promote'.by = promote.by
    BY DEF PromoteApply, TypeOK
  <2> QED BY <1>0, <2>1, <2>2, <2>3 DEF PromoteJob
<1>4. Faults => promote' = promote
  BY <1>0 DEF Faults, CompareFails, RefreshStops, ReadFails, FailsAfterApply, PauseNotLifted, IngestFails,
              Unclosed, PromoteDies, EndPromote, OutcomeDies
<1>5. Hands => promote' = promote \/ promote'.by = Manual
  BY DEF Hands, StartIngest, PromoteByHand, StartPromote, NoPromote, SelectManual
<1>6. World \/ UNCHANGED vars => promote' = promote
  BY DEF World, SourceMoves, Correct, TwentyMinutes, BeginOthers, vars
<1>7. (\E d \in Cycle : Scheduled(d) \/ Job(d)) => \E d \in Cycle : Own(d)
  BY DEF Own
<1> QED BY <1>1, <1>2, <1>3, <1>4, <1>5, <1>6, <1>7 DEF Next

\* Only the ingest that opened it finishes a run.
LEMMA NewlyFinished ==
    ASSUME DomainInv, RunsSound, [Next]_vars, NEW i \in RunIds, i \in Finished', i \notin Finished
    PROVE  i = Current /\ ingest.at = "finish"
<1>0. TypeOK /\ Numbers /\ runs[i].status # "FINISHED" /\ runs'[i].status = "FINISHED"
  BY VersionsAreNumbers DEF DomainInv, Finished
<1>1. CASE OpenRun
  <2>1. runs'[i] = IF runs[i].status = "RUNNING" THEN [runs[i] EXCEPT !.status = "ABANDONED"] ELSE runs[i]
    BY <1>0, <1>1, OpenRunType
  <2>2. [runs[i] EXCEPT !.status = "ABANDONED"].status = "ABANDONED"
    BY <1>0 DEF Numbers, Run
  <2> QED BY <1>0, <2>1, <2>2
<1>2. CASE NothingFinal \/ FinishRun \/ FailsAfterApply \/ PauseNotLifted \/ IngestFails \/ Unclosed
  BY <1>0, <1>2, FinishRows
<1>3. CASE PromoteRecord
  <2>1. [runs[i] EXCEPT !.ledger = promote.outcome].status = runs[i].status
    BY <1>0 DEF Numbers, Run
  <2> QED BY <1>0, <1>3, <2>1, RowsEntered
<1>4. CASE runs' = runs
  BY <1>0, <1>4
<1> QED BY <1>1, <1>2, <1>3, <1>4, RowsChange

\* A job that ends an opened run and finds nothing final stops for nothing.
LEMMA NothingFinalStopsNothing ==
    ASSUME DomainInv, RunsSound, [Next]_vars, ingest.at = "finish", ingest' = NoIngest,
           Current \in Finished', runs[Current].version = 0, ingest.by \in Cycle
    PROVE  cycle'[ingest.by].stop = "none"
<1>0. TypeOK /\ Started /\ Numbers /\ ingest' # ingest /\ Current \in RunIds
  BY VersionsAreNumbers DEF DomainInv, NoIngest, Started, Numbers
<1>1. Current \notin Finished
  BY DEF RunsSound, Finished
<1>2. runs' # runs
  BY <1>1 DEF Finished, RunIds
<1>3. NothingFinal \/ IngestFails
  <2>1. ~OpenRun /\ ~PromoteRecord /\ ~Unclosed
    BY <1>0, <1>2 DEF OpenRun, PromoteRecord, Unclosed
  <2> QED BY <1>2, <2>1, RowsChange DEF FinishRun, FailsAfterApply, PauseNotLifted
<1>4. CASE IngestFails
  <2>1. runs'[Current] = [runs[Current] EXCEPT !.status = "FAILED", !.gate = "none", !.result = cert']
    BY <1>0, <1>4, CloseType, TypeJobSteps DEF IngestFails, Faults, DomainInv, TypeOK, Started
  <2>2. runs'[Current].status = "FAILED"
    BY <1>0, <2>1 DEF Numbers, Run
  <2> QED BY <2>2 DEF Finished, Current
<1>5. CASE NothingFinal
  <2>1. cycle'[ingest.by] = [cycle[ingest.by] EXCEPT !.at = "outcome", !.stop = "none"]
    BY <1>0, <1>5, EndIngestType DEF NothingFinal
  <2>2. cycle[ingest.by] \in Outputs(Len(runs))
    BY <1>0, CycleType
  <2> QED BY <2>1, <2>2 DEF Outputs
<1> QED BY <1>3, <1>4, <1>5

\* What a cycle's own steps make of its stage.
LEMMA OwnStage ==
    ASSUME NEW c \in Cycle, Own(c)
    PROVE  cycle[c].at \in {"job", "promoting"} => Compare(c)
<1>1. Select(c) \/ Begin(c) \/ SelectManual(c) \/ OutcomeDies(c) => cycle[c].at \in {"idle", "selected", "outcome", "record"}
  BY DEF Select, Begin, SelectManual, OutcomeDies
<1>2. StartCompare(c) \/ PromoteOfCycle(c) \/ Judge(c) \/ Record(c) =>
        cycle[c].at \in {"waiting", "promote", "outcome", "record"}
  BY DEF StartCompare, PromoteOfCycle, Judge, Record
<1> QED BY <1>1, <1>2 DEF Own, Scheduled, Job

LEMMA ComparedNext ==
    ASSUME TypeOK, NEW c \in Cycle, Waits(c), Compare(c)
    PROVE  /\ cycle[c].at = "job" /\ cycle[c].run = 0
           /\ cycle'[c].run = cycle[c].run /\ cycle'[c].stop = cycle[c].stop /\ cycle'[c].job = cycle[c].job
           /\ \/ cycle'[c].at = "outcome" /\ ingest' = NoIngest
              \/ cycle'[c].at = "promote" /\ ingest' = NoIngest
              \/ cycle'[c].at = "job" /\ cycle'[c].compared = "changed"
<1>0. cycle \in [Cycle -> Outputs(Len(runs))] /\ cycle[c] \in Outputs(Len(runs))
  BY CycleType
<1>1. cycle[c].at = "job" /\ cycle[c].run = 0
  BY DEF Compare, Waits
<1>2. \/ /\ cycle'[c] = [cycle[c] EXCEPT !.compared = "unchanged", !.at = "outcome",
                                         !.seen = <<0, 0>>, !.previous = 0, !.fresh = {}]
         /\ ingest' = NoIngest
      \/ /\ cycle'[c] = [cycle[c] EXCEPT !.compared = "promote_only", !.at = "promote", !.seen = <<0, 0>>]
         /\ ingest' = NoIngest
      \/ cycle'[c] = [cycle[c] EXCEPT !.compared = "changed", !.seen = <<0, 0>>, !.previous = 0, !.fresh = {}]
  BY <1>0 DEF Compare
<1> QED BY <1>0, <1>1, <1>2 DEF Outputs

LEMMA RunOfCycle ==
    ASSUME DomainInv, PauseInv, [Next]_vars, NEW c \in Cycle
    PROVE  \/ cycle'[c].run = cycle[c].run \/ cycle'[c].run = 0
           \/ OpenRun /\ c = ingest.by /\ cycle'[c].run = Len(runs) + 1
<1>0. /\ TypeOK /\ Started /\ cycle \in [Cycle -> Outputs(Len(runs))] /\ cycle[c] \in Outputs(Len(runs))
      /\ Waits(c)
  BY CycleType DEF DomainInv, PauseInv
<1>1. CASE Own(c)
  <2>1. Compare(c) \/ Judge(c) => cycle'[c].run = cycle[c].run
    BY <1>0, ComparedNext, JudgedFields
  <2>2. Select(c) \/ SelectManual(c) => cycle'[c].run = 0
    <3>1. Select(c) => cycle'[c].run = 0
      <4>1. Select(c) => \E late \in BOOLEAN : cycle'[c] =
                  [Idle EXCEPT !.at = "selected", !.asked = Asked(c),
                               !.fresh = {i \in RunIds : late /\ runs[i].ledger # "none"}]
        BY <1>0 DEF Select
      <4> QED BY <4>1 DEF Idle
    <3>2. SelectManual(c) => cycle'[c] = [Idle EXCEPT !.at = "waiting", !.asked = Asked(c)]
      BY <1>0 DEF SelectManual
    <3> QED BY <3>1, <3>2 DEF Idle
  <2>3. Begin(c) \/ PromoteOfCycle(c) \/ Record(c) \/ OutcomeDies(c) =>
          cycle'[c] = Idle \/ \E s \in Stages : cycle'[c] = [cycle[c] EXCEPT !.at = s]
    BY <1>0 DEF Begin, PromoteOfCycle, Goto, Record, OutcomeDies
  <2>4. StartCompare(c) => cycle'[c] = [cycle[c] EXCEPT !.at = "job", !.previous = LatestFinished, !.seen = prod]
    BY <1>0 DEF StartCompare
  <2>5. \A s \in Stages : [cycle[c] EXCEPT !.at = s].run = cycle[c].run
    BY <1>0 DEF Outputs
  <2>6. StartCompare(c) => cycle'[c].run = cycle[c].run
    BY <1>0, <2>4 DEF Outputs
  <2>7. Idle.run = 0
    BY DEF Idle
  <2> QED BY <1>1, <2>1, <2>2, <2>3, <2>5, <2>6, <2>7 DEF Own, Scheduled, Job
<1>2. CASE OpenRun
  <2>1. cycle'[c] = IF c = ingest.by THEN [cycle[c] EXCEPT !.run = Len(runs) + 1] ELSE cycle[c]
    BY <1>2 DEF OpenRun
  <2> QED BY <1>0, <1>2, <2>1 DEF Outputs
<1>3. CASE cycle'[c] = cycle[c]
  BY <1>3
<1>4. CASE IngestEnds(c)
  BY <1>0, <1>4 DEF IngestEnds, Outputs
<1>5. CASE PromoteEnds(c)
  BY <1>0, <1>5 DEF PromoteEnds, Outputs
<1>6. CASE Noted(c)
  BY <1>0, <1>6 DEF Noted, Outputs
<1> QED BY <1>0, <1>1, <1>2, <1>3, <1>4, <1>5, <1>6, CycleChange

\* A cycle that waits for its job waits on until the job ends.
LEMMA WaitingStays ==
    ASSUME DomainInv, PauseInv, [Next]_vars, NEW c \in Cycle
    PROVE  /\ ingest.at # "idle" /\ ingest.by = c /\ ingest'.at # "idle" =>
                 cycle'[c].at = "job" /\ (OpenRun \/ cycle'[c].run = cycle[c].run)
           /\ promote.at # "idle" /\ promote.by = c /\ promote'.at # "idle" => cycle'[c].at = "promoting"
<1>0. /\ TypeOK /\ Started /\ cycle \in [Cycle -> Outputs(Len(runs))] /\ cycle[c] \in Outputs(Len(runs))
      /\ Waits(c)
  BY CycleType DEF DomainInv, PauseInv
<1>1. NoIngest.at = "idle" /\ NoPromote.at = "idle"
  BY DEF NoIngest, NoPromote
<1>2. OpenRun \/ cycle'[c] = cycle[c] \/ Noted(c) =>
        cycle'[c].at = cycle[c].at /\ (OpenRun \/ cycle'[c].run = cycle[c].run)
  <2>1. OpenRun => cycle'[c] = IF c = ingest.by THEN [cycle[c] EXCEPT !.run = Len(runs) + 1] ELSE cycle[c]
    BY DEF OpenRun
  <2> QED BY <1>0, <2>1 DEF Noted, Outputs
<1>3. ASSUME ingest.at # "idle", ingest.by = c, ingest'.at # "idle"
      PROVE  cycle'[c].at = "job" /\ (OpenRun \/ cycle'[c].run = cycle[c].run)
  <2>1. cycle[c].at = "job"
    BY <1>0, <1>3 DEF Waits
  <2>2. ~IngestEnds(c) /\ ~PromoteEnds(c)
    BY <1>0, <1>1, <1>3, <2>1 DEF IngestEnds, PromoteEnds, Waits
  <2>3. Own(c) => cycle'[c].at = "job" /\ cycle'[c].run = cycle[c].run
    BY <1>0, <1>1, <1>3, <2>1, OwnStage, ComparedNext
  <2> QED BY <1>0, <1>2, <2>1, <2>2, <2>3, CycleChange
<1>4. ASSUME promote.at # "idle", promote.by = c, promote'.at # "idle" PROVE cycle'[c].at = "promoting"
  <2>1. cycle[c].at = "promoting"
    BY <1>0, <1>4 DEF Waits
  <2>2. ~IngestEnds(c) /\ ~PromoteEnds(c) /\ ~Own(c)
    BY <1>0, <1>1, <1>4, <2>1, OwnStage, ComparedNext DEF IngestEnds, PromoteEnds, Waits
  <2> QED BY <1>0, <1>2, <2>1, <2>2, CycleChange
<1> QED BY <1>3, <1>4

LEMMA WaitsStep ==
    ASSUME SyncInv, PauseInv, [Next]_vars, NEW c \in Cycle
    PROVE  Waits(c)'
<1>0. /\ DomainInv /\ TypeOK /\ Started /\ Numbers /\ DomainInv' /\ Numbers' /\ Waits(c) /\ Stopped(c)
      /\ cycle \in [Cycle -> Outputs(Len(runs))] /\ cycle[c] \in Outputs(Len(runs)) /\ RunsSound
  BY VersionsAreNumbers, VersionsAreNumbersNext, DomainNext, CycleType DEF SyncInv, DomainInv, PauseInv
<1>1. c # Manual /\ Len(runs) \in Nat /\ RunIds = 1..Len(runs) /\ Current = Len(runs)
  BY <1>0, ResultsSyncAssumption DEF Numbers
<1>2. ASSUME OpenRun
      PROVE  /\ Current' = Len(runs) + 1 /\ ingest.at = "open" /\ ingest'.at = "finish" /\ ingest'.by = ingest.by
             /\ cycle'[c] = IF c = ingest.by THEN [cycle[c] EXCEPT !.run = Len(runs) + 1] ELSE cycle[c]
  <2>1. Len(runs') = Len(runs) + 1
    BY <1>0, <1>2, OpenRunType
  <2>2. ingest.at = "open" /\ ingest' = [ingest EXCEPT !.at = "finish"]
        /\ cycle'[c] = IF c = ingest.by THEN [cycle[c] EXCEPT !.run = Len(runs) + 1] ELSE cycle[c]
    BY <1>2 DEF OpenRun
  <2> QED BY <1>0, <2>1, <2>2 DEF Current, TypeOK
<1>3. ASSUME ~OpenRun, ingest'.at = "finish"
      PROVE  Current' = Current /\ ingest.at = "finish" /\ ingest' = ingest /\ Current \in RunIds
  <2>1. ingest.at = "finish" /\ ingest' = ingest /\ (PromoteRecord \/ runs' = runs)
    BY <1>0, <1>3, FinishUnderWay
  <2>2. Len(runs') = Len(runs)
    BY <1>0, <2>1, RowsEntered
  <2> QED BY <1>0, <1>1, <2>1, <2>2 DEF Current, Started
<1>4. ASSUME ingest'.at # "idle", ingest'.by = c
      PROVE  cycle'[c].at = "job" /\ cycle'[c].run = (IF ingest'.at = "finish" THEN Current' ELSE 0)
  <2>1. CASE OpenRun
    <3>1. cycle[c].at = "job" /\ c = ingest.by
      BY <1>0, <1>2, <1>4, <2>1 DEF Waits
    <3> QED BY <1>0, <1>2, <2>1, <3>1 DEF Outputs
  <2>2. CASE StartCompare(c) /\ ingest'.at = "compare"
    <3>1. cycle'[c] = [cycle[c] EXCEPT !.at = "job", !.previous = LatestFinished, !.seen = prod]
      BY <1>0, <2>2 DEF StartCompare
    <3>2. cycle[c].run = 0
      BY <1>0, <2>2 DEF StartCompare, Stopped
    <3> QED BY <1>0, <2>2, <3>1, <3>2 DEF Outputs
  <2>3. CASE ~OpenRun /\ ingest.at # "idle" /\ ingest.by = c /\ (ingest' = ingest \/ ingest.at # "finish")
    <3>1. cycle'[c].at = "job" /\ cycle'[c].run = cycle[c].run
      BY <1>4, <1>0, <2>3, WaitingStays
    <3>2. ingest'.at = "finish" => ingest.at = "finish" /\ Current' = Current
      BY <1>3, <2>3
    <3> QED BY <1>0, <2>3, <3>1, <3>2 DEF Waits
  <2>4. /\ OpenRun \/ ingest' = ingest
           \/ (StartCompare(c) /\ ingest'.at = "compare")
           \/ (ingest.at \in {"compare", "refresh"} /\ ingest'.by = ingest.by)
    BY <1>0, <1>1, <1>4, IngestChange
  <2> QED BY <1>4, <2>1, <2>2, <2>3, <2>4
<1>5. ASSUME promote'.at # "idle", promote'.by = c PROVE cycle'[c].at = "promoting"
  <2>1. CASE promote.at # "idle" /\ promote'.by = promote.by
    BY <1>0, <1>5, <2>1, WaitingStays
  <2>2. CASE PromoteOfCycle(c)
    <3>1. cycle'[c] = [cycle[c] EXCEPT !.at = "promoting"]
      BY <1>0, <2>2 DEF PromoteOfCycle, Goto
    <3> QED BY <1>0, <3>1 DEF Outputs
  <2> QED BY <1>0, <1>1, <1>5, <2>1, <2>2, PromoteHolder
<1>6. ASSUME ingest'.at = "finish", cycle'[c].run = Current' PROVE ingest'.by = c
  <2>1. CASE OpenRun
    <3>1. cycle[c].run \in 0..Len(runs)
      BY <1>0 DEF Outputs
    <3> QED BY <1>1, <1>2, <1>6, <2>1, <3>1
  <2>2. CASE ~OpenRun
    <3>1. Current' = Current /\ ingest.at = "finish" /\ ingest' = ingest /\ Current # 0
      BY <1>1, <1>3, <1>6, <2>2
    <3>2. cycle[c].run = Current
      BY <1>0, <1>6, <2>2, <3>1, RunOfCycle
    <3> QED BY <1>0, <3>1, <3>2 DEF Waits
  <2> QED BY <2>1, <2>2
<1> QED BY <1>4, <1>5, <1>6 DEF Waits

\* A run that a stopped cycle started and that finishes read something final.
LEMMA StoppedKept ==
    ASSUME SyncInv, PauseInv, [Next]_vars, NEW c \in Cycle, cycle'[c].stop = cycle[c].stop,
           cycle'[c].run = cycle[c].run, cycle'[c].stop \in {"read", "ingest"}, cycle'[c].run \in Finished'
    PROVE  runs'[cycle'[c].run].version # 0
<1>0. /\ DomainInv /\ TypeOK /\ Numbers /\ RunsSound /\ Waits(c) /\ Stopped(c) /\ cycle[c] \in Outputs(Len(runs))
      /\ RunsKept
  BY VersionsAreNumbers, CycleType, RunsKeptStep DEF SyncInv, DomainInv, PauseInv
<1>1. cycle[c].run \in Finished' /\ cycle[c].run \in RunIds
  <2>1. cycle[c].run \in 0..Len(runs) /\ RunIds = 1..Len(runs) /\ Len(runs) \in Nat
    BY <1>0 DEF Outputs, Numbers
  <2>2. 0 \notin RunIds'
    BY DEF RunIds
  <2> QED BY <2>1, <2>2 DEF Finished
<1>2. cycle[c].run \in Finished
  <2>1. ASSUME cycle[c].run \notin Finished PROVE FALSE
    <3>1. cycle[c].run = Current /\ ingest.at = "finish"
      BY <1>0, <1>1, <2>1, NewlyFinished
    <3> QED BY <1>0, <3>1 DEF Waits, Stopped
  <2> QED BY <2>1
<1>3. runs[cycle[c].run].version # 0
  BY <1>0, <1>2 DEF Stopped
<1> QED BY <1>0, <1>1, <1>3 DEF RunsKept

\* A run left open stays open: nothing closes a run but the ingest that opened it.
LEMMA OpenKept ==
    ASSUME DomainInv, RunsSound, [Next]_vars, NEW i \in RunIds, LeftOpen(i),
           ~(i = Current /\ ingest.at = "finish")
    PROVE  runs'[i].status \in {"RUNNING", "ABANDONED"}
<1>0. TypeOK /\ Numbers /\ runs[i] \in Run /\ runs[i].status \in {"RUNNING", "ABANDONED"}
  BY VersionsAreNumbers DEF DomainInv, LeftOpen, Numbers
<1>1. CASE OpenRun
  <2>1. runs'[i] = IF runs[i].status = "RUNNING" THEN [runs[i] EXCEPT !.status = "ABANDONED"] ELSE runs[i]
    BY <1>0, <1>1, OpenRunType
  <2>2. [runs[i] EXCEPT !.status = "ABANDONED"].status = "ABANDONED"
    BY <1>0 DEF Run
  <2> QED BY <1>0, <2>1, <2>2
<1>2. CASE NothingFinal \/ FinishRun \/ FailsAfterApply \/ PauseNotLifted \/ IngestFails \/ Unclosed
  BY <1>0, <1>2, FinishRows
<1>3. CASE PromoteRecord
  <2>1. [runs[i] EXCEPT !.ledger = promote.outcome].status = runs[i].status
    BY <1>0 DEF Run
  <2> QED BY <1>0, <1>3, <2>1, RowsEntered
<1>4. CASE runs' = runs
  BY <1>0, <1>4
<1> QED BY <1>1, <1>2, <1>3, <1>4, RowsChange

\* So a judged cycle's run does.
LEMMA StillOpen ==
    ASSUME SyncInv, PauseInv, [Next]_vars, NEW c \in Cycle, cycle[c].at = "record", LeftOpen(cycle[c].run)
    PROVE  cycle[c].run # 0 /\ runs'[cycle[c].run].status \in {"RUNNING", "ABANDONED"}
<1>1. DomainInv /\ RunsSound /\ Numbers /\ Waits(c) /\ cycle[c] \in Outputs(Len(runs))
  BY VersionsAreNumbers, CycleType DEF SyncInv, DomainInv, PauseInv
<1>2. cycle[c].run \in RunIds /\ cycle[c].run # 0
  BY <1>1 DEF LeftOpen, Outputs, Numbers
<1>3. ~(cycle[c].run = Current /\ ingest.at = "finish")
  BY <1>1 DEF Waits
<1> QED BY <1>1, <1>2, <1>3, OpenKept

\* The verdict of a failed ingest pauses, unless its run was left open.
LEMMA VerdictPauses ==
    ASSUME TypeOK, NEW c \in Cycle, Stopped(c), cycle[c].at = "outcome", cycle[c].stop \in Failure
    PROVE  Verdict(c) \in Pausing \/ LeftOpen(cycle[c].run)
<1> DEFINE i == JudgedRun(c)
<1>0. cycle[c] \in Outputs(Len(runs)) /\ Numbers /\ cycle[c].stop \in {"read", "refresh", "refused", "ingest"}
  BY CycleType, VersionsAreNumbers DEF Failure
<1>1. cycle[c].job = "none" /\ cycle[c].compared \in {"none", "changed"} /\ i = cycle[c].run
  BY <1>0 DEF Stopped, JudgedRun
<1>2. i # 0 => i \in RunIds /\ runs[i].status \in {"RUNNING", "FINISHED", "FAILED", "ABANDONED"}
  BY <1>0, <1>1 DEF Outputs, Numbers, Run
<1>3. VerdictOfPromote(c, i) \in {"refused", "failed"}
  BY <1>1 DEF VerdictOfPromote
<1>4. CASE cycle[c].stop \in {"refresh", "refused"}
  BY <1>1, <1>4 DEF Verdict, Pausing
<1>5. CASE cycle[c].stop \in {"read", "ingest"} /\ i = 0
  BY <1>1, <1>5 DEF Verdict, Pausing
<1>6. CASE cycle[c].stop \in {"read", "ingest"} /\ i # 0 /\ ~LeftOpen(i)
  <2>1. runs[i].status \in {"FINISHED", "FAILED"}
    BY <1>2, <1>6 DEF LeftOpen
  <2>2. runs[i].status = "FINISHED" => Read(i) # 0
    BY <1>0, <1>1, <1>2, <1>6 DEF Read, Stopped, Finished
  <2>3. Verdict(c) = IF runs[i].status = "FAILED" THEN "failed"
                     ELSE IF runs[i].gate = "none" /\ Read(i) = 0 THEN "nothing_final"
                     ELSE IF runs[i].gate # "passed" THEN "blocked" ELSE VerdictOfPromote(c, i)
    BY <1>1, <1>6 DEF Verdict
  <2> QED BY <1>3, <2>1, <2>2, <2>3 DEF Pausing
<1> QED BY <1>0, <1>1, <1>4, <1>5, <1>6

LEMMA StoppedStep ==
    ASSUME SyncInv, PauseInv, [Next]_vars, NEW c \in Cycle
    PROVE  Stopped(c)'
<1>0. /\ DomainInv /\ TypeOK /\ Started /\ Numbers /\ Waits(c) /\ Stopped(c) /\ RunsSound
      /\ cycle \in [Cycle -> Outputs(Len(runs))] /\ cycle[c] \in Outputs(Len(runs))
  BY VersionsAreNumbers, CycleType DEF SyncInv, DomainInv, PauseInv
<1>1. 0 \notin Finished'
  BY DEF Finished, RunIds
<1>2. ASSUME cycle'[c].run = 0, cycle'[c].compared = "none", cycle'[c].stop = "none", cycle'[c].job = "none"
      PROVE  Stopped(c)'
  BY <1>2 DEF Stopped, Failure
<1>3. ASSUME cycle'[c].at = cycle[c].at, cycle'[c].run = cycle[c].run, cycle'[c].compared = cycle[c].compared,
             cycle'[c].stop = cycle[c].stop, cycle'[c].job = cycle[c].job, cycle'[c].verdict = cycle[c].verdict
      PROVE  Stopped(c)'
  <2>1. cycle'[c].at = "record" /\ cycle'[c].stop \in Failure =>
           cycle'[c].verdict \in Pausing \/ LeftOpen(cycle[c].run)'
    <3>1. LeftOpen(cycle[c].run)' <=>
             cycle'[c].run # 0 /\ runs'[cycle'[c].run].status \in {"RUNNING", "ABANDONED"}
      BY DEF LeftOpen
    <3>2. cycle[c].at = "record" /\ LeftOpen(cycle[c].run) => LeftOpen(cycle[c].run)'
      BY <1>3, <3>1, StillOpen
    <3> QED BY <1>0, <1>3, <3>2 DEF Stopped
  <2>2. cycle'[c].stop \in {"read", "ingest"} /\ cycle'[c].run \in Finished' =>
           runs'[cycle'[c].run].version # 0
    BY <1>3, StoppedKept
  <2> QED BY <1>0, <1>3, <2>1, <2>2 DEF Stopped
<1>4. CASE OpenRun /\ c = ingest.by
  <2>1. cycle'[c] = [cycle[c] EXCEPT !.run = Len(runs) + 1] /\ cycle[c].at = "job"
    BY <1>0, <1>4 DEF OpenRun, Waits
  <2> QED BY <1>0, <2>1 DEF Outputs, Stopped
<1>5. CASE OpenRun /\ c # ingest.by
  <2>1. cycle'[c] = cycle[c]
    BY <1>5 DEF OpenRun
  <2> QED BY <1>3, <2>1
<1>6. CASE cycle'[c] = cycle[c]
  BY <1>3, <1>6
<1>7. CASE Noted(c)
  <2>1. PICK fresh \in SUBSET RunIds : cycle'[c] = [cycle[c] EXCEPT !.fresh = fresh]
    BY <1>7 DEF Noted
  <2> QED BY <1>0, <1>3, <2>1 DEF Outputs
<1>8. CASE PromoteEnds(c)
  <2>1. PICK fresh \in SUBSET RunIds, job \in JobResults :
           cycle'[c] = [cycle[c] EXCEPT !.fresh = fresh, !.at = "outcome", !.job = job]
    BY <1>8 DEF PromoteEnds
  <2>2. cycle[c].at = "promoting"
    BY <1>0, <1>8 DEF PromoteEnds, Waits
  <2> QED BY <1>0, <2>1, <2>2 DEF Outputs, Stopped
<1>9. CASE IngestEnds(c)
  <2>1. PICK stage \in {"outcome", "promote"}, stop \in Stops :
           /\ cycle'[c] = [cycle[c] EXCEPT !.at = stage, !.stop = stop]
           /\ stage = "promote" => stop = "none"
    BY <1>9 DEF IngestEnds
  <2>2. /\ cycle[c].at = "job" /\ cycle[c].run = (IF ingest.at = "finish" THEN Current ELSE 0)
        /\ ingest' = NoIngest /\ ingest.by = c
    BY <1>0, <1>9 DEF IngestEnds, Waits
  <2>3. /\ cycle'[c].at = stage /\ cycle'[c].stop = stop /\ cycle'[c].run = cycle[c].run
        /\ cycle'[c].job = "none" /\ cycle'[c].compared \in {"none", "changed"}
    BY <1>0, <2>1, <2>2 DEF Outputs, Stopped
  <2>4. ASSUME stop \in {"read", "ingest"}, cycle'[c].run \in Finished'
        PROVE  runs'[cycle'[c].run].version # 0
    <3>1. ingest.at = "finish" /\ cycle'[c].run = Current /\ Current \in Finished'
      BY <1>1, <2>2, <2>3, <2>4
    <3>2. runs[Current].version # 0
      BY <1>0, <2>2, <2>3, <2>4, <3>1, NothingFinalStopsNothing
    <3>3. Current \in RunIds /\ RunsKept
      BY <1>0, <3>1, RunsKeptStep DEF Started, Numbers
    <3> QED BY <3>1, <3>2, <3>3 DEF RunsKept
  <2> QED BY <2>1, <2>3, <2>4 DEF Stopped
<1>10. CASE Own(c)
  <2>1. CASE Compare(c)
    <3>1. /\ cycle[c].at = "job" /\ cycle'[c].run = 0
          /\ cycle'[c].stop = cycle[c].stop /\ cycle'[c].job = cycle[c].job
          /\ cycle'[c].at \in {"outcome", "promote"} \/ (cycle'[c].at = "job" /\ cycle'[c].compared = "changed")
      BY <1>0, <2>1, ComparedNext
    <3> QED BY <1>0, <3>1 DEF Stopped
  <2>2. CASE StartCompare(c)
    <3>1. /\ cycle'[c] = [cycle[c] EXCEPT !.at = "job", !.previous = LatestFinished, !.seen = prod]
          /\ cycle[c].at = "waiting"
      BY <1>0, <2>2 DEF StartCompare
    <3> QED BY <1>0, <1>2, <3>1 DEF Outputs, Stopped
  <2>3. CASE PromoteOfCycle(c)
    <3>1. cycle'[c] = [cycle[c] EXCEPT !.at = "promoting"] /\ cycle[c].at = "promote"
      BY <1>0, <2>3 DEF PromoteOfCycle, Goto
    <3> QED BY <1>0, <3>1 DEF Outputs, Stopped
  <2>4. CASE Begin(c)
    <3>1. cycle'[c] = Idle \/ cycle'[c] = [cycle[c] EXCEPT !.at = "waiting"]
      BY <1>0, <2>4 DEF Begin, Goto
    <3>2. cycle[c].at = "selected"
      BY <2>4 DEF Begin
    <3>3. CASE cycle'[c] = Idle
      BY <1>2, <3>3 DEF Idle
    <3>4. CASE cycle'[c] = [cycle[c] EXCEPT !.at = "waiting"]
      BY <1>0, <1>2, <3>2, <3>4 DEF Outputs, Stopped
    <3> QED BY <3>1, <3>3, <3>4
  <2>5. CASE Select(c)
    <3>1. \E late \in BOOLEAN : cycle'[c] =
               [Idle EXCEPT !.at = "selected", !.asked = Asked(c),
                            !.fresh = {i \in RunIds : late /\ runs[i].ledger # "none"}]
      BY <1>0, <2>5 DEF Select
    <3> QED BY <1>2, <3>1 DEF Idle
  <2>6. CASE SelectManual(c)
    <3>1. cycle'[c] = [Idle EXCEPT !.at = "waiting", !.asked = Asked(c)]
      BY <1>0, <2>6 DEF SelectManual
    <3> QED BY <1>2, <3>1 DEF Idle
  <2>7. CASE Judge(c)
    <3>1. /\ cycle[c].at = "outcome" /\ cycle'[c].at = "record" /\ cycle'[c].stop = cycle[c].stop
          /\ cycle'[c].run = cycle[c].run /\ cycle'[c].verdict = Verdict(c)
          /\ cycle'[c].compared = "none" /\ cycle'[c].job = "none" /\ runs' = runs
      BY <1>0, <2>7, JudgedFields DEF Judge
    <3>2. cycle[c].stop \in Failure => Verdict(c) \in Pausing \/ LeftOpen(cycle[c].run)
      BY <1>0, <3>1, VerdictPauses
    <3>3. cycle'[c].at = "record" /\ cycle'[c].stop \in Failure
             => cycle'[c].verdict \in Pausing \/ LeftOpen(cycle[c].run)'
      BY <3>1, <3>2 DEF LeftOpen
    <3>4. cycle'[c].stop \in {"read", "ingest"} /\ cycle'[c].run \in Finished'
             => runs'[cycle'[c].run].version # 0
      BY <1>0, <3>1 DEF Stopped, Finished, RunIds
    <3> QED BY <3>1, <3>3, <3>4 DEF Stopped
  <2>8. CASE Record(c) \/ OutcomeDies(c)
    <3>1. cycle'[c] = Idle
      BY <1>0, <2>8 DEF Record, OutcomeDies
    <3> QED BY <1>2, <3>1 DEF Idle
  <2> QED BY <1>10, <2>1, <2>2, <2>3, <2>4, <2>5, <2>6, <2>7, <2>8 DEF Own, Scheduled, Job
<1> QED BY <1>0, <1>4, <1>5, <1>6, <1>7, <1>8, <1>9, <1>10, CycleChange

LEMMA PauseInit == Init => PauseInv
<1> SUFFICES ASSUME Init, NEW c \in Cycle PROVE Waits(c) /\ Stopped(c)
  BY DEF PauseInv
<1>1. cycle[c] = Idle /\ ingest = NoIngest /\ promote = NoPromote
  BY DEF Init
<1> QED BY <1>1 DEF Waits, Stopped, Idle, NoIngest, NoPromote

LEMMA PauseAlways == Spec => [](SyncInv /\ PauseInv)
<1>1. SyncInv /\ PauseInv /\ [Next]_vars => PauseInv'
  BY WaitsStep, StoppedStep DEF PauseInv
<1> QED BY <1>1, SyncInit, SyncNext, PauseInit, PTL DEF Spec

\* Only its record or its outcome's death ends a judged cycle.
LEMMA JudgedEnds ==
    ASSUME DomainInv, PauseInv, [Next]_vars, NEW c \in Cycle, cycle[c].at = "record", cycle'[c].at = "idle"
    PROVE  Record(c) \/ OutcomeDies(c)
<1>0. TypeOK /\ Started /\ Waits(c) /\ cycle[c] \in Outputs(Len(runs))
  BY CycleType DEF DomainInv, PauseInv
<1>1. OpenRun => cycle'[c].at = cycle[c].at
  <2>1. OpenRun => cycle'[c] = IF c = ingest.by THEN [cycle[c] EXCEPT !.run = Len(runs) + 1] ELSE cycle[c]
    BY DEF OpenRun
  <2> QED BY <1>0, <2>1 DEF Outputs
<1>2. Noted(c) => cycle'[c].at = cycle[c].at
  BY <1>0 DEF Noted, Outputs
<1>3. ~IngestEnds(c) /\ ~PromoteEnds(c)
  BY <1>0 DEF IngestEnds, PromoteEnds, Waits
<1>4. Own(c) => Record(c) \/ OutcomeDies(c)
  <2>1. ~Select(c) /\ ~Begin(c) /\ ~SelectManual(c)
    BY DEF Select, Begin, SelectManual
  <2>2. ~StartCompare(c) /\ ~PromoteOfCycle(c) /\ ~Judge(c)
    BY DEF StartCompare, PromoteOfCycle, Judge
  <2>3. ~Compare(c)
    BY <1>0, ComparedNext
  <2> QED BY <2>1, <2>2, <2>3 DEF Own, Scheduled, Job
<1> QED BY <1>0, <1>1, <1>2, <1>3, <1>4, CycleChange

\* Any failure pauses the event: when a cycle whose ingest job failed ends, the event
\* is paused by that very step, FTL's spent allowance aside, unless its outcome job
\* dies or its run was never closed, for any number of cycles, hands and failures
\* (verdict in run_compare's outcome and the pause recorded with it, D8).
THEOREM SyncFailurePauses == Spec => FailurePauses
<1>1. ASSUME SyncInv, PauseInv, [Next]_vars, NEW c \in Cycle,
             cycle[c].at = "record", cycle[c].stop \in Failure, cycle'[c].at = "idle"
      PROVE  paused' \/ OutcomeDies(c) \/ LeftOpen(cycle[c].run)
  <2>1. cycle[c].verdict \in Pausing \/ LeftOpen(cycle[c].run)
    BY <1>1 DEF PauseInv, Stopped
  <2>2. Record(c) \/ OutcomeDies(c)
    BY <1>1, JudgedEnds DEF SyncInv
  <2> QED BY <2>1, <2>2 DEF Record
<1>2. SyncInv /\ PauseInv /\ [Next]_vars => [\A c \in Cycle :
          cycle[c].at = "record" /\ cycle[c].stop \in Failure /\ cycle'[c].at = "idle"
              => paused' \/ OutcomeDies(c) \/ LeftOpen(cycle[c].run)]_vars
  BY <1>1
<1> QED BY <1>2, PauseAlways, PTL DEF FailurePauses, Spec
=============================================================================
