------------------------------ MODULE Promotion ------------------------------
(***************************************************************************)
(* One event's way from its source to PROD (ADR-108, ADR-119).  The ingest  *)
(* job refreshes CERT's roster from PROD's, reads the source, opens a run   *)
(* record, writes CERT with one fn_promote_event_apply and closes the run.  *)
(* The promote job reads the latest run, runs the gate, checks what PROD    *)
(* holds, plans the same ingestion on PROD and applies it there.            *)
(*                                                                         *)
(* CERT's jobs share one lane (cert-write) and PROD's another (prod-write), *)
(* so an ingest and a promote interleave.  There is no transaction over the *)
(* two databases; an answer can get lost, and a lost call still commit.     *)
(***************************************************************************)
EXTENDS Naturals, FiniteSets

CONSTANTS
    Listing,       \* versions of the source's final listings, in the order published
    Roster,        \* revisions of the participants' roster rows, in the order made
    Blocked,       \* <<listing, roster>> whose committed state the gate's checks block
    ByHand,        \* what PROD holds after a write that is no promote's
    None,          \* NULL
    Undo,          \* may a listing or a correction be taken back?
    MaxRuns, MaxHands, MaxLost, MaxCrashes   \* bounds on the environment's actions

NoListing == 0

ASSUME PromotionAssumption ==
    /\ Listing \subseteq Nat \ {NoListing} /\ Roster \subseteq Nat \ {NoListing}
    /\ Blocked \subseteq Listing \X Roster
    /\ ByHand \notin Nat /\ None \notin Nat
    /\ Undo \in BOOLEAN
    /\ {MaxRuns, MaxHands, MaxLost, MaxCrashes} \subseteq Nat

\* NULL is not a fingerprint.
ASSUME NullAssumption == None \notin (Nat \cup {ByHand}) \X Nat \X Nat

Side == {"cert", "prod"}

VARIABLES
    source,    \* the listings the source shows now; NoListing: none is final
    roster,    \* each database's revision of the participants' rows
    content,   \* each database's results: the listing, and the roster they are filed by
    runs,      \* tbl_ingest_run on CERT, by id
    latest,    \* the largest id
    ingest,    \* the ingest job's local state
    promote,   \* the promote job's
    answer,    \* what the database says to each job's apply under way
    late,      \* each database's applies whose caller gave up before they ran
    hands, lost, crashes

vars == <<source, roster, content, runs, latest, ingest, promote, answer, late,
          hands, lost, crashes>>
bounds == <<hands, lost, crashes>>
-----------------------------------------------------------------------------
Nothing    == [listing |-> NoListing, filed |-> NoListing]
HasResults(s) == content[s].listing # NoListing
Drained(s)    == HasResults(s) => content[s].filed = roster[s]

\* fn_event_result_fingerprint: the document holds the results and the
\* participants' roster rows, so a correction moves it before any recompute.
Fingerprint(listing, rev, filed) ==
    IF listing = NoListing THEN <<NoListing, NoListing, NoListing>>
                           ELSE <<listing, rev, filed>>
Held(s) == Fingerprint(content[s].listing, roster[s], content[s].filed)

\* A run row, and a job's local state, before there is one.
NoRun == [status |-> "none", listing |-> NoListing, inputs |-> NoListing,
          prior |-> None, result |-> None, ledger |-> "none"]
IngestIdle  == [at |-> "idle", read |-> NoListing]
PromoteIdle == [at |-> "idle", id |-> 0, run |-> NoRun, gate |-> NoRun,
                prior |-> None, filed |-> NoListing, outcome |-> "none"]

Init ==
    /\ source = NoListing
    /\ \E r \in Roster : roster = [s \in Side |-> r]
    /\ content = [s \in Side |-> Nothing]
    /\ runs = [i \in 1..MaxRuns |-> NoRun] /\ latest = 0
    /\ ingest = IngestIdle /\ promote = PromoteIdle
    /\ answer = [s \in Side |-> "none"] /\ late = [s \in Side |-> {}]
    /\ hands = 0 /\ lost = 0 /\ crashes = 0
-----------------------------------------------------------------------------
(* The world outside the two jobs *)

\* The organiser publishes, corrects or withdraws listings.
SourceMoves ==
    /\ \E l \in Listing : (Undo \/ l > source) /\ l # source /\ source' = l
    /\ UNCHANGED <<roster, content, runs, latest, ingest, promote, answer, late, bounds>>

\* An administrator or a registration corrects a participant on PROD.
Correct ==
    /\ \E r \in Roster : (Undo \/ r > roster["prod"]) /\ r # roster["prod"]
                         /\ roster' = [roster EXCEPT !["prod"] = r]
    /\ UNCHANGED <<source, content, runs, latest, ingest, promote, answer, late, bounds>>

\* PROD's results are written by neither a promote nor a recompute.
HandWrite ==
    /\ hands < MaxHands
    /\ content' = [content EXCEPT !["prod"] = [listing |-> ByHand, filed |-> roster["prod"]]]
    /\ hands' = hands + 1
    /\ UNCHANGED <<source, roster, runs, latest, ingest, promote, answer, late, lost, crashes>>

Refile(s) == content' = IF HasResults(s)
                        THEN [content EXCEPT ![s].filed = roster[s]] ELSE content

\* The scheduled recompute drains, which hold the lane of their database.
ScheduledDrain ==
    /\ \/ ingest.at = "idle" /\ ~Drained("cert") /\ Refile("cert")
       \/ promote.at = "idle" /\ ~Drained("prod") /\ Refile("prod")
    /\ UNCHANGED <<source, roster, runs, latest, ingest, promote, answer, late, bounds>>
-----------------------------------------------------------------------------
(* fn_promote_event_apply, one transaction on either database *)

\* The call of the job that is applying to s.  CERT's names no expected result.
Request(s) ==
    IF s = "cert"
    THEN [expected |-> None, inputs |-> runs[latest].inputs, prior |-> runs[latest].prior,
          listing |-> ingest.read, filed |-> runs[latest].inputs]
    ELSE [expected |-> promote.run.result, inputs |-> promote.run.inputs,
          prior |-> promote.prior, listing |-> promote.run.listing, filed |-> promote.filed]

\* The database already holds the expected result: results are left alone.
Skips(s, q) == q.expected # None /\ Held(s) = q.expected

\* Mutant: what the database holds is left to the caller's earlier check.
AcceptsAnyPrior(s, q) ==
    /\ roster[s] = q.inputs
    /\ q.expected # None => Fingerprint(q.listing, roster[s], q.filed) = q.expected

\* It holds the prior, its inputs are the run's, and the writes end on the
\* expected fingerprint.
Accepts(s, q) ==
    /\ IF q.prior = None THEN ~HasResults(s) ELSE Held(s) = q.prior
    /\ roster[s] = q.inputs
    /\ q.expected # None => Fingerprint(q.listing, roster[s], q.filed) = q.expected

Stored(s, q) == IF Skips(s, q) THEN content[s]
                ELSE [listing |-> q.listing, filed |-> q.filed]

Waiting(s) == answer[s] = "none"
              /\ IF s = "cert" THEN ingest.at = "applying" ELSE promote.at = "applying"

\* The apply commits; its job may hear of it.
Commit(s) ==
    /\ Waiting(s)
    /\ Skips(s, Request(s)) \/ Accepts(s, Request(s))
    /\ content' = [content EXCEPT ![s] = Stored(s, Request(s))]
    /\ answer' = [answer EXCEPT ![s] = IF Skips(s, Request(s)) THEN "skipped" ELSE "applied"]
    /\ UNCHANGED <<source, roster, runs, latest, ingest, promote, late, bounds>>

\* It raises, because a check fails or a time limit cuts it off.
RollBack(s) ==
    /\ Waiting(s)
    /\ answer' = [answer EXCEPT ![s] = "refused"]
    /\ UNCHANGED <<source, roster, content, runs, latest, ingest, promote, late, bounds>>

\* A call whose caller has gone runs all the same, or never does.
CommitLate(s) ==
    /\ \E q \in late[s] :
          /\ late' = [late EXCEPT ![s] = @ \ {q}]
          /\ \/ content' = content
             \/ /\ Skips(s, q) \/ Accepts(s, q)
                /\ content' = [content EXCEPT ![s] = Stored(s, q)]
    /\ UNCHANGED <<source, roster, runs, latest, ingest, promote, answer, bounds>>

\* The caller stops waiting.  Nothing tells it whether the call has run.
Abandon(s) ==
    /\ answer' = [answer EXCEPT ![s] = "none"]
    /\ late' = IF Waiting(s) THEN [late EXCEPT ![s] = @ \cup {Request(s)}] ELSE late
-----------------------------------------------------------------------------
(* The ingest job on CERT: refresh.py, then ingest_recorded *)

\* run_refresh: CERT's participants become PROD's,
Refresh ==
    /\ ingest.at = "idle" /\ latest < MaxRuns
    /\ roster' = [roster EXCEPT !["cert"] = roster["prod"]]
    /\ ingest' = [ingest EXCEPT !.at = "refreshed"]
    /\ UNCHANGED <<source, content, runs, latest, promote, answer, late, bounds>>

\* and its queue is drained.  The same drain follows the apply.
DrainCert ==
    /\ ingest.at \in {"refreshed", "closed"}
    /\ Refile("cert")
    /\ ingest' = IF ingest.at = "closed" THEN IngestIdle ELSE [ingest EXCEPT !.at = "drained"]
    /\ UNCHANGED <<source, roster, runs, latest, promote, answer, late, bounds>>

\* Every final listing is read, before there is a run.
ReadSource ==
    /\ ingest.at = "drained"
    /\ ingest' = [at |-> "read", read |-> source]
    /\ UNCHANGED <<source, roster, content, runs, latest, promote, answer, late, bounds>>

\* What the event holds is the prior; the row opens RUNNING with it and with the
\* inputs, and an older RUNNING row becomes ABANDONED.
OpenRun ==
    /\ ingest.at = "read"
    /\ latest' = latest + 1
    /\ runs' = [i \in 1..MaxRuns |->
          IF i = latest' THEN [NoRun EXCEPT !.status = "RUNNING", !.inputs = roster["cert"],
                                  !.prior = IF HasResults("cert") THEN Held("cert") ELSE None]
          ELSE IF runs[i].status = "RUNNING" THEN [runs[i] EXCEPT !.status = "ABANDONED"]
          ELSE runs[i]]
    /\ ingest' = [ingest EXCEPT !.at = "open"]
    /\ UNCHANGED <<source, roster, content, promote, answer, late, bounds>>

\* fn_ingest_run_close: only a FINISHED row gets a result fingerprint.
Close(status) ==
    runs' = [runs EXCEPT ![latest] = [@ EXCEPT
                !.status = status, !.listing = ingest.read,
                !.result = IF status = "FINISHED" THEN Held("cert") ELSE None]]

\* A listing is refused, or nothing is final while CERT holds results.
PlanFails ==
    /\ ingest.at = "open"
    /\ Close("FAILED")
    /\ ingest' = IngestIdle
    /\ UNCHANGED <<source, roster, content, latest, promote, answer, late, bounds>>

\* Nothing is final and CERT holds nothing.
NothingFinal ==
    /\ ingest.at = "open" /\ ingest.read = NoListing /\ ~HasResults("cert")
    /\ Close("FINISHED")
    /\ ingest' = IngestIdle
    /\ UNCHANGED <<source, roster, content, latest, promote, answer, late, bounds>>

\* Mutant: a run with nothing final applies its empty plan.
SendCertNothingFinal ==
    /\ ingest.at = "open"
    /\ ingest' = [ingest EXCEPT !.at = "applying"]
    /\ UNCHANGED <<source, roster, content, runs, latest, promote, answer, late, bounds>>

SendCert ==
    /\ ingest.at = "open" /\ ingest.read # NoListing
    /\ ingest' = [ingest EXCEPT !.at = "applying"]
    /\ UNCHANGED <<source, roster, content, runs, latest, promote, answer, late, bounds>>

\* The answer, or the second reading of CERT after a lost one: "only the apply
\* writes the event", so one that moved from the prior is taken for the commit.
SettleIngest ==
    /\ \/ /\ ingest.at = "applying" /\ answer["cert"] # "none"
          /\ Close(IF answer["cert"] = "refused" THEN "FAILED" ELSE "FINISHED")
          /\ ingest' = IF answer["cert"] = "refused" THEN IngestIdle
                       ELSE [ingest EXCEPT !.at = "closed"]
       \/ /\ ingest.at = "unanswered"
          /\ LET unmoved == runs[latest].prior = IF HasResults("cert") THEN Held("cert") ELSE None
             IN  /\ Close(IF unmoved THEN "FAILED" ELSE "FINISHED")
                 /\ ingest' = IF unmoved THEN IngestIdle ELSE [ingest EXCEPT !.at = "closed"]
    /\ answer' = [answer EXCEPT !["cert"] = "none"]
    /\ UNCHANGED <<source, roster, content, latest, promote, late, bounds>>

LoseIngestAnswer ==
    /\ ingest.at = "applying" /\ lost < MaxLost
    /\ Abandon("cert")
    /\ ingest' = [ingest EXCEPT !.at = "unanswered"]
    /\ lost' = lost + 1
    /\ UNCHANGED <<source, roster, content, runs, latest, promote, hands, crashes>>

\* The job dies.  Its row stays RUNNING.
IngestDies ==
    /\ ingest.at # "idle" /\ crashes < MaxCrashes
    /\ IF ingest.at = "applying" THEN Abandon("cert") ELSE UNCHANGED <<answer, late>>
    /\ ingest' = IngestIdle
    /\ crashes' = crashes + 1
    /\ UNCHANGED <<source, roster, content, runs, latest, promote, hands, lost>>
-----------------------------------------------------------------------------
(* The promote job: replay.py.  A check that fails leads to "refused", and the *)
(* ledger says so.                                                             *)

Goes(ok, next) == IF ok THEN next ELSE "refused"

\* The latest run is read once, and its columns kept.
ReadRun ==
    /\ promote.at = "idle" /\ latest > 0
    /\ promote' = [PromoteIdle EXCEPT !.at = "gate", !.id = latest, !.run = runs[latest]]
    /\ UNCHANGED <<source, roster, content, runs, latest, ingest, answer, late, bounds>>

\* run_gate reads the latest run again,
GateReadsRun ==
    /\ promote.at = "gate"
    /\ promote' = [promote EXCEPT !.at = "checks", !.gate = runs[latest]]
    /\ UNCHANGED <<source, roster, content, runs, latest, ingest, answer, late, bounds>>

\* Mutant: of CERT's state only the queue is looked at.
CertDrained == Drained("cert")

CertPasses == /\ Drained("cert")
              /\ <<content["cert"].listing, content["cert"].filed>> \notin Blocked

\* then CERT's committed state (fn_promote_gate_checks),
GateChecks ==
    /\ promote.at = "checks"
    /\ promote' = [promote EXCEPT !.at = Goes(CertPasses, "inputs")]
    /\ UNCHANGED <<source, roster, content, runs, latest, ingest, answer, late, bounds>>

\* then PROD's inputs, and evaluates.
GateInputs ==
    /\ promote.at = "inputs"
    /\ promote' = [promote EXCEPT !.at = Goes(
          promote.gate.status = "FINISHED" /\ promote.gate.inputs = roster["prod"], "prior")]
    /\ UNCHANGED <<source, roster, content, runs, latest, ingest, answer, late, bounds>>

\* Mutant: promote takes whatever PROD holds for the prior.
KnownPriorAny(held, run, id) == TRUE

\* earlier_fingerprints: the results of the FINISHED runs before run n.
Earlier(n) == {runs[i].result : i \in {j \in 1..(n - 1) : runs[j].status = "FINISHED"}}

\* What PROD may hold beside nothing and the run's own result: an earlier
\* FINISHED run's, or what CERT held when this run began.
KnownPrior(held, run, id) == held \in Earlier(id) \/ held = run.prior

\* prior_fingerprint, after the run is seen to have a fingerprint.
CheckPrior ==
    /\ promote.at = "prior"
    /\ LET held == Held("prod")
           none == held = promote.run.result \/ ~HasResults("prod")
       IN  promote' = [promote EXCEPT
                !.at = Goes(/\ promote.run.result # None
                            /\ none \/ KnownPrior(held, promote.run, promote.id), "plan"),
                !.prior = IF none THEN None ELSE held]
    /\ UNCHANGED <<source, roster, content, runs, latest, ingest, answer, late, bounds>>

\* Mutant: the listings' hashes are not compared with the run's.
SourceUnchecked(listing) == listing # NoListing

SourceUnchanged(listing) == source = listing /\ listing # NoListing

\* plan_event on PROD: the source and PROD's roster are read anew.
Plan ==
    /\ promote.at = "plan"
    /\ promote' = [promote EXCEPT !.at = Goes(SourceUnchanged(promote.run.listing), "dry run"),
                                  !.filed = roster["prod"]]
    /\ UNCHANGED <<source, roster, content, runs, latest, ingest, answer, late, bounds>>

DryRun ==
    /\ promote.at = "dry run"
    /\ \E ok \in BOOLEAN :
          /\ ok => Skips("prod", Request("prod")) \/ Accepts("prod", Request("prod"))
          /\ promote' = [promote EXCEPT !.at = Goes(ok, "applying")]
    /\ UNCHANGED <<source, roster, content, runs, latest, ingest, answer, late, bounds>>

\* Mutant: an apply without an answer is taken for one that committed.
ArrivedUnread == TRUE

\* After a lost answer PROD is read again.
Arrived == Held("prod") = promote.run.result

SettlePromote ==
    /\ \/ /\ promote.at = "applying" /\ answer["prod"] # "none"
          /\ promote' = [promote EXCEPT !.at = Goes(answer["prod"] # "refused", "drain"),
                                        !.outcome = answer["prod"]]
       \/ /\ promote.at = "unanswered"
          /\ promote' = [promote EXCEPT !.at = Goes(Arrived, "drain"), !.outcome = "applied"]
    /\ answer' = [answer EXCEPT !["prod"] = "none"]
    /\ UNCHANGED <<source, roster, content, runs, latest, ingest, late, bounds>>

LosePromoteAnswer ==
    /\ promote.at = "applying" /\ lost < MaxLost
    /\ Abandon("prod")
    /\ promote' = [promote EXCEPT !.at = "unanswered"]
    /\ lost' = lost + 1
    /\ UNCHANGED <<source, roster, content, runs, latest, ingest, hands, crashes>>

\* PROD's queue is drained in promote's own lane.
DrainProd ==
    /\ promote.at = "drain"
    /\ Refile("prod")
    /\ promote' = [promote EXCEPT !.at = "record"]
    /\ UNCHANGED <<source, roster, runs, latest, ingest, answer, late, bounds>>

\* fn_ingest_run_promote; a ledger that cannot be written fails nothing.
Record ==
    /\ promote.at \in {"record", "refused"}
    /\ \/ runs' = [runs EXCEPT ![promote.id].ledger =
                      IF promote.at = "refused" THEN "refused" ELSE promote.outcome]
       \/ runs' = runs
    /\ promote' = PromoteIdle
    /\ UNCHANGED <<source, roster, content, latest, ingest, answer, late, bounds>>

PromoteDies ==
    /\ promote.at # "idle" /\ crashes < MaxCrashes
    /\ IF promote.at = "applying" THEN Abandon("prod") ELSE UNCHANGED <<answer, late>>
    /\ promote' = PromoteIdle
    /\ crashes' = crashes + 1
    /\ UNCHANGED <<source, roster, content, runs, latest, ingest, hands, lost>>
-----------------------------------------------------------------------------
World == SourceMoves \/ Correct \/ HandWrite \/ ScheduledDrain
         \/ \E s \in Side : Commit(s) \/ RollBack(s) \/ CommitLate(s)

Ingest == Refresh \/ DrainCert \/ ReadSource \/ OpenRun \/ PlanFails \/ NothingFinal
          \/ SendCert \/ SettleIngest \/ LoseIngestAnswer \/ IngestDies

Promote == ReadRun \/ GateReadsRun \/ GateChecks \/ GateInputs \/ CheckPrior \/ Plan
           \/ DryRun \/ SettlePromote \/ LosePromoteAnswer \/ DrainProd \/ Record
           \/ PromoteDies

Next == World \/ Ingest \/ Promote

Spec == Init /\ [][Next]_vars
-----------------------------------------------------------------------------
(* Properties *)

Result == (Listing \cup {NoListing, ByHand}) \X (Roster \cup {NoListing})
                                             \X (Roster \cup {NoListing})

Call == [expected : Result \cup {None}, inputs : Roster, prior : Result \cup {None},
             listing : Listing, filed : Roster]

Row == [status : {"none", "RUNNING", "FINISHED", "FAILED", "ABANDONED"},
        listing : Listing \cup {NoListing}, inputs : Roster \cup {NoListing},
        prior : Result \cup {None}, result : Result \cup {None},
        ledger : {"none", "applied", "skipped", "refused"}]

WorldType   == /\ source \in Listing \cup {NoListing}
               /\ roster \in [Side -> Roster]
BoundsType  == hands \in 0..MaxHands /\ lost \in 0..MaxLost /\ crashes \in 0..MaxCrashes
ContentType == content \in [Side -> [listing : Listing \cup {ByHand}, filed : Roster]
                                    \cup {Nothing}]
RunsType    == latest \in 0..MaxRuns /\ runs \in [1..MaxRuns -> Row]
CallsType   == /\ answer \in [Side -> {"none", "applied", "skipped", "refused"}]
               /\ late \in [Side -> SUBSET Call]
IngestType  == ingest \in
    [at : {"idle", "refreshed", "drained", "read", "open", "applying", "unanswered", "closed"},
     read : Listing \cup {NoListing}]
PromoteType == promote \in
    [at : {"idle", "gate", "checks", "inputs", "prior", "plan", "dry run", "applying",
           "unanswered", "drain", "record", "refused"},
     id : 0..MaxRuns, run : Row, gate : Row, prior : Result \cup {None},
     filed : Roster \cup {NoListing}, outcome : {"none", "applied", "skipped", "refused"}]

\* Every variable stays in its domain: above all, what an apply is called with is
\* a listing, whatever the job had read when it was sent.
TypeOK == /\ WorldType /\ BoundsType /\ ContentType /\ RunsType
          /\ CallsType /\ IngestType /\ PromoteType

\* PROD never goes back to an older version of the listings, whatever order
\* ingests, promotes, lost calls and late commits come in.
NeverOlder == [][content'["prod"].listing = ByHand \/ content["prod"].listing = ByHand
                 \/ content'["prod"].listing >= content["prod"].listing]_vars

\* "Promote never overwrites them": results on PROD that no run produced stay,
\* also when they come between promote's check and its apply.
HandworkStays == [][content["prod"].listing = ByHand => content'["prod"].listing = ByHand]_vars

\* What a promote puts on PROD is a result the gate's checks do not block, though
\* the gate reads the latest run on its own and CERT after it.
OnlyPassedIsPublished ==
    [][content'["prod"].listing \in {content["prod"].listing, ByHand}
       \/ <<content'["prod"].listing, content'["prod"].filed>> \notin Blocked]_vars

\* A run the ledger calls applied or skipped is on PROD, or something after it.
LedgerIsTrue ==
    \A i \in 1..MaxRuns : runs[i].ledger \in {"applied", "skipped"} =>
        content["prod"].listing = ByHand \/ content["prod"].listing >= runs[i].listing

\* On PROD the two jobs, their calls and the runs implement Publication: results are
\* published at once or not at all, in a state the gate does not block, and an entry
\* of success in the ledger tells of listings that have been on PROD.
Announced == {runs[i].listing : i \in {j \in 1..MaxRuns :
                                         runs[j].ledger \in {"applied", "skipped"}}}

Publishing == INSTANCE Publication WITH
                 roster    <- roster["prod"],
                 shown     <- content["prod"],
                 announced <- Announced

IsPublication == Publishing!Spec

\* "A recompute that moved both sides does not strand the next promote": results
\* that came to PROD by promotes, moved by recomputes only, are a prior promote
\* accepts once CERT has a newer FINISHED run.
NeverStranded ==
    LET run == runs[latest]
    IN  /\ latest > 0 /\ promote.at = "idle"
        /\ run.status = "FINISHED" /\ run.inputs = roster["prod"]
        /\ HasResults("prod") /\ content["prod"].listing # ByHand /\ Drained("prod")
        => Held("prod") = run.result \/ KnownPrior(Held("prod"), run, latest)
=============================================================================
