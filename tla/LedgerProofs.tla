----------------------------- MODULE LedgerProofs -----------------------------
(***************************************************************************)
(* What is proved of Promotion's ledger and of its gate, where corrections   *)
(* are not taken back.                                                       *)
(*                                                                         *)
(* A run the ledger calls applied or skipped is on PROD, or something after  *)
(* it.  The hard case is "skipped": PROD already holds the result the run    *)
(* recorded, and after a lost answer a run may have recorded a result older  *)
(* than the listings it read.  The invariant says that no such result is on  *)
(* PROD, or gets there.                                                     *)
(*                                                                         *)
(* And what promotes publish is a state the gate's checks do not block,      *)
(* though the gate looks at CERT, and promote applies a run's record.        *)
(* With both, each step of Promotion is a step of Publication on PROD.       *)
(***************************************************************************)
EXTENDS PromotionProofs

Ids == 1..MaxRuns

\* A run with a result; one whose result is of the listings it read.
Done(i)    == runs[i].result # None
Genuine(i) == Done(i) /\ runs[i].result[1] = runs[i].listing

\* PROD shows these listings, or something after them.
Past(l) == content["prod"].listing = ByHand \/ content["prod"].listing >= l

\* The listings CERT held when a run began.
Base(prior) == IF prior = None THEN NoListing ELSE prior[1]

Working == {"open", "applying", "unanswered"}
-----------------------------------------------------------------------------
RowsSound == \A i \in Ids : /\ Done(i) => runs[i].status = "FINISHED"
                            /\ i > latest => ~Done(i)

\* No result is ahead of CERT, and no call left on CERT takes it back.
Behind   == \A i \in Ids : Done(i) => runs[i].result[1] <= content["cert"].listing
LateCert == \A q \in late["cert"] : Forward(q.prior, q.listing) /\ q.filed = q.inputs

\* What the ingest job has read is the newest anything on CERT can be of,
Newest == /\ content["cert"].listing <= ingest.read
          /\ \A q \in late["cert"] : q.listing <= ingest.read
          /\ \A i \in Ids : runs[i].listing <= ingest.read

\* and the prior its row opened with is as new as every result before it.
Opened == /\ runs[latest].status = "RUNNING"
          /\ runs[latest].prior # None =>
                /\ runs[latest].prior = <<runs[latest].prior[1], roster["cert"], roster["cert"]>>
                /\ runs[latest].prior[1] # NoListing
          /\ Base(runs[latest].prior) <= content["cert"].listing
          /\ \A i \in Ids : Done(i) => runs[i].result[1] <= Base(runs[latest].prior)

CertJob == /\ ingest.at \in {"drained", "read"} \cup Working => Drained("cert")
           /\ ingest.at \in {"read"} \cup Working => Newest
           /\ ingest.at \in Working => Opened

CertAnswer == /\ answer["cert"] # "none" => ingest.at = "applying"
              /\ answer["cert"] \in {"applied", "skipped"} =>
                    ingest.read <= content["cert"].listing

\* What promotes put on PROD are genuine results, and a result older than its run's
\* listings equals none of them.
Origin  == \/ content["prod"].listing \in {ByHand, NoListing}
           \/ \E i \in Ids : Genuine(i) /\ runs[i].listing = content["prod"].listing
Unfound == \A i \in Ids : Done(i) /\ runs[i].result[1] < runs[i].listing =>
              /\ content["prod"].listing # runs[i].result[1]
              /\ \A j \in Ids : Genuine(j) => runs[j].listing # runs[i].result[1]

\* A call on PROD names a run's result and its listings.
OfARun(q) == \E i \in Ids : Done(i) /\ runs[i].result = q.expected
                                    /\ runs[i].listing = q.listing
LateProd  == \A q \in late["prod"] : OfARun(q)

\* The promote job's copy of its run is still what the row says.
Copied     == promote.at # "idle" /\ promote.run.result # None =>
                 /\ runs[promote.id].result = promote.run.result
                 /\ runs[promote.id].listing = promote.run.listing
Checked    == promote.at \in {"plan", "dry run", "applying", "unanswered", "drain", "record"}
                 => promote.run.result # None
ProdAnswer == /\ answer["prod"] # "none" => promote.at = "applying"
              /\ answer["prod"] \in {"applied", "skipped"} => Past(promote.run.listing)
Settled    == promote.at \in {"drain", "record"} => Past(promote.run.listing)

LedgerSound == \A i \in Ids : runs[i].ledger \in {"applied", "skipped"} =>
                                 Done(i) /\ Past(runs[i].listing)

CertInv   == Behind /\ LateCert /\ CertJob /\ CertAnswer
ProdInv   == Origin /\ Unfound /\ LateProd /\ Copied /\ Checked /\ ProdAnswer /\ Settled
LedgerInv == OrderInv /\ RowsSound /\ CertInv /\ ProdInv /\ LedgerSound
-----------------------------------------------------------------------------
(* The values the invariant compares *)

LEMMA Values ==
    ASSUME OrderInv
    PROVE  /\ MaxRuns \in Nat /\ latest \in 0..MaxRuns /\ runs \in [Ids -> Row]
           /\ content \in [Side -> Contents] /\ ingest.read \in Nat
           /\ content["cert"].listing \in Nat
           /\ content["prod"].listing = ByHand \/ content["prod"].listing \in Nat
           /\ promote.run.listing \in Nat
           /\ \A i \in Ids : runs[i].listing \in Nat /\ (Done(i) => runs[i].result[1] \in Nat)
           /\ \A i \in Ids : runs[i].prior = None \/ runs[i].prior[1] \in Nat
           /\ \A s \in Side : \A q \in late[s] : q.listing \in Nat
<1>1. MaxRuns \in Nat /\ latest \in 0..MaxRuns /\ runs \in [Ids -> Row]
      /\ content \in [Side -> Contents]
  BY PromotionAssumption DEF OrderInv, HandInv, TypeOK, RunsType, ContentType, Contents, Ids
<1>2. ingest.read \in Nat /\ promote.run.listing \in Nat
  BY DEF OrderInv, Ordered, SeenIngest, SeenPromote, Seen
<1>3. /\ content["cert"].listing \in Nat
      /\ content["prod"].listing = ByHand \/ content["prod"].listing \in Nat
  BY DEF OrderInv, HandInv, Foreign, Ordered, SeenContent, Seen, Side
<1>4. /\ \A i \in Ids : runs[i].listing \in Nat /\ (Done(i) => runs[i].result[1] \in Nat)
      /\ \A i \in Ids : runs[i].prior = None \/ runs[i].prior[1] \in Nat
  BY DEF OrderInv, Ordered, SeenRuns, SeenPrint, Seen, Done, Ids
<1>5. \A s \in Side : \A q \in late[s] : q.listing \in Nat
  BY DEF OrderInv, Ordered, SeenCalls, Seen
<1> QED BY <1>1, <1>2, <1>3, <1>4, <1>5

\* A fingerprint of a database is not NULL.
LEMMA HeldIsNotNone ==
    ASSUME OrderInv, NEW s \in Side
    PROVE  Held(s) # None /\ Held(s)[1] = content[s].listing
<1>1. Held(s) \in Result /\ Held(s)[1] = content[s].listing
  BY HeldIsResult DEF OrderInv, HandInv
<1>2. Listing \subseteq Nat /\ Roster \subseteq Nat /\ NoListing \in Nat
  BY PromotionAssumption DEF NoListing
<1>3. Held(s) \in (Nat \cup {ByHand}) \X Nat \X Nat
  BY <1>1, <1>2 DEF Result
<1> QED BY <1>1, <1>3, NullAssumption
-----------------------------------------------------------------------------
(* What a step does to the rows *)

\* Closing a run keeps its prior and its ledger, and the other rows.
LEMMA ClosedRow ==
    ASSUME OrderInv, latest > 0, NEW status \in {"FINISHED", "FAILED"}, Close(status)
    PROVE  /\ latest \in Ids
           /\ \A i \in Ids : i # latest => runs'[i] = runs[i]
           /\ runs'[latest].status = status /\ runs'[latest].listing = ingest.read
           /\ runs'[latest].prior = runs[latest].prior
           /\ runs'[latest].inputs = runs[latest].inputs
           /\ runs'[latest].ledger = runs[latest].ledger
           /\ runs'[latest].result = IF status = "FINISHED" THEN Held("cert") ELSE None
<1>1. latest \in Ids /\ runs \in [Ids -> Row]
  BY Values DEF Ids
<1>2. PICK f : f = IF status = "FINISHED" THEN Held("cert") ELSE None
  OBVIOUS
<1>3. PICK r \in Row : r = runs[latest]
  BY <1>1
<1> DEFINE c == [r EXCEPT !.status = status, !.listing = ingest.read, !.result = f]
<1>4. runs' = [runs EXCEPT ![latest] = c]
  BY <1>2, <1>3, Zenon DEF Close
<1>5. /\ c.status = status /\ c.listing = ingest.read /\ c.prior = r.prior
      /\ c.inputs = r.inputs /\ c.ledger = r.ledger /\ c.result = f
  BY <1>3 DEF Row
<1> HIDE DEF c
<1>6. \A i \in Ids : runs'[i] = IF i = latest THEN c ELSE runs[i]
  BY <1>1, <1>4
<1> QED BY <1>1, <1>2, <1>3, <1>5, <1>6

\* Opening one adds a row, and abandons rows left RUNNING.
LEMMA OpenedRow ==
    ASSUME OrderInv, OpenRun
    PROVE  /\ latest' = latest + 1 /\ latest' \in Ids
           /\ /\ runs'[latest'].status = "RUNNING" /\ runs'[latest'].result = None
              /\ runs'[latest'].inputs = roster["cert"]
              /\ runs'[latest'].listing = NoListing /\ runs'[latest'].ledger = "none"
              /\ runs'[latest'].prior = IF HasResults("cert") THEN Held("cert") ELSE None
           /\ \A i \in Ids : i # latest' =>
                 /\ runs'[i].result = runs[i].result /\ runs'[i].listing = runs[i].listing
                 /\ runs'[i].inputs = runs[i].inputs /\ runs'[i].ledger = runs[i].ledger
                 /\ runs[i].status = "FINISHED" => runs'[i].status = "FINISHED"
<1>1. latest' = latest + 1 /\ latest' \in Ids /\ runs \in [Ids -> Row]
  <2>1. latest < MaxRuns /\ latest' = latest + 1
    BY DEF OpenRun, OrderInv, HandInv, Phases
  <2> QED BY <2>1, Values DEF Ids
<1>2. PICK p : p = IF HasResults("cert") THEN Held("cert") ELSE None
  OBVIOUS
<1>3. runs'[latest'] = [NoRun EXCEPT !.status = "RUNNING", !.inputs = roster["cert"], !.prior = p]
  BY <1>1, <1>2 DEF OpenRun, Ids
<1>4. ASSUME NEW i \in Ids, i # latest'
      PROVE  /\ runs'[i].result = runs[i].result /\ runs'[i].listing = runs[i].listing
             /\ runs'[i].inputs = runs[i].inputs /\ runs'[i].ledger = runs[i].ledger
             /\ runs[i].status = "FINISHED" => runs'[i].status = "FINISHED"
  <2>1. PICK r \in Row : r = runs[i]
    BY <1>1
  <2>2. \/ runs'[i] = r
        \/ r.status = "RUNNING" /\ runs'[i] = [r EXCEPT !.status = "ABANDONED"]
    BY <1>4, <2>1 DEF OpenRun, Ids
  <2> QED BY <2>1, <2>2 DEF Row
<1> QED BY <1>1, <1>2, <1>3, <1>4 DEF NoRun

\* The ledger's entry is all that promote writes.
LEMMA RecordedRow ==
    ASSUME OrderInv, Record, NEW i \in Ids
    PROVE  /\ runs'[i].result = runs[i].result /\ runs'[i].listing = runs[i].listing
           /\ runs'[i].status = runs[i].status /\ runs'[i].prior = runs[i].prior
           /\ runs'[i].inputs = runs[i].inputs
           /\ \/ runs'[i].ledger \in {runs[i].ledger, "refused"}
              \/ i = promote.id /\ promote.at = "record"
<1>1. PICK l : /\ runs' = runs \/ runs' = [runs EXCEPT ![promote.id].ledger = l]
               /\ l = "refused" \/ promote.at = "record"
  BY DEF Record
<1>2. PICK r \in Row : r = runs[i]
  BY Values
<1>3. runs'[i] = r \/ (i = promote.id /\ runs'[i] = [r EXCEPT !.ledger = l])
  BY <1>1, <1>2, Values
<1> QED BY <1>1, <1>2, <1>3 DEF Row

\* The step gives a run its result: the job has CERT's answer, or has seen CERT move.
Closes(i) == /\ i = latest /\ ingest.at \in Working /\ content' = content
             /\ runs'[i].result = Held("cert") /\ runs'[i].listing = ingest.read
             /\ \/ ingest.read <= content["cert"].listing
                \/ Base(runs[latest].prior) < content["cert"].listing

\* A job that closes its row has opened it, and the row is still RUNNING.
LEMMA WorkingRow ==
    ASSUME LedgerInv, ingest.at \in Working
    PROVE  latest > 0 /\ latest \in Ids /\ ~Done(latest)
<1>1. latest > 0 /\ latest \in 0..MaxRuns /\ MaxRuns \in Nat
  BY Values DEF LedgerInv, OrderInv, HandInv, Phases, Working
<1>2. latest \in Ids
  BY <1>1 DEF Ids
<1> QED BY <1>1, <1>2 DEF LedgerInv, CertInv, CertJob, Opened, RowsSound

\* A drained CERT that differs from the prior a run opened with holds newer listings.
LEMMA MovedIsNewer ==
    ASSUME LedgerInv, ingest.at \in Working,
           runs[latest].prior # IF HasResults("cert") THEN Held("cert") ELSE None
    PROVE  Base(runs[latest].prior) < content["cert"].listing
<1>1. Opened /\ Drained("cert") /\ content["cert"].listing \in Nat
  BY Values DEF LedgerInv, CertInv, CertJob
<1>2. CASE runs[latest].prior = None
  BY <1>1, <1>2 DEF Base, HasResults, NoListing
<1>3. CASE runs[latest].prior # None
  <2>1. PICK p : p = runs[latest].prior /\ p = <<p[1], roster["cert"], roster["cert"]>>
                 /\ p[1] # NoListing
    BY <1>1, <1>3 DEF Opened
  <2>2. p[1] <= content["cert"].listing /\ p[1] \in Nat
    <3>1. latest \in Ids
      BY WorkingRow
    <3> QED BY <1>1, <1>3, <2>1, <3>1, Values DEF Opened, Base, LedgerInv
  <2>3. HasResults("cert")
    <3>1. p[1] # 0
      BY <2>1 DEF NoListing
    <3>2. content["cert"].listing # 0
      BY <1>1, <2>2, <3>1
    <3> QED BY <3>2 DEF HasResults, NoListing
  <2>4. Held("cert") = <<content["cert"].listing, roster["cert"], roster["cert"]>>
    BY <1>1, <2>3 DEF Drained, HasResults, Held, Fingerprint
  <2>5. p[1] # content["cert"].listing
    BY <2>1, <2>3, <2>4
  <2> QED BY <1>1, <1>3, <2>1, <2>2, <2>5 DEF Base
<1> QED BY <1>2, <1>3

\* Every close is of one of four kinds.
LEMMA ClosingStep ==
    ASSUME LedgerInv, PlanFails \/ NothingFinal \/ SettleIngest
    PROVE  /\ ingest.at \in Working /\ content' = content /\ latest' = latest
           /\ \E status \in {"FINISHED", "FAILED"} :
                 /\ Close(status)
                 /\ status = "FINISHED" => \/ ingest.read <= content["cert"].listing
                                           \/ Base(runs[latest].prior) < content["cert"].listing
<1>0. content["cert"].listing \in Nat /\ CertAnswer /\ answer["cert"] \in
         {"none", "applied", "skipped", "refused"}
  BY Values DEF LedgerInv, CertInv, OrderInv, HandInv, TypeOK, CallsType, Side
<1>1. CASE PlanFails
  BY <1>1 DEF PlanFails, Working
<1>2. CASE NothingFinal
  BY <1>0, <1>2 DEF NothingFinal, Working, NoListing
<1>3. CASE SettleIngest /\ ingest.at = "applying"
  BY <1>0, <1>3 DEF SettleIngest, Working, CertAnswer
<1>4. CASE SettleIngest /\ ingest.at = "unanswered"
  <2>1. PICK unmoved \in BOOLEAN :
           /\ unmoved = (runs[latest].prior = IF HasResults("cert") THEN Held("cert") ELSE None)
           /\ Close(IF unmoved THEN "FAILED" ELSE "FINISHED")
    BY <1>4 DEF SettleIngest
  <2>2. ingest.at \in Working /\ content' = content /\ latest' = latest
    BY <1>4 DEF SettleIngest, Working
  <2> QED BY <2>1, <2>2, MovedIsNewer
<1>5. SettleIngest => ingest.at \in {"applying", "unanswered"}
  BY DEF SettleIngest
<1> QED BY <1>1, <1>2, <1>3, <1>4, <1>5

\* Results stay; a new one is the latest run's; only promote's own record claims an
\* arrival.
LEMMA RowsStep ==
    ASSUME LedgerInv, [Next]_vars, NEW i \in Ids
    PROVE  /\ Done(i) => runs'[i].result = runs[i].result /\ runs'[i].listing = runs[i].listing
           /\ runs'[i].result # None /\ ~Done(i) => Closes(i)
           /\ \/ runs'[i].ledger \in {runs[i].ledger, "none", "refused"}
              \/ i = promote.id /\ promote.at = "record" /\ UNCHANGED content
<1>0. OrderInv
  BY DEF LedgerInv
<1>1. CASE PlanFails \/ NothingFinal \/ SettleIngest
  <2>1. PICK status \in {"FINISHED", "FAILED"} :
           /\ Close(status)
           /\ status = "FINISHED" => \/ ingest.read <= content["cert"].listing
                                     \/ Base(runs[latest].prior) < content["cert"].listing
    BY <1>1, ClosingStep
  <2>2. ingest.at \in Working /\ content' = content /\ latest > 0 /\ ~Done(latest)
    BY <1>1, ClosingStep, WorkingRow
  <2> QED BY <1>0, <2>1, <2>2, ClosedRow DEF Closes, Done
<1>2. CASE OpenRun
  <2>1. ~Done(latest')
    BY <1>0, <1>2, OpenedRow, Values DEF LedgerInv, RowsSound
  <2> QED BY <1>0, <1>2, <2>1, OpenedRow DEF Done
<1>3. CASE Record
  BY <1>0, <1>3, RecordedRow DEF Done, Record
<1>4. CASE UNCHANGED runs
  BY <1>4 DEF Done
<1>5. CASE World
  BY <1>4, <1>5 DEF World, SourceMoves, Correct, HandWrite, ScheduledDrain, Commit, RollBack,
     CommitLate
<1>6. CASE Ingest
  BY <1>1, <1>2, <1>4, <1>6 DEF Ingest, Refresh, DrainCert, ReadSource, SendCert,
     LoseIngestAnswer, IngestDies
<1>7. CASE Promote
  BY <1>3, <1>4, <1>7 DEF Promote, ReadRun, GateReadsRun, GateChecks, GateInputs, CheckPrior,
     Plan, DryRun, SettlePromote, LosePromoteAnswer, DrainProd, PromoteDies
<1>8. CASE UNCHANGED vars
  BY <1>4, <1>8 DEF vars
<1> QED BY <1>5, <1>6, <1>7, <1>8 DEF Next
-----------------------------------------------------------------------------
(* What a step does to the two databases *)

LEMMA CertRequest ==
    ASSUME LedgerInv, Waiting("cert")
    PROVE  /\ Forward(Request("cert").prior, Request("cert").listing)
           /\ Request("cert").filed = Request("cert").inputs
           /\ Request("cert").listing = ingest.read
<1>1. ingest.at \in Working /\ latest \in Ids
  BY WorkingRow DEF Waiting, Working
<1>2. Base(runs[latest].prior) <= content["cert"].listing
      /\ content["cert"].listing <= ingest.read
  BY <1>1 DEF LedgerInv, CertInv, CertJob, Opened, Newest
<1>3. /\ content["cert"].listing \in Nat /\ ingest.read \in Nat
      /\ runs[latest].prior = None \/ runs[latest].prior[1] \in Nat
  BY <1>1, Values DEF LedgerInv
<1>4. Forward(runs[latest].prior, ingest.read)
  BY <1>2, <1>3 DEF Forward, Base
<1> QED BY <1>4 DEF Request

LEMMA ProdRequest ==
    ASSUME LedgerInv, Waiting("prod")
    PROVE  OfARun(Request("prod")) /\ Request("prod").listing = promote.run.listing
<1>1. promote.at = "applying" /\ promote.id \in 1..latest
  BY DEF Waiting, LedgerInv, OrderInv, HandInv, Phases
<1>2. promote.id \in Ids
  BY <1>1, Values DEF LedgerInv, Ids
<1>3. /\ promote.run.result # None /\ runs[promote.id].result = promote.run.result
      /\ runs[promote.id].listing = promote.run.listing
  BY <1>1 DEF LedgerInv, ProdInv, Checked, Copied
<1> QED BY <1>2, <1>3 DEF Request, OfARun, Done

\* A call left behind was one of the jobs' own.
LEMMA LateStep ==
    ASSUME LedgerInv, [Next]_vars, NEW s \in Side, NEW q \in late'[s]
    PROVE  q \in late[s] \/ (Waiting(s) /\ q = Request(s))
<1>1. late \in [Side -> SUBSET Call]
  BY DEF LedgerInv, OrderInv, HandInv, TypeOK, CallsType
<1>2. ASSUME NEW t \in Side, Abandon(t)
      PROVE  q \in late[s] \/ (Waiting(s) /\ q = Request(s))
  BY <1>1, <1>2 DEF Abandon
<1>3. CASE \E t \in Side : CommitLate(t)
  BY <1>1, <1>3 DEF CommitLate
<1>4. CASE UNCHANGED late
  BY <1>4
<1>5. CASE World
  BY <1>3, <1>4, <1>5 DEF World, SourceMoves, Correct, HandWrite, ScheduledDrain, Commit,
     RollBack
<1>6. CASE Ingest
  BY <1>2, <1>4, <1>6 DEF Ingest, Refresh, DrainCert, ReadSource, OpenRun, PlanFails,
     NothingFinal, SendCert, SettleIngest, LoseIngestAnswer, IngestDies, Side
<1>7. CASE Promote
  BY <1>2, <1>4, <1>7 DEF Promote, ReadRun, GateReadsRun, GateChecks, GateInputs, CheckPrior,
     Plan, DryRun, SettlePromote, LosePromoteAnswer, DrainProd, Record, PromoteDies, Side
<1>8. CASE UNCHANGED vars
  BY <1>4, <1>8 DEF vars
<1> QED BY <1>5, <1>6, <1>7, <1>8 DEF Next

\* An apply on CERT goes forward, and leaves its results filed by CERT's roster.
LEMMA CertStored ==
    ASSUME LedgerInv, NEW q, q.listing \in Nat, Forward(q.prior, q.listing),
           Skips("cert", q) \/ Accepts("cert", q),
           content' = [content EXCEPT !["cert"] = Stored("cert", q)]
    PROVE  /\ content'["cert"].listing >= content["cert"].listing
           /\ content'["cert"].listing \in {content["cert"].listing, q.listing}
           /\ q.filed = q.inputs /\ roster' = roster /\ Drained("cert") => Drained("cert")'
<1>1. content \in [Side -> Contents] /\ content["cert"].listing \in Nat /\ OrderInv
  BY Values DEF LedgerInv
<1>2. CASE Skips("cert", q)
  BY <1>1, <1>2 DEF Stored, Side, Drained, HasResults
<1>3. CASE ~Skips("cert", q)
  <2>1. content'["cert"] = [listing |-> q.listing, filed |-> q.filed]
    BY <1>1, <1>3 DEF Stored, Side
  <2>2. CASE q.prior = None
    BY <1>1, <1>3, <2>1, <2>2 DEF Accepts, HasResults, NoListing, Drained
  <2>3. CASE q.prior # None
    <3>1. Held("cert") = q.prior /\ Held("cert")[1] = content["cert"].listing
      BY <1>1, <1>3, <2>3, HeldIsNotNone DEF Accepts, Side
    <3>2. content["cert"].listing <= q.listing
      BY <2>3, <3>1 DEF Forward
    <3> QED BY <1>1, <1>3, <2>1, <3>2 DEF Accepts, Drained, HasResults
  <2> QED BY <2>2, <2>3
<1> QED BY <1>2, <1>3

LEMMA CertStep ==
    ASSUME LedgerInv, [Next]_vars
    PROVE  content'["cert"].listing \in Nat /\ content'["cert"].listing >= content["cert"].listing
<1> DEFINE Forth ==
      /\ content'["cert"].listing \in Nat
      /\ content'["cert"].listing >= content["cert"].listing
<1>1. content \in [Side -> Contents] /\ content["cert"].listing \in Nat /\ TypeOK
  BY Values DEF LedgerInv, OrderInv, HandInv
<1>2. ASSUME NEW s \in Side, Refile(s)
      PROVE  Forth
  BY <1>1, <1>2, RefiledKeepsListings DEF Side
<1>3. CASE UNCHANGED content["cert"]
  BY <1>1, <1>3
<1>4. ASSUME NEW s \in Side, Commit(s)
      PROVE  Forth
  <2>1. CASE s = "cert"
    <3>1. Request("cert").listing \in Nat
      BY <1>4, <2>1, CertRequest, Values DEF Commit, LedgerInv
    <3>2. content'["cert"].listing >= content["cert"].listing
          /\ content'["cert"].listing \in {content["cert"].listing, Request("cert").listing}
      BY <1>4, <2>1, <3>1, CertRequest, CertStored DEF Commit
    <3> QED BY <1>1, <3>1, <3>2
  <2>2. CASE s = "prod"
    BY <1>1, <1>4, <2>2 DEF Commit, Side
  <2> QED BY <2>1, <2>2 DEF Side
<1>5. ASSUME NEW s \in Side, CommitLate(s)
      PROVE  Forth
  <2>1. CASE s = "cert" /\ content' # content
    <3>1. PICK q \in late["cert"] : /\ Skips("cert", q) \/ Accepts("cert", q)
                                    /\ content' = [content EXCEPT !["cert"] = Stored("cert", q)]
      BY <1>5, <2>1 DEF CommitLate
    <3>2. q.listing \in Nat /\ Forward(q.prior, q.listing)
      BY <3>1, Values DEF LedgerInv, CertInv, LateCert, Side
    <3>3. content'["cert"].listing >= content["cert"].listing
          /\ content'["cert"].listing \in {content["cert"].listing, q.listing}
      BY <3>1, <3>2, CertStored
    <3> QED BY <1>1, <3>2, <3>3
  <2>2. CASE s = "prod"
    BY <1>1, <1>5, <2>2 DEF CommitLate, Side
  <2> QED BY <1>3, <2>1, <2>2 DEF Side
<1>6. CASE HandWrite
  BY <1>1, <1>6 DEF HandWrite, Side
<1>7. CASE World
  BY <1>2, <1>3, <1>4, <1>5, <1>6, <1>7 DEF World, SourceMoves, Correct, ScheduledDrain,
     RollBack, Side
<1>8. CASE Ingest
  BY <1>2, <1>3, <1>8 DEF Ingest, Refresh, DrainCert, ReadSource, OpenRun, PlanFails,
     NothingFinal, SendCert, SettleIngest, LoseIngestAnswer, IngestDies, Side
<1>9. CASE Promote
  BY <1>2, <1>3, <1>9 DEF Promote, ReadRun, GateReadsRun, GateChecks, GateInputs, CheckPrior,
     Plan, DryRun, SettlePromote, LosePromoteAnswer, DrainProd, Record, PromoteDies, Side
<1>10. CASE UNCHANGED vars
  BY <1>3, <1>10 DEF vars
<1> QED BY <1>7, <1>8, <1>9, <1>10 DEF Next

\* An apply on PROD shows the listings of its run, or something after them, though it
\* may have skipped: the run's result is not older than its listings, for no such
\* result is on PROD.
LEMMA ProdStored ==
    ASSUME LedgerInv, NEW q, OfARun(q), Skips("prod", q) \/ Accepts("prod", q),
           content' = [content EXCEPT !["prod"] = Stored("prod", q)]
    PROVE  /\ content'["prod"].listing = ByHand \/ content'["prod"].listing >= q.listing
           /\ \/ content'["prod"].listing = content["prod"].listing
              \/ \E i \in Ids : Genuine(i) /\ content'["prod"].listing = runs[i].listing
<1>1. PICK i \in Ids : Done(i) /\ runs[i].result = q.expected /\ runs[i].listing = q.listing
  BY DEF OfARun
<1>2. /\ content \in [Side -> Contents] /\ OrderInv
      /\ q.listing \in Nat /\ q.expected[1] \in Nat /\ q.expected # None
  BY <1>1, Values DEF LedgerInv, Done
<1>3. CASE Skips("prod", q)
  <2>1. q.expected[1] = content["prod"].listing /\ content' = content
    BY <1>2, <1>3, HeldIsNotNone DEF Skips, Stored, Side
  <2>2. ~(q.expected[1] < q.listing)
    BY <1>1, <2>1 DEF LedgerInv, ProdInv, Unfound
  <2> QED BY <1>2, <2>1, <2>2
<1>4. CASE ~Skips("prod", q) /\ Accepts("prod", q)
  <2>1. content'["prod"].listing = q.listing
    BY <1>2, <1>4 DEF Stored, Side
  <2>2. q.expected[1] = q.listing
    BY <1>2, <1>4 DEF Accepts, Fingerprint
  <2> QED BY <1>1, <1>2, <2>1, <2>2 DEF Genuine
<1> QED BY <1>3, <1>4

LEMMA ProdStep ==
    ASSUME LedgerInv, [Next]_vars
    PROVE  \/ content'["prod"].listing \in {content["prod"].listing, ByHand}
           \/ \E i \in Ids : Genuine(i) /\ content'["prod"].listing = runs[i].listing
<1> DEFINE Fine == \/ content'["prod"].listing \in {content["prod"].listing, ByHand}
                   \/ \E i \in Ids : Genuine(i) /\ content'["prod"].listing = runs[i].listing
<1>1. content \in [Side -> Contents] /\ TypeOK
  BY Values DEF LedgerInv, OrderInv, HandInv
<1>2. ASSUME NEW s \in Side, Refile(s)
      PROVE  Fine
  BY <1>1, <1>2, RefiledKeepsListings DEF Side
<1>3. CASE UNCHANGED content["prod"]
  BY <1>3
<1>4. ASSUME NEW s \in Side, Commit(s)
      PROVE  Fine
  <2>1. CASE s = "prod"
    BY <1>4, <2>1, ProdRequest, ProdStored DEF Commit
  <2>2. CASE s = "cert"
    BY <1>1, <1>4, <2>2 DEF Commit, Side
  <2> QED BY <2>1, <2>2 DEF Side
<1>5. ASSUME NEW s \in Side, CommitLate(s)
      PROVE  Fine
  <2>1. CASE s = "prod" /\ content' # content
    <3>1. PICK q \in late["prod"] : /\ Skips("prod", q) \/ Accepts("prod", q)
                                    /\ content' = [content EXCEPT !["prod"] = Stored("prod", q)]
      BY <1>5, <2>1 DEF CommitLate
    <3>2. OfARun(q)
      BY <3>1 DEF LedgerInv, ProdInv, LateProd
    <3> QED BY <3>1, <3>2, ProdStored
  <2>2. CASE s = "cert"
    BY <1>1, <1>5, <2>2 DEF CommitLate, Side
  <2> QED BY <1>3, <2>1, <2>2 DEF Side
<1>6. CASE HandWrite
  BY <1>1, <1>6 DEF HandWrite, Side
<1>7. CASE World
  BY <1>2, <1>3, <1>4, <1>5, <1>6, <1>7 DEF World, SourceMoves, Correct, ScheduledDrain,
     RollBack, Side
<1>8. CASE Ingest
  BY <1>2, <1>3, <1>8 DEF Ingest, Refresh, DrainCert, ReadSource, OpenRun, PlanFails,
     NothingFinal, SendCert, SettleIngest, LoseIngestAnswer, IngestDies, Side
<1>9. CASE Promote
  BY <1>2, <1>3, <1>9 DEF Promote, ReadRun, GateReadsRun, GateChecks, GateInputs, CheckPrior,
     Plan, DryRun, SettlePromote, LosePromoteAnswer, DrainProd, Record, PromoteDies, Side
<1>10. CASE UNCHANGED vars
  BY <1>3, <1>10 DEF vars
<1> QED BY <1>7, <1>8, <1>9, <1>10 DEF Next

\* What PROD has passed it stays past.
LEMMA PastStep ==
    ASSUME LedgerInv, [Next]_vars, NEW l \in Nat, Past(l)
    PROVE  Past(l)'
<1>0. OrderInv /\ HandInv
  BY DEF LedgerInv, OrderInv
<1>1. CASE content["prod"].listing = ByHand
  BY <1>0, <1>1, ByHandStays DEF Past
<1>2. CASE content["prod"].listing # ByHand /\ content'["prod"].listing # ByHand
  <2>1. content["prod"].listing \in Nat /\ content["prod"].listing >= l
    BY <1>0, <1>2, Values DEF Past
  <2>2. content'["prod"].listing >= content["prod"].listing
    BY <1>0, <1>2, NoStepGoesBack
  <2>3. content'["prod"].listing \in Nat
    <3>1. \A i \in Ids : runs[i].listing \in Nat
      BY <1>0, Values
    <3> QED BY <1>2, <2>1, <3>1, ProdStep
  <2> QED BY <2>1, <2>2, <2>3 DEF Past
<1> QED BY <1>1, <1>2 DEF Past
-----------------------------------------------------------------------------
(* What every step keeps, whichever it is *)

LEMMA RowsSoundStep ==
    ASSUME LedgerInv, [Next]_vars
    PROVE  RowsSound'
<1>0. OrderInv /\ RowsSound /\ latest \in Nat
  BY Values DEF LedgerInv
<1>1. CASE PlanFails \/ NothingFinal \/ SettleIngest
  <2>1. PICK status \in {"FINISHED", "FAILED"} : Close(status)
    BY <1>1, ClosingStep
  <2>2. latest > 0 /\ latest' = latest
    BY <1>1, ClosingStep, WorkingRow
  <2>3. /\ \A i \in Ids : i # latest => runs'[i] = runs[i]
        /\ runs'[latest].result # None => runs'[latest].status = "FINISHED"
    BY <1>0, <2>1, <2>2, ClosedRow
  <2>4. ~(latest > latest)
    BY <1>0
  <2> QED BY <1>0, <2>2, <2>3, <2>4 DEF RowsSound, Done
<1>2. CASE OpenRun
  <2>1. runs'[latest'].result = None
    BY <1>0, <1>2, OpenedRow
  <2>2. ASSUME NEW i \in Ids, i # latest'
        PROVE  /\ Done(i)' => runs'[i].status = "FINISHED"
               /\ i > latest' => ~Done(i)'
    <3>1. runs'[i].result = runs[i].result
          /\ (runs[i].status = "FINISHED" => runs'[i].status = "FINISHED")
          /\ latest' = latest + 1
      BY <1>0, <1>2, <2>2, OpenedRow
    <3>2. i > latest' => i > latest
      BY <1>0, <3>1 DEF Ids
    <3> QED BY <1>0, <3>1, <3>2 DEF RowsSound, Done
  <2>3. \A i \in Ids : i # latest' \/ ~(i > latest')
    BY <1>0, <1>2 DEF OpenRun, Ids
  <2>4. ~(latest' > latest')
    BY <1>0, <1>2 DEF OpenRun
  <2> QED BY <2>1, <2>2, <2>3, <2>4 DEF RowsSound, Done
<1>3. CASE Record
  BY <1>0, <1>3, RecordedRow DEF RowsSound, Done, Record
<1>4. CASE UNCHANGED <<runs, latest>>
  BY <1>0, <1>4 DEF RowsSound, Done
<1>5. CASE World
  BY <1>4, <1>5 DEF World, SourceMoves, Correct, HandWrite, ScheduledDrain, Commit, RollBack,
     CommitLate
<1>6. CASE Ingest
  BY <1>1, <1>2, <1>4, <1>6 DEF Ingest, Refresh, DrainCert, ReadSource, SendCert,
     LoseIngestAnswer, IngestDies
<1>7. CASE Promote
  BY <1>3, <1>4, <1>7 DEF Promote, ReadRun, GateReadsRun, GateChecks, GateInputs, CheckPrior,
     Plan, DryRun, SettlePromote, LosePromoteAnswer, DrainProd, PromoteDies
<1>8. CASE UNCHANGED vars
  BY <1>4, <1>8 DEF vars
<1> QED BY <1>5, <1>6, <1>7, <1>8 DEF Next

LEMMA BehindStep ==
    ASSUME LedgerInv, [Next]_vars
    PROVE  Behind' /\ LateCert'
<1>0. /\ content["cert"].listing \in Nat /\ content'["cert"].listing >= content["cert"].listing
      /\ content'["cert"].listing \in Nat
  BY CertStep, Values DEF LedgerInv
<1>1. ASSUME NEW i \in Ids, Done(i)'
      PROVE  runs'[i].result[1] <= content'["cert"].listing
  <2>1. CASE Done(i)
    <3>1. runs'[i].result = runs[i].result /\ runs[i].result[1] \in Nat
          /\ runs[i].result[1] <= content["cert"].listing
      BY <2>1, RowsStep, Values DEF LedgerInv, CertInv, Behind
    <3> QED BY <1>0, <3>1
  <2>2. CASE ~Done(i)
    <3>1. content' = content /\ runs'[i].result[1] = content["cert"].listing
      BY <1>1, <2>2, RowsStep, HeldIsNotNone DEF Closes, Done, LedgerInv, Side
    <3> QED BY <1>0, <3>1
  <2> QED BY <2>1, <2>2
<1>2. LateCert'
  <2>1. \A q \in late'["cert"] : q \in late["cert"] \/ (Waiting("cert") /\ q = Request("cert"))
    BY LateStep DEF Side
  <2> QED BY <2>1, CertRequest DEF LedgerInv, CertInv, LateCert, Forward
<1> QED BY <1>1, <1>2 DEF Behind, Ids

\* A genuine result stays genuine; a new one is of listings newer than every result
\* that is not, and is on CERT.
LEMMA GenuineStep ==
    ASSUME LedgerInv, [Next]_vars, NEW i \in Ids
    PROVE  /\ Genuine(i) => Genuine(i)' /\ runs'[i].listing = runs[i].listing
           /\ Genuine(i)' /\ ~Genuine(i) => Closes(i)
<1>1. Done(i) => runs'[i].result = runs[i].result /\ runs'[i].listing = runs[i].listing
  BY RowsStep
<1>2. runs'[i].result # None /\ ~Done(i) => Closes(i)
  BY RowsStep
<1> QED BY <1>1, <1>2 DEF Genuine, Done

LEMMA OriginStep ==
    ASSUME LedgerInv, [Next]_vars
    PROVE  Origin'
<1>1. ASSUME NEW i \in Ids, Genuine(i), runs[i].listing = content'["prod"].listing
      PROVE  Origin'
  BY <1>1, GenuineStep DEF Origin, Ids
<1>2. CASE content'["prod"].listing \in {ByHand, NoListing}
  BY <1>2 DEF Origin
<1> QED BY <1>1, <1>2, ProdStep DEF Origin, LedgerInv, ProdInv

\* When a job closes its row with a result older than its listings, CERT has moved on
\* from everything PROD can hold and every result before: nothing equals it.
LEMMA UnfoundNew ==
    ASSUME LedgerInv, NEW i \in Ids, Closes(i), runs'[i].result[1] < runs'[i].listing
    PROVE  /\ content["prod"].listing # runs'[i].result[1]
           /\ \A j \in Ids : Genuine(j) => runs[j].listing # runs'[i].result[1]
<1>0. /\ content["cert"].listing \in Nat /\ ingest.read \in Nat
      /\ runs'[i].result[1] = content["cert"].listing /\ runs'[i].listing = ingest.read
  BY Values, HeldIsNotNone DEF Closes, LedgerInv, Side
<1>1. Base(runs[latest].prior) < content["cert"].listing /\ Base(runs[latest].prior) \in Nat
  <2>1. Base(runs[latest].prior) < content["cert"].listing
    BY <1>0 DEF Closes
  <2>2. Base(runs[latest].prior) \in Nat
    BY Values DEF Base, Closes, LedgerInv, NoListing
  <2> QED BY <2>1, <2>2
<1>2. ASSUME NEW j \in Ids, Genuine(j)
      PROVE  runs[j].listing # content["cert"].listing
  <2>1. runs[j].result[1] <= Base(runs[latest].prior) /\ runs[j].result[1] = runs[j].listing
    BY <1>2 DEF Genuine, Closes, LedgerInv, CertInv, CertJob, Opened
  <2>2. runs[j].listing \in Nat
    BY Values DEF LedgerInv
  <2> QED BY <1>0, <1>1, <2>1, <2>2
<1>3. content["cert"].listing # ByHand
  BY <1>0, PromotionAssumption
<1>4. content["cert"].listing # NoListing
  BY <1>0, <1>1 DEF NoListing
<1>5. content["prod"].listing # content["cert"].listing
  BY <1>2, <1>3, <1>4 DEF LedgerInv, ProdInv, Origin
<1> QED BY <1>0, <1>2, <1>5

LEMMA UnfoundStep ==
    ASSUME LedgerInv, [Next]_vars
    PROVE  Unfound'
<1> SUFFICES ASSUME NEW i \in Ids, Done(i)', runs'[i].result[1] < runs'[i].listing
             PROVE  /\ content'["prod"].listing # runs'[i].result[1]
                    /\ \A j \in Ids : Genuine(j)' => runs'[j].listing # runs'[i].result[1]
  BY DEF Unfound, Ids
<1>1. CASE Done(i)
  <2>1. /\ runs'[i].result = runs[i].result /\ runs'[i].listing = runs[i].listing
        /\ runs[i].result[1] \in Nat /\ runs[i].listing \in Nat
    BY <1>1, RowsStep, Values DEF LedgerInv
  <2>2. /\ content["prod"].listing # runs[i].result[1]
        /\ \A j \in Ids : Genuine(j) => runs[j].listing # runs[i].result[1]
    BY <1>1, <2>1 DEF LedgerInv, ProdInv, Unfound
  <2>3. runs[i].result[1] # ByHand
    BY <2>1, PromotionAssumption
  <2>4. content'["prod"].listing # runs[i].result[1]
    BY <2>2, <2>3, ProdStep
  <2>5. ASSUME NEW j \in Ids, Genuine(j)'
        PROVE  runs'[j].listing # runs[i].result[1]
    <3>1. CASE Genuine(j)
      BY <2>2, <3>1, GenuineStep
    <3>2. CASE Closes(j)
      <4>1. runs[i].listing <= ingest.read /\ runs'[j].listing = ingest.read
        BY <3>2 DEF Closes, LedgerInv, CertInv, CertJob, Newest
      <4>2. ingest.read \in Nat
        BY Values DEF LedgerInv
      <4> QED BY <2>1, <4>1, <4>2
    <3> QED BY <2>5, <3>1, <3>2, GenuineStep
  <2> QED BY <2>1, <2>4, <2>5
<1>2. CASE ~Done(i)
  <2>1. Closes(i)
    BY <1>2, RowsStep DEF Done
  <2>2. /\ content["prod"].listing # runs'[i].result[1] /\ content' = content
        /\ \A j \in Ids : Genuine(j) => runs[j].listing # runs'[i].result[1]
    BY <2>1, UnfoundNew DEF Closes
  <2>3. ASSUME NEW j \in Ids, Genuine(j)'
        PROVE  runs'[j].listing # runs'[i].result[1]
    <3>1. CASE Genuine(j)
      BY <2>2, <3>1, GenuineStep
    <3>2. CASE Closes(j)
      <4>1. j = i /\ content["cert"].listing \in Nat
            /\ runs'[i].result[1] = content["cert"].listing /\ runs'[i].listing = ingest.read
        BY <2>1, <3>2, HeldIsNotNone, Values DEF Closes, LedgerInv, Side
      <4>2. ingest.read \in Nat
        BY Values DEF LedgerInv
      <4> QED BY <4>1, <4>2
    <3> QED BY <2>3, <3>1, <3>2, GenuineStep
  <2> QED BY <2>2, <2>3
<1> QED BY <1>1, <1>2

LEMMA LateProdStep ==
    ASSUME LedgerInv, [Next]_vars
    PROVE  LateProd'
<1>1. ASSUME NEW q, OfARun(q)
      PROVE  OfARun(q)'
  <2>1. PICK i \in Ids : Done(i) /\ runs[i].result = q.expected /\ runs[i].listing = q.listing
    BY <1>1 DEF OfARun
  <2>2. runs'[i].result = runs[i].result /\ runs'[i].listing = runs[i].listing
    BY <2>1, RowsStep
  <2> QED BY <2>1, <2>2 DEF OfARun, Done, Ids
<1>2. ASSUME NEW q \in late'["prod"]
      PROVE  OfARun(q)
  BY <1>2, LateStep, ProdRequest DEF LedgerInv, ProdInv, LateProd, Side
<1> QED BY <1>1, <1>2 DEF LateProd

LEMMA LedgerStep ==
    ASSUME LedgerInv, [Next]_vars
    PROVE  LedgerSound'
<1> SUFFICES ASSUME NEW i \in Ids, runs'[i].ledger \in {"applied", "skipped"}
             PROVE  Done(i)' /\ (content'["prod"].listing = ByHand
                                 \/ content'["prod"].listing >= runs'[i].listing)
  BY DEF LedgerSound, Past, Ids
<1>1. Done(i) /\ Past(runs[i].listing)
  <2>1. CASE runs'[i].ledger = runs[i].ledger
    BY <2>1 DEF LedgerInv, LedgerSound
  <2>2. CASE i = promote.id /\ promote.at = "record"
    BY <2>2 DEF LedgerInv, ProdInv, Copied, Checked, Settled, Done
  <2> QED BY <2>1, <2>2, RowsStep
<1>2. Done(i)' /\ runs'[i].listing = runs[i].listing
  BY <1>1, RowsStep DEF Done
<1>3. PICK l \in Nat : l = runs[i].listing
  BY Values DEF LedgerInv
<1>4. Past(l)'
  BY <1>1, <1>3, PastStep DEF Past
<1> QED BY <1>2, <1>3, <1>4 DEF Past
-----------------------------------------------------------------------------
(* The promote job *)

\* The job keeps its copy of the run from ReadRun until it is idle again.
LEMMA PromoteStepKinds ==
    ASSUME LedgerInv, [Next]_vars
    PROVE  \/ promote' = promote \/ promote'.at = "idle" \/ ReadRun
           \/ /\ promote.at # "idle" /\ runs' = runs
              /\ promote'.run = promote.run /\ promote'.id = promote.id
<1>1. PromoteType
  BY DEF LedgerInv, OrderInv, HandInv, TypeOK
<1>2. CASE promote' = promote
  BY <1>2
<1>3. CASE World
  BY <1>2, <1>3 DEF World, SourceMoves, Correct, HandWrite, ScheduledDrain, Commit, RollBack,
     CommitLate
<1>4. CASE Ingest
  BY <1>2, <1>4 DEF Ingest, Refresh, DrainCert, ReadSource, OpenRun, PlanFails, NothingFinal,
     SendCert, SettleIngest, LoseIngestAnswer, IngestDies
<1>5. CASE GateReadsRun \/ GateChecks \/ GateInputs \/ CheckPrior \/ Plan
  BY <1>1, <1>5 DEF PromoteType, GateReadsRun, GateChecks, GateInputs, CheckPrior, Plan
<1>6. CASE DryRun \/ SettlePromote \/ LosePromoteAnswer \/ DrainProd
  BY <1>1, <1>6 DEF PromoteType, DryRun, SettlePromote, LosePromoteAnswer, DrainProd
<1>7. CASE ReadRun
  BY <1>7
<1>8. CASE Record \/ PromoteDies
  BY <1>8 DEF Record, PromoteDies, PromoteIdle
<1>9. CASE UNCHANGED vars
  BY <1>2, <1>9 DEF vars
<1> QED BY <1>3, <1>4, <1>5, <1>6, <1>7, <1>8, <1>9 DEF Next, Promote

LEMMA CopiedStep ==
    ASSUME LedgerInv, [Next]_vars
    PROVE  Copied'
<1>1. ASSUME promote.at # "idle", promote.run.result # None,
             promote'.run = promote.run, promote'.id = promote.id
      PROVE  Copied'
  <2>1. promote.id \in Ids
    <3>1. promote.id \in 1..latest
      BY <1>1 DEF LedgerInv, OrderInv, HandInv, Phases
    <3> QED BY <3>1, Values DEF LedgerInv, Ids
  <2>2. Done(promote.id) /\ runs[promote.id].result = promote.run.result
        /\ runs[promote.id].listing = promote.run.listing
    BY <1>1 DEF LedgerInv, ProdInv, Copied, Done
  <2>3. runs'[promote.id].result = runs[promote.id].result
        /\ runs'[promote.id].listing = runs[promote.id].listing
    BY <2>1, <2>2, RowsStep
  <2> QED BY <1>1, <2>2, <2>3 DEF Copied
<1>2. CASE ReadRun
  <2>1. promote'.id = latest /\ promote'.run = runs[latest] /\ runs' = runs
    BY <1>2 DEF ReadRun, PromoteIdle
  <2> QED BY <2>1 DEF Copied
<1> QED BY <1>1, <1>2, PromoteStepKinds DEF Copied

LEMMA CheckedStep ==
    ASSUME LedgerInv, [Next]_vars
    PROVE  Checked'
<1>0. Checked /\ PromoteType
  BY DEF LedgerInv, ProdInv, OrderInv, HandInv, TypeOK
<1>1. CASE promote' = promote \/ promote'.at \in {"idle", "gate", "checks", "inputs", "prior"}
  BY <1>0, <1>1 DEF Checked
<1>2. CASE World
  BY <1>1, <1>2 DEF World, SourceMoves, Correct, HandWrite, ScheduledDrain, Commit, RollBack,
     CommitLate
<1>3. CASE Ingest
  BY <1>1, <1>3 DEF Ingest, Refresh, DrainCert, ReadSource, OpenRun, PlanFails, NothingFinal,
     SendCert, SettleIngest, LoseIngestAnswer, IngestDies
<1>4. CASE ReadRun \/ Record \/ PromoteDies
  <2>1. ReadRun => promote'.at = "gate"
    BY DEF ReadRun, PromoteIdle
  <2>2. Record \/ PromoteDies => promote'.at = "idle"
    BY DEF Record, PromoteDies, PromoteIdle
  <2> QED BY <1>1, <1>4, <2>1, <2>2
<1>5. CASE GateReadsRun \/ GateChecks \/ GateInputs
  <2>1. promote'.at \in {"checks", "inputs", "prior", "refused"}
    BY <1>0, <1>5 DEF PromoteType, GateReadsRun, GateChecks, GateInputs, Goes
  <2> QED BY <2>1 DEF Checked
<1>6. CASE CheckPrior
  BY <1>0, <1>6 DEF PromoteType, Checked, CheckPrior, Goes
<1>7. CASE Plan \/ DryRun \/ SettlePromote \/ LosePromoteAnswer \/ DrainProd
  BY <1>0, <1>7 DEF PromoteType, Checked, Plan, DryRun, SettlePromote, LosePromoteAnswer,
     DrainProd, Goes
<1>8. CASE UNCHANGED vars
  BY <1>1, <1>8 DEF vars
<1> QED BY <1>2, <1>3, <1>4, <1>5, <1>6, <1>7, <1>8 DEF Next, Promote

\* PROD is past a run's listings when it shows the run's result.
LEMMA ArrivedIsPast ==
    ASSUME LedgerInv, promote.at = "unanswered", Arrived
    PROVE  Past(promote.run.listing)
<1>1. promote.id \in Ids
  <2>1. promote.id \in 1..latest
    BY DEF LedgerInv, OrderInv, HandInv, Phases
  <2> QED BY <2>1, Values DEF LedgerInv, Ids
<1>2. /\ Done(promote.id) /\ runs[promote.id].result = promote.run.result
      /\ runs[promote.id].listing = promote.run.listing
  BY DEF LedgerInv, ProdInv, Copied, Checked, Done
<1>3. runs[promote.id].result[1] = content["prod"].listing
  BY <1>2, HeldIsNotNone DEF Arrived, LedgerInv, Side
<1>4. ~(runs[promote.id].result[1] < runs[promote.id].listing)
  BY <1>1, <1>2, <1>3 DEF LedgerInv, ProdInv, Unfound
<1>5. runs[promote.id].result[1] \in Nat /\ runs[promote.id].listing \in Nat
  BY <1>1, <1>2, Values DEF LedgerInv
<1> QED BY <1>2, <1>3, <1>4, <1>5 DEF Past

LEMMA SettledStep ==
    ASSUME LedgerInv, [Next]_vars
    PROVE  Settled'
<1>0. PromoteType /\ promote.run.listing \in Nat
  BY Values DEF LedgerInv, OrderInv, HandInv, TypeOK
<1>1. ASSUME promote'.run = promote.run, Past(promote.run.listing)
      PROVE  Settled'
  <2>1. PICK l \in Nat : l = promote.run.listing
    BY <1>0
  <2>2. Past(l)'
    BY <1>1, <2>1, PastStep DEF Past
  <2> QED BY <1>1, <2>1, <2>2 DEF Settled, Past
<1>2. CASE promote' = promote
  BY <1>1, <1>2 DEF Settled, LedgerInv, ProdInv
<1>3. CASE World
  BY <1>2, <1>3 DEF World, SourceMoves, Correct, HandWrite, ScheduledDrain, Commit, RollBack,
     CommitLate
<1>4. CASE Ingest
  BY <1>2, <1>4 DEF Ingest, Refresh, DrainCert, ReadSource, OpenRun, PlanFails, NothingFinal,
     SendCert, SettleIngest, LoseIngestAnswer, IngestDies
<1>5. CASE ReadRun \/ Record \/ PromoteDies
  <2>1. ReadRun => promote'.at = "gate"
    BY DEF ReadRun, PromoteIdle
  <2>2. Record \/ PromoteDies => promote'.at = "idle"
    BY DEF Record, PromoteDies, PromoteIdle
  <2> QED BY <1>5, <2>1, <2>2 DEF Settled
<1>6. CASE GateReadsRun \/ GateChecks \/ GateInputs \/ CheckPrior
  <2>1. promote'.at \in {"checks", "inputs", "prior", "plan", "refused"}
    BY <1>0, <1>6 DEF PromoteType, GateReadsRun, GateChecks, GateInputs, CheckPrior, Goes
  <2> QED BY <2>1 DEF Settled
<1>7. CASE Plan \/ DryRun \/ LosePromoteAnswer
  <2>1. promote'.at \in {"dry run", "applying", "unanswered", "refused"}
    BY <1>0, <1>7 DEF PromoteType, Plan, DryRun, LosePromoteAnswer, Goes
  <2> QED BY <2>1 DEF Settled
<1>8. CASE SettlePromote
  <2>1. promote'.run = promote.run
    BY <1>0, <1>8 DEF PromoteType, SettlePromote
  <2>2. promote'.at = "refused" \/ Past(promote.run.listing)
    <3>1. CASE promote.at = "applying"
      <4>1. promote'.at = "refused" \/ answer["prod"] \in {"applied", "skipped"}
        BY <1>0, <1>8, <3>1 DEF PromoteType, SettlePromote, Goes, LedgerInv, OrderInv,
           HandInv, TypeOK, CallsType, Side
      <4> QED BY <4>1 DEF LedgerInv, ProdInv, ProdAnswer
    <3>2. CASE promote.at = "unanswered"
      <4>1. promote'.at = "refused" \/ Arrived
        BY <1>0, <1>8, <3>2 DEF PromoteType, SettlePromote, Goes
      <4> QED BY <3>2, <4>1, ArrivedIsPast
    <3> QED BY <1>8, <3>1, <3>2 DEF SettlePromote
  <2>3. promote'.at = "refused" => Settled'
    BY DEF Settled
  <2> QED BY <1>1, <2>1, <2>2, <2>3
<1>9. CASE DrainProd
  BY <1>0, <1>1, <1>9 DEF PromoteType, DrainProd, Settled, LedgerInv, ProdInv
<1>10. CASE UNCHANGED vars
  BY <1>2, <1>10 DEF vars
<1> QED
  BY <1>3, <1>4, <1>5, <1>6, <1>7, <1>8, <1>9, <1>10 DEF Next, Promote

LEMMA ProdAnswerStep ==
    ASSUME LedgerInv, [Next]_vars
    PROVE  ProdAnswer'
<1>0. /\ PromoteType /\ promote.run.listing \in Nat /\ ProdAnswer
      /\ answer \in [Side -> {"none", "applied", "skipped", "refused"}]
  BY Values DEF LedgerInv, OrderInv, HandInv, TypeOK, CallsType, ProdInv
<1>1. CASE answer'["prod"] = "none"
  BY <1>1 DEF ProdAnswer
<1>2. CASE promote' = promote /\ answer'["prod"] = answer["prod"]
  <2>1. PICK l \in Nat : l = promote.run.listing
    BY <1>0
  <2>2. Past(l) => Past(l)'
    BY PastStep
  <2> QED BY <1>0, <1>2, <2>1, <2>2 DEF ProdAnswer, Past
<1>3. ASSUME NEW s \in Side, Commit(s)
      PROVE  ProdAnswer'
  <2>1. CASE s = "cert"
    BY <1>0, <1>2, <1>3, <2>1 DEF Commit, Side
  <2>2. CASE s = "prod"
    <3>1. PICK q : q = Request("prod") /\ OfARun(q) /\ q.listing = promote.run.listing
                   /\ (Skips("prod", q) \/ Accepts("prod", q))
                   /\ content' = [content EXCEPT !["prod"] = Stored("prod", q)]
      BY <1>3, <2>2, ProdRequest DEF Commit
    <3>2. content'["prod"].listing = ByHand \/ content'["prod"].listing >= promote.run.listing
      BY <3>1, ProdStored
    <3>3. promote' = promote /\ promote.at = "applying"
      BY <1>3, <2>2 DEF Commit, Waiting
    <3> QED BY <3>2, <3>3 DEF ProdAnswer, Past
  <2> QED BY <2>1, <2>2 DEF Side
<1>4. ASSUME NEW s \in Side, RollBack(s)
      PROVE  ProdAnswer'
  <2>1. CASE s = "cert"
    BY <1>0, <1>2, <1>4, <2>1 DEF RollBack, Side
  <2>2. CASE s = "prod"
    BY <1>0, <1>4, <2>2 DEF RollBack, Waiting, ProdAnswer, Side
  <2> QED BY <2>1, <2>2 DEF Side
<1>5. CASE World
  BY <1>2, <1>3, <1>4, <1>5 DEF World, SourceMoves, Correct, HandWrite, ScheduledDrain,
     CommitLate
<1>6. CASE Ingest
  BY <1>0, <1>2, <1>6 DEF Ingest, Refresh, DrainCert, ReadSource, OpenRun, PlanFails,
     NothingFinal, SendCert, SettleIngest, LoseIngestAnswer, IngestDies, Abandon, Side
<1>7. CASE promote.at # "applying" /\ answer' = answer
  BY <1>0, <1>1, <1>7 DEF ProdAnswer
<1>8. CASE SettlePromote \/ LosePromoteAnswer
  BY <1>0, <1>1, <1>8 DEF SettlePromote, LosePromoteAnswer, Abandon, Side
<1>9. CASE PromoteDies
  BY <1>0, <1>1, <1>7, <1>9 DEF PromoteDies, Abandon, Side
<1>10. CASE ReadRun \/ GateReadsRun \/ GateChecks \/ GateInputs \/ CheckPrior \/ Plan \/ DryRun
            \/ DrainProd \/ Record
  BY <1>7, <1>10 DEF ReadRun, GateReadsRun, GateChecks, GateInputs, CheckPrior, Plan, DryRun,
     DrainProd, Record
<1>11. CASE UNCHANGED vars
  BY <1>2, <1>11 DEF vars
<1> QED BY <1>5, <1>6, <1>8, <1>9, <1>10, <1>11 DEF Next, Promote
-----------------------------------------------------------------------------
(* The ingest job *)

\* The rows keep what the job's invariant says of them.
SameRows == /\ latest' = latest
            /\ \A i \in Ids : /\ runs'[i].result = runs[i].result
                              /\ runs'[i].listing = runs[i].listing
                              /\ runs'[i].status = runs[i].status
                              /\ runs'[i].prior = runs[i].prior

Reading == {"read"} \cup Working

\* A call on CERT, under way or left behind, writes nothing newer than what was read.
LEMMA LateIsRead ==
    ASSUME LedgerInv, [Next]_vars, ingest.at \in Reading, NEW q \in late'["cert"]
    PROVE  q.listing <= ingest.read
<1>1. q \in late["cert"] \/ (Waiting("cert") /\ q = Request("cert"))
  BY LateStep DEF Side
<1>2. ingest.read \in Nat
  BY Values DEF LedgerInv
<1>3. q \in late["cert"] => q.listing <= ingest.read
  BY DEF LedgerInv, CertInv, CertJob, Newest, Reading
<1> QED BY <1>1, <1>2, <1>3, CertRequest

LEMMA CertJobKept ==
    ASSUME LedgerInv, [Next]_vars, SameRows, ingest'.read = ingest.read,
           \/ ingest'.at = ingest.at
           \/ ingest.at \in Working /\ ingest'.at \in Working,
           roster'["cert"] = roster["cert"], Drained("cert") => Drained("cert")',
           ingest.at \in Reading => content'["cert"].listing <= ingest.read
    PROVE  CertJob'
<1>0. CertJob /\ content["cert"].listing \in Nat /\ content'["cert"].listing \in Nat
      /\ content'["cert"].listing >= content["cert"].listing
  BY CertStep, Values DEF LedgerInv, CertInv
<1>1. ingest'.at \in {"drained", "read"} \cup Working => Drained("cert")'
  BY <1>0 DEF CertJob, Working
<1>2. ASSUME ingest'.at \in Reading
      PROVE  Newest'
  <2>1. ingest.at \in Reading
    BY <1>2 DEF Reading, Working
  <2>2. Newest
    BY <1>0, <2>1 DEF CertJob, Reading
  <2>3. \A q \in late'["cert"] : q.listing <= ingest.read
    BY <2>1, LateIsRead
  <2> QED BY <2>1, <2>2, <2>3 DEF Newest, SameRows, Ids
<1>3. ASSUME ingest'.at \in Working
      PROVE  Opened'
  <2>1. ingest.at \in Working /\ latest \in Ids /\ latest' = latest
    BY <1>3, WorkingRow DEF SameRows
  <2>2. Opened
    BY <1>0, <2>1 DEF CertJob
  <2>3. runs[latest].prior = None \/ runs[latest].prior[1] \in Nat
    BY <2>1, Values DEF LedgerInv
  <2>4. Base(runs[latest].prior) \in Nat
    BY <2>3 DEF Base, NoListing
  <2>5. Base(runs[latest].prior) <= content'["cert"].listing
    BY <1>0, <2>2, <2>4 DEF Opened
  <2>6. /\ runs'[latest].prior = runs[latest].prior
        /\ runs'[latest].status = runs[latest].status
        /\ Base(runs'[latest].prior) = Base(runs[latest].prior)
    BY <2>1 DEF SameRows, Base
  <2>7. \A i \in Ids : runs'[i].result # None =>
                          runs'[i].result[1] <= Base(runs'[latest].prior)
    BY <2>2, <2>6 DEF Opened, SameRows, Done
  <2> QED BY <2>1, <2>2, <2>5, <2>6, <2>7 DEF Opened, Done, Ids, Base
<1> QED BY <1>1, <1>2, <1>3 DEF CertJob, Reading

\* What the database does with an apply on CERT disturbs nothing the job relies on.
LEMMA CertApplied ==
    ASSUME LedgerInv, NEW q, q.listing \in Nat, Forward(q.prior, q.listing),
           q.filed = q.inputs, roster' = roster,
           ingest.at \in Reading => q.listing <= ingest.read,
           Skips("cert", q) \/ Accepts("cert", q),
           content' = [content EXCEPT !["cert"] = Stored("cert", q)]
    PROVE  /\ Drained("cert") => Drained("cert")'
           /\ ingest.at \in Reading => content'["cert"].listing <= ingest.read
<1>1. /\ content'["cert"].listing \in {content["cert"].listing, q.listing}
      /\ Drained("cert") => Drained("cert")'
  BY CertStored
<1>2. ingest.at \in Reading => content["cert"].listing <= ingest.read
  BY DEF LedgerInv, CertInv, CertJob, Newest, Reading
<1> QED BY <1>1, <1>2

LEMMA CertJobWorld ==
    ASSUME LedgerInv, World
    PROVE  CertJob'
<1>0. [Next]_vars /\ content \in [Side -> Contents] /\ roster \in [Side -> Roster]
  BY Values DEF Next, LedgerInv, OrderInv, HandInv, TypeOK, WorldType
<1>1. SameRows /\ ingest' = ingest /\ roster'["cert"] = roster["cert"]
  BY <1>0 DEF World, SourceMoves, Correct, HandWrite, ScheduledDrain, Commit, RollBack,
     CommitLate, SameRows, Side
<1>2. CASE UNCHANGED content["cert"]
  <2>1. ingest.at \in Reading => content["cert"].listing <= ingest.read
    BY DEF LedgerInv, CertInv, CertJob, Newest, Reading
  <2>2. Drained("cert") => Drained("cert")'
    BY <1>1, <1>2 DEF Drained, HasResults
  <2> QED BY <1>0, <1>1, <1>2, <2>1, <2>2, CertJobKept
<1>3. CASE ScheduledDrain
  <2>1. CASE Refile("prod")
    <3>1. content'["cert"] = content["cert"]
      BY <1>0, <2>1 DEF Refile, Side
    <3> QED BY <1>2, <3>1
  <2>2. CASE ingest.at = "idle"
    BY <1>1, <2>2 DEF CertJob, Working
  <2> QED BY <1>3, <2>1, <2>2 DEF ScheduledDrain
<1>4. ASSUME NEW s \in Side, Commit(s)
      PROVE  CertJob'
  <2>1. CASE s = "cert"
    <3>1. PICK q : /\ q = Request("cert") /\ Forward(q.prior, q.listing)
                   /\ q.filed = q.inputs /\ q.listing = ingest.read
                   /\ Skips("cert", q) \/ Accepts("cert", q)
                   /\ content' = [content EXCEPT !["cert"] = Stored("cert", q)]
      BY <1>4, <2>1, CertRequest DEF Commit
    <3>2. q.listing \in Nat /\ q.listing <= ingest.read /\ roster' = roster
      BY <1>4, <3>1, Values DEF Commit, LedgerInv
    <3>3. /\ Drained("cert") => Drained("cert")'
          /\ ingest.at \in Reading => content'["cert"].listing <= ingest.read
      BY <3>1, <3>2, CertApplied
    <3> QED BY <1>0, <1>1, <3>3, CertJobKept
  <2>2. CASE s = "prod"
    BY <1>0, <1>2, <1>4, <2>2 DEF Commit, Side
  <2> QED BY <2>1, <2>2 DEF Side
<1>5. ASSUME NEW s \in Side, CommitLate(s)
      PROVE  CertJob'
  <2>1. CASE s = "cert" /\ content' # content
    <3>1. PICK q \in late["cert"] : /\ Skips("cert", q) \/ Accepts("cert", q)
                                    /\ content' = [content EXCEPT !["cert"] = Stored("cert", q)]
      BY <1>5, <2>1 DEF CommitLate
    <3>2. /\ q.listing \in Nat /\ Forward(q.prior, q.listing) /\ q.filed = q.inputs
          /\ ingest.at \in Reading => q.listing <= ingest.read
      BY <3>1, Values DEF LedgerInv, CertInv, LateCert, CertJob, Newest, Reading, Side
    <3>3. roster' = roster
      BY <1>5 DEF CommitLate
    <3>4. /\ Drained("cert") => Drained("cert")'
          /\ ingest.at \in Reading => content'["cert"].listing <= ingest.read
      BY <3>1, <3>2, <3>3, CertApplied
    <3> QED BY <1>0, <1>1, <3>4, CertJobKept
  <2>2. CASE s = "prod"
    BY <1>0, <1>2, <1>5, <2>2 DEF CommitLate, Side
  <2> QED BY <1>2, <2>1, <2>2 DEF Side
<1>6. CASE HandWrite
  BY <1>0, <1>2, <1>6 DEF HandWrite, Side
<1> QED
  BY <1>2, <1>3, <1>4, <1>5, <1>6 DEF World, SourceMoves, Correct, RollBack

\* A job that starts over, or is done, relies on nothing.
LEMMA AtRest ==
    ASSUME ingest'.at \in {"idle", "refreshed", "closed"}
    PROVE  CertJob'
BY DEF CertJob, Working

\* What the source shows is the newest of all.
LEMMA ReadIsNewest ==
    ASSUME LedgerInv, ReadSource
    PROVE  CertJob'
<1>0. IngestType /\ OrderInv /\ ingest.at = "drained" /\ source \in Nat
  <2>1. IngestType /\ OrderInv /\ ingest.at = "drained"
    BY DEF LedgerInv, OrderInv, HandInv, TypeOK, ReadSource
  <2>2. source \in Listing \cup {NoListing}
    BY DEF LedgerInv, OrderInv, HandInv, TypeOK, WorldType
  <2> QED BY <2>1, <2>2, PromotionAssumption DEF NoListing
<1>1. ingest' = [at |-> "read", read |-> source] /\ UNCHANGED <<content, late, runs, roster>>
  BY DEF ReadSource
<1>2. Drained("cert")'
  <2>1. Drained("cert")
    BY <1>0 DEF LedgerInv, CertInv, CertJob
  <2> QED BY <1>1, <2>1 DEF Drained, HasResults
<1>3. Newest'
  <2>1. content["cert"].listing <= source
    BY <1>0 DEF OrderInv, HandInv, Foreign, Ordered, SeenContent, Seen, Side
  <2>2. \A q \in late["cert"] : q.listing <= source
    BY <1>0 DEF OrderInv, Ordered, SeenCalls, Seen, Side
  <2>3. \A i \in Ids : runs[i].listing <= source
    BY <1>0 DEF OrderInv, Ordered, SeenRuns, Seen, Ids
  <2> QED BY <1>1, <2>1, <2>2, <2>3 DEF Newest, Ids
<1> QED BY <1>1, <1>2, <1>3 DEF CertJob, Working

\* The row opens with what CERT holds, which no result is ahead of.
LEMMA OpensOnHeld ==
    ASSUME LedgerInv, OpenRun
    PROVE  CertJob'
<1>0. OrderInv /\ IngestType /\ ingest.at = "read" /\ Drained("cert") /\ Newest
  BY DEF LedgerInv, OrderInv, HandInv, TypeOK, OpenRun, CertInv, CertJob
<1>1. /\ ingest'.at = "open" /\ ingest'.read = ingest.read
      /\ UNCHANGED <<content, late, roster>>
  BY <1>0 DEF OpenRun, IngestType
<1>2. Drained("cert")'
  BY <1>0, <1>1 DEF Drained, HasResults
<1>3. /\ content["cert"].listing \in Nat /\ ingest.read \in Nat
      /\ Held("cert") # None /\ Held("cert")[1] = content["cert"].listing
  BY <1>0, Values, HeldIsNotNone DEF Side
<1>4. PICK p : p = runs'[latest'].prior
  OBVIOUS
<1>5. p = IF HasResults("cert") THEN Held("cert") ELSE None
  BY <1>0, <1>4, OpenedRow
<1>6. Base(p) = content["cert"].listing
  BY <1>3, <1>5 DEF Base, HasResults
<1>7. p # None => p = <<p[1], roster["cert"], roster["cert"]>> /\ p[1] # NoListing
  BY <1>0, <1>3, <1>5 DEF HasResults, Drained, Held, Fingerprint
<1>8. \A i \in Ids : runs'[i].result # None => runs'[i].result[1] <= Base(p)
  BY <1>0, <1>6, OpenedRow DEF LedgerInv, CertInv, Behind, Done
<1>9. Newest'
  <2>1. \A i \in Ids : runs'[i].listing <= ingest.read
    BY <1>0, <1>3, OpenedRow DEF Newest, NoListing
  <2> QED BY <1>0, <1>1, <2>1 DEF Newest, Ids
<1>10. Opened'
  <2>1. runs'[latest'].status = "RUNNING"
    BY <1>0, OpenedRow
  <2>2. Base(p) <= content["cert"].listing
    BY <1>3, <1>6
  <2> QED BY <1>1, <1>4, <1>7, <1>8, <2>1, <2>2 DEF Opened, Done, Base, Ids
<1> QED BY <1>1, <1>2, <1>9, <1>10 DEF CertJob, Working

LEMMA CertJobIngest ==
    ASSUME LedgerInv, Ingest
    PROVE  CertJob'
<1>0. [Next]_vars /\ IngestType /\ content \in [Side -> Contents]
  BY Values DEF Next, LedgerInv, OrderInv, HandInv, TypeOK
<1>1. CASE Refresh \/ PlanFails \/ NothingFinal \/ SettleIngest \/ IngestDies
  <2>1. ingest'.at \in {"idle", "refreshed", "closed"}
    BY <1>0, <1>1 DEF IngestType, Refresh, PlanFails, NothingFinal, SettleIngest, IngestDies,
       IngestIdle
  <2> QED BY <2>1, AtRest
<1>2. CASE DrainCert
  <2>1. CASE ingest.at = "closed"
    BY <1>2, <2>1, AtRest DEF DrainCert, IngestIdle
  <2>2. CASE ingest.at = "refreshed"
    <3>1. ingest'.at = "drained"
      BY <1>0, <1>2, <2>2 DEF DrainCert, IngestType
    <3>2. Drained("cert")'
      BY <1>0, <1>2 DEF DrainCert, Refile, Drained, HasResults, Side
    <3> QED BY <3>1, <3>2 DEF CertJob, Working
  <2> QED BY <1>2, <2>1, <2>2 DEF DrainCert
<1>3. CASE SendCert \/ LoseIngestAnswer
  <2>1. /\ ingest.at \in Working /\ ingest'.at \in Working /\ ingest'.read = ingest.read
        /\ UNCHANGED <<content, runs, latest, roster>>
    BY <1>0, <1>3 DEF SendCert, LoseIngestAnswer, IngestType, Working
  <2>2. SameRows /\ (Drained("cert") => Drained("cert")')
    BY <2>1 DEF SameRows, Drained, HasResults
  <2>3. content'["cert"].listing <= ingest.read
    BY <2>1 DEF LedgerInv, CertInv, CertJob, Newest
  <2> QED BY <1>0, <2>1, <2>2, <2>3, CertJobKept
<1> QED BY <1>1, <1>2, <1>3, ReadIsNewest, OpensOnHeld DEF Ingest

LEMMA CertJobPromote ==
    ASSUME LedgerInv, Promote \/ UNCHANGED vars
    PROVE  CertJob'
<1>0. [Next]_vars /\ content \in [Side -> Contents] /\ OrderInv
  BY Values DEF Next, LedgerInv
<1>1. ingest' = ingest /\ roster' = roster /\ latest' = latest
  BY DEF Promote, ReadRun, GateReadsRun, GateChecks, GateInputs, CheckPrior, Plan, DryRun,
     SettlePromote, LosePromoteAnswer, DrainProd, Record, PromoteDies, vars
<1>2. content'["cert"] = content["cert"]
  <2>1. UNCHANGED content \/ DrainProd
    BY DEF Promote, ReadRun, GateReadsRun, GateChecks, GateInputs, CheckPrior, Plan, DryRun,
       SettlePromote, LosePromoteAnswer, Record, PromoteDies, vars
  <2> QED BY <1>0, <2>1 DEF DrainProd, Refile, Side
<1>3. SameRows
  <2>1. UNCHANGED runs \/ Record
    BY DEF Promote, ReadRun, GateReadsRun, GateChecks, GateInputs, CheckPrior, Plan, DryRun,
       SettlePromote, LosePromoteAnswer, DrainProd, PromoteDies, vars
  <2> QED BY <1>0, <1>1, <2>1, RecordedRow DEF SameRows
<1>4. ingest.at \in Reading => content["cert"].listing <= ingest.read
  BY DEF LedgerInv, CertInv, CertJob, Newest, Reading
<1>5. Drained("cert") => Drained("cert")'
  BY <1>1, <1>2 DEF Drained, HasResults
<1> QED BY <1>0, <1>1, <1>2, <1>3, <1>4, <1>5, CertJobKept

LEMMA CertAnswerStep ==
    ASSUME LedgerInv, [Next]_vars
    PROVE  CertAnswer'
<1>0. /\ IngestType /\ CertAnswer /\ ingest.read \in Nat
      /\ answer \in [Side -> {"none", "applied", "skipped", "refused"}]
      /\ content["cert"].listing \in Nat /\ content'["cert"].listing \in Nat
      /\ content'["cert"].listing >= content["cert"].listing
  BY Values, CertStep DEF LedgerInv, OrderInv, HandInv, TypeOK, CallsType, CertInv
<1>1. CASE answer'["cert"] = "none"
  BY <1>1 DEF CertAnswer
<1>2. CASE ingest' = ingest /\ answer'["cert"] = answer["cert"]
  BY <1>0, <1>2 DEF CertAnswer
<1>3. ASSUME NEW s \in Side, Commit(s)
      PROVE  CertAnswer'
  <2>1. CASE s = "prod"
    BY <1>0, <1>2, <1>3, <2>1 DEF Commit, Side
  <2>2. CASE s = "cert"
    <3>1. ~Skips("cert", Request("cert")) /\ Request("cert").listing = ingest.read
      BY DEF Skips, Request
    <3>2. content'["cert"].listing = ingest.read
      BY <1>3, <2>2, <3>1, Values DEF Commit, Stored, LedgerInv, Side
    <3>3. ingest' = ingest /\ ingest.at = "applying"
      BY <1>3, <2>2 DEF Commit, Waiting
    <3> QED BY <1>0, <3>2, <3>3 DEF CertAnswer
  <2> QED BY <2>1, <2>2 DEF Side
<1>4. ASSUME NEW s \in Side, RollBack(s)
      PROVE  CertAnswer'
  <2>1. CASE s = "prod"
    BY <1>0, <1>2, <1>4, <2>1 DEF RollBack, Side
  <2>2. CASE s = "cert"
    BY <1>0, <1>4, <2>2 DEF RollBack, Waiting, CertAnswer, Side
  <2> QED BY <2>1, <2>2 DEF Side
<1>5. CASE World
  BY <1>2, <1>3, <1>4, <1>5 DEF World, SourceMoves, Correct, HandWrite, ScheduledDrain,
     CommitLate
<1>6. CASE Promote
  BY <1>0, <1>2, <1>6 DEF Promote, ReadRun, GateReadsRun, GateChecks, GateInputs, CheckPrior,
     Plan, DryRun, SettlePromote, LosePromoteAnswer, DrainProd, Record, PromoteDies, Abandon,
     Side
<1>7. CASE ingest.at # "applying" /\ answer' = answer
  BY <1>0, <1>1, <1>7 DEF CertAnswer
<1>8. CASE SettleIngest \/ LoseIngestAnswer
  BY <1>0, <1>1, <1>8 DEF SettleIngest, LoseIngestAnswer, Abandon, Side
<1>9. CASE IngestDies
  BY <1>0, <1>1, <1>7, <1>9 DEF IngestDies, Abandon, Side
<1>10. CASE Refresh \/ DrainCert \/ ReadSource \/ OpenRun \/ PlanFails \/ NothingFinal
            \/ SendCert
  BY <1>7, <1>10 DEF Refresh, DrainCert, ReadSource, OpenRun, PlanFails, NothingFinal, SendCert
<1>11. CASE UNCHANGED vars
  BY <1>2, <1>11 DEF vars
<1> QED BY <1>5, <1>6, <1>8, <1>9, <1>10, <1>11 DEF Next, Ingest
-----------------------------------------------------------------------------
LEMMA InitLedgerInv ==
    ASSUME OrderInv, Init
    PROVE  LedgerInv
<1>1. \A i \in Ids : runs[i].result = None /\ runs[i].ledger = "none"
  BY DEF Init, NoRun, Ids
<1>2. RowsSound /\ LedgerSound /\ Behind /\ Unfound
  BY <1>1 DEF RowsSound, LedgerSound, Behind, Unfound, Done
<1>3. LateCert /\ LateProd
  BY DEF Init, LateCert, LateProd, Side
<1>4. CertJob /\ CertAnswer /\ ProdAnswer
  BY DEF Init, CertJob, CertAnswer, ProdAnswer, IngestIdle, Working, Side
<1>5. Origin /\ Copied /\ Checked /\ Settled
  BY DEF Init, Origin, Copied, Checked, Settled, Nothing, PromoteIdle, Side
<1> QED BY <1>2, <1>3, <1>4, <1>5 DEF LedgerInv, CertInv, ProdInv

LEMMA LedgerInvHolds ==
    ASSUME Undo = FALSE
    PROVE  Spec => [](OrderInv /\ LedgerInv)
<1>1. OrderInv /\ Init => LedgerInv
  BY InitLedgerInv
<1>2. OrderInv' /\ LedgerInv /\ [Next]_vars => LedgerInv'
  <2> SUFFICES ASSUME OrderInv', LedgerInv, [Next]_vars
               PROVE  LedgerInv'
    OBVIOUS
  <2>1. CertJob'
    BY CertJobWorld, CertJobIngest, CertJobPromote DEF Next
  <2>2. CertInv'
    BY <2>1, BehindStep, CertAnswerStep DEF CertInv
  <2>3. ProdInv'
    BY OriginStep, UnfoundStep, LateProdStep, CopiedStep, CheckedStep, ProdAnswerStep,
       SettledStep DEF ProdInv
  <2> QED BY <2>2, <2>3, RowsSoundStep, LedgerStep DEF LedgerInv
<1> QED BY <1>1, <1>2, OrderInvHolds, PTL DEF Spec

\* As long as the organiser takes no listing back, what the ledger calls applied or
\* skipped is on PROD, or something after it, whatever answers get lost and whatever
\* a job takes for its own commit.
THEOREM LedgerNeverLies ==
    ASSUME Undo = FALSE
    PROVE  Spec => []LedgerIsTrue
<1>1. LedgerInv => LedgerIsTrue
  BY DEF LedgerInv, LedgerSound, LedgerIsTrue, Past, Ids
<1> QED BY <1>1, LedgerInvHolds, PTL
-----------------------------------------------------------------------------
(* The gate: what promotes publish is what it let through *)

\* The gate has seen CERT hold a state its checks do not block: no older than the
\* result by listings and by roster, no newer than what promote is to write.
Cleared(listing, result, inputs) ==
    result # None => \E c \in Listing \cup {NoListing}, r \in Roster :
        /\ <<c, r>> \notin Blocked
        /\ result[1] <= c /\ c <= listing
        /\ inputs <= r /\ r <= roster["prod"]

\* CERT's roster is no newer than PROD's, a run's inputs no newer than CERT's.
Revisions == /\ roster["cert"] <= roster["prod"]
             /\ \A i \in 1..latest : runs[i].inputs <= roster["cert"]
             /\ promote.at # "idle" => promote.run.inputs <= roster["cert"]

Between(inputs, filed) == inputs <= filed /\ filed <= roster["prod"]

Passed == /\ promote.at \in {"inputs", "prior", "plan"} =>
                Cleared(source, promote.run.result, promote.run.inputs)
          /\ promote.at \in {"dry run", "applying"} =>
                /\ Cleared(promote.run.listing, promote.run.result, promote.run.inputs)
                /\ Between(promote.run.inputs, promote.filed)
LatePassed == \A q \in late["prod"] : /\ Cleared(q.listing, q.expected, q.inputs)
                                      /\ Between(q.inputs, q.filed)

GateInv == LedgerInv /\ Revisions /\ Passed /\ LatePassed

LEMMA Revised ==
    ASSUME OrderInv
    PROVE  /\ source \in Nat /\ roster \in [Side -> Roster]
           /\ \A r \in Roster : r \in Nat
           /\ roster["cert"] \in Nat /\ roster["prod"] \in Nat
           /\ \A i \in 1..latest : i \in Ids /\ runs[i].inputs \in Nat
           /\ promote.at # "idle" => promote.run.inputs \in Nat
           /\ promote.at \in {"dry run", "applying"} => promote.filed \in Nat
           /\ \A q \in late["prod"] : q.inputs \in Nat /\ q.filed \in Nat
<1>1. Roster \subseteq Nat /\ Listing \subseteq Nat /\ NoListing \in Nat
  BY PromotionAssumption DEF NoListing
<1>2. source \in Nat /\ roster \in [Side -> Roster]
  BY <1>1 DEF OrderInv, HandInv, TypeOK, WorldType
<1>3. \A i \in 1..latest : i \in Ids
  BY Values DEF Ids
<1>4. /\ \A i \in 1..latest : runs[i].inputs \in Roster
      /\ promote.at # "idle" => promote.run.inputs \in Roster
      /\ promote.at \in {"dry run", "applying"} => promote.filed \in Roster
  BY DEF OrderInv, HandInv, Phases
<1>5. \A q \in late["prod"] : q.inputs \in Roster /\ q.filed \in Roster
  BY DEF OrderInv, HandInv, TypeOK, CallsType, Call, Side
<1> QED BY <1>1, <1>2, <1>3, <1>4, <1>5 DEF Side

\* Neither the source nor a roster goes back.
LEMMA WorldMovesOn ==
    ASSUME Undo = FALSE, GateInv, [Next]_vars
    PROVE  /\ source' \in Nat /\ source <= source'
           /\ \A s \in Side : roster'[s] \in Nat /\ roster[s] <= roster'[s]
           /\ roster'["cert"] <= roster'["prod"]
<1>0. /\ OrderInv /\ source \in Nat /\ roster \in [Side -> Roster]
      /\ \A r \in Roster : r \in Nat
      /\ \A l \in Listing : l \in Nat
      /\ roster["cert"] <= roster["prod"]
  BY Revised, PromotionAssumption DEF GateInv, LedgerInv, Revisions
<1>1. CASE UNCHANGED <<source, roster>>
  BY <1>0, <1>1 DEF Side
<1>2. CASE SourceMoves
  BY <1>0, <1>2 DEF SourceMoves, Side
<1>3. CASE Correct
  <2>1. PICK r \in Roster : r > roster["prod"] /\ roster' = [roster EXCEPT !["prod"] = r]
    BY <1>3 DEF Correct
  <2> QED BY <1>0, <1>3, <2>1 DEF Correct, Side
<1>4. CASE Refresh
  BY <1>0, <1>4 DEF Refresh, Side
<1>5. CASE World
  BY <1>1, <1>2, <1>3, <1>5 DEF World, HandWrite, ScheduledDrain, Commit, RollBack, CommitLate
<1>6. CASE Ingest
  BY <1>1, <1>4, <1>6 DEF Ingest, DrainCert, ReadSource, OpenRun, PlanFails, NothingFinal,
     SendCert, SettleIngest, LoseIngestAnswer, IngestDies
<1>7. CASE Promote
  BY <1>1, <1>7 DEF Promote, ReadRun, GateReadsRun, GateChecks, GateInputs, CheckPrior, Plan,
     DryRun, SettlePromote, LosePromoteAnswer, DrainProd, Record, PromoteDies
<1>8. CASE UNCHANGED vars
  BY <1>1, <1>8 DEF vars
<1> QED BY <1>5, <1>6, <1>7, <1>8 DEF Next

\* What was cleared stays so.
LEMMA ClearedStep ==
    ASSUME Undo = FALSE, GateInv, [Next]_vars, NEW result, NEW inputs,
           NEW m \in Nat, NEW n \in Nat, m <= n, Cleared(m, result, inputs)
    PROVE  Cleared(n, result, inputs)'
<1>0. /\ roster["prod"] \in Nat /\ roster'["prod"] \in Nat /\ roster["prod"] <= roster'["prod"]
      /\ \A r \in Roster : r \in Nat
  BY Revised, WorldMovesOn DEF GateInv, LedgerInv, Side
<1>1. ASSUME result # None
      PROVE  \E c \in Listing \cup {NoListing}, r \in Roster :
                /\ <<c, r>> \notin Blocked /\ result[1] <= c /\ c <= n
                /\ inputs <= r /\ r <= roster'["prod"]
  <2>1. PICK c \in Listing \cup {NoListing}, r \in Roster :
           /\ <<c, r>> \notin Blocked /\ result[1] <= c /\ c <= m
           /\ inputs <= r /\ r <= roster["prod"]
    BY <1>1 DEF Cleared
  <2>2. c \in Nat
    BY PromotionAssumption DEF NoListing
  <2>3. c <= n /\ r <= roster'["prod"]
    BY <1>0, <2>1, <2>2
  <2> QED BY <2>1, <2>3
<1> QED BY <1>1 DEF Cleared

LEMMA BetweenStep ==
    ASSUME Undo = FALSE, GateInv, [Next]_vars, NEW inputs \in Nat, NEW filed \in Nat,
           Between(inputs, filed)
    PROVE  Between(inputs, filed)'
<1>1. /\ roster["prod"] \in Nat /\ roster'["prod"] \in Nat /\ roster["prod"] <= roster'["prod"]
  BY Revised, WorldMovesOn DEF GateInv, LedgerInv, Side
<1> QED BY <1>1 DEF Between

LEMMA RevisionsStep ==
    ASSUME Undo = FALSE, GateInv, [Next]_vars
    PROVE  Revisions'
<1>0. /\ OrderInv /\ LedgerInv /\ Revisions /\ latest \in 0..MaxRuns /\ MaxRuns \in Nat
      /\ roster["cert"] \in Nat /\ roster'["cert"] \in Nat /\ roster["cert"] <= roster'["cert"]
      /\ roster'["cert"] <= roster'["prod"]
  BY Revised, WorldMovesOn, Values DEF GateInv, LedgerInv, Side
<1>1. ASSUME NEW i \in 1..latest'
      PROVE  runs'[i].inputs <= roster'["cert"]
  <2>0. ASSUME NEW n \in Nat, n <= roster["cert"]
        PROVE  n <= roster'["cert"]
    BY <1>0, <2>0
  <2>1. i \in 1..latest => runs[i].inputs \in Nat /\ runs[i].inputs <= roster["cert"] /\ i \in Ids
    BY <1>0, Revised DEF Revisions
  <2>2. CASE OpenRun
    <3>1. latest' = latest + 1 /\ (i = latest' \/ i \in 1..latest) /\ roster' = roster
      BY <1>0, <2>2 DEF OpenRun
    <3>2. CASE i = latest'
      BY <1>0, <2>2, <3>1, <3>2, OpenedRow
    <3>3. CASE i \in 1..latest
      <4>1. i # latest'
        BY <1>0, <3>1, <3>3
      <4>2. runs'[i].inputs = runs[i].inputs
        BY <1>0, <2>1, <2>2, <3>3, <4>1, OpenedRow
      <4> QED BY <2>0, <2>1, <3>3, <4>2
    <3> QED BY <3>1, <3>2, <3>3
  <2>3. CASE latest' = latest /\ runs'[i].inputs = runs[i].inputs
    BY <2>0, <2>1, <2>3
  <2>4. CASE PlanFails \/ NothingFinal \/ SettleIngest
    <3>1. PICK status \in {"FINISHED", "FAILED"} : Close(status)
      BY <1>0, <2>4, ClosingStep
    <3>2. latest > 0 /\ latest' = latest
      BY <1>0, <2>4, ClosingStep, WorkingRow
    <3>3. runs'[i].inputs = runs[i].inputs
      BY <1>0, <2>1, <3>1, <3>2, ClosedRow
    <3> QED BY <2>3, <3>2, <3>3
  <2>5. CASE Record
    BY <1>0, <2>1, <2>3, <2>5, RecordedRow DEF Record
  <2>6. CASE World
    BY <2>3, <2>6 DEF World, SourceMoves, Correct, HandWrite, ScheduledDrain, Commit, RollBack,
       CommitLate
  <2>7. CASE Ingest
    BY <2>2, <2>3, <2>4, <2>7 DEF Ingest, Refresh, DrainCert, ReadSource, SendCert,
       LoseIngestAnswer, IngestDies
  <2>8. CASE Promote
    BY <2>3, <2>5, <2>8 DEF Promote, ReadRun, GateReadsRun, GateChecks, GateInputs, CheckPrior,
       Plan, DryRun, SettlePromote, LosePromoteAnswer, DrainProd, PromoteDies
  <2>9. CASE UNCHANGED vars
    BY <2>3, <2>9 DEF vars
  <2> QED BY <2>6, <2>7, <2>8, <2>9 DEF Next
<1>2. ASSUME promote'.at # "idle"
      PROVE  promote'.run.inputs <= roster'["cert"]
  <2>1. CASE promote.at # "idle" /\ promote'.run = promote.run
    <3>1. promote.run.inputs \in Nat /\ promote.run.inputs <= roster["cert"]
      BY <1>0, <2>1, Revised DEF Revisions
    <3> QED BY <1>0, <2>1, <3>1
  <2>2. CASE ReadRun
    <3>1. promote'.run = runs[latest] /\ latest \in 1..latest
      BY <1>0, <2>2 DEF ReadRun, PromoteIdle
    <3>2. runs[latest].inputs \in Nat /\ runs[latest].inputs <= roster["cert"]
      BY <1>0, <3>1, Revised DEF Revisions
    <3> QED BY <1>0, <3>1, <3>2
  <2> QED BY <1>0, <1>2, <2>1, <2>2, PromoteStepKinds
<1> QED BY <1>0, <1>1, <1>2 DEF Revisions

\* The gate clears what it sees on CERT: its run's result is not ahead of it.
LEMMA GateClears ==
    ASSUME Undo = FALSE, GateInv, GateChecks, CertPasses
    PROVE  Cleared(source, promote.run.result, promote.run.inputs)
<1>0. /\ OrderInv /\ LedgerInv /\ Revisions /\ promote.at = "checks"
      /\ source \in Nat /\ roster \in [Side -> Roster]
      /\ roster["cert"] \in Nat /\ roster["prod"] \in Nat
  BY Revised DEF GateInv, LedgerInv, GateChecks
<1>1. <<content["cert"].listing, roster["cert"]>> \notin Blocked
  <2>1. CASE HasResults("cert")
    BY <2>1 DEF CertPasses, Drained
  <2>2. CASE ~HasResults("cert")
    BY <2>2, PromotionAssumption DEF HasResults
  <2> QED BY <2>1, <2>2
<1>2. content["cert"].listing \in Listing \cup {NoListing}
  <2>1. content["cert"] \in Contents /\ content["cert"].listing # ByHand
    BY <1>0, Values DEF OrderInv, HandInv, Foreign, Side
  <2> QED BY <2>1 DEF Contents, Nothing
<1>3. content["cert"].listing <= source
  BY <1>0 DEF OrderInv, HandInv, Foreign, Ordered, SeenContent, Seen, Side
<1>4. ASSUME promote.run.result # None
      PROVE  promote.run.result[1] <= content["cert"].listing
  <2>1. promote.id \in Ids
    <3>1. promote.id \in 1..latest
      BY <1>0 DEF OrderInv, HandInv, Phases
    <3> QED BY <1>0, <3>1, Revised
  <2>2. runs[promote.id].result = promote.run.result /\ Done(promote.id)
    BY <1>0, <1>4 DEF LedgerInv, ProdInv, Copied, Done
  <2> QED BY <1>0, <2>1, <2>2 DEF LedgerInv, CertInv, Behind
<1>5. promote.run.inputs <= roster["cert"] /\ roster["cert"] <= roster["prod"]
      /\ roster["cert"] \in Roster
  BY <1>0 DEF Revisions, Side
<1> QED BY <1>1, <1>2, <1>3, <1>4, <1>5 DEF Cleared

LEMMA PassedStep ==
    ASSUME Undo = FALSE, GateInv, [Next]_vars
    PROVE  Passed'
<1>0. /\ OrderInv /\ PromoteType /\ Passed
      /\ source \in Nat /\ source' \in Nat /\ source <= source'
      /\ promote.run.listing \in Nat
  <2>1. OrderInv /\ PromoteType /\ Passed
    BY DEF GateInv, LedgerInv, OrderInv, HandInv, TypeOK
  <2>2. source \in Nat /\ source' \in Nat /\ source <= source'
    BY <2>1, Revised, WorldMovesOn
  <2> QED BY <2>1, <2>2, Values
<1>f. PICK f : f = promote.run.result
  OBVIOUS
<1>i. PICK n : n = promote.run.inputs
  OBVIOUS
<1>1. ASSUME promote'.run = promote.run, promote'.at \in {"inputs", "prior", "plan"},
             Cleared(source, promote.run.result, promote.run.inputs)
      PROVE  Passed'
  <2>1. PICK m \in Nat : m = source
    BY <1>0
  <2>2. PICK k \in Nat : k = source'
    BY <1>0
  <2>3. Cleared(m, f, n) /\ m <= k
    BY <1>0, <1>1, <1>f, <1>i, <2>1, <2>2
  <2>4. Cleared(k, f, n)'
    BY <2>3, ClearedStep
  <2> QED BY <1>1, <1>f, <1>i, <2>2, <2>4 DEF Passed, Cleared
<1>2. ASSUME promote'.run = promote.run, promote'.filed = promote.filed,
             promote'.at \in {"dry run", "applying"}, promote.at \in {"dry run", "applying"}
      PROVE  Passed'
  <2>1. PICK l \in Nat : l = promote.run.listing
    BY <1>0
  <2>2. PICK m \in Nat : m = promote.filed
    BY <1>0, <1>2, Revised
  <2>3. n \in Nat
    BY <1>0, <1>2, <1>i, Revised
  <2>4. Cleared(l, f, n)'
    <3>1. Cleared(l, f, n)
      BY <1>0, <1>2, <1>f, <1>i, <2>1 DEF Passed
    <3>2. l <= l
      OBVIOUS
    <3> QED BY <3>1, <3>2, ClearedStep
  <2>5. Between(n, m)'
    <3>1. Between(n, m)
      BY <1>0, <1>2, <1>i, <2>2 DEF Passed
    <3> QED BY <2>3, <3>1, BetweenStep
  <2> QED BY <1>2, <1>f, <1>i, <2>1, <2>2, <2>4, <2>5 DEF Passed, Cleared, Between
<1>3. ASSUME promote'.at \notin {"inputs", "prior", "plan", "dry run", "applying"}
      PROVE  Passed'
  BY <1>3 DEF Passed
<1>4. CASE promote' = promote
  BY <1>0, <1>1, <1>2, <1>3, <1>4 DEF Passed
<1>5. CASE World
  BY <1>4, <1>5 DEF World, SourceMoves, Correct, HandWrite, ScheduledDrain, Commit, RollBack,
     CommitLate
<1>6. CASE Ingest
  BY <1>4, <1>6 DEF Ingest, Refresh, DrainCert, ReadSource, OpenRun, PlanFails, NothingFinal,
     SendCert, SettleIngest, LoseIngestAnswer, IngestDies
<1>7. CASE ReadRun \/ Record \/ PromoteDies
  <2>1. ReadRun => promote'.at = "gate"
    BY DEF ReadRun, PromoteIdle
  <2>2. Record \/ PromoteDies => promote'.at = "idle"
    BY DEF Record, PromoteDies, PromoteIdle
  <2> QED BY <1>3, <1>7, <2>1, <2>2
<1>8. CASE GateReadsRun \/ SettlePromote \/ LosePromoteAnswer \/ DrainProd
  <2>1. promote'.at \in {"checks", "drain", "refused", "unanswered", "record"}
    BY <1>0, <1>8 DEF PromoteType, GateReadsRun, SettlePromote, LosePromoteAnswer, DrainProd, Goes
  <2> QED BY <1>3, <2>1
<1>9. CASE GateChecks
  <2>1. promote'.run = promote.run /\ promote'.at = IF CertPasses THEN "inputs" ELSE "refused"
    BY <1>0, <1>9 DEF PromoteType, GateChecks, Goes
  <2> QED BY <1>1, <1>3, <1>9, <2>1, GateClears
<1>10. CASE GateInputs \/ CheckPrior
  <2>1. promote'.run = promote.run /\ promote'.at \in {"prior", "plan", "refused"}
        /\ promote.at \in {"inputs", "prior"}
    BY <1>0, <1>10 DEF PromoteType, GateInputs, CheckPrior, Goes
  <2> QED BY <1>0, <1>1, <1>3, <2>1 DEF Passed
<1>11. CASE Plan
  <2>1. /\ promote'.run = promote.run /\ promote.at = "plan" /\ promote'.filed = roster["prod"]
        /\ promote'.at \in {"dry run", "refused"} /\ UNCHANGED <<source, roster>>
        /\ promote'.at = "dry run" => source = promote.run.listing
    BY <1>0, <1>11 DEF PromoteType, Plan, Goes, SourceUnchanged
  <2>2. Cleared(source, f, n)
    BY <1>0, <1>f, <1>i, <2>1 DEF Passed
  <2>3. Between(n, roster["prod"])
    <3>1. n <= roster["cert"] /\ roster["cert"] <= roster["prod"] /\ n \in Nat
      BY <1>i, <2>1, Revised DEF GateInv, LedgerInv, Revisions
    <3>2. roster["cert"] \in Nat /\ roster["prod"] \in Nat
      BY <1>0, Revised
    <3> QED BY <3>1, <3>2 DEF Between
  <2> QED BY <1>3, <1>f, <1>i, <2>1, <2>2, <2>3 DEF Passed, Cleared, Between
<1>12. CASE DryRun
  <2>1. promote'.run = promote.run /\ promote'.filed = promote.filed
        /\ promote'.at \in {"applying", "refused"} /\ promote.at = "dry run"
    BY <1>0, <1>12 DEF PromoteType, DryRun, Goes
  <2> QED BY <1>2, <1>3, <2>1
<1>13. CASE UNCHANGED vars
  BY <1>4, <1>13 DEF vars
<1> QED
  BY <1>5, <1>6, <1>7, <1>8, <1>9, <1>10, <1>11, <1>12, <1>13 DEF Next, Promote

LEMMA RequestIsCleared ==
    ASSUME GateInv, Waiting("prod")
    PROVE  LET q == Request("prod")
           IN  Cleared(q.listing, q.expected, q.inputs) /\ Between(q.inputs, q.filed)
BY DEF GateInv, Passed, Waiting, Request

LEMMA LatePassedStep ==
    ASSUME Undo = FALSE, GateInv, [Next]_vars
    PROVE  LatePassed'
<1> SUFFICES ASSUME NEW q \in late'["prod"]
             PROVE  Cleared(q.listing, q.expected, q.inputs)' /\ Between(q.inputs, q.filed)'
  BY DEF LatePassed
<1>0. LedgerInv /\ OrderInv
  BY DEF GateInv, LedgerInv
<1>1. q \in late["prod"] \/ (Waiting("prod") /\ q = Request("prod"))
  BY <1>0, LateStep DEF Side
<1>2. Cleared(q.listing, q.expected, q.inputs) /\ Between(q.inputs, q.filed)
  BY <1>1, RequestIsCleared DEF GateInv, LatePassed
<1>3. q.listing \in Nat /\ q.inputs \in Nat /\ q.filed \in Nat
  <2>1. CASE q \in late["prod"]
    <3>1. q.listing \in Nat
      BY <1>0, <2>1, Values DEF Side
    <3> QED BY <1>0, <2>1, <3>1, Revised
  <2>2. CASE Waiting("prod") /\ q = Request("prod")
    <3>1. promote.at = "applying" /\ q.listing = promote.run.listing
          /\ q.inputs = promote.run.inputs /\ q.filed = promote.filed
      BY <2>2 DEF Waiting, Request
    <3>2. promote.run.listing \in Nat
      BY <1>0, Values
    <3> QED BY <1>0, <3>1, <3>2, Revised
  <2> QED BY <1>1, <2>1, <2>2
<1>4. q.listing <= q.listing
  BY <1>3
<1> QED BY <1>2, <1>3, <1>4, ClearedStep, BetweenStep

LEMMA GateInvHolds ==
    ASSUME Undo = FALSE
    PROVE  Spec => []GateInv
<1>1. Init /\ LedgerInv => GateInv
  <2> SUFFICES ASSUME Init, LedgerInv
               PROVE  GateInv
    OBVIOUS
  <2>1. roster["cert"] = roster["prod"] /\ roster["cert"] \in Nat
    BY Revised DEF Init, LedgerInv, Side
  <2>2. Revisions
    BY <2>1 DEF Init, Revisions, PromoteIdle
  <2>3. Passed /\ LatePassed
    BY DEF Init, Passed, LatePassed, PromoteIdle, Side
  <2> QED BY <2>2, <2>3 DEF GateInv
<1>2. GateInv /\ LedgerInv' /\ [Next]_vars => GateInv'
  BY RevisionsStep, PassedStep, LatePassedStep DEF GateInv
<1> QED BY <1>1, <1>2, LedgerInvHolds, PTL DEF Spec

\* What an apply puts on PROD was cleared, as the inputs it insists on are PROD's own.
LEMMA AppliedIsCleared ==
    ASSUME GateInv, NEW q, Cleared(q.listing, q.expected, q.inputs), Between(q.inputs, q.filed),
           OfARun(q), q.filed \in Nat, q.inputs \in Nat,
           Skips("prod", q) \/ Accepts("prod", q),
           content' = [content EXCEPT !["prod"] = Stored("prod", q)]
    PROVE  \/ content'["prod"] = content["prod"]
           \/ /\ content'["prod"] = [listing |-> q.listing, filed |-> roster["prod"]]
              /\ <<q.listing, roster["prod"]>> \notin Blocked
<1>0. /\ OrderInv /\ content \in [Side -> Contents] /\ q.listing \in Nat
      /\ q.expected # None /\ roster["prod"] \in Nat
  BY Values, Revised DEF GateInv, LedgerInv, OfARun, Done
<1>1. CASE Skips("prod", q)
  BY <1>0, <1>1 DEF Stored, Side
<1>2. CASE ~Skips("prod", q)
  <2>1. content'["prod"] = [listing |-> q.listing, filed |-> q.filed]
    BY <1>0, <1>2 DEF Stored, Side
  <2>2. q.expected[1] = q.listing /\ q.inputs = roster["prod"]
    BY <1>0, <1>2 DEF Accepts, Fingerprint
  <2>3. PICK c \in Listing \cup {NoListing}, r \in Roster :
           /\ <<c, r>> \notin Blocked /\ q.expected[1] <= c /\ c <= q.listing
           /\ q.inputs <= r /\ r <= roster["prod"]
    BY <1>0 DEF Cleared
  <2>4. c \in Nat /\ r \in Nat
    BY PromotionAssumption DEF NoListing
  <2>5. c = q.listing /\ r = roster["prod"]
    BY <1>0, <2>2, <2>3, <2>4
  <2>6. q.filed = roster["prod"]
    BY <1>0, <2>2 DEF Between
  <2> QED BY <2>1, <2>3, <2>5, <2>6
<1> QED BY <1>1, <1>2
-----------------------------------------------------------------------------
(* The refinement: on PROD, Promotion is a Publication *)

LEMMA AppliedIsPublished ==
    ASSUME GateInv, [Next]_vars, UNCHANGED <<source, roster, runs>>,
           NEW q \in Call, Seen(q.listing), OfARun(q),
           Cleared(q.listing, q.expected, q.inputs), Between(q.inputs, q.filed),
           Skips("prod", q) \/ Accepts("prod", q),
           content' = [content EXCEPT !["prod"] = Stored("prod", q)]
    PROVE  [Publishing!Next]_(Publishing!vars)
<1>0. /\ OrderInv /\ HandInv
      /\ q.listing \in Listing /\ q.filed \in Roster /\ q.inputs \in Roster
      /\ \A n \in Listing \cup Roster : n \in Nat /\ n # ByHand
      /\ Announced' = Announced
  BY PromotionAssumption DEF GateInv, LedgerInv, OrderInv, Call, Announced
<1>1. CASE content'["prod"] = content["prod"]
  BY <1>0, <1>1 DEF Publishing!vars
<1>2. CASE /\ content'["prod"] = [listing |-> q.listing, filed |-> roster["prod"]]
           /\ <<q.listing, roster["prod"]>> \notin Blocked
  <2>1. content'["prod"].listing # ByHand
    BY <1>0, <1>2
  <2>2. content["prod"].listing # ByHand
    BY <1>0, <2>1, ByHandStays
  <2>3. content["prod"].listing <= q.listing
    <3>1. content'["prod"].listing >= content["prod"].listing /\ content["prod"].listing \in Nat
      BY <1>0, <2>1, <2>2, NoStepGoesBack, Values
    <3> QED BY <1>0, <1>2, <3>1
  <2>4. Publishing!Publish(q.listing)
    BY <1>0, <1>2, <2>2, <2>3 DEF Publishing!Publish, Seen
  <2> QED BY <1>0, <2>4 DEF Publishing!Next
<1> QED BY <1>0, <1>1, <1>2, AppliedIsCleared

LEMMA RefiledIsARefile ==
    ASSUME GateInv, NEW s \in Side, Refile(s), UNCHANGED <<source, roster, runs>>
    PROVE  [Publishing!Next]_(Publishing!vars)
<1>0. content \in [Side -> Contents] /\ Announced' = Announced
  BY Values DEF GateInv, LedgerInv, OrderInv, Announced
<1>1. CASE s = "prod" /\ HasResults("prod")
  <2>1. content'["prod"] = [content["prod"] EXCEPT !.filed = roster["prod"]]
    BY <1>0, <1>1 DEF Refile, Side
  <2>2. Publishing!Refile
    BY <1>0, <1>1, <2>1 DEF Publishing!Refile, Publishing!NoListing, HasResults, NoListing
  <2> QED BY <2>2 DEF Publishing!Next
<1>2. CASE ~(s = "prod" /\ HasResults("prod"))
  <2>1. content'["prod"] = content["prod"]
    BY <1>0, <1>2 DEF Refile, Side
  <2> QED BY <1>0, <2>1 DEF Publishing!vars
<1> QED BY <1>1, <1>2

\* A step on the rows announces at most the listings promote has seen arrive.
LEMMA RowsAnnounce ==
    ASSUME GateInv, [Next]_vars, UNCHANGED <<source, roster, content>>
    PROVE  [Publishing!Next]_(Publishing!vars)
<1>0. LedgerInv /\ OrderInv
  BY DEF GateInv, LedgerInv
<1>1. ASSUME NEW i \in Ids, runs'[i].ledger \in {"applied", "skipped"}
      PROVE  /\ runs'[i].listing = runs[i].listing
             /\ runs[i].ledger \in {"applied", "skipped"} \/ Past(runs[i].listing)
  <2>1. Done(i) /\ (runs[i].ledger \in {"applied", "skipped"} \/ Past(runs[i].listing))
    <3>1. CASE runs'[i].ledger = runs[i].ledger
      BY <1>0, <1>1, <3>1 DEF LedgerInv, LedgerSound
    <3>2. CASE i = promote.id /\ promote.at = "record"
      BY <1>0, <3>2 DEF LedgerInv, ProdInv, Copied, Checked, Settled, Done
    <3> QED BY <1>0, <1>1, <3>1, <3>2, RowsStep
  <2> QED BY <1>0, <2>1, RowsStep
<1>2. ASSUME NEW l \in Announced'
      PROVE  l \in Announced \cup {n \in 0..source : Publishing!Past(n)}
  <2>1. PICK i \in Ids : runs'[i].ledger \in {"applied", "skipped"} /\ l = runs'[i].listing
    BY <1>2 DEF Announced, Ids
  <2>2. l = runs[i].listing
        /\ (runs[i].ledger \in {"applied", "skipped"} \/ Past(runs[i].listing))
    BY <1>1, <2>1
  <2>3. l \in 0..source
    <3>1. Seen(l) /\ source \in Nat
      BY <1>0, <2>2, Revised DEF OrderInv, Ordered, SeenRuns, Ids
    <3> QED BY <3>1 DEF Seen
  <2> QED BY <2>2, <2>3 DEF Announced, Past, Publishing!Past, Ids
<1>3. Publishing!Announce
  BY <1>2 DEF Publishing!Announce
<1> QED BY <1>3 DEF Publishing!Next

LEMMA PublicationStep ==
    ASSUME Undo = FALSE, GateInv, [Next]_vars
    PROVE  [Publishing!Next]_(Publishing!vars)
<1>0. /\ LedgerInv /\ OrderInv /\ TypeOK /\ content \in [Side -> Contents]
      /\ roster \in [Side -> Roster]
  BY Values, Revised DEF GateInv, LedgerInv, OrderInv, HandInv
<1>1. ASSUME NEW s \in Side, Refile(s), UNCHANGED <<source, roster, runs>>
      PROVE  [Publishing!Next]_(Publishing!vars)
  BY <1>1, RefiledIsARefile
<1>2. CASE UNCHANGED <<source, roster, content>>
  BY <1>2, RowsAnnounce
<1>3. CASE UNCHANGED <<source, roster["prod"], content["prod"], runs>>
  BY <1>3 DEF Publishing!vars, Announced
<1>4. ASSUME NEW s \in Side, Commit(s)
      PROVE  [Publishing!Next]_(Publishing!vars)
  <2>1. CASE s = "prod"
    <3>1. PICK q : q = Request("prod")
      OBVIOUS
    <3>2. /\ Waiting("prod") /\ UNCHANGED <<source, roster, runs>>
          /\ Skips("prod", q) \/ Accepts("prod", q)
          /\ content' = [content EXCEPT !["prod"] = Stored("prod", q)]
      BY <1>4, <2>1, <3>1 DEF Commit
    <3>3. q \in Call /\ Seen(q.listing)
      BY <1>0, <3>1, <3>2, RequestIsCall, RequestIsSeen DEF OrderInv, HandInv, Side
    <3>4. OfARun(q) /\ Cleared(q.listing, q.expected, q.inputs) /\ Between(q.inputs, q.filed)
      BY <1>0, <3>1, <3>2, ProdRequest, RequestIsCleared
    <3> QED BY <3>2, <3>3, <3>4, AppliedIsPublished
  <2>2. CASE s = "cert"
    BY <1>0, <1>3, <1>4, <2>2 DEF Commit, Side
  <2> QED BY <2>1, <2>2 DEF Side
<1>5. ASSUME NEW s \in Side, CommitLate(s)
      PROVE  [Publishing!Next]_(Publishing!vars)
  <2>1. CASE s = "prod" /\ content' # content
    <3>1. PICK q \in late["prod"] :
             /\ Skips("prod", q) \/ Accepts("prod", q)
             /\ content' = [content EXCEPT !["prod"] = Stored("prod", q)]
      BY <1>5, <2>1 DEF CommitLate
    <3>2. UNCHANGED <<source, roster, runs>>
      BY <1>5 DEF CommitLate
    <3>3. q \in Call /\ Seen(q.listing)
      BY <1>0, <3>1 DEF TypeOK, CallsType, OrderInv, Ordered, SeenCalls, Side
    <3>4. OfARun(q) /\ Cleared(q.listing, q.expected, q.inputs) /\ Between(q.inputs, q.filed)
      BY <1>0, <3>1 DEF GateInv, LatePassed, LedgerInv, ProdInv, LateProd
    <3> QED BY <3>1, <3>2, <3>3, <3>4, AppliedIsPublished
  <2>2. CASE content' = content
    BY <1>2, <1>5, <2>2 DEF CommitLate
  <2>3. CASE s = "cert"
    BY <1>0, <1>3, <1>5, <2>3 DEF CommitLate, Side
  <2> QED BY <2>1, <2>2, <2>3 DEF Side
<1>6. CASE HandWrite
  <2>1. Publishing!HandWrite
    BY <1>0, <1>6 DEF HandWrite, Publishing!HandWrite, Announced, Side
  <2> QED BY <2>1 DEF Publishing!Next
<1>7. CASE SourceMoves
  <2>1. Publishing!SourceMoves
    BY <1>7 DEF SourceMoves, Publishing!SourceMoves, Announced
  <2> QED BY <2>1 DEF Publishing!Next
<1>8. CASE Correct
  <2>1. Publishing!Correct
    BY <1>0, <1>8 DEF Correct, Publishing!Correct, Announced, Side
  <2> QED BY <2>1 DEF Publishing!Next
<1>9. CASE Refresh
  BY <1>0, <1>3, <1>9 DEF Refresh, Side
<1>10. CASE World
  BY <1>1, <1>2, <1>4, <1>5, <1>6, <1>7, <1>8, <1>10 DEF World, ScheduledDrain, RollBack, Side
<1>11. CASE Ingest
  BY <1>1, <1>2, <1>9, <1>11 DEF Ingest, DrainCert, ReadSource, OpenRun, PlanFails,
     NothingFinal, SendCert, SettleIngest, LoseIngestAnswer, IngestDies, Side
<1>12. CASE Promote
  BY <1>1, <1>2, <1>12 DEF Promote, ReadRun, GateReadsRun, GateChecks, GateInputs, CheckPrior,
     Plan, DryRun, SettlePromote, LosePromoteAnswer, DrainProd, Record, PromoteDies, Side
<1>13. CASE UNCHANGED vars
  BY <1>2, <1>13 DEF vars
<1> QED BY <1>10, <1>11, <1>12, <1>13 DEF Next

\* As long as no listing and no correction is taken back, what a promote puts on PROD
\* is a result the gate's checks do not block, however far the run it applies, the
\* run the gate reads and CERT have moved apart.
THEOREM OnlyClearedIsPublished ==
    ASSUME Undo = FALSE
    PROVE  Spec => OnlyPassedIsPublished
<1> DEFINE Fit == \/ content'["prod"].listing \in {content["prod"].listing, ByHand}
                  \/ <<content'["prod"].listing, content'["prod"].filed>> \notin Blocked
<1>1. GateInv /\ [Next]_vars => Fit
  <2> SUFFICES ASSUME GateInv, [Next]_vars
               PROVE  Fit
    OBVIOUS
  <2>1. CASE Publishing!HandWrite
    BY <2>1 DEF Publishing!HandWrite
  <2>2. CASE Publishing!Refile
    <3>1. content["prod"] \in Contents
      BY Values DEF GateInv, LedgerInv, Side
    <3> QED BY <2>2, <3>1 DEF Publishing!Refile, Contents, Nothing
  <2>3. ASSUME NEW l \in Listing, Publishing!Publish(l)
        PROVE  Fit
    BY <2>3 DEF Publishing!Publish
  <2>4. CASE content'["prod"] = content["prod"]
    BY <2>4
  <2> QED BY <2>1, <2>2, <2>3, <2>4, PublicationStep DEF Publishing!Next, Publishing!vars,
             Publishing!SourceMoves, Publishing!Correct, Publishing!Announce
<1> QED BY <1>1, GateInvHolds, PTL DEF Spec, OnlyPassedIsPublished

\* On PROD, ingests, promotes, runs, lost and late calls implement Publication: an
\* event's results are published whole, forward, as the gate let them through and filed
\* by the participants of that moment; the ledger announces no more than PROD has shown.
THEOREM PromotionPublishes ==
    ASSUME Undo = FALSE
    PROVE  Spec => IsPublication
<1>1. Init => Publishing!Init
  BY DEF Init, Publishing!Init, Publishing!NoListing, NoListing, Nothing, Announced, NoRun, Side
<1>2. GateInv /\ [Next]_vars => [Publishing!Next]_(Publishing!vars)
  BY PublicationStep
<1> QED BY <1>1, <1>2, GateInvHolds, PTL DEF Spec, Publishing!Spec, IsPublication
=============================================================================
