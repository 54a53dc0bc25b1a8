--------------------------- MODULE PromotionProofs ---------------------------
(***************************************************************************)
(* What is proved of Promotion for every instance: its types; that no       *)
(* promote overwrites results on PROD that no run produced; and, where       *)
(* corrections are not taken back, that PROD never goes back to older       *)
(* listings.                                                               *)
(***************************************************************************)
EXTENDS Promotion, TLAPS

Contents == [listing : Listing \cup {ByHand}, filed : Roster] \cup {Nothing}

\* What each job knows at each step of its way.
Phases ==
    /\ \A i \in 1..latest : runs[i].inputs \in Roster
    /\ ingest.at \in {"refreshed", "drained", "read"} => latest < MaxRuns
    /\ ingest.at \in {"open", "applying", "unanswered", "closed"} => latest > 0
    /\ ingest.at = "applying" => ingest.read \in Listing
    /\ promote.at # "idle" => promote.id \in 1..latest /\ promote.run.inputs \in Roster
    /\ promote.at \in {"dry run", "applying"} =>
          promote.run.listing \in Listing /\ promote.filed \in Roster

\* A fingerprint that is not of results somebody else wrote.
OfRuns(f) == f = None \/ f[1] # ByHand

\* No fingerprint the jobs compare PROD with is of results somebody else wrote.
Foreign ==
    /\ content["cert"].listing # ByHand
    /\ \A i \in 1..MaxRuns : OfRuns(runs[i].prior) /\ OfRuns(runs[i].result)
    /\ OfRuns(promote.run.prior)
    /\ promote.at \in {"plan", "dry run", "applying"} => OfRuns(promote.prior)
    /\ \A q \in late["prod"] : OfRuns(q.prior)

HandInv == TypeOK /\ Phases /\ Foreign
-----------------------------------------------------------------------------
(* The operators the two jobs share *)

\* A fingerprint of what a database holds is a fingerprint of a result, and names
\* its listing.
LEMMA HeldIsResult ==
    ASSUME TypeOK, NEW s \in Side
    PROVE  Held(s) \in Result /\ Held(s)[1] = content[s].listing
<1>1. content[s] \in Contents /\ roster[s] \in Roster
  BY DEF TypeOK, WorldType, ContentType, Contents
<1>2. content[s].listing \in Listing \cup {NoListing, ByHand}
      /\ content[s].filed \in Roster \cup {NoListing}
  BY <1>1 DEF Contents, Nothing
<1> QED
  BY <1>1, <1>2 DEF Held, Fingerprint, Result

\* A job that applies sends a whole call, and promote's names no foreign prior.
LEMMA RequestIsCall ==
    ASSUME TypeOK, Phases, Foreign, NEW s \in Side, Waiting(s)
    PROVE  Request(s) \in Call /\ (s = "prod" => OfRuns(Request(s).prior))
<1>1. CASE s = "cert"
  <2>1. ingest.at = "applying"
    BY <1>1 DEF Waiting
  <2>2. latest \in 1..MaxRuns /\ ingest.read \in Listing
    <3>1. latest \in 0..MaxRuns
      BY DEF TypeOK, RunsType, IngestType
    <3>2. latest > 0 /\ ingest.read \in Listing
      BY <2>1 DEF Phases
    <3> QED
      BY <3>1, <3>2, PromotionAssumption
  <2>3. runs[latest] \in Row /\ runs[latest].inputs \in Roster
    <3>1. runs \in [1..MaxRuns -> Row] /\ MaxRuns \in Nat
      BY PromotionAssumption DEF TypeOK, RunsType, IngestType
    <3>2. latest \in 1..latest
      BY <2>2, <3>1
    <3> QED
      BY <2>2, <3>1, <3>2 DEF Phases
  <2> QED
    BY <1>1, <2>2, <2>3 DEF Request, Call, Row
<1>2. CASE s = "prod"
  <2>1. promote.run \in Row /\ promote.run.inputs \in Roster /\ promote.filed \in Roster
        /\ promote.run.listing \in Listing /\ promote.prior \in Result \cup {None}
        /\ OfRuns(promote.prior)
    BY <1>2 DEF TypeOK, PromoteType, Phases, Foreign, Waiting
  <2> QED
    BY <1>2, <2>1 DEF Request, Call, Row
<1> QED
  BY <1>1, <1>2 DEF Side

\* An apply leaves the results of a listing, never results of nobody's run.
LEMMA AppliedIsOfAListing ==
    ASSUME TypeOK, NEW s \in Side, NEW q \in Call,
           content' = [content EXCEPT ![s] = Stored(s, q)]
    PROVE  /\ content' \in [Side -> Contents]
           /\ content["cert"].listing # ByHand => content'["cert"].listing # ByHand
<1>1. content \in [Side -> Contents]
  BY DEF TypeOK, WorldType, ContentType, Contents
<1>2. q.listing \in Listing /\ q.filed \in Roster /\ q.listing # ByHand
  BY PromotionAssumption DEF Call
<1>3. Stored(s, q) \in Contents
      /\ (content[s].listing # ByHand => Stored(s, q).listing # ByHand)
  BY <1>1, <1>2 DEF Stored, Contents
<1> QED
  BY <1>1, <1>3 DEF Side

\* A recompute files the same listings anew.
LEMMA RefiledKeepsListings ==
    ASSUME TypeOK, NEW s \in Side, Refile(s)
    PROVE  /\ content' \in [Side -> Contents]
           /\ \A t \in Side : content'[t].listing = content[t].listing
<1>1. content \in [Side -> Contents] /\ roster[s] \in Roster
  BY DEF TypeOK, WorldType, ContentType, Contents
<1>2. CASE HasResults(s)
  <2>1. content[s] \in [listing : Listing \cup {ByHand}, filed : Roster]
    BY <1>1, <1>2 DEF HasResults, Contents, Nothing
  <2>2. content' = [content EXCEPT ![s] = [content[s] EXCEPT !.filed = roster[s]]]
    BY <1>2 DEF Refile
  <2> QED
    BY <1>1, <2>1, <2>2 DEF Contents
<1>3. CASE ~HasResults(s)
  BY <1>1, <1>3 DEF Refile
<1> QED
  BY <1>2, <1>3

\* Closing a run keeps its inputs and its prior; its result is what CERT holds.
LEMMA ClosedIsARow ==
    ASSUME TypeOK, Phases, Foreign, latest > 0,
           NEW status \in {"FINISHED", "FAILED"}, Close(status)
    PROVE  /\ runs' \in [1..MaxRuns -> Row]
           /\ \A i \in 1..latest : runs'[i].inputs \in Roster
           /\ \A i \in 1..MaxRuns : OfRuns(runs'[i].prior) /\ OfRuns(runs'[i].result)
<1>1. latest \in 1..MaxRuns /\ MaxRuns \in Nat
  <2>1. latest \in 0..MaxRuns
    BY DEF TypeOK, RunsType, IngestType
  <2> QED
    BY <2>1, PromotionAssumption
<1>2. runs \in [1..MaxRuns -> Row] /\ ingest.read \in Listing \cup {NoListing}
  BY DEF TypeOK, RunsType, IngestType
<1>3. Held("cert") \in Result /\ OfRuns(Held("cert"))
  BY HeldIsResult DEF Side, Foreign, OfRuns
<1> DEFINE f == IF status = "FINISHED" THEN Held("cert") ELSE None
           c == [runs[latest] EXCEPT !.status = status, !.listing = ingest.read, !.result = f]
<1>4. f \in Result \cup {None} /\ OfRuns(f)
  BY <1>3 DEF OfRuns
<1>5. c \in Row /\ c.inputs = runs[latest].inputs /\ c.prior = runs[latest].prior /\ c.result = f
  <2>1. runs[latest] \in Row
    BY <1>1, <1>2
  <2> HIDE DEF f
  <2>2. PICK r \in Row : r = runs[latest]
    BY <2>1
  <2>3. c = [r EXCEPT !.status = status, !.listing = ingest.read, !.result = f]
    BY <2>2, Zenon
  <2> HIDE DEF c
  <2>4. c \in Row /\ c.inputs = r.inputs /\ c.prior = r.prior /\ c.result = f
    BY <1>2, <1>4, <2>3 DEF Row
  <2> QED
    BY <2>2, <2>4
<1>6. runs' = [runs EXCEPT ![latest] = c]
  BY DEF Close
<1> HIDE DEF f, c
<1>7. runs' \in [1..MaxRuns -> Row]
  BY <1>1, <1>2, <1>5, <1>6
<1>8. \A i \in 1..MaxRuns : runs'[i] = IF i = latest THEN c ELSE runs[i]
  BY <1>1, <1>2, <1>6
<1>9. \A i \in 1..latest : runs'[i].inputs = runs[i].inputs
  BY <1>1, <1>5, <1>8
<1>10. \A i \in 1..MaxRuns : OfRuns(runs'[i].prior) /\ OfRuns(runs'[i].result)
  BY <1>4, <1>5, <1>8 DEF Foreign
<1> QED
  BY <1>7, <1>9, <1>10 DEF Phases
-----------------------------------------------------------------------------
(* Every step keeps HandInv *)

\* What a step leaves alone keeps its type.
LEMMA Frame ==
    ASSUME TypeOK
    PROVE  /\ UNCHANGED <<source, roster>> => WorldType'
           /\ UNCHANGED bounds => BoundsType'
           /\ UNCHANGED content => ContentType'
           /\ UNCHANGED <<runs, latest>> => RunsType'
           /\ UNCHANGED <<answer, late>> => CallsType'
           /\ UNCHANGED ingest => IngestType'
           /\ UNCHANGED promote => PromoteType'
<1>1. UNCHANGED <<source, roster>> => WorldType'
  BY DEF TypeOK, WorldType
<1>2. UNCHANGED bounds => BoundsType'
  BY DEF TypeOK, BoundsType, bounds
<1>3. UNCHANGED content => ContentType'
  BY DEF TypeOK, ContentType
<1>4. UNCHANGED <<runs, latest>> => RunsType'
  BY DEF TypeOK, RunsType
<1>5. UNCHANGED <<answer, late>> => CallsType'
  BY DEF TypeOK, CallsType
<1>6. UNCHANGED ingest => IngestType'
  BY DEF TypeOK, IngestType
<1>7. UNCHANGED promote => PromoteType'
  BY DEF TypeOK, PromoteType
<1> QED
  BY <1>1, <1>2, <1>3, <1>4, <1>5, <1>6, <1>7

\* The source, the roster, foreign writes, drains and the database's applies.
LEMMA WorldStep ==
    ASSUME HandInv, World
    PROVE  HandInv'
<1>0. TypeOK /\ Phases /\ Foreign
  BY DEF HandInv
<1>1. CASE SourceMoves
  <2>1. WorldType'
    BY <1>0, <1>1 DEF TypeOK, WorldType, SourceMoves
  <2>2. TypeOK'
    BY <1>0, <1>1, <2>1, Frame DEF TypeOK, SourceMoves
  <2>3. Phases'
    BY <1>0, <1>1 DEF Phases, SourceMoves
  <2>4. Foreign'
    BY <1>0, <1>1 DEF Foreign, SourceMoves
  <2> QED
    BY <2>2, <2>3, <2>4 DEF HandInv
<1>2. CASE Correct
  <2>1. WorldType'
    BY <1>0, <1>2 DEF TypeOK, WorldType, Correct, Side
  <2>2. TypeOK'
    BY <1>0, <1>2, <2>1, Frame DEF TypeOK, Correct
  <2>3. Phases'
    BY <1>0, <1>2 DEF Phases, Correct
  <2>4. Foreign'
    BY <1>0, <1>2 DEF Foreign, Correct
  <2> QED
    BY <2>2, <2>3, <2>4 DEF HandInv
<1>3. CASE HandWrite
  <2>1. ContentType'
    BY <1>0, <1>3 DEF TypeOK, ContentType, HandWrite, WorldType, Side
  <2>2. BoundsType'
    BY <1>0, <1>3, PromotionAssumption DEF TypeOK, BoundsType, HandWrite
  <2>3. TypeOK'
    BY <1>0, <1>3, <2>1, <2>2, Frame DEF TypeOK, HandWrite
  <2>4. Phases'
    BY <1>0, <1>3 DEF Phases, HandWrite
  <2>5. Foreign'
    BY <1>0, <1>3 DEF Foreign, HandWrite, TypeOK, ContentType, Side
  <2> QED
    BY <2>3, <2>4, <2>5 DEF HandInv
<1>4. ASSUME NEW s \in Side, Refile(s),
             UNCHANGED <<source, roster, runs, latest, ingest, promote, answer, late, bounds>>
      PROVE  HandInv'
  <2>1. content' \in [Side -> Contents] /\ content'["cert"].listing = content["cert"].listing
    BY <1>0, <1>4, RefiledKeepsListings DEF Side
  <2>2. TypeOK'
    BY <1>0, <1>4, <2>1, Frame DEF TypeOK, ContentType, Contents
  <2>3. Phases'
    BY <1>0, <1>4 DEF Phases
  <2>4. Foreign'
    BY <1>0, <1>4, <2>1 DEF Foreign
  <2> QED
    BY <2>2, <2>3, <2>4 DEF HandInv
<1>5. ASSUME NEW s \in Side, Commit(s)
      PROVE  HandInv'
  <2>1. Request(s) \in Call
    BY <1>0, <1>5, RequestIsCall DEF Commit
  <2>2. /\ content' \in [Side -> Contents]
        /\ content["cert"].listing # ByHand => content'["cert"].listing # ByHand
    BY <1>0, <1>5, <2>1, AppliedIsOfAListing DEF Commit
  <2>3. CallsType'
    BY <1>0, <1>5 DEF TypeOK, CallsType, Commit
  <2>4. TypeOK'
    BY <1>0, <1>5, <2>2, <2>3, Frame DEF TypeOK, ContentType, Contents, Commit
  <2>5. Phases'
    BY <1>0, <1>5 DEF Phases, Commit
  <2>6. Foreign'
    BY <1>0, <1>5, <2>2 DEF Foreign, Commit
  <2> QED
    BY <2>4, <2>5, <2>6 DEF HandInv
<1>6. ASSUME NEW s \in Side, RollBack(s)
      PROVE  HandInv'
  <2>1. CallsType'
    BY <1>0, <1>6 DEF TypeOK, CallsType, RollBack
  <2>2. TypeOK'
    BY <1>0, <1>6, <2>1, Frame DEF TypeOK, RollBack
  <2>3. Phases'
    BY <1>0, <1>6 DEF Phases, RollBack
  <2>4. Foreign'
    BY <1>0, <1>6 DEF Foreign, RollBack
  <2> QED
    BY <2>2, <2>3, <2>4 DEF HandInv
<1>7. ASSUME NEW s \in Side, CommitLate(s)
      PROVE  HandInv'
  <2>1. PICK q \in late[s] :
           /\ late' = [late EXCEPT ![s] = @ \ {q}]
           /\ content' = content \/ content' = [content EXCEPT ![s] = Stored(s, q)]
    BY <1>7 DEF CommitLate
  <2>2. q \in Call /\ late \in [Side -> SUBSET Call]
    BY <1>0, <2>1 DEF TypeOK, CallsType
  <2>3. /\ content' \in [Side -> Contents]
        /\ content["cert"].listing # ByHand => content'["cert"].listing # ByHand
    <3>1. CASE content' = content
      BY <1>0, <3>1 DEF TypeOK, ContentType, Contents
    <3>2. CASE content' = [content EXCEPT ![s] = Stored(s, q)]
      BY <1>0, <2>2, <3>2, AppliedIsOfAListing
    <3> QED
      BY <2>1, <3>1, <3>2
  <2>4. late' \in [Side -> SUBSET Call] /\ late'["prod"] \subseteq late["prod"]
    BY <2>1, <2>2 DEF Side
  <2>5. CallsType'
    BY <1>0, <1>7, <2>4 DEF TypeOK, CallsType, CommitLate
  <2>6. TypeOK'
    BY <1>0, <1>7, <2>3, <2>5, Frame DEF TypeOK, ContentType, Contents, CommitLate
  <2>7. Phases'
    BY <1>0, <1>7 DEF Phases, CommitLate
  <2>8. Foreign'
    BY <1>0, <1>7, <2>3, <2>4 DEF Foreign, CommitLate
  <2> QED
    BY <2>6, <2>7, <2>8 DEF HandInv
<1>8. CASE ScheduledDrain
  <2>1. PICK s \in Side : Refile(s)
    BY <1>8 DEF ScheduledDrain, Side
  <2> QED
    BY <1>4, <1>8, <2>1 DEF ScheduledDrain
<1> QED
  BY <1>1, <1>2, <1>3, <1>5, <1>6, <1>7, <1>8 DEF World

\* A call nobody waits for is one its job would have sent.
LEMMA AbandonedIsACall ==
    ASSUME TypeOK, Phases, Foreign, NEW s \in Side, Abandon(s)
    PROVE  CallsType' /\ \A q \in late'["prod"] : OfRuns(q.prior)
<1>1. answer' \in [Side -> {"none", "applied", "skipped", "refused"}]
  BY DEF TypeOK, CallsType, Abandon
<1>2. late \in [Side -> SUBSET Call]
  BY DEF TypeOK, CallsType
<1>3. CASE Waiting(s)
  <2>1. Request(s) \in Call /\ (s = "prod" => OfRuns(Request(s).prior))
    BY <1>3, RequestIsCall
  <2>2. late' = [late EXCEPT ![s] = late[s] \cup {Request(s)}]
    BY <1>3 DEF Abandon
  <2>3. late' \in [Side -> SUBSET Call]
    BY <1>2, <2>1, <2>2
  <2>4. \A q \in late'["prod"] : OfRuns(q.prior)
    BY <1>2, <2>1, <2>2 DEF Foreign, Side
  <2> QED
    BY <1>1, <2>3, <2>4 DEF CallsType
<1>4. CASE ~Waiting(s)
  BY <1>1, <1>2, <1>4 DEF Abandon, CallsType, Foreign
<1> QED
  BY <1>3, <1>4

\* The ingest job.
LEMMA IngestStep ==
    ASSUME HandInv, Ingest
    PROVE  HandInv'
<1>0. TypeOK /\ Phases /\ Foreign
  BY DEF HandInv
<1>1. CASE Refresh
  <2>1. WorldType'
    BY <1>0, <1>1 DEF TypeOK, WorldType, Refresh, Side
  <2>2. IngestType'
    BY <1>0, <1>1 DEF TypeOK, IngestType, Refresh
  <2>3. TypeOK'
    BY <1>0, <1>1, <2>1, <2>2, Frame DEF TypeOK, Refresh
  <2>4. Phases'
    BY <1>0, <1>1 DEF Phases, Refresh, TypeOK, IngestType
  <2>5. Foreign'
    BY <1>0, <1>1 DEF Foreign, Refresh
  <2> QED
    BY <2>3, <2>4, <2>5 DEF HandInv
<1>2. CASE DrainCert
  <2>1. /\ content' \in [Side -> Contents]
        /\ content'["cert"].listing = content["cert"].listing
    BY <1>0, <1>2, RefiledKeepsListings DEF DrainCert, Side
  <2>2. IngestType'
    BY <1>0, <1>2 DEF TypeOK, IngestType, DrainCert, IngestIdle
  <2>3. TypeOK'
    BY <1>0, <1>2, <2>1, <2>2, Frame DEF TypeOK, ContentType, Contents, DrainCert
  <2>4. Phases'
    BY <1>0, <1>2 DEF Phases, DrainCert, IngestIdle, TypeOK, IngestType
  <2>5. Foreign'
    BY <1>0, <1>2, <2>1 DEF Foreign, DrainCert
  <2> QED
    BY <2>3, <2>4, <2>5 DEF HandInv
<1>3. CASE ReadSource
  <2>1. IngestType'
    BY <1>0, <1>3 DEF TypeOK, IngestType, ReadSource, WorldType
  <2>2. TypeOK'
    BY <1>0, <1>3, <2>1, Frame DEF TypeOK, ReadSource
  <2>3. Phases'
    BY <1>0, <1>3 DEF Phases, ReadSource, TypeOK, IngestType
  <2>4. Foreign'
    BY <1>0, <1>3 DEF Foreign, ReadSource
  <2> QED
    BY <2>2, <2>3, <2>4 DEF HandInv
<1>4. CASE OpenRun
  <2>1. MaxRuns \in Nat /\ latest \in Nat /\ latest' = latest + 1 /\ latest' \in 1..MaxRuns
    <3>1. ingest.at = "read" /\ latest' = latest + 1
      BY <1>4 DEF OpenRun
    <3>2. latest < MaxRuns
      BY <1>0, <3>1 DEF Phases
    <3>3. latest \in 0..MaxRuns
      BY <1>0 DEF TypeOK, RunsType
    <3> QED
      BY <3>1, <3>2, <3>3, PromotionAssumption
  <2>2. roster["cert"] \in Roster
    BY <1>0 DEF TypeOK, WorldType, Side
  <2>3. Held("cert") \in Result /\ OfRuns(Held("cert"))
    BY <1>0, HeldIsResult DEF Side, Foreign, OfRuns
  <2>4. PICK f \in Result \cup {None} :
           /\ OfRuns(f)
           /\ f = IF HasResults("cert") THEN Held("cert") ELSE None
    BY <2>3 DEF OfRuns
  <2> DEFINE opened == [NoRun EXCEPT !.status = "RUNNING", !.inputs = roster["cert"], !.prior = f]
             given(i) == [runs[i] EXCEPT !.status = "ABANDONED"]
  <2>5. /\ opened \in Row /\ opened.inputs = roster["cert"]
        /\ opened.prior = f /\ opened.result = None
    BY <2>2, <2>4 DEF NoRun, Row
  <2>6. ASSUME NEW i \in 1..MaxRuns
        PROVE  /\ runs[i] \in Row /\ given(i) \in Row
               /\ given(i).inputs = runs[i].inputs /\ given(i).prior = runs[i].prior
               /\ given(i).result = runs[i].result
    <3>1. PICK r \in Row : r = runs[i]
      BY <1>0 DEF TypeOK, RunsType
    <3> QED
      BY <3>1 DEF Row
  <2>7. runs' = [i \in 1..MaxRuns |-> IF i = latest' THEN opened
                 ELSE IF runs[i].status = "RUNNING" THEN given(i) ELSE runs[i]]
    BY <1>4, <2>4 DEF OpenRun
  <2> HIDE DEF opened, given
  <2>8. runs' \in [1..MaxRuns -> Row]
    BY <2>5, <2>6, <2>7
  <2>9. \A i \in 1..MaxRuns :
           runs'[i] = IF i = latest' THEN opened
                      ELSE IF runs[i].status = "RUNNING" THEN given(i) ELSE runs[i]
    BY <2>7
  <2>10. \A i \in 1..latest' : runs'[i].inputs \in Roster
    <3>1. ASSUME NEW i \in 1..latest' PROVE runs'[i].inputs \in Roster
      <4>1. i \in 1..MaxRuns /\ (i # latest' => i \in 1..latest)
        BY <2>1
      <4> QED
        BY <1>0, <2>2, <2>5, <2>6, <2>9, <4>1 DEF Phases
    <3> QED
      BY <3>1
  <2>11. \A i \in 1..MaxRuns : OfRuns(runs'[i].prior) /\ OfRuns(runs'[i].result)
    <3>1. ASSUME NEW i \in 1..MaxRuns
          PROVE  OfRuns(runs'[i].prior) /\ OfRuns(runs'[i].result)
      <4>1. OfRuns(runs[i].prior) /\ OfRuns(runs[i].result)
        BY <1>0 DEF Foreign
      <4>2. runs'[i] = opened \/ runs'[i] = given(i) \/ runs'[i] = runs[i]
        BY <2>9
      <4>3. OfRuns(None)
        BY DEF OfRuns
      <4> QED
        BY <2>4, <2>5, <2>6, <4>1, <4>2, <4>3
    <3> QED
      BY <3>1
  <2>12. IngestType' /\ ingest'.at = "open"
    BY <1>0, <1>4 DEF TypeOK, IngestType, OpenRun
  <2>13. RunsType'
    BY <2>1, <2>8 DEF RunsType
  <2>14. TypeOK'
    BY <1>0, <1>4, <2>12, <2>13, Frame DEF TypeOK, OpenRun
  <2>15. Phases'
    <3>1. promote' = promote
      BY <1>4 DEF OpenRun
    <3>2. latest' > 0 /\ 1..latest \subseteq 1..latest'
      BY <2>1
    <3> QED
      BY <1>0, <2>10, <2>12, <3>1, <3>2 DEF Phases
  <2>16. Foreign'
    BY <1>0, <1>4, <2>11 DEF Foreign, OpenRun
  <2> QED
    BY <2>14, <2>15, <2>16 DEF HandInv
<1>5. ASSUME latest > 0, NEW status \in {"FINISHED", "FAILED"}, Close(status),
             ingest' \in {IngestIdle, [ingest EXCEPT !.at = "closed"]},
             CallsType', late' = late,
             UNCHANGED <<source, roster, content, latest, promote, bounds>>
      PROVE  HandInv'
  <2>1. /\ runs' \in [1..MaxRuns -> Row]
        /\ \A i \in 1..latest : runs'[i].inputs \in Roster
        /\ \A i \in 1..MaxRuns : OfRuns(runs'[i].prior) /\ OfRuns(runs'[i].result)
    BY <1>0, <1>5, ClosedIsARow
  <2>2. IngestType'
    BY <1>0, <1>5 DEF TypeOK, IngestType, IngestIdle
  <2>3. RunsType'
    BY <1>0, <1>5, <2>1 DEF TypeOK, RunsType
  <2>4. TypeOK'
    BY <1>0, <1>5, <2>2, <2>3, Frame DEF TypeOK
  <2>5. Phases'
    <3>1. ingest'.at \in {"idle", "closed"}
      BY <1>0, <1>5 DEF IngestIdle, TypeOK, IngestType
    <3>2. latest' = latest /\ promote' = promote
      BY <1>5
    <3> QED
      BY <1>0, <1>5, <2>1, <3>1, <3>2 DEF Phases
  <2>6. Foreign'
    BY <1>0, <1>5, <2>1 DEF Foreign
  <2> QED
    BY <2>4, <2>5, <2>6 DEF HandInv
<1>6. CASE PlanFails \/ NothingFinal
  <2>1. latest > 0
    BY <1>0, <1>6 DEF Phases, PlanFails, NothingFinal
  <2>2. CallsType'
    BY <1>0, <1>6, Frame DEF PlanFails, NothingFinal
  <2> QED
    BY <1>5, <1>6, <2>1, <2>2 DEF PlanFails, NothingFinal
<1>7. CASE SendCert
  <2>1. IngestType'
    BY <1>0, <1>7 DEF TypeOK, IngestType, SendCert
  <2>2. TypeOK'
    BY <1>0, <1>7, <2>1, Frame DEF TypeOK, SendCert
  <2>3. Phases'
    BY <1>0, <1>7 DEF Phases, SendCert, TypeOK, IngestType
  <2>4. Foreign'
    BY <1>0, <1>7 DEF Foreign, SendCert
  <2> QED
    BY <2>2, <2>3, <2>4 DEF HandInv
<1>8. CASE SettleIngest
  <2>1. latest > 0
    BY <1>0, <1>8 DEF Phases, SettleIngest
  <2>2. CallsType'
    BY <1>0, <1>8 DEF TypeOK, CallsType, SettleIngest
  <2>3. PICK status \in {"FINISHED", "FAILED"} :
           Close(status) /\ ingest' \in {IngestIdle, [ingest EXCEPT !.at = "closed"]}
    BY <1>8 DEF SettleIngest
  <2> QED
    BY <1>5, <1>8, <2>1, <2>2, <2>3 DEF SettleIngest
<1>9. CASE LoseIngestAnswer
  <2>1. CallsType' /\ \A q \in late'["prod"] : OfRuns(q.prior)
    BY <1>0, <1>9, AbandonedIsACall DEF LoseIngestAnswer, Side
  <2>2. IngestType'
    BY <1>0, <1>9 DEF TypeOK, IngestType, LoseIngestAnswer
  <2>3. BoundsType'
    BY <1>0, <1>9, PromotionAssumption DEF TypeOK, BoundsType, LoseIngestAnswer
  <2>4. TypeOK'
    BY <1>0, <1>9, <2>1, <2>2, <2>3, Frame DEF TypeOK, LoseIngestAnswer
  <2>5. Phases'
    BY <1>0, <1>9 DEF Phases, LoseIngestAnswer, TypeOK, IngestType
  <2>6. Foreign'
    BY <1>0, <1>9, <2>1 DEF Foreign, LoseIngestAnswer
  <2> QED
    BY <2>4, <2>5, <2>6 DEF HandInv
<1>10. CASE IngestDies
  <2>1. CallsType' /\ \A q \in late'["prod"] : OfRuns(q.prior)
    <3>1. CASE Abandon("cert")
      BY <1>0, <3>1, AbandonedIsACall DEF Side
    <3>2. CASE UNCHANGED <<answer, late>>
      BY <1>0, <3>2, Frame DEF Foreign
    <3> QED
      BY <1>10, <3>1, <3>2 DEF IngestDies
  <2>2. IngestType'
    BY <1>0, <1>10 DEF TypeOK, IngestType, IngestDies, IngestIdle
  <2>3. BoundsType'
    BY <1>0, <1>10, PromotionAssumption DEF TypeOK, BoundsType, IngestDies
  <2>4. TypeOK'
    BY <1>0, <1>10, <2>1, <2>2, <2>3, Frame DEF TypeOK, IngestDies
  <2>5. Phases'
    BY <1>0, <1>10 DEF Phases, IngestDies, IngestIdle
  <2>6. Foreign'
    BY <1>0, <1>10, <2>1 DEF Foreign, IngestDies
  <2> QED
    BY <2>4, <2>5, <2>6 DEF HandInv
<1> QED
  BY <1>1, <1>2, <1>3, <1>4, <1>6, <1>7, <1>8, <1>9, <1>10 DEF Ingest

\* The promote job.
LEMMA PromoteStep ==
    ASSUME HandInv, Promote
    PROVE  HandInv'
<1>0. TypeOK /\ Phases /\ Foreign
  BY DEF HandInv
<1>1. CASE ReadRun
  <2>1. latest \in 1..latest /\ latest \in 1..MaxRuns
    <3>1. latest \in 0..MaxRuns /\ latest > 0
      BY <1>0, <1>1 DEF TypeOK, RunsType, ReadRun
    <3> QED
      BY <3>1, PromotionAssumption
  <2>2. PICK r \in Row : r = runs[latest] /\ r.inputs \in Roster /\ OfRuns(r.prior)
    BY <1>0, <2>1 DEF TypeOK, RunsType, Phases, Foreign
  <2>3. promote' = [PromoteIdle EXCEPT !.at = "gate", !.id = latest, !.run = r]
    BY <1>1, <2>2 DEF ReadRun
  <2>4. /\ promote'.at = "gate" /\ promote'.id = latest /\ promote'.run = r
        /\ promote' = [at |-> "gate", id |-> latest, run |-> r, gate |-> NoRun,
                       prior |-> None, filed |-> NoListing, outcome |-> "none"]
    BY <2>3 DEF PromoteIdle
  <2>5. NoRun \in Row
    BY DEF NoRun, Row
  <2>6. PromoteType'
    BY <2>1, <2>4, <2>5 DEF PromoteType
  <2>7. TypeOK'
    BY <1>0, <1>1, <2>6, Frame DEF TypeOK, ReadRun
  <2>8. Phases'
    BY <1>0, <1>1, <2>1, <2>2, <2>4 DEF Phases, ReadRun
  <2>9. Foreign'
    BY <1>0, <1>1, <2>2, <2>4 DEF Foreign, ReadRun
  <2> QED
    BY <2>7, <2>8, <2>9 DEF HandInv
<1>2. CASE GateReadsRun
  <2>1. latest \in 1..MaxRuns
    <3>1. latest \in 0..MaxRuns /\ promote.id \in 1..latest
      BY <1>0, <1>2 DEF TypeOK, RunsType, Phases, GateReadsRun
    <3> QED
      BY <3>1, PromotionAssumption
  <2>2. runs[latest] \in Row
    BY <1>0, <2>1 DEF TypeOK, RunsType
  <2>3. PromoteType'
    BY <1>0, <1>2, <2>2 DEF TypeOK, PromoteType, GateReadsRun
  <2>4. TypeOK'
    BY <1>0, <1>2, <2>3, Frame DEF TypeOK, GateReadsRun
  <2>5. Phases'
    BY <1>0, <1>2 DEF Phases, TypeOK, PromoteType, GateReadsRun
  <2>6. Foreign'
    BY <1>0, <1>2 DEF Foreign, TypeOK, PromoteType, GateReadsRun
  <2> QED
    BY <2>4, <2>5, <2>6 DEF HandInv
<1>3. CASE GateChecks
  <2>1. PromoteType'
    BY <1>0, <1>3 DEF TypeOK, PromoteType, GateChecks, Goes
  <2>2. TypeOK'
    BY <1>0, <1>3, <2>1, Frame DEF TypeOK, GateChecks
  <2>3. Phases'
    BY <1>0, <1>3 DEF Phases, GateChecks, TypeOK, PromoteType, Goes
  <2>4. Foreign'
    BY <1>0, <1>3 DEF Foreign, GateChecks, TypeOK, PromoteType, Goes
  <2> QED
    BY <2>2, <2>3, <2>4 DEF HandInv
<1>4. CASE GateInputs
  <2>1. PromoteType'
    BY <1>0, <1>4 DEF TypeOK, PromoteType, GateInputs, Goes
  <2>2. TypeOK'
    BY <1>0, <1>4, <2>1, Frame DEF TypeOK, GateInputs
  <2>3. Phases'
    BY <1>0, <1>4 DEF Phases, GateInputs, TypeOK, PromoteType, Goes
  <2>4. Foreign'
    BY <1>0, <1>4 DEF Foreign, GateInputs, TypeOK, PromoteType, Goes
  <2> QED
    BY <2>2, <2>3, <2>4 DEF HandInv
<1>5. CASE CheckPrior
  <2>1. Held("prod") \in Result
    BY <1>0, HeldIsResult DEF Side
  <2>2. PICK p \in Result \cup {None}, at \in {"plan", "refused"} :
           /\ promote' = [promote EXCEPT !.at = at, !.prior = p]
           /\ p = None \/ p = Held("prod")
           /\ at = "plan" => p = None \/ KnownPrior(p, promote.run, promote.id)
    BY <1>5, <2>1 DEF CheckPrior, Goes
  <2>3. at = "plan" => OfRuns(p)
    <3>1. CASE p = None
      BY <3>1 DEF OfRuns
    <3>2. ASSUME p \in Earlier(promote.id)
          PROVE  OfRuns(p)
      <4>1. promote.id \in 1..MaxRuns
        <5>1. promote.id \in 1..latest /\ latest \in 0..MaxRuns
          BY <1>0, <1>5 DEF Phases, CheckPrior, TypeOK, RunsType
        <5> QED
          BY <5>1, PromotionAssumption
      <4>2. \A i \in 1..(promote.id - 1) : i \in 1..MaxRuns
        BY <4>1, PromotionAssumption
      <4> QED
        BY <1>0, <3>2, <4>2 DEF Earlier, Foreign
    <3>3. CASE p = promote.run.prior
      BY <1>0, <3>3 DEF Foreign
    <3> QED
      BY <2>2, <3>1, <3>2, <3>3 DEF KnownPrior
  <2>4. PromoteType' /\ promote'.at = at /\ promote'.prior = p /\ promote'.id = promote.id
        /\ promote'.run = promote.run
    BY <1>0, <2>2 DEF TypeOK, PromoteType
  <2>5. TypeOK'
    BY <1>0, <1>5, <2>4, Frame DEF TypeOK, CheckPrior
  <2>6. Phases'
    <3>1. promote.at = "prior" /\ UNCHANGED <<runs, latest, ingest>>
      BY <1>5 DEF CheckPrior
    <3> QED
      BY <1>0, <2>4, <3>1 DEF Phases
  <2>7. Foreign'
    <3>1. UNCHANGED <<content, runs, late>>
      BY <1>5 DEF CheckPrior
    <3> QED
      BY <1>0, <2>2, <2>3, <2>4, <3>1 DEF Foreign
  <2> QED
    BY <2>5, <2>6, <2>7 DEF HandInv
<1>6. CASE Plan
  <2>1. roster["prod"] \in Roster
    BY <1>0 DEF TypeOK, WorldType, Side
  <2>2. promote.at = "plan" /\ promote' = [promote EXCEPT
           !.at = IF SourceUnchanged(promote.run.listing) THEN "dry run" ELSE "refused",
           !.filed = roster["prod"]]
    BY <1>6 DEF Plan, Goes
  <2>3. SourceUnchanged(promote.run.listing) => promote.run.listing \in Listing
    BY <1>0 DEF SourceUnchanged, TypeOK, WorldType
  <2>4. PromoteType'
    BY <1>0, <2>1, <2>2 DEF TypeOK, PromoteType
  <2>5. TypeOK'
    BY <1>0, <1>6, <2>4, Frame DEF TypeOK, Plan
  <2>6. Phases'
    BY <1>0, <1>6, <2>1, <2>2, <2>3 DEF Phases, TypeOK, PromoteType, Plan
  <2>7. Foreign'
    BY <1>0, <1>6, <2>2 DEF Foreign, TypeOK, PromoteType, Plan
  <2> QED
    BY <2>5, <2>6, <2>7 DEF HandInv
<1>7. CASE DryRun
  <2>1. PromoteType'
    BY <1>0, <1>7 DEF TypeOK, PromoteType, DryRun, Goes
  <2>2. TypeOK'
    BY <1>0, <1>7, <2>1, Frame DEF TypeOK, DryRun
  <2>3. Phases'
    BY <1>0, <1>7 DEF Phases, DryRun, TypeOK, PromoteType, Goes
  <2>4. Foreign'
    BY <1>0, <1>7 DEF Foreign, DryRun, TypeOK, PromoteType, Goes
  <2> QED
    BY <2>2, <2>3, <2>4 DEF HandInv
<1>8. CASE SettlePromote
  <2>1. CallsType'
    BY <1>0, <1>8 DEF TypeOK, CallsType, SettlePromote
  <2>2. PICK o \in {"none", "applied", "skipped", "refused"}, at \in {"drain", "refused"} :
           promote' = [promote EXCEPT !.at = at, !.outcome = o]
    <3>1. answer["prod"] \in {"none", "applied", "skipped", "refused"}
      BY <1>0 DEF TypeOK, CallsType, Side
    <3> QED
      BY <1>8, <3>1 DEF SettlePromote, Goes
  <2>3. promote.at # "idle" /\ UNCHANGED <<content, runs, latest, ingest, late>>
    BY <1>8 DEF SettlePromote
  <2>4. PromoteType'
    BY <1>0, <2>2 DEF TypeOK, PromoteType
  <2>5. TypeOK'
    BY <1>0, <1>8, <2>1, <2>4, Frame DEF TypeOK, SettlePromote
  <2>6. Phases'
    BY <1>0, <2>2, <2>3 DEF Phases, TypeOK, PromoteType
  <2>7. Foreign'
    BY <1>0, <2>2, <2>3 DEF Foreign, TypeOK, PromoteType
  <2> QED
    BY <2>5, <2>6, <2>7 DEF HandInv
<1>9. CASE LosePromoteAnswer
  <2>1. CallsType' /\ \A q \in late'["prod"] : OfRuns(q.prior)
    BY <1>0, <1>9, AbandonedIsACall DEF LosePromoteAnswer, Side
  <2>2. PromoteType'
    BY <1>0, <1>9 DEF TypeOK, PromoteType, LosePromoteAnswer
  <2>3. BoundsType'
    BY <1>0, <1>9, PromotionAssumption DEF TypeOK, BoundsType, LosePromoteAnswer
  <2>4. TypeOK'
    BY <1>0, <1>9, <2>1, <2>2, <2>3, Frame DEF TypeOK, LosePromoteAnswer
  <2>5. Phases'
    BY <1>0, <1>9 DEF Phases, LosePromoteAnswer, TypeOK, PromoteType
  <2>6. Foreign'
    BY <1>0, <1>9, <2>1 DEF Foreign, LosePromoteAnswer, TypeOK, PromoteType
  <2> QED
    BY <2>4, <2>5, <2>6 DEF HandInv
<1>10. CASE DrainProd
  <2>1. /\ content' \in [Side -> Contents]
        /\ content'["cert"].listing = content["cert"].listing
    BY <1>0, <1>10, RefiledKeepsListings DEF DrainProd, Side
  <2>2. PromoteType'
    BY <1>0, <1>10 DEF TypeOK, PromoteType, DrainProd
  <2>3. TypeOK'
    BY <1>0, <1>10, <2>1, <2>2, Frame DEF TypeOK, ContentType, Contents, DrainProd
  <2>4. Phases'
    BY <1>0, <1>10 DEF Phases, DrainProd, TypeOK, PromoteType
  <2>5. Foreign'
    BY <1>0, <1>10, <2>1 DEF Foreign, DrainProd, TypeOK, PromoteType
  <2> QED
    BY <2>3, <2>4, <2>5 DEF HandInv
<1>11. CASE Record
  <2>1. promote.id \in 1..MaxRuns
    <3>1. promote.id \in 1..latest /\ latest \in 0..MaxRuns
      BY <1>0, <1>11 DEF Phases, Record, TypeOK, RunsType
    <3> QED
      BY <3>1, PromotionAssumption
  <2>2. PICK l \in {"none", "applied", "skipped", "refused"} :
           runs' = runs \/ runs' = [runs EXCEPT ![promote.id] = [runs[promote.id] EXCEPT !.ledger = l]]
    <3>1. promote.outcome \in {"none", "applied", "skipped", "refused"}
      BY <1>0 DEF TypeOK, PromoteType
    <3> QED
      BY <1>11, <3>1 DEF Record
  <2>3. runs' \in [1..MaxRuns -> Row]
    BY <1>0, <2>1, <2>2 DEF TypeOK, RunsType, Row
  <2>4. \A i \in 1..MaxRuns : /\ runs'[i].inputs = runs[i].inputs
                              /\ runs'[i].prior = runs[i].prior
                              /\ runs'[i].result = runs[i].result
    <3>1. ASSUME NEW i \in 1..MaxRuns
          PROVE  /\ runs'[i].inputs = runs[i].inputs /\ runs'[i].prior = runs[i].prior
                 /\ runs'[i].result = runs[i].result
      <4>1. PICK r \in Row : r = runs[i]
        BY <1>0 DEF TypeOK, RunsType
      <4>2. runs'[i] = r \/ runs'[i] = [r EXCEPT !.ledger = l]
        BY <1>0, <2>2, <4>1 DEF TypeOK, RunsType
      <4> QED
        BY <4>1, <4>2 DEF Row
    <3> QED
      BY <3>1
  <2>5. PromoteType' /\ promote'.at = "idle" /\ OfRuns(promote'.run.prior)
    BY <1>11, PromotionAssumption DEF PromoteType, PromoteIdle, NoRun, Row, OfRuns, Record
  <2>6. RunsType'
    BY <1>0, <1>11, <2>3 DEF TypeOK, RunsType, Record
  <2>7. TypeOK'
    BY <1>0, <1>11, <2>5, <2>6, Frame DEF TypeOK, Record
  <2>8. Phases'
    <3>1. latest' = latest /\ ingest' = ingest /\ 1..latest \subseteq 1..MaxRuns
      BY <1>0, <1>11, PromotionAssumption DEF Record, TypeOK, RunsType
    <3> QED
      BY <1>0, <2>4, <2>5, <3>1 DEF Phases
  <2>9. Foreign'
    BY <1>0, <1>11, <2>4, <2>5 DEF Foreign, Record
  <2> QED
    BY <2>7, <2>8, <2>9 DEF HandInv
<1>12. CASE PromoteDies
  <2>1. CallsType' /\ \A q \in late'["prod"] : OfRuns(q.prior)
    <3>1. CASE Abandon("prod")
      BY <1>0, <3>1, AbandonedIsACall DEF Side
    <3>2. CASE UNCHANGED <<answer, late>>
      BY <1>0, <3>2, Frame DEF Foreign
    <3> QED
      BY <1>12, <3>1, <3>2 DEF PromoteDies
  <2>2. PromoteType' /\ promote'.at = "idle" /\ OfRuns(promote'.run.prior)
    BY <1>12, PromotionAssumption
    DEF PromoteType, PromoteIdle, NoRun, Row, OfRuns, PromoteDies
  <2>3. BoundsType'
    BY <1>0, <1>12, PromotionAssumption DEF TypeOK, BoundsType, PromoteDies
  <2>4. TypeOK'
    BY <1>0, <1>12, <2>1, <2>2, <2>3, Frame DEF TypeOK, PromoteDies
  <2>5. Phases'
    BY <1>0, <1>12, <2>2 DEF Phases, PromoteDies
  <2>6. Foreign'
    BY <1>0, <1>12, <2>1, <2>2 DEF Foreign, PromoteDies
  <2> QED
    BY <2>4, <2>5, <2>6 DEF HandInv
<1> QED
  BY <1>1, <1>2, <1>3, <1>4, <1>5, <1>6, <1>7, <1>8, <1>9, <1>10, <1>11, <1>12 DEF Promote
-----------------------------------------------------------------------------
(* The theorems *)

LEMMA InitHandInv ==
    ASSUME Init
    PROVE  HandInv
<1>1. WorldType /\ BoundsType /\ ContentType
  BY PromotionAssumption DEF Init, WorldType, BoundsType, ContentType, Side
<1>2. RunsType /\ IngestType /\ PromoteType /\ CallsType
  <2>1. NoRun \in Row
    BY DEF NoRun, Row
  <2>2. RunsType
    BY <2>1, PromotionAssumption DEF Init, RunsType
  <2>3. IngestType /\ PromoteType
    BY <2>1, PromotionAssumption DEF Init, IngestType, IngestIdle, PromoteType, PromoteIdle
  <2>4. CallsType
    BY DEF Init, CallsType
  <2> QED
    BY <2>2, <2>3, <2>4
<1>3. Phases
  BY DEF Init, Phases, IngestIdle, PromoteIdle
<1>4. Foreign
  BY PromotionAssumption DEF Init, Foreign, OfRuns, NoRun, PromoteIdle, Nothing, NoListing, Side
<1> QED
  BY <1>1, <1>2, <1>3, <1>4 DEF HandInv, TypeOK

\* HandInv is kept by every step.
LEMMA HandInvHolds == Spec => []HandInv
<1>1. Init => HandInv
  BY InitHandInv
<1>2. HandInv /\ [Next]_vars => HandInv'
  <2> SUFFICES ASSUME HandInv, [Next]_vars
               PROVE  HandInv'
    OBVIOUS
  <2>1. CASE Next
    BY <2>1, WorldStep, IngestStep, PromoteStep DEF Next
  <2>2. CASE UNCHANGED vars
    <3>1. TypeOK'
      BY <2>2, Frame DEF vars, bounds, HandInv, TypeOK
    <3>2. Phases' /\ Foreign'
      BY <2>2 DEF vars, HandInv, Phases, Foreign
    <3> QED
      BY <3>1, <3>2 DEF HandInv
  <2> QED
    BY <2>1, <2>2
<1> QED
  BY <1>1, <1>2, PTL DEF Spec

\* Every variable of the ingest, the promote and the two databases stays in its
\* domain: an apply is never sent without a listing, inputs and a filing.
THEOREM PromotionTypeCorrect == Spec => []TypeOK
<1>1. HandInv => TypeOK
  BY DEF HandInv
<1> QED
  BY <1>1, HandInvHolds, PTL

\* An apply that commits on PROD leaves foreign results there alone: its prior is
\* NULL, and the event holds results, or is a run's fingerprint, and they are not.
LEMMA AcceptsNoForeign ==
    ASSUME TypeOK, NEW q \in Call, OfRuns(q.prior), content["prod"].listing = ByHand,
           Skips("prod", q) \/ Accepts("prod", q)
    PROVE  Stored("prod", q) = content["prod"]
<1>1. Held("prod")[1] = ByHand
  BY HeldIsResult DEF Side
<1>2. HasResults("prod")
  BY PromotionAssumption DEF HasResults, NoListing
<1>3. ~Accepts("prod", q)
  BY <1>1, <1>2 DEF Accepts, OfRuns
<1> QED
  BY <1>3 DEF Stored

\* No step replaces results on PROD that no run produced.
LEMMA ByHandStays ==
    ASSUME HandInv, [Next]_vars, content["prod"].listing = ByHand
    PROVE  content'["prod"].listing = ByHand
<1>0. TypeOK /\ Phases /\ Foreign /\ content \in [Side -> Contents]
  BY DEF HandInv, TypeOK, ContentType, Contents
<1>1. ASSUME NEW s \in Side, NEW q \in Call, s = "prod" => OfRuns(q.prior),
             Skips(s, q) \/ Accepts(s, q), content' = [content EXCEPT ![s] = Stored(s, q)]
      PROVE  content'["prod"].listing = ByHand
  <2>1. CASE s = "prod"
    BY <1>0, <1>1, <2>1, AcceptsNoForeign
  <2>2. CASE s = "cert"
    BY <1>0, <1>1, <2>2 DEF Side
  <2> QED
    BY <2>1, <2>2 DEF Side
<1>2. ASSUME NEW s \in Side, Commit(s)
      PROVE  content'["prod"].listing = ByHand
  <2>1. Request(s) \in Call /\ (s = "prod" => OfRuns(Request(s).prior))
    BY <1>0, <1>2, RequestIsCall DEF Commit
  <2> QED
    BY <1>1, <1>2, <2>1 DEF Commit
<1>3. ASSUME NEW s \in Side, CommitLate(s)
      PROVE  content'["prod"].listing = ByHand
  <2>1. CASE content' = content
    BY <2>1
  <2>2. CASE content' # content
    <3>1. PICK q \in late[s] : /\ Skips(s, q) \/ Accepts(s, q)
                               /\ content' = [content EXCEPT ![s] = Stored(s, q)]
      BY <1>3, <2>2 DEF CommitLate
    <3>2. q \in Call /\ (s = "prod" => OfRuns(q.prior))
      BY <1>0, <3>1 DEF TypeOK, CallsType, Foreign
    <3> QED
      BY <1>1, <3>1, <3>2
  <2> QED
    BY <2>1, <2>2
<1>4. ASSUME NEW s \in Side, Refile(s)
      PROVE  content'["prod"].listing = ByHand
  BY <1>0, <1>4, RefiledKeepsListings DEF Side
<1>5. CASE HandWrite
  BY <1>0, <1>5 DEF HandWrite, Side
<1>6. CASE UNCHANGED content
  BY <1>6
<1>7. CASE World
  BY <1>2, <1>3, <1>4, <1>5, <1>6, <1>7 DEF World, SourceMoves, Correct, ScheduledDrain,
     RollBack, Side
<1>8. CASE Ingest
  BY <1>4, <1>6, <1>8 DEF Ingest, Refresh, DrainCert, ReadSource, OpenRun, PlanFails,
     NothingFinal, SendCert, SettleIngest, LoseIngestAnswer, IngestDies, Side
<1>9. CASE Promote
  BY <1>4, <1>6, <1>9 DEF Promote, ReadRun, GateReadsRun, GateChecks, GateInputs,
     CheckPrior, Plan, DryRun, SettlePromote, LosePromoteAnswer, DrainProd, Record,
     PromoteDies, Side
<1>10. CASE UNCHANGED vars
  BY <1>6, <1>10 DEF vars
<1> QED
  BY <1>7, <1>8, <1>9, <1>10 DEF Next

\* Results on PROD that no promote and no recompute produced are never replaced,
\* whatever falls between promote's check of them and its apply.
THEOREM HandworkIsNeverOverwritten == Spec => HandworkStays
<1>1. HandInv /\ [Next]_vars =>
         (content["prod"].listing = ByHand => content'["prod"].listing = ByHand)
  BY ByHandStays
<1> QED
  BY <1>1, HandInvHolds, PTL DEF Spec, HandworkStays
-----------------------------------------------------------------------------
(* PROD never goes back, as long as no listing is taken back (Undo = FALSE) *)

\* A version of the listings that has been published by now; a fingerprint of one.
Seen(n)      == n \in Nat /\ n <= source
SeenPrint(f) == f = None \/ Seen(f[1])

\* A call whose prior is no newer than what it writes.
Forward(prior, listing) == prior = None \/ (prior[1] \in Nat /\ prior[1] <= listing)

SeenContent == \A s \in Side : content[s].listing = ByHand \/ Seen(content[s].listing)
SeenRuns    == \A i \in 1..MaxRuns : /\ Seen(runs[i].listing)
                                     /\ SeenPrint(runs[i].prior) /\ SeenPrint(runs[i].result)
SeenIngest  == Seen(ingest.read)
SeenPromote == /\ Seen(promote.run.listing) /\ SeenPrint(promote.run.prior)
               /\ promote.at = "plan" => SeenPrint(promote.prior)
               /\ promote.at \in {"dry run", "applying"} =>
                     Forward(promote.prior, promote.run.listing)
SeenCalls   == /\ \A s \in Side : \A q \in late[s] : Seen(q.listing)
               /\ \A q \in late["prod"] : Forward(q.prior, q.listing)

\* Whatever is written down anywhere was published before; when promote plans, its
\* run's listings are the newest, so every prior it may name is no newer.
Ordered  == SeenContent /\ SeenRuns /\ SeenIngest /\ SeenPromote /\ SeenCalls
OrderInv == HandInv /\ Ordered

LEMMA OrderFrame ==
    ASSUME Ordered, source' = source
    PROVE  /\ UNCHANGED content => SeenContent'
           /\ UNCHANGED runs => SeenRuns'
           /\ UNCHANGED ingest => SeenIngest'
           /\ UNCHANGED promote => SeenPromote'
           /\ UNCHANGED late => SeenCalls'
<1>1. \A n : Seen(n) => Seen(n)'
  BY DEF Seen
<1>2. UNCHANGED content => SeenContent'
  BY DEF Ordered, SeenContent, Seen
<1>3. UNCHANGED runs => SeenRuns'
  BY DEF Ordered, SeenRuns, SeenPrint, Seen
<1>4. UNCHANGED ingest => SeenIngest'
  BY DEF Ordered, SeenIngest, Seen
<1>5. UNCHANGED promote => SeenPromote'
  BY DEF Ordered, SeenPromote, SeenPrint, Seen, Forward
<1>6. UNCHANGED late => SeenCalls'
  BY DEF Ordered, SeenCalls, Seen, Forward
<1> QED BY <1>2, <1>3, <1>4, <1>5, <1>6

\* The source only moves on.
LEMMA SourceMovesOn ==
    ASSUME Undo = FALSE, OrderInv, SourceMoves
    PROVE  Ordered'
<1>1. source \in Nat /\ source' \in Nat /\ source <= source'
  BY PromotionAssumption DEF OrderInv, HandInv, TypeOK, WorldType, SourceMoves, NoListing
<1>2. ASSUME NEW n, Seen(n) PROVE Seen(n)'
  BY <1>1, <1>2 DEF Seen
<1>3. UNCHANGED <<content, runs, ingest, promote, late>>
  BY DEF SourceMoves
<1>4. SeenContent' /\ SeenRuns' /\ SeenIngest'
  BY <1>2, <1>3 DEF OrderInv, Ordered, SeenContent, SeenRuns, SeenIngest, SeenPrint
<1>5. SeenPromote'
  BY <1>2, <1>3 DEF OrderInv, Ordered, SeenPromote, SeenPrint, Forward
<1>6. SeenCalls'
  BY <1>2, <1>3 DEF OrderInv, Ordered, SeenCalls, Forward
<1> QED BY <1>4, <1>5, <1>6 DEF Ordered

\* A job that applies sends a published listing, and promote's moves forward.
LEMMA RequestIsSeen ==
    ASSUME OrderInv, NEW s \in Side, Waiting(s)
    PROVE  /\ Seen(Request(s).listing)
           /\ s = "prod" => Forward(Request(s).prior, Request(s).listing)
<1>1. CASE s = "cert"
  BY <1>1 DEF Request, OrderInv, Ordered, SeenIngest
<1>2. CASE s = "prod"
  BY <1>2 DEF Request, Waiting, OrderInv, Ordered, SeenPromote
<1> QED BY <1>1, <1>2 DEF Side

LEMMA AbandonedIsSeen ==
    ASSUME OrderInv, NEW s \in Side, Abandon(s), source' = source
    PROVE  SeenCalls'
<1>1. late \in [Side -> SUBSET Call]
  BY DEF OrderInv, HandInv, TypeOK, CallsType
<1>2. CASE Waiting(s)
  <2>1. late' = [late EXCEPT ![s] = late[s] \cup {Request(s)}]
    BY <1>2 DEF Abandon
  <2>2. PICK q : q = Request(s) /\ Seen(q.listing) /\ (s = "prod" => Forward(q.prior, q.listing))
    BY <1>2, RequestIsSeen
  <2>3. \A t \in Side : late'[t] = IF t = s THEN late[t] \cup {q} ELSE late[t]
    BY <1>1, <2>1, <2>2
  <2>4. \A n : Seen(n) => Seen(n)'
    BY DEF Seen
  <2>5. \A t \in Side : \A x \in late'[t] : Seen(x.listing)'
    BY <2>2, <2>3, <2>4 DEF OrderInv, Ordered, SeenCalls
  <2>6. \A x \in late'["prod"] : Forward(x.prior, x.listing)
    BY <2>2, <2>3 DEF OrderInv, Ordered, SeenCalls, Side
  <2> QED BY <2>5, <2>6 DEF SeenCalls, Forward
<1>3. CASE ~Waiting(s)
  BY <1>3, OrderFrame DEF Abandon, OrderInv
<1> QED BY <1>2, <1>3

\* What a database comes to hold was published.
LEMMA StoredIsSeen ==
    ASSUME OrderInv, NEW s \in Side, NEW q, Seen(q.listing), source' = source,
           content' = content \/ content' = [content EXCEPT ![s] = Stored(s, q)]
    PROVE  SeenContent'
<1>1. content \in [Side -> Contents]
  BY DEF OrderInv, HandInv, TypeOK, ContentType, Contents
<1>2. Stored(s, q).listing = ByHand \/ Seen(Stored(s, q).listing)
  BY DEF Stored, OrderInv, Ordered, SeenContent
<1>3. \A t \in Side : content'[t] = content[t] \/ content'[t] = Stored(s, q)
  BY <1>1
<1> QED BY <1>2, <1>3 DEF SeenContent, Seen, OrderInv, Ordered

LEMMA RefiledIsSeen ==
    ASSUME OrderInv, NEW s \in Side, Refile(s), source' = source
    PROVE  SeenContent'
<1>1. \A t \in Side : content'[t].listing = content[t].listing
  BY RefiledKeepsListings DEF OrderInv, HandInv
<1> QED BY <1>1 DEF SeenContent, Seen, OrderInv, Ordered

\* A run is opened and closed with what CERT holds.
LEMMA HeldIsSeen ==
    ASSUME OrderInv
    PROVE  Seen(Held("cert")[1])
<1>1. Held("cert")[1] = content["cert"].listing
  BY HeldIsResult DEF OrderInv, HandInv, Side
<1> QED BY <1>1 DEF OrderInv, HandInv, Foreign, Ordered, SeenContent, Side

LEMMA ClosedIsSeen ==
    ASSUME OrderInv, latest > 0, NEW status \in {"FINISHED", "FAILED"}, Close(status),
           source' = source
    PROVE  SeenRuns'
<1>1. latest \in 1..MaxRuns
  BY PromotionAssumption DEF OrderInv, HandInv, TypeOK, RunsType
<1>2. PICK f : f = (IF status = "FINISHED" THEN Held("cert") ELSE None) /\ SeenPrint(f)
  BY HeldIsSeen DEF SeenPrint
<1>3. PICK r \in Row : r = runs[latest] /\ SeenPrint(r.prior)
  BY <1>1 DEF OrderInv, HandInv, TypeOK, RunsType, Ordered, SeenRuns
<1> DEFINE c == [r EXCEPT !.status = status, !.listing = ingest.read, !.result = f]
<1>4. runs' = [runs EXCEPT ![latest] = c]
  BY <1>2, <1>3, Zenon DEF Close
<1>5. c.listing = ingest.read /\ c.prior = r.prior /\ c.result = f
  BY <1>3 DEF Row
<1> HIDE DEF c
<1>6. \A i \in 1..MaxRuns : runs'[i] = IF i = latest THEN c ELSE runs[i]
  BY <1>1, <1>4 DEF OrderInv, HandInv, TypeOK, RunsType
<1>7. \A n : Seen(n) => Seen(n)'
  BY DEF Seen
<1> QED BY <1>2, <1>3, <1>5, <1>6, <1>7 DEF SeenRuns, SeenPrint, OrderInv, Ordered, SeenIngest

\* The source, the roster, foreign writes, drains and the database's applies.
LEMMA OrderWorld ==
    ASSUME Undo = FALSE, OrderInv, World
    PROVE  Ordered'
<1>0. Ordered
  BY DEF OrderInv
<1>1. CASE SourceMoves
  BY <1>1, SourceMovesOn
<1>2. CASE Correct
  BY <1>0, <1>2, OrderFrame DEF Correct, Ordered
<1>3. CASE HandWrite
  <2>1. content' = [content EXCEPT !["prod"] = [listing |-> ByHand, filed |-> roster["prod"]]]
        /\ content \in [Side -> Contents] /\ source' = source
    BY <1>3 DEF HandWrite, OrderInv, HandInv, TypeOK, ContentType, Contents
  <2>2. \A s \in Side : content'[s].listing \in {content[s].listing, ByHand}
    BY <2>1
  <2>3. SeenContent'
    BY <1>0, <2>1, <2>2 DEF Ordered, SeenContent, Seen
  <2> QED BY <1>0, <1>3, <2>3, OrderFrame DEF HandWrite, Ordered
<1>4. CASE ScheduledDrain
  <2>1. PICK s \in Side : Refile(s)
    BY <1>4 DEF ScheduledDrain, Side
  <2>2. SeenContent'
    BY <1>4, <2>1, RefiledIsSeen DEF ScheduledDrain
  <2> QED BY <1>0, <1>4, <2>2, OrderFrame DEF ScheduledDrain, Ordered
<1>5. ASSUME NEW s \in Side, Commit(s)
      PROVE  Ordered'
  <2>1. Seen(Request(s).listing)
    BY <1>5, RequestIsSeen DEF Commit
  <2>2. SeenContent'
    BY <1>5, <2>1, StoredIsSeen DEF Commit
  <2> QED BY <1>0, <1>5, <2>2, OrderFrame DEF Commit, Ordered
<1>6. ASSUME NEW s \in Side, RollBack(s)
      PROVE  Ordered'
  BY <1>0, <1>6, OrderFrame DEF RollBack, Ordered
<1>7. ASSUME NEW s \in Side, CommitLate(s)
      PROVE  Ordered'
  <2>1. PICK q \in late[s] :
           /\ late' = [late EXCEPT ![s] = @ \ {q}]
           /\ content' = content \/ content' = [content EXCEPT ![s] = Stored(s, q)]
    BY <1>7 DEF CommitLate
  <2>2. Seen(q.listing) /\ source' = source
    BY <1>0, <1>7, <2>1 DEF Ordered, SeenCalls, CommitLate
  <2>3. SeenContent'
    BY <2>1, <2>2, StoredIsSeen
  <2>4. \A t \in Side : late'[t] \subseteq late[t]
    BY <2>1 DEF OrderInv, HandInv, TypeOK, CallsType
  <2>5. SeenCalls'
    BY <1>0, <2>2, <2>4 DEF Ordered, SeenCalls, Seen, Forward, Side
  <2> QED BY <1>0, <1>7, <2>3, <2>5, OrderFrame DEF CommitLate, Ordered
<1> QED
  BY <1>1, <1>2, <1>3, <1>4, <1>5, <1>6, <1>7 DEF World

\* The ingest job writes down what the source shows and what CERT holds.
LEMMA OrderIngest ==
    ASSUME OrderInv, Ingest
    PROVE  Ordered'
<1>0. Ordered /\ IngestType /\ source \in Nat
  <2>1. Ordered /\ IngestType /\ source \in Listing \cup {NoListing}
    BY DEF OrderInv, HandInv, TypeOK, WorldType
  <2> QED BY <2>1, PromotionAssumption DEF NoListing
<1>1. CASE Refresh
  <2>1. SeenIngest'
    BY <1>0, <1>1 DEF Ordered, SeenIngest, Seen, Refresh, IngestType
  <2> QED BY <1>0, <1>1, <2>1, OrderFrame DEF Refresh, Ordered
<1>2. CASE DrainCert
  <2>1. SeenContent'
    BY <1>2, RefiledIsSeen DEF DrainCert, Side
  <2>2. ingest'.read \in {ingest.read, NoListing}
    BY <1>0, <1>2 DEF DrainCert, IngestType, IngestIdle
  <2>3. SeenIngest'
    BY <1>0, <1>2, <2>2 DEF Ordered, SeenIngest, Seen, NoListing, DrainCert
  <2> QED BY <1>0, <1>2, <2>1, <2>3, OrderFrame DEF DrainCert, Ordered
<1>3. CASE ReadSource
  <2>1. SeenIngest'
    BY <1>0, <1>3 DEF SeenIngest, Seen, ReadSource
  <2> QED BY <1>0, <1>3, <2>1, OrderFrame DEF ReadSource, Ordered
<1>4. CASE OpenRun
  <2>1. SeenIngest'
    BY <1>0, <1>4 DEF Ordered, SeenIngest, Seen, OpenRun, IngestType
  <2>2. PICK p : /\ p = (IF HasResults("cert") THEN Held("cert") ELSE None)
                 /\ SeenPrint(p)
    BY HeldIsSeen DEF SeenPrint
  <2>3. ASSUME NEW i \in 1..MaxRuns
        PROVE  /\ Seen(runs'[i].listing)
               /\ SeenPrint(runs'[i].prior) /\ SeenPrint(runs'[i].result)
    <3>1. PICK r \in Row : r = runs[i] /\ Seen(r.listing)
                           /\ SeenPrint(r.prior) /\ SeenPrint(r.result)
      BY <1>0 DEF OrderInv, HandInv, TypeOK, RunsType, Ordered, SeenRuns
    <3>2. \/ runs'[i] = [NoRun EXCEPT !.status = "RUNNING", !.inputs = roster["cert"],
                                      !.prior = p]
          \/ runs'[i] = [r EXCEPT !.status = "ABANDONED"]
          \/ runs'[i] = r
      BY <1>4, <2>2, <3>1 DEF OpenRun
    <3>3. Seen(NoListing) /\ SeenPrint(None)
      BY <1>0 DEF Seen, SeenPrint, NoListing
    <3>4. CASE runs'[i] = [NoRun EXCEPT !.status = "RUNNING", !.inputs = roster["cert"],
                                        !.prior = p]
      BY <2>2, <3>3, <3>4 DEF NoRun
    <3>5. CASE runs'[i] = [r EXCEPT !.status = "ABANDONED"]
      BY <3>1, <3>5 DEF Row
    <3> QED BY <3>1, <3>2, <3>4, <3>5
  <2>4. SeenRuns'
    BY <1>4, <2>3 DEF SeenRuns, SeenPrint, Seen, OpenRun
  <2> QED BY <1>0, <1>4, <2>1, <2>4, OrderFrame DEF OpenRun, Ordered
<1>5. CASE PlanFails
  <2>1. latest > 0
    BY <1>5 DEF PlanFails, OrderInv, HandInv, Phases
  <2>2. SeenRuns'
    BY <1>5, <2>1, ClosedIsSeen DEF PlanFails
  <2>3. SeenIngest'
    BY <1>0, <1>5 DEF SeenIngest, Seen, PlanFails, IngestIdle, NoListing
  <2> QED BY <1>0, <1>5, <2>2, <2>3, OrderFrame DEF PlanFails, Ordered
<1>6. CASE NothingFinal
  <2>1. latest > 0
    BY <1>6 DEF NothingFinal, OrderInv, HandInv, Phases
  <2>2. SeenRuns'
    BY <1>6, <2>1, ClosedIsSeen DEF NothingFinal
  <2>3. SeenIngest'
    BY <1>0, <1>6 DEF SeenIngest, Seen, NothingFinal, IngestIdle, NoListing
  <2> QED BY <1>0, <1>6, <2>2, <2>3, OrderFrame DEF NothingFinal, Ordered
<1>7. CASE SendCert
  <2>1. SeenIngest'
    BY <1>0, <1>7 DEF Ordered, SeenIngest, Seen, SendCert, IngestType
  <2> QED BY <1>0, <1>7, <2>1, OrderFrame DEF SendCert, Ordered
<1>8. CASE SettleIngest
  <2>1. latest > 0
    BY <1>8 DEF SettleIngest, OrderInv, HandInv, Phases
  <2>2. \E status \in {"FINISHED", "FAILED"} : Close(status)
    BY <1>8 DEF SettleIngest
  <2>3. SeenRuns'
    BY <1>8, <2>1, <2>2, ClosedIsSeen DEF SettleIngest
  <2>4. ingest'.read \in {ingest.read, NoListing}
    BY <1>0, <1>8 DEF SettleIngest, IngestType, IngestIdle
  <2>5. SeenIngest'
    BY <1>0, <1>8, <2>4 DEF Ordered, SeenIngest, Seen, NoListing, SettleIngest
  <2> QED BY <1>0, <1>8, <2>3, <2>5, OrderFrame DEF SettleIngest, Ordered
<1>9. CASE LoseIngestAnswer
  <2>1. SeenCalls'
    BY <1>9, AbandonedIsSeen DEF LoseIngestAnswer, Side
  <2>2. SeenIngest'
    BY <1>0, <1>9 DEF Ordered, SeenIngest, Seen, LoseIngestAnswer, IngestType
  <2> QED BY <1>0, <1>9, <2>1, <2>2, OrderFrame DEF LoseIngestAnswer, Ordered
<1>10. CASE IngestDies
  <2>1. SeenCalls'
    BY <1>0, <1>10, AbandonedIsSeen, OrderFrame DEF IngestDies, Side
  <2>2. SeenIngest'
    BY <1>0, <1>10 DEF SeenIngest, Seen, IngestDies, IngestIdle, NoListing
  <2> QED BY <1>0, <1>10, <2>1, <2>2, OrderFrame DEF IngestDies, Ordered
<1> QED
  BY <1>1, <1>2, <1>3, <1>4, <1>5, <1>6, <1>7, <1>8, <1>9, <1>10 DEF Ingest

\* The promote job copies what was written down, and plans only while its run's
\* listings are what the source shows.
LEMMA OrderPromote ==
    ASSUME OrderInv, Promote
    PROVE  Ordered'
<1>0. Ordered /\ PromoteType
  BY DEF OrderInv, HandInv, TypeOK
<1>s. source \in Nat
  <2>1. source \in Listing \cup {NoListing}
    BY DEF OrderInv, HandInv, TypeOK, WorldType
  <2> QED BY <2>1, PromotionAssumption DEF NoListing
<1>i. ASSUME source' = source, promote' = PromoteIdle
      PROVE  SeenPromote'
  BY <1>s, <1>i DEF SeenPromote, PromoteIdle, NoRun, Seen, SeenPrint, NoListing
<1>1. CASE ReadRun
  <2>1. latest \in 1..MaxRuns
    <3>1. latest \in 0..MaxRuns /\ latest > 0
      BY <1>1 DEF ReadRun, OrderInv, HandInv, TypeOK, RunsType
    <3> QED BY <3>1, PromotionAssumption
  <2>2. PICK r : r = runs[latest] /\ Seen(r.listing) /\ SeenPrint(r.prior)
    BY <1>0, <2>1 DEF Ordered, SeenRuns
  <2>3. promote'.at = "gate" /\ promote'.run = r
    BY <1>1, <2>2 DEF ReadRun, PromoteIdle
  <2>4. SeenPromote'
    BY <1>1, <2>2, <2>3 DEF SeenPromote, SeenPrint, Seen, ReadRun
  <2> QED BY <1>0, <1>1, <2>4, OrderFrame DEF ReadRun, Ordered
\* A step that moves on with the run it read, neither to the plan nor from it.
<1>m. ASSUME source' = source, promote'.run = promote.run,
             promote'.at \notin {"plan", "dry run", "applying"}
      PROVE  SeenPromote'
  BY <1>0, <1>m DEF Ordered, SeenPromote, SeenPrint, Seen
<1>2. CASE GateReadsRun
  <2>1. promote'.run = promote.run /\ promote'.at = "checks"
    BY <1>0, <1>2 DEF GateReadsRun, PromoteType
  <2> QED BY <1>0, <1>2, <1>m, <2>1, OrderFrame DEF GateReadsRun, Ordered
<1>3. CASE GateChecks
  <2>1. promote'.run = promote.run /\ promote'.at \in {"inputs", "refused"}
    BY <1>0, <1>3 DEF GateChecks, Goes, PromoteType
  <2> QED BY <1>0, <1>3, <1>m, <2>1, OrderFrame DEF GateChecks, Ordered
<1>4. CASE GateInputs
  <2>1. promote'.run = promote.run /\ promote'.at \in {"prior", "refused"}
    BY <1>0, <1>4 DEF GateInputs, Goes, PromoteType
  <2> QED BY <1>0, <1>4, <1>m, <2>1, OrderFrame DEF GateInputs, Ordered
<1>5. CASE CheckPrior
  <2>1. promote'.run = promote.run /\ promote'.at \in {"plan", "refused"}
    BY <1>0, <1>5 DEF CheckPrior, Goes, PromoteType
  <2>2. CASE promote'.at = "refused"
    BY <1>0, <1>5, <1>m, <2>1, <2>2, OrderFrame DEF CheckPrior, Ordered
  <2>3. CASE promote'.at = "plan"
    <3>1. PICK h : h = Held("prod")
      OBVIOUS
    <3>2. /\ promote'.prior = IF h = promote.run.result \/ ~HasResults("prod")
                              THEN None ELSE h
          /\ \/ h = promote.run.result \/ ~HasResults("prod")
             \/ KnownPrior(h, promote.run, promote.id)
      BY <1>0, <1>5, <2>3, <3>1 DEF CheckPrior, Goes, PromoteType
    <3>3. KnownPrior(h, promote.run, promote.id) => SeenPrint(h)
      <4>1. promote.id \in 0..MaxRuns
        BY <1>0 DEF PromoteType
      <4>2. \A i \in 1..(promote.id - 1) : i \in 1..MaxRuns
        BY <4>1, PromotionAssumption
      <4> QED
        BY <1>0, <4>2 DEF KnownPrior, Earlier, Ordered, SeenRuns, SeenPromote
    <3>4. SeenPrint(promote'.prior)
      BY <3>2, <3>3 DEF SeenPrint
    <3>5. SeenPromote'
      BY <1>0, <1>5, <2>1, <2>3, <3>4 DEF CheckPrior, Ordered, SeenPromote, SeenPrint, Seen
    <3> QED BY <1>0, <1>5, <3>5, OrderFrame DEF CheckPrior, Ordered
  <2> QED BY <2>1, <2>2, <2>3
<1>6. CASE Plan
  <2>1. /\ promote'.run = promote.run /\ promote'.prior = promote.prior
        /\ promote'.at \in {"dry run", "refused"}
        /\ promote'.at = "dry run" => source = promote.run.listing
    BY <1>0, <1>6 DEF Plan, Goes, PromoteType, SourceUnchanged
  <2>2. SeenPrint(promote.prior)
    BY <1>0, <1>6 DEF Plan, Ordered, SeenPromote
  <2>3. promote'.at = "dry run" => Forward(promote'.prior, promote'.run.listing)
    BY <2>1, <2>2 DEF Forward, SeenPrint, Seen
  <2>4. SeenPromote'
    BY <1>0, <1>6, <2>1, <2>3 DEF Plan, Ordered, SeenPromote, SeenPrint, Seen, Forward
  <2> QED BY <1>0, <1>6, <2>4, OrderFrame DEF Plan, Ordered
<1>7. CASE DryRun
  <2>1. /\ promote'.run = promote.run /\ promote'.prior = promote.prior
        /\ promote'.at \in {"applying", "refused"} /\ promote.at = "dry run"
    BY <1>0, <1>7 DEF DryRun, Goes, PromoteType
  <2>2. SeenPromote'
    BY <1>0, <1>7, <2>1 DEF DryRun, Ordered, SeenPromote, SeenPrint, Seen, Forward
  <2> QED BY <1>0, <1>7, <2>2, OrderFrame DEF DryRun, Ordered
<1>8. CASE SettlePromote
  <2>1. promote'.run = promote.run /\ promote'.at \in {"drain", "refused"}
    BY <1>0, <1>8 DEF SettlePromote, Goes, PromoteType
  <2> QED BY <1>0, <1>8, <1>m, <2>1, OrderFrame DEF SettlePromote, Ordered
<1>9. CASE LosePromoteAnswer
  <2>1. SeenCalls'
    BY <1>9, AbandonedIsSeen DEF LosePromoteAnswer, Side
  <2>2. promote'.run = promote.run /\ promote'.at = "unanswered"
    BY <1>0, <1>9 DEF LosePromoteAnswer, PromoteType
  <2> QED BY <1>0, <1>9, <1>m, <2>1, <2>2, OrderFrame DEF LosePromoteAnswer, Ordered
<1>10. CASE DrainProd
  <2>1. SeenContent'
    BY <1>10, RefiledIsSeen DEF DrainProd, Side
  <2>2. promote'.run = promote.run /\ promote'.at = "record"
    BY <1>0, <1>10 DEF DrainProd, PromoteType
  <2> QED BY <1>0, <1>10, <1>m, <2>1, <2>2, OrderFrame DEF DrainProd, Ordered
<1>11. CASE Record
  <2>1. PICK l : runs' = runs \/ runs' = [runs EXCEPT ![promote.id].ledger = l]
    BY <1>11 DEF Record
  <2>2. ASSUME NEW i \in 1..MaxRuns
        PROVE  /\ runs'[i].listing = runs[i].listing
               /\ runs'[i].prior = runs[i].prior /\ runs'[i].result = runs[i].result
    <3>1. PICK r \in Row : r = runs[i]
      BY DEF OrderInv, HandInv, TypeOK, RunsType
    <3>2. runs'[i] = r \/ runs'[i] = [r EXCEPT !.ledger = l]
      BY <2>1, <3>1 DEF OrderInv, HandInv, TypeOK, RunsType
    <3> QED BY <3>1, <3>2 DEF Row
  <2>3. SeenRuns'
    BY <1>0, <1>11, <2>2 DEF Ordered, SeenRuns, SeenPrint, Seen, Record
  <2> QED BY <1>0, <1>11, <1>i, <2>3, OrderFrame DEF Record, Ordered
<1>12. CASE PromoteDies
  <2>1. SeenCalls'
    BY <1>0, <1>12, AbandonedIsSeen, OrderFrame DEF PromoteDies, Side
  <2> QED BY <1>0, <1>12, <1>i, <2>1, OrderFrame DEF PromoteDies, Ordered
<1> QED
  BY <1>1, <1>2, <1>3, <1>4, <1>5, <1>6, <1>7, <1>8, <1>9, <1>10, <1>11, <1>12 DEF Promote

LEMMA OrderInvHolds ==
    ASSUME Undo = FALSE
    PROVE  Spec => []OrderInv
<1>1. Init => OrderInv
  <2> SUFFICES ASSUME Init
               PROVE  OrderInv
    OBVIOUS
  <2>0. Seen(NoListing) /\ SeenPrint(None)
    BY DEF Init, Seen, SeenPrint, NoListing
  <2>1. SeenContent
    BY <2>0 DEF Init, SeenContent, Nothing
  <2>2. SeenRuns
    BY <2>0 DEF Init, SeenRuns, NoRun
  <2>3. SeenIngest /\ SeenPromote
    BY <2>0 DEF Init, SeenIngest, SeenPromote, IngestIdle, PromoteIdle, NoRun
  <2>4. SeenCalls
    BY DEF Init, SeenCalls, Side
  <2> QED BY <2>1, <2>2, <2>3, <2>4, InitHandInv DEF OrderInv, Ordered
<1>2. OrderInv /\ [Next]_vars => OrderInv'
  <2> SUFFICES ASSUME OrderInv, [Next]_vars
               PROVE  OrderInv'
    OBVIOUS
  <2>1. CASE World
    BY <2>1, OrderWorld, WorldStep DEF OrderInv
  <2>2. CASE Ingest
    BY <2>2, OrderIngest, IngestStep DEF OrderInv
  <2>3. CASE Promote
    BY <2>3, OrderPromote, PromoteStep DEF OrderInv
  <2>4. CASE UNCHANGED vars
    <3>1. HandInv'
      <4>1. TypeOK'
        BY <2>4, Frame DEF vars, bounds, OrderInv, HandInv, TypeOK
      <4>2. Phases' /\ Foreign'
        BY <2>4 DEF vars, OrderInv, HandInv, Phases, Foreign
      <4> QED BY <4>1, <4>2 DEF HandInv
    <3> QED BY <2>4, <3>1, OrderFrame DEF vars, OrderInv, Ordered
  <2> QED BY <2>1, <2>2, <2>3, <2>4 DEF Next
<1> QED BY <1>1, <1>2, PTL DEF Spec

\* What an apply puts on PROD is no older than what it replaces: it names what PROD
\* holds as the prior it goes forward from, or PROD holds nothing.
LEMMA StoredIsNoOlder ==
    ASSUME TypeOK, NEW q, Seen(q.listing), Forward(q.prior, q.listing),
           content["prod"].listing # ByHand,
           Skips("prod", q) \/ Accepts("prod", q)
    PROVE  Stored("prod", q).listing >= content["prod"].listing
<1>1. content["prod"].listing \in Nat
  <2>1. content["prod"] \in Contents
    BY DEF TypeOK, ContentType, Contents, Side
  <2>2. content["prod"].listing \in Listing \cup {NoListing}
    BY <2>1 DEF Contents, Nothing
  <2>3. Listing \subseteq Nat /\ NoListing \in Nat
    BY PromotionAssumption DEF NoListing
  <2> QED BY <2>2, <2>3
<1>2. CASE Skips("prod", q)
  BY <1>1, <1>2 DEF Stored
<1>3. CASE ~Skips("prod", q) /\ q.prior = None
  <2>1. content["prod"].listing = 0 /\ q.listing \in Nat
    BY <1>3 DEF Accepts, HasResults, NoListing, Seen
  <2> QED BY <1>3, <2>1 DEF Stored
<1>4. CASE ~Skips("prod", q) /\ q.prior # None
  <2>1. Held("prod") = q.prior /\ Held("prod")[1] = content["prod"].listing
    BY <1>4, HeldIsResult DEF Accepts, Side
  <2>2. content["prod"].listing <= q.listing /\ q.listing \in Nat
    BY <1>4, <2>1 DEF Forward, Seen
  <2> QED BY <1>1, <1>4, <2>2 DEF Stored
<1> QED BY <1>2, <1>3, <1>4

\* No step takes PROD back to older listings.
LEMMA NoStepGoesBack ==
    ASSUME OrderInv, [Next]_vars, content["prod"].listing # ByHand,
           content'["prod"].listing # ByHand
    PROVE  content'["prod"].listing >= content["prod"].listing
<1>0. TypeOK /\ Ordered /\ content \in [Side -> Contents]
  BY DEF OrderInv, HandInv, TypeOK, ContentType, Contents
<1>1. content["prod"].listing \in Nat
  BY <1>0 DEF Ordered, SeenContent, Seen, Side
<1>2. ASSUME NEW s \in Side, NEW q, Seen(q.listing),
             s = "prod" => Forward(q.prior, q.listing),
             Skips(s, q) \/ Accepts(s, q), content' = [content EXCEPT ![s] = Stored(s, q)]
      PROVE  content'["prod"].listing >= content["prod"].listing
  <2>1. CASE s = "prod"
    BY <1>0, <1>2, <2>1, StoredIsNoOlder
  <2>2. CASE s = "cert"
    BY <1>0, <1>1, <1>2, <2>2 DEF Side
  <2> QED BY <2>1, <2>2 DEF Side
<1>3. ASSUME NEW s \in Side, Commit(s)
      PROVE  content'["prod"].listing >= content["prod"].listing
  BY <1>2, <1>3, RequestIsSeen DEF Commit
<1>4. ASSUME NEW s \in Side, CommitLate(s)
      PROVE  content'["prod"].listing >= content["prod"].listing
  <2>1. CASE content' = content
    BY <1>1, <2>1
  <2>2. CASE content' # content
    <3>1. PICK q \in late[s] : /\ Skips(s, q) \/ Accepts(s, q)
                               /\ content' = [content EXCEPT ![s] = Stored(s, q)]
      BY <1>4, <2>2 DEF CommitLate
    <3>2. Seen(q.listing) /\ (s = "prod" => Forward(q.prior, q.listing))
      BY <1>0, <3>1 DEF Ordered, SeenCalls
    <3> QED BY <1>2, <3>1, <3>2
  <2> QED BY <2>1, <2>2
<1>5. ASSUME NEW s \in Side, Refile(s)
      PROVE  content'["prod"].listing >= content["prod"].listing
  BY <1>0, <1>1, <1>5, RefiledKeepsListings DEF Side
<1>6. CASE HandWrite
  BY <1>0, <1>6 DEF HandWrite, Side
<1>7. CASE UNCHANGED content
  BY <1>1, <1>7
<1>8. CASE World
  BY <1>3, <1>4, <1>5, <1>6, <1>7, <1>8 DEF World, SourceMoves, Correct, ScheduledDrain,
     RollBack, Side
<1>9. CASE Ingest
  BY <1>5, <1>7, <1>9 DEF Ingest, Refresh, DrainCert, ReadSource, OpenRun, PlanFails,
     NothingFinal, SendCert, SettleIngest, LoseIngestAnswer, IngestDies, Side
<1>10. CASE Promote
  BY <1>5, <1>7, <1>10 DEF Promote, ReadRun, GateReadsRun, GateChecks, GateInputs,
     CheckPrior, Plan, DryRun, SettlePromote, LosePromoteAnswer, DrainProd, Record,
     PromoteDies, Side
<1>11. CASE UNCHANGED vars
  BY <1>7, <1>11 DEF vars
<1> QED BY <1>8, <1>9, <1>10, <1>11 DEF Next

\* As long as the organiser takes no listing back and no correction is undone, PROD
\* never goes back to an older version of the listings, in whatever order ingests,
\* promotes, lost answers, late commits, deaths and foreign writes come.
THEOREM PublishedNeverOlder ==
    ASSUME Undo = FALSE
    PROVE  Spec => NeverOlder
<1> DEFINE Back == ~(\/ content'["prod"].listing = ByHand \/ content["prod"].listing = ByHand
                     \/ content'["prod"].listing >= content["prod"].listing)
<1>1. OrderInv /\ [Next]_vars => ~Back
  BY NoStepGoesBack
<1> QED BY <1>1, OrderInvHolds, PTL DEF Spec, NeverOlder
=============================================================================
