---------------------------- MODULE RosterRefresh ----------------------------
(***************************************************************************)
(* The target (CERT, or LOCAL; "cert" here) takes PROD's fencers with       *)
(* PROD's ids (promotion/refresh.py, fn_align_fencers_to): the rosters are  *)
(* read, paired by name and birth year, and the target's rows renumbered in *)
(* one transaction; then the event's registrations are copied.  Between any *)
(* two calls both rosters may change, and the run may die.                  *)
(***************************************************************************)
EXTENDS Integers, FiniteSets, Functions

CONSTANTS
    Person,                \* people; who a row is about is what no code can see
    Name,                  \* each person's folded surname and first name
    TrueYear,              \* each person's birth year
    NoYear,                \* a birth year that is NULL
    Result,                \* rows on CERT that refer to a fencer
    MaxId,                 \* bounds the ids
    MaxWrites,             \* bounds what the world does to the rosters, and deaths
    StartCert, StartProd,  \* the rosters the two databases may begin with
    Careless               \* are the rules disregarded that the code cannot check?

Side == {"cert", "prod"}
Id   == 1..MaxId
Year == Range(TrueYear)
Row  == [person : Person, year : Year \cup {NoYear}, estimated : BOOLEAN]

Confirmed(row) == IF row.estimated THEN NoYear ELSE row.year
Honest(row)    == Confirmed(row) \in {NoYear, TrueYear[row.person]}
IsRoster(f)    == /\ DOMAIN f \subseteq Id /\ f \in [DOMAIN f -> Row]
                  /\ \A i \in DOMAIN f : Honest(f[i])

ASSUME RefreshAssumption ==
    /\ DOMAIN TrueYear = Person /\ DOMAIN Name = Person
    /\ Year \subseteq Nat /\ NoYear \notin Year
    /\ \A p, q \in Person : Name[p] = Name[q] /\ TrueYear[p] = TrueYear[q] => p = q
    /\ MaxId \in Nat \ {0} /\ MaxWrites \in Nat /\ Careless \in BOOLEAN
    /\ \A f \in StartCert \cup StartProd : IsRoster(f)

VARIABLES
    roster,    \* per side, tbl_fencer: id to row
    sequence,  \* per side, the last id the sequence gave out
    link,      \* CERT's rows that refer to a fencer: whose id they hold
    entry,     \* per side, the event's registrations: who entered, linked to which id
    recorded,  \* doc/overrides/fencer-alignment.yaml
    point,     \* the restore point of the last apply; done says its alignment took place
    job,       \* the refresh under way
    writes

vars == <<roster, sequence, link, entry, recorded, point, job, writes>>

Empty   == [i \in {} |-> i]
NoPoint == [roster |-> Empty, pairs |-> {}, created |-> {}, done |-> FALSE]
NoJob   == [at |-> "idle", mode |-> "none", target |-> Empty, prod |-> Empty,
            recorded |-> {}, pairs |-> {}, deletes |-> {}, last |-> 0, entries |-> Empty]

Stages == {"idle", "target", "prod", "plan", "sequence", "dry run", "point", "align", "entries", "copy"}
Modes  == {"none", "auto", "apply", "mirror", "restore"}

Record == [cert : Id, year : Year \cup {NoYear}, prod : Id, who : Person]

References == Range(link) \cup Range(entry["cert"])

TypeOK ==
    /\ DOMAIN roster = Side /\ \A s \in Side : IsRoster(roster[s])
    /\ sequence \in [Side -> 0..MaxId]
    /\ \A s \in Side : \A i \in DOMAIN roster[s] : i <= sequence[s]
    /\ DOMAIN link \subseteq Result
    /\ DOMAIN entry = Side /\ \A s \in Side : DOMAIN entry[s] \subseteq Person
    /\ References \subseteq DOMAIN roster["cert"] /\ Range(entry["prod"]) \subseteq DOMAIN roster["prod"]
    /\ recorded \subseteq Record
    /\ IsRoster(point.roster) /\ point.pairs \subseteq Id \X Id /\ point.created \subseteq Id
    /\ job.at \in Stages /\ job.mode \in Modes
    /\ IsRoster(job.target) /\ IsRoster(job.prod)
    /\ job.recorded \subseteq Record /\ job.pairs \subseteq Id \X Id /\ job.deletes \subseteq Id
    /\ job.last \in 0..MaxId
    /\ DOMAIN job.entries \subseteq Person /\ Range(job.entries) \subseteq Id
    /\ writes \in 0..MaxWrites

-----------------------------------------------------------------------------
(* pair_rosters: t is the target's roster, p is PROD's, R the recorded pairs *)

Firsts(S)  == {q[1] : q \in S}
Seconds(S) == {q[2] : q \in S}
Named(f, ids, n) == {i \in ids : Name[f[i].person] = n}

ByRecord(R) == {<<d.cert, d.prod>> : d \in R}
RecordsHold(t, p, R) ==
    /\ \A d \in R : /\ d.cert \in DOMAIN t /\ d.prod \in DOMAIN p
                    /\ Name[t[d.cert].person] = Name[d.who] /\ t[d.cert].year = d.year
    /\ \A c, d \in R : c.cert = d.cert \/ c.prod = d.prod => c = d

OneEach(T, P) == Cardinality(T) = 1 /\ Cardinality(P) = 1

\* Mutant: an estimated year of the target counts.
ByAnyYear(t, p, T, P) ==
    {q \in T \X P : LET year == Confirmed(p[q[2]]) IN
        /\ year # NoYear /\ t[q[1]].year = year
        /\ \A j \in P \ {q[2]} : p[j].year # year
        /\ \A i \in T \ {q[1]} : t[i].year # year}

\* Namesakes: PROD's year is confirmed and no other PROD fencer of the name has it,
\* and exactly one target fencer of the name has it confirmed.
ByYear(t, p, T, P) ==
    {q \in T \X P : LET year == Confirmed(p[q[2]]) IN
        /\ year # NoYear /\ Confirmed(t[q[1]]) = year
        /\ \A j \in P \ {q[2]} : p[j].year # year
        /\ \A i \in T \ {q[1]} : Confirmed(t[i]) # year}

PairsOfName(t, p, R, n) ==
    LET T == Named(t, DOMAIN t \ Firsts(ByRecord(R)), n)
        P == Named(p, DOMAIN p \ Seconds(ByRecord(R)), n)
    IN  IF OneEach(T, P) THEN T \X P ELSE ByYear(t, p, T, P)

Pairs(t, p, R)   == ByRecord(R) \cup UNION {PairsOfName(t, p, R, n) : n \in Range(Name)}
Creates(t, p, R) == DOMAIN p \ Seconds(Pairs(t, p, R))
Deletes(t, p, R) == DOMAIN t \ Firsts(Pairs(t, p, R))

\* Mutant: a fencer who is new on PROD stops the refresh too.
ReadyPaired(t, p, R, referenced) ==
    /\ RecordsHold(t, p, R)
    /\ Deletes(t, p, R) \cap referenced = {} /\ Creates(t, p, R) = {}

Ready(t, p, R, referenced) ==
    /\ RecordsHold(t, p, R)
    /\ Deletes(t, p, R) \cap referenced = {}
    /\ \A i \in Deletes(t, p, R), j \in Creates(t, p, R) : Name[t[i].person] # Name[p[j].person]

Moves(pairs) == \E q \in pairs : q[1] # q[2]

\* The administrator's rule, which the pairing takes for granted: one fencer of a
\* name on each side is the same person.
OneEachIsOne(t, p, R) ==
    \A n \in Range(Name) :
        LET T == Named(t, DOMAIN t \ Firsts(ByRecord(R)), n)
            P == Named(p, DOMAIN p \ Seconds(ByRecord(R)), n)
        IN  OneEach(T, P) => \A i \in T, j \in P : t[i].person = p[j].person

-----------------------------------------------------------------------------
Last(S, n) == n \in S /\ \A i \in S : i <= n

Init ==
    /\ \E c \in StartCert, p \in StartProd :
          roster = [s \in Side |-> IF s = "cert" THEN c ELSE p]
    /\ sequence \in [Side -> Id]
    /\ \A s \in Side : Last(DOMAIN roster[s] \cup {1}, sequence[s])
    /\ link \in [Result -> DOMAIN roster["cert"]]
    /\ entry = [s \in Side |-> Empty]
    /\ recorded = {}
    /\ point = NoPoint
    /\ job = NoJob
    /\ writes = 0

-----------------------------------------------------------------------------
(* run_refresh *)

Goto(stage) == job' = [job EXCEPT !.at = stage]

Start(mode) ==
    /\ job.at = "idle"
    /\ job' = [NoJob EXCEPT !.at = "target", !.mode = mode, !.recorded = recorded]
    /\ UNCHANGED <<roster, sequence, link, entry, recorded, point, writes>>

ReadTarget ==
    /\ job.at = "target"
    /\ job' = [job EXCEPT !.at = "prod", !.target = roster["cert"]]
    /\ UNCHANGED <<roster, sequence, link, entry, recorded, point, writes>>

ReadProd ==
    /\ job.at = "prod"
    /\ job' = [job EXCEPT !.at = "plan", !.prod = roster["prod"]]
    /\ UNCHANGED <<roster, sequence, link, entry, recorded, point, writes>>

Plan ==
    /\ job.at = "plan" /\ job.mode # "mirror"
    /\ Careless \/ OneEachIsOne(job.target, job.prod, job.recorded)
    /\ LET pairs == Pairs(job.target, job.prod, job.recorded)
       IN  job' = IF /\ Ready(job.target, job.prod, job.recorded, References)
                     /\ job.mode = "auto" => ~Moves(pairs)
                  THEN [job EXCEPT !.at = "sequence", !.pairs = pairs,
                                   !.deletes = Deletes(job.target, job.prod, job.recorded)]
                  ELSE NoJob
    /\ UNCHANGED <<roster, sequence, link, entry, recorded, point, writes>>

ReadSequence ==
    /\ job.at = "sequence"
    /\ job' = [job EXCEPT !.at = "dry run", !.last = sequence["prod"]]
    /\ UNCHANGED <<roster, sequence, link, entry, recorded, point, writes>>

\* What fn_align_fencers_to demands of the pairing, in its own transaction.
Accepts ==
    /\ Firsts(job.pairs) \cup job.deletes = DOMAIN roster["cert"]
    /\ Firsts(job.pairs) \cap job.deletes = {}
    /\ Seconds(job.pairs) \subseteq DOMAIN job.prod
    /\ \A q, r \in job.pairs : q[1] = r[1] \/ q[2] = r[2] => q = r
    /\ job.deletes \cap References = {}

\* Only a renumbering meets the V-category trigger (ALIGN_VCAT).
MayRefuse == ~Accepts \/ Moves(job.pairs)

DryRun ==
    /\ job.at = "dry run"
    /\ \/ Accepts /\ Goto(IF job.mode = "restore" THEN "align" ELSE "point")
       \/ MayRefuse /\ job' = NoJob
    /\ UNCHANGED <<roster, sequence, link, entry, recorded, point, writes>>

SavePoint ==
    /\ job.at = "point"
    /\ point' = [roster |-> job.target, pairs |-> job.pairs,
                 created |-> DOMAIN job.prod \ Seconds(job.pairs), done |-> FALSE]
    /\ Goto("align")
    /\ UNCHANGED <<roster, sequence, link, entry, recorded, writes>>

Partner(i)    == CHOOSE j \in Seconds(job.pairs) : <<i, j>> \in job.pairs
Renumbered(f) == [r \in DOMAIN f |-> Partner(f[r])]

\* The next ids come after PROD's fencers and after those PROD's sequence gave out.
SetSequence == \E n \in Id : /\ Last(DOMAIN job.prod \cup {job.last, 1}, n)
                             /\ sequence' = [sequence EXCEPT !["cert"] = n]

\* fn_align_fencers_to; an apply without an event copies no registrations.
Align ==
    /\ job.at = "align" /\ Accepts
    /\ roster'   = [roster EXCEPT !["cert"] = job.prod]
    /\ link'     = Renumbered(link)
    /\ entry'    = [entry EXCEPT !["cert"] = Renumbered(entry["cert"])]
    /\ SetSequence
    /\ recorded' = IF Careless THEN recorded
                   ELSE {d \in recorded : /\ d.cert = d.prod /\ d.prod \in DOMAIN job.prod
                                          /\ job.prod[d.prod].year = d.year}
    /\ point'    = [point EXCEPT !.done = (job.mode # "restore")]
    /\ \/ job.mode # "restore" /\ Goto("entries")
       \/ job.mode # "auto" /\ job' = NoJob
    /\ UNCHANGED writes

\* Rolled back; a setval is not, and by the rules none comes before a refusal.
AlignRefused ==
    /\ job.at = "align"
    /\ \/ MayRefuse /\ UNCHANGED sequence
       \/ Careless /\ Accepts /\ SetSequence
    /\ job' = NoJob
    /\ UNCHANGED <<roster, link, entry, recorded, point, writes>>

ReadEntries ==
    /\ job.at = "entries"
    /\ job' = [job EXCEPT !.at = "copy", !.entries = entry["prod"]]
    /\ UNCHANGED <<roster, sequence, link, entry, recorded, point, writes>>

\* fn_replace_event_registrations refuses a link the target does not know.  What
\* follows writes no roster: the results links, the drain, the comparison.
CopyEntries ==
    /\ job.at = "copy"
    /\ entry' = [entry EXCEPT !["cert"] = IF Range(job.entries) \subseteq DOMAIN roster["cert"]
                                          THEN job.entries ELSE @]
    /\ job' = NoJob
    /\ UNCHANGED <<roster, sequence, link, recorded, point, writes>>

\* Mutant: the copy trusts the ids.
MirrorUnverified ==
    /\ job.at = "plan" /\ job.mode = "mirror"
    /\ Goto("entries")
    /\ UNCHANGED <<roster, sequence, link, entry, recorded, point, writes>>

\* roster_diff sees a row's fields, not the person.  The other fields it compares (club,
\* nationality, aliases) are taken to be equal for namesakes.
Looks(row) == <<Name[row.person], row.year, row.estimated>>
SameLooks(t, p) == DOMAIN t = DOMAIN p /\ \A i \in DOMAIN t : Looks(t[i]) = Looks(p[i])

\* run_copy_registrations: the rosters must look equal before the registrations are copied.
Mirror ==
    /\ job.at = "plan" /\ job.mode = "mirror"
    /\ IF SameLooks(job.target, job.prod) THEN Goto("entries") ELSE job' = NoJob
    /\ UNCHANGED <<roster, sequence, link, entry, recorded, point, writes>>

\* run_restore: the inverse pairing and the saved roster, valid until the target
\* is aligned again.
Restore ==
    /\ job.at = "idle" /\ point # NoPoint
    /\ Careless \/ (point.done /\ recorded = {})
    /\ job' = [NoJob EXCEPT !.at = "dry run", !.mode = "restore", !.prod = point.roster,
                            !.pairs = {<<q[2], q[1]>> : q \in point.pairs},
                            !.deletes = point.created]
    /\ UNCHANGED <<roster, sequence, link, entry, recorded, point, writes>>

Step == \/ ReadTarget \/ ReadProd \/ Plan \/ ReadSequence \/ DryRun \/ SavePoint \/ Align
        \/ AlignRefused \/ ReadEntries \/ CopyEntries \/ Mirror

-----------------------------------------------------------------------------
(* The world *)

Write == writes < MaxWrites /\ writes' = writes + 1

\* The run dies; a plan or a dry run ends without writing anyway.
Die ==
    /\ job.at # "idle" /\ Write
    /\ job' = NoJob
    /\ UNCHANGED <<roster, sequence, link, entry, recorded, point>>

\* fn_create_fencer_from_match, or an ingest's new fencer; an id that is taken is lost.
Create(s) ==
    /\ Write
    /\ \E row \in Row, i \in Id :
          /\ i = sequence[s] + 1 /\ Honest(row)
          /\ roster' = [roster EXCEPT ![s] = IF i \in DOMAIN @ THEN @
                            ELSE [k \in DOMAIN @ \cup {i} |-> IF k = i THEN row ELSE @[k]]]
          /\ sequence' = [sequence EXCEPT ![s] = i]
    /\ UNCHANGED <<link, entry, recorded, point, job>>

\* A promote brings a fencer to PROD whom CERT's ingest created, with CERT's id: one
\* that is free on PROD, by the rules never one that the refresh under way or a
\* decision took for somebody merged away since.
Stale(i) == \/ job.mode # "restore" /\ i \in DOMAIN job.prod
            \/ \E d \in recorded : d.prod = i
Promote(i) ==
    /\ Write
    /\ i \notin DOMAIN roster["prod"] /\ (Careless \/ ~Stale(i))
    /\ \A j \in DOMAIN roster["prod"] : roster["prod"][j].person # roster["cert"][i].person
    /\ roster' = [roster EXCEPT !["prod"] =
                     [k \in DOMAIN @ \cup {i} |-> IF k = i THEN roster["cert"][i] ELSE @[k]]]
    /\ sequence' = [sequence EXCEPT !["prod"] = IF @ < i THEN i ELSE @]
    /\ UNCHANGED <<link, entry, recorded, point, job>>

\* fn_update_fencer_birth_year confirms a year.
Confirm(s, i) ==
    /\ Write
    /\ roster' = [roster EXCEPT ![s][i] = [person |-> @.person, year |-> TrueYear[@.person],
                                           estimated |-> FALSE]]
    /\ UNCHANGED <<sequence, link, entry, recorded, point, job>>

\* Mutant: the references stay with j.
MergedForgetting(f, i, j) == f

\* fn_merge_fencers: j's results go to i, and j goes; a registration keeps j there.
Merged(f, i, j) == [r \in DOMAIN f |-> IF f[r] = j THEN i ELSE f[r]]
Merge(s, i, j) ==
    /\ Write
    /\ i # j /\ roster[s][i].person = roster[s][j].person /\ j \notin Range(entry[s])
    /\ roster' = [roster EXCEPT ![s] = [k \in DOMAIN @ \ {j} |-> @[k]]]
    /\ link' = IF s = "cert" THEN Merged(link, i, j) ELSE link
    /\ UNCHANGED <<sequence, entry, recorded, point, job>>

\* An ingest files a result for a fencer.
File(r, i) ==
    /\ Write
    /\ link' = [k \in DOMAIN link \cup {r} |-> IF k = r THEN i ELSE link[k]]
    /\ UNCHANGED <<roster, sequence, entry, recorded, point, job>>

\* Somebody enters the event on PROD.
Enter(j) ==
    /\ Write
    /\ LET p == roster["prod"][j].person
       IN  entry' = [entry EXCEPT !["prod"] = [k \in DOMAIN @ \cup {p} |-> IF k = p THEN j ELSE @[k]]]
    /\ UNCHANGED <<roster, sequence, link, recorded, point, job>>

\* The administrator records whose row is whose, after a refresh that stopped.
Decide(i, j) ==
    /\ Write /\ job.at = "idle"
    /\ roster["cert"][i].person = roster["prod"][j].person
    /\ recorded' = recorded \cup {[cert |-> i, year |-> roster["cert"][i].year, prod |-> j,
                                   who |-> roster["cert"][i].person]}
    /\ UNCHANGED <<roster, sequence, link, entry, point, job>>

World ==
    \/ Die
    \/ \E s \in Side : \/ Create(s)
                       \/ \E i \in DOMAIN roster[s] : Confirm(s, i)
                       \/ \E i, j \in DOMAIN roster[s] : Merge(s, i, j)
    \/ \E i \in DOMAIN roster["cert"] : \/ Promote(i)
                                        \/ \E r \in Result : File(r, i)
                                        \/ \E j \in DOMAIN roster["prod"] : Decide(i, j)
    \/ \E j \in DOMAIN roster["prod"] : Enter(j)

Next == (\E mode \in {"auto", "apply", "mirror"} : Start(mode)) \/ Restore \/ Step \/ World

Spec == Init /\ [][Next]_vars
FairSpec == Spec /\ WF_vars(Step) /\ SF_vars(Start("auto"))

-----------------------------------------------------------------------------
(* Properties *)

(* An alignment, or the restore that undoes it, leaves every row that refers *)
(* to a fencer with the person it named, whoever has which id by then and    *)
(* whatever happened since the rosters were read ("every person must hold    *)
(* exactly the rows they held before", fn_align_fencers_to; namesakes are    *)
(* not guessed, pair_rosters).                                              *)
PersonsKeepRows ==
    [][Align => /\ \A r \in DOMAIN link :
                      roster'["cert"][link'[r]].person = roster["cert"][link[r]].person
                /\ \A p \in DOMAIN entry["cert"] :
                      roster'["cert"][entry'["cert"][p]].person
                          = roster["cert"][entry["cert"][p]].person]_vars

(* Two people whom the copy takes for one: under the id i both rosters it      *)
(* compared have a row, and nothing in the rows tells them apart.            *)
TakenForOne(i) ==
    /\ job.mode = "mirror" /\ i \in DOMAIN job.target \cap DOMAIN job.prod
    /\ Looks(job.target[i]) = Looks(job.prod[i])
    /\ job.target[i].person # job.prod[i].person

(* A registration copied from PROD, which is read long after the roster, is  *)
(* linked to the same person on the target (run_refresh,                    *)
(* run_copy_registrations); aside are fencers the target created meanwhile,  *)
(* and in the mirror's copy namesakes whose rows look the same.             *)
CopiedEntriesTheirs ==
    [][CopyEntries => \A p \in DOMAIN job.entries :
          job.entries[p] \in DOMAIN job.prod \cap DOMAIN roster["cert"]
              => \/ roster["cert"][job.entries[p]].person = p
                 \/ TakenForOne(job.entries[p])]_vars

(* Nothing for an administrator to decide: ids agree, and the namesakes'      *)
(* years are confirmed and differ.                                          *)
Decided(f, n) == \A i, j \in Named(f, DOMAIN f, n) :
                    Confirmed(f[i]) # NoYear /\ (i # j => f[i].year # f[j].year)
Agreeable ==
    LET t == roster["cert"]
        p == roster["prod"]
    IN  /\ recorded = {}
        /\ \A i \in DOMAIN t : i \in DOMAIN p /\ t[i].person = p[i].person
        /\ \A n \in Range(Name) : \/ OneEach(Named(t, DOMAIN t, n), Named(p, DOMAIN p, n))
                                  \/ Decided(t, n) /\ Decided(p, n)

(* The automatic refresh alone brings CERT to PROD where nothing is left to   *)
(* decide, whatever runs died or were overtaken before (ADR-113 section 7).  *)
AutoCatchesUp == <>[]Agreeable => []<>(roster["cert"] = roster["prod"])
=============================================================================
