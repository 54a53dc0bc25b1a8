------------------------ MODULE RosterRefreshProofs ------------------------
(***************************************************************************)
(* What holds of RosterRefresh for every set of people, names and years,   *)
(* every pair of rosters to begin with and every bound, as long as the     *)
(* rules the code cannot check are kept.  An id means one person from the  *)
(* moment a refresh reads it until its alignment.                          *)
(***************************************************************************)
EXTENDS RosterRefresh, TLAPS

Rosters  == {f \in UNION {[D -> Row] : D \in SUBSET Id} : \A i \in DOMAIN f : Honest(f[i])}
Links(S) == UNION {[D -> Id] : D \in SUBSET S}
Points   == [roster : Rosters, pairs : SUBSET (Id \X Id), created : SUBSET Id, done : BOOLEAN]
Jobs     == [at : Stages, mode : Modes, target : Rosters, prod : Rosters,
             recorded : SUBSET Record, pairs : SUBSET (Id \X Id), deletes : SUBSET Id,
             last : 0..MaxId, entries : Links(Person)]

(* TypeOK in the parts the steps disturb, with functions as members of sets. *)
RostersTyped == /\ roster \in [Side -> Rosters]
                /\ sequence \in [Side -> 0..MaxId]
                /\ \A s \in Side : \A i \in DOMAIN roster[s] : i <= sequence[s]
LinksTyped   == /\ link \in Links(Result)
                /\ entry \in [Side -> Links(Person)]
LinksHeld    == /\ \A r \in DOMAIN link : link[r] \in DOMAIN roster["cert"]
                /\ \A s \in Side : \A p \in DOMAIN entry[s] : entry[s][p] \in DOMAIN roster[s]
PointTyped   == recorded \subseteq Record /\ point \in Points
JobTyped     == job \in Jobs
Typed        == /\ RostersTyped /\ LinksTyped /\ LinksHeld /\ PointTyped /\ JobTyped
                /\ writes \in 0..MaxWrites

LEMMA RosterSet == \A f : f \in Rosters <=> IsRoster(f)
  BY DEF Rosters, IsRoster

LEMMA LinkSet ==
    ASSUME NEW S, NEW f
    PROVE  f \in Links(S) <=> DOMAIN f \subseteq S /\ f \in [DOMAIN f -> Id]
  BY DEF Links

LEMMA EmptySets == Empty \in Rosters /\ \A S : Empty \in Links(S)
<1>1. Empty \in [{} -> Row] /\ Empty \in [{} -> Id] /\ DOMAIN Empty = {}
  BY DEF Empty
<1> QED BY <1>1, RosterSet DEF Links, IsRoster

LEMMA TypedIsTypeOK == Typed => TypeOK
<1> SUFFICES ASSUME Typed PROVE TypeOK
  OBVIOUS
<1>1. DOMAIN roster = Side /\ \A s \in Side : IsRoster(roster[s])
  BY RosterSet DEF Typed, RostersTyped
<1>2. DOMAIN entry = Side /\ (\A s \in Side : entry[s] \in Links(Person)) /\ link \in Links(Result)
  BY DEF Typed, LinksTyped
<1>3. DOMAIN link \subseteq Result /\ \A s \in Side : DOMAIN entry[s] \subseteq Person
  BY <1>2, LinkSet
<1>4. References \subseteq DOMAIN roster["cert"] /\ Range(entry["prod"]) \subseteq DOMAIN roster["prod"]
  BY DEF Typed, LinksHeld, References, Range, Side
<1>5. /\ IsRoster(point.roster) /\ point.pairs \subseteq Id \X Id /\ point.created \subseteq Id
      /\ recorded \subseteq Record
  BY RosterSet DEF Typed, PointTyped, Points
<1>6. job \in Jobs
  BY DEF Typed, JobTyped
<1>7. IsRoster(job.target) /\ IsRoster(job.prod)
  BY <1>6, RosterSet DEF Jobs
<1>8. job.entries \in Links(Person)
  BY <1>6 DEF Jobs
<1>9. DOMAIN job.entries \subseteq Person /\ Range(job.entries) \subseteq Id
  BY <1>8, LinkSet DEF Range
<1>10. /\ job.at \in Stages /\ job.mode \in Modes
       /\ job.recorded \subseteq Record /\ job.pairs \subseteq Id \X Id /\ job.deletes \subseteq Id
       /\ job.last \in 0..MaxId
  BY <1>6 DEF Jobs
<1>11. /\ sequence \in [Side -> 0..MaxId] /\ writes \in 0..MaxWrites
       /\ \A s \in Side : \A i \in DOMAIN roster[s] : i <= sequence[s]
  BY DEF Typed, RostersTyped
<1> QED
  BY <1>1, <1>2, <1>3, <1>4, <1>5, <1>7, <1>9, <1>10, <1>11 DEF TypeOK

-----------------------------------------------------------------------------
(* The start. *)

LEMMA LastIs ==
    ASSUME NEW S, NEW n, Last(S, n)
    PROVE  n \in S /\ \A i \in S : i <= n
  BY DEF Last

LEMMA NothingYet == NoPoint \in Points /\ NoJob \in Jobs
<1>1. Empty \in Rosters /\ Empty \in Links(Person)
  BY EmptySets
<1>2. 0 \in 0..MaxId
  BY RefreshAssumption
<1>3. NoPoint \in Points
  BY <1>1 DEF NoPoint, Points
<1>4. NoJob \in Jobs
  BY <1>1, <1>2 DEF NoJob, Jobs, Stages, Modes
<1> QED BY <1>3, <1>4

LEMMA TypedInit == Init => Typed
<1> SUFFICES ASSUME Init PROVE Typed
  OBVIOUS
<1> USE DEF Side
<1>1. PICK c \in StartCert, p \in StartProd : roster = [s \in Side |-> IF s = "cert" THEN c ELSE p]
  BY DEF Init
<1>2. c \in Rosters /\ p \in Rosters
  BY RefreshAssumption, RosterSet
<1>3. roster \in [Side -> Rosters] /\ roster["cert"] = c
  BY <1>1, <1>2
<1>4. sequence \in [Side -> 0..MaxId]
  BY RefreshAssumption DEF Init, Id
<1>5. \A s \in Side : \A i \in DOMAIN roster[s] : i <= sequence[s]
  BY LastIs DEF Init
<1>6. link \in [Result -> DOMAIN c] /\ DOMAIN c \subseteq Id
  BY <1>2, <1>3, RosterSet DEF Init, IsRoster
<1>7. link \in Links(Result) /\ \A r \in DOMAIN link : link[r] \in DOMAIN roster["cert"]
  BY <1>3, <1>6, LinkSet
<1>8. entry \in [Side -> Links(Person)] /\ \A s \in Side : DOMAIN entry[s] = {}
  BY EmptySets DEF Init, Empty
<1>9. RostersTyped /\ LinksTyped /\ LinksHeld
  BY <1>3, <1>4, <1>5, <1>7, <1>8 DEF RostersTyped, LinksTyped, LinksHeld
<1>10. PointTyped /\ JobTyped /\ writes \in 0..MaxWrites
  BY NothingYet, RefreshAssumption DEF Init, PointTyped, JobTyped
<1> QED BY <1>9, <1>10 DEF Typed

-----------------------------------------------------------------------------
(* The world's writes: what they do to a roster and to links. *)

LEMMA ExtendedRoster ==
    ASSUME NEW f \in Rosters, NEW i \in Id, NEW row \in Row, Honest(row)
    PROVE  [k \in DOMAIN f \cup {i} |-> IF k = i THEN row ELSE f[k]] \in Rosters
<1> DEFINE g == [k \in DOMAIN f \cup {i} |-> IF k = i THEN row ELSE f[k]]
<1>1. DOMAIN f \subseteq Id /\ f \in [DOMAIN f -> Row] /\ \A k \in DOMAIN f : Honest(f[k])
  BY RosterSet DEF IsRoster
<1>2. DOMAIN g \subseteq Id /\ g \in [DOMAIN g -> Row] /\ \A k \in DOMAIN g : Honest(g[k])
  BY <1>1
<1>3. IsRoster(g)
  BY <1>2 DEF IsRoster
<1> QED BY <1>3, RosterSet

LEMMA ConfirmedRoster ==
    ASSUME NEW f \in Rosters, NEW i \in DOMAIN f
    PROVE  LET g == [f EXCEPT ![i] = [person |-> @.person, year |-> TrueYear[@.person], estimated |-> FALSE]]
           IN  /\ g \in Rosters /\ DOMAIN g = DOMAIN f
               /\ \A k \in DOMAIN f : g[k].person = f[k].person
<1> DEFINE row == [person |-> f[i].person, year |-> TrueYear[f[i].person], estimated |-> FALSE]
           g == [f EXCEPT ![i] = row]
<1>1. DOMAIN f \subseteq Id /\ f \in [DOMAIN f -> Row] /\ \A k \in DOMAIN f : Honest(f[k])
  BY RosterSet DEF IsRoster
<1>2. f[i] \in Row
  BY <1>1
<1>3. f[i].person \in Person
  BY <1>2 DEF Row
<1>4. TrueYear[f[i].person] \in Year
  BY <1>3, RefreshAssumption DEF Year, Range
<1>5. row \in Row /\ row.person = f[i].person
  BY <1>3, <1>4 DEF Row
<1>6. Honest(row)
  BY DEF Honest, Confirmed
<1>7. g \in [DOMAIN f -> Row] /\ DOMAIN g = DOMAIN f /\ \A k \in DOMAIN f : g[k] = IF k = i THEN row ELSE f[k]
  BY <1>1, <1>5
<1>8. IsRoster(g)
  BY <1>1, <1>6, <1>7 DEF IsRoster
<1>9. \A k \in DOMAIN f : g[k].person = f[k].person
  BY <1>5, <1>7
<1> QED BY <1>7, <1>8, <1>9, RosterSet

LEMMA CutRoster ==
    ASSUME NEW f \in Rosters, NEW j
    PROVE  [k \in DOMAIN f \ {j} |-> f[k]] \in Rosters
<1>1. DOMAIN f \subseteq Id /\ f \in [DOMAIN f -> Row] /\ \A k \in DOMAIN f : Honest(f[k])
  BY RosterSet DEF IsRoster
<1>2. IsRoster([k \in DOMAIN f \ {j} |-> f[k]])
  BY <1>1 DEF IsRoster
<1> QED BY <1>2, RosterSet

LEMMA MergedLinks ==
    ASSUME NEW S, NEW f \in Links(S), NEW i \in Id, NEW j
    PROVE  /\ Merged(f, i, j) \in Links(S) /\ DOMAIN Merged(f, i, j) = DOMAIN f
           /\ \A r \in DOMAIN f : Merged(f, i, j)[r] = IF f[r] = j THEN i ELSE f[r]
<1>1. DOMAIN f \subseteq S /\ f \in [DOMAIN f -> Id]
  BY LinkSet
<1>2. Merged(f, i, j) \in [DOMAIN f -> Id] /\ DOMAIN Merged(f, i, j) = DOMAIN f
  BY <1>1 DEF Merged
<1>3. Merged(f, i, j) \in Links(S)
  BY <1>1, <1>2, LinkSet
<1> QED BY <1>2, <1>3 DEF Merged

LEMMA ExtendedLinks ==
    ASSUME NEW S, NEW f \in Links(S), NEW r \in S, NEW i \in Id
    PROVE  [k \in DOMAIN f \cup {r} |-> IF k = r THEN i ELSE f[k]] \in Links(S)
<1> DEFINE g == [k \in DOMAIN f \cup {r} |-> IF k = r THEN i ELSE f[k]]
<1>1. DOMAIN f \subseteq S /\ f \in [DOMAIN f -> Id]
  BY LinkSet
<1>2. DOMAIN g \subseteq S /\ g \in [DOMAIN g -> Id]
  BY <1>1
<1> QED BY <1>2, LinkSet

LEMMA RostersAre ==
    ASSUME RostersTyped, NEW s \in Side
    PROVE  /\ roster[s] \in Rosters /\ sequence[s] \in 0..MaxId
           /\ DOMAIN roster[s] \subseteq Id /\ roster[s] \in [DOMAIN roster[s] -> Row]
           /\ \A i \in DOMAIN roster[s] : i <= sequence[s] /\ Honest(roster[s][i])
<1>1. roster[s] \in Rosters
  BY DEF RostersTyped
<1>2. IsRoster(roster[s])
  BY <1>1, RosterSet
<1> QED BY <1>1, <1>2 DEF RostersTyped, IsRoster

-----------------------------------------------------------------------------
(* Each of the world's writes keeps the types, and no id that a refresh or   *)
(* a decision may know changes hands.                                       *)

Persists ==
    \A s \in Side :
        /\ sequence[s] <= sequence'[s]
        /\ \A i \in DOMAIN roster'[s] :
              \/ i \in DOMAIN roster[s] /\ roster'[s][i].person = roster[s][i].person
              \/ i > sequence[s]
              \/ s = "prod" /\ ~Stale(i)

(* Everybody who entered on PROD is linked to a row of their own. *)
EntriesOwn == \A p \in DOMAIN entry["prod"] : roster["prod"][entry["prod"][p]].person = p

LEMMA CreateKeeps ==
    ASSUME Typed, EntriesOwn, NEW s \in Side, Create(s)
    PROVE  Typed' /\ Persists /\ EntriesOwn'
<1> USE DEF Side
<1>0. PICK row \in Row, i \in Id :
          /\ i = sequence[s] + 1 /\ Honest(row)
          /\ roster' = [roster EXCEPT ![s] = IF i \in DOMAIN @ THEN @
                            ELSE [k \in DOMAIN @ \cup {i} |-> IF k = i THEN row ELSE @[k]]]
          /\ sequence' = [sequence EXCEPT ![s] = i]
  BY DEF Create
<1>1. /\ i = sequence[s] + 1 /\ Honest(row) /\ i \notin DOMAIN roster[s]
      /\ roster' = [roster EXCEPT ![s] = [k \in DOMAIN @ \cup {i} |-> IF k = i THEN row ELSE @[k]]]
      /\ sequence' = [sequence EXCEPT ![s] = i]
  <2>1. /\ sequence[s] \in 0..MaxId
        /\ \A k \in DOMAIN roster[s] : k <= sequence[s] /\ k \in Id
    BY RostersAre DEF Typed
  <2>2. i \notin DOMAIN roster[s]
    BY <1>0, <2>1, RefreshAssumption DEF Id
  <2> QED BY <1>0, <2>2
<1>2. /\ UNCHANGED <<link, entry, recorded, point, job>> /\ writes' \in 0..MaxWrites
  BY RefreshAssumption DEF Create, Write, Typed
<1>3. /\ \A t \in Side : roster[t] \in Rosters /\ sequence[t] \in 0..MaxId
      /\ \A t \in Side : \A k \in DOMAIN roster[t] : k <= sequence[t] /\ k \in Id
  BY RostersAre DEF Typed
<1>4. [k \in DOMAIN roster[s] \cup {i} |-> IF k = i THEN row ELSE roster[s][k]] \in Rosters
  BY <1>1, <1>3, ExtendedRoster
<1>5. roster \in [Side -> Rosters] /\ sequence \in [Side -> 0..MaxId]
  BY DEF Typed, RostersTyped
<1>6. /\ \A t \in Side \ {s} : roster'[t] = roster[t] /\ sequence'[t] = sequence[t]
      /\ roster'[s] = [k \in DOMAIN roster[s] \cup {i} |-> IF k = i THEN row ELSE roster[s][k]]
      /\ sequence'[s] = i
  BY <1>1, <1>5
<1>7. roster' \in [Side -> Rosters]
  BY <1>1, <1>4, <1>5
<1>8. i \in 0..MaxId /\ i > sequence[s] /\ i \notin DOMAIN roster[s]
  BY <1>1, <1>3, RefreshAssumption DEF Id
<1>9. sequence' \in [Side -> 0..MaxId]
  BY <1>1, <1>5, <1>8
<1>10. \A t \in Side : \A k \in DOMAIN roster[t] : k \in DOMAIN roster'[t] /\ roster'[t][k] = roster[t][k]
  BY <1>6, <1>8
<1>11. \A t \in Side : \A k \in DOMAIN roster'[t] : k <= sequence'[t]
  BY <1>3, <1>6, <1>8 DEF Id
<1>12. Persists
  BY <1>3, <1>6, <1>8 DEF Persists, Id
<1>13. LinksHeld' /\ EntriesOwn'
  BY <1>2, <1>10 DEF Typed, LinksHeld, EntriesOwn
<1>14. RostersTyped' /\ LinksTyped' /\ PointTyped' /\ JobTyped'
  BY <1>2, <1>7, <1>9, <1>11 DEF Typed, RostersTyped, LinksTyped, PointTyped, JobTyped
<1> QED BY <1>2, <1>12, <1>13, <1>14 DEF Typed

LEMMA PromoteKeeps ==
    ASSUME Typed, EntriesOwn, Careless = FALSE, NEW i \in DOMAIN roster["cert"], Promote(i)
    PROVE  Typed' /\ Persists /\ EntriesOwn'
<1> USE DEF Side
<1>1. /\ i \notin DOMAIN roster["prod"] /\ ~Stale(i)
      /\ roster' = [roster EXCEPT !["prod"] =
                       [k \in DOMAIN @ \cup {i} |-> IF k = i THEN roster["cert"][i] ELSE @[k]]]
      /\ sequence' = [sequence EXCEPT !["prod"] = IF @ < i THEN i ELSE @]
      /\ UNCHANGED <<link, entry, recorded, point, job>> /\ writes' \in 0..MaxWrites
  BY RefreshAssumption DEF Promote, Write, Typed
<1>2. /\ \A t \in Side : roster[t] \in Rosters /\ sequence[t] \in 0..MaxId
      /\ \A t \in Side : \A k \in DOMAIN roster[t] : k <= sequence[t] /\ k \in Id
      /\ i \in Id /\ roster["cert"][i] \in Row /\ Honest(roster["cert"][i])
  BY RostersAre DEF Typed
<1>3. [k \in DOMAIN roster["prod"] \cup {i} |-> IF k = i THEN roster["cert"][i] ELSE roster["prod"][k]] \in Rosters
  BY <1>2, ExtendedRoster
<1>4. roster \in [Side -> Rosters] /\ sequence \in [Side -> 0..MaxId]
  BY DEF Typed, RostersTyped
<1>5. /\ roster'["cert"] = roster["cert"] /\ sequence'["cert"] = sequence["cert"]
      /\ roster'["prod"] = [k \in DOMAIN roster["prod"] \cup {i} |->
                               IF k = i THEN roster["cert"][i] ELSE roster["prod"][k]]
      /\ sequence'["prod"] = IF sequence["prod"] < i THEN i ELSE sequence["prod"]
  BY <1>1, <1>4
<1>6. roster' \in [Side -> Rosters]
  BY <1>1, <1>3, <1>4
<1>7. i \in 0..MaxId
  BY <1>2, RefreshAssumption DEF Id
<1>8. sequence' \in [Side -> 0..MaxId]
  BY <1>1, <1>4, <1>7
<1>9. \A t \in Side : \A k \in DOMAIN roster[t] : k \in DOMAIN roster'[t] /\ roster'[t][k] = roster[t][k]
  BY <1>1, <1>5
<1>10. \A t \in Side : \A k \in DOMAIN roster'[t] : k <= sequence'[t]
  BY <1>2, <1>5 DEF Id
<1>11. Persists
  BY <1>1, <1>2, <1>5 DEF Persists, Id
<1>12. LinksHeld' /\ EntriesOwn'
  BY <1>1, <1>9 DEF Typed, LinksHeld, EntriesOwn
<1>13. RostersTyped' /\ LinksTyped' /\ PointTyped' /\ JobTyped'
  BY <1>1, <1>6, <1>8, <1>10 DEF Typed, RostersTyped, LinksTyped, PointTyped, JobTyped
<1> QED BY <1>1, <1>11, <1>12, <1>13 DEF Typed

LEMMA ConfirmKeeps ==
    ASSUME Typed, EntriesOwn, NEW s \in Side, NEW i \in DOMAIN roster[s], Confirm(s, i)
    PROVE  Typed' /\ Persists /\ EntriesOwn'
<1> USE DEF Side
<1>1. /\ roster' = [roster EXCEPT ![s][i] = [person |-> @.person, year |-> TrueYear[@.person],
                                             estimated |-> FALSE]]
      /\ UNCHANGED <<sequence, link, entry, recorded, point, job>> /\ writes' \in 0..MaxWrites
  BY RefreshAssumption DEF Confirm, Write, Typed
<1> DEFINE g == [roster[s] EXCEPT ![i] = [person |-> @.person, year |-> TrueYear[@.person],
                                          estimated |-> FALSE]]
<1>2. /\ \A t \in Side : roster[t] \in Rosters /\ sequence[t] \in 0..MaxId
      /\ \A t \in Side : \A k \in DOMAIN roster[t] : k <= sequence[t]
  BY RostersAre DEF Typed
<1>3. /\ g \in Rosters /\ DOMAIN g = DOMAIN roster[s]
      /\ \A k \in DOMAIN roster[s] : g[k].person = roster[s][k].person
  BY <1>2, ConfirmedRoster
<1>4. roster \in [Side -> Rosters]
  BY DEF Typed, RostersTyped
<1>5. roster' = [roster EXCEPT ![s] = g]
  BY <1>1
<1>6. roster' \in [Side -> Rosters] /\ \A t \in Side : roster'[t] = IF t = s THEN g ELSE roster[t]
  BY <1>3, <1>4, <1>5
<1>7. \A t \in Side : /\ DOMAIN roster'[t] = DOMAIN roster[t]
                      /\ \A k \in DOMAIN roster[t] : roster'[t][k].person = roster[t][k].person
  BY <1>3, <1>6
<1>8. Persists
  BY <1>1, <1>2, <1>7 DEF Persists
<1>9. LinksHeld' /\ EntriesOwn'
  BY <1>1, <1>7 DEF Typed, LinksHeld, EntriesOwn
<1>10. RostersTyped' /\ LinksTyped' /\ PointTyped' /\ JobTyped'
  BY <1>1, <1>2, <1>6, <1>7 DEF Typed, RostersTyped, LinksTyped, PointTyped, JobTyped
<1> QED BY <1>1, <1>8, <1>9, <1>10 DEF Typed

LEMMA MergeKeeps ==
    ASSUME Typed, EntriesOwn, NEW s \in Side, NEW i \in DOMAIN roster[s], NEW j \in DOMAIN roster[s],
           Merge(s, i, j)
    PROVE  Typed' /\ Persists /\ EntriesOwn'
<1> USE DEF Side
<1>1. /\ i # j /\ roster[s][i].person = roster[s][j].person
      /\ \A p \in DOMAIN entry[s] : entry[s][p] # j
      /\ roster' = [roster EXCEPT ![s] = [k \in DOMAIN @ \ {j} |-> @[k]]]
      /\ link' = IF s = "cert" THEN Merged(link, i, j) ELSE link
      /\ UNCHANGED <<sequence, entry, recorded, point, job>> /\ writes' \in 0..MaxWrites
  BY RefreshAssumption DEF Merge, Write, Typed, Range
<1>2. /\ \A t \in Side : roster[t] \in Rosters /\ sequence[t] \in 0..MaxId
      /\ \A t \in Side : \A k \in DOMAIN roster[t] : k <= sequence[t] /\ k \in Id
  BY RostersAre DEF Typed
<1>3. [k \in DOMAIN roster[s] \ {j} |-> roster[s][k]] \in Rosters
  BY <1>2, CutRoster
<1>4. roster \in [Side -> Rosters] /\ link \in Links(Result)
  BY DEF Typed, RostersTyped, LinksTyped
<1>5. /\ roster' \in [Side -> Rosters]
      /\ \A t \in Side \ {s} : roster'[t] = roster[t]
      /\ roster'[s] = [k \in DOMAIN roster[s] \ {j} |-> roster[s][k]]
  BY <1>1, <1>3, <1>4
<1>6. i \in Id
  BY <1>2
<1>7. /\ Merged(link, i, j) \in Links(Result) /\ DOMAIN Merged(link, i, j) = DOMAIN link
      /\ \A r \in DOMAIN link : Merged(link, i, j)[r] = IF link[r] = j THEN i ELSE link[r]
  BY <1>4, <1>6, MergedLinks
<1>8. LinksTyped'
  BY <1>1, <1>4, <1>7 DEF Typed, LinksTyped
<1>9. Persists
  BY <1>1, <1>2, <1>5 DEF Persists
<1>10. \A r \in DOMAIN link' : link'[r] \in DOMAIN roster'["cert"]
  BY <1>1, <1>5, <1>7 DEF Typed, LinksHeld
<1>11. \A t \in Side : \A p \in DOMAIN entry[t] :
           /\ entry[t][p] \in DOMAIN roster'[t]
           /\ roster'[t][entry[t][p]] = roster[t][entry[t][p]]
  BY <1>1, <1>5 DEF Typed, LinksHeld
<1>12. LinksHeld' /\ EntriesOwn'
  BY <1>1, <1>10, <1>11 DEF LinksHeld, EntriesOwn
<1>13. \A t \in Side : \A k \in DOMAIN roster'[t] : k <= sequence'[t]
  BY <1>1, <1>2, <1>5
<1>14. RostersTyped' /\ PointTyped' /\ JobTyped'
  BY <1>1, <1>5, <1>13 DEF Typed, RostersTyped, PointTyped, JobTyped
<1> QED BY <1>1, <1>8, <1>9, <1>12, <1>14 DEF Typed

LEMMA StillPersists == ASSUME Typed, UNCHANGED <<roster, sequence>> PROVE Persists
<1>1. \A s \in Side : sequence[s] \in 0..MaxId
  BY RostersAre DEF Typed
<1>2. \A s \in Side : sequence[s] <= sequence'[s] /\ roster'[s] = roster[s]
  BY <1>1, RefreshAssumption
<1> QED BY <1>2 DEF Persists

LEMMA FileKeeps ==
    ASSUME Typed, EntriesOwn, NEW r \in Result, NEW i \in DOMAIN roster["cert"], File(r, i)
    PROVE  Typed' /\ Persists /\ EntriesOwn'
<1>1. /\ link' = [k \in DOMAIN link \cup {r} |-> IF k = r THEN i ELSE link[k]]
      /\ UNCHANGED <<roster, sequence, entry, recorded, point, job>> /\ writes' \in 0..MaxWrites
  BY RefreshAssumption DEF File, Write, Typed
<1>2. i \in Id
  BY RostersAre DEF Typed, Side
<1>3. link \in Links(Result)
  BY DEF Typed, LinksTyped
<1>4. [k \in DOMAIN link \cup {r} |-> IF k = r THEN i ELSE link[k]] \in Links(Result)
  BY <1>2, <1>3, ExtendedLinks
<1>5. \A k \in DOMAIN link' : link'[k] \in DOMAIN roster'["cert"]
  BY <1>1 DEF Typed, LinksHeld
<1>6. RostersTyped' /\ LinksTyped' /\ LinksHeld' /\ PointTyped' /\ JobTyped' /\ EntriesOwn'
  BY <1>1, <1>4, <1>5 DEF Typed, RostersTyped, LinksTyped, LinksHeld, PointTyped, JobTyped, EntriesOwn
<1> QED BY <1>1, <1>6, StillPersists DEF Typed

LEMMA EnterKeeps ==
    ASSUME Typed, EntriesOwn, NEW j \in DOMAIN roster["prod"], Enter(j)
    PROVE  Typed' /\ Persists /\ EntriesOwn'
<1> USE DEF Side
<1> DEFINE p == roster["prod"][j].person
           g == [k \in DOMAIN entry["prod"] \cup {p} |-> IF k = p THEN j ELSE entry["prod"][k]]
<1>1. /\ entry' = [entry EXCEPT !["prod"] = g]
      /\ UNCHANGED <<roster, sequence, link, recorded, point, job>> /\ writes' \in 0..MaxWrites
  BY RefreshAssumption DEF Enter, Write, Typed
<1>2. j \in Id /\ roster["prod"][j] \in Row
  BY RostersAre DEF Typed
<1>3. entry \in [Side -> Links(Person)] /\ p \in Person
  BY <1>2 DEF Typed, LinksTyped, Row
<1>4. g \in Links(Person)
  BY <1>2, <1>3, ExtendedLinks
<1>5. /\ entry' \in [Side -> Links(Person)]
      /\ entry'["cert"] = entry["cert"] /\ entry'["prod"] = g
  BY <1>1, <1>3, <1>4
<1>6. \A q \in DOMAIN g : g[q] \in DOMAIN roster["prod"] /\ roster["prod"][g[q]].person = q
  BY DEF Typed, LinksHeld, EntriesOwn
<1>7. LinksHeld' /\ EntriesOwn'
  BY <1>1, <1>5, <1>6 DEF Typed, LinksHeld, EntriesOwn
<1>8. RostersTyped' /\ LinksTyped' /\ PointTyped' /\ JobTyped'
  BY <1>1, <1>5 DEF Typed, RostersTyped, LinksTyped, PointTyped, JobTyped
<1> QED BY <1>1, <1>7, <1>8, StillPersists DEF Typed

LEMMA DecideKeeps ==
    ASSUME Typed, EntriesOwn, NEW i \in DOMAIN roster["cert"], NEW j \in DOMAIN roster["prod"], Decide(i, j)
    PROVE  Typed' /\ Persists /\ EntriesOwn'
<1>1. /\ recorded' = recorded \cup {[cert |-> i, year |-> roster["cert"][i].year, prod |-> j,
                                      who |-> roster["cert"][i].person]}
      /\ UNCHANGED <<roster, sequence, link, entry, point, job>> /\ writes' \in 0..MaxWrites
  BY RefreshAssumption DEF Decide, Write, Typed
<1>2. i \in Id /\ j \in Id /\ roster["cert"][i] \in Row
  BY RostersAre DEF Typed, Side
<1>3. recorded' \subseteq Record
  BY <1>1, <1>2 DEF Typed, PointTyped, Record, Row
<1>4. RostersTyped' /\ LinksTyped' /\ LinksHeld' /\ PointTyped' /\ JobTyped' /\ EntriesOwn'
  BY <1>1, <1>3 DEF Typed, RostersTyped, LinksTyped, LinksHeld, PointTyped, JobTyped, EntriesOwn
<1> QED BY <1>1, <1>4, StillPersists DEF Typed

LEMMA JobKeeps ==
    ASSUME Typed, EntriesOwn, JobTyped', UNCHANGED <<roster, sequence, link, entry, recorded, point>>,
           writes' \in 0..MaxWrites
    PROVE  Typed' /\ Persists /\ EntriesOwn'
<1>1. RostersTyped' /\ LinksTyped' /\ LinksHeld' /\ PointTyped' /\ EntriesOwn'
  BY DEF Typed, RostersTyped, LinksTyped, LinksHeld, PointTyped, EntriesOwn
<1> QED BY <1>1, StillPersists DEF Typed

LEMMA WorldKeeps ==
    ASSUME Typed, EntriesOwn, Careless = FALSE, World
    PROVE  Typed' /\ Persists /\ EntriesOwn'
<1>1. CASE Die
  <2>1. JobTyped' /\ writes' \in 0..MaxWrites
    BY <1>1, NothingYet, RefreshAssumption DEF Die, Write, JobTyped, Typed
  <2> QED BY <1>1, <2>1, JobKeeps DEF Die
<1>2. CASE \E s \in Side : \/ Create(s)
                           \/ \E i \in DOMAIN roster[s] : Confirm(s, i)
                           \/ \E i, j \in DOMAIN roster[s] : Merge(s, i, j)
  BY <1>2, CreateKeeps, ConfirmKeeps, MergeKeeps
<1>3. CASE \E i \in DOMAIN roster["cert"] : \/ Promote(i)
                                            \/ \E r \in Result : File(r, i)
                                            \/ \E j \in DOMAIN roster["prod"] : Decide(i, j)
  BY <1>3, PromoteKeeps, FileKeeps, DecideKeeps
<1>4. CASE \E j \in DOMAIN roster["prod"] : Enter(j)
  BY <1>4, EnterKeeps
<1> QED BY <1>1, <1>2, <1>3, <1>4 DEF World

-----------------------------------------------------------------------------
(* The alignment: what it may start from, and what it does to links. *)

Planned == {"sequence", "dry run", "point", "align"}

Agrees(f, s) ==
    \A i \in DOMAIN f : /\ i <= sequence[s]
                        /\ i \in DOMAIN roster[s] => roster[s][i].person = f[i].person

(* A decision names two rows of one person. *)
DecisionsOwn ==
    \A d \in recorded :
        /\ d.cert <= sequence["cert"] /\ d.prod <= sequence["prod"]
        /\ d.cert \in DOMAIN roster["cert"] => roster["cert"][d.cert].person = d.who
        /\ d.prod \in DOMAIN roster["prod"] => roster["prod"][d.prod].person = d.who

(* The roster whose ids the target has when registrations are copied. *)
Taken == IF job.mode = "mirror" THEN job.target ELSE job.prod

(* The rosters a refresh has read may be old; their ids still mean the same. *)
Held ==
    job.mode # "restore" =>
        /\ job.at \in {"prod", "plan"} \cup Planned => Agrees(job.target, "cert")
        /\ job.at \in {"plan", "entries", "copy"} \cup Planned => Agrees(job.prod, "prod")
        /\ job.at \in {"entries", "copy"} => Agrees(Taken, "cert")
        /\ job.mode = "mirror" /\ job.at \in {"entries", "copy"} => SameLooks(job.target, job.prod)
        /\ job.mode = "mirror" => job.at \notin Planned

Noted ==
    /\ job.at \in {"target", "prod", "plan"} \cup Planned => job.recorded = recorded
    /\ job.at \in {"prod", "plan"} =>
          \A d \in job.recorded : d.cert \in DOMAIN job.target => job.target[d.cert].person = d.who
    /\ job.at \in {"plan"} \cup Planned /\ job.mode # "restore" =>
          \A d \in job.recorded : d.prod \in DOMAIN job.prod => job.prod[d.prod].person = d.who

PairsOwn ==
    job.at \in Planned /\ job.mode # "restore" =>
        \A q \in job.pairs : /\ q[1] \in DOMAIN job.target /\ q[2] \in DOMAIN job.prod
                             /\ job.target[q[1]].person = job.prod[q[2]].person

(* A restore point whose alignment took place can be gone back to. *)
PointOwn ==
    /\ point.done =>
          \A q \in point.pairs :
              /\ q[1] \in DOMAIN point.roster /\ q[2] <= sequence["cert"]
              /\ q[2] \in DOMAIN roster["cert"]
                    => roster["cert"][q[2]].person = point.roster[q[1]].person
    /\ job.at = "align" /\ job.mode # "restore"
          => point.pairs = job.pairs /\ point.roster = job.target

RestoreOwn ==
    job.mode = "restore" =>
        /\ job.at \in {"dry run", "align"} /\ recorded = {}
        /\ \A q \in job.pairs :
              /\ q[2] \in DOMAIN job.prod /\ q[1] <= sequence["cert"]
              /\ q[1] \in DOMAIN roster["cert"]
                    => roster["cert"][q[1]].person = job.prod[q[2]].person

CopyOwn ==
    job.at = "copy" =>
        \A p \in DOMAIN job.entries : job.entries[p] \in DOMAIN job.prod
                                          => job.prod[job.entries[p]].person = p

RefreshInv == /\ DecisionsOwn /\ Held /\ Noted /\ PairsOwn /\ PointOwn /\ RestoreOwn
              /\ EntriesOwn /\ CopyOwn

IInv == Typed /\ RefreshInv

(* What the pairing of an alignment pairs is one person on both sides. *)
LEMMA AlignsPersons ==
    ASSUME IInv, job.at = "align", Accepts, NEW q \in job.pairs
    PROVE  /\ q[1] \in DOMAIN roster["cert"] /\ q[2] \in DOMAIN job.prod
           /\ roster["cert"][q[1]].person = job.prod[q[2]].person
<1>1. job.pairs \subseteq Id \X Id
  BY DEF IInv, Typed, JobTyped, Jobs
<1>2. q[1] \in DOMAIN roster["cert"] /\ q[2] \in DOMAIN job.prod
  BY <1>1 DEF Accepts, Firsts, Seconds
<1>3. CASE job.mode = "restore"
  BY <1>2, <1>3 DEF IInv, RefreshInv, RestoreOwn
<1>4. CASE job.mode # "restore"
  <2>1. Agrees(job.target, "cert") /\ q[1] \in DOMAIN job.target
        /\ job.target[q[1]].person = job.prod[q[2]].person
    BY <1>4 DEF IInv, RefreshInv, Held, PairsOwn, Planned
  <2> QED BY <1>2, <2>1 DEF Agrees
<1> QED BY <1>2, <1>3, <1>4

(* A link to a fencer of the target moves with them. *)
LEMMA PartnerIs ==
    ASSUME IInv, job.at = "align", Accepts, NEW i \in References
    PROVE  /\ i \in DOMAIN roster["cert"] /\ Partner(i) \in DOMAIN job.prod
           /\ job.prod[Partner(i)].person = roster["cert"][i].person
<1>1. i \in DOMAIN roster["cert"]
  BY TypedIsTypeOK DEF IInv, TypeOK
<1>2. i \in Firsts(job.pairs)
  BY <1>1 DEF Accepts
<1>3. job.pairs \subseteq Id \X Id
  BY DEF IInv, Typed, JobTyped, Jobs
<1>4. \E j \in Seconds(job.pairs) : <<i, j>> \in job.pairs
  <2>1. PICK q \in job.pairs : q[1] = i
    BY <1>2 DEF Firsts
  <2>2. q \in Id \X Id
    BY <1>3
  <2>3. q = <<i, q[2]>> /\ q[2] \in Seconds(job.pairs)
    BY <2>1, <2>2 DEF Seconds
  <2> QED BY <2>1, <2>3
<1>5. <<i, Partner(i)>> \in job.pairs
  BY <1>4 DEF Partner
<1> DEFINE q == <<i, Partner(i)>>
<1>6. /\ q[1] \in DOMAIN roster["cert"] /\ q[2] \in DOMAIN job.prod
      /\ roster["cert"][q[1]].person = job.prod[q[2]].person
  BY <1>5, AlignsPersons
<1> QED BY <1>1, <1>6

LEMMA RenumberedLinks ==
    ASSUME IInv, job.at = "align", Accepts, NEW S, NEW f \in Links(S),
           \A r \in DOMAIN f : f[r] \in References
    PROVE  /\ Renumbered(f) \in Links(S) /\ DOMAIN Renumbered(f) = DOMAIN f
           /\ \A r \in DOMAIN f : /\ Renumbered(f)[r] \in DOMAIN job.prod
                                  /\ job.prod[Renumbered(f)[r]].person = roster["cert"][f[r]].person
<1>1. \A r \in DOMAIN f : /\ Partner(f[r]) \in DOMAIN job.prod
                          /\ job.prod[Partner(f[r])].person = roster["cert"][f[r]].person
  BY PartnerIs
<1>2. job.prod \in Rosters
  BY DEF IInv, Typed, JobTyped, Jobs
<1>3. DOMAIN job.prod \subseteq Id
  BY <1>2, RosterSet DEF IsRoster
<1>4. DOMAIN f \subseteq S
  BY LinkSet
<1>5. /\ Renumbered(f) \in [DOMAIN f -> Id] /\ DOMAIN Renumbered(f) = DOMAIN f
      /\ \A r \in DOMAIN f : Renumbered(f)[r] = Partner(f[r])
  BY <1>1, <1>3 DEF Renumbered
<1>6. Renumbered(f) \in Links(S)
  BY <1>4, <1>5, LinkSet
<1> QED BY <1>1, <1>5, <1>6

LEMMA ReferencesAre ==
    ASSUME Typed
    PROVE  /\ link \in Links(Result) /\ entry["cert"] \in Links(Person)
           /\ \A r \in DOMAIN link : link[r] \in References
           /\ \A p \in DOMAIN entry["cert"] : entry["cert"][p] \in References
  BY DEF Typed, LinksTyped, References, Range, Side

LEMMA AlignTyped ==
    ASSUME IInv, Align
    PROVE  Typed'
<1> USE DEF Side
<1>1. /\ job.at = "align" /\ Accepts
      /\ roster' = [roster EXCEPT !["cert"] = job.prod]
      /\ link' = Renumbered(link)
      /\ entry' = [entry EXCEPT !["cert"] = Renumbered(entry["cert"])]
      /\ point' = [point EXCEPT !.done = (job.mode # "restore")]
      /\ recorded' \subseteq recorded /\ UNCHANGED writes
  BY DEF Align
<1>2. PICK n \in Id : /\ Last(DOMAIN job.prod \cup {job.last, 1}, n)
                      /\ sequence' = [sequence EXCEPT !["cert"] = n]
  BY DEF Align, SetSequence
<1>3. job \in Jobs /\ point \in Points /\ recorded \subseteq Record
  BY DEF IInv, Typed, JobTyped, PointTyped
<1>4. job.prod \in Rosters
  BY <1>3 DEF Jobs
<1>5. /\ Renumbered(link) \in Links(Result) /\ DOMAIN Renumbered(link) = DOMAIN link
      /\ \A r \in DOMAIN link : Renumbered(link)[r] \in DOMAIN job.prod
  BY <1>1, ReferencesAre, RenumberedLinks DEF IInv
<1>6. /\ Renumbered(entry["cert"]) \in Links(Person) /\ DOMAIN Renumbered(entry["cert"]) = DOMAIN entry["cert"]
      /\ \A p \in DOMAIN entry["cert"] : Renumbered(entry["cert"])[p] \in DOMAIN job.prod
  BY <1>1, ReferencesAre, RenumberedLinks DEF IInv
<1>7. /\ roster \in [Side -> Rosters] /\ sequence \in [Side -> 0..MaxId] /\ entry \in [Side -> Links(Person)]
      /\ \A s \in Side : \A i \in DOMAIN roster[s] : i <= sequence[s]
  BY DEF IInv, Typed, RostersTyped, LinksTyped
<1>8. /\ roster' \in [Side -> Rosters] /\ roster'["cert"] = job.prod /\ roster'["prod"] = roster["prod"]
      /\ entry' \in [Side -> Links(Person)] /\ entry'["cert"] = Renumbered(entry["cert"])
      /\ entry'["prod"] = entry["prod"]
  BY <1>1, <1>4, <1>6, <1>7
<1>9. n \in 0..MaxId /\ \A i \in DOMAIN job.prod : i <= n
  BY <1>2, RefreshAssumption DEF Id, Last
<1>10. /\ sequence' \in [Side -> 0..MaxId]
       /\ sequence'["cert"] = n /\ sequence'["prod"] = sequence["prod"]
  BY <1>2, <1>7, <1>9
<1>11. RostersTyped'
  BY <1>7, <1>8, <1>9, <1>10 DEF RostersTyped
<1>12. LinksTyped'
  BY <1>1, <1>5, <1>8 DEF LinksTyped
<1>13. LinksHeld'
  BY <1>1, <1>5, <1>6, <1>8 DEF IInv, Typed, LinksHeld
<1>14. PointTyped'
  BY <1>1, <1>3 DEF PointTyped, Points
<1>15. JobTyped'
  BY <1>3, NothingYet DEF Align, Goto, JobTyped, Jobs, Stages
<1>16. writes' \in 0..MaxWrites
  BY <1>1 DEF IInv, Typed
<1> QED BY <1>11, <1>12, <1>13, <1>14, <1>15, <1>16 DEF Typed

-----------------------------------------------------------------------------
(* The world keeps what a refresh relies on. *)

LEMMA IdsPersist ==
    ASSUME Typed, Typed', Persists, NEW s \in Side, NEW i \in Id, i <= sequence[s],
           s = "cert" \/ Stale(i)
    PROVE  /\ i <= sequence'[s]
           /\ i \in DOMAIN roster'[s] => /\ i \in DOMAIN roster[s]
                                         /\ roster'[s][i].person = roster[s][i].person
<1>1. /\ sequence[s] \in 0..MaxId /\ sequence'[s] \in 0..MaxId /\ sequence[s] <= sequence'[s]
      /\ i \in Int /\ MaxId \in Int
  BY RefreshAssumption DEF Typed, RostersTyped, Persists, Id
<1>2. ~(i > sequence[s]) /\ i <= sequence'[s]
  BY <1>1
<1>3. ~(s = "prod" /\ ~Stale(i))
  OBVIOUS
<1>4. i \in DOMAIN roster'[s] => /\ i \in DOMAIN roster[s]
                                 /\ roster'[s][i].person = roster[s][i].person
  BY <1>2, <1>3 DEF Persists
<1> QED BY <1>2, <1>4

LEMMA IdsAre ==
    ASSUME Typed
    PROVE  /\ \A d \in recorded : d.cert \in Id /\ d.prod \in Id
           /\ \A q \in job.pairs : q[1] \in Id /\ q[2] \in Id
           /\ \A q \in point.pairs : q[1] \in Id /\ q[2] \in Id
           /\ \A i \in DOMAIN job.target : i \in Id
           /\ \A i \in DOMAIN job.prod : i \in Id
           /\ \A i \in DOMAIN point.roster : i \in Id
<1>1. job \in Jobs /\ point \in Points /\ recorded \subseteq Record
  BY DEF Typed, JobTyped, PointTyped
<1>2. job.target \in Rosters /\ job.prod \in Rosters /\ point.roster \in Rosters
      /\ job.pairs \subseteq Id \X Id /\ point.pairs \subseteq Id \X Id
  BY <1>1 DEF Jobs, Points
<1>3. /\ \A i \in DOMAIN job.target : i \in Id
      /\ \A i \in DOMAIN job.prod : i \in Id
      /\ \A i \in DOMAIN point.roster : i \in Id
  BY <1>2, RosterSet DEF IsRoster
<1>4. \A d \in recorded : d.cert \in Id /\ d.prod \in Id
  BY <1>1 DEF Record
<1>5. /\ \A q \in job.pairs : q[1] \in Id /\ q[2] \in Id
      /\ \A q \in point.pairs : q[1] \in Id /\ q[2] \in Id
  BY <1>2
<1> QED BY <1>3, <1>4, <1>5

LEMMA AgreesPersists ==
    ASSUME Typed, Typed', Persists, NEW s \in Side, NEW f, Agrees(f, s),
           \A i \in DOMAIN f : i \in Id /\ (s = "cert" \/ Stale(i))
    PROVE  \A i \in DOMAIN f : /\ i <= sequence'[s]
                               /\ i \in DOMAIN roster'[s] => roster'[s][i].person = f[i].person
<1> SUFFICES ASSUME NEW i \in DOMAIN f
             PROVE  /\ i <= sequence'[s]
                    /\ i \in DOMAIN roster'[s] => roster'[s][i].person = f[i].person
  OBVIOUS
<1>1. i \in Id /\ i <= sequence[s] /\ (s = "cert" \/ Stale(i))
      /\ (i \in DOMAIN roster[s] => roster[s][i].person = f[i].person)
  BY DEF Agrees
<1>2. /\ i <= sequence'[s]
      /\ i \in DOMAIN roster'[s] => /\ i \in DOMAIN roster[s]
                                    /\ roster'[s][i].person = roster[s][i].person
  BY <1>1, IdsPersist
<1> QED BY <1>1, <1>2

LEMMA DecisionsPersist ==
    ASSUME IInv, Typed', Persists, NEW d \in recorded
    PROVE  /\ d.cert <= sequence'["cert"] /\ d.prod <= sequence'["prod"]
           /\ d.cert \in DOMAIN roster'["cert"] => roster'["cert"][d.cert].person = d.who
           /\ d.prod \in DOMAIN roster'["prod"] => roster'["prod"][d.prod].person = d.who
<1>1. d.cert \in Id /\ d.prod \in Id
  BY IdsAre DEF IInv
<1>2. /\ d.cert <= sequence["cert"] /\ d.prod <= sequence["prod"]
      /\ d.cert \in DOMAIN roster["cert"] => roster["cert"][d.cert].person = d.who
      /\ d.prod \in DOMAIN roster["prod"] => roster["prod"][d.prod].person = d.who
  BY DEF IInv, RefreshInv, DecisionsOwn
<1>3. Stale(d.prod)
  BY DEF Stale
<1>4. /\ d.cert <= sequence'["cert"]
      /\ d.cert \in DOMAIN roster'["cert"] => /\ d.cert \in DOMAIN roster["cert"]
                                              /\ roster'["cert"][d.cert].person = roster["cert"][d.cert].person
  BY <1>1, <1>2, IdsPersist DEF IInv, Side
<1>5. /\ d.prod <= sequence'["prod"]
      /\ d.prod \in DOMAIN roster'["prod"] => /\ d.prod \in DOMAIN roster["prod"]
                                              /\ roster'["prod"][d.prod].person = roster["prod"][d.prod].person
  BY <1>1, <1>2, <1>3, IdsPersist DEF IInv, Side
<1> QED BY <1>2, <1>4, <1>5

LEMMA PointPersists ==
    ASSUME IInv, Typed', Persists, UNCHANGED point,
           job'.at = "align" /\ job'.mode # "restore" => job' = job
    PROVE  PointOwn'
<1>1. ASSUME point.done, NEW q \in point.pairs
      PROVE  /\ q[1] \in DOMAIN point.roster /\ q[2] <= sequence'["cert"]
             /\ q[2] \in DOMAIN roster'["cert"]
                   => roster'["cert"][q[2]].person = point.roster[q[1]].person
  <2>1. /\ q[1] \in DOMAIN point.roster /\ q[2] <= sequence["cert"]
        /\ q[2] \in DOMAIN roster["cert"]
              => roster["cert"][q[2]].person = point.roster[q[1]].person
    BY <1>1 DEF IInv, RefreshInv, PointOwn
  <2>2. q[2] \in Id
    BY IdsAre DEF IInv
  <2>3. /\ q[2] <= sequence'["cert"]
        /\ q[2] \in DOMAIN roster'["cert"] => /\ q[2] \in DOMAIN roster["cert"]
                                              /\ roster'["cert"][q[2]].person = roster["cert"][q[2]].person
    BY <2>1, <2>2, IdsPersist DEF IInv, Side
  <2> QED BY <2>1, <2>3
<1>2. job'.at = "align" /\ job'.mode # "restore" => point.pairs = job'.pairs /\ point.roster = job'.target
  BY DEF IInv, RefreshInv, PointOwn
<1> QED BY <1>1, <1>2 DEF PointOwn

LEMMA RestorePersists ==
    ASSUME IInv, Typed', Persists, UNCHANGED <<job, recorded>>
    PROVE  RestoreOwn'
<1> SUFFICES ASSUME job.mode = "restore"
             PROVE  /\ job.at \in {"dry run", "align"} /\ recorded = {}
                    /\ \A q \in job.pairs :
                          /\ q[2] \in DOMAIN job.prod /\ q[1] <= sequence'["cert"]
                          /\ q[1] \in DOMAIN roster'["cert"]
                                => roster'["cert"][q[1]].person = job.prod[q[2]].person
  BY DEF RestoreOwn
<1>1. ASSUME NEW q \in job.pairs
      PROVE  /\ q[2] \in DOMAIN job.prod /\ q[1] <= sequence'["cert"]
             /\ q[1] \in DOMAIN roster'["cert"]
                   => roster'["cert"][q[1]].person = job.prod[q[2]].person
  <2>1. /\ q[2] \in DOMAIN job.prod /\ q[1] <= sequence["cert"]
        /\ q[1] \in DOMAIN roster["cert"] => roster["cert"][q[1]].person = job.prod[q[2]].person
    BY DEF IInv, RefreshInv, RestoreOwn
  <2>2. q[1] \in Id
    BY IdsAre DEF IInv
  <2>3. /\ q[1] <= sequence'["cert"]
        /\ q[1] \in DOMAIN roster'["cert"] => /\ q[1] \in DOMAIN roster["cert"]
                                              /\ roster'["cert"][q[1]].person = roster["cert"][q[1]].person
    BY <2>1, <2>2, IdsPersist DEF IInv, Side
  <2> QED BY <2>1, <2>3
<1> QED BY <1>1 DEF IInv, RefreshInv, RestoreOwn

LEMMA HeldPersists ==
    ASSUME IInv, Typed', Persists, UNCHANGED job
    PROVE  Held'
<1> SUFFICES ASSUME job.mode # "restore" PROVE Held'
  BY DEF Held
<1>1. ASSUME job.at \in {"prod", "plan"} \cup Planned
      PROVE  \A i \in DOMAIN job.target :
                /\ i <= sequence'["cert"]
                /\ i \in DOMAIN roster'["cert"] => roster'["cert"][i].person = job.target[i].person
  <2>1. Agrees(job.target, "cert") /\ \A i \in DOMAIN job.target : i \in Id
    BY <1>1, IdsAre DEF IInv, RefreshInv, Held
  <2> QED BY <2>1, AgreesPersists DEF IInv, Side
<1>2. \A i \in DOMAIN job.prod : i \in Id /\ Stale(i)
  BY IdsAre DEF IInv, Stale
<1>3. ASSUME job.at \in {"plan", "entries", "copy"} \cup Planned
      PROVE  \A i \in DOMAIN job.prod :
                /\ i <= sequence'["prod"]
                /\ i \in DOMAIN roster'["prod"] => roster'["prod"][i].person = job.prod[i].person
  <2>1. Agrees(job.prod, "prod")
    BY <1>3 DEF IInv, RefreshInv, Held
  <2> QED BY <1>2, <2>1, AgreesPersists DEF IInv, Side
<1>4. ASSUME job.at \in {"entries", "copy"}
      PROVE  \A i \in DOMAIN Taken :
                /\ i <= sequence'["cert"]
                /\ i \in DOMAIN roster'["cert"] => roster'["cert"][i].person = Taken[i].person
  <2>1. Agrees(Taken, "cert") /\ \A i \in DOMAIN Taken : i \in Id
    BY <1>4, IdsAre DEF IInv, RefreshInv, Held, Taken
  <2> QED BY <2>1, AgreesPersists DEF IInv, Side
<1>5. /\ job.mode = "mirror" /\ job.at \in {"entries", "copy"} => SameLooks(job.target, job.prod)
      /\ job.mode = "mirror" => job.at \notin Planned
  BY DEF IInv, RefreshInv, Held
<1>6. Taken' = Taken
  BY DEF Taken
<1> QED BY <1>1, <1>3, <1>4, <1>5, <1>6 DEF Held, Agrees

LEMMA WorldInv == ASSUME IInv, Careless = FALSE, World PROVE IInv'
<1>1. Typed' /\ Persists /\ EntriesOwn'
  BY WorldKeeps DEF IInv, RefreshInv
<1>2. CASE Die
  <2>1. job' = NoJob /\ UNCHANGED <<point, recorded>>
    BY <1>2 DEF Die
  <2>2. DecisionsOwn'
    BY <1>1, <2>1, DecisionsPersist DEF DecisionsOwn
  <2>3. PointOwn'
    BY <1>1, <2>1, PointPersists DEF NoJob
  <2>4. Held' /\ Noted' /\ PairsOwn' /\ RestoreOwn' /\ CopyOwn'
    BY <2>1 DEF NoJob, Held, Noted, PairsOwn, RestoreOwn, CopyOwn, Planned
  <2> QED BY <1>1, <2>2, <2>3, <2>4 DEF IInv, RefreshInv
<1>3. ASSUME NEW i \in DOMAIN roster["cert"], NEW j \in DOMAIN roster["prod"], Decide(i, j)
      PROVE  IInv'
  <2> DEFINE e == [cert |-> i, year |-> roster["cert"][i].year, prod |-> j, who |-> roster["cert"][i].person]
  <2>1. /\ job.at = "idle" /\ roster["cert"][i].person = roster["prod"][j].person
        /\ recorded' = recorded \cup {e} /\ UNCHANGED <<roster, sequence, entry, point, job>>
    BY <1>3 DEF Decide
  <2>2. i <= sequence["cert"] /\ j <= sequence["prod"]
    BY DEF IInv, Typed, RostersTyped, Side
  <2>3. DecisionsOwn'
    BY <2>1, <2>2 DEF IInv, RefreshInv, DecisionsOwn
  <2>4. PointOwn'
    BY <1>1, <2>1, PointPersists
  <2>5. Held' /\ Noted' /\ PairsOwn' /\ RestoreOwn' /\ CopyOwn'
    BY <2>1 DEF IInv, RefreshInv, Held, Noted, PairsOwn, RestoreOwn, CopyOwn, Planned
  <2> QED BY <1>1, <2>3, <2>4, <2>5 DEF IInv, RefreshInv
<1>4. CASE UNCHANGED <<recorded, point, job>>
  <2>1. DecisionsOwn'
    BY <1>1, <1>4, DecisionsPersist DEF DecisionsOwn
  <2>2. PointOwn' /\ RestoreOwn' /\ Held'
    BY <1>1, <1>4, PointPersists, RestorePersists, HeldPersists
  <2>3. Noted' /\ PairsOwn' /\ CopyOwn'
    BY <1>4 DEF IInv, RefreshInv, Noted, PairsOwn, CopyOwn
  <2> QED BY <1>1, <2>1, <2>2, <2>3 DEF IInv, RefreshInv
<1> QED
  BY <1>2, <1>3, <1>4 DEF World, Create, Promote, Confirm, Merge, File, Enter

-----------------------------------------------------------------------------
(* The pairing: under the rules whoever is paired is one person. *)

LEMMA PairsArePersons ==
    ASSUME NEW t \in Rosters, NEW p \in Rosters, NEW R \in SUBSET Record,
           RecordsHold(t, p, R), OneEachIsOne(t, p, R),
           \A d \in R : /\ d.cert \in DOMAIN t => t[d.cert].person = d.who
                        /\ d.prod \in DOMAIN p => p[d.prod].person = d.who,
           NEW q \in Pairs(t, p, R)
    PROVE  /\ q \in Id \X Id /\ q[1] \in DOMAIN t /\ q[2] \in DOMAIN p
           /\ t[q[1]].person = p[q[2]].person
<1>1. /\ DOMAIN t \subseteq Id /\ t \in [DOMAIN t -> Row] /\ \A i \in DOMAIN t : Honest(t[i])
      /\ DOMAIN p \subseteq Id /\ p \in [DOMAIN p -> Row] /\ \A i \in DOMAIN p : Honest(p[i])
  BY RosterSet DEF IsRoster
<1>2. CASE q \in ByRecord(R)
  <2>1. PICK d \in R : q = <<d.cert, d.prod>>
    BY <1>2 DEF ByRecord
  <2>2. d.cert \in DOMAIN t /\ d.prod \in DOMAIN p
    BY DEF RecordsHold
  <2> QED BY <1>1, <2>1, <2>2
<1>3. ASSUME NEW n \in Range(Name), q \in PairsOfName(t, p, R, n)
      PROVE  /\ q \in Id \X Id /\ q[1] \in DOMAIN t /\ q[2] \in DOMAIN p
             /\ t[q[1]].person = p[q[2]].person
  <2> DEFINE T == Named(t, DOMAIN t \ Firsts(ByRecord(R)), n)
             P == Named(p, DOMAIN p \ Seconds(ByRecord(R)), n)
  <2>1. q \in IF OneEach(T, P) THEN T \X P ELSE ByYear(t, p, T, P)
    BY <1>3 DEF PairsOfName
  <2>2. /\ \A i \in T : i \in DOMAIN t /\ Name[t[i].person] = n
        /\ \A j \in P : j \in DOMAIN p /\ Name[p[j].person] = n
    BY DEF Named
  <2>3. CASE OneEach(T, P)
    <3>1. \A i \in T, j \in P : t[i].person = p[j].person
      BY <2>3 DEF OneEachIsOne
    <3> QED BY <1>1, <2>1, <2>2, <2>3, <3>1
  <2>4. CASE ~OneEach(T, P)
    <3>1. q \in ByYear(t, p, T, P)
      BY <2>1, <2>4
    <3>2. /\ q \in T \X P
          /\ Confirmed(p[q[2]]) # NoYear /\ Confirmed(t[q[1]]) = Confirmed(p[q[2]])
      BY <3>1 DEF ByYear
    <3>3. q[1] \in DOMAIN t /\ q[2] \in DOMAIN p /\ Name[t[q[1]].person] = Name[p[q[2]].person]
          /\ q \in Id \X Id
      BY <1>1, <2>2, <3>2
    <3>4. TrueYear[t[q[1]].person] = TrueYear[p[q[2]].person]
      BY <1>1, <3>2, <3>3 DEF Honest
    <3>5. t[q[1]].person \in Person /\ p[q[2]].person \in Person
      BY <1>1, <3>3 DEF Row
    <3> QED BY <3>3, <3>4, <3>5, RefreshAssumption
  <2> QED BY <2>3, <2>4
<1> QED BY <1>2, <1>3 DEF Pairs

-----------------------------------------------------------------------------
(* The steps of a refresh. *)

(* What a step that only changes the job has to keep of the invariant. *)
JobInv == Held /\ Noted /\ PairsOwn /\ RestoreOwn /\ CopyOwn

LEMMA QuietStep ==
    ASSUME IInv, UNCHANGED <<roster, sequence, link, entry, recorded, point, writes>>, JobTyped', JobInv',
           job'.at = "align" /\ job'.mode # "restore" => job' = job
    PROVE  IInv'
<1>1. writes' \in 0..MaxWrites
  BY DEF IInv, Typed
<1>2. Typed' /\ Persists /\ EntriesOwn'
  BY <1>1, JobKeeps DEF IInv, RefreshInv
<1>3. PointOwn'
  BY <1>2, PointPersists
<1>4. DecisionsOwn'
  BY DEF IInv, RefreshInv, DecisionsOwn
<1> QED BY <1>2, <1>3, <1>4 DEF IInv, RefreshInv, JobInv

LEMMA EndInv ==
    ASSUME IInv, UNCHANGED <<roster, sequence, link, entry, recorded, point, writes>>, job' = NoJob
    PROVE  IInv'
<1>1. JobTyped' /\ job'.at # "align"
  BY NothingYet DEF JobTyped, NoJob
<1>2. JobInv'
  BY DEF NoJob, JobInv, Held, Noted, PairsOwn, RestoreOwn, CopyOwn, Planned
<1> QED BY <1>1, <1>2, QuietStep

LEMMA StartInv == ASSUME IInv, NEW mode \in Modes \ {"restore"}, Start(mode) PROVE IInv'
<1>1. /\ job' = [NoJob EXCEPT !.at = "target", !.mode = mode, !.recorded = recorded]
      /\ UNCHANGED <<roster, sequence, link, entry, recorded, point, writes>>
  BY DEF Start
<1>2. recorded \in SUBSET Record
  BY DEF IInv, Typed, PointTyped
<1>3. /\ job' \in Jobs /\ job'.at = "target" /\ job'.mode = mode /\ job'.recorded = recorded
  BY <1>1, <1>2, NothingYet DEF Jobs, Stages
<1>4. JobInv'
  BY <1>1, <1>3 DEF JobInv, Held, Noted, PairsOwn, RestoreOwn, CopyOwn, Planned
<1> QED BY <1>1, <1>3, <1>4, QuietStep DEF JobTyped

LEMMA ReadTargetInv == ASSUME IInv, ReadTarget PROVE IInv'
<1>1. /\ job.at = "target" /\ job' = [job EXCEPT !.at = "prod", !.target = roster["cert"]]
      /\ UNCHANGED <<roster, sequence, link, entry, recorded, point, writes>>
  BY DEF ReadTarget
<1>2. roster["cert"] \in Rosters /\ job \in Jobs
      /\ \A i \in DOMAIN roster["cert"] : i <= sequence["cert"]
  BY DEF IInv, Typed, RostersTyped, JobTyped, Side
<1>3. /\ job' \in Jobs /\ job'.at = "prod" /\ job'.mode = job.mode /\ job'.recorded = job.recorded
      /\ job'.target = roster["cert"]
  BY <1>1, <1>2 DEF Jobs, Stages
<1>4. job.mode # "restore" /\ job.recorded = recorded
  BY <1>1 DEF IInv, RefreshInv, RestoreOwn, Noted
<1>5. Held'
  BY <1>1, <1>2, <1>3 DEF Held, Agrees, Planned
<1>6. Noted'
  BY <1>1, <1>3, <1>4 DEF IInv, RefreshInv, DecisionsOwn, Noted, Planned
<1>7. JobInv'
  BY <1>3, <1>4, <1>5, <1>6 DEF JobInv, PairsOwn, RestoreOwn, CopyOwn, Planned
<1> QED BY <1>1, <1>3, <1>7, QuietStep DEF JobTyped

LEMMA ReadProdInv == ASSUME IInv, ReadProd PROVE IInv'
<1>1. /\ job.at = "prod" /\ job' = [job EXCEPT !.at = "plan", !.prod = roster["prod"]]
      /\ UNCHANGED <<roster, sequence, link, entry, recorded, point, writes>>
  BY DEF ReadProd
<1>2. roster["prod"] \in Rosters /\ job \in Jobs
      /\ \A i \in DOMAIN roster["prod"] : i <= sequence["prod"]
  BY DEF IInv, Typed, RostersTyped, JobTyped, Side
<1>3. /\ job' \in Jobs /\ job'.at = "plan" /\ job'.mode = job.mode /\ job'.recorded = job.recorded
      /\ job'.target = job.target /\ job'.prod = roster["prod"]
  BY <1>1, <1>2 DEF Jobs, Stages
<1>4. job.mode # "restore" /\ job.recorded = recorded /\ Agrees(job.target, "cert")
  BY <1>1 DEF IInv, RefreshInv, RestoreOwn, Noted, Held
<1>5. Held'
  BY <1>1, <1>2, <1>3, <1>4 DEF Held, Agrees, Planned
<1>6. Noted'
  BY <1>1, <1>3, <1>4 DEF IInv, RefreshInv, DecisionsOwn, Noted, Planned
<1>7. JobInv'
  BY <1>3, <1>4, <1>5, <1>6 DEF JobInv, PairsOwn, RestoreOwn, CopyOwn, Planned
<1> QED BY <1>1, <1>3, <1>7, QuietStep DEF JobTyped

LEMMA PlanInv == ASSUME IInv, Careless = FALSE, Plan PROVE IInv'
<1> DEFINE pairs == Pairs(job.target, job.prod, job.recorded)
           deletes == Deletes(job.target, job.prod, job.recorded)
<1>1. /\ job.at = "plan" /\ job.mode # "mirror"
      /\ OneEachIsOne(job.target, job.prod, job.recorded)
      /\ UNCHANGED <<roster, sequence, link, entry, recorded, point, writes>>
  BY DEF Plan
<1>2. CASE job' = NoJob
  BY <1>1, <1>2, EndInv
<1>3. CASE /\ RecordsHold(job.target, job.prod, job.recorded)
           /\ job' = [job EXCEPT !.at = "sequence", !.pairs = pairs, !.deletes = deletes]
  <2>1. job \in Jobs
    BY DEF IInv, Typed, JobTyped
  <2>2. job.target \in Rosters /\ job.prod \in Rosters /\ job.recorded \in SUBSET Record
    BY <2>1 DEF Jobs
  <2>3. /\ \A d \in job.recorded : d.cert \in DOMAIN job.target => job.target[d.cert].person = d.who
        /\ \A d \in job.recorded : d.prod \in DOMAIN job.prod => job.prod[d.prod].person = d.who
    BY <1>1 DEF IInv, RefreshInv, Noted, RestoreOwn
  <2>4. \A q \in pairs : /\ q \in Id \X Id /\ q[1] \in DOMAIN job.target /\ q[2] \in DOMAIN job.prod
                         /\ job.target[q[1]].person = job.prod[q[2]].person
    BY <1>1, <1>3, <2>2, <2>3, PairsArePersons
  <2>5. deletes \in SUBSET Id
    BY <2>2, RosterSet DEF Deletes, IsRoster
  <2>6. pairs \in SUBSET (Id \X Id)
    BY <2>4
  <2>7. /\ job' \in Jobs /\ job'.at = "sequence" /\ job'.mode = job.mode /\ job'.recorded = job.recorded
        /\ job'.target = job.target /\ job'.prod = job.prod /\ job'.pairs = pairs
    BY <1>3, <2>1, <2>5, <2>6 DEF Jobs, Stages
  <2>8. job.mode # "restore" /\ job.recorded = recorded
    BY <1>1 DEF IInv, RefreshInv, RestoreOwn, Noted
  <2>9. Held'
    BY <1>1, <2>7 DEF IInv, RefreshInv, Held, Agrees, Planned
  <2>10. JobInv'
    BY <1>1, <2>3, <2>4, <2>7, <2>8, <2>9 DEF JobInv, Noted, PairsOwn, RestoreOwn, CopyOwn, Planned
  <2> QED BY <1>1, <2>7, <2>10, QuietStep DEF JobTyped
<1> QED BY <1>2, <1>3 DEF Plan, Ready

(* A step that goes on within the plan: only the stage or the sequence changes. *)
LEMMA OnwardInv ==
    ASSUME IInv, UNCHANGED <<roster, sequence, link, entry, recorded, point, writes>>,
           job.at \in Planned, NEW stage \in Planned, NEW n \in 0..MaxId,
           job' = [job EXCEPT !.at = stage, !.last = n],
           job.mode = "restore" => stage = "align",
           stage = "align" => job.mode = "restore"
    PROVE  IInv'
<1>1. job \in Jobs
  BY DEF IInv, Typed, JobTyped
<1>2. /\ job' \in Jobs /\ job'.at = stage /\ job'.mode = job.mode /\ job'.recorded = job.recorded
      /\ job'.target = job.target /\ job'.prod = job.prod /\ job'.pairs = job.pairs
  BY <1>1 DEF Jobs, Stages, Planned
<1>3. Held'
  BY <1>2 DEF IInv, RefreshInv, Held, Agrees, Planned
<1>4. Noted' /\ PairsOwn' /\ CopyOwn'
  BY <1>2 DEF IInv, RefreshInv, Noted, PairsOwn, CopyOwn, Planned
<1>5. RestoreOwn'
  BY <1>2 DEF IInv, RefreshInv, RestoreOwn
<1> QED BY <1>2, <1>3, <1>4, <1>5, QuietStep DEF JobInv, JobTyped

LEMMA SequenceAndDryRunInv == ASSUME IInv, ReadSequence \/ DryRun PROVE IInv'
<1>1. job \in Jobs
  BY DEF IInv, Typed, JobTyped
<1>2. CASE ReadSequence
  <2>1. job.at = "sequence" /\ job' = [job EXCEPT !.at = "dry run", !.last = sequence["prod"]]
        /\ sequence["prod"] \in 0..MaxId
    BY <1>2 DEF ReadSequence, IInv, Typed, RostersTyped, Side
  <2>2. job.mode # "restore"
    BY <2>1 DEF IInv, RefreshInv, RestoreOwn
  <2> QED BY <1>2, <2>1, <2>2, OnwardInv DEF ReadSequence, Planned
<1>3. CASE DryRun
  <2>1. CASE job' = NoJob
    BY <1>3, <2>1, EndInv DEF DryRun
  <2>2. CASE Goto(IF job.mode = "restore" THEN "align" ELSE "point")
    <3> DEFINE stage == IF job.mode = "restore" THEN "align" ELSE "point"
    <3>1. job.last \in 0..MaxId
      BY <1>1 DEF Jobs
    <3>2. job' = [job EXCEPT !.at = stage]
      BY <2>2 DEF Goto
    <3>3. job' = [job EXCEPT !.at = stage, !.last = job.last]
      BY <1>1, <3>2 DEF Jobs
    <3> QED BY <1>3, <3>1, <3>3, OnwardInv DEF DryRun, Planned
  <2> QED BY <1>3, <2>1, <2>2 DEF DryRun
<1> QED BY <1>2, <1>3

LEMMA SavePointInv == ASSUME IInv, SavePoint PROVE IInv'
<1>1. /\ job.at = "point" /\ job' = [job EXCEPT !.at = "align"]
      /\ point' = [roster |-> job.target, pairs |-> job.pairs,
                   created |-> DOMAIN job.prod \ Seconds(job.pairs), done |-> FALSE]
      /\ UNCHANGED <<roster, sequence, link, entry, recorded, writes>>
  BY DEF SavePoint, Goto
<1>2. job \in Jobs
  BY DEF IInv, Typed, JobTyped
<1>3. job.target \in Rosters /\ DOMAIN job.prod \subseteq Id /\ job.pairs \in SUBSET (Id \X Id)
  BY <1>2, RosterSet DEF Jobs, IsRoster
<1>4. job.mode # "restore"
  BY <1>1 DEF IInv, RefreshInv, RestoreOwn
<1>5. /\ job' \in Jobs /\ job'.at = "align" /\ job'.mode = job.mode /\ job'.recorded = job.recorded
      /\ job'.target = job.target /\ job'.prod = job.prod /\ job'.pairs = job.pairs
  BY <1>1, <1>2 DEF Jobs, Stages
<1>6. point' \in Points
  BY <1>1, <1>3 DEF Points
<1>7. Typed'
  <2>1. RostersTyped' /\ LinksTyped' /\ LinksHeld' /\ writes' \in 0..MaxWrites
    BY <1>1 DEF IInv, Typed, RostersTyped, LinksTyped, LinksHeld
  <2>2. PointTyped' /\ JobTyped'
    BY <1>1, <1>5, <1>6 DEF IInv, Typed, PointTyped, JobTyped
  <2> QED BY <2>1, <2>2 DEF Typed
<1>8. DecisionsOwn' /\ EntriesOwn'
  BY <1>1 DEF IInv, RefreshInv, DecisionsOwn, EntriesOwn
<1>9. Held'
  BY <1>1, <1>5 DEF IInv, RefreshInv, Held, Agrees, Planned
<1>10. Noted' /\ PairsOwn'
  BY <1>1, <1>5 DEF IInv, RefreshInv, Noted, PairsOwn, Planned
<1>11. PointOwn'
  BY <1>1, <1>5 DEF PointOwn
<1>12. RestoreOwn' /\ CopyOwn'
  BY <1>4, <1>5 DEF RestoreOwn, CopyOwn
<1> QED BY <1>7, <1>8, <1>9, <1>10, <1>11, <1>12 DEF IInv, RefreshInv

LEMMA AlignInv == ASSUME IInv, Careless = FALSE, Align PROVE IInv'
<1> USE DEF Side
<1>1. /\ job.at = "align" /\ Accepts
      /\ roster' = [roster EXCEPT !["cert"] = job.prod]
      /\ entry' = [entry EXCEPT !["cert"] = Renumbered(entry["cert"])]
      /\ recorded' = {d \in recorded : /\ d.cert = d.prod /\ d.prod \in DOMAIN job.prod
                                       /\ job.prod[d.prod].year = d.year}
      /\ point' = [point EXCEPT !.done = (job.mode # "restore")]
      /\ \/ job.mode # "restore" /\ job' = [job EXCEPT !.at = "entries"]
         \/ job' = NoJob
  BY DEF Align, Goto
<1>2. PICK n \in Id : /\ Last(DOMAIN job.prod \cup {job.last, 1}, n)
                      /\ sequence' = [sequence EXCEPT !["cert"] = n]
  BY DEF Align, SetSequence
<1>3. Typed'
  BY AlignTyped
<1>4. job \in Jobs /\ point \in Points
  BY DEF IInv, Typed, JobTyped, PointTyped
<1>5. /\ roster \in [Side -> Rosters] /\ sequence \in [Side -> 0..MaxId] /\ entry \in [Side -> Links(Person)]
  BY DEF IInv, Typed, RostersTyped, LinksTyped
<1>6. /\ roster'["cert"] = job.prod /\ roster'["prod"] = roster["prod"]
      /\ entry'["prod"] = entry["prod"]
      /\ sequence'["cert"] = n /\ sequence'["prod"] = sequence["prod"]
  BY <1>1, <1>2, <1>5
<1>7. \A i \in DOMAIN job.prod : i <= n
  BY <1>2, LastIs
<1>8. point'.pairs = point.pairs /\ point'.roster = point.roster /\ point'.done = (job.mode # "restore")
  BY <1>1, <1>4 DEF Points
<1>9. \/ job.mode # "restore" /\ job'.at = "entries" /\ job'.mode = job.mode /\ job'.prod = job.prod
      \/ job'.at = "idle" /\ job'.mode = "none"
  BY <1>1, <1>4 DEF Jobs, NoJob
<1>10. DecisionsOwn'
  <2>1. CASE job.mode = "restore"
    <3>1. recorded = {}
      BY <2>1 DEF IInv, RefreshInv, RestoreOwn
    <3>2. recorded' = {}
      BY <1>1, <3>1
    <3> QED BY <3>2 DEF DecisionsOwn
  <2>2. CASE job.mode # "restore"
    <3>1. ASSUME NEW d \in recorded'
          PROVE  /\ d.cert <= n /\ d.prod <= sequence["prod"]
                 /\ d.cert \in DOMAIN job.prod => job.prod[d.cert].person = d.who
                 /\ d.prod \in DOMAIN roster["prod"] => roster["prod"][d.prod].person = d.who
      <4>1. d \in recorded /\ d.cert = d.prod /\ d.prod \in DOMAIN job.prod
        BY <1>1
      <4>2. /\ d.prod <= sequence["prod"]
            /\ d.prod \in DOMAIN roster["prod"] => roster["prod"][d.prod].person = d.who
        BY <4>1 DEF IInv, RefreshInv, DecisionsOwn
      <4>3. job.prod[d.prod].person = d.who
        BY <1>1, <2>2, <4>1 DEF IInv, RefreshInv, Noted, Planned
      <4> QED BY <1>7, <4>1, <4>2, <4>3
    <3> QED BY <1>6, <3>1 DEF DecisionsOwn
  <2> QED BY <2>1, <2>2
<1>11. Held'
  <2>1. ASSUME job.mode # "restore" PROVE Agrees(job.prod, "prod") /\ job.mode # "mirror"
    BY <1>1, <2>1 DEF IInv, RefreshInv, Held, Planned
  <2> QED BY <1>6, <1>7, <1>9, <2>1 DEF Held, Agrees, Planned, Taken
<1>12. PointOwn'
  <2>1. job'.at # "align"
    BY <1>9
  <2>2. ASSUME point'.done, NEW q \in point.pairs
        PROVE  /\ q[1] \in DOMAIN point.roster /\ q[2] <= n
               /\ q[2] \in DOMAIN job.prod => job.prod[q[2]].person = point.roster[q[1]].person
    <3>1. job.mode # "restore"
      BY <1>8, <2>2
    <3>2. point.pairs = job.pairs /\ point.roster = job.target
      BY <1>1, <3>1 DEF IInv, RefreshInv, PointOwn
    <3>3. /\ q[1] \in DOMAIN job.target /\ q[2] \in DOMAIN job.prod
          /\ job.target[q[1]].person = job.prod[q[2]].person
      BY <1>1, <2>2, <3>1, <3>2 DEF IInv, RefreshInv, PairsOwn, Planned
    <3> QED BY <1>7, <3>2, <3>3
  <2> QED BY <1>6, <1>8, <2>1, <2>2 DEF PointOwn
<1>13. EntriesOwn'
  BY <1>6 DEF IInv, RefreshInv, EntriesOwn
<1>14. Noted' /\ PairsOwn' /\ RestoreOwn' /\ CopyOwn'
  BY <1>9 DEF Noted, PairsOwn, RestoreOwn, CopyOwn, Planned
<1> QED BY <1>3, <1>10, <1>11, <1>12, <1>13, <1>14 DEF IInv, RefreshInv

LEMMA RefusedInv == ASSUME IInv, Careless = FALSE, AlignRefused PROVE IInv'
  BY EndInv DEF AlignRefused

LEMMA ReadEntriesInv == ASSUME IInv, ReadEntries PROVE IInv'
<1> USE DEF Side
<1>1. /\ job.at = "entries" /\ job' = [job EXCEPT !.at = "copy", !.entries = entry["prod"]]
      /\ UNCHANGED <<roster, sequence, link, entry, recorded, point, writes>>
  BY DEF ReadEntries
<1>2. job \in Jobs /\ entry["prod"] \in Links(Person)
  BY DEF IInv, Typed, JobTyped, LinksTyped
<1>3. /\ job' \in Jobs /\ job'.at = "copy" /\ job'.mode = job.mode /\ job'.prod = job.prod
      /\ job'.target = job.target /\ job'.entries = entry["prod"]
  BY <1>1, <1>2 DEF Jobs, Stages
<1>4. job.mode # "restore"
  BY <1>1 DEF IInv, RefreshInv, RestoreOwn
<1>5. Held'
  BY <1>1, <1>3, <1>4 DEF IInv, RefreshInv, Held, Agrees, Planned, Taken, SameLooks, Looks
<1>6. CopyOwn'
  <2>1. Agrees(job.prod, "prod")
    BY <1>1, <1>4 DEF IInv, RefreshInv, Held
  <2>2. ASSUME NEW p \in DOMAIN entry["prod"], entry["prod"][p] \in DOMAIN job.prod
        PROVE  job.prod[entry["prod"][p]].person = p
    <3>1. entry["prod"][p] \in DOMAIN roster["prod"] /\ roster["prod"][entry["prod"][p]].person = p
      BY DEF IInv, Typed, LinksHeld, RefreshInv, EntriesOwn
    <3> QED BY <2>1, <2>2, <3>1 DEF Agrees
  <2> QED BY <1>3, <2>2 DEF CopyOwn
<1>7. JobInv'
  BY <1>3, <1>4, <1>5, <1>6 DEF JobInv, Noted, PairsOwn, RestoreOwn, Planned
<1> QED BY <1>1, <1>3, <1>7, QuietStep DEF JobTyped

LEMMA MirrorInv == ASSUME IInv, Mirror PROVE IInv'
<1>1. /\ job.at = "plan"
      /\ UNCHANGED <<roster, sequence, link, entry, recorded, point, writes>>
  BY DEF Mirror
<1>2. CASE job' = NoJob
  BY <1>1, <1>2, EndInv
<1>3. CASE /\ SameLooks(job.target, job.prod) /\ job.mode = "mirror"
           /\ job' = [job EXCEPT !.at = "entries"]
  <2>1. job \in Jobs
    BY DEF IInv, Typed, JobTyped
  <2>2. /\ job' \in Jobs /\ job'.at = "entries" /\ job'.mode = job.mode
        /\ job'.target = job.target /\ job'.prod = job.prod
    BY <1>3, <2>1 DEF Jobs, Stages
  <2>3. job.mode # "restore"
    BY <1>1 DEF IInv, RefreshInv, RestoreOwn
  <2>4. Agrees(job.target, "cert") /\ Agrees(job.prod, "prod")
    BY <1>1, <2>3 DEF IInv, RefreshInv, Held
  <2>5. Held'
    BY <1>1, <1>3, <2>2, <2>4 DEF Held, Agrees, Planned, Taken, SameLooks, Looks
  <2>6. JobInv'
    BY <2>2, <2>3, <2>5 DEF JobInv, Noted, PairsOwn, RestoreOwn, CopyOwn, Planned
  <2> QED BY <1>1, <2>2, <2>6, QuietStep DEF JobTyped
<1>4. job.mode = "mirror"
  BY DEF Mirror
<1> QED BY <1>2, <1>3, <1>4 DEF Mirror, Goto

LEMMA CopyEntriesInv == ASSUME IInv, CopyEntries PROVE IInv'
<1> USE DEF Side
<1> DEFINE f == IF Range(job.entries) \subseteq DOMAIN roster["cert"] THEN job.entries ELSE entry["cert"]
<1>1. /\ entry' = [entry EXCEPT !["cert"] = f] /\ job' = NoJob
      /\ UNCHANGED <<roster, sequence, link, recorded, point, writes>>
  BY DEF CopyEntries
<1>2. job \in Jobs /\ entry \in [Side -> Links(Person)]
  BY DEF IInv, Typed, JobTyped, LinksTyped
<1>3. job.entries \in Links(Person)
  BY <1>2 DEF Jobs
<1>4. f \in Links(Person)
  BY <1>2, <1>3
<1>5. \A p \in DOMAIN f : f[p] \in DOMAIN roster["cert"]
  BY DEF IInv, Typed, LinksHeld, Range
<1>6. /\ entry' \in [Side -> Links(Person)] /\ entry'["cert"] = f /\ entry'["prod"] = entry["prod"]
  BY <1>1, <1>2, <1>4
<1>7. Typed'
  <2>1. RostersTyped' /\ PointTyped' /\ JobTyped' /\ writes' \in 0..MaxWrites
    BY <1>1, NothingYet DEF IInv, Typed, RostersTyped, PointTyped, JobTyped
  <2>2. LinksTyped'
    BY <1>1, <1>6 DEF IInv, Typed, LinksTyped
  <2>3. \A s \in Side : \A p \in DOMAIN entry'[s] : entry'[s][p] \in DOMAIN roster[s]
    BY <1>5, <1>6 DEF IInv, Typed, LinksHeld
  <2>4. LinksHeld'
    BY <1>1, <2>3 DEF IInv, Typed, LinksHeld
  <2> QED BY <2>1, <2>2, <2>4 DEF Typed
<1>8. DecisionsOwn' /\ EntriesOwn'
  BY <1>1, <1>6 DEF IInv, RefreshInv, DecisionsOwn, EntriesOwn
<1>9. PointOwn'
  BY <1>1 DEF IInv, RefreshInv, PointOwn, NoJob
<1>10. Held' /\ Noted' /\ PairsOwn' /\ RestoreOwn' /\ CopyOwn'
  BY <1>1 DEF NoJob, Held, Noted, PairsOwn, RestoreOwn, CopyOwn, Planned
<1> QED BY <1>7, <1>8, <1>9, <1>10 DEF IInv, RefreshInv

LEMMA RestoreInv == ASSUME IInv, Careless = FALSE, Restore PROVE IInv'
<1> DEFINE back == {<<q[2], q[1]>> : q \in point.pairs}
<1>1. /\ point.done /\ recorded = {}
      /\ job' = [NoJob EXCEPT !.at = "dry run", !.mode = "restore", !.prod = point.roster,
                              !.pairs = back, !.deletes = point.created]
      /\ UNCHANGED <<roster, sequence, link, entry, recorded, point, writes>>
  BY DEF Restore
<1>2. point \in Points
  BY DEF IInv, Typed, PointTyped
<1>3. point.roster \in Rosters /\ point.pairs \subseteq Id \X Id /\ point.created \in SUBSET Id
  BY <1>2 DEF Points
<1>4. back \in SUBSET (Id \X Id)
  BY <1>3
<1>5. /\ job' \in Jobs /\ job'.at = "dry run" /\ job'.mode = "restore" /\ job'.recorded = {}
      /\ job'.prod = point.roster /\ job'.pairs = back
  BY <1>1, <1>3, <1>4, NothingYet DEF Jobs, Stages, Modes, NoJob
<1>6. ASSUME NEW q \in back
      PROVE  /\ q[2] \in DOMAIN point.roster /\ q[1] <= sequence["cert"]
             /\ q[1] \in DOMAIN roster["cert"] => roster["cert"][q[1]].person = point.roster[q[2]].person
  <2>1. PICK r \in point.pairs : q = <<r[2], r[1]>>
    BY <1>6
  <2>2. /\ r[1] \in DOMAIN point.roster /\ r[2] <= sequence["cert"]
        /\ r[2] \in DOMAIN roster["cert"] => roster["cert"][r[2]].person = point.roster[r[1]].person
    BY <1>1 DEF IInv, RefreshInv, PointOwn
  <2> QED BY <2>1, <2>2
<1>7. RestoreOwn'
  BY <1>1, <1>5, <1>6 DEF RestoreOwn
<1>8. JobInv'
  BY <1>1, <1>5, <1>7 DEF JobInv, Held, Noted, PairsOwn, CopyOwn, Planned
<1> QED BY <1>1, <1>5, <1>8, QuietStep DEF JobTyped

-----------------------------------------------------------------------------
LEMMA InitInv == Init => IInv
<1> SUFFICES ASSUME Init PROVE IInv
  OBVIOUS
<1>1. recorded = {} /\ point = NoPoint /\ job = NoJob /\ DOMAIN entry["prod"] = {}
  BY DEF Init, Empty, Side
<1>2. DecisionsOwn /\ PointOwn /\ EntriesOwn
  BY <1>1 DEF NoPoint, NoJob, DecisionsOwn, PointOwn, EntriesOwn
<1>3. Held /\ Noted /\ PairsOwn /\ RestoreOwn /\ CopyOwn
  BY <1>1 DEF NoJob, Held, Noted, PairsOwn, RestoreOwn, CopyOwn, Planned
<1> QED BY <1>2, <1>3, TypedInit DEF IInv, RefreshInv

LEMMA NextInv == ASSUME IInv, Careless = FALSE, [Next]_vars PROVE IInv'
<1>1. CASE \E mode \in {"auto", "apply", "mirror"} : Start(mode)
  BY <1>1, StartInv DEF Modes
<1>2. CASE Step
  BY <1>2, ReadTargetInv, ReadProdInv, PlanInv, SequenceAndDryRunInv, SavePointInv, AlignInv,
     RefusedInv, ReadEntriesInv, CopyEntriesInv, MirrorInv DEF Step
<1>3. CASE Restore
  BY <1>3, RestoreInv
<1>4. CASE World
  BY <1>4, WorldInv
<1>5. CASE UNCHANGED vars
  <2>1. /\ UNCHANGED <<roster, sequence, link, entry, recorded, point, job, writes>>
    BY <1>5 DEF vars
  <2>2. JobTyped' /\ JobInv'
    BY <2>1 DEF IInv, Typed, JobTyped, RefreshInv, JobInv, Held, Noted, PairsOwn, RestoreOwn, CopyOwn,
                Agrees, Planned, Taken, SameLooks, Looks
  <2> QED BY <2>1, <2>2, QuietStep
<1> QED BY <1>1, <1>2, <1>3, <1>4, <1>5 DEF Next

LEMMA Inductive == ASSUME Careless = FALSE PROVE Spec => []IInv
<1>1. Init => IInv
  BY InitInv
<1>2. IInv /\ [Next]_vars => IInv'
  BY NextInv
<1> QED BY <1>1, <1>2, PTL DEF Spec

-----------------------------------------------------------------------------
(* The rosters, the links and the refresh under way keep their types; above   *)
(* all no link ever points at a fencer who is not there, although the rosters *)
(* change between any two calls of a refresh (the foreign keys that           *)
(* fn_align_fencers_to defers and checks at its end).                        *)
THEOREM RefreshTypeCorrect == ASSUME Careless = FALSE PROVE Spec => []TypeOK
<1>1. Spec => []IInv
  BY Inductive
<1>2. IInv => TypeOK
  BY TypedIsTypeOK DEF IInv
<1> QED BY <1>1, <1>2, PTL

(* An alignment or its restore leaves every row that refers to a fencer with  *)
(* the person it named, for rosters of any size and any interleaving.        *)
THEOREM EveryPersonKeepsTheirRows == ASSUME Careless = FALSE PROVE Spec => PersonsKeepRows
<1> DEFINE Kept == /\ \A r \in DOMAIN link :
                         roster'["cert"][link'[r]].person = roster["cert"][link[r]].person
                   /\ \A p \in DOMAIN entry["cert"] :
                         roster'["cert"][entry'["cert"][p]].person
                             = roster["cert"][entry["cert"][p]].person
<1>1. Spec => []IInv
  BY Inductive
<1>2. IInv /\ Align => Kept
  <2> SUFFICES ASSUME IInv, Align PROVE Kept
    OBVIOUS
  <2>1. /\ job.at = "align" /\ Accepts
        /\ roster' = [roster EXCEPT !["cert"] = job.prod]
        /\ link' = Renumbered(link)
        /\ entry' = [entry EXCEPT !["cert"] = Renumbered(entry["cert"])]
    BY DEF Align
  <2>2. roster \in [Side -> Rosters] /\ entry \in [Side -> Links(Person)]
    BY DEF IInv, Typed, RostersTyped, LinksTyped
  <2>3. roster'["cert"] = job.prod /\ entry'["cert"] = Renumbered(entry["cert"])
    BY <2>1, <2>2 DEF Side
  <2>4. \A r \in DOMAIN link : job.prod[Renumbered(link)[r]].person = roster["cert"][link[r]].person
    BY <2>1, ReferencesAre, RenumberedLinks DEF IInv
  <2>5. \A p \in DOMAIN entry["cert"] :
            job.prod[Renumbered(entry["cert"])[p]].person = roster["cert"][entry["cert"][p]].person
    BY <2>1, ReferencesAre, RenumberedLinks DEF IInv
  <2> QED BY <2>1, <2>3, <2>4, <2>5
<1>3. IInv /\ [Next]_vars => [Align => Kept]_vars
  BY <1>2
<1> QED BY <1>1, <1>3, PTL DEF Spec, PersonsKeepRows

(* A registration copied from PROD is linked to the same person on the target, *)
(* however old the rosters are that the refresh read and whatever was written *)
(* since; only the mirror's copy may take two namesakes for one, and only if  *)
(* their rows under one id look the same (run_refresh, run_copy_registrations). *)
THEOREM CopiedEntriesAreTheirs == ASSUME Careless = FALSE PROVE Spec => CopiedEntriesTheirs
<1> DEFINE Theirs == \A p \in DOMAIN job.entries :
                        job.entries[p] \in DOMAIN job.prod \cap DOMAIN roster["cert"]
                            => \/ roster["cert"][job.entries[p]].person = p
                               \/ TakenForOne(job.entries[p])
<1>1. Spec => []IInv
  BY Inductive
<1>2. IInv /\ CopyEntries => Theirs
  <2> SUFFICES ASSUME IInv, CopyEntries PROVE Theirs
    OBVIOUS
  <2>1. job.at = "copy" /\ job.mode # "restore"
    BY DEF CopyEntries, IInv, RefreshInv, RestoreOwn
  <2>2. Agrees(Taken, "cert")
    BY <2>1 DEF IInv, RefreshInv, Held
  <2>3. \A p \in DOMAIN job.entries :
            job.entries[p] \in DOMAIN job.prod => job.prod[job.entries[p]].person = p
    BY <2>1 DEF IInv, RefreshInv, CopyOwn
  <2>4. CASE job.mode # "mirror"
    BY <2>2, <2>3, <2>4 DEF Agrees, Taken
  <2>5. CASE job.mode = "mirror"
    <3>1. SameLooks(job.target, job.prod)
      BY <2>1, <2>5 DEF IInv, RefreshInv, Held
    <3>2. ASSUME NEW p \in DOMAIN job.entries,
                 job.entries[p] \in DOMAIN job.prod \cap DOMAIN roster["cert"]
          PROVE  \/ roster["cert"][job.entries[p]].person = p
                 \/ TakenForOne(job.entries[p])
      <4>1. /\ job.entries[p] \in DOMAIN job.target
            /\ Looks(job.target[job.entries[p]]) = Looks(job.prod[job.entries[p]])
        BY <3>1, <3>2 DEF SameLooks
      <4>2. roster["cert"][job.entries[p]].person = job.target[job.entries[p]].person
        BY <2>2, <2>5, <3>2, <4>1 DEF Agrees, Taken
      <4>3. job.prod[job.entries[p]].person = p
        BY <2>3, <3>2
      <4> QED BY <2>5, <3>2, <4>1, <4>2, <4>3 DEF TakenForOne
    <3> QED BY <3>2
  <2> QED BY <2>4, <2>5
<1>3. IInv /\ [Next]_vars => [CopyEntries => Theirs]_vars
  BY <1>2
<1> QED BY <1>1, <1>3, PTL DEF Spec, CopiedEntriesTheirs
=============================================================================
