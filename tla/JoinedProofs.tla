---------------------------- MODULE JoinedProofs ----------------------------
(***************************************************************************)
(* Proofs about JoinedFiling for every listing, place, category and bound,  *)
(* whatever corrections, refusals and crashes come between the calls: a     *)
(* stored order names each of its fencers' own category, a misfiled result  *)
(* is queued, and the orders of one listing agree where nobody is stored.   *)
(* Where no category is emptied or created and no drain ends halfway, they  *)
(* agree everywhere once nothing is queued.                                 *)
(***************************************************************************)
EXTENDS JoinedFiling, FiniteSetTheorems, TLAPS

\* What the worker read is what the tournaments stored: an order of the row's
\* listing for every row, and a category for every fencer.
LoadedOrders ==
    phase = "writing" =>
       /\ \A r \in loaded : /\ Key(r)[2] # NoOrder
                            /\ DOMAIN Key(r)[2] = 1..Size[ListingOf[r[1]]]
       /\ known \in [Fencer -> Category]

\* Between find_or_create and its write, a group still has its plan and a tournament.
Planned == current # NoCategory =>
              phase = "writing" /\ current \in tournaments /\ Plannable(current)

DigitsInv == TypeOK /\ LoadedOrders /\ Planned /\ OwnDigits

\* patch_order returns an order of the same places, in which each of the group's
\* rows finds the group's category.
LEMMA PatchedHasOwnDigits ==
    ASSUME TypeOK, LoadedOrders, phase = "writing", NEW c \in Category, Plannable(c),
           NEW r \in Group(c)
    PROVE  /\ PatchedOrder(Key(r)) \in Orders
           /\ DOMAIN PatchedOrder(Key(r)) = DOMAIN Key(r)[2]
           /\ \A q \in Group(c) : PatchedOrder(Key(r))[Place[q[1]]] = c
<1> DEFINE key == Key(r)
<1> DEFINE At(p) == {s \in Placed(key) : Place[s[1]] = p}
<1>1. r \in loaded /\ r[1] \in Fencer /\ r[2] \in Category
  BY DEF TypeOK, Group
<1>2. key[2] \in Orders /\ DOMAIN key[2] = 1..Size[ListingOf[r[1]]]
  <2>1. key \in (Listing \cup {NoUrl}) \X (Orders \cup {NoOrder})
    BY <1>1 DEF TypeOK, Key
  <2>2. key[2] \in Orders \cup {NoOrder}
    BY <2>1
  <2> QED BY <1>1, <2>2 DEF LoadedOrders
<1>3. PICK l \in Listing : key[2] \in [1..Size[l] -> Category]
  BY <1>2 DEF Orders
<1>4. \A s \in Placed(key) : known[s[1]] \in Category
  BY DEF Placed, LoadedOrders, TypeOK
<1>5. \A p \in 1..Size[l] :
        (\E s \in Placed(key) : Place[s[1]] = p) =>
           (CHOOSE s \in Placed(key) : Place[s[1]] = p) \in Placed(key)
  OBVIOUS
<1>6. PatchedOrder(key) \in [1..Size[l] -> Category]
  BY <1>3, <1>4, <1>5 DEF PatchedOrder
<1>7. PatchedOrder(key) \in Orders
  BY <1>6 DEF Orders
<1>8. DOMAIN PatchedOrder(key) = DOMAIN key[2]
  BY DEF PatchedOrder
<1>9. ASSUME NEW q \in Group(c) PROVE PatchedOrder(key)[Place[q[1]]] = c
  <2>1. q \in loaded /\ q[1] \in Fencer /\ known[q[1]] = c /\ Key(q) = key
    BY DEF Group, TypeOK, Plannable, SameBracket
  <2>2. q \in Placed(key)
    BY <2>1 DEF Placed
  <2>3. Place[q[1]] \in DOMAIN key[2]
    <3>1. DOMAIN key[2] = 1..Size[ListingOf[q[1]]]
      BY <2>1 DEF LoadedOrders
    <3>2. Place[q[1]] \in Nat \ {0} /\ Place[q[1]] <= Size[ListingOf[q[1]]]
      BY <2>1, JoinedAssumption
    <3>3. Size[ListingOf[q[1]]] \in Nat
      BY <2>1, JoinedAssumption
    <3> QED BY <3>1, <3>2, <3>3
  <2> DEFINE s == CHOOSE x \in Placed(key) : Place[x[1]] = Place[q[1]]
  <2>4. s \in Placed(key) /\ Place[s[1]] = Place[q[1]]
    BY <2>2
  <2>5. known[s[1]] = c
    <3>1. ~Tied(key)
      BY DEF Plannable
    <3> QED BY <2>1, <2>2, <2>4, <3>1 DEF Tied
  <2>6. PatchedOrder(key)[Place[q[1]]] = known[s[1]]
    BY <2>2, <2>3 DEF PatchedOrder
  <2> QED BY <2>5, <2>6
<1> QED BY <1>7, <1>8, <1>9

-----------------------------------------------------------------------------
\* Ingestion files every fencer under the digit the listing's order gives him.
LEMMA DigitsInit == Init => DigitsInv
<1> SUFFICES ASSUME Init PROVE DigitsInv
  OBVIOUS
<1> USE JoinedAssumption
<1>1. PICK sheet \in [Listing -> Orders] :
        /\ \A l \in Listing : DOMAIN sheet[l] = 1..Size[l]
        /\ \A f \in Fencer : sheet[ListingOf[f]][Place[f]] = year[f]
        /\ order = [c \in Category |-> IF \E f \in Fencer : year[f] = c
                      THEN sheet[ListingOf[CHOOSE f \in Fencer : year[f] = c]] ELSE NoOrder]
  BY DEF Init
<1>2. year \in [Fencer -> Category]
  BY DEF Init
<1>3. filed = [c \in Category |-> {f \in Fencer : year[f] = c}]
  BY DEF Init
<1>4. ASSUME NEW c \in Category, NEW f \in filed[c]
      PROVE  f \in Fencer /\ year[f] = c /\ order[c] = sheet[ListingOf[f]]
  <2>1. f \in Fencer /\ year[f] = c
    BY <1>3, <1>4
  <2> DEFINE g == CHOOSE x \in Fencer : year[x] = c
  <2>2. g \in Fencer /\ year[g] = c
    BY <2>1
  <2>3. ListingOf[g] = ListingOf[f]
    BY <2>1, <2>2 DEF Init
  <2>4. order[c] = sheet[ListingOf[g]]
    BY <1>1, <2>1
  <2> QED BY <2>1, <2>3, <2>4
<1>5. order \in [Category -> Orders \cup {NoOrder}]
  <2>1. ASSUME NEW c \in Category, \E f \in Fencer : year[f] = c
        PROVE  sheet[ListingOf[CHOOSE f \in Fencer : year[f] = c]] \in Orders
    <3> DEFINE g == CHOOSE x \in Fencer : year[x] = c
    <3>1. g \in Fencer
      BY <2>1
    <3> QED BY <1>1, <3>1
  <2> QED BY <1>1, <2>1
<1>6. url \in [Category -> Listing \cup {NoUrl}]
  <2>1. ASSUME NEW c \in Category, c \in tournaments
        PROVE  ListingOf[CHOOSE f \in Fencer : year[f] = c] \in Listing
    <3>1. \E f \in Fencer : year[f] = c
      BY <1>3, <2>1 DEF Init
    <3> QED BY <3>1
  <2>2. url = [c \in Category |-> IF c \in tournaments
                 THEN ListingOf[CHOOSE f \in Fencer : year[f] = c] ELSE NoUrl]
    BY DEF Init
  <2> QED BY <2>1, <2>2
<1>7. \A c \in Category : (filed[c] # {} \/ order[c] # NoOrder) => c \in tournaments
  <2> SUFFICES ASSUME NEW c \in Category, c \notin tournaments
               PROVE  filed[c] = {} /\ order[c] = NoOrder
    OBVIOUS
  <2>1. filed[c] = {}
    BY DEF Init
  <2>2. ~ \E f \in Fencer : year[f] = c
    BY <1>3, <2>1
  <2> QED BY <1>1, <2>1, <2>2
<1>8. \A l \in Listing : sheet[l] # NoOrder
  <2> SUFFICES ASSUME NEW l \in Listing PROVE sheet[l] # NoOrder
    OBVIOUS
  <2>1. PICK k \in Listing : sheet[l] \in [1..Size[k] -> Category]
    BY <1>1 DEF Orders
  <2> QED BY <2>1
<1>9. \A c \in Category : \A f \in filed[c] :
         order[c] # NoOrder /\ DOMAIN order[c] = 1..Size[ListingOf[f]]
  BY <1>1, <1>4, <1>8
<1>10. keys \in [Category -> (Listing \cup {NoUrl}) \X (Orders \cup {NoOrder})]
  BY DEF Init
<1>11. filed \in [Category -> SUBSET Fencer] /\ tournaments \subseteq Category
  BY <1>3 DEF Init
<1>12. TypeOK
  BY <1>2, <1>5, <1>6, <1>7, <1>9, <1>10, <1>11 DEF Init, TypeOK, Unread
<1>13. OwnDigits
  BY <1>1, <1>4 DEF OwnDigits
<1> QED BY <1>12, <1>13 DEF DigitsInv, Init, LoadedOrders, Planned

\* The columns are left alone and the worker stops.
LEMMA StopKeepsDigits ==
    ASSUME DigitsInv, Stop, queue' \subseteq {"PENDING", "CLAIMED"},
           UNCHANGED <<year, tournaments, url, order>>,
           filed' \in [Category -> SUBSET Fencer],
           \A c \in Category : filed'[c] \subseteq filed[c]
    PROVE  DigitsInv'
<1> USE DEF DigitsInv
<1>1. TypeOK'
  <2>1. keys' \in [Category -> (Listing \cup {NoUrl}) \X (Orders \cup {NoOrder})]
    BY DEF Stop
  <2>2. \A c \in Category : (filed'[c] # {} \/ order[c] # NoOrder) => c \in tournaments
    BY DEF TypeOK
  <2>3. \A c \in Category : \A f \in filed'[c] :
           order[c] # NoOrder /\ DOMAIN order[c] = 1..Size[ListingOf[f]]
    BY DEF TypeOK
  <2> QED BY <2>1, <2>2, <2>3 DEF TypeOK, Stop, Unread
<1>2. OwnDigits'
  BY DEF OwnDigits
<1> QED BY <1>1, <1>2 DEF Stop, LoadedOrders, Planned

LEMMA DigitsNext == DigitsInv /\ [Next]_vars => DigitsInv'
<1> SUFFICES ASSUME DigitsInv, [Next]_vars PROVE DigitsInv'
  OBVIOUS
<1> USE DEF DigitsInv
<1>0. filed \in [Category -> SUBSET Fencer]
  BY DEF TypeOK
<1>1. ASSUME NEW f \in Fencer, NEW c \in Category, Correct(f, c) PROVE DigitsInv'
  <2>1. TypeOK'
    BY <1>1 DEF Correct, TypeOK, run
  <2>2. UNCHANGED <<order, filed, tournaments, run>>
    BY <1>1 DEF Correct
  <2> QED BY <2>1, <2>2 DEF run, LoadedOrders, Planned, Plannable, SameBracket, Group, Key,
                             Tied, Placed, OwnDigits
<1>2. CASE LoadCommitted
  <2>1. UNCHANGED <<order, filed, year, tournaments, url>> /\ current' = NoCategory
    BY <1>2 DEF LoadCommitted, stored, Planned
  <2>2. keys' = [c \in Category |-> <<url[c], order[c]>>]
    BY <1>2 DEF LoadCommitted
  <2>3. keys' \in [Category -> (Listing \cup {NoUrl}) \X (Orders \cup {NoOrder})]
    BY <2>2 DEF TypeOK
  <2>4. TypeOK'
    BY <1>2, <2>1, <2>3 DEF LoadCommitted, TypeOK
  <2>5. LoadedOrders'
    <3>1. \A r \in loaded' : r[2] \in Category /\ r[1] \in filed[r[2]]
      BY <1>2 DEF LoadCommitted
    <3>2. \A r \in loaded' : keys'[r[2]][2] = order[r[2]]
      BY <2>2, <3>1
    <3>3. known' \in [Fencer -> Category]
      BY <1>2 DEF LoadCommitted, TypeOK
    <3> QED BY <3>1, <3>2, <3>3 DEF LoadedOrders, Key, TypeOK
  <2> QED BY <2>1, <2>4, <2>5 DEF Planned, OwnDigits
<1>3. ASSUME NEW c \in Category, PlanRefused(c) PROVE DigitsInv'
  BY <1>0, <1>3, StopKeepsDigits DEF PlanRefused, Raise, stored, TypeOK
<1>4. ASSUME NEW c \in Category, FindOrCreate(c) PROVE DigitsInv'
  <2>1. TypeOK'
    BY <1>4 DEF FindOrCreate, AtGroup, TypeOK
  <2>2. LoadedOrders' /\ OwnDigits'
    BY <1>4 DEF FindOrCreate, LoadedOrders, Key, OwnDigits
  <2>3. Planned'
    BY <1>4 DEF FindOrCreate, AtGroup, Planned, Plannable, SameBracket, Group, Key, Tied, Placed
  <2> QED BY <2>1, <2>2, <2>3
<1>5. CASE Ingest
  <2>1. current \in Category /\ phase = "writing" /\ Plannable(current)
    BY <1>5 DEF Ingest, Planned, TypeOK
  <2>2. PICK r \in Group(current) : order' = [order EXCEPT ![current] = PatchedOrder(Key(r))]
    BY <1>5 DEF Ingest
  <2>3. /\ PatchedOrder(Key(r)) \in Orders
        /\ DOMAIN PatchedOrder(Key(r)) = DOMAIN Key(r)[2]
        /\ \A q \in Group(current) : PatchedOrder(Key(r))[Place[q[1]]] = current
    BY <2>1, <2>2, PatchedHasOwnDigits
  <2>4. filed' = [filed EXCEPT ![current] = {q[1] : q \in Group(current)}]
    BY <1>5 DEF Ingest
  <2>5. order'[current] = PatchedOrder(Key(r))
    BY <2>1, <2>2 DEF TypeOK
  <2>6. PatchedOrder(Key(r)) # NoOrder
    <3>1. PICK l \in Listing : PatchedOrder(Key(r)) \in [1..Size[l] -> Category]
      BY <2>3 DEF Orders
    <3> QED BY <3>1, JoinedAssumption
  <2>7. \A f \in filed'[current] :
           /\ order'[current] # NoOrder
           /\ DOMAIN order'[current] = 1..Size[ListingOf[f]]
           /\ order'[current][Place[f]] = current
    <3> SUFFICES ASSUME NEW f \in filed'[current]
                 PROVE  /\ DOMAIN order'[current] = 1..Size[ListingOf[f]]
                        /\ order'[current][Place[f]] = current
      BY <2>5, <2>6
    <3>1. PICK q \in Group(current) : q[1] = f
      BY <2>1, <2>4 DEF TypeOK
    <3>2. Key(q) = Key(r) /\ q \in loaded
      BY <2>1, <2>2, <3>1 DEF Plannable, SameBracket, Group
    <3>3. DOMAIN Key(r)[2] = 1..Size[ListingOf[f]]
      BY <2>1, <3>1, <3>2 DEF LoadedOrders
    <3> QED BY <2>3, <2>5, <3>1, <3>3
  <2>8. \A c \in Category : c # current => order'[c] = order[c] /\ filed'[c] = filed[c]
    BY <2>2, <2>4 DEF TypeOK
  <2>9. filed' \in [Category -> SUBSET Fencer] /\ order' \in [Category -> Orders \cup {NoOrder}]
    <3>1. {q[1] : q \in Group(current)} \subseteq Fencer
      BY DEF Group, TypeOK
    <3> QED BY <2>2, <2>3, <2>4, <3>1 DEF TypeOK
  <2>10. current \in tournaments
    BY <2>1, <1>5 DEF Planned, Ingest, TypeOK
  <2>11. \A c \in Category : \A f \in filed'[c] :
            order'[c] # NoOrder /\ DOMAIN order'[c] = 1..Size[ListingOf[f]]
    BY <2>7, <2>8 DEF TypeOK
  <2>12. \A c \in Category : (filed'[c] # {} \/ order'[c] # NoOrder) => c \in tournaments
    BY <2>8, <2>10 DEF TypeOK
  <2>13. TypeOK'
    BY <1>5, <2>9, <2>11, <2>12 DEF Ingest, TypeOK
  <2>14. OwnDigits'
    BY <2>7, <2>8 DEF OwnDigits
  <2> QED BY <1>5, <2>13, <2>14 DEF Ingest, LoadedOrders, Planned, Key
<1>6. CASE IngestRefused
  BY <1>0, <1>6, StopKeepsDigits DEF IngestRefused, Raise, stored, TypeOK
<1>7. ASSUME NEW c \in Category, Clear(c) PROVE DigitsInv'
  <2>1. filed' = [filed EXCEPT ![c] = {}] /\ UNCHANGED <<year, tournaments, url, order>>
    BY <1>7 DEF Clear
  <2>2. filed' \in [Category -> SUBSET Fencer] /\ \A k \in Category : filed'[k] \subseteq filed[k]
    BY <1>0, <2>1
  <2>3. CASE Raise
    BY <2>1, <2>2, <2>3, StopKeepsDigits DEF Raise, TypeOK
  <2>4. CASE UNCHANGED <<queue, phase, loaded, keys, known, unwritten, current>>
             /\ uncleared' = uncleared \ {c}
    <3>1. TypeOK'
      BY <2>1, <2>2, <2>4 DEF TypeOK
    <3>2. OwnDigits'
      BY <2>1, <2>2 DEF OwnDigits
    <3> QED BY <2>1, <2>4, <3>1, <3>2 DEF LoadedOrders, Key, Planned, Plannable, SameBracket, Group,
                                    Tied, Placed
  <2> QED BY <1>7, <2>3, <2>4 DEF Clear
<1>8. CASE Done
  BY <1>0, <1>8, StopKeepsDigits DEF Done, stored, TypeOK
<1>9. CASE Crash
  BY <1>0, <1>9, StopKeepsDigits DEF Crash, stored, TypeOK
<1>10. CASE UNCHANGED vars
  BY <1>10 DEF vars, stored, run, TypeOK, LoadedOrders, Planned, OwnDigits, Plannable,
               SameBracket, Group, Key, Tied, Placed
<1> QED
  BY <1>1, <1>2, <1>3, <1>4, <1>5, <1>6, <1>7, <1>8, <1>9, <1>10 DEF Next, Drain

\* Each stored fencer's own category stands at his place of his tournament's
\* stored order, for every listing, correction, refusal and crash.
THEOREM StoredOrdersHaveOwnDigits == Spec => []OwnDigits
<1>1. Init => DigitsInv
  BY DigitsInit
<1>2. DigitsInv /\ [Next]_vars => DigitsInv'
  BY DigitsNext
<1>3. DigitsInv => OwnDigits
  BY DEF DigitsInv
<1> QED BY <1>1, <1>2, <1>3, PTL DEF Spec

\* Every column stays in its domain, and only an existing tournament holds results.
THEOREM JoinedTypeCorrect == Spec => []TypeOK
<1>1. Init => DigitsInv
  BY DigitsInit
<1>2. DigitsInv /\ [Next]_vars => DigitsInv'
  BY DigitsNext
<1>3. DigitsInv => TypeOK
  BY DEF DigitsInv
<1> QED BY <1>1, <1>2, <1>3, PTL DEF Spec
-----------------------------------------------------------------------------
(* No correction is forgotten under the joined engine either *)

\* What the drain has written and emptied is where the birth years put it, unless
\* a row of the queue is to be claimed anew.
WrittenIsFiled ==
    phase = "writing" /\ "PENDING" \notin queue =>
       \A c \in Category \ (unwritten \cup uncleared) : \A f \in filed[c] : year[f] = c

FiledInv == DigitsInv /\ WrittenIsFiled /\ StaleIsQueued

\* A step that files nobody anew, takes no row from the queue and corrects no
\* fencer with a result, in or out of the writing.
LEMMA KeepsFiled ==
    ASSUME FiledInv, queue' = queue, year' = year,
           \A c \in Category : filed'[c] \subseteq filed[c],
           phase' = "idle" \/ (/\ UNCHANGED <<phase, unwritten>>
                               /\ \A c \in uncleared \ uncleared' : filed'[c] = {})
    PROVE  WrittenIsFiled' /\ StaleIsQueued'
<1>1. StaleIsQueued'
  BY DEF FiledInv, StaleIsQueued
<1>2. CASE phase' = "idle"
  BY <1>1, <1>2 DEF WrittenIsFiled
<1>3. CASE UNCHANGED <<phase, unwritten>> /\ \A c \in uncleared \ uncleared' : filed'[c] = {}
  BY <1>1, <1>3 DEF FiledInv, WrittenIsFiled
<1> QED BY <1>2, <1>3

LEMMA FiledInit == Init => FiledInv
<1> SUFFICES ASSUME Init PROVE FiledInv
  OBVIOUS
<1>1. \A c \in Category : \A f \in filed[c] : year[f] = c
  BY DEF Init
<1> QED BY <1>1, DigitsInit DEF Init, FiledInv, WrittenIsFiled, StaleIsQueued

LEMMA FiledNext == FiledInv /\ [Next]_vars => FiledInv'
<1> SUFFICES ASSUME FiledInv, [Next]_vars PROVE FiledInv'
  OBVIOUS
<1>0. DigitsInv /\ DigitsInv' /\ TypeOK
  BY DigitsNext DEF FiledInv, DigitsInv
<1> SUFFICES WrittenIsFiled' /\ StaleIsQueued'
  BY <1>0 DEF FiledInv
<1>1. ASSUME NEW f \in Fencer, NEW c \in Category, Correct(f, c)
      PROVE  WrittenIsFiled' /\ StaleIsQueued'
  <2>1. year' = [year EXCEPT ![f] = c] /\ UNCHANGED <<filed, phase, unwritten, uncleared>>
    BY <1>1 DEF Correct, run
  <2>2. CASE \E k \in Category : f \in filed[k]
    BY <1>1, <2>1, <2>2 DEF Correct, WrittenIsFiled, StaleIsQueued
  <2>3. CASE ~ \E k \in Category : f \in filed[k]
    <3>1. \A k \in Category : \A g \in filed[k] : year'[g] = year[g]
      BY <1>0, <2>1, <2>3 DEF TypeOK
    <3>2. queue' = queue
      BY <1>1, <2>3 DEF Correct
    <3> QED BY <2>1, <3>1, <3>2 DEF FiledInv, WrittenIsFiled, StaleIsQueued
  <2> QED BY <2>2, <2>3
<1>2. CASE LoadCommitted
  <2>1. queue' # {} /\ UNCHANGED <<year, filed>>
    BY <1>2 DEF LoadCommitted, stored
  <2>2. \A c \in Category \ (unwritten' \cup uncleared') : filed[c] = {}
    BY <1>0, <1>2 DEF LoadCommitted, TypeOK
  <2> QED BY <2>1, <2>2 DEF WrittenIsFiled, StaleIsQueued
<1>3. ASSUME NEW c \in Category, PlanRefused(c) PROVE WrittenIsFiled' /\ StaleIsQueued'
  BY <1>3, KeepsFiled DEF PlanRefused, Raise, Stop, stored
<1>4. ASSUME NEW c \in Category, FindOrCreate(c) PROVE WrittenIsFiled' /\ StaleIsQueued'
  BY <1>4, KeepsFiled DEF FindOrCreate
<1>5. CASE Ingest
  <2>1. current \in Category /\ phase = "writing" /\ UNCHANGED <<phase, queue, year, uncleared>>
    BY <1>0, <1>5 DEF Ingest, TypeOK
  <2>2. filed' = [filed EXCEPT ![current] = {r[1] : r \in Group(current)}]
        /\ unwritten' = unwritten \ {current}
    BY <1>5 DEF Ingest
  <2>3. \A f \in filed'[current] : year[f] = current
    BY <1>0, <1>5, <2>1, <2>2 DEF Ingest, Writable, TypeOK
  <2>4. \A c \in Category : c # current => filed'[c] = filed[c]
    BY <1>0, <2>2 DEF TypeOK
  <2> QED BY <2>1, <2>2, <2>3, <2>4 DEF FiledInv, WrittenIsFiled, StaleIsQueued
<1>6. CASE IngestRefused
  BY <1>6, KeepsFiled DEF IngestRefused, Raise, Stop, stored
<1>7. ASSUME NEW c \in Category, Clear(c) PROVE WrittenIsFiled' /\ StaleIsQueued'
  <2>1. filed' = [filed EXCEPT ![c] = {}] /\ year' = year
    BY <1>7 DEF Clear
  <2>2. \A k \in Category : filed'[k] \subseteq filed[k]
    BY <1>0, <2>1 DEF TypeOK
  <2>3. filed'[c] = {}
    BY <1>0, <2>1 DEF TypeOK
  <2>4. queue' = queue /\ \/ phase' = "idle"
                          \/ UNCHANGED <<phase, unwritten>> /\ uncleared' = uncleared \ {c}
    BY <1>7 DEF Clear, Raise, Stop
  <2> QED BY <2>1, <2>2, <2>3, <2>4, KeepsFiled
<1>8. CASE Done
  <2>1. UNCHANGED <<year, filed>> /\ phase' = "idle" /\ queue' = queue \ {"CLAIMED"}
    BY <1>8 DEF Done, Stop, stored
  <2>2. "PENDING" \notin queue => \A c \in Category : \A f \in filed[c] : year[f] = c
    BY <1>8 DEF Done, FiledInv, WrittenIsFiled
  <2> QED BY <2>1, <2>2 DEF WrittenIsFiled, StaleIsQueued
<1>9. CASE Crash
  BY <1>9, KeepsFiled DEF Crash, Stop, stored
<1>10. CASE UNCHANGED vars
  BY <1>10, KeepsFiled DEF vars, stored, run
<1> QED
  BY <1>1, <1>2, <1>3, <1>4, <1>5, <1>6, <1>7, <1>8, <1>9, <1>10 DEF Next, Drain

\* A result filed under another category than the birth year's is still queued,
\* whatever is refused, dies or is corrected between the calls.
THEOREM JoinedStaleIsQueued == Spec => []StaleIsQueued
<1>1. Init => FiledInv
  BY FiledInit
<1>2. FiledInv /\ [Next]_vars => FiledInv'
  BY FiledNext
<1>3. FiledInv => StaleIsQueued
  BY DEF FiledInv
<1> QED BY <1>1, <1>2, <1>3, PTL DEF Spec
-----------------------------------------------------------------------------
(* Places never stored *)

\* Listings are told apart by their length.  A tournament that a recompute created
\* has no URL, and its length and order are all there is to know its listing by.
LengthsDiffer == \A l, k \in Listing : Size[l] = Size[k] => l = k

\* An order has the digits of the sheet at l's places that nobody stored.
KeepsSheet(o, sheet, l) == \A p \in 1..Size[l] : Unstored(l, p) => o[p] = sheet[l][p]

\* There is one sheet per listing that every stored and every loaded order keeps.
FromSheet(sheet) ==
    /\ \A c \in Category : \A f \in filed[c] : KeepsSheet(order[c], sheet, ListingOf[f])
    /\ phase = "writing" => \A r \in loaded : KeepsSheet(Key(r)[2], sheet, ListingOf[r[1]])

SheetInv == DigitsInv /\ \E sheet \in [Listing -> Orders] : FromSheet(sheet)

\* patch_order keeps the digits of places nobody stored: no row it patches from
\* is of another listing, so none sits at such a place.
LEMMA PatchKeepsSheet ==
    ASSUME LengthsDiffer, DigitsInv, phase = "writing", NEW c \in Category, Plannable(c),
           NEW r \in Group(c), NEW q \in Group(c), NEW sheet, FromSheet(sheet)
    PROVE  KeepsSheet(PatchedOrder(Key(r)), sheet, ListingOf[q[1]])
<1> DEFINE key == Key(r)
<1> DEFINE l == ListingOf[q[1]]
<1>1. q \in loaded /\ q[1] \in Fencer /\ l \in Listing /\ Key(q) = key
  BY JoinedAssumption DEF Group, DigitsInv, TypeOK, Plannable, SameBracket
<1>2. DOMAIN key[2] = 1..Size[l]
  BY <1>1 DEF DigitsInv, LoadedOrders
<1>3. ASSUME NEW t \in Placed(key) PROVE ListingOf[t[1]] = l
  <2>1. t \in loaded /\ t[1] \in Fencer /\ ListingOf[t[1]] \in Listing /\ Key(t) = key
    BY JoinedAssumption DEF Placed, DigitsInv, TypeOK
  <2>2. 1..Size[ListingOf[t[1]]] = 1..Size[l]
    BY <1>2, <2>1 DEF DigitsInv, LoadedOrders
  <2> DEFINE m == Size[ListingOf[t[1]]]
  <2> DEFINE n == Size[l]
  <2>3. m \in Nat \ {0} /\ n \in Nat \ {0}
    BY <1>1, <2>1, JoinedAssumption
  <2>4. m \in 1..n /\ n \in 1..m
    BY <2>2, <2>3
  <2>5. m = n
    BY <2>3, <2>4
  <2> QED BY <1>1, <2>1, <2>5 DEF LengthsDiffer
<1> SUFFICES ASSUME NEW p \in 1..Size[l], Unstored(l, p)
             PROVE  PatchedOrder(key)[p] = sheet[l][p]
  BY DEF KeepsSheet
<1>4. ~ \E t \in Placed(key) : Place[t[1]] = p
  <2> SUFFICES ASSUME NEW t \in Placed(key) PROVE Place[t[1]] # p
    OBVIOUS
  <2>1. t[1] \in Fencer
    BY DEF Placed, DigitsInv, TypeOK
  <2> QED BY <1>3, <2>1 DEF Unstored
<1>5. PatchedOrder(key)[p] = key[2][p]
  BY <1>2, <1>4 DEF PatchedOrder
<1>6. KeepsSheet(key[2], sheet, l)
  BY <1>1 DEF FromSheet
<1> QED BY <1>5, <1>6 DEF KeepsSheet

LEMMA SheetInit == Init => SheetInv
<1> SUFFICES ASSUME Init PROVE SheetInv
  OBVIOUS
<1>1. PICK sheet \in [Listing -> Orders] :
        order = [c \in Category |-> IF \E f \in Fencer : year[f] = c
                   THEN sheet[ListingOf[CHOOSE f \in Fencer : year[f] = c]] ELSE NoOrder]
  BY DEF Init
<1>2. ASSUME NEW c \in Category, NEW f \in filed[c] PROVE order[c] = sheet[ListingOf[f]]
  <2>1. f \in Fencer /\ year[f] = c
    BY DEF Init
  <2> DEFINE g == CHOOSE x \in Fencer : year[x] = c
  <2>2. g \in Fencer /\ year[g] = c
    BY <2>1
  <2>3. ListingOf[g] = ListingOf[f]
    BY <2>1, <2>2 DEF Init
  <2> QED BY <1>1, <2>1, <2>3
<1>3. phase = "idle"
  BY DEF Init
<1>4. \A c \in Category : \A f \in filed[c] : KeepsSheet(order[c], sheet, ListingOf[f])
  BY <1>2 DEF KeepsSheet
<1>5. FromSheet(sheet)
  BY <1>3, <1>4 DEF FromSheet
<1> QED BY <1>5, DigitsInit DEF SheetInv

LEMMA SheetNext == ASSUME LengthsDiffer PROVE SheetInv /\ [Next]_vars => SheetInv'
<1> SUFFICES ASSUME SheetInv, [Next]_vars PROVE SheetInv'
  OBVIOUS
<1>0. DigitsInv /\ DigitsInv' /\ TypeOK
  BY DigitsNext DEF SheetInv, DigitsInv
<1> PICK sheet \in [Listing -> Orders] : FromSheet(sheet)
  BY DEF SheetInv
<1> SUFFICES FromSheet(sheet)'
  BY <1>0 DEF SheetInv
<1>1. ASSUME UNCHANGED order, \A c \in Category : filed'[c] \subseteq filed[c],
             phase' = "idle" \/ UNCHANGED <<phase, loaded, keys>>
      PROVE  FromSheet(sheet)'
  BY <1>1 DEF FromSheet, KeepsSheet, Unstored, Key
<1>2. ASSUME NEW f \in Fencer, NEW c \in Category, Correct(f, c) PROVE FromSheet(sheet)'
  BY <1>1, <1>2 DEF Correct, run
<1>3. CASE LoadCommitted
  <2>1. UNCHANGED <<order, filed>> /\ keys' = [c \in Category |-> <<url[c], order[c]>>]
    BY <1>3 DEF LoadCommitted, stored
  <2>2. \A r \in loaded' : r[2] \in Category /\ r[1] \in filed[r[2]] /\ keys'[r[2]][2] = order[r[2]]
    BY <1>3, <2>1 DEF LoadCommitted
  <2> QED BY <2>1, <2>2 DEF FromSheet, KeepsSheet, Unstored, Key
<1>4. ASSUME NEW c \in Category, PlanRefused(c) PROVE FromSheet(sheet)'
  BY <1>1, <1>4 DEF PlanRefused, Raise, Stop, stored
<1>5. ASSUME NEW c \in Category, FindOrCreate(c) PROVE FromSheet(sheet)'
  BY <1>1, <1>5 DEF FindOrCreate
<1>6. CASE Ingest
  <2>1. current \in Category /\ phase = "writing" /\ Plannable(current)
    BY <1>0, <1>6 DEF Ingest, DigitsInv, Planned, TypeOK
  <2>2. PICK r \in Group(current) : order' = [order EXCEPT ![current] = PatchedOrder(Key(r))]
    BY <1>6 DEF Ingest
  <2>3. filed' = [filed EXCEPT ![current] = {q[1] : q \in Group(current)}]
    BY <1>6 DEF Ingest
  <2>4. order'[current] = PatchedOrder(Key(r)) /\ filed'[current] = {q[1] : q \in Group(current)}
    BY <1>0, <2>1, <2>2, <2>3 DEF TypeOK
  <2>5. \A f \in filed'[current] : KeepsSheet(PatchedOrder(Key(r)), sheet, ListingOf[f])
    <3> SUFFICES ASSUME NEW q \in Group(current)
                 PROVE  KeepsSheet(PatchedOrder(Key(r)), sheet, ListingOf[q[1]])
      BY <2>4
    <3> QED BY <1>0, <2>1, PatchKeepsSheet
  <2>6. \A c \in Category : c # current => order'[c] = order[c] /\ filed'[c] = filed[c]
    BY <1>0, <2>2, <2>3 DEF TypeOK
  <2>7. UNCHANGED <<phase, loaded, keys>>
    BY <1>6 DEF Ingest
  <2> QED BY <2>4, <2>5, <2>6, <2>7 DEF FromSheet, KeepsSheet, Unstored, Key
<1>7. CASE IngestRefused
  BY <1>1, <1>7 DEF IngestRefused, Raise, Stop, stored
<1>8. ASSUME NEW c \in Category, Clear(c) PROVE FromSheet(sheet)'
  <2>1. order' = order /\ \A k \in Category : filed'[k] \subseteq filed[k]
    BY <1>0, <1>8 DEF Clear, TypeOK
  <2>2. phase' = "idle" \/ UNCHANGED <<phase, loaded, keys>>
    BY <1>8 DEF Clear, Raise, Stop
  <2> QED BY <1>1, <2>1, <2>2
<1>9. CASE Done
  BY <1>1, <1>9 DEF Done, Stop, stored
<1>10. CASE Crash
  BY <1>1, <1>10 DEF Crash, Stop, stored
<1>11. CASE UNCHANGED vars
  BY <1>1, <1>11 DEF vars, stored, run
<1> QED
  BY <1>2, <1>3, <1>4, <1>5, <1>6, <1>7, <1>8, <1>9, <1>10, <1>11 DEF Next, Drain

\* "keeps the digits of places that were never stored": the orders a listing's
\* tournaments store agree there, where listings differ in length.
THEOREM UnstoredPlacesAgree == ASSUME LengthsDiffer PROVE Spec => []UnstoredAgree
<1>1. Init => SheetInv
  BY SheetInit
<1>2. SheetInv /\ [Next]_vars => SheetInv'
  BY SheetNext
<1>3. SheetInv => UnstoredAgree
  BY DEF SheetInv, FromSheet, KeepsSheet, UnstoredAgree
<1> QED BY <1>1, <1>2, <1>3, PTL DEF Spec
-----------------------------------------------------------------------------
(* The orders of one bracket *)

\* One listing, whose places are told apart; no crash, and no correction while a drain
\* writes: a drain that ends halfway leaves the orders it has written beside the others.
OneBracket == /\ \A f, g \in Fencer : ListingOf[f] = ListingOf[g]
              /\ \A f, g \in Fencer : Place[f] = Place[g] => f = g
Undisturbed == EditsMidCommit = FALSE /\ MaxCrashes = 0

\* The fencers a category has by the birth years.
Born(c) == {f \in Fencer : year[f] = c}

\* Each category has more fencers than corrections are to come.
StaysPeopled ==
    /\ edits \in 0..MaxEdits /\ crashes = 0
    /\ \A c \in Category : Cardinality(Born(c)) > MaxEdits - edits

\* Each fencer is filed once, and the tournaments store one key.
Settled ==
    /\ \A f \in Fencer : \E c \in Category : f \in filed[c]
    /\ \A f \in Fencer : \A c, k \in Category : f \in filed[c] /\ f \in filed[k] => c = k
    /\ \A c, k \in Category : url[c] = url[k] /\ order[c] = order[k]

\* A drain read each fencer once, with one key and today's birth year; a tournament it has
\* not written is as it was read, one it has is as its plan.
HalfWritten ==
    /\ queue # {} /\ known = year /\ uncleared = {}
    /\ \A f \in Fencer : \E c \in Category : <<f, c>> \in loaded
    /\ \A r, s \in loaded : r[1] = s[1] => r = s
    /\ \A c, k \in Category : keys[c] = keys[k]
    /\ \A c \in Category : url[c] = keys[c][1]
    /\ \A c \in Category \ unwritten : order[c] = PatchedOrder(keys[c]) /\ filed[c] = Born(c)

BracketInv == /\ DigitsInv /\ StaysPeopled
              /\ phase = "idle" => Settled
              /\ phase = "writing" => HalfWritten

LEMMA EmptyIsSmall == ASSUME StaysPeopled, NEW c \in Category PROVE Born(c) # {}
<1>1. Cardinality(Born(c)) > MaxEdits - edits /\ MaxEdits - edits \in Nat
  BY JoinedAssumption DEF StaysPeopled
<1> QED BY <1>1, FS_EmptySet

\* A drain in progress neither refuses a group nor clears a category.
LEMMA NothingRefused ==
    ASSUME OneBracket, BracketInv, phase = "writing", NEW c \in Category
    PROVE  /\ \A r \in Group(c) : Key(r) = keys[c] /\ year[r[1]] = c
           /\ {r[1] : r \in Group(c)} = Born(c)
           /\ Plannable(c) /\ Writable(c) /\ uncleared = {}
<1>0. HalfWritten /\ loaded \subseteq Fencer \X Category
  BY DEF BracketInv, DigitsInv, TypeOK
<1>1. \A r \in loaded : r[1] \in Fencer /\ r[2] \in Category
  BY <1>0
<1>2. \A r \in Group(c) : r \in loaded /\ Key(r) = keys[c] /\ year[r[1]] = c
  BY <1>0, <1>1 DEF Group, Key, HalfWritten
<1>3. {r[1] : r \in Group(c)} = Born(c)
  <2>1. ASSUME NEW f \in Born(c) PROVE \E r \in Group(c) : r[1] = f
    <3>1. PICK k \in Category : <<f, k>> \in loaded
      BY <1>0, <2>1 DEF Born, HalfWritten
    <3>2. <<f, k>> \in Group(c) /\ <<f, k>>[1] = f
      BY <1>0, <2>1, <3>1 DEF Group, Born, HalfWritten
    <3> QED BY <3>2
  <2>2. ASSUME NEW r \in Group(c) PROVE r[1] \in Born(c)
    BY <1>1, <1>2, <2>2 DEF Born
  <2> QED BY <2>1, <2>2
<1>4. Plannable(c)
  <2>1. SameBracket(c)
    BY <1>2 DEF SameBracket
  <2>2. \A key : ~Tied(key)
    BY <1>1 DEF Tied, Placed, OneBracket
  <2> QED BY <2>1, <2>2 DEF Plannable
<1>5. Writable(c)
  BY <1>0, <1>2 DEF Writable, HalfWritten
<1> QED BY <1>0, <1>2, <1>3, <1>4, <1>5 DEF HalfWritten

LEMMA BracketInit == ASSUME OneBracket PROVE BalancedInit => BracketInv
<1> SUFFICES ASSUME BalancedInit PROVE BracketInv
  OBVIOUS
<1>0. Init /\ DigitsInv /\ phase = "idle" /\ year \in [Fencer -> Category]
  BY DigitsInit DEF BalancedInit, Init
<1>1. \A c \in Category : filed[c] = Born(c)
  BY <1>0 DEF Init, Born
<1>2. StaysPeopled
  <2>1. \A c \in Category : Cardinality(Born(c)) > MaxEdits
    BY <1>1 DEF BalancedInit
  <2>2. MaxEdits \in Nat /\ edits = 0 /\ crashes = 0 /\ MaxEdits - 0 = MaxEdits
    BY <1>0, JoinedAssumption DEF Init
  <2> QED BY <2>1, <2>2 DEF StaysPeopled
<1>3. \A c \in Category : Born(c) # {}
  BY <1>2, EmptyIsSmall
<1>4. \A c, k \in Category : url[c] = url[k] /\ order[c] = order[k]
  <2>1. PICK sheet \in [Listing -> Orders] :
          order = [c \in Category |-> IF \E f \in Fencer : year[f] = c
                     THEN sheet[ListingOf[CHOOSE f \in Fencer : year[f] = c]] ELSE NoOrder]
    BY <1>0 DEF Init
  <2>2. url = [c \in Category |-> IF c \in tournaments
                 THEN ListingOf[CHOOSE f \in Fencer : year[f] = c] ELSE NoUrl]
    BY <1>0 DEF Init
  <2>3. \A c \in Category : c \in tournaments /\ \E f \in Fencer : year[f] = c
    BY <1>0, <1>1, <1>3 DEF Init, Born
  <2> TAKE c, k \in Category
  <2> DEFINE f == CHOOSE x \in Fencer : year[x] = c
             g == CHOOSE x \in Fencer : year[x] = k
  <2>4. f \in Fencer /\ g \in Fencer
    BY <2>3
  <2>5. ListingOf[f] = ListingOf[g]
    BY <2>4 DEF OneBracket
  <2>6. order[c] = sheet[ListingOf[f]] /\ order[k] = sheet[ListingOf[g]]
    BY <2>1, <2>3
  <2>7. url[c] = ListingOf[f] /\ url[k] = ListingOf[g]
    BY <2>2, <2>3
  <2> QED BY <2>5, <2>6, <2>7
<1>5. Settled
  BY <1>0, <1>1, <1>4 DEF Settled, Born
<1> QED BY <1>0, <1>2, <1>5 DEF BracketInv

\* A correction takes at most one fencer from a category.
LEMMA CorrectKeepsPeopled ==
    ASSUME IsFiniteSet(Fencer), StaysPeopled, year \in [Fencer -> Category], DigitsInv',
           NEW f \in Fencer, NEW c \in Category, Correct(f, c)
    PROVE  StaysPeopled'
<1>1. edits < MaxEdits /\ edits' = edits + 1 /\ crashes' = crashes /\ year' = [year EXCEPT ![f] = c]
  BY DEF Correct
<1>2. edits \in Nat /\ MaxEdits \in Nat /\ edits' \in 0..MaxEdits
  BY <1>1, JoinedAssumption DEF StaysPeopled
<1>3. ASSUME NEW k \in Category PROVE Cardinality(Born(k)') > MaxEdits - edits'
  <2>1. IsFiniteSet(Born(k)) /\ IsFiniteSet(Born(k)')
    <3>1. Born(k) \subseteq Fencer /\ Born(k)' \subseteq Fencer
      BY DEF Born
    <3> QED BY <3>1, FS_Subset
  <2>2. Born(k) \ {f} \subseteq Born(k)'
    BY <1>1 DEF Born
  <2>3. Cardinality(Born(k) \ {f}) <= Cardinality(Born(k)')
    BY <2>1, <2>2, FS_Subset
  <2>4. Cardinality(Born(k) \ {f}) >= Cardinality(Born(k)) - 1
    <3>1. CASE f \in Born(k)
      <4>1. Cardinality(Born(k) \ {f}) = Cardinality(Born(k)) - 1
        BY <2>1, <3>1, FS_RemoveElement, Zenon
      <4>2. Cardinality(Born(k)) \in Nat
        BY <2>1, FS_CardinalityType
      <4> QED BY <4>1, <4>2
    <3>2. CASE f \notin Born(k)
      <4>1. Born(k) \ {f} = Born(k)
        BY <3>2
      <4>2. Cardinality(Born(k)) \in Nat
        BY <2>1, FS_CardinalityType
      <4> QED BY <4>1, <4>2
    <3> QED BY <3>1, <3>2
  <2>5. /\ Cardinality(Born(k)) \in Nat /\ Cardinality(Born(k)') \in Nat
        /\ IsFiniteSet(Born(k) \ {f})
    BY <2>1, FS_CardinalityType, FS_RemoveElement
  <2>6. Cardinality(Born(k) \ {f}) \in Nat
    BY <2>5, FS_CardinalityType
  <2>7. Cardinality(Born(k)) > MaxEdits - edits
    BY DEF StaysPeopled
  <2> QED BY <1>1, <1>2, <2>3, <2>4, <2>5, <2>6, <2>7
<1> QED BY <1>1, <1>2, <1>3 DEF StaysPeopled

LEMMA BracketNext ==
    ASSUME IsFiniteSet(Fencer), OneBracket, Undisturbed
    PROVE  BracketInv /\ [Next]_vars => BracketInv'
<1> SUFFICES ASSUME BracketInv, [Next]_vars PROVE BracketInv'
  OBVIOUS
<1>0. DigitsInv /\ DigitsInv' /\ TypeOK /\ TypeOK' /\ StaysPeopled
      /\ (phase = "idle" => Settled) /\ (phase = "writing" => HalfWritten)
  BY DigitsNext DEF BracketInv, DigitsInv
<1>1. ASSUME UNCHANGED <<year, edits, crashes>> PROVE StaysPeopled'
  BY <1>0, <1>1 DEF StaysPeopled, Born
<1>2. ASSUME NEW f \in Fencer, NEW c \in Category, Correct(f, c) PROVE BracketInv'
  <2>1. phase = "idle" /\ UNCHANGED <<url, order, filed, phase>>
    BY <1>0, <1>2 DEF Correct, Undisturbed, run, TypeOK
  <2>2. StaysPeopled'
    BY <1>0, <1>2, CorrectKeepsPeopled DEF TypeOK
  <2> QED BY <1>0, <2>1, <2>2 DEF BracketInv, Settled
<1>3. CASE LoadCommitted
  <2>1. /\ UNCHANGED <<year, url, order, filed, edits, crashes>> /\ phase = "idle" /\ phase' = "writing"
        /\ queue' # {} /\ known' = year /\ keys' = [c \in Category |-> <<url[c], order[c]>>]
        /\ loaded' = {r \in Fencer \X Category : r[1] \in filed[r[2]]}
        /\ unwritten' = {c \in Category : Group(c)' # {}} /\ uncleared' = tournaments \ unwritten'
    BY <1>3 DEF LoadCommitted, stored
  <2>2. Settled
    BY <1>0, <2>1
  <2>3. \A f \in Fencer : \E c \in Category : <<f, c>> \in loaded'
    BY <2>1, <2>2 DEF Settled
  <2>4. \A r, s \in loaded' : r[1] = s[1] => r = s
    BY <2>1, <2>2 DEF Settled
  <2>5. ASSUME NEW c \in Category PROVE c \in unwritten'
    <3>1. Born(c) # {}
      BY <1>0, EmptyIsSmall
    <3>2. PICK f \in Fencer : year[f] = c
      BY <3>1 DEF Born
    <3>3. PICK k \in Category : <<f, k>> \in loaded'
      BY <2>3
    <3>4. <<f, k>> \in Group(c)'
      BY <2>1, <3>2, <3>3 DEF Group
    <3> QED BY <2>1, <3>4
  <2>6. uncleared' = {} /\ Category \ unwritten' = {}
    BY <1>0, <2>1, <2>5 DEF TypeOK
  <2>7. /\ \A c, k \in Category : keys'[c] = keys'[k]
        /\ \A c \in Category : url'[c] = keys'[c][1]
    BY <2>1, <2>2 DEF Settled
  <2>8. HalfWritten'
    BY <2>1, <2>3, <2>4, <2>6, <2>7 DEF HalfWritten
  <2> QED BY <1>0, <1>1, <2>1, <2>8 DEF BracketInv
<1>4. ASSUME NEW c \in Category, PlanRefused(c) PROVE FALSE
  BY <1>4, NothingRefused DEF PlanRefused, AtGroup
<1>5. CASE IngestRefused
  <2>1. phase = "writing" /\ current \in Category /\ ~Writable(current)
    BY <1>0, <1>5 DEF IngestRefused, TypeOK
  <2> QED BY <2>1, NothingRefused
<1>6. ASSUME NEW c \in Category, Clear(c) PROVE FALSE
  BY <1>6, NothingRefused DEF Clear
<1>7. ASSUME NEW c \in Category, FindOrCreate(c) PROVE BracketInv'
  <2>1. /\ phase = "writing" /\ phase' = phase
        /\ UNCHANGED <<year, url, order, filed, queue, loaded, keys, known, unwritten, uncleared, edits, crashes>>
    BY <1>7 DEF FindOrCreate, AtGroup
  <2>2. \A k \in Category : PatchedOrder(keys[k])' = PatchedOrder(keys[k])
    BY <2>1 DEF PatchedOrder, Placed, Key
  <2>3. HalfWritten'
    BY <1>0, <2>1, <2>2 DEF HalfWritten, Born
  <2> QED BY <1>0, <1>1, <2>1, <2>3 DEF BracketInv
<1>8. CASE Ingest
  <2>1. /\ phase = "writing" /\ phase' = phase /\ current \in Category
        /\ filed' = [filed EXCEPT ![current] = {r[1] : r \in Group(current)}]
        /\ unwritten' = unwritten \ {current}
        /\ UNCHANGED <<year, url, queue, loaded, keys, known, uncleared, edits, crashes>>
    BY <1>0, <1>8 DEF Ingest, TypeOK
  <2>2. PICK r \in Group(current) : order' = [order EXCEPT ![current] = PatchedOrder(Key(r))]
    BY <1>8 DEF Ingest
  <2>3. Key(r) = keys[current] /\ {q[1] : q \in Group(current)} = Born(current)
    BY <2>1, <2>2, NothingRefused
  <2>4. order'[current] = PatchedOrder(keys[current]) /\ filed'[current] = Born(current)
    BY <1>0, <2>1, <2>2, <2>3 DEF TypeOK
  <2>5. \A k \in Category : k # current => order'[k] = order[k] /\ filed'[k] = filed[k]
    BY <1>0, <2>1, <2>2 DEF TypeOK
  <2>6. \A k \in Category : PatchedOrder(keys[k])' = PatchedOrder(keys[k]) /\ Born(k)' = Born(k)
    BY <2>1 DEF PatchedOrder, Placed, Key, Born
  <2>7. \A k \in Category \ unwritten' : order'[k] = PatchedOrder(keys[k])' /\ filed'[k] = Born(k)'
    BY <1>0, <2>1, <2>4, <2>5, <2>6 DEF HalfWritten
  <2>8. HalfWritten'
    BY <1>0, <2>1, <2>7 DEF HalfWritten
  <2> QED BY <1>0, <1>1, <2>1, <2>8 DEF BracketInv
<1>9. CASE Done
  <2>1. /\ phase = "writing" /\ unwritten = {} /\ phase' = "idle"
        /\ UNCHANGED <<year, url, order, filed, edits, crashes>>
    BY <1>9 DEF Done, Stop, stored
  <2>2. \A c \in Category : filed[c] = Born(c)
    BY <1>0, <2>1 DEF HalfWritten
  <2>3. \A c, k \in Category : url[c] = url[k] /\ order[c] = order[k]
    BY <1>0, <2>1 DEF HalfWritten
  <2>4. Settled'
    BY <1>0, <2>1, <2>2, <2>3 DEF Settled, Born, TypeOK
  <2> QED BY <1>0, <1>1, <2>1, <2>4 DEF BracketInv
<1>10. CASE Crash
  BY <1>0, <1>10 DEF Crash, StaysPeopled, Undisturbed
<1>11. CASE UNCHANGED vars
  <2>1. /\ UNCHANGED <<year, url, order, filed, queue, phase, loaded, keys, known, unwritten, uncleared,
                       edits, crashes>>
    BY <1>11 DEF vars, stored, run
  <2>2. \A k \in Category : PatchedOrder(keys[k])' = PatchedOrder(keys[k])
    BY <2>1 DEF PatchedOrder, Placed, Key
  <2> QED BY <1>0, <1>1, <2>1, <2>2 DEF BracketInv, Settled, HalfWritten, Born
<1> QED BY <1>2, <1>3, <1>4, <1>5, <1>6, <1>7, <1>8, <1>9, <1>10, <1>11 DEF Next, Drain

\* Every tournament of the listing stores the same order once nothing is queued, for
\* every bracket without ties, any number of categories and corrections, where no
\* correction empties or creates one and no drain ends halfway.
THEOREM BalancedSiblingsAgree ==
    ASSUME IsFiniteSet(Fencer), OneBracket, Undisturbed
    PROVE  BalancedSpec => []SiblingsAgree
<1>1. BalancedInit => BracketInv
  BY BracketInit
<1>2. BracketInv /\ [Next]_vars => BracketInv'
  BY BracketNext
<1>3. BracketInv => SiblingsAgree
  BY DEF BracketInv, DigitsInv, TypeOK, Settled, HalfWritten, SiblingsAgree
<1> QED BY <1>1, <1>2, <1>3, PTL DEF BalancedSpec
=============================================================================
