---------------------------- MODULE JoinedFiling ----------------------------
(***************************************************************************)
(* The recompute of one event whose type is scored by the joined engine    *)
(* (ADR-104).  A listing fenced by several age categories is filed under   *)
(* each category's own tournament; every one of them stores the listing's  *)
(* category order, one digit per place, and the scorer rebuilds the whole  *)
(* bracket from it.  A birth-year correction therefore moves a fencer AND  *)
(* rewrites a digit in several tournaments, one remote call per tournament.*)
(*                                                                         *)
(* Recompute models the queue and the worker's calls; here the event is    *)
(* alone, one weapon and gender, and its stored orders are in the picture. *)
(***************************************************************************)
EXTENDS Naturals, FiniteSets

CONSTANTS
    Fencer,       \* the fencers whose results are stored
    Category,     \* the digits of the categories, 0 = V0 .. 4 = V4
    Listing,      \* the result pages of the event
    ListingOf,    \* [Fencer -> Listing]
    Place,        \* [Fencer -> place in the listing]
    Size,         \* [Listing -> N]; a place no fencer holds was never stored
    NoUrl, NoOrder, NoCategory,   \* NULL url_results, NULL txt_joined_order, none
    EditsMidCommit,   \* whether a correction may come while a drain writes
    MaxEdits, MaxCrashes

ASSUME JoinedAssumption ==
    /\ Category \subseteq 0..4
    /\ Size \in [Listing -> Nat \ {0}]
    /\ ListingOf \in [Fencer -> Listing]
    /\ Place \in [Fencer -> Nat \ {0}]
    /\ \A f \in Fencer : Place[f] <= Size[ListingOf[f]]
    /\ NoCategory \notin Category /\ NoUrl \notin Listing
    /\ \A l \in Listing : NoOrder \notin [1..Size[l] -> Category]
    /\ EditsMidCommit \in BOOLEAN
    /\ MaxEdits \in Nat /\ MaxCrashes \in Nat

VARIABLES
    year,         \* the category of each fencer's governed birth year
    tournaments,  \* the categories that have a tournament row
    url,          \* its url_results: the listing it was ingested from, or NULL
    order,        \* its txt_joined_order; its length is int_participant_count
    filed,        \* its results: the fencers (a place never changes)
    queue,        \* the statuses of the event's queue rows that are not DONE
    phase,        \* "idle", or what _commit_recompute is doing
    loaded,       \* the rows LoadCommitted read: <<fencer, category>>
    keys,         \* the bracket key read with each category: <<url, order>>
    known,        \* the birth years read
    unwritten,    \* groups not yet written
    current,      \* the group between find_or_create and its write
    uncleared,    \* existing tournaments the new partition leaves without a row
    edits, crashes

stored == <<year, tournaments, url, order, filed>>
run    == <<phase, loaded, keys, known, unwritten, current, uncleared>>
vars   == <<stored, queue, run, edits, crashes>>

Orders == UNION {[1..Size[l] -> Category] : l \in Listing}
-----------------------------------------------------------------------------
(* The plan of one group: _plan_joined_recompute and patch_order *)

Unread   == [f \in Fencer |-> NoCategory]
Group(c) == {r \in loaded : known[r[1]] = c}
Key(r)   == keys[r[2]]
SameBracket(c) == \A r, s \in Group(c) : Key(r) = Key(s)

\* The rows whose digits a group's order takes over: those read with its key.
Placed(key) == {r \in loaded : Key(r) = key}

Tied(key) == \E r, s \in Placed(key) :
                Place[r[1]] = Place[s[1]] /\ known[r[1]] # known[s[1]]

Plannable(c) == SameBracket(c) /\ \A r \in Group(c) : ~Tied(Key(r))

\* Mutant: the digits are written back as they were read.
UnpatchedOrder(key) == key[2]

\* Mutant: a digit is kept only where a fencer of this category is stored.
DefaultedOrder(key) ==
    [p \in DOMAIN key[2] |->
        IF \E r \in Placed(key) : Place[r[1]] = p
        THEN known[(CHOOSE r \in Placed(key) : Place[r[1]] = p)[1]]
        ELSE known[(CHOOSE r \in Placed(key) : TRUE)[1]]]

\* patch_order: stored places take their fencer's current category, places never
\* stored keep their digit.
PatchedOrder(key) ==
    [p \in DOMAIN key[2] |->
        IF \E r \in Placed(key) : Place[r[1]] = p
        THEN known[(CHOOSE r \in Placed(key) : Place[r[1]] = p)[1]]
        ELSE key[2][p]]

\* fn_ingest_tournament_results takes the group: nobody twice, and every
\* fencer's birth year still puts him there.
Writable(c) ==
    /\ \A r, s \in Group(c) : r[1] = s[1] => r = s
    /\ \A r \in Group(c) : year[r[1]] = c
-----------------------------------------------------------------------------
(* Each listing was ingested by its own category order; a category belongs *)
(* to one listing, and a listing with a tie is of one category.            *)
Init ==
    /\ year \in [Fencer -> Category]
    /\ \A f, g \in Fencer : year[f] = year[g] => ListingOf[f] = ListingOf[g]
    /\ \E sheet \in {s \in [Listing -> Orders] : \A l \in Listing : DOMAIN s[l] = 1..Size[l]} :
          /\ \A f \in Fencer : sheet[ListingOf[f]][Place[f]] = year[f]
          /\ \A f, g \in Fencer :
                f # g /\ ListingOf[f] = ListingOf[g] /\ Place[f] = Place[g] =>
                   \A p \in DOMAIN sheet[ListingOf[f]] : sheet[ListingOf[f]][p] = year[f]
          /\ order = [c \in Category |-> IF \E f \in Fencer : year[f] = c
                        THEN sheet[ListingOf[CHOOSE f \in Fencer : year[f] = c]] ELSE NoOrder]
    /\ filed = [c \in Category |-> {f \in Fencer : year[f] = c}]
    /\ tournaments = {c \in Category : filed[c] # {}}
    /\ url = [c \in Category |-> IF c \in tournaments
                THEN ListingOf[CHOOSE f \in Fencer : year[f] = c] ELSE NoUrl]
    /\ queue = {}
    /\ phase = "idle" /\ loaded = {} /\ keys = [c \in Category |-> <<NoUrl, NoOrder>>]
    /\ known = Unread
    /\ unwritten = {} /\ current = NoCategory /\ uncleared = {}
    /\ edits = 0 /\ crashes = 0

\* A corrected birth year queues the event (Recompute's Correct).
Correct(f, c) ==
    /\ edits < MaxEdits /\ c # year[f]
    /\ phase = "idle" \/ EditsMidCommit
    /\ year' = [year EXCEPT ![f] = c]
    /\ queue' = IF \E k \in Category : f \in filed[k] THEN queue \cup {"PENDING"} ELSE queue
    /\ edits' = edits + 1
    /\ UNCHANGED <<tournaments, url, order, filed, run, crashes>>

\* The claimed event is read; the groups follow from the birth years.
LoadCommitted ==
    /\ phase = "idle" /\ queue # {}
    /\ queue' = {"CLAIMED"}
    /\ loaded' = {r \in Fencer \X Category : r[1] \in filed[r[2]]}
    /\ keys' = [c \in Category |-> <<url[c], order[c]>>]
    /\ known' = year
    /\ unwritten' = {c \in Category : Group(c)' # {}}
    /\ uncleared' = tournaments \ unwritten'
    /\ phase' = "writing"
    /\ UNCHANGED <<stored, current, edits, crashes>>

\* The drain ends; a raised one leaves the row CLAIMED for the next.
Stop == /\ phase' = "idle" /\ loaded' = {} /\ unwritten' = {}
        /\ keys' = [c \in Category |-> <<NoUrl, NoOrder>>]
        /\ known' = Unread
        /\ current' = NoCategory /\ uncleared' = {}

Raise == Stop /\ UNCHANGED <<queue, edits, crashes>>

AtGroup(c) == phase = "writing" /\ current = NoCategory /\ c \in unwritten

\* The group's rows must share one (url, N, order), and no place two categories.
PlanRefused(c) ==
    /\ AtGroup(c)
    /\ ~Plannable(c)
    /\ Raise
    /\ UNCHANGED stored

\* fn_find_or_create_tournament, without a URL: a recompute has no source.
FindOrCreate(c) ==
    /\ AtGroup(c) /\ Plannable(c)
    /\ tournaments' = tournaments \cup {c}
    /\ current' = c
    /\ UNCHANGED <<year, url, order, filed, queue, phase, loaded, keys, known,
                   unwritten, uncleared, edits, crashes>>

\* Mutant: the rows are written and the order is left as it was.
IngestKeepsOrder ==
    /\ phase = "writing" /\ current # NoCategory
    /\ Writable(current)
    /\ filed' = [filed EXCEPT ![current] = {r[1] : r \in Group(current)}]
    /\ unwritten' = unwritten \ {current}
    /\ current' = NoCategory
    /\ UNCHANGED <<year, tournaments, url, order, queue, phase, loaded, keys, known,
                   uncleared, edits, crashes>>

\* Mutant: only the digits of the group's own rows are patched.
IngestPatchesOwn ==
    /\ phase = "writing" /\ current # NoCategory
    /\ Writable(current)
    /\ filed' = [filed EXCEPT ![current] = {r[1] : r \in Group(current)}]
    /\ \E s \in Group(current) : order' = [order EXCEPT ![current] =
          [p \in DOMAIN Key(s)[2] |-> IF \E r \in Group(current) : Place[r[1]] = p
                                      THEN current ELSE Key(s)[2][p]]]
    /\ unwritten' = unwritten \ {current}
    /\ current' = NoCategory
    /\ UNCHANGED <<year, tournaments, url, queue, phase, loaded, keys, known,
                   uncleared, edits, crashes>>

\* The rows, N and the order in one call.
Ingest ==
    /\ phase = "writing" /\ current # NoCategory
    /\ Writable(current)
    /\ filed' = [filed EXCEPT ![current] = {r[1] : r \in Group(current)}]
    /\ \E r \in Group(current) : order' = [order EXCEPT ![current] = PatchedOrder(Key(r))]
    /\ unwritten' = unwritten \ {current}
    /\ current' = NoCategory
    /\ UNCHANGED <<year, tournaments, url, queue, phase, loaded, keys, known,
                   uncleared, edits, crashes>>

IngestRefused ==
    /\ phase = "writing" /\ current # NoCategory
    /\ ~Writable(current)
    /\ Raise
    /\ UNCHANGED stored

\* clear_tournament_results deletes the rows, then zeroes N and leaves the order:
\* chk_tournament_joined_order refuses that unless there is none.
Clear(c) ==
    /\ phase = "writing" /\ unwritten = {} /\ c \in uncleared
    /\ filed' = [filed EXCEPT ![c] = {}]
    /\ UNCHANGED <<year, tournaments, url, order>>
    /\ \/ order[c] # NoOrder /\ Raise
       \/ /\ order[c] = NoOrder
          /\ uncleared' = uncleared \ {c}
          /\ UNCHANGED <<queue, phase, loaded, keys, known, unwritten, current,
                         edits, crashes>>

\* Mutant: every row of the event is marked DONE, the PENDING ones too.
DoneWithPending ==
    /\ phase = "writing" /\ unwritten = {} /\ uncleared = {}
    /\ queue' = {}
    /\ Stop
    /\ UNCHANGED <<stored, edits, crashes>>

\* Mutant: the PENDING row is marked DONE and the CLAIMED one left.
DonePending ==
    /\ phase = "writing" /\ unwritten = {} /\ uncleared = {}
    /\ queue' = queue \ {"PENDING"}
    /\ Stop
    /\ UNCHANGED <<stored, edits, crashes>>

\* mark_recompute_done, the event being the batch.
Done ==
    /\ phase = "writing" /\ unwritten = {} /\ uncleared = {}
    /\ queue' = queue \ {"CLAIMED"}
    /\ Stop
    /\ UNCHANGED <<stored, edits, crashes>>

Crash ==
    /\ phase # "idle" /\ crashes < MaxCrashes
    /\ Stop
    /\ crashes' = crashes + 1
    /\ UNCHANGED <<stored, queue, edits>>
-----------------------------------------------------------------------------
Drain == \/ LoadCommitted
         \/ \E c \in Category : PlanRefused(c) \/ FindOrCreate(c) \/ Clear(c)
         \/ Ingest \/ IngestRefused \/ Done

Next == Drain \/ Crash \/ \E f \in Fencer, c \in Category : Correct(f, c)

Spec == Init /\ [][Next]_vars

\* The corrections to come neither empty nor create a category.  The cron drains
\* again and again; a running drain is not paused for ever.
BalancedInit == Init /\ \A c \in Category : Cardinality(filed[c]) > MaxEdits
BalancedSpec == BalancedInit /\ [][Next]_vars /\ WF_vars(Drain)

\* Every category has its tournament: a correction may empty one, never create one.
PeopledInit == Init /\ \A c \in Category : filed[c] # {}
PeopledSpec == PeopledInit /\ [][Next]_vars /\ WF_vars(Drain)
-----------------------------------------------------------------------------
\* Every column stays in its domain; only an existing tournament holds results
\* or an order, and one that holds results has an order of its listing's length.
TypeOK ==
    /\ year \in [Fencer -> Category] /\ known \in [Fencer -> Category \cup {NoCategory}]
    /\ tournaments \subseteq Category
    /\ url \in [Category -> Listing \cup {NoUrl}]
    /\ order \in [Category -> Orders \cup {NoOrder}]
    /\ filed \in [Category -> SUBSET Fencer]
    /\ queue \subseteq {"PENDING", "CLAIMED"}
    /\ phase \in {"idle", "writing"}
    /\ loaded \subseteq Fencer \X Category
    /\ keys \in [Category -> (Listing \cup {NoUrl}) \X (Orders \cup {NoOrder})]
    /\ unwritten \subseteq Category /\ uncleared \subseteq Category
    /\ current \in unwritten \cup {NoCategory}
    /\ \A c \in Category : (filed[c] # {} \/ order[c] # NoOrder) => c \in tournaments
    /\ \A c \in Category : \A f \in filed[c] :
          order[c] # NoOrder /\ DOMAIN order[c] = 1..Size[ListingOf[f]]

\* The scorer finds each stored fencer's own category at his place of the order
\* his tournament stores, between any two calls, after any crash or refusal.
OwnDigits == \A c \in Category : \A f \in filed[c] : order[c][Place[f]] = c

\* Nobody's place in l.
Unstored(l, p) == \A f \in Fencer : ListingOf[f] = l => Place[f] # p

\* "keeps the digits of places that were never stored" (ADR-104): the orders a
\* listing's tournaments store agree there for ever, though written call by call.
UnstoredAgree ==
    \A c, k \in Category : \A f \in filed[c], g \in filed[k] :
       ListingOf[f] = ListingOf[g] =>
          \A p \in 1..Size[ListingOf[f]] :
             Unstored(ListingOf[f], p) => order[c][p] = order[k][p]

\* A result filed under another category than the birth year's is still queued.
StaleIsQueued == \A c \in Category : \A f \in filed[c] : year[f] # c => queue # {}

\* Every tournament of one listing stores the same order once nothing is queued:
\* the scorer of each sees the same bracket.
SiblingsAgree ==
    queue = {} =>
       \A c, k \in Category : \A f \in filed[c], g \in filed[k] :
          ListingOf[f] = ListingOf[g] => order[c] = order[k]

\* Once corrections stop the queue empties.
QueueDrains == <>[](queue = {})
=============================================================================
