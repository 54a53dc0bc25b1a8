------------------------ MODULE EventDetailsProofs ------------------------
(***************************************************************************)
(* What holds of EventDetails for every set of details and values and      *)
(* every bound.  A person's value on CERT is never the value the scraper   *)
(* is known to have written (HandHeld), and no time the mirror compares is *)
(* ahead of the write it stands for (Timely).                              *)
(***************************************************************************)
EXTENDS EventDetails, TLAPS

(* A detail in a person's hand is not what the scraper last wrote, and      *)
(* where nothing is known of the scraper the audit names the person.        *)
HandHeld ==
    \A f \in hand : /\ written[f] # cert[f]
                    /\ written[f] = NoState => f \in byPerson

(* A person's edit of one PROD detail is no later than their last edit of   *)
(* any, and the mirror carries no time later than CERT's.                   *)
Timely ==
    /\ \A f \in Detail : handAt[f] <= personAt
    /\ payload # NoPayload => payload.at <= certAt

(* Nobody has edited an event PROD does not have. *)
NotYetThere ==
    ~onProd => form["PROD"] = NoForm /\ \A f \in Detail : handAt[f] = 0

IInv == TypeOK /\ HandHeld /\ Timely /\ NotYetThere

LEMMA InitHolds == Init => IInv
<1> SUFFICES ASSUME Init PROVE IInv
  OBVIOUS
<1>1. source \in [Detail -> Val \cup {Blank, Ours}]
  BY EventDetailsAssumption DEF Init
<1>2. form \in [Side -> Row \cup {NoForm}]
  BY DEF Init
<1>3. handAt \in [Detail -> 0..now] /\ written \in [Detail -> Val \cup {Blank, NoState}]
  BY DEF Init
<1>4. now \in Nat \ {0} /\ certAt \in 1..now /\ personAt \in 0..now
      /\ moves \in 0..MaxMoves /\ saves \in 0..MaxSaves
  BY EventDetailsAssumption DEF Init
<1>5. row \in [Side -> Row]
  BY EventDetailsAssumption DEF Init, Side, Row, Values
<1>6. onProd \in BOOLEAN /\ byPerson \in SUBSET Detail
      /\ hand \in SUBSET Detail /\ scraped = NoForm /\ payload = NoPayload
  BY DEF Init
<1>7. TypeOK
  BY <1>1, <1>2, <1>3, <1>4, <1>5, <1>6 DEF TypeOK
<1>8. HandHeld /\ Timely /\ NotYetThere
  BY DEF Init, HandHeld, Timely, NotYetThere, Side
<1> QED BY <1>7, <1>8 DEF IInv

-----------------------------------------------------------------------------
(* Types.  The two operators that compute values stay among them. *)

LEMMA MirroredType ==
    ASSUME TypeOK, payload # NoPayload, NEW f \in Detail
    PROVE  Mirrored(f) \in Values
<1>1. payload.details[f] \in Values /\ prod[f] \in Values
  BY DEF TypeOK, Row, prod, Side
<1> QED BY <1>1 DEF Mirrored

LEMMA HeldType ==
    ASSUME TypeOK, NEW f \in Detail
    PROVE  StateOfHeld(f) \in Val \cup {Blank}
BY DEF TypeOK, StateOfHeld

LEMMA ApplyType == TypeOK /\ Apply => TypeOK'
<1> SUFFICES ASSUME TypeOK, Apply PROVE TypeOK'
  OBVIOUS
<1> DEFINE changed == {f \in Detail : Writes(f)}
           taken == {f \in Detail : ~Skipped(f) /\ (Agrees(f) \/ Owns(f))}
<1>1. /\ row' = [row EXCEPT !["CERT"] =
                    [f \in Detail |-> IF f \in changed THEN scraped[f] ELSE cert[f]]]
      /\ written' = [f \in Detail |-> IF Skipped(f) THEN written[f]
                                      ELSE IF f \in taken THEN scraped[f]
                                      ELSE StateOfHeld(f)]
      /\ byPerson' = byPerson \ changed
      /\ hand' = hand \ taken
      /\ IF changed = {} THEN UNCHANGED <<now, certAt>>
         ELSE now' = now + 1 /\ certAt' = now + 1
      /\ scraped' = NoForm
      /\ UNCHANGED <<source, onProd, personAt, form, payload, handAt, moves, saves>>
  BY DEF Apply
<1>2. scraped \in [Detail -> Val \cup {Blank}]
  BY DEF TypeOK, Apply
<1>3. row' \in [Side -> Row]
  <2>1. \A f \in Detail : (IF f \in changed THEN scraped[f] ELSE cert[f]) \in Values
    BY <1>2 DEF TypeOK, cert, Row, Side, Values
  <2> HIDE DEF changed
  <2> QED BY <1>1, <2>1 DEF TypeOK, Row, Side
<1>4. written' \in [Detail -> Val \cup {Blank, NoState}]
  <2>1. \A f \in Detail : ~Skipped(f) => scraped[f] \in Val
    BY <1>2 DEF Skipped
  <2> HIDE DEF taken
  <2> QED BY <1>1, <2>1, HeldType DEF TypeOK
<1>5. now' \in Nat \ {0} /\ certAt' \in 1..now' /\ now <= now'
  <2> HIDE DEF changed
  <2> QED BY <1>1 DEF TypeOK
<1>6. personAt' \in 0..now' /\ handAt' \in [Detail -> 0..now']
      /\ payload' \in [details : Row, at : 1..now'] \cup {NoPayload}
  <2>1. 0..now \subseteq 0..now' /\ 1..now \subseteq 1..now'
    BY <1>5 DEF TypeOK
  <2> QED BY <1>1, <2>1 DEF TypeOK
<1>7. byPerson' \in SUBSET Detail /\ hand' \in SUBSET Detail
  BY <1>1 DEF TypeOK
<1> QED BY <1>1, <1>3, <1>4, <1>5, <1>6, <1>7 DEF TypeOK

(* What a save stores is a row. *)
LEMMA SaveStores ==
    ASSUME TypeOK, NEW side \in Side, Save(side)
    PROVE  \/ side = "CERT" /\ \E new \in Row : SaveCert(new)
           \/ side = "PROD" /\ form["PROD"] # NoForm /\ \E new \in Row : SaveProd(new)
<1>1. PICK f \in Detail : \E v \in Stated(f) :
         IF side = "CERT" THEN SaveCert([form[side] EXCEPT ![f] = v])
                          ELSE SaveProd([form[side] EXCEPT ![f] = v])
  BY DEF Save
<1>2. PICK v \in Stated(f) :
         IF side = "CERT" THEN SaveCert([form[side] EXCEPT ![f] = v])
                          ELSE SaveProd([form[side] EXCEPT ![f] = v])
  BY <1>1
<1>3. form[side] \in Row
  BY DEF Save, TypeOK
<1>4. [form[side] EXCEPT ![f] = v] \in Row
  BY <1>3 DEF Row, Stated, Values
<1> QED BY <1>2, <1>4 DEF Side, Save

LEMMA StoreType ==
    ASSUME TypeOK, NEW side \in Side, NEW new \in Row, Store(side, new)
    PROVE  /\ row' \in [Side -> Row]
           /\ form' \in [Side -> Row \cup {NoForm}]
           /\ saves' \in 0..MaxSaves
           /\ payload' \in [details : Row, at : 1..now'] \cup {NoPayload}
           /\ now' \in Nat \ {0} /\ now + 1 \in 1..now'
           /\ 0..now \subseteq 0..now' /\ 1..now \subseteq 1..now'
           /\ Changes(side, new) \subseteq Detail
<1>1. now' = now + 1 /\ saves < MaxSaves /\ saves' = saves + 1 /\ payload' = payload
  BY DEF Store
<1>2. now' \in Nat \ {0} /\ now + 1 \in 1..now'
      /\ 0..now \subseteq 0..now' /\ 1..now \subseteq 1..now'
  BY <1>1 DEF TypeOK
<1>3. saves' \in 0..MaxSaves
  BY <1>1, EventDetailsAssumption DEF TypeOK
<1>4. payload' \in [details : Row, at : 1..now'] \cup {NoPayload}
  BY <1>1, <1>2 DEF TypeOK
<1>5. row' \in [Side -> Row] /\ form' \in [Side -> Row \cup {NoForm}]
  BY DEF Store, TypeOK
<1> QED BY <1>2, <1>3, <1>4, <1>5 DEF Changes

LEMMA SaveType ==
    ASSUME TypeOK, NEW side \in Side, Save(side)
    PROVE  TypeOK'
<1>1. CASE side = "CERT"
  <2>1. PICK new \in Row : SaveCert(new)
    BY <1>1, SaveStores
  <2>2. Store("CERT", new)
    BY <2>1 DEF SaveCert
  <2>3. certAt' \in 1..now' /\ personAt' \in 0..now' /\ handAt' \in [Detail -> 0..now']
    BY <2>1, <2>2, StoreType DEF SaveCert, TypeOK, Side
  <2>4. byPerson' \in SUBSET Detail /\ hand' \in SUBSET Detail
    BY <2>1, <2>2, StoreType DEF SaveCert, TypeOK, Side
  <2>5. UNCHANGED <<source, onProd, written, scraped, moves>>
    BY <2>2 DEF Store
  <2> QED BY <2>2, <2>3, <2>4, <2>5, StoreType DEF TypeOK, Side
<1>2. CASE side = "PROD"
  <2>1. PICK new \in Row : SaveProd(new)
    BY <1>2, SaveStores
  <2>2. Store("PROD", new)
    BY <2>1 DEF SaveProd
  <2>3. certAt' \in 1..now' /\ personAt' \in 0..now' /\ handAt' \in [Detail -> 0..now']
    <3>1. now + 1 \in 0..now' /\ certAt' = certAt /\ personAt' = now + 1
      BY <2>1, <2>2, StoreType DEF SaveProd, TypeOK, Side
    <3>2. \A g \in Detail : handAt[g] \in 0..now'
      BY <2>2, StoreType DEF TypeOK, Side
    <3> QED BY <2>1, <2>2, <3>1, <3>2, StoreType DEF SaveProd, TypeOK, Side
  <2>4. byPerson' \in SUBSET Detail /\ hand' \in SUBSET Detail
    BY <2>1 DEF SaveProd, TypeOK
  <2>5. UNCHANGED <<source, onProd, written, scraped, moves>>
    BY <2>2 DEF Store
  <2> QED BY <2>2, <2>3, <2>4, <2>5, StoreType DEF TypeOK, Side
<1> QED BY <1>1, <1>2 DEF Side

LEMMA TypeStep == TypeOK /\ [Next]_vars => TypeOK'
<1> SUFFICES ASSUME TypeOK, [Next]_vars PROVE TypeOK'
  OBVIOUS
<1>1. CASE SourceMoves
  BY <1>1, EventDetailsAssumption DEF SourceMoves, TypeOK, Stated
<1>2. CASE Scrape
  BY <1>2 DEF Scrape, TypeOK, Field
<1>3. CASE Apply
  BY <1>3, ApplyType
<1>4. ASSUME NEW side \in Side, OpenForm(side) PROVE TypeOK'
  BY <1>4 DEF OpenForm, TypeOK
<1>5. ASSUME NEW side \in Side, Save(side) PROVE TypeOK'
  BY <1>5, SaveType
<1>6. CASE MirrorRead
  <2>1. [details |-> cert, at |-> certAt] \in [details : Row, at : 1..now]
    BY DEF TypeOK, cert, Side
  <2> QED BY <1>6, <2>1 DEF MirrorRead, TypeOK
<1>7. CASE MirrorCreate
  <2>1. payload.details \in Row
    BY <1>7 DEF MirrorCreate, TypeOK
  <2> QED BY <1>7, <2>1 DEF MirrorCreate, TypeOK
<1>8. CASE MirrorUpdate
  <2>1. \A f \in Detail : Mirrored(f) \in Values
    BY <1>8, MirroredType DEF MirrorUpdate
  <2>2. row' \in [Side -> Row]
    BY <1>8, <2>1 DEF MirrorUpdate, TypeOK, Row
  <2>3. handAt' \in [Detail -> 0..now]
    <3>1. 0 \in 0..now
      BY DEF TypeOK
    <3> QED BY <1>8, <3>1 DEF MirrorUpdate, TypeOK
  <2> QED BY <1>8, <2>2, <2>3 DEF MirrorUpdate, TypeOK
<1>9. CASE Dies
  BY <1>9 DEF Dies, TypeOK
<1>10. CASE UNCHANGED vars
  BY <1>10 DEF vars, TypeOK
<1> QED BY <1>1, <1>2, <1>3, <1>4, <1>5, <1>6, <1>7, <1>8, <1>9, <1>10 DEF Next, Mirror

-----------------------------------------------------------------------------
(* The scraper writes no detail a person holds. *)

LEMMA HeldIsNotWritten ==
    ASSUME TypeOK, HandHeld, NEW f \in hand, ~Empty(f, cert[f])
    PROVE  ~Owns(f)
BY DEF HandHeld, Owns

LEMMA ApplyHeld == TypeOK /\ HandHeld /\ Apply => HandHeld'
<1> SUFFICES ASSUME TypeOK, HandHeld, Apply, NEW f \in hand'
             PROVE  written'[f] # cert'[f] /\ (written'[f] = NoState => f \in byPerson')
  BY DEF HandHeld
<1> DEFINE changed == {g \in Detail : Writes(g)}
           taken == {g \in Detail : ~Skipped(g) /\ (Agrees(g) \/ Owns(g))}
<1>1. /\ row' = [row EXCEPT !["CERT"] =
                    [g \in Detail |-> IF g \in changed THEN scraped[g] ELSE cert[g]]]
      /\ written' = [g \in Detail |-> IF Skipped(g) THEN written[g]
                                      ELSE IF g \in taken THEN scraped[g]
                                      ELSE StateOfHeld(g)]
      /\ byPerson' = byPerson \ changed
      /\ hand' = hand \ taken
  BY DEF Apply
<1>2. f \in hand /\ f \in Detail /\ f \notin taken
  BY <1>1 DEF TypeOK
<1>3. f \notin changed
  BY <1>2 DEF Writes
<1>4. cert'[f] = cert[f]
  <2> HIDE DEF changed
  <2> QED BY <1>1, <1>2, <1>3 DEF TypeOK, cert, Side
<1>5. f \in byPerson => f \in byPerson'
  BY <1>1, <1>3
<1>6. CASE Skipped(f)
  <2>1. written'[f] = written[f]
    BY <1>1, <1>2, <1>6
  <2> QED BY <1>2, <1>4, <1>5, <2>1 DEF HandHeld
<1>7. CASE ~Skipped(f)
  <2>1. written'[f] = StateOfHeld(f)
    <3> HIDE DEF taken
    <3> QED BY <1>1, <1>2, <1>7
  <2>2. ~Empty(f, cert[f])
    BY <1>2, <1>7 DEF Owns
  <2>3. cert[f] # Blank /\ Blank # NoState
    BY <2>2, EventDetailsAssumption DEF Empty, Values
  <2> QED BY <1>2, <1>4, <2>1, <2>3 DEF HandHeld, StateOfHeld
<1> QED BY <1>6, <1>7

LEMMA SaveHeld ==
    ASSUME TypeOK, HandHeld, NEW side \in Side, Save(side)
    PROVE  HandHeld'
<1>1. CASE side = "PROD"
  <2>1. PICK new \in Row : SaveProd(new)
    BY <1>1, SaveStores
  <2>2. cert' = cert /\ hand' = hand /\ written' = written /\ byPerson' = byPerson
    BY <2>1 DEF SaveProd, Store, TypeOK, cert, Side
  <2> QED BY <2>2 DEF HandHeld
<1>2. CASE side = "CERT"
  <2>1. PICK new \in Row : SaveCert(new)
    BY <1>2, SaveStores
  <2>2. cert' = new /\ written' = written
    BY <2>1 DEF SaveCert, Store, TypeOK, cert, Side
  <2>3. /\ byPerson' = byPerson \cup Changes("CERT", new)
        /\ hand' = (hand \ Changes("CERT", new))
                    \cup {g \in Changes("CERT", new) : new[g] # written[g]}
    BY <2>1 DEF SaveCert
  <2>4. \A g \in Detail : g \notin Changes("CERT", new) => new[g] = cert[g]
    BY DEF Changes, cert
  <2> QED BY <2>2, <2>3, <2>4 DEF HandHeld, TypeOK
<1> QED BY <1>1, <1>2 DEF Side

LEMMA HeldStep == TypeOK /\ HandHeld /\ [Next]_vars => HandHeld'
<1> SUFFICES ASSUME TypeOK, HandHeld, [Next]_vars PROVE HandHeld'
  OBVIOUS
<1>1. CASE Apply
  BY <1>1, ApplyHeld
<1>2. ASSUME NEW side \in Side, Save(side) PROVE HandHeld'
  BY <1>2, SaveHeld
<1>3. CASE ~Apply /\ \A side \in Side : ~Save(side)
  <2>1. cert' = cert /\ UNCHANGED <<written, byPerson, hand>>
    <3>1. CASE MirrorCreate \/ MirrorUpdate
      BY <3>1 DEF MirrorCreate, MirrorUpdate, TypeOK, cert, Side
    <3>2. CASE SourceMoves \/ Scrape \/ MirrorRead \/ Dies
      BY <3>2 DEF SourceMoves, Scrape, MirrorRead, Dies, cert
    <3>3. ASSUME NEW side \in Side, OpenForm(side) PROVE cert' = cert /\ UNCHANGED <<written, byPerson, hand>>
      BY <3>3 DEF OpenForm, cert
    <3>4. CASE UNCHANGED vars
      BY <3>4 DEF vars, cert
    <3> QED BY <1>3, <3>1, <3>2, <3>3, <3>4 DEF Next, Mirror
  <2> QED BY <2>1 DEF HandHeld
<1> QED BY <1>1, <1>2, <1>3

-----------------------------------------------------------------------------
(* Times. *)

LEMMA TimeStep == TypeOK /\ Timely /\ NotYetThere /\ [Next]_vars => Timely' /\ NotYetThere'
<1> SUFFICES ASSUME TypeOK, Timely, NotYetThere, [Next]_vars PROVE Timely' /\ NotYetThere'
  OBVIOUS
<1>0. /\ now \in Nat /\ certAt \in 1..now /\ personAt \in 0..now
      /\ handAt \in [Detail -> 0..now]
      /\ payload \in [details : Row, at : 1..now] \cup {NoPayload}
  BY DEF TypeOK
<1>1. CASE Apply
  <2>1. UNCHANGED <<onProd, personAt, form, payload, handAt>> /\ certAt' \in {certAt, now + 1}
    BY <1>1 DEF Apply
  <2>2. certAt <= certAt'
    BY <1>0, <2>1
  <2> QED BY <1>0, <2>1, <2>2 DEF Timely, NotYetThere
<1>2. ASSUME NEW side \in Side, Save(side) PROVE Timely' /\ NotYetThere'
  <2>1. CASE side = "CERT"
    <3>1. PICK new \in Row : SaveCert(new)
      BY <1>2, <2>1, SaveStores
    <3>2. /\ UNCHANGED <<onProd, personAt, handAt, payload>> /\ certAt' = now + 1
          /\ form'["PROD"] = form["PROD"]
      BY <3>1 DEF SaveCert, Store, TypeOK, Side
    <3> QED BY <1>0, <3>2 DEF Timely, NotYetThere
  <2>2. CASE side = "PROD"
    <3>1. PICK new \in Row : SaveProd(new)
      BY <1>2, <2>2, SaveStores
    <3>2. /\ UNCHANGED <<onProd, certAt, payload>> /\ personAt' = now + 1
          /\ \A g \in Detail : handAt'[g] \in {handAt[g], now + 1}
      BY <3>1 DEF SaveProd, Store
    <3>3. onProd
      BY <1>2, <2>2, SaveStores DEF NotYetThere
    <3> QED BY <1>0, <3>2, <3>3 DEF Timely, NotYetThere
  <2> QED BY <2>1, <2>2 DEF Side
<1>3. CASE MirrorRead
  BY <1>0, <1>3 DEF MirrorRead, Timely, NotYetThere
<1>4. CASE MirrorCreate
  BY <1>0, <1>4 DEF MirrorCreate, Timely, NotYetThere
<1>5. CASE MirrorUpdate
  BY <1>0, <1>5 DEF MirrorUpdate, Timely, NotYetThere
<1>6. ASSUME NEW side \in Side, OpenForm(side) PROVE Timely' /\ NotYetThere'
  BY <1>6 DEF OpenForm, Timely, NotYetThere, TypeOK, Side
<1>7. CASE SourceMoves \/ Scrape \/ Dies
  BY <1>7 DEF SourceMoves, Scrape, Dies, Timely, NotYetThere
<1>8. CASE UNCHANGED vars
  BY <1>8 DEF vars, Timely, NotYetThere
<1> QED BY <1>1, <1>2, <1>3, <1>4, <1>5, <1>6, <1>7, <1>8 DEF Next, Mirror

LEMMA Inductive == IInv /\ [Next]_vars => IInv'
BY TypeStep, HeldStep, TimeStep DEF IInv

LEMMA Invariance == Spec => []IInv
<1>1. Init => IInv
  BY InitHolds
<1>2. IInv /\ [Next]_vars => IInv'
  BY Inductive
<1> QED BY <1>1, <1>2, PTL DEF Spec

-----------------------------------------------------------------------------
(* The theorems. *)

(* Every reachable state of the details is well-typed: the scraper's state     *)
(* never holds our own registration link (rule 5), times are in order          *)
(* (fn_calendar_apply_fields, fn_mirror_events_to_prod, updateEvent).          *)
THEOREM TypeCorrect == Spec => []TypeOK
<1>1. IInv => TypeOK
  BY DEF IInv
<1> QED BY <1>1, Invariance, PTL

(* Whatever the calendars say and however the forms and the runs interleave, a *)
(* scraper never replaces a value a person set on CERT                         *)
(* (fn_calendar_apply_fields rule 3).                                          *)
THEOREM PersonKept == Spec => KeptForPerson
<1>1. IInv /\ [Next]_vars
        => [\A f \in hand : ~Empty(f, cert[f]) /\ cert'[f] # cert[f] => saves' # saves]_vars
  <2> SUFFICES ASSUME IInv, [Next]_vars, NEW f \in hand,
                      ~Empty(f, cert[f]), cert'[f] # cert[f]
               PROVE  saves' # saves
    OBVIOUS
  <2>0. TypeOK /\ HandHeld /\ f \in Detail
    BY DEF IInv, TypeOK
  <2>1. CASE Apply
    <3>1. ~Writes(f)
      BY <2>0, HeldIsNotWritten DEF Writes
    <3>2. cert' = [g \in Detail |-> IF g \in {h \in Detail : Writes(h)} THEN scraped[g] ELSE cert[g]]
      BY <2>0, <2>1 DEF Apply, TypeOK, cert, Side
    <3>3. cert'[f] = cert[f]
      BY <2>0, <3>1, <3>2
    <3> QED BY <3>3
  <2>2. ASSUME NEW side \in Side, Save(side) PROVE saves' # saves
    <3>1. saves' = saves + 1
      BY <2>2 DEF Save, SaveCert, SaveProd, Store
    <3> QED BY <2>0, <3>1, EventDetailsAssumption DEF TypeOK
  <2>3. CASE MirrorCreate \/ MirrorUpdate
    BY <2>0, <2>3 DEF MirrorCreate, MirrorUpdate, TypeOK, cert, Side
  <2>4. CASE SourceMoves \/ Scrape \/ MirrorRead \/ Dies
    BY <2>4 DEF SourceMoves, Scrape, MirrorRead, Dies, cert
  <2>5. ASSUME NEW side \in Side, OpenForm(side) PROVE FALSE
    BY <2>5 DEF OpenForm, cert
  <2>6. CASE UNCHANGED vars
    BY <2>6 DEF vars, cert
  <2> QED BY <2>1, <2>2, <2>3, <2>4, <2>5, <2>6 DEF Next, Mirror
<1> QED BY <1>1, Invariance, PTL DEF Spec, KeptForPerson

(* The mirror never replaces an administrator's PROD value by details CERT     *)
(* wrote before that edit, however late its payload lands and whatever CERT    *)
(* writes in between (fn_mirror_events_to_prod, fn_event_details_set_at).      *)
THEOREM EditStands == Spec => HandEditStands
<1>1. IInv /\ [Next]_vars
        => [\A f \in Detail :
              handAt[f] > 0 /\ ~Empty(f, prod[f]) /\ prod'[f] # prod[f]
                  => handAt'[f] > handAt[f] \/ LaterDetailsLand(f)]_vars
  <2> SUFFICES ASSUME IInv, [Next]_vars, NEW f \in Detail,
                      handAt[f] > 0, ~Empty(f, prod[f]), prod'[f] # prod[f]
               PROVE  handAt'[f] > handAt[f] \/ LaterDetailsLand(f)
    OBVIOUS
  <2>0. /\ TypeOK /\ Timely /\ NotYetThere
        /\ now \in Nat /\ certAt \in 1..now /\ personAt \in 0..now
        /\ handAt \in [Detail -> 0..now]
        /\ payload \in [details : Row, at : 1..now] \cup {NoPayload}
    BY DEF IInv, TypeOK
  <2>1. CASE MirrorUpdate
    <3>1. prod' = [g \in Detail |-> Mirrored(g)] /\ payload # NoPayload
      BY <2>0, <2>1 DEF MirrorUpdate, TypeOK, prod, Side
    <3>2. Mirrored(f) # prod[f]
      BY <3>1
    <3>3. CertNewer
      BY <3>2 DEF Mirrored, Empty
    <3>4. payload.at > personAt /\ handAt[f] <= personAt
      BY <2>0, <3>1, <3>3 DEF CertNewer, Timely
    <3>5. payload.at > handAt[f]
      BY <2>0, <3>1, <3>4
    <3> QED BY <2>1, <3>1, <3>5 DEF MirrorUpdate, LaterDetailsLand
  <2>2. CASE MirrorCreate
    BY <2>0, <2>2 DEF MirrorCreate, NotYetThere
  <2>3. ASSUME NEW side \in Side, Save(side) PROVE handAt'[f] > handAt[f]
    <3>1. CASE side = "CERT"
      <4>1. PICK new \in Row : SaveCert(new)
        BY <2>0, <2>3, <3>1, SaveStores
      <4> QED BY <2>0, <4>1 DEF SaveCert, Store, TypeOK, prod, Side
    <3>2. CASE side = "PROD"
      <4>1. PICK new \in Row : SaveProd(new)
        BY <2>0, <2>3, <3>2, SaveStores
      <4>2. prod' = new
        BY <2>0, <4>1 DEF SaveProd, Store, TypeOK, prod, Side
      <4>3. f \in Changes("PROD", new)
        BY <4>2 DEF Changes, prod
      <4>4. handAt'[f] = now + 1
        BY <4>1, <4>3 DEF SaveProd
      <4> QED BY <2>0, <4>4
    <3> QED BY <3>1, <3>2 DEF Side
  <2>4. CASE Apply
    BY <2>0, <2>4 DEF Apply, TypeOK, prod, Side
  <2>5. CASE SourceMoves \/ Scrape \/ MirrorRead \/ Dies
    BY <2>5 DEF SourceMoves, Scrape, MirrorRead, Dies, prod
  <2>6. ASSUME NEW side \in Side, OpenForm(side) PROVE FALSE
    BY <2>6 DEF OpenForm, prod
  <2>7. CASE UNCHANGED vars
    BY <2>7 DEF vars, prod
  <2> QED BY <2>1, <2>2, <2>3, <2>4, <2>5, <2>6, <2>7 DEF Next, Mirror
<1> QED BY <1>1, Invariance, PTL DEF Spec, HandEditStands
=============================================================================
