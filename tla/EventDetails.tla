---------------------------- MODULE EventDetails ----------------------------
(***************************************************************************)
(* The nine details of one event (ADR-118): its name, dates, city,         *)
(* country, address, invitation letter, registration link and fee.  On     *)
(* CERT a calendar scraper writes them under a contract that keeps what a  *)
(* person set (fn_calendar_apply_fields); the mirror carries them to PROD  *)
(* (promote --mode calendar, fn_mirror_events_to_prod) unless a person     *)
(* changed PROD's later.  On both sides an administrator's form writes     *)
(* back the whole row it was opened with.                                  *)
(*                                                                         *)
(* One event, one scraper.  Reports of held values, the weapons and the    *)
(* fields outside the nine are left out.                                   *)
(***************************************************************************)
EXTENDS Naturals

CONSTANTS
    Detail,      \* the details
    Letter,      \* url_invitation
    Link,        \* url_registration
    Val,         \* the values a source or a person can state
    Blank,       \* no value
    Page,        \* an event page where a letter belongs
    Ours,        \* our own register.html link
    NoState,     \* no row in tbl_calendar_field_state
    NoForm,
    NoPayload,
    FirstSource, \* what the pages said when the event was created
    FirstRow,    \* the row it was created with
    MaxMoves,    \* bound: changes of the source
    MaxSaves     \* bound: saves that changed something, on both sides

Side == {"CERT", "PROD"}
(* What a page or an administrator states; a page may carry our own link. *)
Stated(f) == Val \cup {Blank} \cup (IF f = Link THEN {Ours} ELSE {})
Values == Val \cup {Blank, Page, Ours}
Row == [Detail -> Values]

ASSUME EventDetailsAssumption ==
    /\ Letter \in Detail
    /\ Link \in Detail
    /\ Letter # Link
    /\ Blank \notin Val
    /\ Page \notin Val \cup {Blank}
    /\ Ours \notin Val \cup {Blank, Page}
    /\ NoState \notin Values
    /\ NoForm \notin Row
    /\ NoPayload \notin [details : Row, at : Nat]
    /\ FirstSource \in [Detail -> Val \cup {Blank}]
    /\ FirstRow \in [Detail -> Val \cup {Blank, Page}]
    /\ MaxMoves \in Nat
    /\ MaxSaves \in Nat

VARIABLES
    source,    \* what the calendar's pages say
    row,       \* tbl_event, per side
    onProd,    \* PROD has the event
    written,   \* tbl_calendar_field_state.txt_value; Blank is its NULL
    byPerson,  \* the details whose last audited change on CERT was a person's
    now,       \* the time of the latest write that changed a detail
    certAt,    \* when CERT's details were last written (_details_set_sql)
    personAt,  \* when a person last changed PROD's (fn_event_details_set_at); 0: never
    form,      \* per side, the row an administrator's open form was filled with
    scraped,   \* the scraper between reading the pages and its call
    payload,   \* the mirror between reading CERT and its call
    hand,      \* history: CERT's details whose value a person put, not the scraper
    handAt,    \* history: when a person put PROD's value; 0: nobody
    moves, saves

vars == <<source, row, onProd, written, byPerson, now, certAt, personAt, form, scraped,
          payload, hand, handAt, moves, saves>>

TypeOK ==
    /\ source \in [Detail -> Val \cup {Blank, Ours}]
    /\ row \in [Side -> Row]
    /\ onProd \in BOOLEAN
    /\ written \in [Detail -> Val \cup {Blank, NoState}]
    /\ byPerson \in SUBSET Detail
    /\ now \in Nat \ {0}
    /\ certAt \in 1..now
    /\ personAt \in 0..now
    /\ form \in [Side -> Row \cup {NoForm}]
    /\ scraped \in [Detail -> Val \cup {Blank}] \cup {NoForm}
    /\ payload \in [details : Row, at : 1..now] \cup {NoPayload}
    /\ hand \in SUBSET Detail
    /\ handAt \in [Detail -> 0..now]
    /\ moves \in 0..MaxMoves
    /\ saves \in 0..MaxSaves

(* Automation has created the event on CERT; PROD does not have it yet. *)
Init ==
    /\ source = FirstSource
    /\ row = [side \in Side |-> IF side = "CERT" THEN FirstRow ELSE [f \in Detail |-> Blank]]
    /\ onProd = FALSE
    /\ written = [f \in Detail |-> NoState]
    /\ byPerson = {}
    /\ now = 1
    /\ certAt = 1
    /\ personAt = 0
    /\ form = [side \in Side |-> NoForm]
    /\ scraped = NoForm
    /\ payload = NoPayload
    /\ hand = {}
    /\ handAt = [f \in Detail |-> 0]
    /\ moves = 0
    /\ saves = 0

-----------------------------------------------------------------------------
(* The scraper: it reads the pages, then writes in one transaction. *)

cert == row["CERT"]
prod == row["PROD"]

SourceMoves ==
    /\ moves < MaxMoves
    /\ moves' = moves + 1
    /\ \E f \in Detail : \E v \in Stated(f) : source' = [source EXCEPT ![f] = v]
    /\ UNCHANGED <<row, onProd, written, byPerson, now, certAt, personAt, form, scraped,
                   payload, hand, handAt, saves>>

\* Mutant: the fields as the page states them.
FieldRaw(f) == source[f]
(* Our own link is no source's (evf_fields). *)
Field(f) == IF source[f] = Ours THEN Blank ELSE source[f]

Scrape ==
    /\ scraped = NoForm
    /\ scraped' = [f \in Detail |-> Field(f)]
    /\ UNCHANGED <<source, row, onProd, written, byPerson, now, certAt, personAt, form,
                   payload, hand, handAt, moves, saves>>

Empty(f, v) == v = Blank \/ (f = Letter /\ v = Page)

(* A held value leaves the state as it is, or starts it with NULL. *)
StateOfHeld(f) == IF written[f] = NoState THEN Blank ELSE written[f]

(* Rules 4 and 5, and our own link on CERT. *)
Skipped(f) == scraped[f] \in {Blank, Ours} \/ cert[f] = Ours
Agrees(f) == ~Empty(f, cert[f]) /\ cert[f] = scraped[f]
\* Mutant: without a state the value is the scraper's, whoever set it.
OwnsUnknown(f) == Empty(f, cert[f]) \/ written[f] \in {NoState, cert[f]}
(* Rules 1 to 3. *)
Owns(f) == \/ Empty(f, cert[f])
           \/ IF written[f] = NoState THEN f \notin byPerson ELSE written[f] = cert[f]
Writes(f) == ~Skipped(f) /\ ~Agrees(f) /\ Owns(f)

Apply ==
    /\ scraped # NoForm
    /\ LET changed == {f \in Detail : Writes(f)}
           taken == {f \in Detail : ~Skipped(f) /\ (Agrees(f) \/ Owns(f))}
       IN  /\ row' = [row EXCEPT !["CERT"] =
                         [f \in Detail |-> IF f \in changed THEN scraped[f] ELSE cert[f]]]
           /\ written' = [f \in Detail |-> IF Skipped(f) THEN written[f]
                                           ELSE IF f \in taken THEN scraped[f]
                                           ELSE StateOfHeld(f)]
           /\ byPerson' = byPerson \ changed
           /\ hand' = hand \ taken
           /\ IF changed = {} THEN UNCHANGED <<now, certAt>>
              ELSE now' = now + 1 /\ certAt' = now + 1
    /\ scraped' = NoForm
    /\ UNCHANGED <<source, onProd, personAt, form, payload, handAt, moves, saves>>

-----------------------------------------------------------------------------
(* The administrator's form: filled from the row, it saves every detail.    *)
(* One form at a time; one left unsaved is one that was never opened.       *)

OpenForm(side) ==
    /\ \A s \in Side : form[s] = NoForm
    /\ saves < MaxSaves
    /\ side = "PROD" => onProd
    /\ form' = [form EXCEPT ![side] = row[side]]
    /\ UNCHANGED <<source, row, onProd, written, byPerson, now, certAt, personAt, scraped,
                   payload, hand, handAt, moves, saves>>

Changes(side, new) == {g \in Detail : new[g] # row[side][g]}

Store(side, new) ==
    /\ Changes(side, new) # {}
    /\ row' = [row EXCEPT ![side] = new]
    /\ form' = [form EXCEPT ![side] = NoForm]
    /\ now' = now + 1
    /\ saves < MaxSaves
    /\ saves' = saves + 1
    /\ UNCHANGED <<source, onProd, written, scraped, payload, moves>>

SaveCert(new) ==
    /\ Store("CERT", new)
    /\ LET changed == Changes("CERT", new)
       IN  /\ byPerson' = byPerson \cup changed
           /\ hand' = (hand \ changed) \cup {g \in changed : new[g] # written[g]}
    /\ certAt' = now + 1
    /\ UNCHANGED <<personAt, handAt>>

SaveProd(new) ==
    /\ Store("PROD", new)
    /\ LET changed == Changes("PROD", new)
       IN  handAt' = [g \in Detail |-> IF g \in changed THEN now + 1 ELSE handAt[g]]
    /\ personAt' = now + 1
    /\ UNCHANGED <<certAt, byPerson, hand>>

(* One detail is edited; the others go back as the form was filled. *)
Save(side) ==
    /\ form[side] # NoForm
    /\ \E f \in Detail : \E v \in Stated(f) :
           LET new == [form[side] EXCEPT ![f] = v]
           IN  /\ v # form[side][f]
               /\ IF side = "CERT" THEN SaveCert(new) ELSE SaveProd(new)

-----------------------------------------------------------------------------
(* The mirror: CERT's details with the time they were last written, then    *)
(* one transaction on PROD, which reads the time of PROD's last edit itself. *)

MirrorRead ==
    /\ payload = NoPayload
    /\ payload' = [details |-> cert, at |-> certAt]
    /\ UNCHANGED <<source, row, onProd, written, byPerson, now, certAt, personAt, form,
                   scraped, hand, handAt, moves, saves>>

\* Mutant: the edit is compared with CERT's time now, not with the payload's.
CertNewerNow == certAt > personAt
CertNewer == payload.at > personAt

\* Mutant: the rules before ADR-118, a blank is filled and no more.
FilledOnly(f) == IF prod[f] = Blank THEN payload.details[f] ELSE prod[f]
(* What PROD shows afterwards. *)
Mirrored(f) ==
    LET theirs == payload.details[f]
        kept == IF theirs = Blank THEN prod[f]
                ELSE IF CertNewer \/ prod[f] = Blank THEN theirs ELSE prod[f]
    IN  IF f = Link /\ Ours \in {prod[f], theirs} THEN prod[f]
        ELSE IF f = Letter /\ kept = Page /\ theirs # Blank THEN theirs
        ELSE kept

(* The event is new to PROD: its details come as CERT holds them. *)
MirrorCreate ==
    /\ payload # NoPayload
    /\ ~onProd
    /\ onProd' = TRUE
    /\ row' = [row EXCEPT !["PROD"] = payload.details]
    /\ payload' = NoPayload
    /\ UNCHANGED <<source, written, byPerson, now, certAt, personAt, form, scraped,
                   hand, handAt, moves, saves>>

MirrorUpdate ==
    /\ payload # NoPayload
    /\ onProd
    /\ row' = [row EXCEPT !["PROD"] = [f \in Detail |-> Mirrored(f)]]
    /\ handAt' = [f \in Detail |-> IF Mirrored(f) = prod[f] THEN handAt[f] ELSE 0]
    /\ payload' = NoPayload
    /\ UNCHANGED <<source, onProd, written, byPerson, now, certAt, personAt, form, scraped,
                   hand, moves, saves>>

(* A job dies before its call. *)
Dies ==
    /\ \/ scraped # NoForm /\ scraped' = NoForm /\ UNCHANGED payload
       \/ payload # NoPayload /\ payload' = NoPayload /\ UNCHANGED scraped
    /\ UNCHANGED <<source, row, onProd, written, byPerson, now, certAt, personAt, form,
                   hand, handAt, moves, saves>>

Mirror == MirrorRead \/ MirrorCreate \/ MirrorUpdate

Next ==
    \/ SourceMoves \/ Scrape \/ Apply \/ Mirror \/ Dies
    \/ \E side \in Side : OpenForm(side) \/ Save(side)

(* The daily runs come again and again; now and then one reaches its end. *)
Fairness ==
    /\ WF_vars(Scrape) /\ WF_vars(MirrorRead)
    /\ SF_vars(Apply) /\ SF_vars(MirrorCreate \/ MirrorUpdate)

Spec == Init /\ [][Next]_vars /\ Fairness

-----------------------------------------------------------------------------
(* Properties. *)

(* A value a person set on CERT is replaced by a save alone, never by the      *)
(* scraper, whatever the source went through in the meantime - unless it is    *)
(* the very value the scraper last wrote, or the source came to agree with it  *)
(* (fn_calendar_apply_fields rule 3, its state table and the audit).           *)
KeptForPerson ==
    [][\A f \in hand : ~Empty(f, cert[f]) /\ cert'[f] # cert[f] => saves' # saves]_vars

(* The mirror's call ends, and CERT wrote what it carries after PROD's edit of f. *)
LaterDetailsLand(f) ==
    payload # NoPayload /\ payload' = NoPayload /\ payload.at > handAt[f]

(* A value a person set on PROD is replaced by another edit, or by a mirror     *)
(* whose own details CERT wrote after that edit: never by details read before  *)
(* it, however late they land and whatever CERT has written since              *)
(* (fn_mirror_events_to_prod compares the payload's time with PROD's).         *)
HandEditStands ==
    [][\A f \in Detail :
          handAt[f] > 0 /\ ~Empty(f, prod[f]) /\ prod'[f] # prod[f]
              => handAt'[f] > handAt[f] \/ LaterDetailsLand(f)]_vars

(* Once source and administrators rest, what the calendar says is what PROD    *)
(* shows, through scraper and mirror, except where a person's value is held on *)
(* CERT, a person changed PROD after CERT's last write, or PROD has our own    *)
(* registration link.                                                          *)
CalendarReachesProd ==
    <>[](\A f \in Detail : \/ source[f] \in {Blank, Ours}
                           \/ f \in hand
                           \/ personAt > certAt
                           \/ prod[f] = Ours
                           \/ prod[f] = source[f])
=============================================================================
