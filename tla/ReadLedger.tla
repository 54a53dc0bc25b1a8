----------------------------- MODULE ReadLedger -----------------------------
(***************************************************************************)
(* The daily allowance of FencingTimeLive reads and the one stored session *)
(* (ADR-120).  Processes of CI and LOCAL share two rows on CERT: the day's *)
(* count of requests and sign-ins, and the session of the latest sign-in.  *)
(* Each process opens one client at a time (get_authed_ftl_client); a      *)
(* client draws an allowance before it sends, and gives the rest back when *)
(* it closes.  FTL itself is the environment: it refuses a sign-in, ends a *)
(* session early, redirects a read of an ended session to its login page.  *)
(***************************************************************************)
EXTENDS Naturals, FiniteSets

CONSTANTS
    Proc,         \* the processes that read FTL
    Cap,          \* DAILY_REQUESTS
    SignInCap,    \* DAILY_SIGN_INS
    Chunk,        \* DRAW: the requests one draw asks for
    NoCookie,
    MaxDay,       \* bound: Warsaw days
    MaxSignIns,   \* bound: session cookies FTL hands out
    MaxCrashes,   \* bound: processes that die
    MaxFails      \* bound: calls of the session store that fail

Day == 1..MaxDay
Cookie == 1..MaxSignIns

ASSUME ReadLedgerAssumption ==
    /\ IsFiniteSet(Proc)
    /\ Cap \in Nat
    /\ SignInCap \in Nat
    /\ Chunk \in Nat \ {0}
    /\ MaxDay \in Nat \ {0}
    /\ MaxSignIns \in Nat
    /\ MaxCrashes \in Nat
    /\ MaxFails \in Nat
    /\ NoCookie \notin Nat

VARIABLES
    day,       \* today in Warsaw
    requests,  \* tbl_ftl_read_ledger.int_requests, per day
    signIns,   \* tbl_ftl_read_ledger.int_sign_ins, per day
    stored,    \* tbl_ftl_session: the cookie, or NoCookie
    given,     \* how many session cookies FTL has handed out; they are numbered
    usable,    \* the cookies not yet within the margin of their expiry
    honoured,  \* the cookies FTL still accepts
    pc,        \* per process, where its client is
    allowance, \* per process, requests drawn and not sent
    inUse,     \* per process, the cookie its client carries
    cached,    \* per process, _cached_session
    refused,   \* the processes whose sign-in FTL refused (_refused)
    drawnOn,   \* history: per process, the day its allowance was drawn, 0 for none
    sent,      \* history: requests that went to FTL, per day they were drawn on
    misplaced, \* history: requests given back to a day they were not drawn on
    crashes, fails

accountVars == <<requests, signIns, drawnOn, sent, misplaced>>
sessionVars == <<stored, cached>>
ftlVars == <<given, usable, honoured>>
boundVars == <<crashes, fails>>
vars == <<day, accountVars, sessionVars, ftlVars, pc, allowance, inUse, refused,
          boundVars>>

Stages == {"idle", "draw", "signIn", "loginPage", "login", "put", "ready", "bounced", "closing"}

TypeOK ==
    /\ day \in Day
    /\ requests \in [Day -> 0..Cap]
    /\ signIns \in [Day -> 0..SignInCap]
    /\ stored \in 1..given \cup {NoCookie}
    /\ given \in 0..MaxSignIns
    /\ usable \subseteq 1..given
    /\ honoured \subseteq 1..given
    /\ pc \in [Proc -> Stages]
    /\ allowance \in [Proc -> 0..Chunk]
    /\ inUse \in [Proc -> 1..given \cup {NoCookie}]
    /\ cached \in [Proc -> 1..given \cup {NoCookie}]
    /\ refused \subseteq Proc
    /\ drawnOn \in [Proc -> Day \cup {0}]
    /\ sent \in [Day -> Nat]
    /\ misplaced \in [Day -> Nat]
    /\ crashes \in 0..MaxCrashes
    /\ fails \in 0..MaxFails

Init ==
    /\ day = 1
    /\ requests = [d \in Day |-> 0]
    /\ signIns = [d \in Day |-> 0]
    /\ stored = NoCookie
    /\ given = 0
    /\ usable = {}
    /\ honoured = {}
    /\ pc = [p \in Proc |-> "idle"]
    /\ allowance = [p \in Proc |-> 0]
    /\ inUse = [p \in Proc |-> NoCookie]
    /\ cached = [p \in Proc |-> NoCookie]
    /\ refused = {}
    /\ drawnOn = [p \in Proc |-> 0]
    /\ sent = [d \in Day |-> 0]
    /\ misplaced = [d \in Day |-> 0]
    /\ crashes = 0
    /\ fails = 0

-----------------------------------------------------------------------------
(* The ledger's row: a draw is granted up to the cap, a sign-in whole or none. *)

Left == Cap - requests[day]

\* Mutant: a draw is granted whole, whatever is left of the day.
GrantedWhole == Chunk
Granted == IF Chunk <= Left THEN Chunk ELSE Left

\* Mutant: a client gives back all it drew.
GiveBackChunk(d, n) == IF Chunk <= requests[d] THEN requests[d] - Chunk ELSE 0
GiveBack(d, n) == IF n <= requests[d] THEN requests[d] - n ELSE 0

Goto(p, stage) == pc' = [pc EXCEPT ![p] = stage]

-----------------------------------------------------------------------------
(* Opening a client: the process's session, else the stored one, else a  *)
(* sign-in; force_login goes straight to the sign-in, whatever is stored. *)

Choice(p) == IF cached[p] \in usable THEN cached[p] ELSE stored

Open(p) ==
    /\ pc[p] = "idle"
    /\ p \notin refused
    /\ Choice(p) \in usable
    /\ cached' = [cached EXCEPT ![p] = Choice(p)]
    /\ inUse' = [inUse EXCEPT ![p] = Choice(p)]
    /\ Goto(p, "ready")
    /\ UNCHANGED <<day, accountVars, stored, ftlVars, allowance, refused, boundVars>>

OpenToSignIn(p) ==
    /\ pc[p] = "idle"
    /\ p \notin refused
    /\ Goto(p, "draw")
    /\ UNCHANGED <<day, accountVars, sessionVars, ftlVars, allowance, inUse, refused, boundVars>>

DrawToSignIn(p) ==
    /\ pc[p] = "draw"
    /\ requests' = [requests EXCEPT ![day] = @ + Granted]
    /\ allowance' = [allowance EXCEPT ![p] = Granted]
    /\ drawnOn' = [drawnOn EXCEPT ![p] = day]
    /\ Goto(p, IF Granted = 0 THEN "closing" ELSE "signIn")
    /\ UNCHANGED <<day, signIns, sent, misplaced, sessionVars, ftlVars, inUse, refused, boundVars>>

TakeSignIn(p) ==
    /\ pc[p] = "signIn"
    /\ \/ /\ signIns[day] < SignInCap
          /\ signIns' = [signIns EXCEPT ![day] = @ + 1]
          /\ Goto(p, "loginPage")
       \/ /\ signIns[day] >= SignInCap
          /\ Goto(p, "closing")
          /\ UNCHANGED signIns
    /\ UNCHANGED <<day, requests, drawnOn, sent, misplaced, sessionVars, ftlVars, allowance, inUse, refused, boundVars>>

-----------------------------------------------------------------------------
(* before_request: an empty allowance is drawn again, then the request is  *)
(* sent.  The draw and the request are one step: no other process sees the *)
(* client's allowance.                                                     *)

Send(p) ==
    IF allowance[p] > 0
    THEN /\ allowance' = [allowance EXCEPT ![p] = @ - 1]
         /\ sent' = [sent EXCEPT ![drawnOn[p]] = @ + 1]
         /\ UNCHANGED <<requests, drawnOn>>
    ELSE /\ Granted > 0
         /\ requests' = [requests EXCEPT ![day] = @ + Granted]
         /\ allowance' = [allowance EXCEPT ![p] = Granted - 1]
         /\ drawnOn' = [drawnOn EXCEPT ![p] = day]
         /\ sent' = [sent EXCEPT ![day] = @ + 1]

Spent(p) ==
    /\ pc[p] \in {"loginPage", "login", "ready"}
    /\ allowance[p] = 0
    /\ Granted = 0
    /\ Goto(p, "closing")
    /\ UNCHANGED <<day, accountVars, sessionVars, ftlVars, allowance, inUse, refused, boundVars>>

GetLoginPage(p) ==
    /\ pc[p] = "loginPage"
    /\ Send(p)
    /\ \/ Goto(p, "login")
       \/ Goto(p, "closing")
    /\ UNCHANGED <<day, signIns, misplaced, sessionVars, ftlVars, inUse, refused, boundVars>>

SignedIn(p) ==
    /\ given < MaxSignIns
    /\ given' = given + 1
    /\ usable' = usable \cup {given + 1}
    /\ honoured' = honoured \cup {given + 1}
    /\ inUse' = [inUse EXCEPT ![p] = given + 1]
    /\ Goto(p, "put")
    /\ UNCHANGED <<cached, refused>>

SignInRefused(p) ==
    /\ refused' = refused \cup {p}
    /\ Goto(p, "closing")
    /\ UNCHANGED <<ftlVars, inUse, cached>>

NoExpiry(p) ==
    /\ cached' = [cached EXCEPT ![p] = NoCookie]
    /\ Goto(p, "ready")
    /\ UNCHANGED <<ftlVars, inUse, refused>>

(* No answer to the sign-in, or one that is no refusal. *)
SignInLost(p) ==
    /\ Goto(p, "closing")
    /\ UNCHANGED <<ftlVars, inUse, cached, refused>>

PostLogin(p) ==
    /\ pc[p] = "login"
    /\ Send(p)
    /\ SignedIn(p) \/ SignInRefused(p) \/ NoExpiry(p) \/ SignInLost(p)
    /\ UNCHANGED <<day, signIns, misplaced, stored, boundVars>>

(* fn_ftl_session_put: the sign-in's cookie replaces whatever is stored. *)
Put(p) ==
    /\ pc[p] = "put"
    /\ stored' = inUse[p]
    /\ cached' = [cached EXCEPT ![p] = inUse[p]]
    /\ Goto(p, "ready")
    /\ UNCHANGED <<day, accountVars, ftlVars, allowance, inUse, refused, boundVars>>

-----------------------------------------------------------------------------
(* Reading with an open client.  An ended session bounces to the login page. *)

Read(p) ==
    /\ pc[p] = "ready"
    /\ Send(p)
    /\ IF inUse[p] \in honoured \cup {NoCookie}
       THEN UNCHANGED pc
       ELSE Goto(p, "bounced")
    /\ UNCHANGED <<day, signIns, misplaced, sessionVars, ftlVars, inUse, refused, boundVars>>

(* A client without a cookie of its own may bounce too; nothing is dropped. *)
BounceUnnamed(p) ==
    /\ pc[p] = "ready"
    /\ inUse[p] = NoCookie
    /\ Send(p)
    /\ cached' = [cached EXCEPT ![p] = NoCookie]
    /\ Goto(p, "closing")
    /\ UNCHANGED <<day, signIns, misplaced, stored, ftlVars, inUse, refused, boundVars>>

\* Mutant: a bounce drops whatever is stored.
WithoutAny(c, own) == NoCookie
(* fn_ftl_session_drop deletes the row only if it still is this cookie. *)
Without(c, own) == IF c = own THEN NoCookie ELSE c

Drop(p) ==
    /\ pc[p] = "bounced"
    /\ stored' = Without(stored, inUse[p])
    /\ cached' = [cached EXCEPT ![p] = NoCookie]
    /\ Goto(p, "closing")
    /\ UNCHANGED <<day, accountVars, ftlVars, allowance, inUse, refused, boundVars>>

(* A call of the session store fails, carried out or not: the client raises *)
(* and the process keeps what it had cached.                                *)
StoreFails(p) ==
    /\ pc[p] \in {"put", "bounced"}
    /\ fails < MaxFails
    /\ fails' = fails + 1
    /\ \/ UNCHANGED stored
       \/ pc[p] = "put" /\ stored' = inUse[p]
       \/ pc[p] = "bounced" /\ stored' = Without(stored, inUse[p])
    /\ Goto(p, "closing")
    /\ UNCHANGED <<day, accountVars, cached, ftlVars, allowance, inUse, refused, crashes>>

(* finally: what was drawn and not sent goes back, to the row of the day of *)
(* the closing.                                                             *)
Close(p) ==
    /\ pc[p] \in {"ready", "closing"}
    /\ requests' = [requests EXCEPT ![day] = GiveBack(day, allowance[p])]
    /\ allowance' = [allowance EXCEPT ![p] = 0]
    /\ inUse' = [inUse EXCEPT ![p] = NoCookie]
    /\ misplaced' = IF drawnOn[p] = day THEN misplaced
                    ELSE [misplaced EXCEPT ![day] = @ + allowance[p]]
    /\ drawnOn' = [drawnOn EXCEPT ![p] = 0]
    /\ Goto(p, "idle")
    /\ UNCHANGED <<day, signIns, sent, sessionVars, ftlVars, refused, boundVars>>

(* The process dies and a new one takes its place: its allowance stays drawn. *)
Crash(p) ==
    /\ pc[p] # "idle" \/ p \in refused
    /\ crashes < MaxCrashes
    /\ crashes' = crashes + 1
    /\ allowance' = [allowance EXCEPT ![p] = 0]
    /\ inUse' = [inUse EXCEPT ![p] = NoCookie]
    /\ cached' = [cached EXCEPT ![p] = NoCookie]
    /\ refused' = refused \ {p}
    /\ drawnOn' = [drawnOn EXCEPT ![p] = 0]
    /\ Goto(p, "idle")
    /\ UNCHANGED <<day, requests, signIns, sent, misplaced, stored, ftlVars, fails>>

-----------------------------------------------------------------------------
(* The world: midnight in Warsaw, a session near its expiry, one ended by FTL. *)

Midnight ==
    /\ day < MaxDay
    /\ day' = day + 1
    /\ UNCHANGED <<accountVars, sessionVars, ftlVars, pc, allowance, inUse, refused, boundVars>>

NearExpiry(c) ==
    /\ c \in usable
    /\ usable' = usable \ {c}
    /\ UNCHANGED <<day, accountVars, sessionVars, given, honoured, pc, allowance, inUse, refused, boundVars>>

SessionEnds(c) ==
    /\ c \in honoured
    /\ honoured' = honoured \ {c}
    /\ UNCHANGED <<day, accountVars, sessionVars, given, usable, pc, allowance, inUse, refused, boundVars>>

Client(p) ==
    \/ Open(p) \/ OpenToSignIn(p) \/ DrawToSignIn(p) \/ TakeSignIn(p) \/ Spent(p)
    \/ GetLoginPage(p) \/ PostLogin(p) \/ Put(p) \/ Read(p) \/ BounceUnnamed(p)
    \/ Drop(p) \/ StoreFails(p) \/ Close(p) \/ Crash(p)

Next ==
    \/ \E p \in Proc : Client(p)
    \/ Midnight
    \/ \E c \in Cookie : NearExpiry(c) \/ SessionEnds(c)

Spec == Init /\ [][Next]_vars

-----------------------------------------------------------------------------
(* Properties. *)

(* The requests drawn from a day's row that a client may still send. *)
Held(d) == {h \in Proc \X (1..Chunk) : drawnOn[h[1]] = d /\ h[2] <= allowance[h[1]]}

(* However many processes draw, send, fail, die or close at once: of a day's   *)
(* row no more was sent or may still be sent than the row counts, except for   *)
(* what clients opened on another day gave back to it (fn_ftl_ledger_take and  *)
(* _give_back, the client's finally).  As the row never exceeds the cap        *)
(* (TypeOK), the day stays within its cap unless a client closed after         *)
(* midnight, and then exceeds it by no more than that client returned.         *)
AllCounted ==
    \A d \in Day : sent[d] + Cardinality(Held(d)) <= requests[d] + misplaced[d]

(* A session FTL still honours is never dropped from the store: a run whose  *)
(* own cookie bounced must not drop the newer one another run stored since.  *)
HonouredStays == [][(stored \in honoured) => stored' # NoCookie]_vars
=============================================================================
