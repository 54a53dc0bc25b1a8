-------------------------- MODULE ReadLedgerProofs --------------------------
(***************************************************************************)
(* Proofs about ReadLedger for any finite set of processes, any caps and   *)
(* any chunk: type correctness (a day's row never exceeds its cap), that   *)
(* every request sent or still to be sent is counted, and that a session   *)
(* FTL honours is never dropped.                                           *)
(***************************************************************************)
EXTENDS ReadLedger, FiniteSetTheorems, TLAPS

-----------------------------------------------------------------------------
(* Type correctness. *)

AccountTyped ==
    /\ day \in Day
    /\ requests \in [Day -> 0..Cap]
    /\ signIns \in [Day -> 0..SignInCap]
    /\ drawnOn \in [Proc -> Day \cup {0}]
    /\ sent \in [Day -> Nat]
    /\ misplaced \in [Day -> Nat]
    /\ allowance \in [Proc -> 0..Chunk]

SessionTyped ==
    /\ stored \in 1..given \cup {NoCookie}
    /\ given \in 0..MaxSignIns
    /\ usable \subseteq 1..given
    /\ honoured \subseteq 1..given
    /\ inUse \in [Proc -> 1..given \cup {NoCookie}]
    /\ cached \in [Proc -> 1..given \cup {NoCookie}]

FlowTyped ==
    /\ pc \in [Proc -> Stages]
    /\ refused \subseteq Proc
    /\ crashes \in 0..MaxCrashes
    /\ fails \in 0..MaxFails

\* A client that has a cookie to store or that was redirected to the login page
\* carries a cookie, in the second case one that FTL no longer honours; an
\* allowance that is not empty was drawn on some day.
Carries ==
    \A p \in Proc :
        /\ pc[p] = "put" => inUse[p] \in 1..given
        /\ pc[p] = "bounced" => inUse[p] \in 1..given \ honoured
        /\ allowance[p] > 0 => drawnOn[p] \in Day

LEMMA Typed == TypeOK <=> AccountTyped /\ SessionTyped /\ FlowTyped
  BY DEF TypeOK, AccountTyped, SessionTyped, FlowTyped

LEMMA AccountFrame ==
    ASSUME AccountTyped, UNCHANGED <<day, accountVars, allowance>>
    PROVE  AccountTyped'
  BY DEF AccountTyped, accountVars

LEMMA SessionFrame ==
    ASSUME SessionTyped, UNCHANGED <<sessionVars, ftlVars, inUse>>
    PROVE  SessionTyped'
  BY DEF SessionTyped, sessionVars, ftlVars

\* A draw fits under the cap.
LEMMA GrantedFits ==
    ASSUME AccountTyped
    PROVE  Granted \in 0..Chunk /\ requests[day] + Granted \in 0..Cap
<1>1. requests[day] \in 0..Cap
  BY DEF AccountTyped
<1> QED BY <1>1, ReadLedgerAssumption DEF Granted, Left

\* One request, from the allowance or from a new draw.
LEMMA SendTyped ==
    ASSUME AccountTyped, Carries, NEW p \in Proc, Send(p), UNCHANGED <<day, signIns, misplaced>>
    PROVE  AccountTyped'
<1>1. allowance[p] \in 0..Chunk /\ drawnOn[p] \in Day \cup {0}
  BY DEF AccountTyped
<1>2. CASE allowance[p] > 0
  <2>1. /\ allowance' = [allowance EXCEPT ![p] = @ - 1]
        /\ sent' = [sent EXCEPT ![drawnOn[p]] = @ + 1]
        /\ UNCHANGED <<requests, drawnOn>>
    BY <1>2 DEF Send
  <2>2. drawnOn[p] \in Day
    BY <1>2 DEF Carries
  <2>3. allowance[p] - 1 \in 0..Chunk /\ sent[drawnOn[p]] + 1 \in Nat
    BY <1>1, <1>2, <2>2, ReadLedgerAssumption DEF AccountTyped
  <2> QED BY <2>1, <2>2, <2>3 DEF AccountTyped
<1>3. CASE ~(allowance[p] > 0)
  <2>1. /\ Granted > 0
        /\ requests' = [requests EXCEPT ![day] = @ + Granted]
        /\ allowance' = [allowance EXCEPT ![p] = Granted - 1]
        /\ drawnOn' = [drawnOn EXCEPT ![p] = day]
        /\ sent' = [sent EXCEPT ![day] = @ + 1]
    BY <1>3 DEF Send
  <2>2. Granted - 1 \in 0..Chunk /\ requests[day] + Granted \in 0..Cap
    BY <2>1, GrantedFits, ReadLedgerAssumption
  <2>3. sent[day] + 1 \in Nat
    BY DEF AccountTyped
  <2> QED BY <2>1, <2>2, <2>3 DEF AccountTyped
<1> QED BY <1>2, <1>3

LEMMA TypeInit == Init => TypeOK /\ Carries
  BY ReadLedgerAssumption DEF Init, TypeOK, Carries, Stages, Day

LEMMA ChoiceTyped ==
    ASSUME SessionTyped, NEW p \in Proc
    PROVE  Choice(p) \in 1..given \cup {NoCookie}
  BY DEF Choice, SessionTyped

LEMMA TypeNext == TypeOK /\ Carries /\ [Next]_vars => TypeOK'
<1> SUFFICES ASSUME TypeOK, Carries, [Next]_vars PROVE TypeOK'
  OBVIOUS
<1> USE ReadLedgerAssumption
<1>0. AccountTyped /\ SessionTyped /\ FlowTyped
  BY Typed
<1> SUFFICES AccountTyped' /\ SessionTyped' /\ FlowTyped'
  BY DEF TypeOK, AccountTyped, SessionTyped, FlowTyped
<1>1. ASSUME NEW p \in Proc, Open(p) PROVE AccountTyped' /\ SessionTyped' /\ FlowTyped'
  <2>1. SessionTyped'
    BY <1>0, <1>1, ChoiceTyped DEF Open, SessionTyped, ftlVars
  <2> QED BY <1>0, <1>1, <2>1, AccountFrame DEF Open, Goto, FlowTyped, Stages, boundVars
<1>2. ASSUME NEW p \in Proc, OpenToSignIn(p) PROVE AccountTyped' /\ SessionTyped' /\ FlowTyped'
  BY <1>0, <1>2, AccountFrame, SessionFrame DEF OpenToSignIn, Goto, FlowTyped, Stages, boundVars
<1>3. ASSUME NEW p \in Proc, DrawToSignIn(p) PROVE AccountTyped' /\ SessionTyped' /\ FlowTyped'
  <2>1. AccountTyped'
    BY <1>0, <1>3, GrantedFits DEF DrawToSignIn, AccountTyped
  <2> QED BY <1>0, <1>3, <2>1, SessionFrame DEF DrawToSignIn, Goto, FlowTyped, Stages, boundVars
<1>4. ASSUME NEW p \in Proc, TakeSignIn(p) PROVE AccountTyped' /\ SessionTyped' /\ FlowTyped'
  <2>1. signIns' \in [Day -> 0..SignInCap]
    BY <1>0, <1>4 DEF TakeSignIn, AccountTyped
  <2>2. AccountTyped'
    BY <1>0, <1>4, <2>1 DEF TakeSignIn, AccountTyped
  <2> QED BY <1>0, <1>4, <2>2, SessionFrame DEF TakeSignIn, Goto, FlowTyped, Stages, boundVars
<1>5. ASSUME NEW p \in Proc, Spent(p) PROVE AccountTyped' /\ SessionTyped' /\ FlowTyped'
  BY <1>0, <1>5, AccountFrame, SessionFrame DEF Spent, Goto, FlowTyped, Stages, boundVars
<1>6. ASSUME NEW p \in Proc, GetLoginPage(p) PROVE AccountTyped' /\ SessionTyped' /\ FlowTyped'
  <2>1. AccountTyped'
    BY <1>0, <1>6, SendTyped DEF GetLoginPage
  <2> QED BY <1>0, <1>6, <2>1, SessionFrame DEF GetLoginPage, Goto, FlowTyped, Stages, boundVars
<1>7. ASSUME NEW p \in Proc, PostLogin(p) PROVE AccountTyped' /\ SessionTyped' /\ FlowTyped'
  <2>1. AccountTyped'
    BY <1>0, <1>7, SendTyped DEF PostLogin
  <2>2. CASE SignedIn(p)
    <3>1. given' \in 0..MaxSignIns /\ 1..given \subseteq 1..given' /\ given' \in 1..given'
      BY <1>0, <2>2 DEF SignedIn, SessionTyped
    <3>2. SessionTyped'
      BY <1>0, <1>7, <2>2, <3>1 DEF SignedIn, PostLogin, SessionTyped
    <3> QED BY <1>0, <1>7, <2>1, <2>2, <3>2 DEF PostLogin, SignedIn, Goto, FlowTyped, Stages, boundVars
  <2>3. CASE SignInRefused(p)
    BY <1>0, <1>7, <2>1, <2>3, SessionFrame
    DEF PostLogin, SignInRefused, Goto, FlowTyped, Stages, boundVars, sessionVars
  <2>4. CASE NoExpiry(p)
    <3>1. SessionTyped'
      BY <1>0, <1>7, <2>4 DEF PostLogin, NoExpiry, SessionTyped, ftlVars
    <3> QED BY <1>0, <1>7, <2>1, <2>4, <3>1 DEF PostLogin, NoExpiry, Goto, FlowTyped, Stages, boundVars
  <2>5. CASE SignInLost(p)
    BY <1>0, <1>7, <2>1, <2>5, SessionFrame
    DEF PostLogin, SignInLost, Goto, FlowTyped, Stages, boundVars, sessionVars
  <2> QED BY <1>7, <2>2, <2>3, <2>4, <2>5 DEF PostLogin
<1>8. ASSUME NEW p \in Proc, Put(p) PROVE AccountTyped' /\ SessionTyped' /\ FlowTyped'
  <2>1. SessionTyped'
    BY <1>0, <1>8 DEF Put, SessionTyped, ftlVars
  <2> QED BY <1>0, <1>8, <2>1, AccountFrame DEF Put, Goto, FlowTyped, Stages, boundVars
<1>9. ASSUME NEW p \in Proc, Read(p) PROVE AccountTyped' /\ SessionTyped' /\ FlowTyped'
  <2>1. AccountTyped'
    BY <1>0, <1>9, SendTyped DEF Read
  <2> QED BY <1>0, <1>9, <2>1, SessionFrame DEF Read, Goto, FlowTyped, Stages, boundVars
<1>10. ASSUME NEW p \in Proc, BounceUnnamed(p) PROVE AccountTyped' /\ SessionTyped' /\ FlowTyped'
  <2>1. AccountTyped'
    BY <1>0, <1>10, SendTyped DEF BounceUnnamed
  <2>2. SessionTyped'
    BY <1>0, <1>10 DEF BounceUnnamed, SessionTyped, ftlVars
  <2> QED BY <1>0, <1>10, <2>1, <2>2 DEF BounceUnnamed, Goto, FlowTyped, Stages, boundVars
<1>11. ASSUME NEW p \in Proc, Drop(p) PROVE AccountTyped' /\ SessionTyped' /\ FlowTyped'
  <2>1. SessionTyped'
    BY <1>0, <1>11 DEF Drop, Without, SessionTyped, ftlVars
  <2> QED BY <1>0, <1>11, <2>1, AccountFrame DEF Drop, Goto, FlowTyped, Stages, boundVars
<1>12. ASSUME NEW p \in Proc, StoreFails(p) PROVE AccountTyped' /\ SessionTyped' /\ FlowTyped'
  <2>1. stored' \in 1..given \cup {NoCookie}
    BY <1>0, <1>12 DEF StoreFails, Without, SessionTyped
  <2>2. SessionTyped'
    BY <1>0, <1>12, <2>1 DEF StoreFails, SessionTyped, ftlVars
  <2> QED BY <1>0, <1>12, <2>2, AccountFrame DEF StoreFails, Goto, FlowTyped, Stages
<1>13. ASSUME NEW p \in Proc, Close(p) PROVE AccountTyped' /\ SessionTyped' /\ FlowTyped'
  <2>1. GiveBack(day, allowance[p]) \in 0..Cap
    BY <1>0 DEF GiveBack, AccountTyped
  <2>2. misplaced' \in [Day -> Nat]
    BY <1>0, <1>13 DEF Close, AccountTyped
  <2>3. AccountTyped'
    BY <1>0, <1>13, <2>1, <2>2 DEF Close, AccountTyped
  <2>4. SessionTyped'
    BY <1>0, <1>13 DEF Close, SessionTyped, ftlVars, sessionVars
  <2> QED BY <1>0, <1>13, <2>3, <2>4 DEF Close, Goto, FlowTyped, Stages, boundVars
<1>14. ASSUME NEW p \in Proc, Crash(p) PROVE AccountTyped' /\ SessionTyped' /\ FlowTyped'
  <2>1. AccountTyped'
    BY <1>0, <1>14 DEF Crash, AccountTyped
  <2>2. SessionTyped'
    BY <1>0, <1>14 DEF Crash, SessionTyped, ftlVars
  <2> QED BY <1>0, <1>14, <2>1, <2>2 DEF Crash, Goto, FlowTyped, Stages
<1>15. CASE Midnight
  <2>1. day + 1 \in Day
    BY <1>0, <1>15 DEF Midnight, AccountTyped, Day
  <2>2. AccountTyped'
    BY <1>0, <1>15, <2>1 DEF Midnight, AccountTyped, accountVars
  <2> QED BY <1>0, <1>15, <2>2, SessionFrame DEF Midnight, FlowTyped, boundVars
<1>16. ASSUME NEW c \in Cookie, NearExpiry(c) \/ SessionEnds(c)
       PROVE  AccountTyped' /\ SessionTyped' /\ FlowTyped'
  <2>1. SessionTyped'
    BY <1>0, <1>16 DEF NearExpiry, SessionEnds, SessionTyped, sessionVars
  <2> QED BY <1>0, <1>16, <2>1, AccountFrame DEF NearExpiry, SessionEnds, FlowTyped, boundVars
<1>17. CASE UNCHANGED vars
  BY <1>0, <1>17, AccountFrame, SessionFrame DEF vars, FlowTyped, boundVars, sessionVars, ftlVars
<1> QED BY <1>1, <1>2, <1>3, <1>4, <1>5, <1>6, <1>7, <1>8, <1>9, <1>10, <1>11, <1>12, <1>13,
           <1>14, <1>15, <1>16, <1>17 DEF Next, Client

-----------------------------------------------------------------------------
(* What clients carry. *)

\* Sending leaves the client's other columns alone and keeps its allowance dated.
LEMMA SendDated ==
    ASSUME AccountTyped, Carries, NEW p \in Proc, Send(p)
    PROVE  \A q \in Proc : allowance'[q] > 0 => drawnOn'[q] \in Day
<1>1. allowance[p] \in 0..Chunk
  BY DEF AccountTyped
<1>2. CASE allowance[p] > 0
  BY <1>2 DEF Send, Carries, AccountTyped
<1>3. CASE ~(allowance[p] > 0)
  BY <1>3 DEF Send, Carries, AccountTyped
<1> QED BY <1>2, <1>3

LEMMA CarriesNext == TypeOK /\ Carries /\ [Next]_vars => Carries'
<1> SUFFICES ASSUME TypeOK, Carries, [Next]_vars PROVE Carries'
  OBVIOUS
<1>0. AccountTyped /\ SessionTyped /\ FlowTyped
  BY Typed
<1> DEFINE Cookies(q) == /\ pc'[q] = "put" => inUse'[q] \in 1..given'
                         /\ pc'[q] = "bounced" => inUse'[q] \in 1..given' \ honoured'
           Dated(q) == allowance'[q] > 0 => drawnOn'[q] \in Day
<1> SUFFICES ASSUME NEW q \in Proc PROVE Cookies(q) /\ Dated(q)
  BY DEF Carries
<1>a. /\ pc[q] = "put" => inUse[q] \in 1..given
      /\ pc[q] = "bounced" => inUse[q] \in 1..given \ honoured
      /\ allowance[q] > 0 => drawnOn[q] \in Day
  BY DEF Carries
<1>b. ASSUME UNCHANGED <<allowance, drawnOn>> PROVE Dated(q)
  BY <1>a, <1>b
<1>c. ASSUME NEW p \in Proc, NEW s, s \notin {"put", "bounced"}, Goto(p, s), UNCHANGED <<ftlVars, inUse>>
      PROVE  Cookies(q)
  BY <1>a, <1>c, <1>0 DEF Goto, ftlVars, FlowTyped
<1>1. ASSUME NEW p \in Proc, Open(p) PROVE Cookies(q) /\ Dated(q)
  <2>1. pc'[q] \in {"put", "bounced"} => q # p
    BY <1>0, <1>1 DEF Open, Goto, FlowTyped
  <2>2. Cookies(q)
    BY <1>0, <1>1, <1>a, <2>1 DEF Open, Goto, ftlVars, FlowTyped, SessionTyped
  <2> QED BY <1>1, <1>b, <2>2 DEF Open, accountVars
<1>2. ASSUME NEW p \in Proc, OpenToSignIn(p) PROVE Cookies(q) /\ Dated(q)
  BY <1>2, <1>b, <1>c DEF OpenToSignIn, accountVars
<1>3. ASSUME NEW p \in Proc, DrawToSignIn(p) PROVE Cookies(q) /\ Dated(q)
  <2>1. Dated(q)
    BY <1>0, <1>3, <1>a DEF DrawToSignIn, AccountTyped
  <2>2. Cookies(q)
    BY <1>3, <1>c DEF DrawToSignIn
  <2> QED BY <2>1, <2>2
<1>4. ASSUME NEW p \in Proc, TakeSignIn(p) PROVE Cookies(q) /\ Dated(q)
  BY <1>4, <1>b, <1>c DEF TakeSignIn
<1>5. ASSUME NEW p \in Proc, Spent(p) PROVE Cookies(q) /\ Dated(q)
  BY <1>5, <1>b, <1>c DEF Spent, accountVars
<1>6. ASSUME NEW p \in Proc, GetLoginPage(p) PROVE Cookies(q) /\ Dated(q)
  BY <1>0, <1>6, <1>c, SendDated DEF GetLoginPage
<1>7. ASSUME NEW p \in Proc, PostLogin(p) PROVE Cookies(q) /\ Dated(q)
  <2>1. Dated(q)
    BY <1>0, <1>7, SendDated DEF PostLogin
  <2>2. CASE SignedIn(p)
    <3>1. given + 1 \in 1..given' /\ 1..given \subseteq 1..given' /\ given + 1 \notin 1..given
      BY <1>0, <2>2 DEF SignedIn, SessionTyped
    <3>2. CASE q = p
      BY <1>0, <2>1, <2>2, <3>1, <3>2 DEF SignedIn, Goto, FlowTyped, SessionTyped
    <3>3. CASE q # p
      <4>1. pc'[q] = pc[q] /\ inUse'[q] = inUse[q]
        BY <1>0, <2>2, <3>3 DEF SignedIn, Goto, FlowTyped, SessionTyped
      <4>2. honoured' = honoured \cup {given + 1}
        BY <2>2 DEF SignedIn
      <4> QED BY <1>a, <2>1, <3>1, <4>1, <4>2
    <3> QED BY <2>1, <3>2, <3>3
  <2>3. CASE SignInRefused(p)
    BY <2>1, <2>3, <1>c DEF SignInRefused
  <2>4. CASE NoExpiry(p)
    BY <2>1, <2>4, <1>c DEF NoExpiry
  <2>5. CASE SignInLost(p)
    BY <2>1, <2>5, <1>c DEF SignInLost
  <2> QED BY <1>7, <2>2, <2>3, <2>4, <2>5 DEF PostLogin
<1>8. ASSUME NEW p \in Proc, Put(p) PROVE Cookies(q) /\ Dated(q)
  BY <1>8, <1>b, <1>c DEF Put, accountVars
<1>9. ASSUME NEW p \in Proc, Read(p) PROVE Cookies(q) /\ Dated(q)
  <2>1. Dated(q)
    BY <1>0, <1>9, SendDated DEF Read
  <2>2. CASE inUse[p] \in honoured \cup {NoCookie}
    <3>1. pc' = pc /\ inUse' = inUse /\ given' = given /\ honoured' = honoured
      BY <1>9, <2>2 DEF Read, ftlVars
    <3> QED BY <1>a, <2>1, <3>1
  <2>3. CASE inUse[p] \notin honoured \cup {NoCookie}
    <3>1. inUse[p] \in 1..given \ honoured
      BY <1>0, <2>3 DEF SessionTyped
    <3>2. pc'[q] = (IF q = p THEN "bounced" ELSE pc[q])
      BY <1>0, <1>9, <2>3 DEF Read, Goto, FlowTyped
    <3>3. inUse' = inUse /\ given' = given /\ honoured' = honoured
      BY <1>9 DEF Read, ftlVars
    <3> QED BY <1>a, <2>1, <3>1, <3>2, <3>3
  <2> QED BY <2>2, <2>3
<1>10. ASSUME NEW p \in Proc, BounceUnnamed(p) PROVE Cookies(q) /\ Dated(q)
  BY <1>0, <1>10, <1>c, SendDated DEF BounceUnnamed
<1>11. ASSUME NEW p \in Proc, Drop(p) PROVE Cookies(q) /\ Dated(q)
  BY <1>11, <1>b, <1>c DEF Drop, accountVars
<1>12. ASSUME NEW p \in Proc, StoreFails(p) PROVE Cookies(q) /\ Dated(q)
  BY <1>12, <1>b, <1>c DEF StoreFails, accountVars
<1>13. ASSUME NEW p \in Proc, Close(p) PROVE Cookies(q) /\ Dated(q)
  <2>1. pc'[q] \in {"put", "bounced"} => q # p
    BY <1>0, <1>13 DEF Close, Goto, FlowTyped
  <2>2. Cookies(q)
    BY <1>0, <1>13, <1>a, <2>1 DEF Close, Goto, ftlVars, FlowTyped, SessionTyped
  <2>3. Dated(q)
    BY <1>0, <1>13, <1>a DEF Close, AccountTyped
  <2> QED BY <2>2, <2>3
<1>14. ASSUME NEW p \in Proc, Crash(p) PROVE Cookies(q) /\ Dated(q)
  <2>1. pc'[q] \in {"put", "bounced"} => q # p
    BY <1>0, <1>14 DEF Crash, Goto, FlowTyped
  <2>2. Cookies(q)
    BY <1>0, <1>14, <1>a, <2>1 DEF Crash, Goto, ftlVars, FlowTyped, SessionTyped
  <2>3. Dated(q)
    BY <1>0, <1>14, <1>a DEF Crash, AccountTyped
  <2> QED BY <2>2, <2>3
<1>15. CASE Midnight
  BY <1>15, <1>a, <1>b DEF Midnight, accountVars, ftlVars
<1>16. ASSUME NEW c \in Cookie, NearExpiry(c) \/ SessionEnds(c) PROVE Cookies(q) /\ Dated(q)
  BY <1>16, <1>a, <1>b DEF NearExpiry, SessionEnds, accountVars
<1>17. CASE UNCHANGED vars
  BY <1>17, <1>a, <1>b DEF vars, accountVars, ftlVars
<1> QED BY <1>1, <1>2, <1>3, <1>4, <1>5, <1>6, <1>7, <1>8, <1>9, <1>10, <1>11, <1>12, <1>13,
           <1>14, <1>15, <1>16, <1>17 DEF Next, Client

\* Type correctness: whatever is drawn, given back, signed in or dropped by
\* whichever processes, no column leaves its domain and no day's row its caps.
THEOREM LedgerTypeCorrect == Spec => []TypeOK
<1>1. Init => TypeOK /\ Carries
  BY TypeInit
<1>2. TypeOK /\ Carries /\ [Next]_vars => TypeOK' /\ Carries'
  BY TypeNext, CarriesNext
<1> QED BY <1>1, <1>2, PTL DEF Spec

LEMMA CarriesAlways == Spec => [](TypeOK /\ Carries)
  BY TypeInit, TypeNext, CarriesNext, PTL DEF Spec

-----------------------------------------------------------------------------
(* What is held of a day's row: a finite set whose size is, client by client, *)
(* the allowance drawn on that day.                                           *)

HeldOf(f, g, d) == {h \in Proc \X (1..Chunk) : g[h[1]] = d /\ h[2] <= f[h[1]]}
HeldByOthers(p, f, g, d) == {h \in HeldOf(f, g, d) : h[1] # p}

LEMMA HeldIsHeldOf ==
    \A d : Held(d) = HeldOf(allowance, drawnOn, d) /\ Held(d)' = HeldOf(allowance', drawnOn', d)
  BY DEF Held, HeldOf

\* The set splits into what one client holds and what the others do.
LEMMA HeldSplits ==
    ASSUME NEW f \in [Proc -> 0..Chunk], NEW g, NEW d, NEW p \in Proc
    PROVE  /\ Cardinality(HeldByOthers(p, f, g, d)) \in Nat
           /\ Cardinality(HeldOf(f, g, d)) =
                Cardinality(HeldByOthers(p, f, g, d)) + (IF g[p] = d THEN f[p] ELSE 0)
<1> USE ReadLedgerAssumption
<1> DEFINE Own == {p} \X (1..f[p])
           All == HeldOf(f, g, d)
           Others == HeldByOthers(p, f, g, d)
<1>1. IsFiniteSet(Proc \X (1..Chunk))
  <2>1. IsFiniteSet(1..Chunk)
    BY FS_Interval
  <2>2. IsFiniteSet(Proc)
    OBVIOUS
  <2> QED BY <2>1, <2>2, FS_Product
<1>2. IsFiniteSet(All) /\ IsFiniteSet(Others)
  <2>1. All \in SUBSET (Proc \X (1..Chunk)) /\ Others \in SUBSET (Proc \X (1..Chunk))
    BY DEF HeldOf, HeldByOthers
  <2> QED BY <1>1, <2>1, FS_Subset
<1>3. Cardinality(Others) \in Nat
  BY <1>2, FS_CardinalityType
<1>4. CASE g[p] = d
  <2>1. f[p] \in Nat /\ f[p] <= Chunk
    OBVIOUS
  <2>2. IsFiniteSet(1..f[p]) /\ Cardinality(1..f[p]) = f[p]
    BY <2>1, FS_Interval
  <2>3. IsFiniteSet({p}) /\ Cardinality({p}) = 1
    BY FS_Singleton
  <2>4. IsFiniteSet(Own) /\ Cardinality(Own) = f[p]
    <3>1. IsFiniteSet(Own) /\ Cardinality(Own) = Cardinality({p}) * Cardinality(1..f[p])
      BY <2>2, <2>3, FS_Product
    <3>2. 1 * f[p] = f[p]
      BY <2>1
    <3> QED BY <2>2, <2>3, <3>1, <3>2
  <2>5. All = Others \cup Own
    BY <1>4, <2>1 DEF HeldOf, HeldByOthers
  <2>6. Others \cap Own = {}
    BY DEF HeldByOthers
  <2>7. Cardinality(Others \cap Own) = 0
    BY <2>6, FS_EmptySet
  <2>8. Cardinality(All) = Cardinality(Others) + Cardinality(Own) - Cardinality(Others \cap Own)
    BY <1>2, <2>4, <2>5, FS_Union
  <2>9. Cardinality(All) = Cardinality(Others) + f[p]
    BY <1>3, <2>1, <2>4, <2>7, <2>8
  <2> QED BY <1>3, <1>4, <2>9
<1>5. CASE g[p] # d
  <2>1. All = Others
    BY <1>5 DEF HeldOf, HeldByOthers
  <2> QED BY <1>3, <1>5, <2>1
<1> QED BY <1>4, <1>5

\* Changing one client's allowance and its day leaves what the others hold.
LEMMA OthersKeep ==
    ASSUME NEW f, NEW g, NEW f2, NEW g2, NEW p \in Proc, NEW d,
           \A q \in Proc : q # p => f2[q] = f[q] /\ g2[q] = g[q]
    PROVE  HeldByOthers(p, f2, g2, d) = HeldByOthers(p, f, g, d)
<1>1. \A h \in Proc \X (1..Chunk) : h[1] \in Proc
  OBVIOUS
<1> QED BY <1>1 DEF HeldByOthers, HeldOf

\* AllCounted for one day, and for the changed columns of one client.
Counted(d) == sent[d] + Cardinality(HeldOf(allowance, drawnOn, d)) <= requests[d] + misplaced[d]

LEMMA CountedDays == (AllCounted <=> \A d \in Day : Counted(d)) /\ (AllCounted' <=> \A d \in Day : Counted(d)')
<1>1. \A d : Held(d) = HeldOf(allowance, drawnOn, d)
  BY DEF Held, HeldOf
<1>2. \A d : Held(d)' = HeldOf(allowance, drawnOn, d)'
  BY DEF Held, HeldOf
<1> QED BY <1>1, <1>2 DEF AllCounted, Counted

LEMMA OneClient ==
    ASSUME AccountTyped, AccountTyped', NEW p \in Proc, NEW d,
           \A q \in Proc : q # p => allowance'[q] = allowance[q] /\ drawnOn'[q] = drawnOn[q]
    PROVE  \E others \in Nat :
             /\ Cardinality(HeldOf(allowance, drawnOn, d)) =
                  others + (IF drawnOn[p] = d THEN allowance[p] ELSE 0)
             /\ Cardinality(HeldOf(allowance, drawnOn, d))' =
                  others + (IF drawnOn'[p] = d THEN allowance'[p] ELSE 0)
<1>1. allowance \in [Proc -> 0..Chunk] /\ allowance' \in [Proc -> 0..Chunk]
  BY DEF AccountTyped
<1>2. HeldByOthers(p, allowance', drawnOn', d) = HeldByOthers(p, allowance, drawnOn, d)
  BY OthersKeep
<1>3. Cardinality(HeldOf(allowance, drawnOn, d))' = Cardinality(HeldOf(allowance', drawnOn', d))
  BY DEF HeldOf
<1>4. /\ Cardinality(HeldByOthers(p, allowance, drawnOn, d)) \in Nat
      /\ Cardinality(HeldOf(allowance, drawnOn, d)) =
           Cardinality(HeldByOthers(p, allowance, drawnOn, d)) + (IF drawnOn[p] = d THEN allowance[p] ELSE 0)
  BY <1>1, HeldSplits
<1>5. Cardinality(HeldOf(allowance', drawnOn', d)) =
        Cardinality(HeldByOthers(p, allowance', drawnOn', d)) + (IF drawnOn'[p] = d THEN allowance'[p] ELSE 0)
  BY <1>1, HeldSplits
<1> QED BY <1>2, <1>3, <1>4, <1>5

\* Where the rows and the clients' allowances stay as they are.
LEMMA CountedFrame ==
    ASSUME AllCounted, UNCHANGED <<allowance, requests, drawnOn, sent, misplaced>>
    PROVE  AllCounted'
  BY DEF AllCounted, Held

LEMMA SendCounts ==
    ASSUME AccountTyped, AccountTyped', Carries, AllCounted, NEW p \in Proc, Send(p), UNCHANGED misplaced
    PROVE  AllCounted'
<1> USE ReadLedgerAssumption
<1> SUFFICES ASSUME NEW d \in Day PROVE Counted(d)'
  BY CountedDays
<1>1. Counted(d)
  BY CountedDays
<1>2. /\ allowance[p] \in 0..Chunk /\ sent[d] \in Nat /\ requests[d] \in Nat /\ misplaced[d] \in Nat
      /\ day \in Day /\ drawnOn \in [Proc -> Day \cup {0}] /\ allowance \in [Proc -> 0..Chunk]
      /\ sent \in [Day -> Nat] /\ requests \in [Day -> 0..Cap]
  BY DEF AccountTyped
<1>3. \A q \in Proc : q # p => allowance'[q] = allowance[q] /\ drawnOn'[q] = drawnOn[q]
  BY <1>2 DEF Send
<1>4. PICK others \in Nat :
        /\ Cardinality(HeldOf(allowance, drawnOn, d)) = others + (IF drawnOn[p] = d THEN allowance[p] ELSE 0)
        /\ Cardinality(HeldOf(allowance, drawnOn, d))' = others + (IF drawnOn'[p] = d THEN allowance'[p] ELSE 0)
  BY <1>3, OneClient
<1>5. CASE allowance[p] > 0
  <2>1. drawnOn[p] \in Day /\ drawnOn' = drawnOn /\ requests' = requests /\ allowance'[p] = allowance[p] - 1
    BY <1>2, <1>5 DEF Send, Carries
  <2>2. sent'[d] = sent[d] + (IF drawnOn[p] = d THEN 1 ELSE 0)
    BY <1>2, <1>5, <2>1 DEF Send
  <2> QED BY <1>1, <1>2, <1>4, <1>5, <2>1, <2>2 DEF Counted
<1>6. CASE ~(allowance[p] > 0)
  <2>1. allowance[p] = 0 /\ drawnOn'[p] = day /\ allowance'[p] = Granted - 1 /\ Granted > 0
    BY <1>2, <1>6 DEF Send
  <2>2. Granted \in Nat
    BY GrantedFits
  <2>3. sent'[d] = sent[d] + (IF day = d THEN 1 ELSE 0)
    BY <1>2, <1>6 DEF Send
  <2>4. requests'[d] = requests[d] + (IF day = d THEN Granted ELSE 0)
    BY <1>2, <1>6, <2>2 DEF Send
  <2> QED BY <1>1, <1>2, <1>4, <2>1, <2>2, <2>3, <2>4 DEF Counted
<1> QED BY <1>5, <1>6

LEMMA AllCountedNext == TypeOK /\ Carries /\ AllCounted /\ [Next]_vars => AllCounted'
<1> SUFFICES ASSUME TypeOK, Carries, AllCounted, [Next]_vars PROVE AllCounted'
  OBVIOUS
<1> USE ReadLedgerAssumption
<1>0. AccountTyped /\ AccountTyped'
  <2>1. TypeOK'
    BY TypeNext
  <2> QED BY <2>1 DEF TypeOK, AccountTyped
<1>1. ASSUME NEW p \in Proc, DrawToSignIn(p) PROVE AllCounted'
  <2> SUFFICES ASSUME NEW d \in Day PROVE Counted(d)'
    BY CountedDays
  <2>1. Counted(d)
    BY CountedDays
  <2>2. allowance[p] \in Nat /\ sent[d] \in Nat /\ requests[d] \in Nat /\ misplaced[d] \in Nat /\ day \in Day
    BY <1>0 DEF AccountTyped
  <2>3. Granted \in 0..Chunk
    BY <1>0, GrantedFits
  <2>4. PICK others \in Nat :
          /\ Cardinality(HeldOf(allowance, drawnOn, d)) =
               others + (IF drawnOn[p] = d THEN allowance[p] ELSE 0)
          /\ Cardinality(HeldOf(allowance, drawnOn, d))' = others + (IF day = d THEN Granted ELSE 0)
    <3>1. \A q \in Proc : q # p => allowance'[q] = allowance[q] /\ drawnOn'[q] = drawnOn[q]
      BY <1>0, <1>1 DEF DrawToSignIn, AccountTyped
    <3>2. allowance'[p] = Granted /\ drawnOn'[p] = day
      BY <1>0, <1>1 DEF DrawToSignIn, AccountTyped
    <3> QED BY <1>0, <3>1, <3>2, OneClient
  <2>5. requests'[d] = requests[d] + (IF day = d THEN Granted ELSE 0)
    BY <1>0, <1>1, <2>2, <2>3 DEF DrawToSignIn, AccountTyped
  <2>6. sent' = sent /\ misplaced' = misplaced
    BY <1>1 DEF DrawToSignIn
  <2> QED BY <2>1, <2>2, <2>3, <2>4, <2>5, <2>6 DEF Counted
<1>2. ASSUME NEW p \in Proc, Close(p) PROVE AllCounted'
  <2> SUFFICES ASSUME NEW d \in Day PROVE Counted(d)'
    BY CountedDays
  <2>1. Counted(d)
    BY CountedDays
  <2>2. /\ allowance[p] \in Nat /\ sent[d] \in Nat /\ requests[d] \in Nat /\ misplaced[d] \in Nat
        /\ day \in Day /\ requests[day] \in Nat
    BY <1>0 DEF AccountTyped
  <2>3. PICK others \in Nat :
          /\ Cardinality(HeldOf(allowance, drawnOn, d)) =
               others + (IF drawnOn[p] = d THEN allowance[p] ELSE 0)
          /\ Cardinality(HeldOf(allowance, drawnOn, d))' = others
    <3>1. \A q \in Proc : q # p => allowance'[q] = allowance[q] /\ drawnOn'[q] = drawnOn[q]
      BY <1>0, <1>2 DEF Close, AccountTyped
    <3>2. allowance'[p] = 0
      BY <1>0, <1>2 DEF Close, AccountTyped
    <3> QED BY <1>0, <3>1, <3>2, OneClient
  <2>4. requests'[d] = IF d = day THEN GiveBack(day, allowance[p]) ELSE requests[d]
    BY <1>0, <1>2, <2>2 DEF Close, AccountTyped
  <2>5. misplaced'[d] = misplaced[d] + (IF d = day /\ drawnOn[p] # day THEN allowance[p] ELSE 0)
    BY <1>0, <1>2, <2>2 DEF Close, AccountTyped
  <2>6. sent' = sent
    BY <1>2 DEF Close
  <2>7. d = day => GiveBack(day, allowance[p]) \in Nat /\ GiveBack(day, allowance[p]) + allowance[p] >= requests[d]
    BY <2>2 DEF GiveBack
  <2> QED BY <2>1, <2>2, <2>3, <2>4, <2>5, <2>6, <2>7 DEF Counted
<1>3. ASSUME NEW p \in Proc, Crash(p) PROVE AllCounted'
  <2> SUFFICES ASSUME NEW d \in Day PROVE Counted(d)'
    BY CountedDays
  <2>1. Counted(d)
    BY CountedDays
  <2>2. allowance[p] \in Nat /\ sent[d] \in Nat /\ requests[d] \in Nat /\ misplaced[d] \in Nat
    BY <1>0 DEF AccountTyped
  <2>3. PICK others \in Nat :
          /\ Cardinality(HeldOf(allowance, drawnOn, d)) =
               others + (IF drawnOn[p] = d THEN allowance[p] ELSE 0)
          /\ Cardinality(HeldOf(allowance, drawnOn, d))' = others
    <3>1. \A q \in Proc : q # p => allowance'[q] = allowance[q] /\ drawnOn'[q] = drawnOn[q]
      BY <1>0, <1>3 DEF Crash, AccountTyped
    <3>2. allowance'[p] = 0
      BY <1>0, <1>3 DEF Crash, AccountTyped
    <3> QED BY <1>0, <3>1, <3>2, OneClient
  <2>4. sent' = sent /\ misplaced' = misplaced /\ requests' = requests
    BY <1>3 DEF Crash
  <2> QED BY <2>1, <2>2, <2>3, <2>4 DEF Counted
<1>4. ASSUME NEW p \in Proc, GetLoginPage(p) \/ PostLogin(p) \/ Read(p) \/ BounceUnnamed(p) PROVE AllCounted'
  BY <1>0, <1>4, SendCounts DEF GetLoginPage, PostLogin, Read, BounceUnnamed
<1>5. ASSUME NEW p \in Proc,
             Open(p) \/ OpenToSignIn(p) \/ TakeSignIn(p) \/ Spent(p) \/ Put(p) \/ Drop(p) \/ StoreFails(p)
      PROVE  AllCounted'
  BY <1>5, CountedFrame DEF Open, OpenToSignIn, TakeSignIn, Spent, Put, Drop, StoreFails, accountVars
<1>6. CASE Midnight \/ \E c \in Cookie : NearExpiry(c) \/ SessionEnds(c)
  BY <1>6, CountedFrame DEF Midnight, NearExpiry, SessionEnds, accountVars
<1>7. CASE UNCHANGED vars
  BY <1>7, CountedFrame DEF vars, accountVars
<1> QED BY <1>1, <1>2, <1>3, <1>4, <1>5, <1>6, <1>7 DEF Next, Client

\* However many processes share the allowance: of each day's row no more is sent
\* or held than the row counts and clients of another day gave back to it.
THEOREM EveryRequestIsCounted == Spec => []AllCounted
<1>1. Init => AllCounted
  <2> SUFFICES ASSUME Init, NEW d \in Day PROVE Counted(d)
    BY CountedDays
  <2>1. HeldOf(allowance, drawnOn, d) = {}
    BY DEF Init, HeldOf
  <2>2. Cardinality(HeldOf(allowance, drawnOn, d)) = 0
    BY <2>1, FS_EmptySet
  <2> QED BY <2>2 DEF Init, Counted
<1> QED BY <1>1, AllCountedNext, CarriesAlways, PTL DEF Spec

-----------------------------------------------------------------------------
(* The stored session. *)

\* A session FTL still honours is never dropped from the store: whoever drops
\* one carries a cookie that FTL has ended, and deletes the row only if it is
\* that cookie's; a sign-in stores a cookie.
THEOREM HonouredIsNeverDropped == Spec => HonouredStays
<1>1. TypeOK /\ Carries /\ [Next]_vars => [(stored \in honoured) => stored' # NoCookie]_vars
  <2> SUFFICES ASSUME TypeOK, Carries, Next, stored \in honoured PROVE stored' # NoCookie
    OBVIOUS
  <2>0. AccountTyped /\ SessionTyped /\ FlowTyped
    BY Typed
  <2>1. stored \in 1..given /\ 1..given \subseteq Nat
    BY <2>0 DEF SessionTyped
  <2>2. stored # NoCookie
    BY <2>1, ReadLedgerAssumption
  <2>3. ASSUME NEW p \in Proc, Client(p) PROVE stored' # NoCookie
    <3>1. CASE Put(p) \/ (StoreFails(p) /\ pc[p] = "put" /\ stored' = inUse[p])
      <4>1. inUse[p] \in 1..given
        BY <3>1 DEF Put, StoreFails, Carries
      <4> QED BY <3>1, <4>1, <2>1, ReadLedgerAssumption DEF Put
    <3>2. CASE Drop(p) \/ (StoreFails(p) /\ pc[p] = "bounced" /\ stored' = Without(stored, inUse[p]))
      <4>1. inUse[p] \notin honoured
        BY <3>2 DEF Drop, StoreFails, Carries
      <4> QED BY <3>2, <4>1, <2>2 DEF Drop, Without
    <3>3. CASE UNCHANGED stored
      BY <3>3, <2>2
    <3> QED BY <2>3, <3>1, <3>2, <3>3
            DEF Client, Open, OpenToSignIn, DrawToSignIn, TakeSignIn, Spent, GetLoginPage, PostLogin,
                Read, BounceUnnamed, StoreFails, Close, Crash, sessionVars
  <2>4. CASE Midnight
    BY <2>2, <2>4 DEF Midnight, sessionVars
  <2>5. ASSUME NEW c \in Cookie, NearExpiry(c) \/ SessionEnds(c) PROVE stored' # NoCookie
    BY <2>2, <2>5 DEF NearExpiry, SessionEnds, sessionVars
  <2> QED BY <2>3, <2>4, <2>5 DEF Next
<1> QED BY <1>1, CarriesAlways, PTL DEF Spec, HonouredStays

=============================================================================
