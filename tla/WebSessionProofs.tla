-------------------------- MODULE WebSessionProofs --------------------------
(***************************************************************************)
(* For any number of tabs, accounts, logins and sessions, and any times:   *)
(* writes match their page, and nobody is refused or turned away without a *)
(* cause.                                                                  *)
(***************************************************************************)
EXTENDS WebSession, TLAPS

OnSite == {"page", "sent", "checked", "acting", "refused"}

\* A row of the table was inserted and ends when it was meant to; a session
\* without a row has ended.
RowsTrue ==
    \A n \in Sids :
        /\ sessions[n] # None => n <= made /\ sessions[n].expires = ends[n]
        /\ n <= made => ends[n] <= now + TTL
        /\ n <= made /\ sessions[n] = None => ends[n] <= now

\* The cookie is kept until its session ends.
CookieKept ==
    /\ jar.sid <= made
    /\ jar.sid # 0 => ends[jar.sid] <= jar.sidTill

\* A page is of a session that was in the jar: of its account, and not
\* longer lived than the cookie that is there now.
PageTrue(t) ==
    /\ tab[t].csrf # 0 /\ tab[t].csrf <= made
    /\ jar.sid # 0
    /\ ends[tab[t].csrf] <= jar.sidTill
    /\ sessions[tab[t].csrf] # None => sessions[tab[t].csrf].user = tab[t].who

\* A write is sent without a cookie only after the end of its page's session,
\* and passes checkCSRF only with the cookie of its page.
TabTrue(t) ==
    /\ tab[t].at = "answer" => tab[t].sid # 0 /\ tab[t].sid <= made
    /\ tab[t].at \in OnSite => PageTrue(t)
    /\ tab[t].at = "sent" /\ tab[t].sid = 0 => ends[tab[t].csrf] <= now
    /\ tab[t].at = "checked" => tab[t].sid = tab[t].csrf
    /\ tab[t].at = "acting" => tab[t].acting = tab[t].who
    /\ tab[t].at = "refused" =>
        \/ ends[tab[t].csrf] <= now
        \/ tab[t].sid # 0 /\ tab[t].sid # tab[t].csrf

\* A login that nobody disturbed has its state in the cookie.
LoginTrue(t) ==
    /\ tab[t].at = "google" =>
        /\ tab[t].state # 0
        /\ t \in meddled \/ (jar.state = tab[t].state /\ jar.stateTill = tab[t].since + StateTTL)
    /\ tab[t].at = "badstate" => now >= tab[t].since + StateTTL \/ t \in meddled

\* Whoever comes back from Google has picked an account.
Picked == \A t \in Tabs : tab[t].at = "exchange" => tab[t].who \in People

TInv == TypeOK /\ Picked
SInv == TInv /\ RowsTrue /\ CookieKept /\ \A t \in Tabs : TabTrue(t)
LInv == TInv /\ \A t \in Tabs : LoginTrue(t)

\* TimesAssumption, one by one.
LEMMA Times ==
    /\ TTL \in Nat /\ StateTTL \in Nat
    /\ MaxSessions \in Nat /\ MaxStates \in Nat /\ MaxTime \in Nat
    /\ None \notin Session /\ None \notin People
  BY TimesAssumption
USE Times

-----------------------------------------------------------------------------
(***************************************************************************)
(* The initial state, and what a session and the cookie are.               *)
(***************************************************************************)
LEMMA TypeInit == Init => TInv
  BY DEF Init, TInv, TypeOK, Picked, Sids, Tab, Places, Blank

\* A session that is alive has a row with a user.
LEMMA AliveHasUser ==
    ASSUME TypeOK, NEW n, Alive(n)
    PROVE  n \in Sids /\ n # 0 /\ sessions[n] \in Session /\ UserOf(n) \in People
  BY DEF TypeOK, Alive, UserOf, Session, Sids

LEMMA CookieTyped == TypeOK => SidCookie \in 0 .. MaxSessions
  BY DEF TypeOK, SidCookie

(***************************************************************************)
(* What each step does to the tab that takes it.                           *)
(***************************************************************************)
Moved(t, at) ==
    /\ tab' \in [Tabs -> Tab]
    /\ tab'[t].at = at
    /\ \A u \in Tabs : u # t => tab'[u] = tab[u]

\* A tab with a new record in its place has moved.
LEMMA MoveTab ==
    ASSUME TypeOK, NEW t \in Tabs, NEW r \in Tab, tab' = [tab EXCEPT ![t] = r]
    PROVE  Moved(t, r.at) /\ tab'[t] = r
  BY DEF TypeOK, Moved

LEMMA BlankTab == Blank \in Tab /\ Blank.at = "blank"
<1>1. 0 \in 0 .. MaxStates /\ 0 \in 0 .. MaxTime /\ 0 \in 0 .. MaxSessions
  OBVIOUS
<1> QED
  BY <1>1 DEF Blank, Tab, Places

LEMMA PlacesNamed ==
    {"google", "exchange", "answer", "page", "sent", "checked", "acting", "refused", "badstate"}
        \subseteq Places
  BY DEF Places

LEMMA LoginMoves ==
    ASSUME TypeOK, NEW t \in Tabs, GoToLogin(t)
    PROVE  /\ Moved(t, "google") /\ tab'[t].state = states + 1 /\ tab'[t].since = now
           /\ states + 1 \in 1 .. MaxStates
<1> DEFINE n == states + 1
           r == [Blank EXCEPT !.at = "google", !.state = n, !.since = now]
<1>1. n \in 1 .. MaxStates /\ n \in 0 .. MaxStates /\ now \in 0 .. MaxTime
  BY DEF GoToLogin, TypeOK
<1>2. tab' = [tab EXCEPT ![t] = r]
  BY DEF GoToLogin
<1> HIDE DEF n
<1>3. r \in Tab
  BY <1>1, BlankTab, PlacesNamed, Zenon DEF Tab
<1>4. r.at = "google" /\ r.state = n /\ r.since = now
  BY Zenon DEF Blank
<1> HIDE DEF r
<1> QED
  BY <1>1, <1>2, <1>3, <1>4, MoveTab DEF n

LEMMA CallbackMoves ==
    ASSUME TypeOK, NEW t \in Tabs, NEW u \in People, Callback(t, u)
    PROVE  /\ tab'[t].since = tab[t].since
           /\ \/ StateOk(t) /\ Moved(t, "exchange") /\ tab'[t].who = u
              \/ ~StateOk(t) /\ Moved(t, "badstate")
<1> DEFINE a == [tab[t] EXCEPT !.at = "exchange", !.who = u]
           b == [tab[t] EXCEPT !.at = "badstate"]
<1>1. tab[t] \in Tab
  BY DEF TypeOK
<1>2. tab' = [tab EXCEPT ![t] = IF StateOk(t) THEN a ELSE b]
  BY DEF Callback
<1>3. a \in Tab /\ b \in Tab
  BY <1>1, PlacesNamed, Zenon DEF Tab
<1>4. a.at = "exchange" /\ a.who = u /\ a.since = tab[t].since
  BY <1>1, Zenon DEF Tab
<1>5. b.at = "badstate" /\ b.since = tab[t].since
  BY <1>1, Zenon DEF Tab
<1> HIDE DEF a, b
<1> QED
  BY <1>2, <1>3, <1>4, <1>5, MoveTab

LEMMA CreateSessionMoves ==
    ASSUME TypeOK, NEW t \in Tabs, CreateSession(t)
    PROVE  Moved(t, "answer") /\ tab'[t].sid = made + 1 /\ made + 1 \in Sids
<1> DEFINE n == made + 1
           r == [tab[t] EXCEPT !.at = "answer", !.sid = n]
<1>1. tab[t] \in Tab /\ n \in Sids /\ n \in 0 .. MaxSessions
  BY DEF TypeOK, CreateSession, Sids
<1>2. tab' = [tab EXCEPT ![t] = r]
  BY DEF CreateSession
<1> HIDE DEF n
<1>3. r \in Tab
  BY <1>1, PlacesNamed, Zenon DEF Tab
<1>4. r.at = "answer" /\ r.sid = n
  BY <1>1, Zenon DEF Tab
<1> HIDE DEF r
<1> QED
  BY <1>1, <1>2, <1>3, <1>4, MoveTab DEF n

LEMMA BlankMoves ==
    ASSUME TypeOK, NEW t \in Tabs, SignedIn(t) \/ Leave(t)
    PROVE  Moved(t, "blank")
<1>1. tab' = [tab EXCEPT ![t] = Blank]
  BY DEF SignedIn, Leave
<1> QED
  BY <1>1, BlankTab, MoveTab

LEMMA OpenPageMoves ==
    ASSUME TypeOK, NEW t \in Tabs, OpenPage(t)
    PROVE  Moved(t, "page") /\ tab'[t].csrf = SidCookie /\ tab'[t].who = UserOf(SidCookie)
<1> DEFINE n == SidCookie
           u == UserOf(SidCookie)
           r == [Blank EXCEPT !.at = "page", !.csrf = n, !.who = u]
<1>1. n \in 0 .. MaxSessions /\ u \in People
  BY CookieTyped, AliveHasUser DEF OpenPage
<1>2. tab' = [tab EXCEPT ![t] = r]
  BY DEF OpenPage
<1> HIDE DEF n, u
<1>3. r \in Tab
  BY <1>1, BlankTab, PlacesNamed, Zenon DEF Tab
<1>4. r.at = "page" /\ r.csrf = n /\ r.who = u
  BY Zenon DEF Blank
<1> HIDE DEF r
<1> QED
  BY <1>2, <1>3, <1>4, MoveTab DEF n, u

LEMMA SendWriteMoves ==
    ASSUME TypeOK, NEW t \in Tabs, SendWrite(t)
    PROVE  /\ Moved(t, "sent") /\ tab'[t].sid = SidCookie
           /\ tab'[t].csrf = tab[t].csrf /\ tab'[t].who = tab[t].who
<1> DEFINE n == SidCookie
           r == [tab[t] EXCEPT !.at = "sent", !.sid = n]
<1>1. tab[t] \in Tab /\ n \in 0 .. MaxSessions
  BY CookieTyped DEF TypeOK
<1>2. tab' = [tab EXCEPT ![t] = r]
  BY DEF SendWrite
<1> HIDE DEF n
<1>3. r \in Tab
  BY <1>1, PlacesNamed, Zenon DEF Tab
<1>4. r.at = "sent" /\ r.sid = n /\ r.csrf = tab[t].csrf /\ r.who = tab[t].who
  BY <1>1, Zenon DEF Tab
<1> HIDE DEF r
<1> QED
  BY <1>2, <1>3, <1>4, MoveTab DEF n

LEMMA CheckCSRFMoves ==
    ASSUME TypeOK, NEW t \in Tabs, CheckCSRF(t)
    PROVE  /\ Moved(t, IF CsrfOk(t) THEN "checked" ELSE "refused") /\ tab'[t].sid = tab[t].sid
           /\ tab'[t].csrf = tab[t].csrf /\ tab'[t].who = tab[t].who
<1> DEFINE at == IF CsrfOk(t) THEN "checked" ELSE "refused"
           r == [tab[t] EXCEPT !.at = at]
<1>1. tab[t] \in Tab /\ at \in Places
  BY DEF TypeOK, Places
<1>2. tab' = [tab EXCEPT ![t] = r]
  BY DEF CheckCSRF
<1> HIDE DEF at
<1>3. r \in Tab
  BY <1>1, Zenon DEF Tab
<1>4. r.at = at /\ r.sid = tab[t].sid /\ r.csrf = tab[t].csrf /\ r.who = tab[t].who
  BY <1>1, Zenon DEF Tab
<1> HIDE DEF r
<1> QED
  BY <1>2, <1>3, <1>4, MoveTab DEF at

\* Authenticate and QuickAdd let a request act for the account of its
\* session, or refuse it.
Judged(t, n, ok) ==
    /\ tab'[t].sid = n /\ tab'[t].csrf = tab[t].csrf /\ tab'[t].who = tab[t].who
    /\ \/ ok /\ Moved(t, "acting") /\ tab'[t].acting = UserOf(n)
       \/ ~ok /\ Moved(t, "refused")

LEMMA AuthenticateMoves ==
    ASSUME TypeOK, NEW t \in Tabs, Authenticate(t)
    PROVE  Judged(t, tab[t].sid, Alive(tab[t].sid))
<1> DEFINE u == UserOf(tab[t].sid)
           a == [tab[t] EXCEPT !.at = "acting", !.acting = u]
           b == [tab[t] EXCEPT !.at = "refused"]
<1>1. tab[t] \in Tab /\ (Alive(tab[t].sid) => u \in People)
  BY AliveHasUser DEF TypeOK
<1>2. tab' = [tab EXCEPT ![t] = IF Alive(tab[t].sid) THEN a ELSE b]
  BY DEF Authenticate
<1> HIDE DEF u
<1>3. u \in People => a \in Tab
  BY <1>1, PlacesNamed, Zenon DEF Tab
<1>4. b \in Tab
  BY <1>1, PlacesNamed, Zenon DEF Tab
<1>5. a.at = "acting" /\ a.acting = u
         /\ a.sid = tab[t].sid /\ a.csrf = tab[t].csrf /\ a.who = tab[t].who
  BY <1>1, Zenon DEF Tab
<1>6. b.at = "refused"
         /\ b.sid = tab[t].sid /\ b.csrf = tab[t].csrf /\ b.who = tab[t].who
  BY <1>1, Zenon DEF Tab
<1> HIDE DEF a, b
<1>7. CASE Alive(tab[t].sid)
  BY <1>1, <1>2, <1>3, <1>5, <1>7, MoveTab DEF Judged, u
<1>8. CASE ~Alive(tab[t].sid)
  BY <1>2, <1>4, <1>6, <1>8, MoveTab DEF Judged
<1> QED
  BY <1>7, <1>8

LEMMA QuickAddMoves ==
    ASSUME TypeOK, NEW t \in Tabs, QuickAdd(t)
    PROVE  Judged(t, SidCookie, tab[t].csrf = SidCookie)
<1> DEFINE n == SidCookie
           u == UserOf(SidCookie)
           sent == [tab[t] EXCEPT !.sid = n]
           a == [sent EXCEPT !.at = "acting", !.acting = u]
           b == [sent EXCEPT !.at = "refused"]
<1>1. tab[t] \in Tab /\ n \in 0 .. MaxSessions /\ u \in People
  BY AliveHasUser, CookieTyped DEF TypeOK, QuickAdd
<1>2. tab' = [tab EXCEPT ![t] = IF tab[t].csrf = n THEN a ELSE b]
  BY DEF QuickAdd
<1> HIDE DEF n, u
<1>3. sent \in Tab
  BY <1>1, Zenon DEF Tab
<1>4. sent.sid = n /\ sent.csrf = tab[t].csrf /\ sent.who = tab[t].who
  BY <1>1, Zenon DEF Tab
<1> HIDE DEF sent
<1>5. a \in Tab /\ b \in Tab
  BY <1>1, <1>3, PlacesNamed, Zenon DEF Tab
<1>6. a.at = "acting" /\ a.acting = u /\ a.sid = sent.sid /\ a.csrf = sent.csrf /\ a.who = sent.who
  BY <1>3, Zenon DEF Tab
<1>7. b.at = "refused" /\ b.sid = sent.sid /\ b.csrf = sent.csrf /\ b.who = sent.who
  BY <1>3, Zenon DEF Tab
<1> HIDE DEF a, b
<1>8. CASE tab[t].csrf = n
  BY <1>2, <1>4, <1>5, <1>6, <1>8, MoveTab DEF Judged, n, u
<1>9. CASE tab[t].csrf # n
  BY <1>2, <1>4, <1>5, <1>7, <1>9, MoveTab DEF Judged, n
<1> QED
  BY <1>8, <1>9

LEMMA AnsweredMoves ==
    ASSUME TypeOK, NEW t \in Tabs, Answered(t)
    PROVE  Moved(t, "page") /\ tab'[t].csrf = tab[t].csrf /\ tab'[t].who = tab[t].who
<1> DEFINE r == [tab[t] EXCEPT !.at = "page", !.sid = 0, !.acting = None]
<1>1. tab[t] \in Tab /\ 0 \in 0 .. MaxSessions
  BY DEF TypeOK
<1>2. tab' = [tab EXCEPT ![t] = r]
  BY DEF Answered
<1>3. r \in Tab
  BY <1>1, PlacesNamed, Zenon DEF Tab
<1>4. r.at = "page" /\ r.csrf = tab[t].csrf /\ r.who = tab[t].who
  BY <1>1, Zenon DEF Tab
<1> HIDE DEF r
<1> QED
  BY <1>2, <1>3, <1>4, MoveTab

-----------------------------------------------------------------------------
(***************************************************************************)
(* Type correctness.                                                       *)
(***************************************************************************)
LEMMA TypeStep == TInv /\ [Next]_vars => TInv'
<1> SUFFICES ASSUME TypeOK, Picked, [Next]_vars PROVE TypeOK' /\ Picked'
  BY DEF TInv
<1>1. ASSUME NEW t \in Tabs, GoToLogin(t) PROVE TypeOK' /\ Picked'
  <2>1. states + 1 \in 0 .. MaxStates /\ StateTill \in Nat
    BY <1>1, LoginMoves DEF StateTill, TypeOK
  <2>2. jar' \in [state : 0 .. MaxStates, stateTill : Nat, sid : 0 .. MaxSessions, sidTill : Nat]
    BY <1>1, <2>1, Zenon DEF GoToLogin, TypeOK
  <2> QED
    BY <1>1, <2>1, <2>2, LoginMoves DEF GoToLogin, Disturb, Moved, TypeOK, Picked
<1>2. ASSUME NEW t \in Tabs, NEW u \in People, Callback(t, u) PROVE TypeOK' /\ Picked'
  BY <1>2, CallbackMoves DEF Callback, Moved, TypeOK, Picked
<1>3. ASSUME NEW t \in Tabs, CreateSession(t) PROVE TypeOK' /\ Picked'
  <2>1. [user |-> tab[t].who, expires |-> now + TTL] \in Session
    BY <1>3 DEF CreateSession, Session, TypeOK, Picked
  <2>2. Moved(t, "answer") /\ made + 1 \in Sids
    BY <1>3, CreateSessionMoves
  <2>3. sessions' \in [Sids -> Session \cup {None}]
    BY <1>3, <2>1, <2>2, Zenon DEF CreateSession, TypeOK
  <2>4. now + TTL \in Nat
    BY DEF TypeOK
  <2>5. ends' \in [Sids -> Nat]
    BY <1>3, <2>2, <2>4, Zenon DEF CreateSession, TypeOK
  <2> QED
    BY <1>3, <2>2, <2>3, <2>5 DEF CreateSession, Moved, TypeOK, Picked, Sids
<1>4. ASSUME NEW t \in Tabs, SignedIn(t) PROVE TypeOK' /\ Picked'
  <2>1. tab[t].sid \in 0 .. MaxSessions /\ SidTill \in Nat /\ 0 \in 0 .. MaxStates /\ 0 \in Nat
    BY DEF TypeOK, Tab, SidTill
  <2>2. jar' \in [state : 0 .. MaxStates, stateTill : Nat, sid : 0 .. MaxSessions, sidTill : Nat]
    BY <1>4, <2>1, Zenon DEF SignedIn
  <2>3. meddled' \in SUBSET Tabs
    BY <1>4 DEF SignedIn, Disturb, TypeOK
  <2> QED
    BY <1>4, <2>2, <2>3, BlankMoves DEF SignedIn, Moved, TypeOK, Picked
<1>5. ASSUME NEW t \in Tabs, Leave(t) PROVE TypeOK' /\ Picked'
  BY <1>5, BlankMoves DEF Leave, Moved, TypeOK, Picked
<1>6. ASSUME NEW t \in Tabs, OpenPage(t) PROVE TypeOK' /\ Picked'
  BY <1>6, OpenPageMoves DEF OpenPage, Moved, TypeOK, Picked
<1>7. ASSUME NEW t \in Tabs, SendWrite(t) PROVE TypeOK' /\ Picked'
  BY <1>7, SendWriteMoves DEF SendWrite, Moved, TypeOK, Picked
<1>8. ASSUME NEW t \in Tabs, CheckCSRF(t) PROVE TypeOK' /\ Picked'
  <2>1. Moved(t, "checked") \/ Moved(t, "refused")
    BY <1>8, CheckCSRFMoves
  <2> QED
    BY <1>8, <2>1 DEF CheckCSRF, Moved, TypeOK, Picked
<1>9. ASSUME NEW t \in Tabs, Authenticate(t) PROVE TypeOK' /\ Picked'
  BY <1>9, AuthenticateMoves DEF Authenticate, Judged, Moved, TypeOK, Picked
<1>10. ASSUME NEW t \in Tabs, QuickAdd(t) PROVE TypeOK' /\ Picked'
  BY <1>10, QuickAddMoves DEF QuickAdd, Judged, Moved, TypeOK, Picked
<1>11. ASSUME NEW t \in Tabs, Answered(t) PROVE TypeOK' /\ Picked'
  BY <1>11, AnsweredMoves DEF Answered, Moved, TypeOK, Picked
<1>12. CASE CleanupExpiredSessions
  BY <1>12 DEF CleanupExpiredSessions, TypeOK, Picked
<1>13. CASE Tick
  BY <1>13 DEF Tick, TypeOK, Picked
<1>14. CASE UNCHANGED vars
  BY <1>14 DEF vars, TypeOK, Picked
<1> QED
  BY <1>1, <1>2, <1>3, <1>4, <1>5, <1>6, <1>7, <1>8, <1>9, <1>10, <1>11, <1>12,
     <1>13, <1>14 DEF Next, Login, OpenRedirected

\* The types and what a step writes are right.
THEOREM TypeCorrect == Spec => []TypeOK
<1>1. TInv => TypeOK
  BY DEF TInv
<1> QED
  BY <1>1, TypeInit, TypeStep, PTL DEF Spec

-----------------------------------------------------------------------------
(***************************************************************************)
(* Sessions.                                                               *)
(***************************************************************************)
LEMMA SessionInit == Init => SInv
  BY TypeInit DEF Init, SInv, RowsTrue, CookieKept, TabTrue, OnSite, Blank, Sids

\* The numbers among the variables.
Numbers ==
    /\ now \in Nat /\ made \in Nat /\ made <= MaxSessions
    /\ jar.sid \in Nat /\ jar.sidTill \in Nat
    /\ \A n \in Sids : ends[n] \in Nat
    /\ \A t \in Tabs : tab[t].sid \in Nat /\ tab[t].csrf \in Nat

LEMMA Typed == TypeOK => Numbers
<1> SUFFICES ASSUME TypeOK PROVE Numbers
  OBVIOUS
<1>1. \A t \in Tabs : tab[t].sid \in 0 .. MaxSessions /\ tab[t].csrf \in 0 .. MaxSessions
  BY DEF TypeOK, Tab
<1>2. jar.sid \in 0 .. MaxSessions /\ jar.sidTill \in Nat
  BY DEF TypeOK
<1> QED
  BY <1>1, <1>2 DEF TypeOK, Numbers

\* What the other tabs know stays true when nothing but tab changes.
Quiet == UNCHANGED <<now, sessions, made, jar, ends>>

LEMMA QuietStep ==
    ASSUME SInv, TInv', Quiet, NEW t \in Tabs, TabTrue(t)',
           \A u \in Tabs : u # t => tab'[u] = tab[u]
    PROVE  SInv'
<1>1. RowsTrue' /\ CookieKept'
  BY DEF SInv, RowsTrue, CookieKept, Quiet
<1>2. ASSUME NEW u \in Tabs, u # t PROVE TabTrue(u)'
  BY <1>2 DEF SInv, TabTrue, PageTrue, Quiet
<1> QED
  BY <1>1, <1>2 DEF SInv

\* A session that is not alive has ended.
LEMMA DeadHasEnded ==
    ASSUME SInv, NEW n \in Nat, n # 0, n <= made, ~Alive(n)
    PROVE  ends[n] <= now
<1>1. Numbers /\ n \in Sids
  BY Typed DEF SInv, TInv, Numbers, Sids
<1>2. sessions[n] # None => sessions[n].expires = ends[n] /\ ~(sessions[n].expires > now)
  BY <1>1 DEF SInv, RowsTrue, Alive
<1> QED
  BY <1>1, <1>2 DEF SInv, RowsTrue, Numbers

\* The steps that change only the tab that takes them.
LEMMA OpenPageTrue ==
    ASSUME SInv, NEW t \in Tabs, OpenPage(t)
    PROVE  TabTrue(t)'
<1> DEFINE n == SidCookie
<1>1. Numbers /\ Alive(n) /\ n \in Sids /\ n # 0 /\ jar.sid = n
  BY Typed, AliveHasUser DEF SInv, TInv, OpenPage, SidCookie
<1>2. tab'[t].at = "page" /\ tab'[t].csrf = n /\ tab'[t].who = sessions[n].user
  BY OpenPageMoves DEF SInv, TInv, Moved, UserOf
<1>3. n <= made /\ ends[n] <= jar.sidTill
  BY <1>1 DEF SInv, RowsTrue, CookieKept, Alive
<1>4. PageTrue(t)'
  BY <1>1, <1>2, <1>3 DEF PageTrue, OpenPage
<1> QED
  BY <1>2, <1>4 DEF TabTrue

\* A page that sends a write, or hears of it, is still the same page.
LEMMA SamePage ==
    ASSUME SInv, Quiet, NEW t \in Tabs, tab[t].at \in OnSite,
           tab'[t].csrf = tab[t].csrf, tab'[t].who = tab[t].who
    PROVE  PageTrue(t)'
  BY DEF SInv, TabTrue, PageTrue, Quiet

LEMMA SendWriteTrue ==
    ASSUME SInv, NEW t \in Tabs, SendWrite(t)
    PROVE  TabTrue(t)'
<1>1. tab'[t].at = "sent" /\ tab'[t].sid = SidCookie
         /\ tab'[t].csrf = tab[t].csrf /\ tab'[t].who = tab[t].who
  BY SendWriteMoves DEF SInv, TInv, Moved
<1>2. Quiet /\ tab[t].at = "page"
  BY DEF SendWrite, Quiet
<1>3. PageTrue(t) /\ PageTrue(t)'
  BY <1>1, <1>2, SamePage DEF SInv, TabTrue, OnSite
<1>4. Numbers /\ tab[t].csrf \in Sids
  BY <1>3, Typed DEF SInv, TInv, Numbers, PageTrue, Sids
<1>5. SidCookie = 0 => ends[tab[t].csrf] <= now
  BY <1>3, <1>4 DEF SidCookie, PageTrue, Numbers
<1> QED
  BY <1>1, <1>2, <1>3, <1>5 DEF TabTrue, Quiet

LEMMA CheckCSRFTrue ==
    ASSUME SInv, NEW t \in Tabs, CheckCSRF(t)
    PROVE  TabTrue(t)'
<1>1. tab'[t].at = (IF CsrfOk(t) THEN "checked" ELSE "refused") /\ tab'[t].sid = tab[t].sid
         /\ tab'[t].csrf = tab[t].csrf /\ tab'[t].who = tab[t].who
  BY CheckCSRFMoves DEF SInv, TInv, Moved
<1>2. Quiet /\ tab[t].at = "sent"
  BY DEF CheckCSRF, Quiet
<1>3. PageTrue(t) /\ PageTrue(t)'
  BY <1>1, <1>2, SamePage DEF SInv, TabTrue, OnSite
<1>4. tab[t].sid = 0 => ends[tab[t].csrf] <= now
  BY <1>2 DEF SInv, TabTrue
<1>5. tab[t].csrf \in Nat /\ tab[t].csrf # 0 /\ tab[t].csrf <= made
  BY <1>3, Typed DEF SInv, TInv, Numbers, PageTrue
<1>6. ~Alive(tab[t].csrf) => ends[tab[t].csrf] <= now
  BY <1>5, DeadHasEnded
<1>7. CASE CsrfOk(t)
  BY <1>1, <1>3, <1>7 DEF TabTrue, CsrfOk
<1>8. CASE ~CsrfOk(t)
  BY <1>1, <1>2, <1>3, <1>4, <1>6, <1>8 DEF TabTrue, CsrfOk, Quiet
<1> QED
  BY <1>7, <1>8

LEMMA AuthenticateTrue ==
    ASSUME SInv, NEW t \in Tabs, Authenticate(t)
    PROVE  TabTrue(t)'
<1>1. Judged(t, tab[t].sid, Alive(tab[t].sid))
  BY AuthenticateMoves DEF SInv, TInv
<1>2. Quiet /\ tab[t].at = "checked"
  BY DEF Authenticate, Quiet
<1>3. PageTrue(t) /\ PageTrue(t)' /\ tab[t].sid = tab[t].csrf
  BY <1>1, <1>2, SamePage DEF SInv, TabTrue, OnSite, Judged
<1>4. tab[t].csrf \in Nat /\ tab[t].csrf # 0 /\ tab[t].csrf <= made
  BY <1>3, Typed DEF SInv, TInv, Numbers, PageTrue
<1>5. ~Alive(tab[t].csrf) => ends[tab[t].csrf] <= now
  BY <1>4, DeadHasEnded
<1>6. CASE Alive(tab[t].csrf)
  BY <1>1, <1>3, <1>6 DEF TabTrue, PageTrue, Judged, Moved, Alive, UserOf
<1>7. CASE ~Alive(tab[t].csrf)
  BY <1>1, <1>2, <1>3, <1>5, <1>7 DEF TabTrue, Judged, Moved, Quiet
<1> QED
  BY <1>6, <1>7

LEMMA QuickAddTrue ==
    ASSUME SInv, NEW t \in Tabs, QuickAdd(t)
    PROVE  TabTrue(t)'
<1>1. Judged(t, SidCookie, tab[t].csrf = SidCookie)
  BY QuickAddMoves DEF SInv, TInv
<1>2. Quiet /\ tab[t].at = "page" /\ Alive(SidCookie)
  BY DEF QuickAdd, Quiet
<1>3. PageTrue(t) /\ PageTrue(t)'
  BY <1>1, <1>2, SamePage DEF SInv, TabTrue, OnSite, Judged
<1>4. SidCookie # 0
  BY <1>2, AliveHasUser DEF SInv, TInv
<1>5. CASE tab[t].csrf = SidCookie
  BY <1>1, <1>2, <1>3, <1>5 DEF TabTrue, PageTrue, Judged, Moved, Alive, UserOf
<1>6. CASE tab[t].csrf # SidCookie
  BY <1>1, <1>3, <1>4, <1>6 DEF TabTrue, Judged, Moved
<1> QED
  BY <1>5, <1>6

LEMMA AnsweredTrue ==
    ASSUME SInv, NEW t \in Tabs, Answered(t)
    PROVE  TabTrue(t)'
<1>1. tab'[t].at = "page" /\ tab'[t].csrf = tab[t].csrf /\ tab'[t].who = tab[t].who
  BY AnsweredMoves DEF SInv, TInv, Moved
<1>2. PageTrue(t)'
  BY <1>1, SamePage DEF Answered, Quiet, OnSite
<1> QED
  BY <1>1, <1>2 DEF TabTrue

\* A tab away from the site has nothing to keep true.
Away == {"blank", "google", "exchange", "badstate"}
LEMMA AwayTrue ==
    ASSUME NEW t \in Tabs, tab'[t].at \in Away
    PROVE  TabTrue(t)'
  BY DEF Away, TabTrue, OnSite

\* The steps that also change the jar, the table or the clock.
LEMMA GoToLoginTrue ==
    ASSUME SInv, TInv', NEW t \in Tabs, GoToLogin(t)
    PROVE  SInv'
<1>1. jar'.sid = jar.sid /\ jar'.sidTill = jar.sidTill /\ UNCHANGED <<now, sessions, made, ends>>
  BY DEF GoToLogin, SInv, TInv, TypeOK
<1>2. Moved(t, "google")
  BY LoginMoves DEF SInv, TInv
<1>3. TabTrue(t)'
  BY <1>2, AwayTrue DEF Moved, Away
<1>4. ASSUME NEW u \in Tabs, u # t PROVE TabTrue(u)'
  BY <1>1, <1>2, <1>4 DEF SInv, TabTrue, PageTrue, Moved
<1>5. RowsTrue' /\ CookieKept'
  BY <1>1 DEF SInv, RowsTrue, CookieKept
<1> QED
  BY <1>3, <1>4, <1>5 DEF SInv

LEMMA CreateSessionTrue ==
    ASSUME SInv, TInv', NEW t \in Tabs, CreateSession(t)
    PROVE  SInv'
<1> DEFINE n == made + 1
           s == [user |-> tab[t].who, expires |-> now + TTL]
<1>1. Numbers
  BY Typed DEF SInv, TInv
<1>2. Moved(t, "answer") /\ tab'[t].sid = n /\ n \in Sids
  BY CreateSessionMoves DEF SInv, TInv
<1>3. s \in Session /\ s # None /\ s.expires = now + TTL
  BY <1>1 DEF SInv, TInv, Picked, CreateSession, Session, Numbers
<1>4. made' = n /\ UNCHANGED <<now, jar>> /\ sessions'[n] = s /\ ends'[n] = now + TTL
  BY <1>2 DEF CreateSession, SInv, TInv, TypeOK
<1>5. \A k \in Sids : k # n => sessions'[k] = sessions[k] /\ ends'[k] = ends[k]
  BY DEF CreateSession, SInv, TInv, TypeOK
<1>6. \A k \in Sids : k <= made => k # n
  BY <1>1 DEF Numbers
<1> HIDE DEF s
<1>7. RowsTrue'
  <2> SUFFICES ASSUME NEW k \in Sids
               PROVE  /\ sessions'[k] # None => k <= made' /\ sessions'[k].expires = ends'[k]
                      /\ k <= made' => ends'[k] <= now' + TTL
                      /\ k <= made' /\ sessions'[k] = None => ends'[k] <= now'
    BY DEF RowsTrue
  <2>1. CASE k = n
    BY <1>1, <1>3, <1>4, <2>1 DEF Numbers
  <2>2. CASE k # n
    BY <1>1, <1>4, <1>5, <2>2 DEF SInv, RowsTrue, Numbers, Sids
  <2> QED
    BY <2>1, <2>2
<1>8. CookieKept'
  <2>1. jar.sid # 0 => jar.sid \in Sids
    BY <1>1 DEF SInv, CookieKept, Numbers, Sids
  <2> QED
    BY <1>1, <1>4, <1>5, <1>6, <2>1 DEF SInv, CookieKept, Numbers
<1>9. ASSUME NEW u \in Tabs PROVE TabTrue(u)'
  <2>1. CASE u = t
    BY <1>1, <1>2, <1>4, <2>1 DEF TabTrue, OnSite, Moved, Numbers
  <2>2. CASE u # t
    <3>1. TabTrue(u) /\ tab'[u] = tab[u] /\ tab[u].sid \in Nat /\ tab[u].csrf \in Nat
      BY <1>1, <1>2, <2>2 DEF SInv, Moved, Numbers
    <3>2. CASE tab[u].at \in OnSite
      <4> DEFINE c == tab[u].csrf
      <4>1. PageTrue(u) /\ c \in Sids /\ c <= made
        BY <1>1, <3>1, <3>2 DEF TabTrue, PageTrue, Numbers, Sids
      <4>2. sessions'[c] = sessions[c] /\ ends'[c] = ends[c]
        BY <1>5, <1>6, <4>1
      <4>3. PageTrue(u)'
        BY <1>1, <1>4, <3>1, <4>1, <4>2 DEF PageTrue, Numbers
      <4> QED
        BY <1>4, <3>1, <3>2, <4>2, <4>3 DEF TabTrue, OnSite
    <3>3. CASE tab[u].at \notin OnSite
      BY <1>1, <1>4, <3>1, <3>3 DEF TabTrue, OnSite, Numbers
    <3> QED
      BY <3>2, <3>3
  <2> QED
    BY <2>1, <2>2
<1> QED
  BY <1>7, <1>8, <1>9 DEF SInv

LEMMA SignedInTrue ==
    ASSUME SInv, TInv', NEW t \in Tabs, SignedIn(t)
    PROVE  SInv'
<1> DEFINE n == tab[t].sid
<1>1. Numbers /\ TabTrue(t) /\ tab[t].at = "answer"
  BY Typed DEF SInv, TInv, SignedIn
<1>2. n \in Sids /\ n # 0 /\ n <= made
  BY <1>1 DEF TabTrue, Numbers, Sids
<1>3. UNCHANGED <<now, sessions, made, ends>> /\ jar'.sid = n /\ jar'.sidTill = now + TTL
  BY DEF SignedIn, SidTill
<1>4. RowsTrue /\ RowsTrue'
  BY <1>3 DEF SInv, RowsTrue
<1>5. CookieKept'
  BY <1>2, <1>3, <1>4 DEF RowsTrue, CookieKept
<1>6. Moved(t, "blank")
  BY BlankMoves DEF SInv, TInv
<1>7. ASSUME NEW u \in Tabs, u # t PROVE TabTrue(u)'
  <2>1. TabTrue(u) /\ tab'[u] = tab[u] /\ tab[u].csrf \in Nat
    BY <1>1, <1>6, <1>7 DEF SInv, Moved, Numbers
  <2>2. tab[u].at \in OnSite => PageTrue(u)'
    <3>1. PageTrue(u) => tab[u].csrf \in Sids
      BY <1>1, <2>1 DEF PageTrue, Numbers, Sids
    <3> QED
      BY <1>2, <1>3, <1>4, <2>1, <3>1 DEF TabTrue, PageTrue, RowsTrue
  <2> QED
    BY <1>3, <2>1, <2>2 DEF TabTrue
<1>8. TabTrue(t)'
  BY <1>6, AwayTrue DEF Moved, Away
<1> QED
  BY <1>4, <1>5, <1>7, <1>8 DEF SInv

LEMMA CleanupTrue == SInv /\ TInv' /\ CleanupExpiredSessions => SInv'
<1> SUFFICES ASSUME SInv, TInv', CleanupExpiredSessions PROVE SInv'
  OBVIOUS
<1>1. UNCHANGED <<now, made, jar, tab, ends>>
  BY DEF CleanupExpiredSessions
<1>2. \A n \in Sids :
        \/ sessions'[n] = sessions[n]
        \/ sessions'[n] = None /\ sessions[n] # None /\ sessions[n].expires <= now
  BY DEF CleanupExpiredSessions, Expired
<1>3. RowsTrue'
  BY <1>1, <1>2 DEF SInv, RowsTrue
<1>4. CookieKept'
  BY <1>1 DEF SInv, CookieKept
<1>5. ASSUME NEW t \in Tabs PROVE TabTrue(t)'
  <2>1. TabTrue(t) /\ tab[t].csrf \in Nat /\ Numbers
    BY Typed DEF SInv, TInv, Numbers
  <2>2. tab[t].at \in OnSite => PageTrue(t)'
    <3>1. PageTrue(t) => tab[t].csrf \in Sids
      BY <2>1 DEF PageTrue, Numbers, Sids
    <3> QED
      BY <1>1, <1>2, <2>1, <3>1 DEF TabTrue, PageTrue
  <2> QED
    BY <1>1, <2>1, <2>2 DEF TabTrue
<1> QED
  BY <1>3, <1>4, <1>5 DEF SInv

LEMMA TickTrue == SInv /\ TInv' /\ Tick => SInv'
<1> SUFFICES ASSUME SInv, TInv', Tick PROVE SInv'
  OBVIOUS
<1>1. now' = now + 1 /\ UNCHANGED <<sessions, made, jar, tab, ends>> /\ Numbers
  BY Typed DEF Tick, SInv, TInv
<1>2. RowsTrue'
  BY <1>1 DEF SInv, RowsTrue, Numbers
<1>3. CookieKept'
  BY <1>1 DEF SInv, CookieKept
<1>4. ASSUME NEW t \in Tabs PROVE TabTrue(t)'
  <2>1. TabTrue(t) /\ tab[t].csrf \in Nat
    BY <1>1 DEF SInv, Numbers
  <2>2. tab[t].at \in OnSite => PageTrue(t)' /\ tab[t].csrf \in Sids
    BY <1>1, <2>1 DEF TabTrue, PageTrue, Numbers, Sids
  <2> QED
    BY <1>1, <2>1, <2>2 DEF TabTrue, OnSite, Numbers
<1> QED
  BY <1>2, <1>3, <1>4 DEF SInv

LEMMA SessionStep == SInv /\ [Next]_vars => SInv'
<1> SUFFICES ASSUME SInv, [Next]_vars PROVE SInv'
  OBVIOUS
<1>0. TInv'
  BY TypeStep DEF SInv
<1>1. ASSUME NEW t \in Tabs, GoToLogin(t) PROVE SInv'
  BY <1>0, <1>1, GoToLoginTrue
<1>2. ASSUME NEW t \in Tabs, CreateSession(t) PROVE SInv'
  BY <1>0, <1>2, CreateSessionTrue
<1>3. ASSUME NEW t \in Tabs, SignedIn(t) PROVE SInv'
  BY <1>0, <1>3, SignedInTrue
<1>4. ASSUME NEW t \in Tabs, NEW u \in People, Callback(t, u) PROVE SInv'
  <2>1. Moved(t, "exchange") \/ Moved(t, "badstate")
    BY <1>4, CallbackMoves DEF SInv, TInv
  <2>2. TabTrue(t)'
    BY <2>1, AwayTrue DEF Moved, Away
  <2> QED
    BY <1>0, <1>4, <2>1, <2>2, QuietStep DEF Callback, Quiet, Moved
<1>5. ASSUME NEW t \in Tabs, Leave(t) PROVE SInv'
  <2>1. Moved(t, "blank")
    BY <1>5, BlankMoves DEF SInv, TInv
  <2>2. TabTrue(t)'
    BY <2>1, AwayTrue DEF Moved, Away
  <2> QED
    BY <1>0, <1>5, <2>1, <2>2, QuietStep DEF Leave, Quiet, Moved
<1>6. ASSUME NEW t \in Tabs, OpenPage(t) PROVE SInv'
  <2>1. TabTrue(t)' /\ Moved(t, "page")
    BY <1>6, OpenPageTrue, OpenPageMoves DEF SInv, TInv
  <2> QED
    BY <1>0, <1>6, <2>1, QuietStep DEF OpenPage, Quiet, Moved
<1>7. ASSUME NEW t \in Tabs, SendWrite(t) PROVE SInv'
  <2>1. TabTrue(t)' /\ Moved(t, "sent")
    BY <1>7, SendWriteTrue, SendWriteMoves DEF SInv, TInv
  <2> QED
    BY <1>0, <1>7, <2>1, QuietStep DEF SendWrite, Quiet, Moved
<1>8. ASSUME NEW t \in Tabs, CheckCSRF(t) PROVE SInv'
  <2>1. TabTrue(t)' /\ Moved(t, IF CsrfOk(t) THEN "checked" ELSE "refused")
    BY <1>8, CheckCSRFTrue, CheckCSRFMoves DEF SInv, TInv
  <2> QED
    BY <1>0, <1>8, <2>1, QuietStep DEF CheckCSRF, Quiet, Moved
<1>9. ASSUME NEW t \in Tabs, Authenticate(t) PROVE SInv'
  <2>1. TabTrue(t)' /\ Judged(t, tab[t].sid, Alive(tab[t].sid))
    BY <1>9, AuthenticateTrue, AuthenticateMoves DEF SInv, TInv
  <2> QED
    BY <1>0, <1>9, <2>1, QuietStep DEF Authenticate, Quiet, Judged, Moved
<1>10. ASSUME NEW t \in Tabs, QuickAdd(t) PROVE SInv'
  <2>1. TabTrue(t)' /\ Judged(t, SidCookie, tab[t].csrf = SidCookie)
    BY <1>10, QuickAddTrue, QuickAddMoves DEF SInv, TInv
  <2> QED
    BY <1>0, <1>10, <2>1, QuietStep DEF QuickAdd, Quiet, Judged, Moved
<1>11. ASSUME NEW t \in Tabs, Answered(t) PROVE SInv'
  <2>1. TabTrue(t)' /\ Moved(t, "page")
    BY <1>11, AnsweredTrue, AnsweredMoves DEF SInv, TInv
  <2> QED
    BY <1>0, <1>11, <2>1, QuietStep DEF Answered, Quiet, Moved
<1>12. CASE CleanupExpiredSessions
  BY <1>0, <1>12, CleanupTrue
<1>13. CASE Tick
  BY <1>0, <1>13, TickTrue
<1>14. CASE UNCHANGED vars
  BY <1>0, <1>14 DEF vars, SInv, RowsTrue, CookieKept, TabTrue, PageTrue
<1> QED
  BY <1>1, <1>2, <1>3, <1>4, <1>5, <1>6, <1>7, <1>8, <1>9, <1>10, <1>11, <1>12,
     <1>13, <1>14 DEF Next, Login, OpenRedirected

\* A write is done for the account of the page that sent it.
THEOREM WritesAreForTheirPage == Spec => []WritesMatchPage
<1>1. SInv => WritesMatchPage
  BY DEF SInv, TabTrue, WritesMatchPage, RefusedOnlyForCause
<1> QED
  BY <1>1, SessionInit, SessionStep, PTL DEF Spec

\* A write is refused only after the session's full length, or when another
\* login has replaced the cookie.
THEOREM RefusalsHaveCause == Spec => []RefusedOnlyForCause
<1>1. SInv => RefusedOnlyForCause
  BY DEF SInv, TabTrue, WritesMatchPage, RefusedOnlyForCause
<1> QED
  BY <1>1, SessionInit, SessionStep, PTL DEF Spec

-----------------------------------------------------------------------------
(***************************************************************************)
(* Logins.                                                                 *)
(***************************************************************************)
LEMMA LoginInit == Init => LInv
  BY TypeInit DEF Init, LInv, LoginTrue, Blank

LEMMA Since == TypeOK => now \in Nat /\ \A t \in Tabs : tab[t].since \in Nat
<1> SUFFICES ASSUME TypeOK PROVE now \in Nat /\ \A t \in Tabs : tab[t].since \in Nat
  OBVIOUS
<1>1. \A t \in Tabs : tab[t].since \in 0 .. MaxTime
  BY DEF TypeOK, Tab
<1> QED
  BY <1>1 DEF TypeOK

\* Nothing about logins changes but where tab t is, and it is not at a login.
LEMMA ElsewhereStep ==
    ASSUME LInv, TInv', UNCHANGED <<now, jar, meddled>>, NEW t \in Tabs, NEW at, Moved(t, at),
           at \notin {"google", "badstate"}
    PROVE  LInv'
<1>1. LoginTrue(t)'
  BY DEF LoginTrue, Moved
<1>2. ASSUME NEW u \in Tabs, u # t PROVE LoginTrue(u)'
  BY <1>2 DEF LInv, LoginTrue, Moved
<1> QED
  BY <1>1, <1>2 DEF LInv

LEMMA LoginStep == LInv /\ [Next]_vars => LInv'
<1> SUFFICES ASSUME LInv, [Next]_vars PROVE LInv'
  OBVIOUS
<1>0. TInv' /\ TypeOK
  BY TypeStep DEF LInv, TInv
<1>1. ASSUME NEW t \in Tabs, GoToLogin(t) PROVE LInv'
  <2>1. /\ Moved(t, "google") /\ tab'[t].state = states + 1 /\ tab'[t].since = now
        /\ states + 1 \in 1 .. MaxStates
    BY <1>0, <1>1, LoginMoves
  <2>2. jar'.state = states + 1 /\ jar'.stateTill = now + StateTTL
    BY <1>0, <1>1, Zenon DEF GoToLogin, StateTill, TypeOK
  <2>3. LoginTrue(t)'
    BY <2>1, <2>2 DEF LoginTrue, Moved
  <2>4. ASSUME NEW u \in Tabs, u # t PROVE LoginTrue(u)'
    BY <1>1, <2>1, <2>4 DEF LInv, LoginTrue, GoToLogin, Disturb, LoggingIn, Moved
  <2> QED
    BY <1>0, <2>3, <2>4 DEF LInv
<1>2. ASSUME NEW t \in Tabs, NEW u \in People, Callback(t, u) PROVE LInv'
  <2>1. tab'[t].since = tab[t].since /\ tab[t].at = "google" /\ UNCHANGED <<now, jar, meddled>>
    BY <1>0, <1>2, CallbackMoves DEF Callback
  <2>2. CASE Moved(t, "exchange")
    BY <1>0, <2>1, <2>2, ElsewhereStep
  <2>3. CASE ~StateOk(t) /\ Moved(t, "badstate")
    <3>1. t \in meddled \/ now >= tab[t].since + StateTTL
      BY <1>0, <2>1, <2>3, Since DEF LInv, LoginTrue, StateOk, StateCookie
    <3>2. LoginTrue(t)'
      BY <2>1, <2>3, <3>1 DEF LoginTrue, Moved
    <3>3. ASSUME NEW k \in Tabs, k # t PROVE LoginTrue(k)'
      BY <2>1, <2>3, <3>3 DEF LInv, LoginTrue, Moved
    <3> QED
      BY <1>0, <3>2, <3>3 DEF LInv
  <2> QED
    BY <1>0, <1>2, <2>2, <2>3, CallbackMoves
<1>3. ASSUME NEW t \in Tabs, SignedIn(t) PROVE LInv'
  <2>1. Moved(t, "blank")
    BY <1>0, <1>3, BlankMoves
  <2>2. LoginTrue(t)'
    BY <2>1 DEF LoginTrue, Moved
  <2>3. ASSUME NEW u \in Tabs, u # t PROVE LoginTrue(u)'
    BY <1>3, <2>1, <2>3 DEF LInv, LoginTrue, SignedIn, Disturb, LoggingIn, Moved
  <2> QED
    BY <1>0, <2>2, <2>3 DEF LInv
<1>4. ASSUME NEW t \in Tabs, CreateSession(t) PROVE LInv'
  BY <1>0, <1>4, CreateSessionMoves, ElsewhereStep DEF CreateSession
<1>5. ASSUME NEW t \in Tabs, Leave(t) PROVE LInv'
  BY <1>0, <1>5, BlankMoves, ElsewhereStep DEF Leave
<1>6. ASSUME NEW t \in Tabs, OpenPage(t) PROVE LInv'
  BY <1>0, <1>6, OpenPageMoves, ElsewhereStep DEF OpenPage
<1>7. ASSUME NEW t \in Tabs, SendWrite(t) PROVE LInv'
  BY <1>0, <1>7, SendWriteMoves, ElsewhereStep DEF SendWrite
<1>8. ASSUME NEW t \in Tabs, CheckCSRF(t) PROVE LInv'
  <2>1. Moved(t, "checked") \/ Moved(t, "refused")
    BY <1>0, <1>8, CheckCSRFMoves
  <2> QED
    BY <1>0, <1>8, <2>1, ElsewhereStep DEF CheckCSRF
<1>9. ASSUME NEW t \in Tabs, Authenticate(t) PROVE LInv'
  <2>1. Moved(t, "acting") \/ Moved(t, "refused")
    BY <1>0, <1>9, AuthenticateMoves DEF Judged
  <2> QED
    BY <1>0, <1>9, <2>1, ElsewhereStep DEF Authenticate
<1>10. ASSUME NEW t \in Tabs, QuickAdd(t) PROVE LInv'
  <2>1. Moved(t, "acting") \/ Moved(t, "refused")
    BY <1>0, <1>10, QuickAddMoves DEF Judged
  <2> QED
    BY <1>0, <1>10, <2>1, ElsewhereStep DEF QuickAdd
<1>11. ASSUME NEW t \in Tabs, Answered(t) PROVE LInv'
  BY <1>0, <1>11, AnsweredMoves, ElsewhereStep DEF Answered
<1>12. CASE CleanupExpiredSessions \/ UNCHANGED vars
  BY <1>0, <1>12 DEF CleanupExpiredSessions, vars, LInv, LoginTrue
<1>13. CASE Tick
  <2>1. now' = now + 1 /\ UNCHANGED <<jar, tab, meddled>>
    BY <1>13 DEF Tick
  <2> QED
    BY <1>0, <2>1, Since DEF LInv, LoginTrue
<1> QED
  BY <1>1, <1>2, <1>3, <1>4, <1>5, <1>6, <1>7, <1>8, <1>9, <1>10, <1>11, <1>12,
     <1>13 DEF Next, Login, OpenRedirected

\* A login is turned away only when it took too long or another one met it.
THEOREM LoginsHaveCause == Spec => []LoginRefusedOnlyForCause
<1>1. LInv => LoginRefusedOnlyForCause
  BY DEF LInv, LoginTrue, LoginRefusedOnlyForCause
<1> QED
  BY <1>1, LoginInit, LoginStep, PTL DEF Spec
=============================================================================
