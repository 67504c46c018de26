----------------------------- MODULE WebSession -----------------------------
(***************************************************************************)
(* Web login, sessions and the CSRF token of the API                       *)
(* (internal/server/server.go, internal/store/session.go), seen from the   *)
(* tabs of one browser.  The tabs share one cookie jar; a page keeps the   *)
(* CSRF token it was rendered with for as long as it is open.              *)
(*                                                                         *)
(* A random string is a number that was not used before.  The CSRF token   *)
(* of a session is as unique as its id, so the id stands for both.  Users  *)
(* are never deleted: UpsertUser leaves a user that GetUserByID finds.     *)
(***************************************************************************)
EXTENDS Naturals

CONSTANTS
    Tabs,
    People,       \* Google accounts
    TTL,          \* config.SessionTTL: 7 days
    StateTTL,     \* MaxAge of oauth_state: 300 seconds
    MaxSessions,  \* bound: sessions ever created
    MaxStates,    \* bound: logins ever started
    MaxTime,      \* bound: the clock
    None

Sids == 1 .. MaxSessions
Session == [user : People, expires : Nat]

ASSUME TimesAssumption ==
    /\ {TTL, StateTTL, MaxSessions, MaxStates, MaxTime} \subseteq Nat
    /\ None \notin Session \cup People

VARIABLES
    now,
    sessions,  \* table sessions
    made,      \* how many sessions were ever inserted
    states,    \* how many oauth_state values were ever handed out
    jar,       \* the cookies: a value, 0 for none, and the time it is dropped
    tab,       \* what each tab shows or waits for
    ends,      \* history: when each session ends
    meddled    \* history: tabs during whose login another login began or ended

vars == <<now, sessions, made, states, jar, tab, ends, meddled>>

\* Where a tab is: on Google's page; waiting for the callback (`exchange',
\* then `answer' once the session row is there); on a page of the site;
\* waiting for a write (`sent', `checked', `acting'); or told no.
Places == {"blank", "google", "exchange", "answer", "page",
           "sent", "checked", "acting", "refused", "badstate"}

\* `who' is the account a page shows or a login is for; `csrf' is the token
\* of the page; `sid' is the session cookie a request was sent with;
\* `acting' is the user the handler works for.
Tab == [at : Places, state : 0 .. MaxStates, since : 0 .. MaxTime,
        who : People \cup {None}, csrf : 0 .. MaxSessions,
        sid : 0 .. MaxSessions, acting : People \cup {None}]
Blank == [at |-> "blank", state |-> 0, since |-> 0, who |-> None, csrf |-> 0,
          sid |-> 0, acting |-> None]

TypeOK ==
    /\ now \in 0 .. MaxTime
    /\ sessions \in [Sids -> Session \cup {None}]
    /\ made \in 0 .. MaxSessions
    /\ states \in 0 .. MaxStates
    /\ jar \in [state : 0 .. MaxStates, stateTill : Nat,
                sid : 0 .. MaxSessions, sidTill : Nat]
    /\ tab \in [Tabs -> Tab]
    /\ ends \in [Sids -> Nat]
    /\ meddled \in SUBSET Tabs

Init ==
    /\ now = 0
    /\ sessions = [n \in Sids |-> None]
    /\ made = 0
    /\ states = 0
    /\ jar = [state |-> 0, stateTill |-> 0, sid |-> 0, sidTill |-> 0]
    /\ tab = [t \in Tabs |-> Blank]
    /\ ends = [n \in Sids |-> 0]
    /\ meddled = {}

\* What the browser sends.
StateCookie == IF now < jar.stateTill THEN jar.state ELSE 0
SidCookie == IF now < jar.sidTill THEN jar.sid ELSE 0

\* GetSession: WHERE id=$1 AND expires_at > NOW()
Alive(n) == n \in Sids /\ sessions[n] # None /\ sessions[n].expires > now

UserOfBug(n) == n
UserOf(n) == sessions[n].user

LoggingIn(t) == tab[t].at \in {"google", "exchange", "answer"}
Disturb(t) == meddled \cup {u \in Tabs \ {t} : LoggingIn(u)}

-----------------------------------------------------------------------------
(***************************************************************************)
(* Login.                                                                  *)
(***************************************************************************)
StateTillBug == jar.stateTill
StateTill == now + StateTTL

\* handleGoogleLogin: a new state goes into the cookie and into the URL of
\* Google's page that the tab is sent to.
GoToLogin(t) ==
    /\ states < MaxStates
    /\ states' = states + 1
    /\ jar' = [jar EXCEPT !.state = states + 1, !.stateTill = StateTill]
    /\ tab' = [tab EXCEPT ![t] = [Blank EXCEPT !.at = "google", !.state = states + 1,
                                               !.since = now]]
    /\ meddled' = Disturb(t) \ {t}
    /\ UNCHANGED <<now, sessions, made, ends>>

Login(t) ==
    /\ tab[t].at \in {"blank", "page", "refused", "badstate"}
    /\ GoToLogin(t)

\* The person picks an account and Google sends the tab to the callback.
StateOk(t) == StateCookie # 0 /\ StateCookie = tab[t].state
Callback(t, u) ==
    /\ tab[t].at = "google"
    /\ tab' = [tab EXCEPT ![t] =
                 IF StateOk(t) THEN [@ EXCEPT !.at = "exchange", !.who = u]
                 ELSE [@ EXCEPT !.at = "badstate"]]
    /\ UNCHANGED <<now, sessions, made, states, jar, ends, meddled>>

\* The code is exchanged, the user upserted, and the session inserted.
CreateSession(t) ==
    /\ tab[t].at = "exchange"
    /\ made < MaxSessions
    /\ made' = made + 1
    /\ sessions' = [sessions EXCEPT ![made + 1] =
                       [user |-> tab[t].who, expires |-> now + TTL]]
    /\ ends' = [ends EXCEPT ![made + 1] = now + TTL]
    /\ tab' = [tab EXCEPT ![t] = [@ EXCEPT !.at = "answer", !.sid = made + 1]]
    /\ UNCHANGED <<now, states, jar, meddled>>

\* The answer sets the session cookie and drops oauth_state, whichever login
\* it belongs to; the tab is redirected to /ui/items.
SidTillBug == now + 1
SidTill == now + TTL
SignedIn(t) ==
    /\ tab[t].at = "answer"
    /\ jar' = [state |-> 0, stateTill |-> 0, sid |-> tab[t].sid, sidTill |-> SidTill]
    /\ tab' = [tab EXCEPT ![t] = Blank]
    /\ meddled' = Disturb(t)
    /\ UNCHANGED <<now, sessions, made, states, ends>>

\* An error of Google or the database, or the tab goes elsewhere: a request
\* that is on its way is forgotten, a session that was inserted stays.
Leave(t) ==
    /\ tab[t].at # "blank"
    /\ tab' = [tab EXCEPT ![t] = Blank]
    /\ UNCHANGED <<now, sessions, made, states, jar, ends, meddled>>

-----------------------------------------------------------------------------
(***************************************************************************)
(* Pages and writes.                                                       *)
(***************************************************************************)

\* requireWeb and the handlers under /ui: the page carries the CSRF token of
\* the session that the cookie names.
OpenPage(t) ==
    /\ tab[t].at \in {"blank", "page", "refused", "badstate"}
    /\ Alive(SidCookie)
    /\ tab' = [tab EXCEPT ![t] = [Blank EXCEPT !.at = "page", !.csrf = SidCookie,
                                               !.who = UserOf(SidCookie)]]
    /\ UNCHANGED <<now, sessions, made, states, jar, ends, meddled>>

\* No session: redirect to /v1/auth/google/login.
OpenRedirected(t) ==
    /\ tab[t].at \in {"blank", "page", "refused", "badstate"}
    /\ ~Alive(SidCookie)
    /\ GoToLogin(t)

\* static/app.js sends the token of the page, the browser its cookie of now.
SendWrite(t) ==
    /\ tab[t].at = "page"
    /\ tab' = [tab EXCEPT ![t] = [@ EXCEPT !.at = "sent", !.sid = SidCookie]]
    /\ UNCHANGED <<now, sessions, made, states, jar, ends, meddled>>

\* checkCSRF reads the session for the first time.
CsrfOkBug(t) == Alive(tab[t].sid)
CsrfOk(t) == Alive(tab[t].sid) /\ tab[t].csrf = tab[t].sid
CheckCSRF(t) ==
    /\ tab[t].at = "sent"
    /\ tab' = [tab EXCEPT ![t].at = IF CsrfOk(t) THEN "checked" ELSE "refused"]
    /\ UNCHANGED <<now, sessions, made, states, jar, ends, meddled>>

\* authenticate reads it again.
Authenticate(t) ==
    /\ tab[t].at = "checked"
    /\ tab' = [tab EXCEPT ![t] =
                 IF Alive(tab[t].sid)
                 THEN [@ EXCEPT !.at = "acting", !.acting = UserOf(tab[t].sid)]
                 ELSE [@ EXCEPT !.at = "refused"]]
    /\ UNCHANGED <<now, sessions, made, states, jar, ends, meddled>>

\* POST /ui/quick-add reads the session once, in requireWeb.
QuickAdd(t) ==
    /\ tab[t].at = "page"
    /\ Alive(SidCookie)
    /\ LET sent == [tab[t] EXCEPT !.sid = SidCookie]
       IN  tab' = [tab EXCEPT ![t] =
                     IF tab[t].csrf = SidCookie
                     THEN [sent EXCEPT !.at = "acting", !.acting = UserOf(SidCookie)]
                     ELSE [sent EXCEPT !.at = "refused"]]
    /\ UNCHANGED <<now, sessions, made, states, jar, ends, meddled>>

\* The handler has answered, and the page shows what came of the write.
Answered(t) ==
    /\ tab[t].at \in {"acting", "refused"}
    /\ tab' = [tab EXCEPT ![t] = [@ EXCEPT !.at = "page", !.sid = 0, !.acting = None]]
    /\ UNCHANGED <<now, sessions, made, states, jar, ends, meddled>>

\* The worker, every minute: DELETE ... WHERE expires_at <= NOW()
ExpiredEarlyBug(s) == s.expires <= now + 1
ExpiredJustNowBug(s) == s.expires = now
Expired(s) == s.expires <= now
CleanupExpiredSessions ==
    /\ \E n \in Sids : sessions[n] # None /\ Expired(sessions[n])
    /\ sessions' = [n \in Sids |-> IF sessions[n] # None /\ Expired(sessions[n]) THEN None
                                   ELSE sessions[n]]
    /\ UNCHANGED <<now, made, states, jar, tab, ends, meddled>>

Tick ==
    /\ now < MaxTime
    /\ now' = now + 1
    /\ UNCHANGED <<sessions, made, states, jar, tab, ends, meddled>>

Next ==
    \/ Tick
    \/ CleanupExpiredSessions
    \/ \E t \in Tabs :
        \/ Login(t) \/ CreateSession(t) \/ SignedIn(t) \/ Leave(t)
        \/ \E u \in People : Callback(t, u)
        \/ OpenPage(t) \/ OpenRedirected(t)
        \/ SendWrite(t) \/ CheckCSRF(t) \/ Authenticate(t) \/ QuickAdd(t) \/ Answered(t)

\* The worker's ticker runs on.
Spec == Init /\ [][Next]_vars /\ WF_vars(CleanupExpiredSessions)
-----------------------------------------------------------------------------
(***************************************************************************)
(* Properties                                                              *)
(***************************************************************************)

\* A write is done for the account whose page it was sent from, even if
\* another tab has meanwhile signed in with another account and replaced the
\* cookie (server.go 517-594, 631-651, 704-727).
WritesMatchPage ==
    \A t \in Tabs : tab[t].at = "acting" => tab[t].acting = tab[t].who

\* A write from a page is refused only if the session of the page has run
\* its full length, or another login has replaced the cookie: not because
\* the worker cleaned up early, nor because the browser dropped the cookie
\* before the session's end (server.go 236-245, session.go 15-53).
RefusedOnlyForCause ==
    \A t \in Tabs : tab[t].at = "refused" =>
        \/ ends[tab[t].csrf] <= now
        \/ tab[t].sid # 0 /\ tab[t].sid # tab[t].csrf

\* A login fails for its state only if the person took longer than the
\* cookie lasts, or another tab began or finished a login meanwhile: the
\* cookie is shared, and each login overwrites or drops it
\* (server.go 131-173, 247-254).
LoginRefusedOnlyForCause ==
    \A t \in Tabs : tab[t].at = "badstate" =>
        now >= tab[t].since + StateTTL \/ t \in meddled

\* The worker deletes expired sessions (README.md 40): none stays for ever
\* (cmd/worker/main.go 57-66).
ExpiredSessionsGo ==
    \A n \in Sids : (made >= n /\ ends[n] <= now) ~> sessions[n] = None
=============================================================================
