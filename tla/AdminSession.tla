----------------------------- MODULE AdminSession -----------------------------
(***************************************************************************)
(* Login, logout and the gate of the administration pages:                 *)
(* web/src/layouts/admin-layout.tsx, web/src/pages/admin/login.tsx, the    *)
(* request function of web/src/lib/api.ts, and on the server               *)
(* internal/httpapi/auth.go, context.go and internal/auth/session.go.      *)
(*                                                                         *)
(* The tabs of a browser share its cookies: the session and the CSRF       *)
(* token, which the answer to a login sets and the answer to a logout      *)
(* clears, both together.  A call reads the token for its header when it   *)
(* is made; the browser attaches the cookies later, when it sends it, and  *)
(* an answer to another tab may have changed them in between.  Every login *)
(* makes a session and a token of the same number.                         *)
(***************************************************************************)
EXTENDS Naturals

CONSTANTS
  Tabs,          \* browser tabs
  MaxSessions    \* bound: logins that succeed

ASSUME AdminSessionAssumption == MaxSessions \in Nat

VARIABLES
  adminTab,      \* per tab: what it shows, and the token there was when it was opened
  adminCall,     \* per tab: the call on its way
  cookies,       \* the browser: session and csrf_token; 0 is none
  sessions,      \* Redis: the live sessions
  lastSession,   \* the number of sessions made
  refused        \* per tab: sessions under which a change was refused for its token

sessionVars == <<adminTab, adminCall, cookies, sessions, lastSession, refused>>

NoCookies == [session |-> 0, csrf_token |-> 0]
Idle == [op |-> "none", cookies |-> NoCookies, header |-> 0, state |-> "none", set |-> NoCookies]

AdminSessionInit ==
  /\ adminTab = [t \in Tabs |-> [view |-> "closed", token |-> 0]]
  /\ adminCall = [t \in Tabs |-> Idle]
  /\ cookies = NoCookies
  /\ sessions = {}
  /\ lastSession = 0
  /\ refused = [t \in Tabs |-> {}]

-----------------------------------------------------------------------------
(* Requests.                                                               *)

\* Faulty variant: the token is read once, when the tab is opened.
getCSRFToken_AtOpen(t) == adminTab[t].token

\* getCSRFToken reads document.cookie at every call.
getCSRFToken(t) == cookies.csrf_token

\* request up to fetch: a mutating call has the token in a header.
Request(t, op) ==
  [op |-> op, cookies |-> NoCookies, header |-> IF op = "me" THEN 0 ELSE getCSRFToken(t),
   state |-> "made", set |-> NoCookies]

Show(t, view) == adminTab' = [adminTab EXCEPT ![t].view = view]
SendFrom(t, op) == adminCall' = [adminCall EXCEPT ![t] = Request(t, op)]

\* AdminLayout is mounted: its effect asks who is logged in.
OpenAdmin(t) ==
  /\ adminTab[t].view = "closed"
  /\ adminTab' = [adminTab EXCEPT ![t] = [view |-> "gate", token |-> cookies.csrf_token]]
  /\ SendFrom(t, "me")
  /\ UNCHANGED <<cookies, sessions, lastSession, refused>>

\* handleSubmit of the login form, handleLogout, and any page's change.
Click(t, view, op) ==
  /\ adminTab[t].view = view /\ adminCall[t] = Idle
  /\ SendFrom(t, op)
  /\ UNCHANGED <<adminTab, cookies, sessions, lastSession, refused>>

SubmitLogin(t) == Click(t, "login", "login")
handleLogout(t) == Click(t, "admin", "logout")
Change(t) == Click(t, "admin", "change")

\* The browser sends the call that fetch was given, with the cookies it has by now.
AttachCookies(t) ==
  /\ adminCall[t].state = "made"
  /\ adminCall' = [adminCall EXCEPT ![t].state = "sent", ![t].cookies = cookies]
  /\ UNCHANGED <<adminTab, cookies, sessions, lastSession, refused>>

\* The tab is closed or reloaded; alive = false drops the answer to me.
CloseTab(t) ==
  /\ adminTab[t].view # "closed"
  /\ Show(t, "closed")
  /\ adminCall' = [adminCall EXCEPT ![t] = Idle]
  /\ UNCHANGED <<cookies, sessions, lastSession, refused>>

-----------------------------------------------------------------------------
(* The server.                                                             *)

\* AdminAuthMiddleware: the session first, then, for a change, the token.
Verdict(call) ==
  CASE call.cookies.session \notin sessions -> "unauthorized"
    [] call.cookies.session \in sessions /\ call.op = "change"
       /\ (call.cookies.csrf_token = 0 \/ call.header # call.cookies.csrf_token) -> "forbidden"
    [] OTHER -> "ok"

Respond(t, state, set) ==
  /\ adminCall[t].state = "sent"
  /\ adminCall' = [adminCall EXCEPT ![t].state = state, ![t].set = set]
  /\ UNCHANGED <<adminTab, cookies, refused>>

ServeAuthed(t) ==
  /\ adminCall[t].op \in {"me", "change"}
  /\ Respond(t, Verdict(adminCall[t]), NoCookies)
  /\ UNCHANGED <<sessions, lastSession>>

\* Login: a new session; the old one, if any, lives on until it expires.
Login(t) ==
  /\ adminCall[t].op = "login"
  /\ \/ /\ lastSession < MaxSessions
        /\ lastSession' = lastSession + 1
        /\ sessions' = sessions \union {lastSession'}
        /\ Respond(t, "ok", [session |-> lastSession', csrf_token |-> lastSession'])
     \/ Respond(t, "unauthorized", NoCookies) /\ UNCHANGED <<sessions, lastSession>>

\* Logout: an error of Delete is ignored, and the cookies are cleared all the same.
Logout(t) ==
  /\ adminCall[t].op = "logout"
  /\ sessions' \in {sessions, sessions \ {adminCall[t].cookies.session}}
  /\ Respond(t, "ok", NoCookies)
  /\ UNCHANGED lastSession

\* The lifetime of a session ends in Redis, that of the cookies in the browser.
SessionExpires ==
  /\ \E s \in sessions : sessions' = sessions \ {s}
  /\ UNCHANGED <<adminTab, adminCall, cookies, lastSession, refused>>

CookiesExpire ==
  /\ cookies # NoCookies
  /\ cookies' = NoCookies
  /\ UNCHANGED <<adminTab, adminCall, sessions, lastSession, refused>>

-----------------------------------------------------------------------------
(* Answers.                                                                *)

\* Faulty variant: a gate whose call failed for another reason than 401 waits on.
Gate_Only401(state) ==
  CASE state = "ok" -> "admin" [] state = "unauthorized" -> "login" [] OTHER -> "gate"

\* setAuth: anything but a success leads to the login page.
Gate(state) == IF state = "ok" THEN "admin" ELSE "login"

\* The answer to a call, or its failure ("error", also a 500 of the middleware).
\* A login that succeeds navigates to the gate, whose effect asks again; a logout
\* navigates to the login page in any case.
Ended(t, state) ==
  LET op == adminCall[t].op
  IN \/ op = "me" /\ Show(t, Gate(state)) /\ adminCall' = [adminCall EXCEPT ![t] = Idle]
     \/ op = "change" /\ UNCHANGED adminTab /\ adminCall' = [adminCall EXCEPT ![t] = Idle]
     \/ op = "logout" /\ Show(t, "login") /\ adminCall' = [adminCall EXCEPT ![t] = Idle]
     \/ op = "login" /\ state = "ok" /\ Show(t, "gate") /\ SendFrom(t, "me")
     \/ /\ op = "login" /\ state # "ok"
        /\ adminCall' = [adminCall EXCEPT ![t] = Idle]
        /\ UNCHANGED adminTab

\* The cookies once the head of an answer is there, even if its body is lost.
SetCookies(call) ==
  IF call.state = "ok" /\ call.op \in {"login", "logout"} THEN call.set ELSE cookies

\* A change that was refused for its token is remembered with the session it had.
SessionAnswer(t) ==
  /\ \/ /\ adminCall[t].state \in {"ok", "unauthorized", "forbidden"}
        /\ Ended(t, adminCall[t].state)
        /\ cookies' = SetCookies(adminCall[t])
     \/ /\ adminCall[t].state # "none"
        /\ Ended(t, "error")
        /\ cookies' \in {cookies, SetCookies(adminCall[t])}
  /\ refused' = IF adminCall[t].state = "forbidden"
                THEN [refused EXCEPT ![t] = @ \union {adminCall[t].cookies.session}] ELSE refused
  /\ UNCHANGED <<sessions, lastSession>>

AdminSessionNext ==
  \/ SessionExpires \/ CookiesExpire
  \/ \E t \in Tabs :
       \/ OpenAdmin(t) \/ SubmitLogin(t) \/ handleLogout(t) \/ Change(t) \/ CloseTab(t)
       \/ AttachCookies(t) \/ ServeAuthed(t) \/ Login(t) \/ Logout(t) \/ SessionAnswer(t)

\* A call on its way is answered or fails, in the browser at the latest.
AdminSessionFairness == \A t \in Tabs : WF_sessionVars(SessionAnswer(t))

-----------------------------------------------------------------------------
(* Properties.                                                             *)

\* A tab's changes are refused for their CSRF token at most once under one session:
\* an answer to another tab that slips in between the header and the cookies costs one
\* change, and the next one passes, because getCSRFToken reads the cookie every time.
RefusedOnce ==
  \A t \in Tabs : adminCall[t].state = "forbidden" => adminCall[t].cookies.session \notin refused[t]

\* A tab does not stay at the gate for ever: the pages or the login are shown, also
\* when the session store is down or the answer is lost.
GateOpens == \A t \in Tabs : adminTab[t].view = "gate" ~> adminTab[t].view # "gate"

=============================================================================
