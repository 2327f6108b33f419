---------------------------- MODULE AccountSession ----------------------------
(***************************************************************************)
(* Who is logged in, in the tabs of ONE browser: the tokens and the          *)
(* AuthContext of each tab, its single-flight refresh, the cookie and the    *)
(* localStorage key the tabs share, and the RefreshToken rows of             *)
(* auth-service.  The gateway judges a request by its access token alone,    *)
(* /auth/refresh by the cookie alone.                                        *)
(* Requests are cut where they are sent, served and answered; the requests   *)
(* of a tab that is reloaded are forgotten by it.                            *)
(***************************************************************************)
EXTENDS Integers

CONSTANTS
    Tabs,
    Logins,        \* submissions of the login form, each makes one row
    Users,
    Owner,         \* Logins -> Users
    NoLogin, NoUser,
    MaxFaults      \* bound: requests that fail without being judged

ASSUME OwnerAssumption == Owner \in [Logins -> Users]
ASSUME NoneAssumption == NoLogin \notin Logins /\ NoUser \notin Users
ASSUME FaultsAssumption == MaxFaults \in Nat

VARIABLES
    row,       \* RefreshToken of each login: none, live, gone
    cookie,    \* the login the browser's refreshToken cookie is of
    stored,    \* localStorage has vm_refresh_token
    status,    \* AuthContext.status; "off" while the page is not open
    me,        \* AuthContext.userId
    access,    \* whose access token the tab holds
    call,      \* requests through `api`
    refresh,   \* the promise `refreshing` and its request
    form,      \* the login request of AuthPage
    leaving,   \* history: the cookie when "Sign out" was clicked, unless a refresh
               \* of an older one was under way or the cookie has changed since
    faults

context == <<status, me, access>>
vars == <<row, cookie, stored, context, call, refresh, form, leaving, faults>>

\* getMe on the first load and after a login, any other REST call, logout.
Kinds == {"load", "me", "use", "logout"}

\* A request: its place, whose token it carries, the login of its cookie (for
\* logout), and _retried.  What an answer no longer depends on is forgotten.
Idle == [at |-> "idle", by |-> NoUser, sess |-> NoLogin, again |-> FALSE]
NoRefresh == [at |-> "idle", by |-> NoUser, sess |-> NoLogin]
NoForm == [at |-> "idle", login |-> NoLogin]

TypeOK ==
    /\ row \in [Logins -> {"none", "live", "gone"}]
    /\ cookie \in Logins \cup {NoLogin}
    /\ stored \in BOOLEAN
    /\ status \in [Tabs -> {"off", "loading", "anonymous", "authenticated"}]
    /\ me \in [Tabs -> Users \cup {NoUser}] /\ access \in [Tabs -> Users \cup {NoUser}]
    /\ call \in [Tabs -> [Kinds ->
          [at: {"idle", "sent", "ok", "denied", "error", "wait"}, by: Users \cup {NoUser},
           sess: Logins \cup {NoLogin}, again: BOOLEAN]]]
    /\ refresh \in [Tabs -> [at: {"idle", "sent", "ok", "bad"}, by: Users \cup {NoUser},
                             sess: Logins \cup {NoLogin}]]
    /\ form \in [Tabs -> [at: {"idle", "sent", "ok", "error"}, login: Logins \cup {NoLogin}]]
    /\ leaving \in [Tabs -> Logins \cup {NoLogin}]
    /\ faults \in 0..MaxFaults
    \* a call waits for a refresh that is under way, and is replayed only once
    /\ \A t \in Tabs, k \in Kinds :
          call[t][k].at = "wait" => refresh[t].at # "idle" /\ call[t][k].again

Init ==
    /\ row = [n \in Logins |-> "none"]
    /\ cookie = NoLogin /\ stored = FALSE
    /\ status = [t \in Tabs |-> "off"]
    /\ me = [t \in Tabs |-> NoUser] /\ access = [t \in Tabs |-> NoUser]
    /\ call = [t \in Tabs |-> [k \in Kinds |-> Idle]]
    /\ refresh = [t \in Tabs |-> NoRefresh]
    /\ form = [t \in Tabs |-> NoForm]
    /\ leaving = [t \in Tabs |-> NoLogin]
    /\ faults = 0

Fault == faults < MaxFaults /\ faults' = faults + 1

\* The request interceptor attaches the token, the browser the cookie.
Request(k, who, retried) ==
    [at |-> "sent", by |-> who, sess |-> IF k = "logout" THEN cookie ELSE NoLogin,
     again |-> retried]

Send(t, k) == call' = [call EXCEPT ![t][k] = Request(k, access[t], FALSE)]

Answered(t, k, at) ==
    call' = [call EXCEPT ![t][k] =
          [Idle EXCEPT !.at = at, !.again = call[t][k].again,
                       !.by = IF at = "ok" /\ k \in {"load", "me"}
                               THEN call[t][k].by ELSE NoUser]]

\* tokenStore.clear() and the anonymous state.
SignOut(t, who) ==
    /\ access' = [access EXCEPT ![t] = NoUser]
    /\ stored' = FALSE
    /\ status' = [status EXCEPT ![t] = "anonymous"]
    /\ me' = [me EXCEPT ![t] = who]

-----------------------------------------------------------------------------
(* What the user and the sockets do *)

\* AuthProvider mounts: ask who we are if there is a trace of a session.
Open(t) ==
    /\ status[t] = "off"
    /\ IF stored
       THEN /\ status' = [status EXCEPT ![t] = "loading"]
            /\ Send(t, "load")
       ELSE /\ status' = [status EXCEPT ![t] = "anonymous"]
            /\ UNCHANGED call
    /\ UNCHANGED <<row, cookie, stored, me, access, refresh, form, leaving, faults>>

\* What the page forgets may still be on its way to the server: a logout served
\* there now ends its session as SessionExpires may at any time, a refresh
\* changes no row, and a login makes one that no cookie names.
Reload(t) ==
    /\ status[t] # "off"
    /\ status' = [status EXCEPT ![t] = "off"]
    /\ me' = [me EXCEPT ![t] = NoUser]
    /\ access' = [access EXCEPT ![t] = NoUser]
    /\ call' = [call EXCEPT ![t] = [k \in Kinds |-> Idle]]
    /\ refresh' = [refresh EXCEPT ![t] = NoRefresh]
    /\ form' = [form EXCEPT ![t] = NoForm]
    /\ leaving' = [leaving EXCEPT ![t] = NoLogin]
    /\ UNCHANGED <<row, cookie, stored, faults>>

\* Bound: one such call at a time, and one of each kind.
UseApi(t) ==
    /\ status[t] = "authenticated" /\ call[t]["use"].at = "idle"
    /\ Send(t, "use")
    /\ UNCHANGED <<row, cookie, stored, context, refresh, form, leaving, faults>>

ClickLogout(t) ==
    /\ status[t] = "authenticated" /\ call[t]["logout"].at = "idle"
    /\ Send(t, "logout")
    /\ leaving' = [leaving EXCEPT ![t] =
          IF refresh[t].at = "idle" \/ refresh[t].sess = cookie THEN cookie ELSE NoLogin]
    /\ UNCHANGED <<row, cookie, stored, context, refresh, form, faults>>

\* A socket (re)connects with less than 30 s left on the token.
SocketAuth(t) ==
    /\ status[t] = "authenticated" /\ refresh[t].at = "idle"
    /\ stored \/ access[t] # NoUser
    /\ refresh' = [refresh EXCEPT ![t] = [at |-> "sent", by |-> NoUser, sess |-> cookie]]
    /\ UNCHANGED <<row, cookie, stored, context, call, form, leaving, faults>>

\* /login is a public page: whoever is logged in may submit it, too.
SubmitLogin(t, n) ==
    /\ status[t] # "off" /\ form[t].at = "idle" /\ call[t]["me"].at = "idle"
    /\ row[n] = "none" /\ \A u \in Tabs : form[u].login # n
    /\ form' = [form EXCEPT ![t] = [at |-> "sent", login |-> n]]
    /\ UNCHANGED <<row, cookie, stored, context, call, refresh, leaving, faults>>

-----------------------------------------------------------------------------
(* The server *)

\* gatewayAuth lets the request through.
Accept(t, k) ==
    LET c == call[t][k] IN
    /\ c.at = "sent" /\ c.by # NoUser
    /\ Answered(t, k, "ok")
    /\ row' = [n \in Logins |->
                  IF k = "logout" /\ n = c.sess /\ row[n] = "live" THEN "gone" ELSE row[n]]
    /\ UNCHANGED <<cookie, stored, context, refresh, form, leaving, faults>>

\* 401: no token, or its 15 minutes are over, which may be at any request but the
\* replay with a token just issued.
Deny(t, k) ==
    /\ call[t][k].at = "sent" /\ ~call[t][k].again
    /\ Answered(t, k, "denied")
    /\ UNCHANGED <<row, cookie, stored, context, refresh, form, leaving, faults>>

\* No answer, 5xx or 429.
CallFails(t, k) ==
    /\ call[t][k].at = "sent" /\ Fault
    /\ Answered(t, k, "error")
    /\ UNCHANGED <<row, cookie, stored, context, refresh, form, leaving>>

\* The row of the cookie decides; what the body says is not read.
ServeRefresh(t) ==
    LET n == refresh[t].sess IN
    /\ refresh[t].at = "sent"
    /\ refresh' = [refresh EXCEPT ![t] =
          IF n \in Logins /\ row[n] = "live"
          THEN [NoRefresh EXCEPT !.at = "ok", !.by = Owner[n]] ELSE [@ EXCEPT !.at = "bad"]]
    /\ UNCHANGED <<row, cookie, stored, context, call, form, leaving, faults>>

RefreshFails(t) ==
    /\ refresh[t].at = "sent" /\ Fault
    /\ refresh' = [refresh EXCEPT ![t].at = "bad"]
    /\ UNCHANGED <<row, cookie, stored, context, call, form, leaving>>

ServeLogin(t) ==
    /\ form[t].at = "sent"
    /\ form' = [form EXCEPT ![t].at = "ok"]
    /\ row' = [row EXCEPT ![form[t].login] = "live"]
    /\ UNCHANGED <<cookie, stored, context, call, refresh, leaving, faults>>

RefuseLogin(t) ==
    /\ form[t].at = "sent"
    /\ form' = [form EXCEPT ![t].at = "error"]
    /\ UNCHANGED <<row, cookie, stored, context, call, refresh, leaving, faults>>

\* 7 days; the next refresh deletes the row.
SessionExpires(n) ==
    /\ row[n] = "live"
    /\ row' = [row EXCEPT ![n] = "gone"]
    /\ UNCHANGED <<cookie, stored, context, call, refresh, form, leaving, faults>>

-----------------------------------------------------------------------------
(* The answers *)

\* loadMe: the answer names the user of the token it was asked with.
HearMe(t, k) ==
    /\ k \in {"load", "me"} /\ call[t][k].at = "ok"
    /\ me' = [me EXCEPT ![t] = call[t][k].by]
    /\ status' = [status EXCEPT ![t] = "authenticated"]
    /\ call' = [call EXCEPT ![t][k] = Idle]
    /\ UNCHANGED <<row, cookie, stored, access, refresh, form, leaving, faults>>

HearUse(t) ==
    /\ call[t]["use"].at = "ok"
    /\ call' = [call EXCEPT ![t]["use"] = Idle]
    /\ UNCHANGED <<row, cookie, stored, context, refresh, form, leaving, faults>>

\* clearCookie, whatever cookie is there by now.
HearLogout(t) ==
    /\ call[t]["logout"].at = "ok"
    /\ cookie' = NoLogin
    /\ SignOut(t, NoUser)
    /\ call' = [call EXCEPT ![t]["logout"] = Idle]
    /\ leaving' = [u \in Tabs |-> NoLogin]
    /\ UNCHANGED <<row, refresh, form, faults>>

\* Mutant: a 401 is taken for the end of the session.
HearDeniedSignsOut(t, k) ==
    /\ call[t][k].at = "denied" /\ ~call[t][k].again
    /\ SignOut(t, NoUser)
    /\ call' = [call EXCEPT ![t][k] = Idle]
    /\ UNCHANGED <<row, cookie, refresh, form, leaving, faults>>

\* The response interceptor: the first 401 of a request joins the refresh.
HearDenied(t, k) ==
    /\ call[t][k].at = "denied" /\ ~call[t][k].again
    /\ call' = [call EXCEPT ![t][k].at = "wait", ![t][k].again = TRUE]
    /\ refresh' = IF refresh[t].at = "idle"
                  THEN [refresh EXCEPT ![t] = [at |-> "sent", by |-> NoUser, sess |-> cookie]]
                  ELSE refresh
    /\ UNCHANGED <<row, cookie, stored, context, form, leaving, faults>>

\* Mutant: logout is one of NO_REFRESH_PATHS.
HearFailureOfLogout(t, k) ==
    /\ \/ call[t][k].at = "error"
       \/ call[t][k].at = "denied" /\ (call[t][k].again \/ k = "logout")
    /\ call' = [call EXCEPT ![t][k] = Idle]
    /\ IF k \in {"load", "logout"}
       THEN SignOut(t, IF k = "logout" THEN NoUser ELSE me[t])
       ELSE UNCHANGED <<stored, context>>
    /\ leaving' = [leaving EXCEPT ![t] = IF k = "logout" THEN NoLogin ELSE @]
    /\ UNCHANGED <<row, cookie, refresh, form, faults>>

\* A second 401 or an error: the first load and logout clear the tokens, the
\* others only report it.
HearFailure(t, k) ==
    /\ \/ call[t][k].at = "error"
       \/ call[t][k].at = "denied" /\ call[t][k].again
    /\ call' = [call EXCEPT ![t][k] = Idle]
    /\ IF k \in {"load", "logout"}
       THEN SignOut(t, IF k = "logout" THEN NoUser ELSE me[t])
       ELSE UNCHANGED <<stored, context>>
    /\ leaving' = [leaving EXCEPT ![t] = IF k = "logout" THEN NoLogin ELSE @]
    /\ UNCHANGED <<row, cookie, refresh, form, faults>>

Waiting(t) == {k \in Kinds : call[t][k].at = "wait"}

\* The new token is stored, and every request that waited is sent again with it.
HearRefreshed(t) ==
    /\ refresh[t].at = "ok"
    /\ access' = [access EXCEPT ![t] = refresh[t].by]
    /\ call' = [call EXCEPT ![t] = [k \in Kinds |->
          IF k \in Waiting(t) THEN Request(k, refresh[t].by, TRUE) ELSE @[k]]]
    /\ refresh' = [refresh EXCEPT ![t] = NoRefresh]
    /\ UNCHANGED <<row, cookie, stored, status, me, form, leaving, faults>>

\* Mutant: the refresh goes through `api`, and its 401 waits for itself.
HearRefreshFailedInside(t) ==
    /\ refresh[t].at = "bad" /\ Waiting(t) = {}
    /\ refresh' = [refresh EXCEPT ![t] = NoRefresh]
    /\ UNCHANGED <<row, cookie, stored, context, call, form, leaving, faults>>

\* The session has expired, unless only a socket asked.
HearRefreshFailed(t) ==
    /\ refresh[t].at = "bad"
    /\ IF Waiting(t) # {} THEN SignOut(t, NoUser) ELSE UNCHANGED <<stored, context>>
    /\ call' = [call EXCEPT ![t] = [k \in Kinds |-> IF k \in Waiting(t) THEN Idle ELSE @[k]]]
    /\ refresh' = [refresh EXCEPT ![t] = NoRefresh]
    /\ leaving' = [leaving EXCEPT ![t] = IF "logout" \in Waiting(t) THEN NoLogin ELSE @]
    /\ UNCHANGED <<row, cookie, form, faults>>

\* Set-Cookie, the tokens are stored, and getMe follows.
HearLogin(t) ==
    LET n == form[t].login IN
    /\ form[t].at = "ok"
    /\ form' = [form EXCEPT ![t] = NoForm]
    /\ cookie' = n /\ stored' = TRUE
    /\ leaving' = [u \in Tabs |-> NoLogin]
    /\ access' = [access EXCEPT ![t] = Owner[n]]
    /\ call' = [call EXCEPT ![t]["me"] = Request("me", Owner[n], FALSE)]
    /\ UNCHANGED <<row, status, me, refresh, faults>>

HearLoginRefused(t) ==
    /\ form[t].at = "error"
    /\ form' = [form EXCEPT ![t] = NoForm]
    /\ UNCHANGED <<row, cookie, stored, context, call, refresh, leaving, faults>>

-----------------------------------------------------------------------------
CallStep(t, k) ==
    \/ Accept(t, k) \/ Deny(t, k) \/ HearMe(t, k) \/ HearDenied(t, k) \/ HearFailure(t, k)
    \/ k = "use" /\ HearUse(t)
    \/ k = "logout" /\ HearLogout(t)
RefreshStep(t) == ServeRefresh(t) \/ HearRefreshed(t) \/ HearRefreshFailed(t)
LoginStep(t) ==
    \/ \E n \in Logins : SubmitLogin(t, n)
    \/ ServeLogin(t) \/ RefuseLogin(t) \/ HearLogin(t) \/ HearLoginRefused(t)
Next ==
    \/ \E t \in Tabs :
          \/ Open(t) \/ Reload(t) \/ UseApi(t) \/ ClickLogout(t) \/ SocketAuth(t)
          \/ \E k \in Kinds : CallStep(t, k) \/ CallFails(t, k)
          \/ RefreshStep(t) \/ RefreshFails(t)
          \/ LoginStep(t)
    \/ \E n \in Logins : SessionExpires(n)

Spec == Init /\ [][Next]_vars

\* Requests are answered one way or another, and answers are heard.
Fairness ==
    \A t \in Tabs :
        /\ \A k \in Kinds : WF_vars(CallStep(t, k))
        /\ WF_vars(RefreshStep(t))

FairSpec == Spec /\ Fairness

-----------------------------------------------------------------------------
(* Properties *)

\* "Sign out" ends the session on the server, also when the access token had
\* expired and logout itself was refused first: when it is done the row of the
\* session that was left is gone, unless a request was lost.
LogoutRevokes ==
    [][\A t \in Tabs :
          /\ call[t]["logout"].at # "idle" /\ call'[t]["logout"].at = "idle"
          /\ status'[t] = "anonymous"
          /\ leaving[t] # NoLogin /\ faults = 0
          => row[leaving[t]] # "live"]_vars

\* Nobody is logged out by the expiry of an access token: a tab falls back to
\* anonymous by its own "Sign out", by a lost request, or because the session
\* its cookie named is over.
OnlyTheSessionEnds ==
    [][\A t \in Tabs :
          status[t] = "authenticated" /\ status'[t] = "anonymous" =>
          \/ call[t]["logout"].at # "idle"
          \/ faults > 0
          \/ refresh[t].sess = NoLogin \/ row[refresh[t].sess] # "live"]_vars

\* Every request ends: the calls that wait for one refresh do not wait for each
\* other, and none is replayed forever.
CallsSettle ==
    \A t \in Tabs, k \in Kinds : []<>(call[t][k].at = "idle")
=============================================================================
