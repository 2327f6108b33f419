------------------------ MODULE AccountSession_proofs ------------------------
(***************************************************************************)
(* Safety of AccountSession for any tabs, logins, users and lost requests.  *)
(***************************************************************************)
EXTENDS AccountSession, TLAPS

USE DEF context

CallType == [at: {"idle", "sent", "ok", "denied", "error", "wait"}, by: Users \cup {NoUser},
             sess: Logins \cup {NoLogin}, again: BOOLEAN]
RefreshType == [at: {"idle", "sent", "ok", "bad"}, by: Users \cup {NoUser},
                sess: Logins \cup {NoLogin}]
FormType == [at: {"idle", "sent", "ok", "error"}, login: Logins \cup {NoLogin}]

\* A login request is of one login, and of no other tab's.
FormInv ==
    /\ \A t \in Tabs : form[t].at # "idle" => form[t].login \in Logins
    /\ \A t, u \in Tabs : form[t].login \in Logins /\ form[t].login = form[u].login => t = u

Waits == \A t \in Tabs, k \in Kinds :
            call[t][k].at = "wait" => refresh[t].at # "idle" /\ call[t][k].again

LEMMA TypeFacts ==
  ASSUME TypeOK
  PROVE  /\ row \in [Logins -> {"none", "live", "gone"}]
         /\ cookie \in Logins \cup {NoLogin} /\ stored \in BOOLEAN
         /\ status \in [Tabs -> {"off", "loading", "anonymous", "authenticated"}]
         /\ me \in [Tabs -> Users \cup {NoUser}] /\ access \in [Tabs -> Users \cup {NoUser}]
         /\ call \in [Tabs -> [Kinds -> CallType]]
         /\ refresh \in [Tabs -> RefreshType] /\ form \in [Tabs -> FormType]
         /\ leaving \in [Tabs -> Logins \cup {NoLogin}]
         /\ faults \in 0..MaxFaults /\ Waits
  BY DEF TypeOK, CallType, RefreshType, FormType, Waits

LEMMA Atoms ==
  /\ Idle \in CallType /\ Idle.at = "idle" /\ Idle.again = FALSE
  /\ NoRefresh \in RefreshType /\ NoRefresh.at = "idle" /\ NoRefresh.sess = NoLogin
  /\ NoForm \in FormType /\ NoForm.at = "idle" /\ NoForm.login = NoLogin
  BY DEF Idle, NoRefresh, NoForm, CallType, RefreshType, FormType

\* What a request and an answer are.
LEMMA RequestTyped ==
  ASSUME TypeOK, NEW k \in Kinds, NEW who \in Users \cup {NoUser}, NEW b \in BOOLEAN
  PROVE  /\ Request(k, who, b) \in CallType
         /\ Request(k, who, b).at = "sent" /\ Request(k, who, b).again = b
         /\ Request(k, who, b).sess = IF k = "logout" THEN cookie ELSE NoLogin
  BY DEF Request, CallType, TypeOK

LEMMA AnsweredTyped ==
  ASSUME TypeOK, NEW t \in Tabs, NEW k \in Kinds, NEW at \in {"ok", "denied", "error"},
         Answered(t, k, at)
  PROVE  \E a \in CallType :
            /\ call' = [call EXCEPT ![t][k] = a]
            /\ a.at = at /\ a.again = call[t][k].again
<1> DEFINE by == IF at = "ok" /\ k \in {"load", "me"} THEN call[t][k].by ELSE NoUser
<1> DEFINE a == [Idle EXCEPT !.at = at, !.again = call[t][k].again, !.by = by]
<1>1. call[t][k] \in CallType
  BY TypeFacts
<1>2. by \in Users \cup {NoUser} /\ call[t][k].again \in BOOLEAN
  BY <1>1 DEF CallType
<1>3. call' = [call EXCEPT ![t][k] = a]
  BY DEF Answered
<1> HIDE DEF by
<1>5. a \in CallType /\ a.at = at /\ a.again = call[t][k].again
  BY <1>2 DEF CallType, Idle
<1> QED
  BY <1>3, <1>5

\* A call that ends, or is sent, waits for nothing.
LEMMA CallTyped ==
  ASSUME TypeOK, NEW t \in Tabs, NEW k \in Kinds, NEW a \in CallType,
         call' = [call EXCEPT ![t][k] = a], a.at # "wait", refresh' = refresh
  PROVE  call' \in [Tabs -> [Kinds -> CallType]] /\ Waits'
<1>1. call' \in [Tabs -> [Kinds -> CallType]]
  BY TypeFacts
<1>2. ASSUME NEW u \in Tabs, NEW j \in Kinds
      PROVE  call'[u][j] = call[u][j] \/ call'[u][j] = a
  BY TypeFacts
<1>3. Waits'
  BY <1>2, TypeFacts DEF Waits
<1> QED
  BY <1>1, <1>3

LEMMA TypeInit == Init => TypeOK /\ FormInv
<1> SUFFICES ASSUME Init PROVE TypeOK /\ FormInv
  OBVIOUS
<1>1. call \in [Tabs -> [Kinds -> CallType]] /\ Waits
  BY Atoms DEF Init, Waits
<1>2. refresh \in [Tabs -> RefreshType] /\ form \in [Tabs -> FormType]
  BY Atoms DEF Init
<1>3. FormInv
  BY Atoms, NoneAssumption DEF Init, FormInv
<1>4. stored \in BOOLEAN
  BY Zenon DEF Init
<1> QED
  BY <1>1, <1>2, <1>3, <1>4, FaultsAssumption
     DEF Init, TypeOK, CallType, RefreshType, FormType, Waits

\* How the form of a tab moves.
LEMMA FormNext == TypeOK /\ FormInv /\ [Next]_vars => form' \in [Tabs -> FormType] /\ FormInv'
<1> SUFFICES ASSUME TypeOK, FormInv, [Next]_vars
             PROVE  form' \in [Tabs -> FormType] /\ FormInv'
  OBVIOUS
<1>t. form \in [Tabs -> FormType]
  BY TypeFacts
<1>1. CASE form' = form
  BY <1>1, <1>t DEF FormInv
<1>2. ASSUME NEW t \in Tabs, form' = [form EXCEPT ![t] = NoForm]
      PROVE  form' \in [Tabs -> FormType] /\ FormInv'
  BY <1>2, <1>t, Atoms, NoneAssumption DEF FormInv
<1>3. ASSUME NEW t \in Tabs, NEW n \in Logins, SubmitLogin(t, n)
      PROVE  form' \in [Tabs -> FormType] /\ FormInv'
  <2> DEFINE f == [at |-> "sent", login |-> n]
  <2>1. f \in FormType /\ f.at = "sent" /\ f.login = n
    BY DEF FormType
  <2> HIDE DEF f
  <2>2. form' = [form EXCEPT ![t] = f] /\ \A u \in Tabs : form[u].login # n
    BY <1>3 DEF SubmitLogin, f
  <2> QED
    BY <1>t, <2>1, <2>2 DEF FormInv
<1>4. ASSUME NEW t \in Tabs, NEW at \in {"ok", "error"}, form[t].at = "sent",
             form' = [form EXCEPT ![t].at = at]
      PROVE  form' \in [Tabs -> FormType] /\ FormInv'
  <2>1. form' \in [Tabs -> FormType]
    BY <1>4, <1>t DEF FormType
  <2>2. \A u \in Tabs : form'[u].login = form[u].login
                        /\ (form'[u].at # "idle" => form[u].at # "idle")
    BY <1>4, <1>t DEF FormType
  <2> QED
    BY <2>1, <2>2 DEF FormInv
<1>5. ASSUME NEW t \in Tabs,
             \/ Open(t) \/ UseApi(t) \/ ClickLogout(t) \/ SocketAuth(t)
             \/ RefreshStep(t) \/ RefreshFails(t)
      PROVE  form' = form
  BY <1>5 DEF Open, UseApi, ClickLogout, SocketAuth, RefreshStep, RefreshFails, ServeRefresh,
     HearRefreshed, HearRefreshFailed
<1>6. ASSUME NEW t \in Tabs, NEW k \in Kinds, CallStep(t, k) \/ CallFails(t, k)
      PROVE  form' = form
  BY <1>6 DEF CallStep, CallFails, Accept, Deny, HearMe, HearDenied, HearFailure, HearUse,
     HearLogout
<1>7. ASSUME NEW t \in Tabs, Reload(t) \/ HearLogin(t) \/ HearLoginRefused(t)
      PROVE  form' = [form EXCEPT ![t] = NoForm]
  BY <1>7 DEF Reload, HearLogin, HearLoginRefused
<1>8. ASSUME NEW t \in Tabs, ServeLogin(t) \/ RefuseLogin(t)
      PROVE  form' \in [Tabs -> FormType] /\ FormInv'
  BY <1>4, <1>8 DEF ServeLogin, RefuseLogin
<1>9. ASSUME NEW n \in Logins, SessionExpires(n) PROVE form' = form
  BY <1>9 DEF SessionExpires
<1>10. CASE UNCHANGED vars
  BY <1>1, <1>10 DEF vars
<1> QED
  BY <1>1, <1>2, <1>3, <1>5, <1>6, <1>7, <1>8, <1>9, <1>10 DEF Next, LoginStep

\* What the tabs show and hold, and the rows: whatever is written is typed.
PageTyped ==
    /\ row \in [Logins -> {"none", "live", "gone"}]
    /\ cookie \in Logins \cup {NoLogin} /\ stored \in BOOLEAN
    /\ status \in [Tabs -> {"off", "loading", "anonymous", "authenticated"}]
    /\ me \in [Tabs -> Users \cup {NoUser}] /\ access \in [Tabs -> Users \cup {NoUser}]
    /\ leaving \in [Tabs -> Logins \cup {NoLogin}]
    /\ faults \in 0..MaxFaults

NetTyped ==
    /\ call \in [Tabs -> [Kinds -> CallType]] /\ refresh \in [Tabs -> RefreshType] /\ Waits

LEMMA SignOutTyped ==
  ASSUME TypeOK, NEW t \in Tabs, NEW who \in Users \cup {NoUser}, SignOut(t, who)
  PROVE  /\ stored' \in BOOLEAN
         /\ status' \in [Tabs -> {"off", "loading", "anonymous", "authenticated"}]
         /\ me' \in [Tabs -> Users \cup {NoUser}] /\ access' \in [Tabs -> Users \cup {NoUser}]
<1>1. stored' \in BOOLEAN
  BY Zenon DEF SignOut
<1> QED
  BY <1>1, TypeFacts DEF SignOut

LEMMA RefreshStarted ==
  ASSUME TypeOK, NEW t \in Tabs
  PROVE  LET r == [at |-> "sent", by |-> NoUser, sess |-> cookie] IN
         r \in RefreshType /\ r.at = "sent" /\ r.sess = cookie
  BY TypeFacts DEF RefreshType

\* How the pages move.
LEMMA PageNext == TypeOK /\ FormInv /\ [Next]_vars => PageTyped'
<1> SUFFICES ASSUME TypeOK, FormInv, [Next]_vars PROVE PageTyped'
  OBVIOUS
<1>t. PageTyped /\ call \in [Tabs -> [Kinds -> CallType]] /\ refresh \in [Tabs -> RefreshType]
  BY TypeFacts DEF PageTyped
<1> USE DEF PageTyped
<1>1. ASSUME NEW t \in Tabs,
             \/ Open(t) \/ Reload(t) \/ UseApi(t) \/ ClickLogout(t) \/ SocketAuth(t)
      PROVE  PageTyped'
  BY <1>1, <1>t DEF Open, Reload, UseApi, ClickLogout, SocketAuth
<1>2. ASSUME NEW t \in Tabs, NEW k \in Kinds, Accept(t, k) PROVE PageTyped'
  <2>1. row' \in [Logins -> {"none", "live", "gone"}]
    BY <1>2, <1>t DEF Accept
  <2> QED
    BY <1>2, <1>t, <2>1 DEF Accept
<1>3. ASSUME NEW t \in Tabs, NEW k \in Kinds, Deny(t, k) \/ CallFails(t, k) \/ HearDenied(t, k)
      PROVE  PageTyped'
  BY <1>3, <1>t, FaultsAssumption DEF Deny, CallFails, HearDenied, Fault
<1>4. ASSUME NEW t \in Tabs, NEW k \in Kinds, HearMe(t, k) PROVE PageTyped'
  <2>1. call[t][k].by \in Users \cup {NoUser}
    BY <1>t DEF CallType
  <2> QED
    BY <1>4, <1>t, <2>1 DEF HearMe
<1>5. ASSUME NEW t \in Tabs, HearUse(t) PROVE PageTyped'
  BY <1>5, <1>t DEF HearUse
<1>6. ASSUME NEW t \in Tabs, HearLogout(t) PROVE PageTyped'
  BY <1>6, <1>t, SignOutTyped DEF HearLogout
<1>7. ASSUME NEW t \in Tabs, NEW k \in Kinds, HearFailure(t, k) PROVE PageTyped'
  <2> DEFINE who == IF k = "logout" THEN NoUser ELSE me[t]
  <2>1. who \in Users \cup {NoUser}
    BY <1>t
  <2>2. leaving' \in [Tabs -> Logins \cup {NoLogin}]
    BY <1>7, <1>t DEF HearFailure
  <2>3. SignOut(t, who) \/ UNCHANGED <<stored, context>>
    BY <1>7 DEF HearFailure
  <2> HIDE DEF who
  <2> QED
    BY <1>7, <1>t, <2>1, <2>2, <2>3, SignOutTyped DEF HearFailure
<1>8. ASSUME NEW t \in Tabs, ServeRefresh(t) \/ RefreshFails(t) PROVE PageTyped'
  BY <1>8, <1>t, FaultsAssumption DEF ServeRefresh, RefreshFails, Fault
<1>9. ASSUME NEW t \in Tabs, HearRefreshed(t) PROVE PageTyped'
  <2>1. refresh[t].by \in Users \cup {NoUser}
    BY <1>t DEF RefreshType
  <2> QED
    BY <1>9, <1>t, <2>1 DEF HearRefreshed
<1>10. ASSUME NEW t \in Tabs, HearRefreshFailed(t) PROVE PageTyped'
  <2>1. leaving' \in [Tabs -> Logins \cup {NoLogin}]
    BY <1>10, <1>t DEF HearRefreshFailed
  <2>2. SignOut(t, NoUser) \/ UNCHANGED <<stored, context>>
    BY <1>10 DEF HearRefreshFailed
  <2> QED
    BY <1>10, <1>t, <2>1, <2>2, SignOutTyped DEF HearRefreshFailed
<1>11. ASSUME NEW t \in Tabs, HearLogin(t) PROVE PageTyped'
  <2>1. form[t].login \in Logins
    BY <1>11 DEF HearLogin, FormInv
  <2>2. Owner[form[t].login] \in Users
    BY <2>1, OwnerAssumption
  <2>3. stored' \in BOOLEAN
    BY <1>11, Zenon DEF HearLogin
  <2> QED
    BY <1>11, <1>t, <2>1, <2>2, <2>3 DEF HearLogin
<1>12. ASSUME NEW t \in Tabs, NEW n \in Logins, SubmitLogin(t, n) PROVE PageTyped'
  BY <1>12, <1>t DEF SubmitLogin
<1>13. ASSUME NEW t \in Tabs, ServeLogin(t) \/ RefuseLogin(t) \/ HearLoginRefused(t)
       PROVE  PageTyped'
  BY <1>13, <1>t DEF ServeLogin, RefuseLogin, HearLoginRefused
<1>14. ASSUME NEW n \in Logins, SessionExpires(n) PROVE PageTyped'
  BY <1>14, <1>t DEF SessionExpires
<1>15. CASE UNCHANGED vars
  BY <1>15, <1>t DEF vars
<1> QED
  BY <1>1, <1>2, <1>3, <1>4, <1>5, <1>6, <1>7, <1>8, <1>9, <1>10, <1>11, <1>12, <1>13, <1>14,
     <1>15 DEF Next, CallStep, RefreshStep, LoginStep

\* How the requests move.
LEMMA NetNext == TypeOK /\ FormInv /\ [Next]_vars => NetTyped'
<1> SUFFICES ASSUME TypeOK, FormInv, [Next]_vars PROVE NetTyped'
  OBVIOUS
<1>t. NetTyped /\ access \in [Tabs -> Users \cup {NoUser}] /\ form \in [Tabs -> FormType]
  BY TypeFacts DEF NetTyped
<1> USE DEF NetTyped
<1>u. CASE UNCHANGED <<call, refresh>>
  BY <1>u, <1>t DEF Waits
<1>c. ASSUME NEW t \in Tabs, NEW k \in Kinds, NEW a \in CallType,
             call' = [call EXCEPT ![t][k] = a], a.at # "wait", refresh' = refresh
      PROVE  NetTyped'
  BY <1>c, <1>t, CallTyped
<1>i. ASSUME NEW t \in Tabs, NEW k \in Kinds, call' = [call EXCEPT ![t][k] = Idle],
             refresh' = refresh
      PROVE  NetTyped'
  BY <1>i, <1>c, Atoms
<1>s. ASSUME NEW t \in Tabs, NEW k \in Kinds, Send(t, k), refresh' = refresh PROVE NetTyped'
  BY <1>s, <1>t, <1>c, RequestTyped DEF Send
<1>a. ASSUME NEW t \in Tabs, NEW k \in Kinds, NEW at \in {"ok", "denied", "error"},
             Answered(t, k, at), refresh' = refresh
      PROVE  NetTyped'
  BY <1>a, <1>c, AnsweredTyped
<1>r. ASSUME NEW t \in Tabs, NEW r \in RefreshType, r.at # "idle",
             refresh' = [refresh EXCEPT ![t] = r], call' = call
      PROVE  NetTyped'
  BY <1>r, <1>t DEF Waits
<1>1. ASSUME NEW t \in Tabs, Open(t) PROVE NetTyped'
  BY <1>1, <1>s, <1>u DEF Open, Kinds
<1>2. ASSUME NEW t \in Tabs, Reload(t) PROVE NetTyped'
  <2>1. call' \in [Tabs -> [Kinds -> CallType]] /\ refresh' \in [Tabs -> RefreshType]
    BY <1>2, <1>t, Atoms DEF Reload
  <2>2. Waits'
    BY <1>2, <1>t, Atoms DEF Reload, Waits
  <2> QED
    BY <2>1, <2>2
<1>3. ASSUME NEW t \in Tabs, UseApi(t) \/ ClickLogout(t) PROVE NetTyped'
  BY <1>3, <1>s DEF UseApi, ClickLogout, Kinds
<1>4. ASSUME NEW t \in Tabs, SocketAuth(t) PROVE NetTyped'
  BY <1>4, <1>r, RefreshStarted DEF SocketAuth
<1>5. ASSUME NEW t \in Tabs, NEW k \in Kinds, Accept(t, k) \/ Deny(t, k) \/ CallFails(t, k)
      PROVE  NetTyped'
  BY <1>5, <1>a DEF Accept, Deny, CallFails
<1>6. ASSUME NEW t \in Tabs, NEW k \in Kinds, HearMe(t, k) \/ HearFailure(t, k) PROVE NetTyped'
  BY <1>6, <1>i DEF HearMe, HearFailure
<1>7. ASSUME NEW t \in Tabs, HearUse(t) \/ HearLogout(t) PROVE NetTyped'
  BY <1>7, <1>i DEF HearUse, HearLogout, Kinds
<1>8. ASSUME NEW t \in Tabs, NEW k \in Kinds, HearDenied(t, k) PROVE NetTyped'
  <2> DEFINE c == call[t][k]
  <2> DEFINE a == [[c EXCEPT !.at = "wait"] EXCEPT !.again = TRUE]
  <2>0. c \in CallType
    BY <1>t
  <2>1. a \in CallType /\ a.again = TRUE
    <3> HIDE DEF c
    <3> QED
      BY <2>0 DEF CallType
  <2>2. call' = [call EXCEPT ![t][k] = a]
    BY <1>8, <1>t DEF HearDenied, CallType
  <2> HIDE DEF a, c
  <2>3. refresh' \in [Tabs -> RefreshType]
    BY <1>8, <1>t, RefreshStarted DEF HearDenied
  <2>4. refresh'[t].at # "idle" /\ \A u \in Tabs : refresh[u].at # "idle" => refresh'[u].at # "idle"
    BY <1>8, <1>t, RefreshStarted DEF HearDenied
  <2>5. call' \in [Tabs -> [Kinds -> CallType]]
    BY <1>t, <2>1, <2>2
  <2>6. ASSUME NEW u \in Tabs, NEW j \in Kinds
        PROVE  call'[u][j] = call[u][j] \/ (u = t /\ call'[u][j] = a)
    <3>1. call \in [Tabs -> [Kinds -> CallType]]
      BY <1>t
    <3>2. call[t] \in [Kinds -> CallType] /\ call[u] \in [Kinds -> CallType]
      BY <3>1
    <3>3. CASE u = t
      <4>1. call'[t] = [call[t] EXCEPT ![k] = a]
        BY <2>2, <3>1
      <4> QED
        BY <3>2, <3>3, <4>1
    <3>4. CASE u # t
      BY <2>2, <3>1, <3>4
    <3> QED
      BY <3>3, <3>4
  <2>7. Waits'
    BY <1>t, <2>1, <2>4, <2>6 DEF Waits
  <2> QED
    BY <2>3, <2>5, <2>7
<1>9. ASSUME NEW t \in Tabs, ServeRefresh(t) PROVE NetTyped'
  <2> DEFINE n == refresh[t].sess
  <2> DEFINE ok == [NoRefresh EXCEPT !.at = "ok", !.by = Owner[n]]
  <2> DEFINE bad == [refresh[t] EXCEPT !.at = "bad"]
  <2>1. CASE n \in Logins /\ row[n] = "live"
    <3>1. Owner[n] \in Users
      BY <2>1, OwnerAssumption
    <3>2. ok \in RefreshType /\ ok.at = "ok"
      BY <3>1 DEF NoRefresh, RefreshType
    <3>3. refresh' = [refresh EXCEPT ![t] = ok] /\ call' = call
      BY <1>9, <2>1 DEF ServeRefresh
    <3> QED
      BY <1>r, <3>2, <3>3
  <2>2. CASE ~(n \in Logins /\ row[n] = "live")
    <3>1. bad \in RefreshType /\ bad.at = "bad"
      BY <1>t DEF RefreshType
    <3>2. refresh' = [refresh EXCEPT ![t] = bad] /\ call' = call
      BY <1>9, <2>2 DEF ServeRefresh
    <3> QED
      BY <1>r, <3>1, <3>2
  <2> QED
    BY <2>1, <2>2
<1>10. ASSUME NEW t \in Tabs, RefreshFails(t) PROVE NetTyped'
  <2> DEFINE bad == [refresh[t] EXCEPT !.at = "bad"]
  <2>1. bad \in RefreshType /\ bad.at = "bad"
    BY <1>t DEF RefreshType
  <2>2. refresh' = [refresh EXCEPT ![t] = bad] /\ call' = call
    BY <1>10 DEF RefreshFails
  <2> QED
    BY <1>r, <2>1, <2>2
<1>11. ASSUME NEW t \in Tabs, HearRefreshed(t) \/ HearRefreshFailed(t) PROVE NetTyped'
  <2>1. refresh' = [refresh EXCEPT ![t] = NoRefresh]
    BY <1>11 DEF HearRefreshed, HearRefreshFailed
  <2>2. PICK g \in [Kinds -> CallType] :
          /\ call' = [call EXCEPT ![t] = g]
          /\ \A k \in Kinds : g[k].at # "wait"
    <3>1. CASE HearRefreshed(t)
      <4> DEFINE g == [k \in Kinds |->
            IF k \in Waiting(t) THEN Request(k, refresh[t].by, TRUE) ELSE call[t][k]]
      <4>1. refresh[t].by \in Users \cup {NoUser}
        BY <1>t DEF RefreshType
      <4>2. ASSUME NEW k \in Kinds PROVE g[k] \in CallType /\ g[k].at # "wait"
        BY <1>t, <4>1, RequestTyped DEF Waiting
      <4>3. call' = [call EXCEPT ![t] = g]
        BY <3>1 DEF HearRefreshed
      <4> QED
        BY <4>2, <4>3
    <3>2. CASE HearRefreshFailed(t)
      <4> DEFINE g == [k \in Kinds |-> IF k \in Waiting(t) THEN Idle ELSE call[t][k]]
      <4>1. ASSUME NEW k \in Kinds PROVE g[k] \in CallType /\ g[k].at # "wait"
        BY <1>t, Atoms DEF Waiting
      <4>2. call' = [call EXCEPT ![t] = g]
        BY <3>2 DEF HearRefreshFailed
      <4> QED
        BY <4>1, <4>2
    <3> QED
      BY <1>11, <3>1, <3>2
  <2>3. call' \in [Tabs -> [Kinds -> CallType]] /\ refresh' \in [Tabs -> RefreshType]
    BY <1>t, <2>1, <2>2, Atoms
  <2>4. Waits'
    BY <1>t, <2>1, <2>2 DEF Waits
  <2> QED
    BY <2>3, <2>4
<1>12. ASSUME NEW t \in Tabs, HearLogin(t) PROVE NetTyped'
  <2>1. Owner[form[t].login] \in Users
    BY <1>12, OwnerAssumption DEF HearLogin, FormInv
  <2> QED
    BY <1>12, <1>c, <2>1, RequestTyped DEF HearLogin, Kinds
<1>13. ASSUME NEW t \in Tabs, NEW n \in Logins, SubmitLogin(t, n) PROVE NetTyped'
  BY <1>13, <1>u DEF SubmitLogin
<1>14. ASSUME NEW t \in Tabs, ServeLogin(t) \/ RefuseLogin(t) \/ HearLoginRefused(t)
       PROVE  NetTyped'
  BY <1>14, <1>u DEF ServeLogin, RefuseLogin, HearLoginRefused
<1>15. ASSUME NEW n \in Logins, SessionExpires(n) PROVE NetTyped'
  BY <1>15, <1>u DEF SessionExpires
<1>16. CASE UNCHANGED vars
  BY <1>16, <1>u DEF vars
<1> QED
  BY <1>1, <1>2, <1>3, <1>4, <1>5, <1>6, <1>7, <1>8, <1>9, <1>10, <1>11, <1>12, <1>13, <1>14,
     <1>15, <1>16 DEF Next, CallStep, RefreshStep, LoginStep

LEMMA TypeNext == TypeOK /\ FormInv /\ [Next]_vars => TypeOK' /\ FormInv'
<1> SUFFICES ASSUME TypeOK, FormInv, [Next]_vars PROVE TypeOK' /\ FormInv'
  OBVIOUS
<1>1. PageTyped' /\ NetTyped' /\ form' \in [Tabs -> FormType] /\ FormInv'
  BY PageNext, NetNext, FormNext
<1> QED
  BY <1>1 DEF TypeOK, PageTyped, NetTyped, Waits, CallType, RefreshType, FormType

\* Every reachable state has the declared shape; a call only waits for a refresh
\* that is under way, and only once, for any number of tabs and logins.
THEOREM TypeCorrect == Spec => []TypeOK
<1> QED
  BY TypeInit, TypeNext, PTL DEF Spec

-----------------------------------------------------------------------------
(* The rows *)

\* A session that a cookie or a refresh names was opened; one that a login is
\* under way for was not.
RowInv ==
    /\ \A t \in Tabs : form[t].at = "sent" => row[form[t].login] = "none"
    /\ \A t \in Tabs : form[t].at = "ok" => row[form[t].login] # "none"
    /\ cookie \in Logins => row[cookie] # "none"
    /\ \A t \in Tabs : refresh[t].sess \in Logins => row[refresh[t].sess] # "none"

\* No row comes back.
RowsAge == \A n \in Logins :
              row[n] # "none" => row'[n] # "none" /\ (row'[n] = "live" => row[n] = "live")

LEMMA RowMoves ==
  ASSUME TypeOK, FormInv, RowInv, [Next]_vars
  PROVE  /\ RowsAge
         /\ \A n \in Logins : row[n] = "none" /\ row'[n] # "none" =>
               \E t \in Tabs : n = form[t].login /\ form[t].at = "sent" /\ form'[t].at = "ok"
<1> DEFINE Goal == /\ RowsAge
                   /\ \A n \in Logins : row[n] = "none" /\ row'[n] # "none" =>
                         \E t \in Tabs : n = form[t].login /\ form[t].at = "sent"
                                         /\ form'[t].at = "ok"
<1>t. row \in [Logins -> {"none", "live", "gone"}] /\ form \in [Tabs -> FormType]
  BY TypeFacts
<1>1. row' = row => Goal
  BY DEF RowsAge
<1>2. ASSUME NEW t \in Tabs, NEW k \in Kinds, Accept(t, k) PROVE Goal
  BY <1>2, <1>t DEF Accept, RowsAge
<1>3. ASSUME NEW t \in Tabs, ServeLogin(t) PROVE Goal
  <2>1. form[t].at = "sent" /\ form[t].login \in Logins /\ row[form[t].login] = "none"
    BY <1>3 DEF ServeLogin, FormInv, RowInv
  <2>2. form'[t].at = "ok"
    BY <1>3, <1>t DEF ServeLogin, FormType
  <2>3. row' = [row EXCEPT ![form[t].login] = "live"]
    BY <1>3 DEF ServeLogin
  <2> QED
    BY <1>t, <2>1, <2>2, <2>3 DEF RowsAge
<1>4. ASSUME NEW n \in Logins, SessionExpires(n) PROVE Goal
  BY <1>4, <1>t DEF SessionExpires, RowsAge
<1>5. ASSUME NEW t \in Tabs,
             \/ Open(t) \/ Reload(t) \/ UseApi(t) \/ ClickLogout(t) \/ SocketAuth(t)
             \/ RefreshStep(t) \/ RefreshFails(t)
      PROVE  row' = row
  BY <1>5 DEF Open, Reload, UseApi, ClickLogout, SocketAuth, RefreshStep, RefreshFails,
     ServeRefresh, HearRefreshed, HearRefreshFailed
<1>6. ASSUME NEW t \in Tabs, NEW k \in Kinds, CallStep(t, k) \/ CallFails(t, k) PROVE Goal
  <2>1. CASE Accept(t, k)
    BY <1>2, <2>1
  <2>2. CASE ~Accept(t, k)
    <3>1. row' = row
      BY <1>6, <2>2
         DEF CallStep, CallFails, Deny, HearMe, HearDenied, HearFailure, HearUse, HearLogout
    <3> QED
      BY <1>1, <3>1
  <2> QED
    BY <2>1, <2>2
<1>7. ASSUME NEW t \in Tabs, LoginStep(t) PROVE Goal
  <2>1. CASE ServeLogin(t)
    BY <1>3, <2>1
  <2>2. CASE ~ServeLogin(t)
    <3>1. row' = row
      BY <1>7, <2>2 DEF LoginStep, SubmitLogin, RefuseLogin, HearLogin, HearLoginRefused
    <3> QED
      BY <1>1, <3>1
  <2> QED
    BY <2>1, <2>2
<1>8. ASSUME UNCHANGED vars PROVE Goal
  BY <1>1, <1>8 DEF vars
<1> HIDE DEF Goal
<1>9. Goal
  BY <1>1, <1>4, <1>5, <1>6, <1>7, <1>8 DEF Next
<1> QED
  BY <1>9 DEF Goal

\* Where the cookie and the session of a refresh come from.
LEMMA CookieMoves ==
  ASSUME TypeOK, [Next]_vars
  PROVE  /\ \/ cookie' = cookie \/ cookie' = NoLogin
            \/ \E t \in Tabs : form[t].at = "ok" /\ cookie' = form[t].login
         /\ \A t \in Tabs : refresh'[t].sess \in {refresh[t].sess, cookie, NoLogin}
<1> DEFINE C == \/ cookie' = cookie \/ cookie' = NoLogin
                \/ \E t \in Tabs : form[t].at = "ok" /\ cookie' = form[t].login
<1> DEFINE R == \A t \in Tabs : refresh'[t].sess \in {refresh[t].sess, cookie, NoLogin}
<1>t. refresh \in [Tabs -> RefreshType] /\ call \in [Tabs -> [Kinds -> CallType]]
  BY TypeFacts
<1>0. refresh' = refresh => R
  OBVIOUS
<1>r. ASSUME NEW t \in Tabs, NEW r, refresh' = [refresh EXCEPT ![t] = r],
             r.sess \in {refresh[t].sess, cookie, NoLogin}
      PROVE  R
  BY <1>r, <1>t
<1> HIDE DEF R
<1>1. ASSUME NEW t \in Tabs, Open(t) \/ UseApi(t) \/ ClickLogout(t) PROVE C /\ R
  BY <1>1, <1>0 DEF Open, UseApi, ClickLogout
<1>2. ASSUME NEW t \in Tabs, Reload(t) PROVE C /\ R
  BY <1>2, <1>r, Atoms DEF Reload
<1>3. ASSUME NEW t \in Tabs, SocketAuth(t) PROVE C /\ R
  BY <1>3, <1>r, RefreshStarted DEF SocketAuth
<1>4. ASSUME NEW t \in Tabs, NEW k \in Kinds, HearDenied(t, k) PROVE C /\ R
  BY <1>4, <1>0, <1>r, RefreshStarted DEF HearDenied
<1>5. ASSUME NEW t \in Tabs, NEW k \in Kinds, CallStep(t, k) \/ CallFails(t, k)
      PROVE  C /\ R
  <2>1. CASE HearDenied(t, k)
    BY <1>4, <2>1
  <2>2. CASE ~HearDenied(t, k)
    BY <1>5, <1>0, <2>2
       DEF CallStep, CallFails, Accept, Deny, HearMe, HearFailure, HearUse, HearLogout
  <2> QED
    BY <2>1, <2>2
<1>6. ASSUME NEW t \in Tabs, ServeRefresh(t) PROVE C /\ R
  <2> DEFINE n == refresh[t].sess
  <2> DEFINE ok == [NoRefresh EXCEPT !.at = "ok", !.by = Owner[n]]
  <2> DEFINE bad == [refresh[t] EXCEPT !.at = "bad"]
  <2>1. ok.sess = NoLogin /\ bad.sess = refresh[t].sess
    BY <1>t DEF NoRefresh, RefreshType
  <2>2. \E r \in {ok, bad} : refresh' = [refresh EXCEPT ![t] = r]
    BY <1>6 DEF ServeRefresh
  <2>3. cookie' = cookie
    BY <1>6 DEF ServeRefresh
  <2> HIDE DEF n, ok, bad
  <2> QED
    BY <1>r, <2>1, <2>2, <2>3
<1>7. ASSUME NEW t \in Tabs, RefreshFails(t) PROVE C /\ R
  <2> DEFINE bad == [refresh[t] EXCEPT !.at = "bad"]
  <2>1. bad.sess = refresh[t].sess
    BY <1>t DEF RefreshType
  <2>2. refresh' = [refresh EXCEPT ![t] = bad] /\ cookie' = cookie
    BY <1>7 DEF RefreshFails
  <2> QED
    BY <1>r, <2>1, <2>2
<1>8. ASSUME NEW t \in Tabs, HearRefreshed(t) \/ HearRefreshFailed(t) PROVE C /\ R
  BY <1>8, <1>r, Atoms DEF HearRefreshed, HearRefreshFailed
<1>9. ASSUME NEW t \in Tabs, LoginStep(t) PROVE C /\ R
  BY <1>9, <1>0 DEF LoginStep, SubmitLogin, ServeLogin, RefuseLogin, HearLogin, HearLoginRefused
<1>10. ASSUME NEW n \in Logins, SessionExpires(n) PROVE C /\ R
  BY <1>10, <1>0 DEF SessionExpires
<1>11. ASSUME UNCHANGED vars PROVE C /\ R
  BY <1>11, <1>0 DEF vars
<1> HIDE DEF C
<1>12. C /\ R
  BY <1>1, <1>2, <1>3, <1>4, <1>5, <1>6, <1>7, <1>8, <1>9, <1>10, <1>11 DEF Next, RefreshStep
<1> QED
  BY <1>12 DEF C, R

LEMMA RowInit == Init => RowInv
<1> SUFFICES ASSUME Init PROVE RowInv
  OBVIOUS
<1> QED
  BY Atoms, NoneAssumption DEF Init, RowInv

LEMMA RowNext == TypeOK /\ FormInv /\ RowInv /\ [Next]_vars => RowInv'
<1> SUFFICES ASSUME TypeOK, FormInv, RowInv, [Next]_vars PROVE RowInv'
  OBVIOUS
<1>t. /\ row \in [Logins -> {"none", "live", "gone"}] /\ form \in [Tabs -> FormType]
      /\ row' \in [Logins -> {"none", "live", "gone"}] /\ form' \in [Tabs -> FormType]
      /\ FormInv'
  BY PageNext, FormNext, TypeFacts DEF PageTyped
<1>1. RowsAge
  BY RowMoves
<1>2. cookie' \in Logins => row'[cookie'] # "none"
  BY <1>1, CookieMoves, NoneAssumption DEF RowsAge, RowInv, FormInv
<1>3. \A t \in Tabs : refresh'[t].sess \in Logins => row'[refresh'[t].sess] # "none"
  BY <1>1, CookieMoves, NoneAssumption DEF RowsAge, RowInv
<1>4. ASSUME NEW t \in Tabs
      PROVE  /\ form'[t].at = "sent" => row'[form'[t].login] = "none"
             /\ form'[t].at = "ok" => row'[form'[t].login] # "none"
  <2>1. CASE form'[t] = form[t]
    <3>1. ASSUME form[t].at = "sent", row'[form[t].login] # "none" PROVE FALSE
      <4>1. form[t].login \in Logins /\ row[form[t].login] = "none"
        BY <3>1 DEF FormInv, RowInv
      <4>2. PICK u \in Tabs : form[t].login = form[u].login /\ form'[u].at = "ok"
        BY <3>1, <4>1, RowMoves
      <4>3. u = t
        BY <4>1, <4>2 DEF FormInv
      <4> QED
        BY <2>1, <3>1, <4>2, <4>3
    <3>2. form[t].at = "ok" => row'[form[t].login] # "none"
      BY <1>1 DEF RowsAge, RowInv, FormInv
    <3> QED
      BY <2>1, <3>1, <3>2
  <2>2. CASE form'[t] # form[t]
    <3>1. ASSUME NEW u \in Tabs, NEW n \in Logins, SubmitLogin(u, n)
          PROVE  form'[t].at = "sent" /\ row'[form'[t].login] = "none"
      <4> DEFINE f == [at |-> "sent", login |-> n]
      <4>1. form' = [form EXCEPT ![u] = f] /\ row' = row /\ row[n] = "none"
        BY <3>1 DEF SubmitLogin
      <4>2. f.at = "sent" /\ f.login = n
        OBVIOUS
      <4> HIDE DEF f
      <4> QED
        BY <1>t, <2>2, <4>1, <4>2
    <3>2. ASSUME NEW u \in Tabs, ServeLogin(u)
          PROVE  form'[t].at = "ok" /\ row'[form'[t].login] # "none"
      <4>1. u = t
        BY <1>t, <2>2, <3>2 DEF ServeLogin
      <4>2. form[t].login \in Logins
        BY <3>2, <4>1 DEF ServeLogin, FormInv
      <4>3. form'[t].at = "ok" /\ form'[t].login = form[t].login
        BY <1>t, <3>2, <4>1 DEF ServeLogin, FormType
      <4> QED
        BY <1>t, <3>2, <4>1, <4>2, <4>3 DEF ServeLogin
    <3>3. ASSUME NEW u \in Tabs, RefuseLogin(u) PROVE form'[t].at = "error"
      <4>1. u = t
        BY <1>t, <2>2, <3>3 DEF RefuseLogin
      <4> QED
        BY <1>t, <3>3, <4>1 DEF RefuseLogin, FormType
    <3>4. ASSUME NEW u \in Tabs, Reload(u) \/ HearLogin(u) \/ HearLoginRefused(u)
          PROVE  form'[t].at = "idle"
      BY <1>t, <2>2, <3>4, Atoms DEF Reload, HearLogin, HearLoginRefused
    <3>5. ASSUME NEW u \in Tabs,
                 \/ Open(u) \/ UseApi(u) \/ ClickLogout(u) \/ SocketAuth(u)
                 \/ RefreshStep(u) \/ RefreshFails(u)
          PROVE  FALSE
      BY <2>2, <3>5 DEF Open, UseApi, ClickLogout, SocketAuth, RefreshStep, RefreshFails,
         ServeRefresh, HearRefreshed, HearRefreshFailed
    <3>6. ASSUME NEW u \in Tabs, NEW k \in Kinds, CallStep(u, k) \/ CallFails(u, k)
          PROVE  FALSE
      BY <2>2, <3>6 DEF CallStep, CallFails, Accept, Deny, HearMe, HearDenied, HearFailure,
         HearUse, HearLogout
    <3>7. ASSUME NEW n \in Logins, SessionExpires(n) PROVE FALSE
      BY <2>2, <3>7 DEF SessionExpires
    <3>8. ~UNCHANGED vars
      BY <2>2 DEF vars
    <3> QED
      BY <3>1, <3>2, <3>3, <3>4, <3>5, <3>6, <3>7, <3>8 DEF Next, LoginStep
  <2> QED
    BY <2>1, <2>2
<1> QED
  BY <1>2, <1>3, <1>4 DEF RowInv

-----------------------------------------------------------------------------
(* The requests *)

\* A request is denied at most once and fails only when one was lost; a refresh
\* is refused only for a session that is over; logout and the refresh it waits for
\* go with the cookie that is to be left.
Asks(t) ==
    /\ \A k \in Kinds : /\ call[t][k].at = "denied" => ~call[t][k].again
                        /\ call[t][k].at = "error" => faults > 0
    /\ refresh[t].at = "bad" /\ faults = 0 =>
          refresh[t].sess = NoLogin \/ row[refresh[t].sess] # "live"
    /\ leaving[t] # NoLogin =>
          /\ leaving[t] = cookie
          /\ call[t]["logout"].at = "sent" => call[t]["logout"].sess = leaving[t]
          /\ call[t]["logout"].at = "ok" => row[leaving[t]] # "live"
          /\ refresh[t].at \in {"sent", "bad"} => refresh[t].sess = leaving[t]

AskInv == \A t \in Tabs : Asks(t)

\* What no step undoes.
Ageing == RowsAge /\ faults' \in Nat /\ faults \in Nat /\ faults' >= faults

LEMMA AsksFrame ==
  ASSUME TypeOK, RowInv, Ageing, NEW t \in Tabs, Asks(t),
         call'[t] = call[t], refresh'[t] = refresh[t], leaving'[t] \in {leaving[t], NoLogin},
         cookie' = cookie \/ leaving'[t] = NoLogin
  PROVE  Asks(t)'
<1>1. refresh[t].sess \in Logins \cup {NoLogin} /\ leaving[t] \in Logins \cup {NoLogin}
  BY TypeFacts DEF RefreshType
<1>2. ASSUME NEW n \in Logins, row[n] # "none", row[n] # "live" PROVE row'[n] # "live"
  BY <1>2 DEF Ageing, RowsAge
<1>3. refresh[t].sess \in Logins => row[refresh[t].sess] # "none"
  BY DEF RowInv
<1>4. leaving[t] # NoLogin => leaving[t] \in Logins /\ row[leaving[t]] # "none"
  BY <1>1 DEF Asks, RowInv
<1> QED
  BY <1>1, <1>2, <1>3, <1>4 DEF Asks, Ageing

LEMMA AsksCall ==
  ASSUME TypeOK, RowInv, Ageing, NEW t \in Tabs, Asks(t), NEW k \in Kinds, NEW a \in CallType,
         call' = [call EXCEPT ![t][k] = a], refresh'[t] = refresh[t],
         leaving'[t] \in {leaving[t], NoLogin}, cookie' = cookie \/ leaving'[t] = NoLogin,
         a.at = "denied" => ~a.again, a.at = "error" => faults' > 0,
         k = "logout" /\ leaving'[t] # NoLogin =>
            /\ a.at = "sent" => a.sess = leaving'[t]
            /\ a.at = "ok" => row'[leaving'[t]] # "live"
  PROVE  Asks(t)'
<1>1. refresh[t].sess \in Logins \cup {NoLogin} /\ leaving[t] \in Logins \cup {NoLogin}
  BY TypeFacts DEF RefreshType
<1>2. ASSUME NEW n \in Logins, row[n] # "none", row[n] # "live" PROVE row'[n] # "live"
  BY <1>2 DEF Ageing, RowsAge
<1>3. refresh[t].sess \in Logins => row[refresh[t].sess] # "none"
  BY DEF RowInv
<1>4. leaving[t] # NoLogin => leaving[t] \in Logins /\ row[leaving[t]] # "none"
  BY <1>1 DEF Asks, RowInv
<1>5. \A j \in Kinds : call'[t][j] = IF j = k THEN a ELSE call[t][j]
  BY TypeFacts
<1>6. \A j \in Kinds : /\ call'[t][j].at = "denied" => ~call'[t][j].again
                       /\ call'[t][j].at = "error" => faults' > 0
  BY <1>5 DEF Asks, Ageing
<1>7. refresh'[t].at = "bad" /\ faults' = 0 =>
         refresh'[t].sess = NoLogin \/ row'[refresh'[t].sess] # "live"
  BY <1>1, <1>2, <1>3 DEF Asks, Ageing
<1>8. ASSUME leaving'[t] # NoLogin
      PROVE  /\ leaving'[t] = cookie'
             /\ call'[t]["logout"].at = "sent" => call'[t]["logout"].sess = leaving'[t]
             /\ call'[t]["logout"].at = "ok" => row'[leaving'[t]] # "live"
             /\ refresh'[t].at \in {"sent", "bad"} => refresh'[t].sess = leaving'[t]
  <2>1. leaving'[t] = leaving[t] /\ cookie' = cookie
    BY <1>8
  <2>2. CASE k = "logout"
    BY <1>5, <1>8, <2>1, <2>2 DEF Asks, Kinds
  <2>3. CASE k # "logout"
    <3>1. call'[t]["logout"] = call[t]["logout"]
      BY <1>5, <2>3 DEF Kinds
    <3> QED
      BY <1>2, <1>4, <1>8, <2>1, <3>1 DEF Asks
  <2> QED
    BY <2>2, <2>3
<1> QED
  BY <1>6, <1>7, <1>8 DEF Asks

LEMMA AsksIdle ==
  ASSUME TypeOK, RowInv, Ageing, NEW t \in Tabs, Asks(t), NEW k \in Kinds,
         call' = [call EXCEPT ![t][k] = Idle], refresh'[t] = refresh[t],
         leaving'[t] \in {leaving[t], NoLogin}, cookie' = cookie \/ leaving'[t] = NoLogin
  PROVE  Asks(t)'
  BY AsksCall, Atoms

\* The first 401 of a request starts or joins the refresh.
LEMMA AsksHearDenied ==
  ASSUME TypeOK, RowInv, Ageing, NEW t \in Tabs, Asks(t), NEW k \in Kinds, HearDenied(t, k)
  PROVE  Asks(t)'
<1>t. call \in [Tabs -> [Kinds -> CallType]] /\ refresh \in [Tabs -> RefreshType]
  BY TypeFacts
<1>1. UNCHANGED <<row, cookie, leaving, faults>>
  BY DEF HearDenied
<1>2. \A j \in Kinds : /\ call'[t][j].at = IF j = k THEN "wait" ELSE call[t][j].at
                       /\ j # k => call'[t][j] = call[t][j]
  BY <1>t DEF HearDenied, CallType
<1>3. \/ refresh'[t] = refresh[t]
      \/ refresh'[t].at = "sent" /\ refresh'[t].sess = cookie
  BY <1>t, RefreshStarted DEF HearDenied
<1>4. \A j \in Kinds : /\ call'[t][j].at = "denied" => ~call'[t][j].again
                       /\ call'[t][j].at = "error" => faults' > 0
  BY <1>1, <1>2 DEF Asks
<1>5. "logout" \in Kinds
  BY DEF Kinds
<1>6. call'[t]["logout"] = call[t]["logout"] \/ call'[t]["logout"].at = "wait"
  BY <1>2, <1>5
<1> QED
  BY <1>1, <1>3, <1>4, <1>6 DEF Asks

\* The answer to a refresh replays or ends what waited for it.
LEMMA AsksHearRefresh ==
  ASSUME TypeOK, RowInv, Ageing, NEW t \in Tabs, Asks(t),
         HearRefreshed(t) \/ HearRefreshFailed(t)
  PROVE  Asks(t)'
<1>t. /\ call \in [Tabs -> [Kinds -> CallType]] /\ refresh \in [Tabs -> RefreshType]
      /\ leaving \in [Tabs -> Logins \cup {NoLogin}]
  BY TypeFacts
<1>1. UNCHANGED <<row, cookie, faults>> /\ refresh'[t] = NoRefresh
  BY <1>t DEF HearRefreshed, HearRefreshFailed
<1>2. leaving'[t] \in {leaving[t], NoLogin}
  BY <1>t DEF HearRefreshed, HearRefreshFailed
<1>3. ASSUME NEW k \in Kinds
      PROVE  \/ call'[t][k] = call[t][k]
             \/ call'[t][k].at = "sent" /\ (k = "logout" => call'[t][k].sess = cookie)
             \/ call'[t][k].at = "idle"
  <2>1. refresh[t].by \in Users \cup {NoUser}
    BY <1>t DEF RefreshType
  <2>2. CASE HearRefreshed(t)
    BY <1>t, <2>1, <2>2, RequestTyped DEF HearRefreshed
  <2>3. CASE HearRefreshFailed(t)
    BY <1>t, <2>3, Atoms DEF HearRefreshFailed
  <2> QED
    BY <2>2, <2>3
<1>4. \A k \in Kinds : /\ call'[t][k].at = "denied" => ~call'[t][k].again
                       /\ call'[t][k].at = "error" => faults' > 0
  BY <1>1, <1>3 DEF Asks
<1>5. "logout" \in Kinds
  BY DEF Kinds
<1> QED
  BY <1>1, <1>2, <1>3, <1>4, <1>5, Atoms DEF Asks

\* The row of the cookie decides over a refresh.
LEMMA AsksServeRefresh ==
  ASSUME TypeOK, RowInv, Ageing, NEW t \in Tabs, Asks(t), ServeRefresh(t) \/ RefreshFails(t)
  PROVE  Asks(t)'
<1>t. refresh \in [Tabs -> RefreshType]
  BY TypeFacts
<1>1. UNCHANGED <<row, cookie, call, leaving>> /\ refresh[t].at = "sent"
  BY DEF ServeRefresh, RefreshFails
<1> DEFINE n == refresh[t].sess
<1>2. n \in Logins \cup {NoLogin}
  BY <1>t DEF RefreshType
<1>3. \/ refresh'[t].at = "ok"
      \/ /\ refresh'[t].at = "bad" /\ refresh'[t].sess = n
         /\ faults' > 0 \/ n = NoLogin \/ row[n] # "live"
  <2>1. CASE ServeRefresh(t) /\ n \in Logins /\ row[n] = "live"
    BY <1>t, <2>1 DEF ServeRefresh, NoRefresh
  <2>2. CASE ServeRefresh(t) /\ ~(n \in Logins /\ row[n] = "live")
    BY <1>t, <1>2, <2>2 DEF ServeRefresh, RefreshType
  <2>3. CASE RefreshFails(t)
    BY <1>t, <2>3 DEF RefreshFails, RefreshType, Fault, Ageing
  <2> QED
    BY <2>1, <2>2, <2>3
<1>4. leaving[t] # NoLogin => n = leaving[t]
  BY <1>1 DEF Asks
<1> HIDE DEF n
<1> QED
  BY <1>1, <1>3, <1>4 DEF Asks, Ageing

LEMMA AskNext == TypeOK /\ FormInv /\ RowInv /\ AskInv /\ [Next]_vars => AskInv'
<1> SUFFICES ASSUME TypeOK, FormInv, RowInv, AskInv, [Next]_vars, NEW c \in Tabs PROVE Asks(c)'
  BY DEF AskInv
<1>c. Asks(c)
  BY DEF AskInv
<1>t. /\ call \in [Tabs -> [Kinds -> CallType]] /\ refresh \in [Tabs -> RefreshType]
      /\ leaving \in [Tabs -> Logins \cup {NoLogin}] /\ form \in [Tabs -> FormType]
  BY TypeFacts
<1>f. faults \in Nat /\ faults' \in Nat
  BY FaultsAssumption, PageNext DEF TypeOK, PageTyped
<1>r. RowsAge
  BY RowMoves
<1> DEFINE Frame == /\ call'[c] = call[c] /\ refresh'[c] = refresh[c]
                    /\ leaving'[c] \in {leaving[c], NoLogin}
                    /\ cookie' = cookie \/ leaving'[c] = NoLogin
                    /\ faults' >= faults
<1>s. Frame => Asks(c)'
  BY <1>c, <1>f, <1>r, AsksFrame DEF Ageing
<1>a. faults' >= faults => Ageing
  BY <1>f, <1>r DEF Ageing
<1>1. ASSUME NEW t \in Tabs, Open(t) PROVE Asks(c)'
  <2>0. call' = call \/ Send(t, "load")
    BY <1>1 DEF Open
  <2>1. c # t => Frame
    <3>1. c # t => call'[c] = call[c]
      BY <1>t, <2>0 DEF Send
    <3> QED
      BY <1>1, <1>f, <3>1 DEF Open
  <2>2. CASE c = t
    <3>1. Ageing /\ UNCHANGED <<refresh, leaving, cookie>>
      BY <1>1, <1>a, <1>f DEF Open
    <3>2. CASE call' = call
      BY <1>f, <1>s, <3>1, <3>2 DEF Ageing
    <3>3. CASE Send(t, "load")
      <4>1. access[t] \in Users \cup {NoUser} /\ "load" \in Kinds /\ "load" # "logout"
        BY TypeFacts DEF Kinds
      <4> QED
        BY <1>c, <2>2, <3>1, <3>3, <4>1, AsksCall, RequestTyped DEF Send
    <3> QED
      BY <1>1, <3>2, <3>3 DEF Open
  <2> QED
    BY <1>s, <2>1, <2>2
<1>2. ASSUME NEW t \in Tabs, Reload(t) PROVE Asks(c)'
  <2>1. c # t => Frame
    BY <1>2, <1>t, <1>f DEF Reload
  <2>2. CASE c = t
    <3>1. /\ \A k \in Kinds : call'[c][k] = Idle
          /\ refresh'[c] = NoRefresh /\ leaving'[c] = NoLogin
      BY <1>2, <1>t, <2>2 DEF Reload
    <3> QED
      BY <3>1, Atoms DEF Asks
  <2> QED
    BY <1>s, <2>1, <2>2
<1>3. ASSUME NEW t \in Tabs, UseApi(t) PROVE Asks(c)'
  <2>1. c # t => Frame
    BY <1>3, <1>t, <1>f DEF UseApi, Send
  <2>2. CASE c = t
    <3>1. access[t] \in Users \cup {NoUser} /\ "use" \in Kinds /\ "use" # "logout"
      BY TypeFacts DEF Kinds
    <3>2. Ageing /\ UNCHANGED <<refresh, leaving, cookie>> /\ Send(t, "use")
      BY <1>3, <1>a, <1>f DEF UseApi
    <3> QED
      BY <1>c, <2>2, <3>1, <3>2, AsksCall, RequestTyped DEF Send
  <2> QED
    BY <1>s, <2>1, <2>2
<1>4. ASSUME NEW t \in Tabs, ClickLogout(t) PROVE Asks(c)'
  <2>1. c # t => Frame
    BY <1>4, <1>t, <1>f DEF ClickLogout, Send
  <2>2. CASE c = t
    <3> DEFINE a == Request("logout", access[t], FALSE)
    <3>1. access[t] \in Users \cup {NoUser} /\ "logout" \in Kinds
      BY TypeFacts DEF Kinds
    <3>2. a \in CallType /\ a.at = "sent" /\ a.sess = cookie
      BY <3>1, RequestTyped
    <3>3. /\ UNCHANGED <<row, cookie, refresh, faults>>
          /\ call' = [call EXCEPT ![t]["logout"] = a]
          /\ leaving'[c] = IF refresh[c].at = "idle" \/ refresh[c].sess = cookie
                           THEN cookie ELSE NoLogin
      BY <1>4, <1>t, <2>2 DEF ClickLogout, Send
    <3> HIDE DEF a
    <3>4. \A j \in Kinds : call'[c][j] = IF j = "logout" THEN a ELSE call[c][j]
      BY <1>t, <2>2, <3>3
    <3>5. \A k \in Kinds : /\ call'[c][k].at = "denied" => ~call'[c][k].again
                           /\ call'[c][k].at = "error" => faults' > 0
      BY <1>c, <3>2, <3>3, <3>4 DEF Asks
    <3>6. leaving'[c] # NoLogin =>
             leaving'[c] = cookie /\ (refresh[c].at = "idle" \/ refresh[c].sess = cookie)
      BY <3>3
    <3>7. call'[c]["logout"] = a
      BY <3>1, <3>4
    <3> QED
      BY <1>c, <3>2, <3>3, <3>5, <3>6, <3>7 DEF Asks
  <2> QED
    BY <1>s, <2>1, <2>2
<1>5. ASSUME NEW t \in Tabs, SocketAuth(t) PROVE Asks(c)'
  <2>1. c # t => Frame
    BY <1>5, <1>t, <1>f DEF SocketAuth
  <2>2. CASE c = t
    <3>1. /\ UNCHANGED <<row, cookie, call, leaving, faults>>
          /\ refresh'[c].at = "sent" /\ refresh'[c].sess = cookie
      BY <1>5, <1>t, <2>2, RefreshStarted DEF SocketAuth
    <3> QED
      BY <1>c, <3>1 DEF Asks
  <2> QED
    BY <1>s, <2>1, <2>2
<1>6. ASSUME NEW t \in Tabs, NEW k \in Kinds, NEW at \in {"ok", "denied", "error"},
             \/ Accept(t, k) /\ at = "ok"
             \/ Deny(t, k) /\ at = "denied"
             \/ CallFails(t, k) /\ at = "error"
      PROVE  Asks(c)'
  <2>1. Answered(t, k, at) /\ UNCHANGED <<refresh, leaving, cookie>> /\ faults' >= faults
    BY <1>6, <1>f DEF Accept, Deny, CallFails, Fault
  <2>2. PICK a \in CallType :
          call' = [call EXCEPT ![t][k] = a] /\ a.at = at /\ a.again = call[t][k].again
    BY <2>1, AnsweredTyped
  <2>3. c # t => Frame
    BY <1>t, <2>1, <2>2
  <2>4. CASE c = t
    <3>1. at = "denied" => ~a.again
      BY <1>6, <2>2 DEF Deny
    <3>2. at = "error" => faults' > 0
      BY <1>6, <1>f DEF CallFails, Fault
    <3>3. ASSUME k = "logout", leaving[c] # NoLogin, at = "ok" PROVE row'[leaving[c]] # "live"
      <4>1. Accept(t, k) /\ call[t][k].at = "sent"
        BY <1>6, <3>3 DEF Accept
      <4>2. call[t][k].sess = leaving[c] /\ leaving[c] \in Logins
        BY <1>c, <1>t, <2>4, <3>3, <4>1 DEF Asks
      <4> QED
        BY <3>3, <4>1, <4>2, TypeFacts DEF Accept
    <3>4. Ageing /\ leaving'[c] = leaving[c] /\ refresh'[c] = refresh[c] /\ cookie' = cookie
      BY <1>a, <2>1
    <3> QED
      BY <1>c, <2>2, <2>4, <3>1, <3>2, <3>3, <3>4, AsksCall
  <2> QED
    BY <1>s, <2>3, <2>4
<1>7. ASSUME NEW t \in Tabs, NEW k \in Kinds,
             call' = [call EXCEPT ![t][k] = Idle], UNCHANGED <<refresh, faults>>,
             leaving'[c] \in {leaving[c], NoLogin}, cookie' = cookie \/ leaving'[c] = NoLogin
      PROVE  Asks(c)'
  <2>1. c # t => Frame
    BY <1>7, <1>t, <1>f
  <2>2. CASE c = t
    <3>1. Ageing /\ refresh'[c] = refresh[c]
      BY <1>7, <1>a, <1>f
    <3> QED
      BY <1>7, <1>c, <2>2, <3>1, AsksIdle
  <2> QED
    BY <1>s, <2>1, <2>2
<1>8. ASSUME NEW t \in Tabs, NEW k \in Kinds, HearMe(t, k) PROVE Asks(c)'
  BY <1>7, <1>8 DEF HearMe
<1>9. ASSUME NEW t \in Tabs, HearUse(t) PROVE Asks(c)'
  BY <1>7, <1>9 DEF HearUse, Kinds
<1>10. ASSUME NEW t \in Tabs, HearLogout(t) PROVE Asks(c)'
  BY <1>7, <1>10 DEF HearLogout, Kinds
<1>11. ASSUME NEW t \in Tabs, NEW k \in Kinds, HearFailure(t, k) PROVE Asks(c)'
  <2>1. leaving'[c] \in {leaving[c], NoLogin}
    BY <1>11, <1>t DEF HearFailure
  <2> QED
    BY <1>7, <1>11, <2>1 DEF HearFailure
<1>12. ASSUME NEW t \in Tabs, NEW k \in Kinds, HearDenied(t, k) PROVE Asks(c)'
  <2>1. c # t => Frame
    BY <1>12, <1>t, <1>f DEF HearDenied
  <2>2. Ageing
    BY <1>12, <1>a, <1>f DEF HearDenied
  <2> QED
    BY <1>12, <1>c, <1>s, <2>1, <2>2, AsksHearDenied
<1>13. ASSUME NEW t \in Tabs, ServeRefresh(t) \/ RefreshFails(t) PROVE Asks(c)'
  <2>1. faults' >= faults
    BY <1>13, <1>f DEF ServeRefresh, RefreshFails, Fault
  <2>2. c # t => Frame
    BY <1>13, <1>t, <2>1 DEF ServeRefresh, RefreshFails
  <2> QED
    BY <1>13, <1>a, <1>c, <1>s, <2>1, <2>2, AsksServeRefresh
<1>14. ASSUME NEW t \in Tabs, HearRefreshed(t) \/ HearRefreshFailed(t) PROVE Asks(c)'
  <2>0. faults' = faults
    BY <1>14 DEF HearRefreshed, HearRefreshFailed
  <2>1. faults' >= faults
    BY <1>f, <2>0
  <2>2. c # t => Frame
    BY <1>14, <1>t, <2>1 DEF HearRefreshed, HearRefreshFailed
  <2> QED
    BY <1>14, <1>a, <1>c, <1>s, <2>1, <2>2, AsksHearRefresh
<1>15. ASSUME NEW t \in Tabs, HearLogin(t) PROVE Asks(c)'
  <2> DEFINE a == Request("me", Owner[form[t].login], FALSE)
  <2>1. Owner[form[t].login] \in Users
    BY <1>15, OwnerAssumption DEF HearLogin, FormInv
  <2>2. a \in CallType /\ a.at = "sent" /\ "me" \in Kinds
    BY <2>1, RequestTyped DEF Kinds
  <2>3. call' = [call EXCEPT ![t]["me"] = a] /\ UNCHANGED <<refresh, faults>>
        /\ leaving'[c] = NoLogin
    BY <1>15 DEF HearLogin
  <2> HIDE DEF a
  <2>4. c # t => Frame
    BY <1>t, <1>f, <2>3
  <2>5. CASE c = t
    <3>1. Ageing /\ refresh'[c] = refresh[c] /\ "me" # "logout"
      BY <1>a, <1>f, <2>3
    <3> QED
      BY <1>c, <2>2, <2>3, <2>5, <3>1, AsksCall
  <2> QED
    BY <1>s, <2>4, <2>5
<1>16. ASSUME NEW t \in Tabs, NEW n \in Logins, SubmitLogin(t, n) PROVE Asks(c)'
  BY <1>16, <1>s, <1>f DEF SubmitLogin
<1>17. ASSUME NEW t \in Tabs, ServeLogin(t) \/ RefuseLogin(t) \/ HearLoginRefused(t)
       PROVE  Asks(c)'
  BY <1>17, <1>s, <1>f DEF ServeLogin, RefuseLogin, HearLoginRefused
<1>18. ASSUME NEW n \in Logins, SessionExpires(n) PROVE Asks(c)'
  BY <1>18, <1>s, <1>f DEF SessionExpires
<1>19. CASE UNCHANGED vars
  BY <1>19, <1>s, <1>f DEF vars
<1> HIDE DEF Frame
<1>20. ASSUME NEW t \in Tabs, NEW k \in Kinds, CallStep(t, k) \/ CallFails(t, k) PROVE Asks(c)'
  <2>1. Accept(t, k) \/ Deny(t, k) \/ CallFails(t, k) => Asks(c)'
    BY <1>6
  <2> QED
    BY <1>8, <1>9, <1>10, <1>11, <1>12, <1>20, <2>1 DEF CallStep
<1> QED
  BY <1>1, <1>2, <1>3, <1>4, <1>5, <1>13, <1>14, <1>15, <1>16, <1>17, <1>18, <1>19, <1>20
     DEF Next, RefreshStep, LoginStep

LEMMA AskInit == Init => AskInv
<1> SUFFICES ASSUME Init, NEW t \in Tabs PROVE Asks(t)
  BY DEF AskInv
<1>1. /\ \A k \in Kinds : call[t][k] = Idle
      /\ refresh[t] = NoRefresh /\ leaving[t] = NoLogin
  BY DEF Init
<1> QED
  BY <1>1, Atoms DEF Asks

Inv == TypeOK /\ FormInv /\ RowInv /\ AskInv

LEMMA InvHolds == Spec => []Inv
<1>1. Inv /\ [Next]_vars => Inv'
  BY TypeNext, RowNext, AskNext DEF Inv
<1>2. Init => Inv
  BY TypeInit, RowInit, AskInit DEF Inv
<1> QED
  BY <1>1, <1>2, PTL DEF Spec

\* How a tab gets to the anonymous state.
LEMMA SignOuts ==
  ASSUME Inv, [Next]_vars, NEW t \in Tabs, status'[t] = "anonymous", status[t] # "anonymous",
         status[t] # "off"
  PROVE  \/ HearLogout(t)
         \/ HearFailure(t, "load") \/ HearFailure(t, "logout")
         \/ HearRefreshFailed(t) /\ Waiting(t) # {}
<1>t. status \in [Tabs -> {"off", "loading", "anonymous", "authenticated"}]
  BY TypeFacts DEF Inv
<1>1. ASSUME NEW u \in Tabs, \/ UseApi(u) \/ ClickLogout(u) \/ SocketAuth(u) \/ RefreshFails(u)
                            \/ ServeRefresh(u) \/ HearRefreshed(u) \/ LoginStep(u)
      PROVE  FALSE
  BY <1>1 DEF UseApi, ClickLogout, SocketAuth, RefreshFails, ServeRefresh, HearRefreshed,
     LoginStep, SubmitLogin, ServeLogin, RefuseLogin, HearLogin, HearLoginRefused
<1>2. ASSUME NEW u \in Tabs, Open(u) \/ Reload(u) PROVE FALSE
  BY <1>2, <1>t DEF Open, Reload
<1>3. ASSUME NEW u \in Tabs, NEW k \in Kinds,
             \/ Accept(u, k) \/ Deny(u, k) \/ HearMe(u, k) \/ HearDenied(u, k) \/ HearUse(u)
             \/ CallFails(u, k)
      PROVE  FALSE
  BY <1>3, <1>t DEF Accept, Deny, HearMe, HearDenied, HearUse, CallFails
<1>4. ASSUME NEW u \in Tabs, HearLogout(u) PROVE u = t
  BY <1>4, <1>t DEF HearLogout, SignOut
<1>5. ASSUME NEW u \in Tabs, NEW k \in Kinds, HearFailure(u, k)
      PROVE  u = t /\ k \in {"load", "logout"}
  BY <1>5, <1>t DEF HearFailure, SignOut
<1>6. ASSUME NEW u \in Tabs, HearRefreshFailed(u) PROVE u = t /\ Waiting(u) # {}
  BY <1>6, <1>t DEF HearRefreshFailed, SignOut
<1>7. ASSUME NEW n \in Logins, SessionExpires(n) PROVE FALSE
  BY <1>7 DEF SessionExpires
<1>8. ~UNCHANGED vars
  BY DEF vars
<1> QED
  BY <1>1, <1>2, <1>3, <1>4, <1>5, <1>6, <1>7, <1>8 DEF Next, CallStep, RefreshStep

\* Without a lost request nothing fails but a request that a refresh could not save.
LEMMA NoFailures ==
  ASSUME Inv, NEW t \in Tabs, NEW k \in Kinds, HearFailure(t, k)
  PROVE  faults > 0
<1>1. Asks(t) /\ faults \in Nat
  BY FaultsAssumption DEF Inv, AskInv, TypeOK
<1> QED
  BY <1>1 DEF Asks, HearFailure

\* Nobody is logged out by the expiry of an access token, for any number of tabs,
\* logins and reloads.
THEOREM OnlyTheSessionEndsAlways == Spec => OnlyTheSessionEnds
<1>1. ASSUME Inv, [Next]_vars, NEW t \in Tabs,
             status[t] = "authenticated", status'[t] = "anonymous"
      PROVE  \/ call[t]["logout"].at # "idle"
             \/ faults > 0
             \/ refresh[t].sess = NoLogin \/ row[refresh[t].sess] # "live"
  <2>1. CASE HearLogout(t)
    BY <2>1 DEF HearLogout
  <2>2. CASE HearFailure(t, "load") \/ HearFailure(t, "logout")
    BY <1>1, <2>2, NoFailures DEF Kinds
  <2>3. CASE HearRefreshFailed(t)
    <3>1. refresh[t].at = "bad" /\ Asks(t) /\ faults \in Nat
      BY <1>1, <2>3, FaultsAssumption DEF HearRefreshFailed, Inv, AskInv, TypeOK
    <3> QED
      BY <3>1 DEF Asks
  <2> QED
    BY <1>1, <2>1, <2>2, <2>3, SignOuts
<1>2. Inv /\ [Next]_vars =>
        [\A t \in Tabs :
          status[t] = "authenticated" /\ status'[t] = "anonymous" =>
          \/ call[t]["logout"].at # "idle"
          \/ faults > 0
          \/ refresh[t].sess = NoLogin \/ row[refresh[t].sess] # "live"]_vars
  BY <1>1
<1> QED
  BY <1>2, InvHolds, PTL DEF Spec, OnlyTheSessionEnds

\* How a logout ends in the anonymous state.
LEMMA LogoutEnds ==
  ASSUME Inv, [Next]_vars, NEW t \in Tabs, status'[t] = "anonymous",
         call[t]["logout"].at # "idle", call'[t]["logout"].at = "idle"
  PROVE  HearLogout(t) \/ HearFailure(t, "logout") \/ HearRefreshFailed(t)
<1>t. /\ status \in [Tabs -> {"off", "loading", "anonymous", "authenticated"}]
      /\ call \in [Tabs -> [Kinds -> CallType]] /\ refresh \in [Tabs -> RefreshType]
      /\ access \in [Tabs -> Users \cup {NoUser}] /\ "logout" \in Kinds /\ TypeOK
  BY TypeFacts DEF Inv, Kinds
<1>c. ASSUME NEW u \in Tabs, NEW k \in Kinds, NEW a, call' = [call EXCEPT ![u][k] = a]
      PROVE  u = t /\ k = "logout" /\ a.at = "idle"
  BY <1>c, <1>t
<1>u. call' # call
  OBVIOUS
<1>1. ASSUME NEW u \in Tabs, \/ SocketAuth(u) \/ RefreshFails(u) \/ ServeRefresh(u)
                            \/ ServeLogin(u) \/ RefuseLogin(u) \/ HearLoginRefused(u)
      PROVE  FALSE
  BY <1>1, <1>u DEF SocketAuth, RefreshFails, ServeRefresh, ServeLogin, RefuseLogin,
     HearLoginRefused
<1>2. ASSUME NEW u \in Tabs, NEW k \in Kinds, Send(u, k) PROVE FALSE
  <2>1. Request(k, access[u], FALSE).at = "sent"
    BY <1>t, RequestTyped
  <2> QED
    BY <1>2, <1>c, <2>1 DEF Send
<1>3. ASSUME NEW u \in Tabs, Open(u) \/ UseApi(u) \/ ClickLogout(u) PROVE FALSE
  BY <1>2, <1>3, <1>u DEF Open, UseApi, ClickLogout, Kinds
<1>4. ASSUME NEW u \in Tabs, Reload(u) PROVE FALSE
  BY <1>4, <1>t DEF Reload
<1>5. ASSUME NEW u \in Tabs, NEW k \in Kinds, NEW at \in {"ok", "denied", "error"},
             Answered(u, k, at)
      PROVE  FALSE
  BY <1>5, <1>c, <1>t, AnsweredTyped
<1>6. ASSUME NEW u \in Tabs, NEW k \in Kinds, Accept(u, k) \/ Deny(u, k) \/ CallFails(u, k)
      PROVE  FALSE
  BY <1>5, <1>6 DEF Accept, Deny, CallFails
<1>7. ASSUME NEW u \in Tabs, NEW k \in Kinds, HearMe(u, k) \/ HearUse(u) PROVE FALSE
  BY <1>7, <1>c DEF HearMe, HearUse, Kinds
<1>8. ASSUME NEW u \in Tabs, HearLogout(u) PROVE u = t
  BY <1>8, <1>c, <1>t DEF HearLogout
<1>9. ASSUME NEW u \in Tabs, NEW k \in Kinds, HearFailure(u, k) PROVE u = t /\ k = "logout"
  BY <1>9, <1>c DEF HearFailure
<1>10. ASSUME NEW u \in Tabs, NEW k \in Kinds, HearDenied(u, k) PROVE FALSE
  <2>1. \A j \in Kinds : call'[t][j].at \in {call[t][j].at, "wait"}
    BY <1>10, <1>t DEF HearDenied, CallType
  <2> QED
    BY <1>t, <2>1
<1>11. ASSUME NEW u \in Tabs, HearRefreshed(u) PROVE FALSE
  <2>1. refresh[u].by \in Users \cup {NoUser}
    BY <1>t DEF RefreshType
  <2>2. call'[t]["logout"] = call[t]["logout"] \/ call'[t]["logout"].at = "sent"
    BY <1>11, <1>t, <2>1, RequestTyped DEF HearRefreshed
  <2> QED
    BY <2>2
<1>12. ASSUME NEW u \in Tabs, HearRefreshFailed(u) PROVE u = t
  BY <1>12, <1>t DEF HearRefreshFailed
<1>13. ASSUME NEW u \in Tabs, HearLogin(u) PROVE FALSE
  <2>1. Owner[form[u].login] \in Users
    BY <1>13, OwnerAssumption DEF HearLogin, Inv, FormInv
  <2>2. Request("me", Owner[form[u].login], FALSE).at = "sent"
    BY <1>t, <2>1, RequestTyped DEF Kinds
  <2> QED
    BY <1>13, <1>c, <2>2 DEF HearLogin, Kinds
<1>14. ASSUME NEW u \in Tabs, NEW n \in Logins, SubmitLogin(u, n) PROVE FALSE
  BY <1>14, <1>u DEF SubmitLogin
<1>15. ASSUME NEW n \in Logins, SessionExpires(n) PROVE FALSE
  BY <1>15, <1>u DEF SessionExpires
<1>16. ~UNCHANGED vars
  BY <1>u DEF vars
<1> QED
  BY <1>1, <1>3, <1>4, <1>6, <1>7, <1>8, <1>9, <1>10, <1>11, <1>12, <1>13, <1>14, <1>15, <1>16
     DEF Next, CallStep, RefreshStep, LoginStep

\* "Sign out" ends the session on the server, also when its access token had to
\* be refreshed first, for any number of tabs, logins and reloads.
THEOREM LogoutRevokesAlways == Spec => LogoutRevokes
<1>1. ASSUME Inv, [Next]_vars, NEW t \in Tabs,
             call[t]["logout"].at # "idle", call'[t]["logout"].at = "idle",
             status'[t] = "anonymous", leaving[t] # NoLogin, faults = 0
      PROVE  row[leaving[t]] # "live"
  <2>1. Asks(t)
    BY <1>1 DEF Inv, AskInv
  <2>2. CASE HearLogout(t)
    BY <1>1, <2>1, <2>2 DEF HearLogout, Asks
  <2>3. CASE HearFailure(t, "logout")
    BY <1>1, <2>3, NoFailures DEF Kinds
  <2>4. CASE HearRefreshFailed(t)
    BY <1>1, <2>1, <2>4 DEF HearRefreshFailed, Asks
  <2> QED
    BY <1>1, <2>2, <2>3, <2>4, LogoutEnds
<1>2. Inv /\ [Next]_vars =>
        [\A t \in Tabs :
          /\ call[t]["logout"].at # "idle" /\ call'[t]["logout"].at = "idle"
          /\ status'[t] = "anonymous"
          /\ leaving[t] # NoLogin /\ faults = 0
          => row[leaving[t]] # "live"]_vars
  BY <1>1
<1> QED
  BY <1>2, InvHolds, PTL DEF Spec, LogoutRevokes
=============================================================================
