------------------------ MODULE BrowserSessionProofs ------------------------
(***************************************************************************)
(* Theorems of BrowserSession, for any number of tabs, calls, sessions and *)
(* users: the typing, the two facts about shared refreshes and stored      *)
(* tokens, and the two action properties about identities and ended        *)
(* sessions.                                                               *)
(***************************************************************************)
EXTENDS BrowserSession, TLAPS

(* A refresh that runs has read a refresh token.                            *)
RunningHasToken == \A t \in Tab : stage[t] \in Running => rs[t] \in Session

(* A login has its tokens, and only logins switch.                          *)
LoginHasTokens ==
  \A f \in Flow :
    /\ op[f] = "login" => (bearer[f] \in Session /\ held[f] \in Session)
    /\ pc[f] = "switch" => op[f] = "login"

IInv ==
  /\ SessionTypeOK
  /\ WaitersHaveARefresh
  /\ TokensOfOneSession
  /\ RunningHasToken
  /\ LoginHasTokens

(* The browser starts in the inductive invariant.                           *)
LEMMA InitIInv == Init => IInv
<1> SUFFICES ASSUME Init PROVE IInv
  OBVIOUS
<1>1. access \in Token /\ meta \in Person /\ alive \subseteq Session
  BY OwnerAssumption DEF Init, Token, Person
<1>2. SessionTypeOK
  BY <1>1 DEF Init, SessionTypeOK, Token, Operation, Place, Stage
<1>3. WaitersHaveARefresh /\ TokensOfOneSession /\ RunningHasToken /\ LoginHasTokens
  BY HomeAssumption DEF Init, WaitersHaveARefresh, TokensOfOneSession,
     RunningHasToken, LoginHasTokens, Waiting, Running
<1> QED  BY <1>2, <1>3 DEF IInv

(* What refreshRuntimeSession does to its caller keeps every part that is   *)
(* about slots and calls.                                                   *)
LEMMA AwaitKeeps ==
  ASSUME NEW f \in Flow, NEW o \in Operation, NEW p \in Waiting, IInv,
         o = "login" => op[f] = "login",
         AwaitRefresh(f, o, p), UNCHANGED <<cookies, keycloak, pending>>
  PROVE  IInv'
BY HomeAssumption, NoneAssumption
   DEF AwaitRefresh, Enter, Settle, cookies, keycloak, IInv, SessionTypeOK,
       WaitersHaveARefresh, TokensOfOneSession,
       RunningHasToken, LoginHasTokens, Token, Person, Operation, Place, Waiting,
       Stage, Running

-----------------------------------------------------------------------------
(* Every step of a call keeps the inductive invariant.                      *)
LEMMA CallIInv ==
  ASSUME IInv, NEW f \in Flow,
         \/ \E o \in {"call", "once"} : StartCall(f, o)
         \/ StartCheck(f)
         \/ StartLogout(f)
         \/ AnswerEnds(f)
         \/ AnswerUnauthorized(f)
         \/ LogoutCompletes(f)
  PROVE  IInv'
<1>1. CASE \E o \in {"call", "once"} : StartCall(f, o)
  <2>1. PICK o \in {"call", "once"} : StartCall(f, o)  BY <1>1
  <2>2. CASE ShouldRefresh
    BY <2>1, <2>2, AwaitKeeps DEF StartCall, Operation, Waiting
  <2>3. CASE ~ShouldRefresh
    BY <2>1, <2>3, HomeAssumption
       DEF StartCall, Enter, cookies, keycloak, tabs, IInv, SessionTypeOK,
           WaitersHaveARefresh, TokensOfOneSession, RunningHasToken,
           LoginHasTokens, Operation, Place, Waiting
  <2> QED  BY <2>2, <2>3
<1>2. CASE StartCheck(f)
  BY <1>2, AwaitKeeps DEF StartCheck, Operation, Waiting
<1>3. CASE StartLogout(f)
  BY <1>3, HomeAssumption
     DEF StartLogout, Enter, cookies, keycloak, tabs, IInv, SessionTypeOK,
         WaitersHaveARefresh, TokensOfOneSession, RunningHasToken,
         LoginHasTokens, Operation, Place, Waiting
<1>4. CASE AnswerEnds(f)
  BY <1>4, HomeAssumption
     DEF AnswerEnds, Settle, cookies, keycloak, tabs, IInv, SessionTypeOK,
         WaitersHaveARefresh, TokensOfOneSession, RunningHasToken,
         LoginHasTokens, Token, Operation, Place, Waiting
<1>5. CASE AnswerUnauthorized(f)
  <2>1. op[f] \in Operation  BY DEF IInv, SessionTypeOK
  <2> QED  BY <1>5, <2>1, AwaitKeeps DEF AnswerUnauthorized, Waiting
<1>6. CASE LogoutCompletes(f)
  BY <1>6, HomeAssumption
     DEF LogoutCompletes, Revoke, Clear, Settle, tabs, IInv, SessionTypeOK,
         WaitersHaveARefresh, TokensOfOneSession, RunningHasToken,
         LoginHasTokens, Token, Person, Operation, Place, Waiting
<1> QED  BY <1>1, <1>2, <1>3, <1>4, <1>5, <1>6

(* What a login stores has its types.                                       *)
LEMMA PersistTypes ==
  ASSUME IInv, NEW s \in Session, NEW u \in User, Persist(s, u)
  PROVE  /\ access' \in Token /\ refresh' \in Token /\ due' \in BOOLEAN
         /\ meta' \in Person /\ pending' \in [Tab -> SUBSET User]
         /\ TokensOfOneSession'
BY DEF Persist, Announced, IInv, SessionTypeOK, TokensOfOneSession, Token, Person

(* Every step of a login keeps the inductive invariant.                     *)
LEMMA LoginIInv ==
  ASSUME IInv, NEW f \in Flow,
         \/ \E s \in Session : ReturnFromKeycloak(f, s)
         \/ LoginResolved(f)
         \/ SwitchCompletes(f)
  PROVE  IInv'
<1>1. CASE \E s \in Session : ReturnFromKeycloak(f, s)
  <2>1. PICK s \in Session : ReturnFromKeycloak(f, s)  BY <1>1
  <2>2. SessionTypeOK'
    BY <2>1, HomeAssumption
       DEF ReturnFromKeycloak, Unload, cookies, IInv, SessionTypeOK, Token,
           Operation, Place, Stage
  <2>3. WaitersHaveARefresh' /\ RunningHasToken'
    BY <2>1, HomeAssumption
       DEF ReturnFromKeycloak, Unload, FlowsOf, IInv, SessionTypeOK,
           WaitersHaveARefresh, RunningHasToken, Waiting, Running
  <2>4. TokensOfOneSession' /\ LoginHasTokens'
    BY <2>1
       DEF ReturnFromKeycloak, cookies, IInv, SessionTypeOK,
           TokensOfOneSession, LoginHasTokens
  <2> QED  BY <2>2, <2>3, <2>4 DEF IInv
<1>2. ASSUME bearer[f] \in Session, held[f] \in Session
      PROVE  Owner[bearer[f]] \in User
  BY <1>2, OwnerAssumption
<1>3. CASE LoginResolved(f)
  <2>1. bearer[f] \in Session /\ held[f] \in Session
    BY <1>3 DEF LoginResolved, IInv, LoginHasTokens
  <2>2. CASE Persist(held[f], Owner[bearer[f]]) /\ Settle({f})
    BY <1>2, <1>3, <2>1, <2>2, PersistTypes, HomeAssumption
       DEF LoginResolved, Settle, keycloak, tabs, IInv, SessionTypeOK,
           WaitersHaveARefresh, RunningHasToken, LoginHasTokens, Token,
           Operation, Place, Waiting
  <2>3. CASE /\ Clear
             /\ pc' = [pc EXCEPT ![f] = "switch"]
             /\ old' = [old EXCEPT ![f] = refresh]
             /\ UNCHANGED <<op, bearer, held, pending>>
    BY <1>3, <2>3, HomeAssumption
       DEF LoginResolved, Clear, keycloak, tabs, IInv, SessionTypeOK,
           WaitersHaveARefresh, TokensOfOneSession, RunningHasToken,
           LoginHasTokens, Token, Person, Place, Waiting
  <2> QED  BY <1>3, <2>2, <2>3 DEF LoginResolved
<1>4. CASE SwitchCompletes(f)
  <2>1. bearer[f] \in Session /\ held[f] \in Session
    BY <1>4 DEF SwitchCompletes, IInv, LoginHasTokens
  <2> QED
    BY <1>2, <1>4, <2>1, PersistTypes, HomeAssumption
       DEF SwitchCompletes, Revoke, Settle, tabs, IInv, SessionTypeOK,
           WaitersHaveARefresh, RunningHasToken, LoginHasTokens, Token,
           Operation, Place, Waiting
<1> QED  BY <1>1, <1>3, <1>4

(* Every step of a tab's refresh keeps the inductive invariant.             *)
LEMMA RefreshIInv ==
  ASSUME IInv, NEW t \in Tab, RefreshAnswered(t)
  PROVE  IInv'
<1>1. CASE TokenIssued(t)
  BY <1>1, HomeAssumption
     DEF TokenIssued, cookies, keycloak, flows, IInv, SessionTypeOK,
         WaitersHaveARefresh, TokensOfOneSession, RunningHasToken,
         LoginHasTokens, Stage, Running
<1>2. CASE RefreshCompletes(t)
  <2>1. rs[t] \in Session /\ Owner[rs[t]] \in User
    BY <1>2, OwnerAssumption DEF RefreshCompletes, IInv, RunningHasToken, Running
  <2>2. SessionTypeOK'
    BY <1>2, <2>1, PersistTypes
       DEF RefreshCompletes, Resume, keycloak, IInv, SessionTypeOK, Token,
           Place, Stage
  <2>3. WaitersHaveARefresh' /\ RunningHasToken'
    BY <1>2, HomeAssumption
       DEF RefreshCompletes, Resume, WaitersOf, FlowsOf, IInv, SessionTypeOK,
           WaitersHaveARefresh, RunningHasToken, Waiting, Running
  <2>4. LoginHasTokens'
    BY <1>2, <2>1
       DEF RefreshCompletes, Resume, IInv, SessionTypeOK, LoginHasTokens
  <2> QED  BY <1>2, <2>1, <2>2, <2>3, <2>4, PersistTypes DEF RefreshCompletes, IInv
<1>3. CASE RefreshFails(t)
  <2>1. SessionTypeOK' /\ TokensOfOneSession'
    BY <1>3
       DEF RefreshFails, Clear, Settle, keycloak, IInv, SessionTypeOK,
           TokensOfOneSession, Token, Person, Operation, Place, Stage
  <2>2. WaitersHaveARefresh' /\ RunningHasToken' /\ LoginHasTokens'
    BY <1>3, HomeAssumption
       DEF RefreshFails, Settle, WaitersOf, FlowsOf, IInv, SessionTypeOK,
           WaitersHaveARefresh, RunningHasToken, LoginHasTokens, Waiting, Running
  <2> QED  BY <2>1, <2>2 DEF IInv
<1>4. CASE RefreshAwaitsItself(t)
  BY <1>4, HomeAssumption
     DEF RefreshAwaitsItself, cookies, keycloak, flows, IInv, SessionTypeOK,
         WaitersHaveARefresh, TokensOfOneSession, RunningHasToken,
         LoginHasTokens, Stage, Running
<1> QED  BY <1>1, <1>2, <1>3, <1>4 DEF RefreshAnswered

(* A page load, whoever asks for it, keeps what is about slots and calls.   *)
LEMMA UnloadKeeps ==
  ASSUME IInv, NEW t \in Tab, Unload(t), Settle(FlowsOf(t)), UNCHANGED keycloak,
         pending' = [pending EXCEPT ![t] = {}], UNCHANGED cookies
  PROVE  IInv'
<1>1. SessionTypeOK' /\ TokensOfOneSession'
  BY DEF Unload, Settle, cookies, keycloak, IInv, SessionTypeOK,
         TokensOfOneSession, Token, Person, Operation, Place, Stage
<1>2. WaitersHaveARefresh' /\ RunningHasToken' /\ LoginHasTokens'
  BY HomeAssumption
     DEF Unload, Settle, FlowsOf, IInv, SessionTypeOK, WaitersHaveARefresh,
         RunningHasToken, LoginHasTokens, Waiting, Running
<1> QED  BY <1>1, <1>2 DEF IInv

(* Every step of the inductive invariant leads into it.                     *)
LEMMA NextIInv == IInv /\ [Next]_vars => IInv'
<1> SUFFICES ASSUME IInv, [Next]_vars PROVE IInv'
  OBVIOUS
<1>1. ASSUME NEW f \in Flow, \E o \in {"call", "once"} : StartCall(f, o)
      PROVE  IInv'
  BY <1>1, CallIInv
<1>2. ASSUME NEW f \in Flow, StartCheck(f) \/ StartLogout(f)
      PROVE  IInv'
  BY <1>2, CallIInv
<1>3. ASSUME NEW f \in Flow, \E s \in Session : ReturnFromKeycloak(f, s)
      PROVE  IInv'
  BY <1>3, LoginIInv
<1>4. ASSUME NEW f \in Flow, FlowAnswered(f)
      PROVE  IInv'
  BY <1>4, CallIInv, LoginIInv DEF FlowAnswered
<1>5. ASSUME NEW t \in Tab, RefreshAnswered(t)
      PROVE  IInv'
  BY <1>5, RefreshIInv
<1>6. ASSUME NEW t \in Tab, NEW u \in User, HandleSwitch(t, u)
      PROVE  IInv'
  <2>1. /\ UNCHANGED cookies \/ Clear
        /\ UNCHANGED <<keycloak, tabs, flows>>
        /\ pending' = [pending EXCEPT ![t] = @ \ {u}]
    BY <1>6 DEF HandleSwitch
  <2> QED
    BY <2>1
       DEF Clear, cookies, keycloak, tabs, flows, IInv, SessionTypeOK, Token,
           Person, WaitersHaveARefresh, TokensOfOneSession, RunningHasToken,
           LoginHasTokens
<1>7. ASSUME NEW t \in Tab, Reload(t)
      PROVE  IInv'
  BY <1>7, UnloadKeeps DEF Reload
<1>8. CASE NearExpiry \/ AccessExpires \/ RefreshExpires
  BY <1>8
     DEF NearExpiry, AccessExpires, RefreshExpires, keycloak, tabs, flows, IInv,
         SessionTypeOK, WaitersHaveARefresh, TokensOfOneSession,
         RunningHasToken, LoginHasTokens, Token
<1>9. ASSUME NEW s \in Session, SessionEnds(s)
      PROVE  IInv'
  BY <1>9
     DEF SessionEnds, cookies, tabs, flows, IInv, SessionTypeOK,
         WaitersHaveARefresh, TokensOfOneSession, RunningHasToken,
         LoginHasTokens
<1>10. CASE UNCHANGED vars
  BY <1>10
     DEF vars, cookies, keycloak, tabs, flows, IInv, SessionTypeOK,
         WaitersHaveARefresh, TokensOfOneSession, RunningHasToken,
         LoginHasTokens
<1> QED
  BY <1>1, <1>2, <1>3, <1>4, <1>5, <1>6, <1>7, <1>8, <1>9, <1>10 DEF Next

(* The inductive invariant holds in every reachable state.                  *)
LEMMA SpecIInv == Spec => []IInv
BY InitIInv, NextIInv, PTL DEF Spec

-----------------------------------------------------------------------------
(* The values of every variable are those of the type invariant, for any    *)
(* tabs, calls, sessions and users.                                         *)
THEOREM SessionTypes == Spec => []SessionTypeOK
<1>1. IInv => SessionTypeOK  BY DEF IInv
<1> QED  BY <1>1, SpecIInv, PTL

(* refreshRuntimeSession loses none of the calls that share its promise:    *)
(* whoever waits in a tab waits for a refresh that runs in that tab.        *)
THEOREM NoLostWaiter == Spec => []WaitersHaveARefresh
<1>1. IInv => WaitersHaveARefresh  BY DEF IInv
<1> QED  BY <1>1, SpecIInv, PTL

(* persistAuthSession and clearAuthSession, called from any number of tabs  *)
(* and overtaken by any expiry, never leave the cookies of two sessions.    *)
THEOREM OneSessionInCookies == Spec => []TokensOfOneSession
<1>1. IInv => TokensOfOneSession  BY DEF IInv
<1> QED  BY <1>1, SpecIInv, PTL

-----------------------------------------------------------------------------
(* Only a refresh that /me has answered, and a login, store a token.        *)
LEMMA WhoStores ==
  ASSUME IInv, [Next]_vars, refresh' \notin {None, refresh}
  PROVE  \/ \E t \in Tab : /\ stage[t] = "me" /\ refresh' = rs[t]
                           /\ meta' = Owner[rs[t]]
         \/ \E f \in Flow : /\ op[f] = "login" /\ refresh' = held[f]
                            /\ meta' = Owner[bearer[f]]
<1>1. ASSUME NEW f \in Flow, FlowAnswered(f)
      PROVE  /\ op[f] = "login" /\ refresh' = held[f]
             /\ meta' = Owner[bearer[f]]
  BY <1>1
     DEF FlowAnswered, AnswerEnds, AnswerUnauthorized, LoginResolved,
         SwitchCompletes, LogoutCompletes, Persist, Announced, Clear, cookies, IInv,
         LoginHasTokens
<1>2. ASSUME NEW t \in Tab, RefreshAnswered(t)
      PROVE  /\ stage[t] = "me" /\ refresh' = rs[t]
             /\ meta' = Owner[rs[t]]
  BY <1>2
     DEF RefreshAnswered, TokenIssued, RefreshCompletes, RefreshFails,
         RefreshAwaitsItself, Persist, Announced, Clear, cookies
<1>3. CASE \/ \E f \in Flow :
                \/ \E o \in {"call", "once"} : StartCall(f, o)
                \/ StartCheck(f)
                \/ StartLogout(f)
                \/ \E s \in Session : ReturnFromKeycloak(f, s)
           \/ \E t \in Tab : (\E u \in User : HandleSwitch(t, u)) \/ Reload(t)
           \/ NearExpiry
           \/ AccessExpires
           \/ RefreshExpires
           \/ \E s \in Session : SessionEnds(s)
           \/ UNCHANGED vars
  BY <1>3
     DEF StartCall, StartCheck, StartLogout, ReturnFromKeycloak, HandleSwitch,
         Reload, NearExpiry, AccessExpires, RefreshExpires, SessionEnds, Clear,
         vars, cookies
<1> QED  BY <1>1, <1>2, <1>3 DEF Next

(* Whatever a step stores, the meta names the owner of the tokens, or the   *)
(* step ends a login that repeated its /me request with another token.      *)
THEOREM IdentityWithTokens == Spec => IdentityStoredWithTokens
<1>1. IInv /\ [Next]_vars =>
        [ (refresh' \notin {None, refresh}) =>
            \/ meta' = Owner[refresh']
            \/ \E f \in Flow : /\ op[f] = "login" /\ held[f] = refresh'
                               /\ bearer[f] # held[f] ]_vars
  BY WhoStores
<1> QED  BY <1>1, SpecIInv, PTL DEF Spec, IdentityStoredWithTokens

(* Keycloak never gives back a session that has ended.                      *)
LEMMA EndedAtKeycloak ==
  ASSUME NEW s \in Session, [Next]_vars, s \in started \ alive
  PROVE  s \in started' \ alive'
<1>1. ASSUME NEW f \in Flow, FlowAnswered(f)
      PROVE  s \in started' \ alive'
  BY <1>1
     DEF FlowAnswered, AnswerEnds, AnswerUnauthorized, LoginResolved,
         SwitchCompletes, LogoutCompletes, Revoke, keycloak
<1>2. ASSUME NEW t \in Tab, RefreshAnswered(t)
      PROVE  s \in started' \ alive'
  BY <1>2
     DEF RefreshAnswered, TokenIssued, RefreshCompletes, RefreshFails,
         RefreshAwaitsItself, keycloak
<1>3. CASE \/ \E f \in Flow :
                \/ \E o \in {"call", "once"} : StartCall(f, o)
                \/ StartCheck(f)
                \/ StartLogout(f)
                \/ \E r \in Session : ReturnFromKeycloak(f, r)
           \/ \E t \in Tab : (\E u \in User : HandleSwitch(t, u)) \/ Reload(t)
           \/ NearExpiry
           \/ AccessExpires
           \/ RefreshExpires
           \/ \E r \in Session : SessionEnds(r)
           \/ UNCHANGED vars
  BY <1>3
     DEF StartCall, StartCheck, StartLogout, ReturnFromKeycloak, HandleSwitch,
         Reload, NearExpiry, AccessExpires, RefreshExpires, SessionEnds,
         vars, keycloak
<1> QED  BY <1>1, <1>2, <1>3 DEF Next

(* No refresh of an ended session gets past the token endpoint.             *)
LEMMA NoRefreshOfEnded ==
  ASSUME IInv, NEW s \in Session, [Next]_vars, GoneForGood(s)
  PROVE  \A t \in Tab : ~(stage'[t] = "me" /\ rs'[t] = s)
<1> USE DEF GoneForGood
<1>1. ASSUME NEW f \in Flow,
             \/ \E o \in {"call", "once"} : StartCall(f, o)
             \/ StartCheck(f)
             \/ StartLogout(f)
             \/ \E r \in Session : ReturnFromKeycloak(f, r)
             \/ FlowAnswered(f)
      PROVE  \A t \in Tab : ~(stage'[t] = "me" /\ rs'[t] = s)
  BY <1>1, HomeAssumption
     DEF StartCall, StartCheck, StartLogout, ReturnFromKeycloak, FlowAnswered,
         AnswerEnds, AnswerUnauthorized, LoginResolved, SwitchCompletes,
         LogoutCompletes, AwaitRefresh, Unload, tabs, IInv, SessionTypeOK
<1>2. ASSUME NEW u \in Tab,
             \/ RefreshAnswered(u)
             \/ \E v \in User : HandleSwitch(u, v)
             \/ Reload(u)
      PROVE  \A t \in Tab : ~(stage'[t] = "me" /\ rs'[t] = s)
  BY <1>2
     DEF RefreshAnswered, TokenIssued, RefreshCompletes, RefreshFails,
         RefreshAwaitsItself, HandleSwitch, Reload, Unload, tabs, IInv,
         SessionTypeOK
<1>3. CASE \/ NearExpiry
           \/ AccessExpires
           \/ RefreshExpires
           \/ \E r \in Session : SessionEnds(r)
           \/ UNCHANGED vars
  BY <1>3 DEF NearExpiry, AccessExpires, RefreshExpires, SessionEnds, vars, tabs
<1> QED  BY <1>1, <1>2, <1>3 DEF Next

(* No login receives the tokens of an ended session.                        *)
LEMMA NoLoginIntoEnded ==
  ASSUME IInv, NEW s \in Session, [Next]_vars, GoneForGood(s)
  PROVE  \A f \in Flow : ~(op'[f] = "login" /\ held'[f] = s)
<1> USE DEF GoneForGood
<1>1. ASSUME NEW g \in Flow,
             \/ \E o \in {"call", "once"} : StartCall(g, o)
             \/ StartCheck(g)
             \/ StartLogout(g)
             \/ \E r \in Session : ReturnFromKeycloak(g, r)
             \/ FlowAnswered(g)
      PROVE  \A f \in Flow : ~(op'[f] = "login" /\ held'[f] = s)
  BY <1>1
     DEF StartCall, StartCheck, StartLogout, ReturnFromKeycloak, FlowAnswered,
         AnswerEnds, AnswerUnauthorized, LoginResolved, SwitchCompletes,
         LogoutCompletes, AwaitRefresh, Enter, Settle, IInv, SessionTypeOK
<1>2. ASSUME NEW t \in Tab,
             \/ RefreshAnswered(t)
             \/ \E v \in User : HandleSwitch(t, v)
             \/ Reload(t)
      PROVE  \A f \in Flow : ~(op'[f] = "login" /\ held'[f] = s)
  BY <1>2
     DEF RefreshAnswered, TokenIssued, RefreshCompletes, RefreshFails,
         RefreshAwaitsItself, HandleSwitch, Reload, Resume, Settle, flows, IInv,
         SessionTypeOK
<1>3. CASE \/ NearExpiry
           \/ AccessExpires
           \/ RefreshExpires
           \/ \E r \in Session : SessionEnds(r)
           \/ UNCHANGED vars
  BY <1>3 DEF NearExpiry, AccessExpires, RefreshExpires, SessionEnds, vars, flows
<1> QED  BY <1>1, <1>2, <1>3 DEF Next

(* A session that Keycloak has ended, and that no cookie, answered refresh  *)
(* or login holds, never comes back into the browser.                       *)
THEOREM EndedStaysOut == Spec => EndedSessionStaysOut
<1>1. ASSUME IInv, [Next]_vars, NEW s \in Session, GoneForGood(s)
      PROVE  GoneForGood(s)'
  <2>1. s \in started' \ alive'
    BY <1>1, EndedAtKeycloak DEF GoneForGood
  <2>2. refresh' # s
    BY <1>1, WhoStores, NoneAssumption DEF GoneForGood
  <2> QED
    BY <1>1, <2>1, <2>2, NoRefreshOfEnded, NoLoginIntoEnded DEF GoneForGood
<1>2. IInv /\ [Next]_vars =>
        [ \A s \in Session : GoneForGood(s) => GoneForGood(s)' ]_vars
  BY <1>1
<1> QED  BY <1>2, SpecIInv, PTL DEF Spec, EndedSessionStaysOut
-----------------------------------------------------------------------------
(* How a call goes on.                                                      *)

(* A request that is answered ends its call, is repeated after a refresh,   *)
(* or leads a login to the switch; only a first request is repeated.        *)
LEMMA SentAdvances ==
  ASSUME IInv, [Next]_vars, NEW f \in Flow
  PROVE  /\ pc[f] = "sent" => pc'[f] \in {"sent", "retry", "switch", "idle"}
         /\ pc[f] = "resent" => pc'[f] \in {"resent", "switch", "idle"}
         /\ pc[f] = "switch" => pc'[f] \in {"switch", "idle"}
         /\ pc[f] = "logout" => pc'[f] \in {"logout", "idle"}
<1> USE DEF IInv, SessionTypeOK
<1>1. ASSUME NEW g \in Flow,
             \/ \E o \in {"call", "once"} : StartCall(g, o)
             \/ StartCheck(g)
             \/ StartLogout(g)
             \/ \E s \in Session : ReturnFromKeycloak(g, s)
             \/ FlowAnswered(g)
      PROVE  \/ pc'[f] \in {pc[f], "idle"}
             \/ pc[f] = "idle"
             \/ pc[f] = "sent" /\ pc'[f] \in {"retry", "switch"}
             \/ pc[f] = "resent" /\ pc'[f] = "switch"
  <2>1. CASE \/ \E o \in {"call", "once"} : StartCall(g, o)
             \/ StartCheck(g)
             \/ StartLogout(g)
             \/ \E s \in Session : ReturnFromKeycloak(g, s)
    BY <2>1
       DEF StartCall, StartCheck, StartLogout, ReturnFromKeycloak, AwaitRefresh,
           Enter, Settle
  <2>2. CASE AnswerUnauthorized(g)
    BY <2>2 DEF AnswerUnauthorized, AwaitRefresh, Enter, Settle
  <2>3. CASE \/ AnswerEnds(g) \/ LoginResolved(g) \/ SwitchCompletes(g)
             \/ LogoutCompletes(g)
    BY <2>3
       DEF AnswerEnds, LoginResolved, SwitchCompletes, LogoutCompletes, Settle,
           OnWire
  <2> QED  BY <1>1, <2>1, <2>2, <2>3 DEF FlowAnswered
<1>2. ASSUME NEW t \in Tab,
             \/ RefreshAnswered(t)
             \/ \E u \in User : HandleSwitch(t, u)
             \/ Reload(t)
      PROVE  pc'[f] \in {pc[f], "idle"} \/ pc[f] \in Waiting
  BY <1>2
     DEF RefreshAnswered, TokenIssued, RefreshCompletes, RefreshFails,
         RefreshAwaitsItself, Resume, WaitersOf, HandleSwitch, Reload, Settle,
         flows
<1>3. ASSUME \/ NearExpiry
             \/ AccessExpires
             \/ RefreshExpires
             \/ \E s \in Session : SessionEnds(s)
             \/ UNCHANGED vars
      PROVE  pc' = pc
  BY <1>3
     DEF NearExpiry, AccessExpires, RefreshExpires, SessionEnds, vars, flows
<1>4. \/ pc'[f] \in {pc[f], "idle"}
      \/ pc[f] = "idle"
      \/ pc[f] = "sent" /\ pc'[f] \in {"retry", "switch"}
      \/ pc[f] = "resent" /\ pc'[f] = "switch"
      \/ pc[f] \in Waiting
  BY <1>1, <1>2, <1>3 DEF Next
<1> QED  BY <1>4 DEF Waiting

(* A call that waits goes on with the refresh it waits for: it waits until  *)
(* the slot is emptied, and then sends its request or ends.                 *)
LEMMA WaiterAdvances ==
  ASSUME IInv, [Next]_vars, NEW f \in Flow, pc[f] \in Waiting
  PROVE  \/ /\ stage'[Home[f]] = "none"
            /\ pc'[f] \in {"idle", IF pc[f] = "retry" THEN "resent" ELSE "sent"}
         \/ /\ pc'[f] = pc[f]
            /\ \/ stage'[Home[f]] = stage[Home[f]]
               \/ stage[Home[f]] = "token" /\ stage'[Home[f]] = "me"
               \/ stage[Home[f]] = "me" /\ stage'[Home[f]] = "self"
<1> USE DEF IInv, SessionTypeOK
<1> DEFINE t == Home[f]
<1>t. t \in Tab /\ stage[t] \in Running
  BY HomeAssumption DEF WaitersHaveARefresh
<1>w. pc[f] \notin {"idle", "sent", "resent", "switch", "logout"}
  BY DEF Waiting
<1>1. ASSUME NEW g \in Flow,
             \/ \E o \in {"call", "once"} : StartCall(g, o)
             \/ StartCheck(g)
             \/ StartLogout(g)
             \/ FlowAnswered(g)
      PROVE  pc'[f] = pc[f] /\ stage'[t] = stage[t]
  <2>1. pc[g] \notin Waiting
    BY <1>1
       DEF StartCall, StartCheck, StartLogout, FlowAnswered, AnswerEnds,
           AnswerUnauthorized, LoginResolved, SwitchCompletes, LogoutCompletes,
           OnWire, Waiting
  <2>2. g # f
    BY <2>1
  <2>3. ASSUME NEW o, NEW p, AwaitRefresh(g, o, p)
        PROVE  pc'[f] = pc[f] /\ stage'[t] = stage[t]
    BY <1>t, <2>2, <2>3, HomeAssumption DEF AwaitRefresh, Enter, Settle, Running
  <2>4. CASE \/ \E o \in {"call", "once"} : StartCall(g, o)
             \/ StartCheck(g) \/ StartLogout(g) \/ AnswerUnauthorized(g)
    BY <2>2, <2>3, <2>4
       DEF StartCall, StartCheck, StartLogout, AnswerUnauthorized, Enter, tabs
  <2>5. CASE \/ AnswerEnds(g) \/ LoginResolved(g) \/ SwitchCompletes(g)
             \/ LogoutCompletes(g)
    BY <2>2, <2>5
       DEF AnswerEnds, LoginResolved, SwitchCompletes, LogoutCompletes, Settle,
           tabs
  <2> QED  BY <1>1, <2>4, <2>5 DEF FlowAnswered
<1>2. ASSUME NEW g \in Flow, \E s \in Session : ReturnFromKeycloak(g, s)
      PROVE  \/ pc'[f] = "idle" /\ stage'[t] = "none"
             \/ pc'[f] = pc[f] /\ stage'[t] = stage[t]
  <2>1. g # f
    BY <1>2, <1>w DEF ReturnFromKeycloak
  <2>2. CASE Home[g] = t
    BY <1>2, <1>t, <2>1, <2>2 DEF ReturnFromKeycloak, FlowsOf, Unload
  <2>3. CASE Home[g] # t
    BY <1>2, <1>t, <2>1, <2>3, HomeAssumption
       DEF ReturnFromKeycloak, FlowsOf, Unload
  <2> QED  BY <2>2, <2>3
<1>3. ASSUME NEW u \in Tab, u # t,
             \/ RefreshAnswered(u)
             \/ \E v \in User : HandleSwitch(u, v)
             \/ Reload(u)
      PROVE  pc'[f] = pc[f] /\ stage'[t] = stage[t]
  BY <1>3, <1>t
     DEF RefreshAnswered, TokenIssued, RefreshCompletes, RefreshFails,
         RefreshAwaitsItself, Resume, WaitersOf, FlowsOf, HandleSwitch, Reload,
         Unload, Settle, flows, tabs
<1>4. CASE RefreshAnswered(t)
  <2>1. f \in WaitersOf(t)
    BY DEF WaitersOf, FlowsOf
  <2>2. CASE TokenIssued(t) \/ RefreshAwaitsItself(t)
    BY <1>t, <2>2 DEF TokenIssued, RefreshAwaitsItself, flows
  <2>3. CASE RefreshCompletes(t) \/ RefreshFails(t)
    BY <1>t, <2>1, <2>3 DEF RefreshCompletes, RefreshFails, Resume, Settle
  <2> QED  BY <1>4, <2>2, <2>3 DEF RefreshAnswered
<1>5. CASE (\E v \in User : HandleSwitch(t, v)) \/ Reload(t)
  BY <1>5, <1>t DEF HandleSwitch, Reload, Unload, Settle, FlowsOf, flows, tabs
<1>6. CASE \/ NearExpiry
           \/ AccessExpires
           \/ RefreshExpires
           \/ \E s \in Session : SessionEnds(s)
           \/ UNCHANGED vars
  BY <1>6
     DEF NearExpiry, AccessExpires, RefreshExpires, SessionEnds, vars, flows, tabs
<1> QED  BY <1>1, <1>2, <1>3, <1>4, <1>5, <1>6, <1>t DEF Next

(* authorizedFetch sends a request at most twice, and the second time only  *)
(* after one refresh: no loop of refreshes and repetitions.                 *)
THEOREM RetriedOnceHolds == Spec => RetriedOnce
<1>1. ASSUME IInv, [Next]_vars, NEW f \in Flow, pc[f] # "idle", pc'[f] # pc[f]
      PROVE  /\ SendsLeft(pc'[f]) <= SendsLeft(pc[f])
             /\ pc'[f] \in OnWire => SendsLeft(pc'[f]) < SendsLeft(pc[f])
  <2>1. pc[f] \in Place
    BY <1>1 DEF IInv, SessionTypeOK
  <2>2. CASE pc[f] \in Waiting
    BY <1>1, <2>2, WaiterAdvances DEF SendsLeft, OnWire, Waiting
  <2>3. CASE pc[f] \notin Waiting
    BY <1>1, <2>1, <2>3, SentAdvances DEF SendsLeft, OnWire, Waiting, Place
  <2> QED  BY <2>2, <2>3
<1>2. IInv /\ [Next]_vars =>
        [ \A f \in Flow :
            pc'[f] # pc[f] /\ pc[f] # "idle" =>
              /\ SendsLeft(pc'[f]) <= SendsLeft(pc[f])
              /\ pc'[f] \in OnWire => SendsLeft(pc'[f]) < SendsLeft(pc[f]) ]_pc
  BY <1>1
<1> QED  BY <1>2, SpecIInv, PTL DEF Spec, RetriedOnce

-----------------------------------------------------------------------------
(* What becomes of the calls, if their requests are answered.               *)

(* Every request of a call or of a refresh is answered or fails: what fetch *)
(* and XMLHttpRequest promise, and what the weak fairness of FlowAnswered   *)
(* and RefreshAnswered amounts to, both being enabled at these places.      *)
RequestsSettle ==
  \A f \in Flow : /\ (pc[f] = "sent") ~> ~(pc[f] = "sent")
                  /\ (pc[f] = "resent") ~> ~(pc[f] = "resent")
                  /\ (pc[f] = "switch") ~> ~(pc[f] = "switch")
                  /\ (pc[f] = "logout") ~> ~(pc[f] = "logout")
                  /\ (stage[Home[f]] = "token") ~> ~(stage[Home[f]] = "token")
                  /\ (stage[Home[f]] = "me") ~> ~(stage[Home[f]] = "me")

(* Every call ends, or waits for a refresh that waits for itself: if the    *)
(* requests settle, that is the only way to hang, in any number of tabs.    *)
THEOREM OnlySelfHangs == Spec /\ RequestsSettle => HangsOnlyBehindItself
<1>1. ASSUME NEW f \in Flow
      PROVE  /\ Spec
             /\ (pc[f] = "sent") ~> ~(pc[f] = "sent")
             /\ (pc[f] = "resent") ~> ~(pc[f] = "resent")
             /\ (pc[f] = "switch") ~> ~(pc[f] = "switch")
             /\ (pc[f] = "logout") ~> ~(pc[f] = "logout")
             /\ (stage[Home[f]] = "token") ~> ~(stage[Home[f]] = "token")
             /\ (stage[Home[f]] = "me") ~> ~(stage[Home[f]] = "me")
             => ((pc[f] # "idle") ~>
                   \/ pc[f] = "idle"
                   \/ pc[f] \in Waiting /\ stage[Home[f]] = "self")
  <2> DEFINE Early == pc[f] = "preflight" \/ pc[f] = "refresh"
             Late == pc[f] = "retry"
             Asks == stage[Home[f]] = "token"
             Names == stage[Home[f]] = "me"
             Hangs == stage[Home[f]] = "self"
             Ended == pc[f] = "idle"
  <2>1. IInv => \/ Ended \/ pc[f] = "sent" \/ pc[f] = "resent"
                \/ pc[f] = "switch" \/ pc[f] = "logout"
                \/ (Early \/ Late) /\ (Asks \/ Names \/ Hangs)
    BY DEF IInv, SessionTypeOK, WaitersHaveARefresh, Place, Waiting, Running
  <2>2. IInv /\ [Next]_vars =>
          /\ pc[f] = "sent" =>
               (pc[f] = "sent" \/ Late \/ pc[f] = "switch" \/ Ended)'
          /\ pc[f] = "resent" => (pc[f] = "resent" \/ pc[f] = "switch" \/ Ended)'
          /\ pc[f] = "switch" => (pc[f] = "switch" \/ Ended)'
          /\ pc[f] = "logout" => (pc[f] = "logout" \/ Ended)'
    BY SentAdvances
  <2>3. IInv /\ [Next]_vars =>
          /\ Early /\ Asks =>
               ((Early /\ (Asks \/ Names)) \/ pc[f] = "sent" \/ Ended)'
          /\ Early /\ Names =>
               ((Early /\ (Names \/ Hangs)) \/ pc[f] = "sent" \/ Ended)'
          /\ Late /\ Asks =>
               ((Late /\ (Asks \/ Names)) \/ pc[f] = "resent" \/ Ended)'
          /\ Late /\ Names =>
               ((Late /\ (Names \/ Hangs)) \/ pc[f] = "resent" \/ Ended)'
    BY WaiterAdvances DEF Waiting
  <2>4. ((Early \/ Late) /\ Hangs) <=> (pc[f] \in Waiting /\ stage[Home[f]] = "self")
    BY DEF Waiting
  <2>5. /\ ~(Asks /\ Names) /\ ~(Asks /\ Hangs) /\ ~(Names /\ Hangs)
        /\ (pc[f] # "idle") <=> ~Ended
    OBVIOUS
  <2> QED  BY <2>1, <2>2, <2>3, <2>4, <2>5, SpecIInv, PTL DEF Spec
<1> QED  BY <1>1 DEF RequestsSettle, HangsOnlyBehindItself

(* The page of tab t is left: its slot is emptied, and nothing waits for it.*)
PageLeft(t) == stage'[t] = "none" /\ \A f \in FlowsOf(t) : pc'[f] \notin Waiting

(* A refresh that waits for itself never settles, and a rejected one is     *)
(* never removed: only a page load empties the slot, and until then all     *)
(* that waits goes on waiting.                                              *)
THEOREM StuckUntilPageLeft ==
  Spec => [][ \A t \in Tab :
                /\ stage[t] = "self" =>
                     \/ PageLeft(t)
                     \/ /\ stage'[t] = "self"
                        /\ \A f \in WaitersOf(t) : pc'[f] = pc[f]
                /\ stage[t] = "rejected" => PageLeft(t) \/ stage'[t] = "rejected" ]_vars
<1>1. ASSUME IInv, [Next]_vars, NEW t \in Tab, stage[t] \in {"self", "rejected"}
      PROVE  PageLeft(t) \/ stage'[t] = stage[t]
  <2> USE DEF IInv, SessionTypeOK
  <2>1. ASSUME NEW g \in Flow,
               \/ \E o \in {"call", "once"} : StartCall(g, o)
               \/ StartCheck(g)
               \/ StartLogout(g)
               \/ FlowAnswered(g)
        PROVE  stage'[t] = stage[t]
    BY <1>1, <2>1, HomeAssumption
       DEF StartCall, StartCheck, StartLogout, FlowAnswered, AnswerEnds,
           AnswerUnauthorized, LoginResolved, SwitchCompletes, LogoutCompletes,
           AwaitRefresh, tabs, Running
  <2>2. ASSUME NEW g \in Flow, \E s \in Session : ReturnFromKeycloak(g, s)
        PROVE  PageLeft(t) \/ stage'[t] = stage[t]
    BY <1>1, <2>2, HomeAssumption
       DEF ReturnFromKeycloak, Unload, FlowsOf, PageLeft, Waiting
  <2>3. ASSUME NEW u \in Tab, RefreshAnswered(u)
        PROVE  stage'[t] = stage[t]
    BY <1>1, <2>3
       DEF RefreshAnswered, TokenIssued, RefreshCompletes, RefreshFails,
           RefreshAwaitsItself
  <2>4. ASSUME NEW u \in Tab, (\E v \in User : HandleSwitch(u, v)) \/ Reload(u)
        PROVE  PageLeft(t) \/ stage'[t] = stage[t]
    BY <1>1, <2>4
       DEF HandleSwitch, Reload, Unload, Settle, FlowsOf, PageLeft, Waiting, tabs
  <2>5. CASE \/ NearExpiry
             \/ AccessExpires
             \/ RefreshExpires
             \/ \E s \in Session : SessionEnds(s)
             \/ UNCHANGED vars
    BY <2>5
       DEF NearExpiry, AccessExpires, RefreshExpires, SessionEnds, vars, tabs
  <2> QED  BY <1>1, <2>1, <2>2, <2>3, <2>4, <2>5 DEF Next
<1>2. ASSUME IInv, [Next]_vars, NEW t \in Tab, stage'[t] = "self"
      PROVE  \A f \in WaitersOf(t) : pc'[f] = pc[f]
  BY <1>2, WaiterAdvances DEF WaitersOf, FlowsOf
<1>3. IInv /\ [Next]_vars =>
        [ \A t \in Tab :
            /\ stage[t] = "self" =>
                 \/ PageLeft(t)
                 \/ /\ stage'[t] = "self"
                    /\ \A f \in WaitersOf(t) : pc'[f] = pc[f]
            /\ stage[t] = "rejected" => PageLeft(t) \/ stage'[t] = "rejected" ]_vars
  BY <1>1, <1>2
<1> QED  BY <1>3, SpecIInv, PTL DEF Spec
=============================================================================
