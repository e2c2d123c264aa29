--------------------------- MODULE BrowserSession ---------------------------
(***************************************************************************)
(* The session layer of the browser client: frontend/src/lib/api.ts, with  *)
(* keycloakAuth.ts, the /login page and AuthSessionSwitchGuard.  All tabs  *)
(* of one browser share the cookies and the local storage; each tab has a  *)
(* module instance of its own, whose single-flight slot                    *)
(* runtimeSessionRefreshPromise its calls share.  JavaScript runs to       *)
(* completion, so one action is the code between two awaits, and every     *)
(* await is a point at which another call, another tab, Keycloak or time   *)
(* may act.                                                                *)
(*                                                                         *)
(* A token is represented by the Keycloak session it belongs to: an access *)
(* token and a refresh token of session s are both s.  Keycloak and the    *)
(* API are outside: a refresh token is honoured while its session is       *)
(* alive (infra/keycloak/realm-team4s.json does not rotate refresh         *)
(* tokens), and the API may answer 401 to any bearer, for a token may have *)
(* run out on its way, its session or its subject may be revoked by        *)
(* backchannel logout, or its signature may not be checkable just now.     *)
(***************************************************************************)
EXTENDS Naturals, FiniteSets

CONSTANTS
  Tab,      \* the open tabs of the browser
  Flow,     \* slots for the asynchronous calls a page may have open
  Home,     \* Home[f]: the tab slot f belongs to
  Session,  \* Keycloak sessions
  User,     \* application users
  Owner,    \* Owner[s]: the user session s belongs to
  Offers,   \* Offers[f]: the operations slot f is used for (a bound)
  Logins,   \* the sessions a login may bring (a bound)
  None      \* no token, no user

ASSUME HomeAssumption  == Home \in [Flow -> Tab]
ASSUME OwnerAssumption == Owner \in [Session -> User]
ASSUME OffersAssumption ==
  Offers \in [Flow -> SUBSET {"call", "once", "check", "login", "logout"}]
ASSUME LoginsAssumption == Logins \subseteq Session
ASSUME NoneAssumption  == None \notin Session /\ None \notin User

VARIABLES
  access,   \* cookie team4s_access_token
  refresh,  \* cookie team4s_refresh_token
  due,      \* private meta: the access token ends within the refresh buffer
  meta,     \* local storage: app_user_id of the session meta
  alive,    \* Keycloak: sessions whose refresh token is honoured
  started,  \* Keycloak: sessions that were ever started
  stage,    \* stage[t]: runtimeSessionRefreshPromise of tab t
  rs,       \* rs[t]: refresh token that the refresh of tab t has read
  pc,       \* pc[f]: where the call in slot f stands
  op,       \* op[f]: which call it is
  bearer,   \* bearer[f]: token with which a login asks /me who has signed in
  held,     \* held[f]: session whose tokens a login has received
  old,      \* old[f]: refresh token that a logout or a switch revokes
  pending   \* pending[t]: switch events not yet handled in tab t

cookies  == <<access, refresh, due, meta>>
keycloak == <<alive, started>>
tabs     == <<stage, rs>>
flows    == <<pc, op, bearer, held, old>>
vars     == <<cookies, keycloak, tabs, flows, pending>>

-----------------------------------------------------------------------------
Token  == Session \cup {None}
Person == User \cup {None}

(* "call": a request of authorizedFetch; "once": an upload or a request     *)
(* with retryAuth401 off; "login": completeKeycloakAuthCallback; "logout":  *)
(* logoutActiveAuthSession                                                  *)
Operation == {"none", "call", "once", "login", "logout"}

(* "preflight", "retry" and "refresh" await the tab's refresh               *)
Place == {"idle", "preflight", "sent", "retry", "resent", "refresh",
          "logout", "switch"}
Waiting == {"preflight", "retry", "refresh"}
OnWire  == {"sent", "resent"}

(* "none": the slot is empty; "token": the token endpoint is being asked;   *)
(* "me": Keycloak has issued the bundle and /me is being asked with it;     *)
(* "self": that /me call awaits the refresh it is part of; "rejected": the  *)
(* slot holds a promise that was rejected and never removed                 *)
Stage   == {"none", "token", "me", "self", "rejected"}
Running == {"token", "me", "self"}

(* The type invariant: the possible values of every variable, in every      *)
(* order in which calls, tabs, Keycloak and time may act on them.           *)
SessionTypeOK ==
  /\ access \in Token /\ refresh \in Token /\ due \in BOOLEAN /\ meta \in Person
  /\ alive \subseteq Session /\ started \subseteq Session
  /\ stage \in [Tab -> Stage] /\ rs \in [Tab -> Token]
  /\ pc \in [Flow -> Place] /\ op \in [Flow -> Operation]
  /\ bearer \in [Flow -> Token] /\ held \in [Flow -> Token]
  /\ old \in [Flow -> Token]
  /\ pending \in [Tab -> SUBSET User]

(* A browser that holds nothing, or the fresh session of an earlier login.  *)
Init ==
  /\ \/ access = None /\ meta = None /\ alive = {}
     \/ \E s \in Session : access = s /\ meta = Owner[s] /\ alive = {s}
  /\ refresh = access /\ due = FALSE /\ started = alive
  /\ stage = [t \in Tab |-> "none"] /\ rs = [t \in Tab |-> None]
  /\ pc = [f \in Flow |-> "idle"] /\ op = [f \in Flow |-> "none"]
  /\ bearer = [f \in Flow |-> None] /\ held = [f \in Flow |-> None]
  /\ old = [f \in Flow |-> None]
  /\ pending = [t \in Tab |-> {}]

-----------------------------------------------------------------------------
(* What is stored in the browser.                                          *)

(* persistAuthSession mutated: the meta names the session, not the user.    *)
PersistSessionAsUser(s, u) ==
  /\ access' = s /\ refresh' = s /\ due' = FALSE /\ meta' = s
  /\ UNCHANGED pending

(* persistAuthSession mutated: a refresh cookie that exists is kept.        *)
PersistKeepsRefresh(s, u) ==
  /\ access' = s /\ refresh' = IF refresh = None THEN s ELSE refresh
  /\ due' = FALSE /\ meta' = u
  /\ UNCHANGED pending

(* publishRuntimeSessionSwitch: the event reaches every guard of the        *)
(* browser                                                                  *)
Announced(u) == [t \in Tab |-> pending[t] \cup {u}]

(* persistAuthSession; the switch is announced only when the replaced meta  *)
(* names another user                                                       *)
Persist(s, u) ==
  /\ access' = s /\ refresh' = s /\ due' = FALSE /\ meta' = u
  /\ pending' = IF meta \notin {None, u} THEN Announced(u) ELSE pending

(* clearAuthSession *)
Clear == access' = None /\ refresh' = None /\ due' = FALSE /\ meta' = None

ShouldRefresh == refresh # None /\ (access = None \/ due)

-----------------------------------------------------------------------------
(* The slots.                                                              *)

FlowsOf(t) == {f \in Flow : Home[f] = t}

(* the promises of the slots in F settle, or their page is gone             *)
Settle(F) ==
  /\ pc'     = [f \in Flow |-> IF f \in F THEN "idle" ELSE pc[f]]
  /\ op'     = [f \in Flow |-> IF f \in F THEN "none" ELSE op[f]]
  /\ bearer' = [f \in Flow |-> IF f \in F THEN None ELSE bearer[f]]
  /\ held'   = [f \in Flow |-> IF f \in F THEN None ELSE held[f]]
  /\ old'    = [f \in Flow |-> IF f \in F THEN None ELSE old[f]]

WaitersOf(t) == {f \in FlowsOf(t) : pc[f] \in Waiting}

(* everything that awaited the refresh goes on in the same turn, and sends  *)
(* its request with the token s that has just been stored                   *)
Resume(t, s) ==
  /\ pc' = [f \in Flow |-> IF f \notin WaitersOf(t) THEN pc[f]
                           ELSE IF pc[f] = "retry" THEN "resent" ELSE "sent"]
  /\ bearer' = [f \in Flow |-> IF f \in WaitersOf(t) /\ op[f] = "login"
                               THEN s ELSE bearer[f]]
  /\ UNCHANGED <<op, held, old>>

(* slot f is in operation o and goes to place p                             *)
Enter(f, o, p) ==
  /\ pc' = [pc EXCEPT ![f] = p]
  /\ op' = [op EXCEPT ![f] = o]

(* refreshRuntimeSession called by slot f in operation o, which awaits it   *)
(* at place p: join the running refresh, start one, or fail.  The missing   *)
(* refresh token throws before the try block, so that nothing empties the   *)
(* slot again, and every later caller of this page gets that rejection.     *)
AwaitRefresh(f, o, p) ==
  LET t == Home[f] IN
  \/ /\ stage[t] \in Running
     /\ Enter(f, o, p)
     /\ UNCHANGED <<stage, rs, bearer, held, old>>
  \/ /\ stage[t] = "none" /\ refresh # None
     /\ stage' = [stage EXCEPT ![t] = "token"]
     /\ rs' = [rs EXCEPT ![t] = refresh]
     /\ Enter(f, o, p)
     /\ UNCHANGED <<bearer, held, old>>
  \/ /\ stage[t] = "none" /\ refresh = None
     /\ stage' = [stage EXCEPT ![t] = "rejected"]
     /\ Settle({f})
     /\ UNCHANGED rs
  \/ /\ stage[t] = "rejected"
     /\ Settle({f})
     /\ UNCHANGED <<stage, rs>>

-----------------------------------------------------------------------------
(* Calls.                                                                  *)

(* authorizedFetch and authorizedUploadXhr: the expiry check, then the      *)
(* request with the token of that moment                                    *)
StartCall(f, o) ==
  /\ pc[f] = "idle" /\ o \in Offers[f]
  /\ \/ /\ ~ShouldRefresh
        /\ Enter(f, o, "sent")
        /\ UNCHANGED <<tabs, bearer, held, old>>
     \/ /\ ShouldRefresh
        /\ AwaitRefresh(f, o, "preflight")
  /\ UNCHANGED <<cookies, keycloak, pending>>

(* refreshActiveAuthSession, called by the profile page when the user comes *)
(* back from the account console: a refresh, then a call of /me             *)
StartCheck(f) ==
  /\ pc[f] = "idle" /\ "check" \in Offers[f]
  /\ AwaitRefresh(f, "call", "refresh")
  /\ UNCHANGED <<cookies, keycloak, pending>>

(* an answer that ends the call: success of a call that is no login, any    *)
(* error that is not an auth-related 401, a 401 to a request that is not    *)
(* repeated, or a 401 when the browser holds no refresh token               *)
AnswerEnds(f) ==
  /\ pc[f] \in OnWire
  /\ Settle({f})
  /\ UNCHANGED <<cookies, keycloak, tabs, pending>>

(* authorizedFetch mutated: a repeated request is repeated again.           *)
AnswerUnauthorizedAgain(f) ==
  /\ pc[f] \in OnWire /\ op[f] # "once"
  /\ refresh # None
  /\ AwaitRefresh(f, op[f], "retry")
  /\ UNCHANGED <<cookies, keycloak, pending>>

(* an auth-related 401 to a first request: refresh and repeat               *)
AnswerUnauthorized(f) ==
  /\ pc[f] = "sent" /\ op[f] # "once"
  /\ refresh # None
  /\ AwaitRefresh(f, op[f], "retry")
  /\ UNCHANGED <<cookies, keycloak, pending>>

-----------------------------------------------------------------------------
(* The refresh of a tab.                                                   *)

(* Keycloak honours the refresh token; the bundle is on its way, and /me is *)
(* asked with its access token                                              *)
TokenIssued(t) ==
  /\ stage[t] = "token" /\ rs[t] \in alive
  /\ stage' = [stage EXCEPT ![t] = "me"]
  /\ UNCHANGED <<cookies, keycloak, rs, flows, pending>>

(* refreshRuntimeSession mutated: /me is skipped when there is a meta.      *)
RefreshKeepsMeta(t) ==
  /\ stage[t] = "me"
  /\ Persist(rs[t], IF meta = None THEN Owner[rs[t]] ELSE meta)
  /\ Resume(t, rs[t])
  /\ stage' = [stage EXCEPT ![t] = "none"]
  /\ rs' = [rs EXCEPT ![t] = None]
  /\ UNCHANGED keycloak

(* /me names the user: the bundle is stored, whatever the browser holds by  *)
(* now, and the slot is emptied                                             *)
RefreshCompletes(t) ==
  /\ stage[t] = "me"
  /\ Persist(rs[t], Owner[rs[t]])
  /\ Resume(t, rs[t])
  /\ stage' = [stage EXCEPT ![t] = "none"]
  /\ rs' = [rs EXCEPT ![t] = None]
  /\ UNCHANGED keycloak

(* refreshRuntimeSession mutated: a failure leaves the waiting calls alone. *)
RefreshFailsSilently(t) ==
  /\ stage[t] \in {"token", "me"}
  /\ Clear
  /\ stage' = [stage EXCEPT ![t] = "none"]
  /\ rs' = [rs EXCEPT ![t] = None]
  /\ UNCHANGED <<keycloak, flows, pending>>

(* refreshRuntimeSession mutated: a failure puts back the session that the  *)
(* refresh set out with.                                                    *)
RefreshFailsRestoring(t) ==
  /\ stage[t] \in {"token", "me"}
  /\ Persist(rs[t], Owner[rs[t]])
  /\ Settle(WaitersOf(t))
  /\ stage' = [stage EXCEPT ![t] = "none"]
  /\ rs' = [rs EXCEPT ![t] = None]
  /\ UNCHANGED keycloak

(* the token endpoint refuses or cannot be reached, or /me fails: the       *)
(* session is cleared, whichever it is by now                               *)
RefreshFails(t) ==
  /\ stage[t] \in {"token", "me"}
  /\ Clear
  /\ Settle(WaitersOf(t))
  /\ stage' = [stage EXCEPT ![t] = "none"]
  /\ rs' = [rs EXCEPT ![t] = None]
  /\ UNCHANGED <<keycloak, pending>>

(* /me answers with an auth-related 401: it is a call like any other, so it *)
(* asks for a refresh, and receives the promise it is running in            *)
RefreshAwaitsItself(t) ==
  /\ stage[t] = "me" /\ refresh # None
  /\ stage' = [stage EXCEPT ![t] = "self"]
  /\ UNCHANGED <<cookies, keycloak, rs, flows, pending>>

-----------------------------------------------------------------------------
(* Login, logout and the switch guard.                                     *)

(* a page load of tab t empties its refresh slot; its calls and listeners   *)
(* are gone with it                                                         *)
Unload(t) ==
  /\ stage' = [stage EXCEPT ![t] = "none"]
  /\ rs' = [rs EXCEPT ![t] = None]

(* the user comes back from Keycloak to /login, the code is exchanged for   *)
(* the tokens of session s, and /me is asked with them                      *)
ReturnFromKeycloak(f, s) ==
  LET t == Home[f]
      Gone == FlowsOf(t) \ {f}
      At(fn, v, none) == [g \in Flow |-> IF g = f THEN v
                                         ELSE IF g \in Gone THEN none ELSE fn[g]]
  IN
  /\ pc[f] = "idle" /\ "login" \in Offers[f]
  /\ s \in Logins
  /\ s \in alive \/ s \notin started
  /\ alive' = alive \cup {s} /\ started' = started \cup {s}
  /\ Unload(t)
  /\ pc' = At(pc, "sent", "idle") /\ op' = At(op, "login", "none")
  /\ bearer' = At(bearer, s, None) /\ held' = At(held, s, None)
  /\ old' = At(old, None, None)
  /\ pending' = [pending EXCEPT ![t] = {}]
  /\ UNCHANGED cookies

(* persistResolvedAuthSession with the user /me has named: with another     *)
(* user's session in the browser the old one is cleared, silently, and      *)
(* revoked before the new one is stored                                     *)
LoginResolved(f) ==
  LET u == Owner[bearer[f]] IN
  /\ pc[f] \in OnWire /\ op[f] = "login"
  /\ \/ /\ meta \in {None, u}
        /\ Persist(held[f], u)
        /\ Settle({f})
     \/ /\ meta \notin {None, u}
        /\ Clear
        /\ pc' = [pc EXCEPT ![f] = "switch"]
        /\ old' = [old EXCEPT ![f] = refresh]
        /\ UNCHANGED <<op, bearer, held, pending>>
  /\ UNCHANGED <<keycloak, tabs>>

(* logoutFromKeycloak has come back; the request may have failed            *)
Revoke(s) == alive' \in {alive, alive \ {s}} /\ UNCHANGED started

(* prepareRuntimeSessionSwitch has ended: the new session is stored         *)
SwitchCompletes(f) ==
  /\ pc[f] = "switch"
  /\ Revoke(old[f])
  /\ Persist(held[f], Owner[bearer[f]])
  /\ Settle({f})
  /\ UNCHANGED tabs

StartLogout(f) ==
  /\ pc[f] = "idle" /\ "logout" \in Offers[f]
  /\ Enter(f, "logout", "logout")
  /\ old' = [old EXCEPT ![f] = refresh]
  /\ UNCHANGED <<cookies, keycloak, tabs, bearer, held, pending>>

LogoutCompletes(f) ==
  /\ pc[f] = "logout"
  /\ Revoke(old[f])
  /\ Clear
  /\ Settle({f})
  /\ UNCHANGED <<tabs, pending>>

(* AuthSessionSwitchGuard of tab t handles a switch to user u: a tab that   *)
(* finds another user's session signs it out and loads /login.  The page    *)
(* goes on until that navigation commits, which is Reload.                  *)
HandleSwitch(t, u) ==
  /\ u \in pending[t]
  /\ pending' = [pending EXCEPT ![t] = @ \ {u}]
  /\ IF meta \in {None, u} THEN UNCHANGED cookies ELSE Clear
  /\ UNCHANGED <<keycloak, tabs, flows>>

-----------------------------------------------------------------------------
(* The user, time and Keycloak.                                            *)

(* the page is loaded anew, or a navigation of the guard commits            *)
Reload(t) ==
  /\ Unload(t)
  /\ Settle(FlowsOf(t))
  /\ pending' = [pending EXCEPT ![t] = {}]
  /\ UNCHANGED <<cookies, keycloak>>

(* the access token enters the buffer of 60 seconds, its cookie runs out,   *)
(* and with the Keycloak session the refresh cookie                         *)
NearExpiry ==
  /\ access # None /\ ~due
  /\ due' = TRUE
  /\ UNCHANGED <<access, refresh, meta, keycloak, tabs, flows, pending>>

AccessExpires ==
  /\ access # None /\ due
  /\ access' = None /\ due' = FALSE
  /\ UNCHANGED <<refresh, meta, keycloak, tabs, flows, pending>>

RefreshExpires ==
  /\ refresh # None /\ access = None
  /\ refresh' = None
  /\ alive' = alive \ {refresh}
  /\ UNCHANGED <<access, due, meta, started, tabs, flows, pending>>

(* signed out elsewhere, or ended by an administrator                       *)
SessionEnds(s) ==
  /\ s \in alive
  /\ alive' = alive \ {s}
  /\ UNCHANGED <<cookies, started, tabs, flows, pending>>

-----------------------------------------------------------------------------
FlowAnswered(f) ==
  \/ AnswerEnds(f)
  \/ AnswerUnauthorized(f)
  \/ LoginResolved(f)
  \/ SwitchCompletes(f)
  \/ LogoutCompletes(f)

RefreshAnswered(t) ==
  \/ TokenIssued(t)
  \/ RefreshCompletes(t)
  \/ RefreshFails(t)
  \/ RefreshAwaitsItself(t)

Next ==
  \/ \E f \in Flow :
       \/ \E o \in {"call", "once"} : StartCall(f, o)
       \/ StartCheck(f)
       \/ StartLogout(f)
       \/ \E s \in Session : ReturnFromKeycloak(f, s)
       \/ FlowAnswered(f)
  \/ \E t \in Tab :
       \/ RefreshAnswered(t)
       \/ \E u \in User : HandleSwitch(t, u)
       \/ Reload(t)
  \/ NearExpiry
  \/ AccessExpires
  \/ RefreshExpires
  \/ \E s \in Session : SessionEnds(s)

Spec == Init /\ [][Next]_vars

(* Every request is answered or fails: fetch and XMLHttpRequest settle.     *)
(* Nothing forces a user to act, a tab to reload or a session to end.       *)
Fairness ==
  /\ \A f \in Flow : WF_vars(FlowAnswered(f))
  /\ \A t \in Tab : WF_vars(RefreshAnswered(t))

FairSpec == Spec /\ Fairness

-----------------------------------------------------------------------------
(* A call that waits for a refresh waits for one that is under way in its   *)
(* own tab: no settlement of the shared promise forgets one of the calls    *)
(* that share it, and no page load leaves one behind.                       *)
WaitersHaveARefresh ==
  \A f \in Flow : pc[f] \in Waiting => stage[Home[f]] \in Running

(* Whatever order refreshes, logins, logouts and expiries of several tabs   *)
(* take, the two token cookies belong to one session: a call never goes out *)
(* under one session while the refresh behind it would renew another.       *)
TokensOfOneSession ==
  access # None => access = refresh

(* The user whose meta is stored with a pair of tokens is the user the      *)
(* tokens belong to - unless a login had to repeat its /me request, which   *)
(* then carries the token the browser holds and not the one the login got.  *)
IdentityStoredWithTokens ==
  [][ (refresh' \notin {None, refresh}) =>
        \/ meta' = Owner[refresh']
        \/ \E f \in Flow : /\ op[f] = "login" /\ held[f] = refresh'
                           /\ bearer[f] # held[f] ]_vars

(* A session that Keycloak has ended and the browser no longer holds stays  *)
(* out: only a refresh that was past the token endpoint, or a login that    *)
(* had its tokens, may bring it back.                                       *)
GoneForGood(s) ==
  /\ s \in started \ alive
  /\ refresh # s
  /\ \A t \in Tab : ~(stage[t] = "me" /\ rs[t] = s)
  /\ \A f \in Flow : ~(op[f] = "login" /\ held[f] = s)

EndedSessionStaysOut ==
  [][ \A s \in Session : GoneForGood(s) => GoneForGood(s)' ]_vars

(* "Retry exactly once after an auth-related 401": whatever the refreshes   *)
(* of its tab do, a call only goes forward, and every request it sends is   *)
(* one of two.                                                              *)
SendsLeft(place) ==
  CASE place \in {"preflight", "refresh"} -> 2
    [] place \in {"sent", "retry"}        -> 1
    [] OTHER                              -> 0

RetriedOnce ==
  [][ \A f \in Flow :
        pc'[f] # pc[f] /\ pc[f] # "idle" =>
          /\ SendsLeft(pc'[f]) <= SendsLeft(pc[f])
          /\ pc'[f] \in OnWire => SendsLeft(pc'[f]) < SendsLeft(pc[f]) ]_pc

(* Every call ends, except one that waits for a refresh whose own /me       *)
(* request was answered 401 and now waits for that very refresh.            *)
HangsOnlyBehindItself ==
  \A f \in Flow :
    (pc[f] # "idle") ~>
      \/ pc[f] = "idle"
      \/ pc[f] \in Waiting /\ stage[Home[f]] = "self"

(* "Retry exactly once after an auth-related 401 and avoid infinite refresh *)
(* loops" (49-CONTEXT.md): every call ends.                                 *)
EveryCallEnds ==
  \A f \in Flow : (pc[f] # "idle") ~> (pc[f] = "idle")
=============================================================================
