----------------------------- MODULE SessionRefresh -----------------------------
(* One user's session: the app's AuthInterceptor and token storage, and the    *)
(* backend's refresh-token rotation.  Requests run in parallel; every await    *)
(* separates two actions.  A token pair is named by the number of its issue.   *)
EXTENDS Naturals

CONSTANTS
    Request,      \* concurrent REST calls of the app
    MaxTokens,    \* bound: pairs issued
    ServerFails,  \* a retried call may fail for reasons other than its token
    NetworkFails, \* a refresh may time out, before or after the server acted
    UserSignsOut  \* the user may sign out and in again

ASSUME SessionAssumption ==
    /\ MaxTokens \in Nat \ {0}
    /\ {ServerFails, NetworkFails, UserSignsOut} \subseteq BOOLEAN

Pair == 1 .. MaxTokens

VARIABLES
    issued,                 \* pairs issued so far
    accessLive,             \* access tokens that have not expired
    refreshLive,            \* refresh_tokens rows with revoked_at IS NULL
    access, refresh,        \* secure storage, 0 for a missing key
    session, leaving,       \* AuthNotifier: "in" or "out"; inside signOut
    pc, token, unsaved,     \* of each request
    endings                 \* why requests cleared the session

server == <<issued, accessLive, refreshLive>>
storage == <<access, refresh>>
user == <<session, leaving>>
requests == <<pc, token, unsaved>>
vars == <<server, storage, user, requests, endings>>

Init ==
    /\ issued = 1 /\ accessLive = {1} /\ refreshLive = {1}
    /\ access = 1 /\ refresh = 1 /\ session = "in" /\ leaving = FALSE
    /\ pc = [r \in Request |-> "idle"]
    /\ token = [r \in Request |-> 0]
    /\ unsaved = [r \in Request |-> {}]
    /\ endings = {}

Goto(r, where) == pc' = [pc EXCEPT ![r] = where]
Hold(r, t) == token' = [token EXCEPT ![r] = t]

Issue(consumed) ==
    /\ issued < MaxTokens
    /\ issued' = issued + 1
    /\ accessLive' = accessLive \cup {issued + 1}
    /\ refreshLive' = (refreshLive \ consumed) \cup {issued + 1}

AccessExpires(p) ==
    /\ p \in accessLive /\ accessLive' = accessLive \ {p}
    /\ UNCHANGED <<issued, refreshLive, storage, user, requests, endings>>

--------------------------------------------------------------------------------
(* A call and its 401.                                                         *)

(* onRequest puts the stored access token into the header.                     *)
Send(r) ==
    /\ pc[r] = "idle" /\ session = "in"
    /\ Goto(r, "sent") /\ Hold(r, access)
    /\ UNCHANGED <<server, storage, user, unsaved, endings>>

(* get_current_user: anything but a 401 is none of the interceptor's business. *)
Answer(r) ==
    /\ pc[r] = "sent"
    /\ Goto(r, IF token[r] \in accessLive THEN "idle" ELSE "refused")
    /\ UNCHANGED <<server, storage, user, token, unsaved, endings>>

(* _doRefresh reads the refresh token; without one it throws.                  *)
ReadRefreshToken(r) ==
    /\ pc[r] = "refused"
    /\ Hold(r, refresh)
    /\ IF refresh = 0
       THEN Goto(r, "logout") /\ endings' = endings \cup {"no token"}
       ELSE Goto(r, "asking") /\ UNCHANGED endings
    /\ UNCHANGED <<server, storage, user, unsaved>>

--------------------------------------------------------------------------------
(* refresh_access_token: the SELECT takes no lock, and awaits separate it from *)
(* the commit that revokes the token and inserts the next one.                 *)

SelectToken(r) ==
    /\ pc[r] = "asking"
    /\ IF token[r] \in refreshLive
       THEN Goto(r, "selected") /\ UNCHANGED endings
       ELSE Goto(r, "logout") /\ endings' = endings \cup {"denied"}
    /\ UNCHANGED <<server, storage, user, token, unsaved>>

CommitRotation(r) ==
    /\ pc[r] = "selected"
    /\ Issue({token[r]})
    /\ Hold(r, issued + 1)
    /\ unsaved' = [unsaved EXCEPT ![r] = {"access", "refresh"}]
    /\ Goto(r, "granted")
    /\ UNCHANGED <<storage, user, endings>>

(* The answer does not arrive within receiveTimeout.                           *)
RefreshTimesOut(r) ==
    /\ NetworkFails
    /\ pc[r] = "asking" \/ (pc[r] = "granted" /\ unsaved[r] = {"access", "refresh"})
    /\ Goto(r, "logout") /\ endings' = endings \cup {"network"}
    /\ unsaved' = [unsaved EXCEPT ![r] = {}]
    /\ UNCHANGED <<server, storage, user, token>>

--------------------------------------------------------------------------------
(* Back in the interceptor.                                                    *)

(* Mutants of what follows: a clear that forgets the refresh token, and an     *)
(* error handler that enters itself.                                           *)
ClearAccessOnly(r) ==
    /\ pc[r] = "logout" /\ Goto(r, "invalidate")
    /\ access' = 0
    /\ UNCHANGED <<server, refresh, user, token, unsaved, endings>>

RefreshesAgain(r) ==
    /\ pc[r] = "invalidate" /\ Goto(r, "refused")
    /\ session' = IF access = 0 THEN "out" ELSE "in"
    /\ UNCHANGED <<server, storage, leaving, token, unsaved, endings>>

(* saveTokens: two parallel writes, in either order.                           *)
SaveAccess(r) ==
    /\ pc[r] = "granted" /\ "access" \in unsaved[r]
    /\ access' = token[r]
    /\ unsaved' = [unsaved EXCEPT ![r] = @ \ {"access"}]
    /\ UNCHANGED <<server, refresh, user, pc, token, endings>>

SaveRefresh(r) ==
    /\ pc[r] = "granted" /\ "refresh" \in unsaved[r]
    /\ refresh' = token[r]
    /\ unsaved' = [unsaved EXCEPT ![r] = @ \ {"refresh"}]
    /\ UNCHANGED <<server, access, user, pc, token, endings>>

(* The call is repeated with the access token that is stored by now.           *)
ReadAccessToken(r) ==
    /\ pc[r] = "granted" /\ unsaved[r] = {}
    /\ Goto(r, "retried") /\ Hold(r, access)
    /\ UNCHANGED <<server, storage, user, unsaved, endings>>

RetryAnswered(r) ==
    /\ pc[r] = "retried"
    /\ \/ token[r] \in accessLive /\ Goto(r, "idle") /\ UNCHANGED endings
       \/ /\ token[r] \notin accessLive \/ ServerFails
          /\ Goto(r, "logout") /\ endings' = endings \cup {"retry"}
    /\ UNCHANGED <<server, storage, user, token, unsaved>>

(* onLogout: the storage is cleared, then AuthNotifier is rebuilt from it.     *)
ClearStorage(r) ==
    /\ pc[r] = "logout" /\ Goto(r, "invalidate")
    /\ access' = 0 /\ refresh' = 0
    /\ UNCHANGED <<server, user, token, unsaved, endings>>

RebuildSession(r) ==
    /\ pc[r] = "invalidate" /\ Goto(r, "idle")
    /\ session' = IF access = 0 THEN "out" ELSE "in"
    /\ UNCHANGED <<server, storage, leaving, token, unsaved, endings>>

--------------------------------------------------------------------------------
(* AuthNotifier.                                                               *)

SignOutClears ==
    /\ UserSignsOut /\ session = "in" /\ ~leaving /\ leaving' = TRUE
    /\ access' = 0 /\ refresh' = 0
    /\ UNCHANGED <<server, session, requests, endings>>

SignOutEnds ==
    /\ leaving /\ leaving' = FALSE
    /\ session' = "out"
    /\ UNCHANGED <<server, storage, requests, endings>>

SignIn ==
    /\ session = "out" /\ ~leaving /\ session' = "in"
    /\ Issue({})
    /\ access' = issued + 1 /\ refresh' = issued + 1
    /\ UNCHANGED <<leaving, requests, endings>>

--------------------------------------------------------------------------------

Progress(r) ==
    \/ Answer(r) \/ ReadRefreshToken(r) \/ SelectToken(r) \/ CommitRotation(r)
    \/ RefreshTimesOut(r) \/ SaveAccess(r) \/ SaveRefresh(r) \/ ReadAccessToken(r)
    \/ RetryAnswered(r) \/ ClearStorage(r) \/ RebuildSession(r)

Next ==
    \/ \E r \in Request : Send(r) \/ Progress(r)
    \/ \E p \in Pair : AccessExpires(p)
    \/ SignOutClears \/ SignOutEnds \/ SignIn

(* A call in flight is answered or times out, and an async method goes on.     *)
Spec == Init /\ [][Next]_vars /\ \A r \in Request : WF_vars(Progress(r))

--------------------------------------------------------------------------------

States == {"idle", "sent", "refused", "asking", "selected", "granted", "retried",
           "logout", "invalidate"}

(* Type invariant.  A request has writes outstanding only while it waits for   *)
(* them: saveTokens returns when both are done.                                *)
TypeOK ==
    /\ issued \in Pair
    /\ accessLive \subseteq 1 .. issued /\ refreshLive \subseteq 1 .. issued
    /\ access \in 0 .. MaxTokens /\ refresh \in 0 .. MaxTokens
    /\ session \in {"in", "out"} /\ leaving \in BOOLEAN
    /\ pc \in [Request -> States] /\ token \in [Request -> 0 .. MaxTokens]
    /\ unsaved \in [Request -> SUBSET {"access", "refresh"}]
    /\ \A r \in Request : unsaved[r] # {} => pc[r] = "granted"
    /\ endings \subseteq {"no token", "denied", "network", "retry"}

(* The app is never left with a refresh token the server has revoked: if the   *)
(* stored one is consumed, the request that consumed it still has its          *)
(* successor in hand or is about to clear the storage.  Holds under parallel   *)
(* rotations, late saves and lost answers.                                     *)
StoredTokenIsUsable ==
    refresh \notin {0} \cup refreshLive =>
        \E r \in Request : \/ pc[r] = "granted" /\ "refresh" \in unsaved[r]
                           \/ pc[r] = "logout"

(* Every call comes to an end: it is answered, or the session is rebuilt.      *)
CallsEnd == \A r \in Request : pc[r] # "idle" ~> (pc[r] = "idle" \/ issued = MaxTokens)

(* "On 401 the AuthInterceptor transparently refreshes the token and retries": *)
(* no refresh is denied while the user's session is valid on both sides.       *)
RefreshIsTransparent == "denied" \notin endings
================================================================================
