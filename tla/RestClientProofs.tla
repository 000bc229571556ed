------------------------- MODULE RestClientProofs ------------------------------
(* Proofs about the app's REST client: the rotation of its tokens, for any     *)
(* number of parallel calls and pairs, and the replay of its outbox, for any   *)
(* number of rows, overlapping activations and timeouts.                       *)
EXTENDS SessionRefresh, OutboxSync, TLAPS

(* A refresh token granted to r that the storage has not yet received.         *)
InHand(r) == pc[r] = "granted" /\ "refresh" \in unsaved[r]

(* Nobody holds a pair that has not been issued.                               *)
Issued ==
    /\ access <= issued /\ refresh <= issued
    /\ \A r \in Request : token[r] <= issued

(* A refresh token in hand is live, and nobody else can present it: it is      *)
(* neither stored nor held by another request.                                 *)
Exclusive ==
    \A r \in Request : InHand(r) =>
        /\ token[r] \in refreshLive
        /\ token[r] # refresh
        /\ \A s \in Request \ {r} :
             pc[s] \in {"asking", "selected"} \/ InHand(s) => token[s] # token[r]

IInv == TypeOK /\ Issued /\ Exclusive /\ StoredTokenIsUsable

--------------------------------------------------------------------------------
(* Types.                                                                      *)

LEMMA Numbers ==
    /\ 1 \in Pair /\ 0 \in 0 .. MaxTokens /\ 1 \in 0 .. MaxTokens
    /\ \A p \in Pair : p \in Nat /\ p \in 0 .. MaxTokens /\ 0 <= p
  BY SessionAssumption DEF Pair

(* A new pair has the next number, and no earlier one is forgotten but the     *)
(* consumed.                                                                   *)
LEMMA NewPair ==
    ASSUME TypeOK, NEW consumed, Issue(consumed)
    PROVE  /\ issued' = issued + 1 /\ issued' \in Pair /\ issued' \in 0 .. MaxTokens
           /\ accessLive' \subseteq 1 .. issued' /\ refreshLive' \subseteq 1 .. issued'
           /\ \A t \in 0 .. MaxTokens : t <= issued => t <= issued' /\ t # issued'
           /\ issued' <= issued'
  <1>1. issued \in Nat /\ MaxTokens \in Nat /\ 1 <= issued /\ issued < MaxTokens
    <2>1. issued \in 1 .. MaxTokens /\ issued < MaxTokens
      BY DEF TypeOK, Issue, Pair
    <2> QED
      BY <2>1, SessionAssumption
  <1>2. issued' = issued + 1
    BY DEF Issue
  <1>3. issued' \in Pair /\ issued' \in 0 .. MaxTokens
    BY <1>1, <1>2 DEF Pair
  <1>4. \A t \in 1 .. issued : t \in 1 .. issued'
    BY <1>1, <1>2
  <1>5. issued + 1 \in 1 .. issued'
    BY <1>1, <1>2
  <1>6. accessLive' \subseteq 1 .. issued' /\ refreshLive' \subseteq 1 .. issued'
    BY <1>4, <1>5 DEF TypeOK, Issue
  <1>7. /\ \A t \in 0 .. MaxTokens : t <= issued => t <= issued' /\ t # issued'
        /\ issued' <= issued'
    BY <1>1, <1>2
  <1> QED
    BY <1>2, <1>3, <1>6, <1>7

(* A missing key is no live token.                                             *)
LEMMA NoPairIsZero == TypeOK => 0 \notin refreshLive
  <1>1. 0 \notin 1 .. issued
    OBVIOUS
  <1> QED
    BY <1>1 DEF TypeOK

LEMMA InitType == Init => TypeOK /\ Issued
  <1> SUFFICES ASSUME Init PROVE TypeOK /\ Issued
    OBVIOUS
  <1>1. {1} \subseteq 1 .. 1
    OBVIOUS
  <1>2. TypeOK
    BY <1>1, Numbers DEF Init, TypeOK, States
  <1>3. Issued
    BY DEF Init, Issued
  <1> QED
    BY <1>2, <1>3

(* A request's own steps.                                                      *)
LEMMA RequestType ==
    ASSUME TypeOK, Issued, NEW r \in Request, Send(r) \/ Progress(r)
    PROVE  TypeOK' /\ Issued'
  <1> USE Numbers
      DEF TypeOK, Issued, States, server, storage, user, requests, Goto, Hold
  <1>1. CASE Send(r)
    BY <1>1 DEF Send
  <1>2. CASE Answer(r)
    BY <1>2 DEF Answer
  <1>3. CASE ReadRefreshToken(r)
    BY <1>3 DEF ReadRefreshToken
  <1>4. CASE SelectToken(r)
    BY <1>4 DEF SelectToken
  <1>5. CASE CommitRotation(r)
    <2>1. Issue({token[r]})
      BY <1>5 DEF CommitRotation
    <2>2. /\ access' = access /\ refresh' = refresh
          /\ token' = [token EXCEPT ![r] = issued']
      BY <1>5, <2>1, NewPair DEF CommitRotation
    <2>3. Issued'
      <3>1. /\ access \in 0 .. MaxTokens /\ refresh \in 0 .. MaxTokens
            /\ token \in [Request -> 0 .. MaxTokens]
        BY DEF TypeOK
      <3> HIDE DEF TypeOK
      <3> QED
        BY <2>1, <2>2, <3>1, NewPair DEF Issued
    <2>4. TypeOK'
      BY <1>5, <2>1, <2>2, NewPair DEF CommitRotation
    <2> QED
      BY <2>3, <2>4
  <1>6. CASE RefreshTimesOut(r)
    BY <1>6 DEF RefreshTimesOut
  <1>7. CASE SaveAccess(r)
    BY <1>7 DEF SaveAccess
  <1>8. CASE SaveRefresh(r)
    BY <1>8 DEF SaveRefresh
  <1>9. CASE ReadAccessToken(r)
    BY <1>9 DEF ReadAccessToken
  <1>10. CASE RetryAnswered(r)
    BY <1>10 DEF RetryAnswered
  <1>11. CASE ClearStorage(r)
    BY <1>11 DEF ClearStorage
  <1>12. CASE RebuildSession(r)
    BY <1>12 DEF RebuildSession
  <1> QED
    BY <1>1, <1>2, <1>3, <1>4, <1>5, <1>6, <1>7, <1>8, <1>9, <1>10, <1>11, <1>12 DEF Progress

(* The user's steps and time.                                                  *)
LEMMA UserType ==
    ASSUME TypeOK, Issued,
           (\E p \in Pair : AccessExpires(p)) \/ SignOutClears \/ SignOutEnds \/ SignIn
    PROVE  TypeOK' /\ Issued'
  <1> USE Numbers
      DEF TypeOK, Issued, States, server, storage, user, requests
  <1>1. CASE \E p \in Pair : AccessExpires(p)
    BY <1>1 DEF AccessExpires
  <1>2. CASE SignOutClears
    BY <1>2 DEF SignOutClears
  <1>3. CASE SignOutEnds
    BY <1>3 DEF SignOutEnds
  <1>4. CASE SignIn
    <2>1. Issue({})
      BY <1>4 DEF SignIn
    <2>2. access' = issued' /\ refresh' = issued' /\ token' = token
      BY <1>4, <2>1, NewPair DEF SignIn
    <2>3. Issued'
      <3>1. /\ access \in 0 .. MaxTokens /\ refresh \in 0 .. MaxTokens
            /\ token \in [Request -> 0 .. MaxTokens]
        BY DEF TypeOK
      <3> HIDE DEF TypeOK
      <3> QED
        BY <2>1, <2>2, <3>1, NewPair DEF Issued
    <2>4. TypeOK'
      BY <1>4, <2>1, <2>2, NewPair DEF SignIn
    <2> QED
      BY <2>3, <2>4
  <1> QED
    BY <1>1, <1>2, <1>3, <1>4

--------------------------------------------------------------------------------
(* What is in hand stays exclusive.                                            *)

(* A step of r that grants it nothing and asks with the stored token or with   *)
(* the one it already holds.                                                   *)
LEMMA RequestExclusive ==
    ASSUME TypeOK, Issued, Exclusive, NEW r \in Request, Send(r) \/ Progress(r)
    PROVE  Exclusive'
  <1> USE DEF TypeOK, Exclusive, InHand, server, storage, user, requests, Goto, Hold
  <1>1. CASE Send(r)
    BY <1>1 DEF Send
  <1>2. CASE Answer(r)
    BY <1>2 DEF Answer
  <1>3. CASE ReadRefreshToken(r)
    BY <1>3 DEF ReadRefreshToken
  <1>4. CASE SelectToken(r)
    BY <1>4 DEF SelectToken
  <1>5. CASE CommitRotation(r)
    <2>1. Issue({token[r]}) /\ issued' = issued + 1
      BY <1>5 DEF CommitRotation, Issue
    <2>2. \A t \in 0 .. MaxTokens : t <= issued => t # issued'
      BY <2>1, NewPair
    <2>3. /\ refresh' = refresh /\ refresh # issued'
          /\ \A s \in Request : token[s] # issued'
      BY <1>5, <2>2 DEF CommitRotation, Issued
    <2>4. /\ refreshLive' = (refreshLive \ {token[r]}) \cup {issued'}
          /\ token' = [token EXCEPT ![r] = issued']
          /\ pc[r] = "selected" /\ pc' = [pc EXCEPT ![r] = "granted"]
          /\ unsaved' = [unsaved EXCEPT ![r] = {"access", "refresh"}]
      BY <1>5, <2>1 DEF CommitRotation, Issue
    <2>5. /\ token'[r] = issued' /\ pc'[r] = "granted"
          /\ \A s \in Request \ {r} :
                 token'[s] = token[s] /\ pc'[s] = pc[s] /\ unsaved'[s] = unsaved[s]
      BY <2>4 DEF TypeOK
    <2>6. \A s \in Request \ {r} : InHand(s) =>
              /\ token[s] \in refreshLive /\ token[s] # refresh /\ token[s] # token[r]
              /\ \A q \in Request \ {s} :
                     pc[q] \in {"asking", "selected"} \/ InHand(q) => token[q] # token[s]
      BY <2>4 DEF Exclusive
    <2> HIDE DEF TypeOK, Exclusive
    <2>7. ASSUME NEW s \in Request, InHand(s)'
          PROVE  /\ token'[s] \in refreshLive' /\ token'[s] # refresh'
                 /\ \A q \in Request \ {s} :
                        pc'[q] \in {"asking", "selected"} \/ InHand(q)' => token'[q] # token'[s]
      <3>1. CASE s = r
        BY <2>3, <2>4, <2>5, <3>1
      <3>2. CASE s # r
        <4>1. InHand(s)
          BY <2>5, <2>7, <3>2
        <4>2. token'[s] \in refreshLive' /\ token'[s] # refresh'
          BY <2>3, <2>4, <2>5, <2>6, <3>2, <4>1
        <4>3. ASSUME NEW q \in Request \ {s}, pc'[q] \in {"asking", "selected"} \/ InHand(q)'
              PROVE  token'[q] # token'[s]
          <5>1. CASE q = r
            BY <2>3, <2>5, <3>2, <5>1
          <5>2. CASE q # r
            BY <2>5, <2>6, <3>2, <4>1, <4>3, <5>2
          <5> QED
            BY <5>1, <5>2
        <4> QED
          BY <4>2, <4>3
      <3> QED
        BY <3>1, <3>2
    <2> QED
      BY <2>7 DEF Exclusive
  <1>6. CASE RefreshTimesOut(r)
    BY <1>6 DEF RefreshTimesOut
  <1>7. CASE SaveAccess(r)
    BY <1>7 DEF SaveAccess
  <1>8. CASE SaveRefresh(r)
    BY <1>8 DEF SaveRefresh
  <1>9. CASE ReadAccessToken(r)
    BY <1>9 DEF ReadAccessToken
  <1>10. CASE RetryAnswered(r)
    BY <1>10 DEF RetryAnswered
  <1>11. CASE ClearStorage(r)
    BY <1>11, NoPairIsZero DEF ClearStorage
  <1>12. CASE RebuildSession(r)
    BY <1>12 DEF RebuildSession
  <1> QED
    BY <1>1, <1>2, <1>3, <1>4, <1>5, <1>6, <1>7, <1>8, <1>9, <1>10, <1>11, <1>12 DEF Progress

(* Signing out empties the storage and signing in fills it with a new pair.    *)
LEMMA UserExclusive ==
    ASSUME TypeOK, Issued, Exclusive,
           (\E p \in Pair : AccessExpires(p)) \/ SignOutClears \/ SignOutEnds \/ SignIn
    PROVE  Exclusive'
  <1> USE DEF TypeOK, Exclusive, InHand, server, storage, user, requests
  <1>1. CASE \E p \in Pair : AccessExpires(p)
    BY <1>1 DEF AccessExpires
  <1>2. CASE SignOutClears
    BY <1>2, NoPairIsZero DEF SignOutClears
  <1>3. CASE SignOutEnds
    BY <1>3 DEF SignOutEnds
  <1>4. CASE SignIn
    <2>1. Issue({}) /\ refresh' = issued + 1 /\ issued' = issued + 1
      BY <1>4 DEF SignIn, Issue
    <2>2. \A s \in Request : token[s] # issued'
      BY <2>1, NewPair DEF Issued
    <2> QED
      BY <1>4, <2>1, <2>2 DEF SignIn, Issue
  <1> QED
    BY <1>1, <1>2, <1>3, <1>4

--------------------------------------------------------------------------------
(* The stored token.                                                           *)

LEMMA RequestKeepsUsable ==
    ASSUME TypeOK, Exclusive, StoredTokenIsUsable, NEW r \in Request,
           Send(r) \/ Progress(r)
    PROVE  StoredTokenIsUsable'
  <1> USE DEF TypeOK, StoredTokenIsUsable, server, storage, user, requests, Goto, Hold
  <1>1. CASE Send(r)
    BY <1>1 DEF Send
  <1>2. CASE Answer(r)
    BY <1>2 DEF Answer
  <1>3. CASE ReadRefreshToken(r)
    BY <1>3 DEF ReadRefreshToken
  <1>4. CASE SelectToken(r)
    BY <1>4 DEF SelectToken
  (* r has consumed a token, the stored one perhaps, and holds its successor.  *)
  <1>5. CASE CommitRotation(r)
    BY <1>5 DEF CommitRotation
  <1>6. CASE RefreshTimesOut(r)
    BY <1>6 DEF RefreshTimesOut
  <1>7. CASE SaveAccess(r)
    BY <1>7 DEF SaveAccess
  <1>8. CASE SaveRefresh(r)
    BY <1>8 DEF SaveRefresh, Exclusive, InHand
  <1>9. CASE ReadAccessToken(r)
    BY <1>9 DEF ReadAccessToken
  <1>10. CASE RetryAnswered(r)
    BY <1>10 DEF RetryAnswered
  <1>11. CASE ClearStorage(r)
    BY <1>11 DEF ClearStorage
  <1>12. CASE RebuildSession(r)
    BY <1>12 DEF RebuildSession
  <1> QED
    BY <1>1, <1>2, <1>3, <1>4, <1>5, <1>6, <1>7, <1>8, <1>9, <1>10, <1>11, <1>12 DEF Progress

LEMMA UserKeepsUsable ==
    ASSUME TypeOK, StoredTokenIsUsable,
           (\E p \in Pair : AccessExpires(p)) \/ SignOutClears \/ SignOutEnds \/ SignIn
    PROVE  StoredTokenIsUsable'
  <1> USE DEF TypeOK, StoredTokenIsUsable, server, storage, user, requests
  <1>1. CASE \E p \in Pair : AccessExpires(p)
    BY <1>1 DEF AccessExpires
  <1>2. CASE SignOutClears
    BY <1>2 DEF SignOutClears
  <1>3. CASE SignOutEnds
    BY <1>3 DEF SignOutEnds
  <1>4. CASE SignIn
    BY <1>4 DEF SignIn, Issue
  <1> QED
    BY <1>1, <1>2, <1>3, <1>4

--------------------------------------------------------------------------------
(* The invariant.                                                              *)

LEMMA InitInv == Init => IInv
  <1> SUFFICES ASSUME Init PROVE IInv
    OBVIOUS
  <1>1. Exclusive
    BY DEF Init, Exclusive, InHand
  <1>2. StoredTokenIsUsable
    BY DEF Init, StoredTokenIsUsable
  <1> QED
    BY <1>1, <1>2, InitType DEF IInv

LEMMA NextInv == IInv /\ [Next]_vars => IInv'
  <1> SUFFICES ASSUME IInv, [Next]_vars PROVE IInv'
    OBVIOUS
  <1> USE DEF IInv
  <1>1. CASE \E r \in Request : Send(r) \/ Progress(r)
    BY <1>1, RequestType, RequestExclusive, RequestKeepsUsable
  <1>2. CASE (\E p \in Pair : AccessExpires(p)) \/ SignOutClears \/ SignOutEnds \/ SignIn
    BY <1>2, UserType, UserExclusive, UserKeepsUsable
  <1>3. CASE UNCHANGED vars
    BY <1>3
    DEF vars, server, storage, user, requests, TypeOK, Issued, Exclusive, InHand,
        StoredTokenIsUsable
  <1> QED
    BY <1>1, <1>2, <1>3 DEF Next

LEMMA Invariant == Spec => []IInv
  BY InitInv, NextInv, PTL DEF Spec

(* Every variable keeps its type, and a request has writes to the storage      *)
(* outstanding only while it waits for them (saveTokens, secure_token_storage).*)
THEOREM TypesHold == Spec => []TypeOK
  <1>1. IInv => TypeOK
    BY DEF IInv
  <1> QED
    BY Invariant, <1>1, PTL

(* For any number of parallel calls the app is never left with a refresh token *)
(* that refresh_access_token has revoked: the request that consumed it holds   *)
(* the successor or is about to clear the storage.                             *)
THEOREM StoredTokensUsable == Spec => []StoredTokenIsUsable
  <1>1. IInv => StoredTokenIsUsable
    BY DEF IInv
  <1> QED
    BY Invariant, <1>1, PTL

--------------------------------------------------------------------------------
(* The outbox.                                                                 *)

(* Types of what the worker's safety rests on.                                 *)
OutboxTypes ==
    /\ outbox \in Seq(Row)
    /\ applied \subseteq Rows
    /\ processing \in BOOLEAN
    /\ todo \in [Slots -> SUBSET Rows]
    /\ call \in [Slots -> {NoCall, "sent", "ok", "error"}]
    /\ flying \subseteq [slot : Slots \cup {0}, row : Rows, raced : BOOLEAN]

(* A row that lies before one an activation still has to do is in its list     *)
(* too, or the server has executed it.                                         *)
ListsLeaveNoGap ==
    \A b \in Slots : \A j \in todo[b], i \in Rows :
        i < j => i \in applied \/ i \in todo[b]

(* What is on its way to the server comes after executed rows only.            *)
RequestsLeaveNoGap ==
    \A m \in flying, i \in Rows : i < m.row => i \in applied

(* A request somebody waits for is about the row its activation is at, and     *)
(* nobody waits for two.                                                       *)
WaitingForOldest ==
    /\ \A m \in flying : m.slot # 0 =>
           call[m.slot] = "sent" /\ m.row \in Oldest(todo[m.slot])
    /\ \A m, n \in flying : m.slot = n.slot /\ m.slot # 0 => m = n

(* A call that returned without an error executed its row.                     *)
OkWasApplied ==
    \A b \in Slots : call[b] = "ok" => \A i \in Oldest(todo[b]) : i \in applied

(* _processing is set only while an activation runs.                           *)
BusyIsRunning == processing => Running # {}

OutboxInv ==
    /\ OutboxTypes
    /\ SyncedWasApplied /\ FirstExecutionsInOrder
    /\ ListsLeaveNoGap /\ RequestsLeaveNoGap
    /\ WaitingForOldest /\ OkWasApplied
    /\ BusyIsRunning /\ PendingIsWatched

--------------------------------------------------------------------------------

(* Rows are counted, and what is to be done or on its way is one of them.      *)
LEMMA RowsAreNumbers ==
    ASSUME OutboxTypes
    PROVE  /\ Rows \subseteq Nat /\ applied \subseteq Rows
           /\ \A b \in Slots : todo[b] \subseteq Rows
           /\ \A m \in flying : m.row \in Rows /\ m.slot \in Slots \cup {0}
           /\ \A i \in Rows : outbox[i] \in Row
  <1>1. Len(outbox) \in Nat /\ \A i \in 1 .. Len(outbox) : outbox[i] \in Row
    BY DEF OutboxTypes
  <1>2. Rows \subseteq Nat
    BY <1>1 DEF Rows
  <1> QED
    BY <1>1, <1>2 DEF OutboxTypes, Rows

(* At first there is no row.                                                   *)
LEMMA OutboxStarts == OutboxInit => OutboxInv
  <1> SUFFICES ASSUME OutboxInit PROVE OutboxInv
    OBVIOUS
  <1>1. outbox = << >> /\ Rows = {} /\ applied = {} /\ flying = {} /\ Pending = {}
    BY DEF OutboxInit, Rows, Pending
  <1>2. OutboxTypes
    <2>1. << >> \in Seq(Row)
      OBVIOUS
    <2>2. todo \in [Slots -> SUBSET Rows] /\ processing \in BOOLEAN
          /\ call \in [Slots -> {NoCall, "sent", "ok", "error"}]
      BY DEF OutboxInit
    <2> QED
      BY <1>1, <2>1, <2>2 DEF OutboxTypes
  <1>3. SyncedWasApplied /\ FirstExecutionsInOrder /\ ListsLeaveNoGap /\ RequestsLeaveNoGap
    BY <1>1 DEF SyncedWasApplied, FirstExecutionsInOrder, ListsLeaveNoGap, RequestsLeaveNoGap
  <1>4. WaitingForOldest /\ OkWasApplied
    BY <1>1 DEF OutboxInit, WaitingForOldest, OkWasApplied, NoCall
  <1>5. BusyIsRunning /\ PendingIsWatched
    BY <1>1 DEF OutboxInit, BusyIsRunning, PendingIsWatched
  <1> QED
    BY <1>2, <1>3, <1>4, <1>5 DEF OutboxInv

(* A new row comes last and is pending.                                        *)
LEMMA Queued ==
    ASSUME OutboxInv, NEW row \in Row, ~row.synced, InsertAction(row),
           UNCHANGED <<applied, flying>>
    PROVE  OutboxInv'
  <1> DEFINE n == Len(outbox)
  <1>1. OutboxTypes /\ outbox \in Seq(Row) /\ n \in Nat
    BY DEF OutboxInv, OutboxTypes
  <1>2. /\ outbox' \in Seq(Row) /\ Len(outbox') = n + 1
        /\ \A i \in 1 .. n : outbox'[i] = outbox[i]
        /\ outbox'[n + 1] = row
    BY <1>1 DEF InsertAction
  <1>3. Rows' = Rows \cup {n + 1} /\ (\A i \in Rows : i < n + 1 /\ ~(n + 1 < i))
        /\ Rows \subseteq Nat
    BY <1>1, <1>2 DEF Rows
  <1>4. /\ \A i \in Rows : outbox'[i] = outbox[i]
        /\ ~outbox'[n + 1].synced
    BY <1>2 DEF Rows
  <1>5. UNCHANGED <<applied, flying, processing, todo, call, timer>> /\ emission'
    BY DEF InsertAction
  <1> HIDE DEF n
  <1>6. applied \subseteq Rows /\ (\A b \in Slots : todo[b] \subseteq Rows)
        /\ \A m \in flying : m.row \in Rows
    BY <1>1, RowsAreNumbers
  <1>7. OutboxTypes'
    BY <1>1, <1>2, <1>3, <1>5 DEF OutboxTypes
  <1>8. SyncedWasApplied'
    BY <1>3, <1>4, <1>5 DEF OutboxInv, SyncedWasApplied
  <1>9. FirstExecutionsInOrder'
    BY <1>3, <1>5, <1>6 DEF OutboxInv, FirstExecutionsInOrder
  <1>10. ListsLeaveNoGap'
    BY <1>3, <1>5, <1>6 DEF OutboxInv, ListsLeaveNoGap
  <1>11. RequestsLeaveNoGap'
    BY <1>3, <1>5, <1>6 DEF OutboxInv, RequestsLeaveNoGap
  <1>12. WaitingForOldest' /\ OkWasApplied'
    BY <1>5 DEF OutboxInv, WaitingForOldest, OkWasApplied, Oldest
  <1>13. BusyIsRunning' /\ PendingIsWatched'
    BY <1>5 DEF OutboxInv, BusyIsRunning, PendingIsWatched, Running, Idle
  <1> QED
    BY <1>7, <1>8, <1>9, <1>10, <1>11, <1>12, <1>13 DEF OutboxInv

(* An activation starts with every pending row: what it lacks was executed.    *)
LEMMA Begun ==
    ASSUME OutboxInv, NEW b \in Slots, Begin(b), Pending # {},
           UNCHANGED <<outbox, applied, call, flying>>
    PROVE  OutboxInv'
  <1>1. OutboxTypes /\ todo \in [Slots -> SUBSET Rows]
    BY DEF OutboxInv, OutboxTypes
  <1>2. /\ todo' = [todo EXCEPT ![b] = Pending] /\ processing'
        /\ todo[b] = {} /\ call[b] = NoCall
    BY DEF Begin, Idle
  <1>3. /\ todo' \in [Slots -> SUBSET Rows] /\ todo'[b] = Pending
        /\ \A c \in Slots \ {b} : todo'[c] = todo[c]
    BY <1>1, <1>2 DEF Pending
  <1>4. Rows' = Rows /\ Pending' = Pending
    BY DEF Rows, Pending
  <1>5. OutboxTypes'
    BY <1>1, <1>2, <1>3, <1>4 DEF OutboxTypes
  <1>6. SyncedWasApplied' /\ FirstExecutionsInOrder' /\ RequestsLeaveNoGap'
    BY <1>4 DEF OutboxInv, SyncedWasApplied, FirstExecutionsInOrder, RequestsLeaveNoGap
  <1>7. ListsLeaveNoGap'
    <2>1. \A i \in Rows : i \in applied \/ i \in Pending
      BY DEF OutboxInv, SyncedWasApplied, Pending
    <2> QED
      BY <1>3, <1>4, <2>1 DEF OutboxInv, ListsLeaveNoGap
  <1>8. WaitingForOldest'
    <2>1. \A m \in flying : m.slot # 0 => m.slot \in Slots /\ m.slot # b
      BY <1>1, <1>2, RowsAreNumbers DEF OutboxInv, WaitingForOldest, NoCall
    <2> QED
      BY <1>3, <2>1 DEF OutboxInv, WaitingForOldest
  <1>9. OkWasApplied'
    BY <1>2, <1>3 DEF OutboxInv, OkWasApplied, NoCall
  <1>10. b \in Running'
    BY <1>3 DEF Running, Idle
  <1> QED
    BY <1>5, <1>6, <1>7, <1>8, <1>9, <1>10 DEF OutboxInv, BusyIsRunning, PendingIsWatched

(* A request is about a row that only executed ones precede.                   *)
LEMMA Executed ==
    ASSUME OutboxInv, NEW b \in Slots, Execute(b)
    PROVE  OutboxInv'
  <1>1. OutboxTypes /\ todo \in [Slots -> SUBSET Rows]
        /\ call \in [Slots -> {NoCall, "sent", "ok", "error"}]
    BY DEF OutboxInv, OutboxTypes
  <1>2. PICK i \in Oldest(todo[b]) :
            flying' = flying \cup {[slot |-> b, row |-> i, raced |-> FALSE]}
    BY DEF Execute
  <1>3. i \in Rows /\ i \in todo[b] /\ b # 0
    BY <1>1, <1>2, OutboxAssumption DEF Oldest
  <1>4. /\ call' = [call EXCEPT ![b] = "sent"] /\ call[b] = NoCall
        /\ UNCHANGED <<outbox, applied, emission, processing, todo, timer>>
    BY DEF Execute, db, serverVars
  <1>5. /\ call' \in [Slots -> {NoCall, "sent", "ok", "error"}] /\ call'[b] = "sent"
        /\ \A c \in Slots \ {b} : call'[c] = call[c]
    BY <1>1, <1>4
  <1>6. Rows' = Rows /\ Pending' = Pending
    BY <1>4 DEF Rows, Pending
  <1>7. OutboxTypes'
    <2>1. flying \subseteq [slot : Slots \cup {0}, row : Rows, raced : BOOLEAN]
      BY <1>1 DEF OutboxTypes
    <2>2. [slot |-> b, row |-> i, raced |-> FALSE]
              \in [slot : Slots \cup {0}, row : Rows, raced : BOOLEAN]
      BY <1>3
    <2>3. flying' \subseteq [slot : Slots \cup {0}, row : Rows', raced : BOOLEAN]
      BY <1>2, <1>6, <2>1, <2>2
    <2> QED
      BY <1>1, <1>4, <1>5, <1>6, <2>3 DEF OutboxTypes
  <1>8. SyncedWasApplied' /\ FirstExecutionsInOrder' /\ ListsLeaveNoGap'
    BY <1>4, <1>6 DEF OutboxInv, SyncedWasApplied, FirstExecutionsInOrder, ListsLeaveNoGap
  <1>9. RequestsLeaveNoGap'
    <2>1. \A j \in Rows : j < i => j \in applied
      <3> SUFFICES ASSUME NEW j \in Rows, j < i PROVE j \in applied
        OBVIOUS
      <3>1. i \in Nat /\ j \in Nat
        BY <1>1, <1>3, RowsAreNumbers
      <3>2. j \notin todo[b]
        BY <1>2, <3>1 DEF Oldest
      <3> QED
        BY <1>3, <3>2 DEF OutboxInv, ListsLeaveNoGap
    <2> QED
      BY <1>2, <1>4, <1>6, <2>1 DEF OutboxInv, RequestsLeaveNoGap
  <1>10. WaitingForOldest'
    <2>1. \A m \in flying : m.slot # 0 => m.slot \in Slots /\ m.slot # b
      BY <1>1, <1>4, RowsAreNumbers DEF OutboxInv, WaitingForOldest, NoCall
    <2> DEFINE new == [slot |-> b, row |-> i, raced |-> FALSE]
    <2>2. new.slot = b /\ new.row = i /\ flying' = flying \cup {new}
      BY <1>2
    <2> HIDE DEF new
    <2>3. ASSUME NEW m \in flying', m.slot # 0
          PROVE  call'[m.slot] = "sent" /\ m.row \in Oldest(todo[m.slot])
      <3>1. CASE m = new
        BY <1>2, <1>5, <2>2, <3>1
      <3>2. CASE m \in flying
        BY <1>5, <2>1, <2>3, <3>2 DEF OutboxInv, WaitingForOldest
      <3> QED
        BY <2>2, <2>3, <3>1, <3>2
    <2>4. ASSUME NEW m \in flying', NEW n \in flying', m.slot = n.slot, m.slot # 0
          PROVE  m = n
      BY <1>3, <2>1, <2>2, <2>4 DEF OutboxInv, WaitingForOldest
    <2> QED
      BY <1>4, <2>3, <2>4 DEF WaitingForOldest, Oldest
  <1>11. OkWasApplied'
    BY <1>4, <1>5 DEF OutboxInv, OkWasApplied
  <1>12. Running \subseteq Running'
    BY <1>4, <1>5 DEF Running, Idle, NoCall
  <1> QED
    BY <1>4, <1>6, <1>7, <1>8, <1>9, <1>10, <1>11, <1>12
       DEF OutboxInv, BusyIsRunning, PendingIsWatched

(* The row that is marked and leaves the list has been executed.               *)
LEMMA Succeeded ==
    ASSUME OutboxInv, NEW b \in Slots, Succeed(b)
    PROVE  OutboxInv'
  <1>1. OutboxTypes /\ todo \in [Slots -> SUBSET Rows] /\ outbox \in Seq(Row)
        /\ call \in [Slots -> {NoCall, "sent", "ok", "error"}]
    BY DEF OutboxInv, OutboxTypes
  <1>2. PICK i \in Oldest(todo[b]) :
            /\ outbox' = [outbox EXCEPT ![i].synced = TRUE]
            /\ todo' = [todo EXCEPT ![b] = @ \ {i}]
    BY DEF Succeed
  <1>3. i \in todo[b] /\ i \in Rows /\ i \in applied
    BY <1>1, <1>2 DEF Succeed, OutboxInv, OkWasApplied, Oldest
  <1>4. /\ outbox' \in Seq(Row) /\ Len(outbox') = Len(outbox)
        /\ \A j \in Rows \ {i} : outbox'[j] = outbox[j]
    <2>1. [outbox[i] EXCEPT !.synced = TRUE] \in Row
      BY <1>1, <1>3, RowsAreNumbers DEF Row
    <2> QED
      BY <1>1, <1>2, <1>3, <2>1 DEF Rows
  <1>5. Rows' = Rows
    BY <1>4 DEF Rows
  <1>6. /\ call' = [call EXCEPT ![b] = NoCall] /\ call[b] = "ok" /\ emission'
        /\ processing' = IF todo'[b] = {} THEN FALSE ELSE processing
        /\ UNCHANGED <<applied, flying, timer>>
    BY DEF Succeed, serverVars
  <1>7. /\ call' \in [Slots -> {NoCall, "sent", "ok", "error"}] /\ call'[b] = NoCall
        /\ \A c \in Slots \ {b} : call'[c] = call[c] /\ todo'[c] = todo[c]
        /\ todo' \in [Slots -> SUBSET Rows] /\ todo'[b] = todo[b] \ {i}
    BY <1>1, <1>2, <1>6
  <1>8. OutboxTypes'
    BY <1>1, <1>4, <1>5, <1>6, <1>7 DEF OutboxTypes
  <1>9. SyncedWasApplied' /\ FirstExecutionsInOrder' /\ RequestsLeaveNoGap'
    BY <1>3, <1>4, <1>5, <1>6
       DEF OutboxInv, SyncedWasApplied, FirstExecutionsInOrder, RequestsLeaveNoGap
  <1>10. ListsLeaveNoGap'
    BY <1>3, <1>5, <1>6, <1>7 DEF OutboxInv, ListsLeaveNoGap
  <1>11. WaitingForOldest'
    <2>1. \A m \in flying : m.slot # 0 => m.slot \in Slots /\ m.slot # b
      BY <1>1, <1>6, RowsAreNumbers DEF OutboxInv, WaitingForOldest
    <2> QED
      BY <1>6, <1>7, <2>1 DEF OutboxInv, WaitingForOldest
  <1>12. OkWasApplied'
    BY <1>6, <1>7 DEF OutboxInv, OkWasApplied, NoCall
  <1>13. BusyIsRunning' /\ PendingIsWatched'
    BY <1>6 DEF BusyIsRunning, PendingIsWatched, Running, Idle
  <1> QED
    BY <1>8, <1>9, <1>10, <1>11, <1>12, <1>13 DEF OutboxInv

(* An activation that ends with an error leaves a timer behind.                *)
LEMMA GaveUp ==
    ASSUME OutboxInv, NEW b \in Slots, GiveUp(b)
    PROVE  OutboxInv'
  <1>1. OutboxTypes /\ todo \in [Slots -> SUBSET Rows]
        /\ call \in [Slots -> {NoCall, "sent", "ok", "error"}]
    BY DEF OutboxInv, OutboxTypes
  <1>2. /\ call' = [call EXCEPT ![b] = NoCall] /\ call[b] = "error"
        /\ todo' = [todo EXCEPT ![b] = {}]
        /\ processing' = FALSE /\ timer' # {}
        /\ UNCHANGED <<outbox, applied, flying>>
    BY DEF GiveUp, db, serverVars
  <1>3. /\ call' \in [Slots -> {NoCall, "sent", "ok", "error"}] /\ call'[b] = NoCall
        /\ \A c \in Slots \ {b} : call'[c] = call[c] /\ todo'[c] = todo[c]
        /\ todo' \in [Slots -> SUBSET Rows] /\ todo'[b] = {}
    BY <1>1, <1>2
  <1>4. Rows' = Rows
    BY <1>2 DEF Rows
  <1>5. OutboxTypes'
    BY <1>1, <1>2, <1>3, <1>4 DEF OutboxTypes
  <1>6. SyncedWasApplied' /\ FirstExecutionsInOrder' /\ RequestsLeaveNoGap'
    BY <1>2, <1>4
       DEF OutboxInv, SyncedWasApplied, FirstExecutionsInOrder, RequestsLeaveNoGap
  <1>7. ListsLeaveNoGap'
    BY <1>2, <1>3, <1>4 DEF OutboxInv, ListsLeaveNoGap
  <1>8. WaitingForOldest'
    <2>1. \A m \in flying : m.slot # 0 => m.slot \in Slots /\ m.slot # b
      BY <1>1, <1>2, RowsAreNumbers DEF OutboxInv, WaitingForOldest
    <2> QED
      BY <1>2, <1>3, <2>1 DEF OutboxInv, WaitingForOldest
  <1>9. OkWasApplied'
    BY <1>2, <1>3 DEF OutboxInv, OkWasApplied, NoCall
  <1>10. BusyIsRunning' /\ PendingIsWatched'
    BY <1>2 DEF BusyIsRunning, PendingIsWatched
  <1> QED
    BY <1>5, <1>6, <1>7, <1>8, <1>9, <1>10 DEF OutboxInv

(* An answer, or its absence: the request m leaves or becomes nobody's, its    *)
(* caller is told "ok" only when the row has been executed, and the requests   *)
(* that stay keep their row and their caller.                                  *)
LEMMA Settled ==
    ASSUME OutboxInv, NEW m \in flying, NEW result \in {"ok", "error"}, NEW done,
           UNCHANGED <<outbox, emission, processing, todo, timer>>,
           call' = IF m.slot = 0 THEN call ELSE [call EXCEPT ![m.slot] = result],
           applied' = applied \cup done, done \subseteq {m.row},
           result = "ok" => m.row \in applied',
           flying' \subseteq [slot : Slots \cup {0}, row : Rows, raced : BOOLEAN],
           \A n \in flying' : \E o \in flying :
               n.row = o.row /\ (n.slot # 0 => o # m /\ n.slot = o.slot),
           \A n, k \in flying' : n.slot = k.slot /\ n.slot # 0 => n = k
    PROVE  OutboxInv'
  <1>1. OutboxTypes /\ call \in [Slots -> {NoCall, "sent", "ok", "error"}]
        /\ m.row \in Rows /\ m.slot \in Slots \cup {0}
        /\ \A n \in flying : n.row \in Rows /\ n.slot \in Slots \cup {0}
    BY RowsAreNumbers DEF OutboxInv, OutboxTypes
  <1>2. /\ call' \in [Slots -> {NoCall, "sent", "ok", "error"}]
        /\ \A c \in Slots : c # m.slot => call'[c] = call[c]
        /\ m.slot # 0 => call'[m.slot] = result
    BY <1>1
  <1>3. Rows' = Rows /\ Pending' = Pending
    BY DEF Rows, Pending
  <1>4. OutboxTypes'
    BY <1>1, <1>2, <1>3 DEF OutboxTypes
  <1>5. \A i \in Rows : i < m.row => i \in applied
    BY DEF OutboxInv, RequestsLeaveNoGap
  <1>6. SyncedWasApplied'
    BY <1>3 DEF OutboxInv, SyncedWasApplied
  <1>7. FirstExecutionsInOrder'
    BY <1>3, <1>5 DEF OutboxInv, FirstExecutionsInOrder
  <1>8. ListsLeaveNoGap'
    BY <1>3 DEF OutboxInv, ListsLeaveNoGap
  <1>9. RequestsLeaveNoGap'
    BY <1>3 DEF OutboxInv, RequestsLeaveNoGap
  <1>10. WaitingForOldest'
    <2>1. ASSUME NEW n \in flying', n.slot # 0
          PROVE  call'[n.slot] = "sent" /\ n.row \in Oldest(todo[n.slot])
      <3>1. PICK o \in flying : n.row = o.row /\ o # m /\ n.slot = o.slot
        BY <2>1
      <3>2. o.slot # m.slot /\ o.slot \in Slots
        BY <1>1, <2>1, <3>1 DEF OutboxInv, WaitingForOldest
      <3>3. call[o.slot] = "sent" /\ o.row \in Oldest(todo[o.slot])
        BY <2>1, <3>1 DEF OutboxInv, WaitingForOldest
      <3> QED
        BY <1>2, <3>1, <3>2, <3>3
    <2> QED
      BY <2>1 DEF WaitingForOldest, Oldest
  <1>11. OkWasApplied'
    <2> SUFFICES ASSUME NEW c \in Slots, call'[c] = "ok", NEW i \in Oldest(todo[c])
                 PROVE  i \in applied'
      BY DEF OkWasApplied, Oldest
    <2>1. CASE c # m.slot
      BY <1>2, <2>1 DEF OutboxInv, OkWasApplied
    <2>2. CASE c = m.slot
      <3>1. c # 0 /\ result = "ok"
        BY <1>2, <2>2, OutboxAssumption
      <3>2. m.row \in Oldest(todo[c])
        BY <2>2, <3>1 DEF OutboxInv, WaitingForOldest
      <3>3. i \in Nat /\ m.row \in Nat /\ i <= m.row /\ m.row <= i
        BY <1>1, <3>2, RowsAreNumbers DEF Oldest
      <3>4. i = m.row
        BY <3>3
      <3> QED
        BY <3>1, <3>4
    <2> QED
      BY <2>1, <2>2
  <1>12. Running \subseteq Running'
    <2>1. ASSUME NEW c \in Running PROVE c \in Running'
      <3>1. c \in Slots /\ (todo[c] # {} \/ call[c] # NoCall)
        BY DEF Running, Idle
      <3>2. todo'[c] # {} \/ call'[c] # NoCall
        BY <1>1, <1>2, <3>1 DEF NoCall
      <3> QED
        BY <3>1, <3>2 DEF Running, Idle
    <2> QED
      BY <2>1
  <1>13. BusyIsRunning' /\ PendingIsWatched'
    BY <1>3, <1>12 DEF OutboxInv, BusyIsRunning, PendingIsWatched
  <1> QED
    BY <1>4, <1>6, <1>7, <1>8, <1>9, <1>10, <1>11, <1>13 DEF OutboxInv

(* A request whose caller has given up is lost or becomes nobody's.            *)
LEMMA TimedOut ==
    ASSUME OutboxInv, NEW m \in flying, CallTimesOut(m)
    PROVE  OutboxInv'
  <1>1. flying \subseteq [slot : Slots \cup {0}, row : Rows, raced : BOOLEAN]
    BY DEF OutboxInv, OutboxTypes
  <1> DEFINE given == [m EXCEPT !.slot = 0]
  <1>2. given \in [slot : Slots \cup {0}, row : Rows, raced : BOOLEAN]
        /\ given.slot = 0 /\ given.row = m.row
    BY <1>1
  <1>3. flying' = flying \ {m} \/ flying' = (flying \ {m}) \cup {given}
    BY DEF CallTimesOut
  <1> HIDE DEF given
  <1>4. flying' \subseteq [slot : Slots \cup {0}, row : Rows, raced : BOOLEAN]
    BY <1>1, <1>2, <1>3
  <1>5. \A n \in flying' : \E o \in flying :
            n.row = o.row /\ (n.slot # 0 => o # m /\ n.slot = o.slot)
    BY <1>2, <1>3
  <1>6. \A n, k \in flying' : n.slot = k.slot /\ n.slot # 0 => n = k
    BY <1>2, <1>3 DEF OutboxInv, WaitingForOldest
  <1>7. /\ UNCHANGED <<outbox, emission, processing, todo, timer, applied>>
        /\ call' = IF m.slot = 0 THEN call ELSE [call EXCEPT ![m.slot] = "error"]
    BY DEF CallTimesOut, db, serverVars
  <1>8. applied' = applied \cup {} /\ {} \subseteq {m.row}
    BY <1>7
  <1> QED
    BY <1>4, <1>5, <1>6, <1>7, <1>8, Settled

(* An answer removes the request, and turns the losers of a race into requests *)
(* with the same row and the same caller.                                      *)
LEMMA Replied ==
    ASSUME OutboxInv, NEW m \in flying, NEW result \in {"ok", "error"}, NEW done,
           NEW losers \in SUBSET (flying \ {m}),
           UNCHANGED <<outbox, emission, processing, todo, timer>>,
           Answered(m, result, losers),
           applied' = applied \cup done, done \subseteq {m.row},
           result = "ok" => m.row \in applied'
    PROVE  OutboxInv'
  <1>1. flying \subseteq [slot : Slots \cup {0}, row : Rows, raced : BOOLEAN]
    BY DEF OutboxInv, OutboxTypes
  <1>2. flying' = (flying \ ({m} \cup losers)) \cup {[n EXCEPT !.raced = TRUE] : n \in losers}
        /\ call' = IF m.slot = 0 THEN call ELSE [call EXCEPT ![m.slot] = result]
    BY DEF Answered
  <1>3. ASSUME NEW n \in flying'
        PROVE  /\ n \in [slot : Slots \cup {0}, row : Rows, raced : BOOLEAN]
               /\ \E o \in flying : /\ o # m /\ n.row = o.row /\ n.slot = o.slot
                                    /\ IF o \in losers THEN n = [o EXCEPT !.raced = TRUE]
                                                       ELSE n = o
    <2>1. CASE n \in flying \ ({m} \cup losers)
      BY <1>1, <2>1
    <2>2. CASE n \in {[o EXCEPT !.raced = TRUE] : o \in losers}
      <3>1. PICK o \in losers : n = [o EXCEPT !.raced = TRUE]
        BY <2>2
      <3>2. o \in flying /\ o # m /\ o \in [slot : Slots \cup {0}, row : Rows, raced : BOOLEAN]
        BY <1>1
      <3>3. n.row = o.row /\ n.slot = o.slot
            /\ n \in [slot : Slots \cup {0}, row : Rows, raced : BOOLEAN]
        BY <3>1, <3>2
      <3> QED
        BY <3>1, <3>2, <3>3
    <2> QED
      BY <1>2, <2>1, <2>2
  <1>4. flying' \subseteq [slot : Slots \cup {0}, row : Rows, raced : BOOLEAN]
    BY <1>3
  <1>5. \A n \in flying' : \E o \in flying :
            n.row = o.row /\ (n.slot # 0 => o # m /\ n.slot = o.slot)
    BY <1>3
  <1>6. \A n, k \in flying' : n.slot = k.slot /\ n.slot # 0 => n = k
    <2> SUFFICES ASSUME NEW n \in flying', NEW k \in flying', n.slot = k.slot, n.slot # 0
                 PROVE  n = k
      OBVIOUS
    <2>1. PICK o \in flying : /\ n.slot = o.slot
                              /\ IF o \in losers THEN n = [o EXCEPT !.raced = TRUE]
                                                 ELSE n = o
      BY <1>3
    <2>2. PICK p \in flying : /\ k.slot = p.slot
                              /\ IF p \in losers THEN k = [p EXCEPT !.raced = TRUE]
                                                 ELSE k = p
      BY <1>3
    <2>3. o = p
      BY <2>1, <2>2 DEF OutboxInv, WaitingForOldest
    <2>4. CASE o \in losers
      <3>1. n = [o EXCEPT !.raced = TRUE] /\ k = [o EXCEPT !.raced = TRUE]
        BY <2>1, <2>2, <2>3, <2>4, Zenon
      <3> QED
        BY <3>1, Zenon
    <2>5. CASE o \notin losers
      BY <2>1, <2>2, <2>3, <2>5, Zenon
    <2> QED
      BY <2>4, <2>5
  <1> QED
    BY <1>2, <1>4, <1>5, <1>6, Settled

(* Both handlers execute the row and say so, or refuse and change nothing.     *)
LEMMA Served ==
    ASSUME OutboxInv, NEW m \in flying, ServeClaim(m) \/ ServeRename(m)
    PROVE  OutboxInv'
  <1>1. UNCHANGED <<outbox, emission, processing, todo, timer>>
    BY DEF ServeClaim, ServeRename, db
  <1>2. CASE /\ applied' = applied \cup {m.row}
             /\ \E losers \in SUBSET (flying \ {m}) : Answered(m, "ok", losers)
    <2>1. PICK losers \in SUBSET (flying \ {m}) : Answered(m, "ok", losers)
      BY <1>2
    <2> QED
      BY <1>1, <1>2, <2>1, Replied
  <1>3. CASE applied' = applied /\ Answered(m, "error", {})
    <2>1. applied' = applied \cup {} /\ {} \in SUBSET (flying \ {m})
      BY <1>3
    <2> QED
      BY <1>1, <1>3, <2>1, Replied
  <1>4. CASE ServeClaim(m)
    <2>1. \A losers : losers \in SUBSET RivalsOf(m) \/ losers \in SUBSET {}
              => losers \in SUBSET (flying \ {m})
      BY DEF RivalsOf
    <2> QED
      BY <1>2, <1>3, <1>4, <2>1 DEF ServeClaim
  <1>5. CASE ServeRename(m)
    <2>1. {} \in SUBSET (flying \ {m})
      OBVIOUS
    <2> QED
      BY <1>2, <1>3, <1>5, <2>1 DEF ServeRename
  <1> QED
    BY <1>4, <1>5

(* Steps of the other parts.                                                   *)
LEMMA Aside ==
    ASSUME OutboxInv,
           UNCHANGED <<outbox, applied, processing, todo, call, flying>>,
           \/ UNCHANGED <<emission, timer>>
           \/ timer' # {}
           \/ Pending = {}
           \/ Running # {}
    PROVE  OutboxInv'
  <1>1. Rows' = Rows /\ Pending' = Pending /\ Running' = Running
    BY DEF Rows, Pending, Running, Idle
  <1>2. OutboxTypes' /\ SyncedWasApplied' /\ FirstExecutionsInOrder' /\ ListsLeaveNoGap'
    BY <1>1 DEF OutboxInv, OutboxTypes, SyncedWasApplied, FirstExecutionsInOrder,
                ListsLeaveNoGap
  <1>3. RequestsLeaveNoGap' /\ WaitingForOldest' /\ OkWasApplied'
    BY <1>1 DEF OutboxInv, RequestsLeaveNoGap, WaitingForOldest, OkWasApplied, Oldest
  <1>4. BusyIsRunning' /\ PendingIsWatched'
    BY <1>1 DEF OutboxInv, BusyIsRunning, PendingIsWatched
  <1> QED
    BY <1>2, <1>3, <1>4 DEF OutboxInv

(* What renameDevice holds between its two writes.                             *)
RenamingTypes == renaming = << >> \/ renaming \in Device \X Alias

(* It is a device and an alias, or nothing.                                    *)
LEMMA RenamingNext == RenamingTypes /\ [OutboxNext]_outboxVars => RenamingTypes'
  <1> SUFFICES ASSUME RenamingTypes, [OutboxNext]_outboxVars
               PROVE  \/ UNCHANGED renaming \/ renaming' = << >>
                      \/ \E d \in Device, a \in Alias : renaming' = <<d, a>>
    BY DEF RenamingTypes
  <1> USE DEF db, serverVars, worker
  <1>1. CASE \E d \in Device, a \in Alias : RenameLocally(d, a)
    BY <1>1 DEF RenameLocally
  <1>2. CASE QueueRename \/ Emit \/ TimerFires \/ TimerBegins \/ UpsertNext
    BY <1>2 DEF QueueRename, Emit, TimerFires, TimerBegins, UpsertNext
  <1>3. CASE \E b \in Slots : Execute(b) \/ Succeed(b) \/ GiveUp(b)
    BY <1>3 DEF Execute, Succeed, GiveUp
  <1>4. CASE \E m \in flying : ServeClaim(m) \/ ServeRename(m) \/ CallTimesOut(m)
    BY <1>4 DEF ServeClaim, ServeRename, CallTimesOut
  <1>5. CASE (\E d \in Device : DeviceSeen(d) \/ \E code \in BOOLEAN : QueueClaim(d, code))
             \/ PullList \/ UNCHANGED outboxVars
    BY <1>5 DEF DeviceSeen, QueueClaim, PullList, outboxVars
  <1> QED
    BY <1>1, <1>2, <1>3, <1>4, <1>5 DEF OutboxNext, Work

(* Every step preserves the invariant.                                         *)
LEMMA OutboxSteps == OutboxInv /\ RenamingTypes /\ [OutboxNext]_outboxVars => OutboxInv'
  <1> SUFFICES ASSUME OutboxInv, RenamingTypes, [OutboxNext]_outboxVars PROVE OutboxInv'
    OBVIOUS
  <1> USE DEF db, serverVars, worker
  <1>1. ASSUME QueueRename PROVE OutboxInv'
    <2> DEFINE row == [action |-> "rename", device |-> renaming[1], alias |-> renaming[2],
                       code |-> TRUE, synced |-> FALSE]
    <2>1. InsertAction(row) /\ UNCHANGED <<applied, flying>>
      BY <1>1 DEF QueueRename
    <2>2. row \in Row /\ ~row.synced
      BY <1>1 DEF QueueRename, RenamingTypes, Row
    <2> HIDE DEF row
    <2> QED
      BY <2>1, <2>2, Queued
  <1>2. ASSUME NEW d \in Device, NEW code \in BOOLEAN, QueueClaim(d, code) PROVE OutboxInv'
    <2> DEFINE row == [action |-> "claim", device |-> d, alias |-> NoAlias,
                       code |-> code, synced |-> FALSE]
    <2>1. InsertAction(row) /\ UNCHANGED <<applied, flying>>
      BY <1>2 DEF QueueClaim
    <2>2. row \in Row /\ ~row.synced
      BY DEF Row
    <2> HIDE DEF row
    <2> QED
      BY <2>1, <2>2, Queued
  <1>3. ASSUME Emit PROVE OutboxInv'
    <2>1. CASE Pending # {} /\ ~processing
      <3>1. PICK b \in Slots : Begin(b)
        BY <1>3, <2>1 DEF Emit
      <3>2. UNCHANGED <<outbox, applied, call, flying>>
        BY <1>3 DEF Emit
      <3> QED
        BY <2>1, <3>1, <3>2, Begun
    <2>2. CASE Pending = {} \/ processing
      <3>1. UNCHANGED <<outbox, applied, processing, todo, call, flying>>
        BY <1>3, <2>2 DEF Emit
      <3>2. Pending = {} \/ Running # {}
        BY <2>2 DEF OutboxInv, BusyIsRunning
      <3> QED
        BY <3>1, <3>2, Aside
    <2> QED
      BY <2>1, <2>2
  <1>4. ASSUME TimerBegins PROVE OutboxInv'
    <2>1. CASE Pending # {}
      <3>1. PICK b \in Slots : Begin(b)
        BY <1>4, <2>1 DEF TimerBegins
      <3>2. UNCHANGED <<outbox, applied, call, flying>>
        BY <1>4 DEF TimerBegins
      <3> QED
        BY <2>1, <3>1, <3>2, Begun
    <2>2. CASE Pending = {}
      <3>1. UNCHANGED <<outbox, applied, processing, todo, call, flying>>
        BY <1>4, <2>2 DEF TimerBegins
      <3> QED
        BY <2>2, <3>1, Aside
    <2> QED
      BY <2>1, <2>2
  <1>5. ASSUME TimerFires PROVE OutboxInv'
    <2>1. UNCHANGED <<outbox, applied, processing, todo, call, flying>> /\ timer' # {}
      BY <1>5 DEF TimerFires
    <2> QED
      BY <2>1, Aside
  <1>6. ASSUME UpsertNext \/ PullList \/ UNCHANGED outboxVars
               \/ (\E d \in Device, a \in Alias : RenameLocally(d, a))
               \/ \E d \in Device : DeviceSeen(d)
        PROVE  OutboxInv'
    <2>1. UNCHANGED <<outbox, applied, processing, todo, call, flying, emission, timer>>
      BY <1>6 DEF UpsertNext, PullList, outboxVars, RenameLocally, DeviceSeen
    <2> QED
      BY <2>1, Aside
  <1>7. ASSUME NEW b \in Slots, Execute(b) \/ Succeed(b) \/ GiveUp(b) PROVE OutboxInv'
    BY <1>7, Executed, Succeeded, GaveUp
  <1>8. ASSUME NEW m \in flying, ServeClaim(m) \/ ServeRename(m) \/ CallTimesOut(m)
        PROVE  OutboxInv'
    BY <1>8, Served, TimedOut
  <1> QED
    BY <1>1, <1>2, <1>3, <1>4, <1>5, <1>6, <1>7, <1>8 DEF OutboxNext, Work

(* The inductive invariant holds in every state.                               *)
THEOREM OutboxInvariant == OutboxSpec => []OutboxInv
  <1>1. OutboxInit => RenamingTypes
    BY DEF OutboxInit, RenamingTypes
  <1> QED
    BY <1>1, OutboxStarts, RenamingNext, OutboxSteps, PTL DEF OutboxSpec

(* A row is marked synced only after the server has executed it, for any       *)
(* number of overlapping activations, timeouts and late answers.               *)
THEOREM SyncedRowsApplied == OutboxSpec => []SyncedWasApplied
  <1>1. OutboxInv => SyncedWasApplied
    BY DEF OutboxInv
  <1> QED
    BY <1>1, OutboxInvariant, PTL

(* The server first executes the rows in their order of creation.              *)
THEOREM RowsExecuteInOrder == OutboxSpec => []FirstExecutionsInOrder
  <1>1. OutboxInv => FirstExecutionsInOrder
    BY DEF OutboxInv
  <1> QED
    BY <1>1, OutboxInvariant, PTL

(* A pending row has an emission to come, an activation or a timer.            *)
THEOREM PendingRowsWatched == OutboxSpec => []PendingIsWatched
  <1>1. OutboxInv => PendingIsWatched
    BY DEF OutboxInv
  <1> QED
    BY <1>1, OutboxInvariant, PTL
================================================================================
