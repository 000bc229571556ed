-------------------------- MODULE AppTelemetryProofs ---------------------------
(* Proofs about the app's MqttService, for any number of clients, calls and    *)
(* timers (the bound on work is not used), and about the tables its messages   *)
(* are written to, for any number of messages, failures and restarts.          *)
EXTENDS MqttAppService, TelemetryStore, FiniteSetTheorems, WellFoundedInduction, TLAPS

Shape ==
    /\ client \in [Client -> {"off", "dialing", "up", "stale"}]
    /\ current \in Client \cup {None} /\ listening \in Client \cup {None}
    /\ fetching \in Nat /\ renewing \in Nat /\ orphans \in Nat

(* A call that waits for a client is the only one to do so, and that client    *)
(* has not connected yet; it may have been disconnected.                       *)
DialsAreApart ==
    /\ \A d \in dialing : d \in Dial /\ client[d.client] \in {"dialing", "off"}
    /\ \A d, e \in dialing : d.client = e.client => d = e

(* NeverIdle, with the call of connect that counts: the one of _client.        *)
Busy ==
    ~intentional =>
        \/ Connected(current) \/ fetching > 0 \/ held \/ orphans > 0
        \/ \E d \in dialing : d.by = "connect" /\ d.client = current

IInv == Shape /\ DialsAreApart /\ Busy /\ ListenerIsLive /\ SingleConnection

LEMMA NoneIsNoClient == None \notin Client
  BY ServiceAssumption

--------------------------------------------------------------------------------
(* Calls that dial: a new client becomes _client.                              *)

(* Some of the clients have been disconnected.                                 *)
Lowered(clients) == \A x \in Client : clients[x] \in {client[x], "off"}

(* The new client is a free one, and one call waits for it.                    *)
LEMMA DialShape ==
    ASSUME Shape, DialsAreApart, NEW c \in Client, Free(c), NEW by \in {"connect", "refresh"},
           NEW clients, clients \in [Client -> {"off", "dialing", "up", "stale"}],
           Lowered(clients),
           client' = [clients EXCEPT ![c] = "dialing"], current' = c,
           dialing' = dialing \cup {[client |-> c, by |-> by]}
    PROVE  /\ client' \in [Client -> {"off", "dialing", "up", "stale"}]
           /\ current' \in Client
           /\ current' = c /\ client'[c] = "dialing"
           /\ \A x \in Client : x # c => client'[x] = clients[x]
           /\ dialing \subseteq dialing'
           /\ [client |-> c, by |-> by] \in dialing'
           /\ DialsAreApart'
  <1> USE DEF Shape
  <1>1. /\ client' \in [Client -> {"off", "dialing", "up", "stale"}]
        /\ client'[c] = "dialing"
        /\ \A x \in Client : x # c => client'[x] = clients[x]
    OBVIOUS
  <1>2. [client |-> c, by |-> by] \in Dial
    BY DEF Dial
  <1>3. \A d \in dialing : d.client # c /\ d.client \in Client
    BY DEF Free, DialsAreApart, Dial
  <1>4. DialsAreApart'
    BY <1>1, <1>2, <1>3 DEF DialsAreApart, Lowered
  <1> QED
    BY <1>1, <1>4

LEMMA CredentialsArriveStep == IInv /\ CredentialsArrive => IInv'
  <1> SUFFICES ASSUME IInv, CredentialsArrive PROVE IInv'
    OBVIOUS
  <1> USE NoneIsNoClient DEF IInv, CredentialsArrive, timers, world
  <1>1. PICK c \in Client : Free(c) /\ DialWith(c, "connect", client)
    OBVIOUS
  <1>2. /\ client' \in [Client -> {"off", "dialing", "up", "stale"}]
        /\ current' = c /\ client'[c] = "dialing"
        /\ \A x \in Client : x # c => client'[x] = client[x]
        /\ [client |-> c, by |-> "connect"] \in dialing'
        /\ DialsAreApart'
    <2>1. /\ client \in [Client -> {"off", "dialing", "up", "stale"}]
          /\ Lowered(client)
          /\ "connect" \in {"connect", "refresh"} /\ Shape /\ DialsAreApart
      BY DEF Shape, Lowered
    <2> HIDE DEF IInv, CredentialsArrive
    <2> QED
      BY <1>1, <2>1, DialShape DEF DialWith
  <1>3. Shape'
    BY <1>2 DEF Shape
  <1>4. Busy'
    BY <1>2 DEF Busy
  <1>5. ListenerIsLive'
    BY <1>1, <1>2 DEF ListenerIsLive, Connected, Free, Shape
  <1>6. SingleConnection'
    BY <1>2 DEF SingleConnection, Connected, Shape
  <1> QED
    BY <1>2, <1>3, <1>4, <1>5, <1>6

LEMMA RenewalArrivesStep == IInv /\ RenewalArrives => IInv'
  <1> SUFFICES ASSUME IInv, RenewalArrives PROVE IInv'
    OBVIOUS
  <1> USE NoneIsNoClient DEF IInv, RenewalArrives, world, observer
  (* The old client is disconnected: its callback cancels the subscription.    *)
  <1>1. CASE current # None
    <2> PICK clients : clients = [client EXCEPT ![current] = "off"]
      OBVIOUS
    <2>1. PICK c \in Client : Free(c) /\ DialWith(c, "refresh", clients)
      BY <1>1
    <2>2. /\ clients \in [Client -> {"off", "dialing", "up", "stale"}]
          /\ Lowered(clients)
          /\ clients[current] = "off"
      BY <1>1 DEF Shape, Lowered
    <2>3. /\ client' \in [Client -> {"off", "dialing", "up", "stale"}]
          /\ current' = c /\ client'[c] = "dialing"
          /\ \A x \in Client : x # c => client'[x] = clients[x]
          /\ DialsAreApart'
      <3>1. "refresh" \in {"connect", "refresh"} /\ Shape /\ DialsAreApart
        OBVIOUS
      <3> HIDE DEF IInv, RenewalArrives
      <3> QED
        BY <2>1, <2>2, <3>1, DialShape DEF DialWith
    <2>4. /\ listening' = None
          /\ IF intentional THEN held' = held /\ orphans' = orphans
             ELSE held' = TRUE /\ orphans' = IF held THEN orphans + 1 ELSE orphans
      BY <1>1 DEF OnDisconnected, ScheduleReconnect
    <2>5. Shape'
      <3>1. /\ fetching' = fetching /\ renewing' = renewing - 1 /\ renewing > 0
            /\ intentional' = intentional
        OBVIOUS
      <3>2. orphans' \in Nat
        BY <2>4 DEF Shape
      <3>3. renewing' \in Nat /\ fetching' \in Nat
        BY <3>1 DEF Shape
      <3> HIDE DEF IInv, RenewalArrives
      <3> QED
        BY <2>3, <2>4, <3>2, <3>3 DEF Shape
    <2>6. Busy'
      BY <2>4 DEF Busy
    <2>7. ListenerIsLive'
      BY <2>4 DEF ListenerIsLive
    <2>8. SingleConnection'
      BY <1>1, <2>2, <2>3 DEF SingleConnection, Connected, Shape, Lowered
    <2> QED
      BY <2>3, <2>5, <2>6, <2>7, <2>8
  <1>2. CASE current = None
    <2>1. PICK c \in Client : Free(c) /\ DialWith(c, "refresh", client)
      BY <1>2
    <2>2. /\ client' \in [Client -> {"off", "dialing", "up", "stale"}]
          /\ current' = c /\ client'[c] = "dialing"
          /\ \A x \in Client : x # c => client'[x] = client[x]
          /\ DialsAreApart'
      <3>1. /\ client \in [Client -> {"off", "dialing", "up", "stale"}]
            /\ Lowered(client)
            /\ "refresh" \in {"connect", "refresh"} /\ Shape /\ DialsAreApart
        BY DEF Shape, Lowered
      <3> HIDE DEF IInv, RenewalArrives
      <3> QED
        BY <2>1, <3>1, DialShape DEF DialWith
    <2>3. listening' = listening /\ held' = held /\ orphans' = orphans
      BY <1>2
    <2>4. Shape'
      BY <2>2, <2>3 DEF Shape
    <2>5. \A d \in dialing : d.client # current
      BY <1>2 DEF DialsAreApart, Dial
    <2>6. Busy'
      BY <1>2, <2>3, <2>5 DEF Busy, Connected
    <2>7. ListenerIsLive'
      BY <2>1, <2>2, <2>3 DEF ListenerIsLive, Connected, Free, Shape
    <2>8. SingleConnection'
      BY <1>2, <2>2 DEF SingleConnection, Connected, Shape
    <2> QED
      BY <2>2, <2>4, <2>6, <2>7, <2>8
  <1> QED
    BY <1>1, <1>2

--------------------------------------------------------------------------------
(* A dial ends.                                                                *)

LEMMA DialSucceedsStep ==
    ASSUME IInv, NEW d \in dialing, DialSucceeds(d)
    PROVE  IInv'
  <1> USE NoneIsNoClient DEF IInv, DialSucceeds, world
  <1>1. d \in Dial /\ d.client \in Client /\ d.client # None
    BY DEF DialsAreApart, Dial
  <1>2. /\ client' \in [Client -> {"off", "dialing", "up", "stale"}]
        /\ client'[d.client] = "up"
        /\ \A x \in Client : x # d.client => client'[x] = client[x]
    BY <1>1 DEF Shape
  <1>3. Shape'
    BY <1>1, <1>2 DEF Shape
  <1>4. DialsAreApart'
    BY <1>1, <1>2 DEF DialsAreApart, Dial
  <1>5. Connected(current)' \/ current # d.client
    BY <1>1, <1>2 DEF Connected
  <1>6. Connected(current) => Connected(current)'
    BY <1>1, <1>2 DEF Connected, Shape
  <1>7. Busy'
    BY <1>5, <1>6 DEF Busy
  <1>8. ListenerIsLive'
    BY <1>1, <1>2 DEF ListenerIsLive, Connected, Shape
  (* The client that dialled was off no longer: it is _client.                 *)
  <1>9. SingleConnection'
    BY <1>1, <1>2 DEF SingleConnection, Connected, Shape
  <1> QED
    BY <1>3, <1>4, <1>7, <1>8, <1>9

LEMMA DialFailsStep ==
    ASSUME IInv, NEW d \in dialing, DialFails(d)
    PROVE  IInv'
  <1> USE NoneIsNoClient DEF IInv, DialFails, world
  <1>1. d \in Dial /\ d.client \in Client /\ client[d.client] \in {"dialing", "off"}
    BY DEF DialsAreApart, Dial
  <1>2. /\ client' \in [Client -> {"off", "dialing", "up", "stale"}]
        /\ client'[d.client] = "off"
        /\ \A x \in Client : x # d.client => client'[x] = client[x]
    BY <1>1 DEF Shape
  <1>3. \A x \in Client \cup {None} : Connected(x) <=> Connected(x)'
    BY <1>1, <1>2 DEF Connected
  <1>4. Shape'
    BY <1>2 DEF Shape, ScheduleReconnect
  <1>5. DialsAreApart'
    BY <1>1, <1>2 DEF DialsAreApart, Dial
  <1>6. Busy'
    BY <1>3 DEF Busy, ScheduleReconnect, Shape
  <1>7. ListenerIsLive'
    BY <1>3 DEF ListenerIsLive, Shape
  <1>8. SingleConnection'
    BY <1>2, <1>3 DEF SingleConnection, Shape
  <1> QED
    BY <1>4, <1>5, <1>6, <1>7, <1>8

--------------------------------------------------------------------------------
(* Connections and the network.                                                *)

LEMMA DropStep ==
    ASSUME IInv, NEW c \in Client, Drop(c)
    PROVE  IInv'
  <1> USE NoneIsNoClient DEF IInv, Drop, Ends, world, calls
  <1>1. /\ client' \in [Client -> {"off", "dialing", "up", "stale"}]
        /\ client'[c] = "off"
        /\ \A x \in Client : x # c => client'[x] = client[x]
    BY DEF Shape
  <1>2. Shape'
    BY <1>1 DEF Shape, OnDisconnected, ScheduleReconnect
  <1>3. DialsAreApart'
    BY <1>1 DEF DialsAreApart, Dial
  <1>4. Busy'
    BY DEF Busy, OnDisconnected, ScheduleReconnect
  <1>5. ListenerIsLive'
    BY DEF ListenerIsLive, OnDisconnected
  <1>6. SingleConnection'
    BY <1>1 DEF SingleConnection, Connected, Shape
  <1> QED
    BY <1>2, <1>3, <1>4, <1>5, <1>6

LEMMA NetworkStep == IInv /\ (NetworkFails \/ NetworkReturns) => IInv'
  <1> SUFFICES ASSUME IInv, NetworkFails \/ NetworkReturns PROVE IInv'
    OBVIOUS
  <1> USE NoneIsNoClient DEF IInv, NetworkFails, NetworkReturns, calls, timers, observer
  <1>1. /\ client' \in [Client -> {"off", "dialing", "up", "stale"}]
        /\ \A x \in Client : \/ client'[x] = client[x]
                             \/ client[x] = "up" /\ client'[x] = "stale"
    BY DEF Shape
  <1>2. \A x \in Client \cup {None} : Connected(x) <=> Connected(x)'
    BY <1>1 DEF Connected
  <1>3. Shape'
    BY <1>1 DEF Shape
  <1>4. DialsAreApart'
    BY <1>1 DEF DialsAreApart, Dial
  <1>5. Busy'
    BY <1>2 DEF Busy, Shape
  <1>6. ListenerIsLive'
    BY <1>2 DEF ListenerIsLive, Shape
  <1>7. SingleConnection'
    BY <1>1, <1>2 DEF SingleConnection, Shape
  <1> QED
    BY <1>3, <1>4, <1>5, <1>6, <1>7

(* disconnect, which is meant to leave the service idle.                       *)
LEMMA DisconnectStep == IInv /\ Disconnect => IInv'
  <1> SUFFICES ASSUME IInv, Disconnect PROVE IInv'
    OBVIOUS
  <1> USE NoneIsNoClient DEF IInv, Disconnect, calls, world, observer
  <1>1. /\ client' \in [Client -> {"off", "dialing", "up", "stale"}]
        /\ \A x \in Client : client'[x] = IF x = current THEN "off" ELSE client[x]
    BY DEF Shape
  <1>2. Shape'
    BY <1>1 DEF Shape
  <1>3. DialsAreApart'
    BY <1>1 DEF DialsAreApart, Dial
  <1>4. Busy' /\ ListenerIsLive'
    BY DEF Busy, ListenerIsLive
  <1>5. SingleConnection'
    BY <1>1 DEF SingleConnection, Connected
  <1> QED
    BY <1>2, <1>3, <1>4, <1>5

--------------------------------------------------------------------------------
(* Steps that leave the clients alone.                                         *)

LEMMA ClientsKept ==
    ASSUME IInv, UNCHANGED <<client, current, listening, dialing, observer>>
    PROVE  /\ DialsAreApart' /\ ListenerIsLive' /\ SingleConnection'
           /\ Connected(current)' <=> Connected(current)
  BY DEF IInv, DialsAreApart, ListenerIsLive, SingleConnection, Connected, observer

Quiet ==
    \/ CredentialsFail \/ RenewalFails \/ ArmRefresh \/ RefreshFires
    \/ TimerFires \/ OrphanFires \/ Pause \/ Resume

LEMMA QuietStep == IInv /\ Quiet => IInv'
  <1> SUFFICES ASSUME IInv, Quiet PROVE IInv'
    OBVIOUS
  <1> USE DEF IInv, Shape, Busy, calls, timers, world
  <1>1. CASE CredentialsFail
    <2> USE <1>1 DEF CredentialsFail, ScheduleReconnect
    <2>1. Shape' /\ Busy' /\ UNCHANGED <<client, current, listening, dialing, observer>>
      OBVIOUS
    <2> QED
      BY <2>1, ClientsKept
  <1>2. CASE RenewalFails \/ ArmRefresh \/ RefreshFires \/ Pause
    <2> USE <1>2 DEF RenewalFails, ArmRefresh, RefreshFires, Pause
    <2>1. Shape' /\ UNCHANGED <<client, current, listening, dialing, observer>>
      OBVIOUS
    <2>2. UNCHANGED <<intentional, fetching, held, orphans>>
      OBVIOUS
    <2> QED
      BY <2>1, <2>2, ClientsKept
  (* The timer is gone; _client is connected, or a call of connect has begun.  *)
  <1>3. CASE TimerFires \/ OrphanFires \/ Resume
    <2> USE <1>3 DEF TimerFires, OrphanFires, Resume, Connect
    <2>1. UNCHANGED <<client, current, listening, dialing, observer>>
      OBVIOUS
    <2>2. Shape'
      OBVIOUS
    <2>3. Connected(current) \/ fetching' > 0
      OBVIOUS
    <2> QED
      BY <2>1, <2>2, <2>3, ClientsKept
  <1> QED
    BY <1>1, <1>2, <1>3 DEF Quiet

--------------------------------------------------------------------------------
(* The invariant.                                                              *)

LEMMA InitInv == Init => IInv
  BY NoneIsNoClient
  DEF Init, IInv, Shape, DialsAreApart, Busy, ListenerIsLive, SingleConnection, Connected

LEMMA NextInv == IInv /\ [Next]_vars => IInv'
  <1> SUFFICES ASSUME IInv, [Next]_vars PROVE IInv'
    OBVIOUS
  <1>1. CASE CredentialsArrive \/ RenewalArrives
    BY <1>1, CredentialsArriveStep, RenewalArrivesStep
  <1>2. CASE DialEnds
    BY <1>2, DialSucceedsStep, DialFailsStep DEF DialEnds
  <1>3. CASE \E c \in Client : Drop(c)
    BY <1>3, DropStep
  <1>4. CASE NetworkFails \/ NetworkReturns \/ Disconnect
    BY <1>4, NetworkStep, DisconnectStep
  <1>5. CASE Quiet
    BY <1>5, QuietStep
  <1>6. CASE UNCHANGED vars
    BY <1>6
    DEF vars, calls, timers, world, observer, IInv, Shape, DialsAreApart, Busy, ListenerIsLive,
        SingleConnection, Connected
  <1> QED
    BY <1>1, <1>2, <1>3, <1>4, <1>5, <1>6 DEF Next, FetchEnds, Quiet

LEMMA Invariant == Spec => []IInv
  BY InitInv, NextInv, PTL DEF Spec

(* For any number of overlapping calls and orphaned timers: a service that was *)
(* not told to disconnect is connected, connecting or about to try.            *)
THEOREM ServiceNeverIdle == Spec => []NeverIdle
  <1>1. IInv => NeverIdle
    BY DEF IInv, Busy, NeverIdle
  <1> QED
    BY Invariant, <1>1, PTL

(* _updatesSubscription never outlives the connection it reads from.           *)
THEOREM ListenerLives == Spec => []ListenerIsLive
  <1>1. IInv => ListenerIsLive
    BY DEF IInv
  <1> QED
    BY Invariant, <1>1, PTL

(* For any number of overlapping calls and refreshes: every client in use that *)
(* is not _client has been replaced by a call of connect, and a connected      *)
(* _client is listened to unless one of those has dropped since.               *)
THEOREM ConnectionIsSingle == Spec => []SingleConnection
  <1>1. IInv => SingleConnection
    BY DEF IInv
  <1> QED
    BY Invariant, <1>1, PTL

--------------------------------------------------------------------------------
(* The telemetry tables.                                                       *)

(* The places of the statements in the queue.                                  *)
Positions == 1 .. Len(queue)

PruneOps == {"upsert", "insert", "select", "delete"}

Statements == [op : Ops, msg : Telemetry \cup Status, cutoff : {0} \cup Timestamps]

(* Each statement has the kind of message it is about, a DELETE its cutoff.    *)
Fits(s) ==
    /\ IF s.op \in PruneOps THEN s.msg \in Telemetry ELSE s.msg \in Status
    /\ s.op = "delete" => s.cutoff \in Timestamps

StoreTypes ==
    /\ latest \in [Device -> [ts : {0} \cup Timestamps, online : BOOLEAN]]
    /\ cache \in [Device -> SUBSET Timestamps]
    /\ inserted \in [Device -> SUBSET Timestamps]
    /\ queue \in Seq(Statements) /\ \A i \in Positions : Fits(queue[i])
    /\ last \in [Device -> Telemetry \cup Status \cup {NoMessage}]

(* Telemetry is in the latest row before it reaches the cache.                 *)
InsertsAreCovered ==
    \A i \in Positions : queue[i].op = "insert" =>
        queue[i].msg.ts <= latest[queue[i].msg.device].ts

CacheWasInserted ==
    \A d \in Device : cache[d] \subseteq inserted[d] /\ IsFiniteSet(inserted[d])

(* A cutoff on its way to the DELETE leaves keepCount inserted rows alone.     *)
CutoffsAreOld ==
    \A i \in Positions : queue[i].op = "delete" =>
        Cardinality(Newer(inserted[queue[i].msg.device], queue[i].cutoff)) >= KeepCount

(* A DELETE leaves at most keepCount rows, or a later prune sees to it.        *)
PruneFollows(i) ==
    \E j \in Positions : /\ i < j /\ queue[j].op = "select"
                         /\ queue[j].msg.device = queue[i].msg.device

DeletesSettle ==
    \A i \in Positions : queue[i].op = "delete" =>
        \/ Cardinality(Newer(cache[queue[i].msg.device], queue[i].cutoff)) <= KeepCount
        \/ PruneFollows(i)

(* The statements that write the latest row of d.                              *)
Writes(i, d) == queue[i].op \in {"upsert", "setOnline"} /\ queue[i].msg.device = d

(* Telemetry handled last is in the latest row or will be.                     *)
LastSampleTracked ==
    \A d \in Device : last[d] \in Telemetry =>
        /\ last[d].device = d
        /\ \/ last[d].ts <= latest[d].ts
           \/ \E i \in Positions : queue[i].op = "upsert" /\ queue[i].msg = last[d]

(* A status handled last is the last to write the row, or has written it.      *)
StatusToCome(d) ==
    \E i \in Positions : /\ queue[i].op = "setOnline" /\ queue[i].msg = last[d]
                         /\ \A j \in Positions : i < j => ~Writes(j, d)

StatusShown(d) ==
    /\ \A j \in Positions : ~Writes(j, d)
    /\ latest[d] # NoRow => latest[d].online = last[d].online

LastStatusTracked ==
    \A d \in Device : last[d] \in Status =>
        last[d].device = d /\ (StatusToCome(d) \/ StatusShown(d))

StoreInv ==
    /\ StoreTypes
    /\ InsertsAreCovered /\ LatestCoversCache
    /\ CacheWasInserted /\ CutoffsAreOld /\ CacheKeepsNewest /\ DeletesSettle
    /\ LastSampleTracked /\ LastStatusTracked

--------------------------------------------------------------------------------
(* Sets of timestamps.                                                         *)

(* A set of numbers that is not empty has a least one.                       *)
LEMMA LeastOf ==
    ASSUME NEW T, T \subseteq Nat, T # {}
    PROVE  \E x \in T : \A y \in T : x <= y
  <1>1. PICK x \in T : \A y \in T : ~(<<y, x>> \in OpToRel(<, Nat))
    BY NatLessThanWellFounded, WFMin
  <1>2. ASSUME NEW y \in T PROVE x <= y
    <2>1. x \in Nat /\ y \in Nat
      OBVIOUS
    <2>2. ~(y < x)
      BY <1>1, <2>1 DEF OpToRel
    <2>3. x <= y \/ y < x
      BY <2>1
    <2> QED
      BY <2>2, <2>3
  <1> QED
    BY <1>2

(* The newer rows of a finite set are finite, and fewer in a smaller set.      *)
LEMMA NewerOfFinite ==
    ASSUME NEW rows, IsFiniteSet(rows), NEW ts
    PROVE  /\ IsFiniteSet(Newer(rows, ts)) /\ Cardinality(Newer(rows, ts)) \in Nat
           /\ Cardinality(Newer(rows, ts)) <= Cardinality(rows)
  <1>1. Newer(rows, ts) \subseteq rows
    BY DEF Newer
  <1> QED
    BY <1>1, FS_Subset, FS_CardinalityType

(* A larger set has at least as many newer rows.                             *)
LEMMA NewerOfMore ==
    ASSUME NEW more, IsFiniteSet(more), NEW rows \in SUBSET more, NEW ts
    PROVE  Cardinality(Newer(rows, ts)) <= Cardinality(Newer(more, ts))
  <1>1. Newer(rows, ts) \subseteq Newer(more, ts)
    BY DEF Newer
  <1> QED
    BY <1>1, NewerOfFinite, FS_Subset

(* An older row has at least as many newer rows.                             *)
LEMMA NewerThanOlder ==
    ASSUME NEW rows, IsFiniteSet(rows), rows \subseteq Nat, NEW t \in Nat, NEW c \in Nat, t <= c
    PROVE  Cardinality(Newer(rows, c)) <= Cardinality(Newer(rows, t))
  <1>1. ASSUME NEW u \in rows, u > c PROVE u > t
    <2>1. u \in Nat
      OBVIOUS
    <2> QED
      BY <1>1, <2>1
  <1>2. Newer(rows, c) \subseteq Newer(rows, t)
    BY <1>1 DEF Newer
  <1> QED
    BY <1>2, NewerOfFinite, FS_Subset

(* The set less its least element is what is newer than that.                  *)
LEMMA NewerThanLeast ==
    ASSUME NEW rows, IsFiniteSet(rows), rows \subseteq Nat, NEW t \in rows,
           \A u \in rows : t <= u
    PROVE  Cardinality(Newer(rows, t)) = Cardinality(rows) - 1
  <1>1. ASSUME NEW u \in rows PROVE u > t <=> u # t
    <2>1. u \in Nat /\ t \in Nat /\ t <= u
      OBVIOUS
    <2> QED
      BY <2>1
  <1>2. Newer(rows, t) = rows \ {t}
    BY <1>1 DEF Newer
  <1> QED
    BY <1>2, FS_RemoveElement

(* The row a SELECT with OFFSET k finds is there when more than k rows are.    *)
LEMMA CutoffExists ==
    ASSUME NEW rows, IsFiniteSet(rows), rows \subseteq Nat, NEW k \in Nat, k < Cardinality(rows)
    PROVE  \E t \in rows : Cardinality(Newer(rows, t)) = k
  <1> DEFINE Count(t) == Cardinality(Newer(rows, t))
             Enough == {Count(t) : t \in {u \in rows : k <= Count(u)}}
  <1>1. \A t : Count(t) \in Nat
    BY NewerOfFinite
  <1>2. Cardinality(rows) \in Nat
    BY FS_CardinalityType
  <1>3. PICK least \in rows : \A u \in rows : least <= u
    <2>1. rows # {}
      BY <1>2, FS_EmptySet
    <2> QED
      BY <2>1, LeastOf
  <1>4. Count(least) = Cardinality(rows) - 1
    BY <1>3, NewerThanLeast
  <1>5. Enough # {} /\ Enough \subseteq Nat
    <2> HIDE DEF Count
    <2>1. k <= Count(least)
      BY <1>2, <1>4
    <2> QED
      BY <1>1, <2>1
  <1>6. PICK n \in Enough : \A m \in Enough : n <= m
    <2> HIDE DEF Enough
    <2> QED
      BY <1>5, LeastOf
  <1>7. PICK t \in rows : n = Count(t) /\ k <= Count(t)
    BY <1>6
  <1>8. CASE Count(t) = k
    BY <1>7, <1>8
  <1>9. CASE Count(t) # k
    <2>1. Newer(rows, t) # {} /\ Newer(rows, t) \subseteq rows /\ Count(t) > 0
      <3>1. Count(t) > 0
        BY <1>1, <1>7, <1>9
      <3> QED
        BY <3>1, FS_EmptySet DEF Newer
    <2>2. PICK u \in Newer(rows, t) : \A v \in Newer(rows, t) : u <= v
      BY <2>1, LeastOf
    <2>3. Newer(rows, u) = Newer(Newer(rows, t), u) /\ u \in rows
      <3>1. u \in rows /\ u > t
        BY <2>2 DEF Newer
      <3>2. ASSUME NEW v \in rows, v > u PROVE v > t
        <4>1. u \in Nat /\ v \in Nat /\ t \in Nat
          BY <3>1
        <4> QED
          BY <3>1, <3>2, <4>1
      <3> QED
        BY <3>1, <3>2 DEF Newer
    <2>4. Cardinality(Newer(Newer(rows, t), u)) = Count(t) - 1
      BY <2>1, <2>2, NewerOfFinite, NewerThanLeast
    <2>5. Count(u) = Count(t) - 1
      BY <2>3, <2>4
    <2> HIDE DEF Count
    <2>6. k <= Count(u) /\ Count(u) < Count(t)
      BY <1>1, <1>7, <1>9, <2>5
    <2>7. Count(u) \in Enough
      BY <2>3, <2>6
    <2> QED
      BY <1>1, <1>6, <1>7, <2>6, <2>7
  <1> QED
    BY <1>8, <1>9

(* What SelectCutoff answers.                                                  *)
LEMMA CutoffFound ==
    ASSUME NEW rows, IsFiniteSet(rows), rows \subseteq Timestamps
    PROVE  IF Cardinality(rows) <= KeepCount
           THEN Cutoff(rows) = 0
           ELSE Cutoff(rows) \in rows /\ Cutoff(rows) # 0
                /\ Cardinality(Newer(rows, Cutoff(rows))) = KeepCount
  <1>1. rows \subseteq Nat /\ 0 \notin rows /\ KeepCount \in Nat /\ Cardinality(rows) \in Nat
    BY StoreAssumption, FS_CardinalityType
  <1>2. CASE Cardinality(rows) <= KeepCount
    BY <1>2 DEF Cutoff
  <1>3. CASE ~(Cardinality(rows) <= KeepCount)
    <2>1. KeepCount < Cardinality(rows)
      BY <1>1, <1>3
    <2>2. \E t \in rows : Cardinality(Newer(rows, t)) = KeepCount
      BY <1>1, <2>1, CutoffExists
    <2>3. Cutoff(rows) = CHOOSE t \in rows : Cardinality(Newer(rows, t)) = KeepCount
      BY <1>3 DEF Cutoff
    <2> QED
      BY <1>1, <1>3, <2>2, <2>3
  <1> QED
    BY <1>2, <1>3

--------------------------------------------------------------------------------
(* The queue.                                                                  *)

(* Timestamps are numbers, and 0 is none of them.                            *)
LEMMA TimestampsAreNumbers ==
    Timestamps \subseteq Nat /\ 0 \notin Timestamps /\ KeepCount \in Nat
  BY StoreAssumption

(* What is known of a message and of a statement.                              *)
LEMMA MessageParts ==
    /\ \A msg \in Telemetry : msg.device \in Device /\ msg.ts \in Timestamps
                              /\ msg.kind = "telemetry"
    /\ \A msg \in Status : msg.device \in Device /\ msg.online \in BOOLEAN
                           /\ msg.kind = "status"
    /\ \A msg \in Status : msg \notin Telemetry
  BY DEF Telemetry, Status

(* The mark for "no message" is not a message.                               *)
LEMMA NoMessageIsNone == NoMessage \notin Telemetry /\ NoMessage \notin Status
  <1>1. \A msg \in Telemetry \cup Status : "kind" \in DOMAIN msg
    BY DEF Telemetry, Status
  <1>2. "kind" \notin DOMAIN NoMessage
    BY DEF NoMessage
  <1> QED
    BY <1>1, <1>2

(* What is known of a statement in the queue.                                *)
LEMMA StatementParts ==
    ASSUME StoreTypes
    PROVE  /\ Positions \subseteq Nat
           /\ \A i \in Positions :
                /\ queue[i] \in Statements /\ Fits(queue[i]) /\ queue[i].op \in Ops
                /\ queue[i].msg.device \in Device
                /\ queue[i].op \in {"upsert", "insert"} => queue[i].msg.ts \in Timestamps
  <1>1. Len(queue) \in Nat /\ \A i \in 1 .. Len(queue) : queue[i] \in Statements
    BY DEF StoreTypes
  <1>2. \A i \in Positions : queue[i] \in Statements /\ Fits(queue[i])
    BY <1>1 DEF StoreTypes, Positions
  <1>3. \A i \in Positions : queue[i].op \in Ops /\ queue[i].msg.device \in Device
    BY <1>2, MessageParts DEF Statements
  <1>4. \A i \in Positions : queue[i].op \in {"upsert", "insert"} => queue[i].msg.ts \in Timestamps
    BY <1>2, MessageParts DEF Fits, PruneOps
  <1> QED
    BY <1>1, <1>2, <1>3, <1>4 DEF Positions

(* The oldest statement leaves, and its handler may issue another one.         *)
Moves(next) ==
    /\ queue' \in Seq(Statements) /\ Positions' \subseteq Nat /\ Positions \subseteq Nat
    /\ 1 \in Positions /\ queue[1] = Head(queue)
    /\ \A k \in Positions' :
           \/ k + 1 \in Positions /\ queue'[k] = queue[k + 1]
           \/ k + 1 \notin Positions /\ next # << >> /\ queue'[k] = next[1]
    /\ \A k \in Positions \ {1} : k - 1 \in Positions' /\ queue'[k - 1] = queue[k]
    /\ next # << >> => /\ Len(queue) \in Positions' /\ queue'[Len(queue)] = next[1]
                       /\ next[1] \in Statements /\ Fits(next[1])
                       /\ \A k \in Positions : k - 1 < Len(queue)

(* A sequence with one more element.                                           *)
LEMMA Joined ==
    ASSUME NEW S, NEW q \in Seq(S), NEW x \in S, NEW p, p = q \o <<x>>
    PROVE  /\ p \in Seq(S) /\ Len(p) = Len(q) + 1
           /\ \A k \in 1 .. Len(q) : p[k] = q[k]
           /\ p[Len(q) + 1] = x
  <1>1. <<x>> \in Seq(S) /\ Len(<<x>>) = 1 /\ <<x>>[1] = x /\ Len(q) \in Nat
    OBVIOUS
  <1>2. q \o <<x>> \in Seq(S) /\ Len(q \o <<x>>) = Len(q) + 1
    BY <1>1
  <1>3. \A k \in 1 .. Len(q) : (q \o <<x>>)[k] = q[k]
    BY <1>1
  <1>4. (q \o <<x>>)[Len(q) + 1] = x
    BY <1>1
  <1> QED
    BY <1>2, <1>3, <1>4

(* The statements left, and the one issued, have their new places.           *)
LEMMA Moved ==
    ASSUME StoreTypes, queue # << >>,
           NEW next, next = << >> \/ \E x \in Statements : Fits(x) /\ next = <<x>>,
           queue' = Tail(queue) \o next
    PROVE  Moves(next)
  <1> DEFINE n == Len(queue)
  <1>1. queue \in Seq(Statements) /\ n \in Nat /\ n # 0 /\ Positions = 1 .. n
    BY DEF StoreTypes, Positions
  <1>2. Tail(queue) \in Seq(Statements) /\ Len(Tail(queue)) = n - 1
        /\ \A k \in 1 .. n - 1 : Tail(queue)[k] = queue[k + 1]
    BY <1>1
  <1>3. Head(queue) = queue[1]
    BY <1>1
  <1>4. CASE next = << >>
    <2>1. queue' = Tail(queue) /\ Positions' = 1 .. n - 1
      BY <1>2, <1>4 DEF Positions
    <2> HIDE DEF n
    <2> QED
      BY <1>1, <1>2, <1>3, <1>4, <2>1 DEF Moves
  <1>5. ASSUME NEW x \in Statements, Fits(x), next = <<x>> PROVE Moves(next)
    <2>1. next # << >> /\ next[1] = x /\ Len(next) = 1 /\ next \in Seq(Statements)
      BY <1>5
    <2>2. /\ queue' \in Seq(Statements) /\ Len(queue') = n /\ Positions' = 1 .. n
          /\ \A k \in 1 .. n - 1 : queue'[k] = queue[k + 1]
          /\ queue'[n] = x
      <3> DEFINE rest == Tail(queue)
      <3>1. queue' = rest \o <<x>> /\ rest \in Seq(Statements) /\ Len(rest) = n - 1
            /\ \A k \in 1 .. n - 1 : rest[k] = queue[k + 1]
        BY <1>2, <1>5
      <3> HIDE DEF rest, n
      <3>2. /\ queue' \in Seq(Statements) /\ Len(queue') = Len(rest) + 1
            /\ \A k \in 1 .. Len(rest) : queue'[k] = rest[k]
            /\ queue'[Len(rest) + 1] = x
        <4>1. PICK q : q = rest
          OBVIOUS
        <4>2. PICK p : p = queue'
          OBVIOUS
        <4>3. p = q \o <<x>> /\ q \in Seq(Statements)
          BY <3>1, <4>1, <4>2
        <4>4. /\ p \in Seq(Statements) /\ Len(p) = Len(q) + 1
              /\ \A k \in 1 .. Len(q) : p[k] = q[k]
              /\ p[Len(q) + 1] = x
          BY <4>3, Joined
        <4> QED
          BY <4>1, <4>2, <4>4
      <3>3. Len(rest) + 1 = n
        BY <1>1, <3>1
      <3> QED
        BY <3>1, <3>2, <3>3 DEF Positions
    <2> HIDE DEF n
    <2>3. \A k \in 1 .. n : k + 1 \in 1 .. n \/ k = n
      BY <1>1
    <2>4. \A k \in Positions' :
             \/ k + 1 \in Positions /\ queue'[k] = queue[k + 1]
             \/ k + 1 \notin Positions /\ queue'[k] = next[1]
      BY <1>1, <2>1, <2>2, <2>3
    <2>5. \A k \in Positions \ {1} : k - 1 \in Positions' /\ queue'[k - 1] = queue[k]
      BY <1>1, <2>2
    <2>6. n \in Positions' /\ queue'[n] = next[1] /\ 1 \in Positions
          /\ \A k \in Positions : k - 1 < n
      BY <1>1, <2>1, <2>2
    <2>7. Positions \subseteq Nat /\ Positions' \subseteq Nat
      BY <1>1, <2>2
    <2> QED
      BY <1>3, <1>5, <2>1, <2>2, <2>4, <2>5, <2>6, <2>7 DEF Moves, n
  <1> QED
    BY <1>4, <1>5

(* They are still statements.                                                *)
LEMMA FitsMoved ==
    ASSUME StoreTypes, NEW next, Moves(next)
    PROVE  queue' \in Seq(Statements) /\ \A i \in Positions' : Fits(queue'[i])
  BY StatementParts DEF Moves

(* What is written about inserts stays true while the latest rows only rise.   *)
LEMMA InsertsMoved ==
    ASSUME StoreTypes, InsertsAreCovered, NEW next, Moves(next),
           \A d \in Device : /\ latest[d].ts \in Nat /\ latest'[d].ts \in Nat
                             /\ latest[d].ts <= latest'[d].ts,
           next # << >> /\ next[1].op = "insert"
               => next[1].msg.ts <= latest'[next[1].msg.device].ts
    PROVE  InsertsAreCovered'
  <1> SUFFICES ASSUME NEW i \in Positions', queue'[i].op = "insert"
               PROVE  queue'[i].msg.ts <= latest'[queue'[i].msg.device].ts
    BY DEF InsertsAreCovered
  <1>1. CASE i + 1 \in Positions /\ queue'[i] = queue[i + 1]
    <2> DEFINE s == queue[i + 1]
    <2>1. s.msg.device \in Device /\ s.msg.ts \in Nat /\ s.msg.ts <= latest[s.msg.device].ts
      BY <1>1, StatementParts, TimestampsAreNumbers DEF InsertsAreCovered
    <2> HIDE DEF s
    <2>2. s.msg.ts <= latest'[s.msg.device].ts
      BY <2>1
    <2> QED
      BY <1>1, <2>2 DEF s
  <1> QED
    BY <1>1 DEF Moves

(* A cutoff stays old while the inserted rows only grow in number.           *)
LEMMA CutoffsMoved ==
    ASSUME StoreTypes, CutoffsAreOld, CacheWasInserted, NEW next, Moves(next),
           \A d \in Device : IsFiniteSet(inserted'[d]) /\ inserted[d] \subseteq inserted'[d],
           next # << >> /\ next[1].op = "delete"
               => Cardinality(Newer(inserted'[next[1].msg.device], next[1].cutoff)) >= KeepCount
    PROVE  CutoffsAreOld'
  <1> SUFFICES ASSUME NEW i \in Positions', queue'[i].op = "delete"
               PROVE  Cardinality(Newer(inserted'[queue'[i].msg.device], queue'[i].cutoff))
                          >= KeepCount
    BY DEF CutoffsAreOld, Newer
  <1>1. CASE i + 1 \in Positions /\ queue'[i] = queue[i + 1]
    <2> DEFINE s == queue[i + 1]
    <2>1. s.msg.device \in Device
          /\ Cardinality(Newer(inserted[s.msg.device], s.cutoff)) >= KeepCount
      BY <1>1, StatementParts DEF CutoffsAreOld
    <2> HIDE DEF s
    <2>2. /\ IsFiniteSet(inserted[s.msg.device]) /\ IsFiniteSet(inserted'[s.msg.device])
          /\ inserted[s.msg.device] \in SUBSET inserted'[s.msg.device]
      BY <2>1 DEF CacheWasInserted
    <2>3. Cardinality(Newer(inserted[s.msg.device], s.cutoff))
              <= Cardinality(Newer(inserted'[s.msg.device], s.cutoff))
      BY <2>2, NewerOfMore
    <2>4. /\ Cardinality(Newer(inserted[s.msg.device], s.cutoff)) \in Nat
          /\ Cardinality(Newer(inserted'[s.msg.device], s.cutoff)) \in Nat
      BY <2>2, NewerOfFinite
    <2>5. Cardinality(Newer(inserted'[s.msg.device], s.cutoff)) >= KeepCount
      BY <2>1, <2>3, <2>4, TimestampsAreNumbers
    <2> QED
      BY <1>1, <2>5 DEF s
  <1> QED
    BY <1>1 DEF Moves

(* A DELETE stays settled: rows it would leave are not added without a prune   *)
(* behind it.                                                                  *)
LEMMA DeletesMoved ==
    ASSUME StoreTypes, DeletesSettle, NEW next, Moves(next),
           \A d \in Device :
               /\ IsFiniteSet(cache[d])
               /\ \/ cache'[d] \subseteq cache[d]
                  \/ next # << >> /\ next[1].op = "select" /\ next[1].msg.device = d,
           next # << >> /\ next[1].op = "delete"
               => Cardinality(Newer(cache'[next[1].msg.device], next[1].cutoff)) <= KeepCount
    PROVE  DeletesSettle'
  <1> SUFFICES ASSUME NEW i \in Positions', queue'[i].op = "delete"
               PROVE  \/ Cardinality(Newer(cache'[queue'[i].msg.device], queue'[i].cutoff))
                             <= KeepCount
                      \/ \E j \in Positions' : /\ i < j /\ queue'[j].op = "select"
                                               /\ queue'[j].msg.device = queue'[i].msg.device
    BY DEF DeletesSettle, PruneFollows, Newer
  <1>1. CASE i + 1 \in Positions /\ queue'[i] = queue[i + 1]
    <2> DEFINE s == queue[i + 1]
    <2>1. s.msg.device \in Device /\ s = queue'[i] /\ s = queue[i + 1]
      BY <1>1, StatementParts
    <2>2. \/ Cardinality(Newer(cache[s.msg.device], s.cutoff)) <= KeepCount
          \/ PruneFollows(i + 1)
      BY <1>1 DEF DeletesSettle
    <2> HIDE DEF s
    <2>3. CASE PruneFollows(i + 1)
      <3>1. PICK j \in Positions : /\ i + 1 < j /\ queue[j].op = "select"
                                   /\ queue[j].msg.device = s.msg.device
        BY <2>1, <2>3 DEF PruneFollows
      <3>2. i \in Nat /\ j \in Nat
        BY DEF Moves
      <3>3. j # 1 /\ i < j - 1
        BY <3>1, <3>2
      <3>4. j - 1 \in Positions' /\ queue'[j - 1] = queue[j]
        BY <3>3 DEF Moves
      <3> QED
        BY <2>1, <3>1, <3>3, <3>4
    <2>4. CASE next # << >> /\ next[1].op = "select" /\ next[1].msg.device = s.msg.device
      <3>1. /\ Len(queue) \in Positions' /\ queue'[Len(queue)] = next[1]
            /\ i + 1 - 1 < Len(queue) /\ i \in Nat
        BY <1>1, <2>4 DEF Moves
      <3>2. i < Len(queue)
        BY <3>1
      <3> QED
        BY <2>1, <2>4, <3>1, <3>2
    <2>5. CASE /\ cache'[s.msg.device] \subseteq cache[s.msg.device]
               /\ Cardinality(Newer(cache[s.msg.device], s.cutoff)) <= KeepCount
      <3>1. /\ IsFiniteSet(cache[s.msg.device])
            /\ cache'[s.msg.device] \in SUBSET cache[s.msg.device]
        BY <2>1, <2>5
      <3>2. IsFiniteSet(cache'[s.msg.device])
        BY <3>1, FS_Subset
      <3>3. Cardinality(Newer(cache'[s.msg.device], s.cutoff))
                <= Cardinality(Newer(cache[s.msg.device], s.cutoff))
        BY <3>1, NewerOfMore
      <3>4. /\ Cardinality(Newer(cache[s.msg.device], s.cutoff)) \in Nat
            /\ Cardinality(Newer(cache'[s.msg.device], s.cutoff)) \in Nat
        BY <3>1, <3>2, NewerOfFinite
      <3>5. Cardinality(Newer(cache'[s.msg.device], s.cutoff)) <= KeepCount
        BY <2>5, <3>3, <3>4, TimestampsAreNumbers
      <3> QED
        BY <2>1, <3>5
    <2> QED
      BY <2>1, <2>2, <2>3, <2>4, <2>5
  <1> QED
    BY <1>1 DEF Moves

(* The statement has run, or it failed and its device's last message with it.  *)
RunsOrFails(done) ==
    \/ last' = last /\ done
    \/ last' = [last EXCEPT ![Head(queue).msg.device] = NoMessage]

(* An upsert that runs puts the last sample in the row, or the row was newer.*)
LEMMA LastSampleMoved ==
    ASSUME StoreTypes, LastSampleTracked, NEW next, Moves(next),
           \A d \in Device : /\ latest[d].ts \in Nat /\ latest'[d].ts \in Nat
                             /\ latest[d].ts <= latest'[d].ts,
           RunsOrFails(Head(queue).op = "upsert"
                           => Head(queue).msg.ts <= latest'[Head(queue).msg.device].ts)
    PROVE  LastSampleTracked'
  <1> DEFINE h == queue[1]
             done == h.op = "upsert" => h.msg.ts <= latest'[h.msg.device].ts
  <1>1. h = Head(queue)
    BY DEF Moves
  <1>2. SUFFICES ASSUME NEW d \in Device, last'[d] \in Telemetry
                 PROVE  /\ last'[d].device = d
                        /\ \/ last'[d].ts <= latest'[d].ts
                           \/ \E i \in Positions' : queue'[i].op = "upsert"
                                                    /\ queue'[i].msg = last'[d]
    BY DEF LastSampleTracked
  <1>3. last'[d] = last[d] /\ (done \/ h.msg.device # d)
    BY <1>1, <1>2, NoMessageIsNone DEF StoreTypes, RunsOrFails
  <1>4. last[d].device = d /\ last[d].ts \in Nat /\ last[d] \in Telemetry
    BY <1>2, <1>3, MessageParts, TimestampsAreNumbers DEF LastSampleTracked
  <1>5. \/ last[d].ts <= latest[d].ts
        \/ \E i \in Positions : queue[i].op = "upsert" /\ queue[i].msg = last[d]
    BY <1>2, <1>3 DEF LastSampleTracked
  <1>6. CASE last[d].ts <= latest[d].ts
    <2>1. last[d].ts <= latest'[d].ts
      BY <1>4, <1>6
    <2> QED
      BY <1>3, <1>4, <2>1
  <1>7. ASSUME NEW i \in Positions, queue[i].op = "upsert", queue[i].msg = last[d]
        PROVE  \/ last[d].ts <= latest'[d].ts
               \/ \E k \in Positions' : queue'[k].op = "upsert" /\ queue'[k].msg = last'[d]
    <2>1. CASE i = 1
      BY <1>3, <1>4, <1>7, <2>1
    <2>2. CASE i # 1
      <3>1. i - 1 \in Positions' /\ queue'[i - 1] = queue[i]
        BY <2>2 DEF Moves
      <3> QED
        BY <1>3, <1>7, <3>1
    <2> QED
      BY <2>1, <2>2
  <1> HIDE DEF h
  <1> QED
    BY <1>3, <1>4, <1>5, <1>6, <1>7

(* The last status stays the last writer of the row until it has written it. *)
LEMMA LastStatusMoved ==
    ASSUME StoreTypes, LastStatusTracked, NEW next, Moves(next),
           \A d \in Device : ~Writes(1, d) => latest'[d] = latest[d],
           next # << >> => next[1].op \notin {"upsert", "setOnline"},
           RunsOrFails(LET h == Head(queue) IN
               h.op = "setOnline" /\ latest'[h.msg.device] # NoRow
                   => latest'[h.msg.device].online = h.msg.online)
    PROVE  LastStatusTracked'
  <1> DEFINE h == queue[1]
             done == h.op = "setOnline" /\ latest'[h.msg.device] # NoRow
                         => latest'[h.msg.device].online = h.msg.online
             NoWrite(k, d) == ~(queue'[k].op \in {"upsert", "setOnline"}
                              /\ queue'[k].msg.device = d)
             Shown(d) == /\ \A j \in Positions' : NoWrite(j, d)
                         /\ latest'[d] # NoRow => latest'[d].online = last'[d].online
             ToCome(d) == \E i \in Positions' :
                              /\ queue'[i].op = "setOnline" /\ queue'[i].msg = last'[d]
                              /\ \A j \in Positions' : i < j => NoWrite(j, d)
  <1>1. h = Head(queue)
    BY DEF Moves
  <1>2. SUFFICES ASSUME NEW d \in Device, last'[d] \in Status
                 PROVE  last'[d].device = d /\ (ToCome(d) \/ Shown(d))
    BY DEF LastStatusTracked, StatusToCome, StatusShown, Writes
  <1>3. last'[d] = last[d] /\ (done \/ h.msg.device # d)
    BY <1>1, <1>2, NoMessageIsNone DEF StoreTypes, RunsOrFails
  <1>4. last[d].device = d /\ (StatusToCome(d) \/ StatusShown(d))
    BY <1>2, <1>3 DEF LastStatusTracked
  <1>5. ASSUME NEW i \in Nat, \A j \in Positions : i < j => ~Writes(j, d)
        PROVE  \A k \in Positions' : i < k + 1 => NoWrite(k, d)
    <2> SUFFICES ASSUME NEW k \in Positions', i < k + 1 PROVE NoWrite(k, d)
      OBVIOUS
    <2>1. CASE k + 1 \in Positions /\ queue'[k] = queue[k + 1]
      BY <1>5, <2>1 DEF Writes
    <2>2. CASE next # << >> /\ queue'[k] = next[1]
      BY <2>2
    <2> QED
      BY <2>1, <2>2 DEF Moves
  <1>6. CASE StatusShown(d)
    <2>1. \A j \in Positions : 0 < j => ~Writes(j, d)
      BY <1>6 DEF StatusShown
    <2>2. \A k \in Positions' : 0 < k + 1 => NoWrite(k, d)
      BY <1>5, <2>1
    <2>3. \A k \in Positions' : 0 < k + 1
      BY DEF Moves
    <2>4. latest'[d] = latest[d]
      BY <1>6 DEF StatusShown, Moves
    <2>5. latest'[d] # NoRow => latest'[d].online = last'[d].online
      BY <1>3, <1>6, <2>4 DEF StatusShown
    <2>6. Shown(d)
      <3> HIDE DEF NoWrite
      <3> QED
        BY <2>2, <2>3, <2>5
    <2> QED
      BY <1>3, <1>4, <2>6
  <1>7. ASSUME NEW i \in Positions, queue[i].op = "setOnline", queue[i].msg = last[d],
               \A j \in Positions : i < j => ~Writes(j, d)
        PROVE  ToCome(d) \/ Shown(d)
    <2>0. i \in Nat
      BY DEF Moves
    <2>1. \A k \in Positions' : i < k + 1 => NoWrite(k, d)
      BY <1>5, <1>7, <2>0
    <2>2. CASE i = 1
      <3>1. h.msg = last[d] /\ h.op = "setOnline" /\ h.msg.device = d
        BY <1>4, <1>7, <2>2
      <3>2. latest'[d] # NoRow => latest'[d].online = last'[d].online
        BY <1>3, <3>1
      <3>3. \A k \in Positions' : 1 < k + 1
        <4>1. \A k \in Positions' : k \in Nat /\ k # 0
          BY DEF Moves, Positions
        <4> QED
          BY <4>1
      <3>4. Shown(d)
        <4> HIDE DEF NoWrite
        <4> QED
          BY <2>1, <2>2, <3>2, <3>3
      <3> QED
        BY <3>4
    <2>3. CASE i # 1
      <3>1. i - 1 \in Positions' /\ queue'[i - 1] = queue[i]
        BY <2>3 DEF Moves
      <3>2. \A k \in Positions' : i - 1 < k => i < k + 1
        BY <2>0 DEF Moves
      <3>3. \A k \in Positions' : i - 1 < k => NoWrite(k, d)
        <4> HIDE DEF NoWrite
        <4> QED
          BY <2>1, <3>2
      <3>4. ToCome(d)
        <4> HIDE DEF NoWrite
        <4> QED
          BY <1>3, <1>7, <3>1, <3>3
      <3> QED
        BY <3>4
    <2> QED
      BY <2>2, <2>3
  <1>8. CASE StatusToCome(d)
    <2> HIDE DEF ToCome, Shown
    <2> QED
      BY <1>3, <1>4, <1>7, <1>8 DEF StatusToCome
  <1> HIDE DEF ToCome, Shown
  <1> QED
    BY <1>4, <1>6, <1>8

--------------------------------------------------------------------------------
(* The steps.                                                                  *)

(* At first the tables and the queue are empty.                              *)
LEMMA StoreStarts == StoreInit => StoreInv
  <1> SUFFICES ASSUME StoreInit PROVE StoreInv
    OBVIOUS
  <1>1. queue = << >> /\ Positions = {}
    BY DEF StoreInit, Positions
  <1>2. \A d \in Device : /\ cache[d] = {} /\ inserted[d] = {} /\ latest[d] = NoRow
                          /\ last[d] = NoMessage
    BY DEF StoreInit
  <1>3. StoreTypes
    <2>1. NoRow \in [ts : {0} \cup Timestamps, online : BOOLEAN]
      BY DEF NoRow
    <2>2. /\ latest \in [Device -> [ts : {0} \cup Timestamps, online : BOOLEAN]]
          /\ cache \in [Device -> SUBSET Timestamps]
          /\ inserted \in [Device -> SUBSET Timestamps]
          /\ last \in [Device -> Telemetry \cup Status \cup {NoMessage}]
      BY <2>1 DEF StoreInit
    <2>3. << >> \in Seq(Statements)
      OBVIOUS
    <2> QED
      BY <1>1, <2>2, <2>3 DEF StoreTypes
  <1>4. InsertsAreCovered /\ CutoffsAreOld /\ DeletesSettle
    BY <1>1 DEF InsertsAreCovered, CutoffsAreOld, DeletesSettle
  <1>5. LatestCoversCache /\ CacheWasInserted /\ CacheKeepsNewest
    BY <1>2, FS_EmptySet DEF LatestCoversCache, CacheWasInserted, CacheKeepsNewest
  <1>6. LastSampleTracked /\ LastStatusTracked
    BY <1>2, NoMessageIsNone DEF LastSampleTracked, LastStatusTracked
  <1> QED
    BY <1>3, <1>4, <1>5, <1>6 DEF StoreInv

(* A message adds one statement, behind all others.                          *)
LEMMA Handled ==
    ASSUME StoreInv, NEW msg \in Telemetry \cup Status, Handle(msg)
    PROVE  StoreInv'
  <1> DEFINE x == Statement(FirstOp(msg), msg, 0)
  <1>1. /\ queue' = Append(queue, x) /\ last' = [last EXCEPT ![msg.device] = msg]
        /\ UNCHANGED <<latest, cache, inserted>>
    BY DEF Handle, tables
  <1>2. StoreTypes /\ queue \in Seq(Statements)
    BY DEF StoreInv, StoreTypes
  <1>3. PICK n \in Nat : n = Len(queue)
    BY <1>2
  <1>4. /\ x.op = (IF msg \in Telemetry THEN "upsert" ELSE "setOnline") /\ x.msg = msg
        /\ x.cutoff = 0
    BY MessageParts DEF FirstOp, Statement
  <1>5. x \in Statements /\ Fits(x)
    <2>1. x = [op |-> FirstOp(msg), msg |-> msg, cutoff |-> 0]
      BY DEF Statement
    <2>2. FirstOp(msg) \in Ops
      BY DEF FirstOp, Ops
    <2>3. x \in Statements
      BY <2>1, <2>2 DEF Statements
    <2>4. Fits(x)
      BY <1>4 DEF Fits, PruneOps
    <2> QED
      BY <2>3, <2>4
  <1>6. msg.device \in Device
    BY MessageParts
  <1> HIDE DEF x
  <1>7. /\ queue' \in Seq(Statements) /\ Positions' = Positions \cup {n + 1}
        /\ (\A i \in Positions : queue'[i] = queue[i] /\ i \in Nat /\ i < n + 1)
        /\ queue'[n + 1] = x
    <2>1. queue' \in Seq(Statements) /\ Len(queue') = n + 1 /\ queue'[n + 1] = x
          /\ \A i \in 1 .. n : queue'[i] = queue[i]
      BY <1>3, <1>1, <1>2, <1>5
    <2> QED
      BY <1>3, <1>2, <2>1 DEF Positions
  <1>8. /\ last' \in [Device -> Telemetry \cup Status \cup {NoMessage}]
        /\ last'[msg.device] = msg
        /\ \A d \in Device \ {msg.device} : last'[d] = last[d]
    BY <1>1, <1>2, <1>6 DEF StoreTypes
  <1>9. StoreTypes'
    BY <1>1, <1>2, <1>5, <1>7, <1>8 DEF StoreTypes
  <1>10. InsertsAreCovered' /\ CutoffsAreOld'
    BY <1>1, <1>4, <1>7 DEF StoreInv, InsertsAreCovered, CutoffsAreOld, Newer
  <1>11. LatestCoversCache' /\ CacheWasInserted' /\ CacheKeepsNewest'
    BY <1>1 DEF StoreInv, LatestCoversCache, CacheWasInserted, CacheKeepsNewest, Newer
  <1>12. DeletesSettle'
    <2> SUFFICES ASSUME NEW i \in Positions', queue'[i].op = "delete"
                 PROVE  \/ Cardinality(Newer(cache[queue'[i].msg.device], queue'[i].cutoff))
                               <= KeepCount
                        \/ PruneFollows(i)'
      BY <1>1 DEF DeletesSettle, Newer
    <2>1. i \in Positions /\ queue'[i] = queue[i]
      BY <1>4, <1>7
    <2>2. PruneFollows(i) => PruneFollows(i)'
      BY <1>7, <2>1 DEF PruneFollows
    <2> QED
      BY <2>1, <2>2 DEF StoreInv, DeletesSettle
  <1>13. LastSampleTracked'
    <2> SUFFICES ASSUME NEW d \in Device, last'[d] \in Telemetry
                 PROVE  /\ last'[d].device = d
                        /\ \/ last'[d].ts <= latest[d].ts
                           \/ \E i \in Positions' : queue'[i].op = "upsert"
                                                    /\ queue'[i].msg = last'[d]
      BY <1>1 DEF LastSampleTracked
    <2>1. CASE d = msg.device
      BY <1>4, <1>7, <1>8, <2>1
    <2>2. CASE d # msg.device
      BY <1>7, <1>8, <2>2 DEF StoreInv, LastSampleTracked
    <2> QED
      BY <2>1, <2>2
  <1>14. LastStatusTracked'
    <2> SUFFICES ASSUME NEW d \in Device, last'[d] \in Status
                 PROVE  last'[d].device = d /\ (StatusToCome(d)' \/ StatusShown(d)')
      BY DEF LastStatusTracked
    <2>1. CASE d = msg.device
      <3>1. x.op = "setOnline" /\ x.msg = last'[d] /\ last'[d].device = d
        BY <1>4, <1>8, <2>1, MessageParts
      <3>2. \A j \in Positions' : ~(n + 1 < j)
        BY <1>2, <1>7
      <3>3. StatusToCome(d)'
        BY <1>7, <3>1, <3>2 DEF StatusToCome
      <3> QED
        BY <3>1, <3>3
    <2>2. CASE d # msg.device
      <3>1. last'[d] = last[d] /\ last[d].device = d /\ (StatusToCome(d) \/ StatusShown(d))
        BY <1>8, <2>2 DEF StoreInv, LastStatusTracked
      <3>2. ~Writes(n + 1, d)'
        BY <1>4, <1>7, <2>2 DEF Writes
      <3>3. \A i \in Positions : Writes(i, d)' <=> Writes(i, d)
        BY <1>7 DEF Writes
      <3>4. StatusToCome(d) => StatusToCome(d)'
        BY <1>7, <3>1, <3>2, <3>3 DEF StatusToCome
      <3>5. StatusShown(d) => StatusShown(d)'
        BY <1>1, <1>7, <3>1, <3>2, <3>3 DEF StatusShown
      <3> QED
        BY <3>1, <3>4, <3>5
    <2> QED
      BY <2>1, <2>2
  <1> QED
    BY <1>9, <1>10, <1>11, <1>12, <1>13, <1>14 DEF StoreInv

(* What is known of the oldest statement.                                    *)
LEMMA HeadParts ==
    ASSUME StoreTypes, queue # << >>
    PROVE  /\ 1 \in Positions /\ Head(queue) = queue[1]
           /\ Head(queue) \in Statements /\ Fits(Head(queue))
           /\ Head(queue).msg.device \in Device
           /\ Head(queue).op \in {"upsert", "insert"} => Head(queue).msg.ts \in Timestamps
  <1>1. queue \in Seq(Statements) /\ Len(queue) \in Nat /\ Len(queue) # 0
    BY DEF StoreTypes
  <1>2. 1 \in Positions /\ Head(queue) = queue[1]
    BY <1>1 DEF Positions
  <1> QED
    BY <1>2, StatementParts

(* A statement that goes on about the same message.                            *)
LEMMA Following ==
    ASSUME NEW h \in Statements, NEW op \in Ops, NEW cutoff \in {0} \cup Timestamps,
           Fits(h), op \in PruneOps <=> h.op \in PruneOps, op = "delete" => cutoff # 0
    PROVE  /\ Statement(op, h.msg, cutoff) \in Statements /\ Fits(Statement(op, h.msg, cutoff))
           /\ Statement(op, h.msg, cutoff).op = op /\ Statement(op, h.msg, cutoff).msg = h.msg
           /\ Statement(op, h.msg, cutoff).cutoff = cutoff
  <1> DEFINE x == Statement(op, h.msg, cutoff)
  <1>1. x = [op |-> op, msg |-> h.msg, cutoff |-> cutoff]
    BY DEF Statement
  <1>2. x.op = op /\ x.msg = h.msg /\ x.cutoff = cutoff
    BY <1>1
  <1>3. x \in Statements
    BY <1>1 DEF Statements
  <1>4. Fits(x)
    BY <1>2 DEF Fits
  <1> QED
    BY <1>2, <1>3, <1>4

(* How each handler goes on.                                                 *)
LEMMA Goes ==
    /\ \A s : s.op = "upsert" => Continuation(s, 0) = <<Statement("insert", s.msg, 0)>>
    /\ \A s : s.op = "insert" => Continuation(s, 0) = <<Statement("select", s.msg, 0)>>
    /\ \A s, c : s.op = "select"
           => Continuation(s, c) = IF c # 0 THEN <<Statement("delete", s.msg, c)>> ELSE << >>
    /\ \A s : s.op = "delete" => Continuation(s, 0) = << >>
    /\ \A s : s.op = "setOnline" => Continuation(s, 0) = <<Statement("setStatus", s.msg, 0)>>
    /\ \A s : s.op = "setStatus" => Continuation(s, 0) = << >>
  BY DEF Continuation

(* The time of a latest row is a number.                                     *)
LEMMA LatestNumbers ==
    ASSUME StoreTypes
    PROVE  \A d \in Device : latest[d].ts \in Nat
  <1>1. ASSUME NEW d \in Device PROVE latest[d].ts \in {0} \cup Timestamps
    <2>1. latest[d] \in [ts : {0} \cup Timestamps, online : BOOLEAN]
      BY DEF StoreTypes
    <2> QED
      BY <2>1
  <1>2. {0} \cup Timestamps \subseteq Nat
    BY TimestampsAreNumbers
  <1> QED
    BY <1>1, <1>2

(* What a statement keeps that does not write the latest rows.                 *)
LEMMA RowsKept ==
    ASSUME StoreInv, NEW next, Moves(next), latest' = latest,
           next # << >> => next[1].op \in {"select", "delete", "setStatus"},
           RunsOrFails(Head(queue).op \notin {"upsert", "setOnline"})
    PROVE  InsertsAreCovered' /\ LastSampleTracked' /\ LastStatusTracked'
  <1>1. StoreTypes
    BY DEF StoreInv
  <1>2. \A d \in Device : /\ latest[d].ts \in Nat /\ latest'[d].ts \in Nat
                          /\ latest[d].ts <= latest'[d].ts
    BY <1>1, LatestNumbers
  <1>3. InsertsAreCovered'
    BY <1>1, <1>2, InsertsMoved DEF StoreInv
  <1>4. LastSampleTracked'
    <2>1. RunsOrFails(Head(queue).op = "upsert"
                          => Head(queue).msg.ts <= latest'[Head(queue).msg.device].ts)
      BY DEF RunsOrFails
    <2> QED
      BY <1>1, <1>2, <2>1, LastSampleMoved DEF StoreInv
  <1>5. LastStatusTracked'
    <2>1. RunsOrFails(LET g == Head(queue) IN
               g.op = "setOnline" /\ latest'[g.msg.device] # NoRow
                   => latest'[g.msg.device].online = g.msg.online)
      BY DEF RunsOrFails
    <2> QED
      BY <1>1, <2>1, LastStatusMoved DEF StoreInv
  <1> QED
    BY <1>3, <1>4, <1>5

(* What a statement keeps that does not write the cache.                       *)
LEMMA CacheKept ==
    ASSUME StoreInv, NEW next, Moves(next), cache' = cache, inserted' = inserted,
           next # << >> => next[1].op # "delete"
    PROVE  CacheWasInserted' /\ CacheKeepsNewest' /\ CutoffsAreOld' /\ DeletesSettle'
  <1>1. CacheWasInserted' /\ CacheKeepsNewest'
    BY DEF StoreInv, CacheWasInserted, CacheKeepsNewest, Newer
  <1>2. \A d \in Device : /\ IsFiniteSet(inserted'[d]) /\ inserted[d] \subseteq inserted'[d]
                          /\ IsFiniteSet(cache[d]) /\ cache'[d] \subseteq cache[d]
    BY FS_Subset DEF StoreInv, CacheWasInserted
  <1>3. CutoffsAreOld' /\ DeletesSettle'
    BY <1>2, CutoffsMoved, DeletesMoved DEF StoreInv
  <1> QED
    BY <1>1, <1>3

(* The row rises to the sample before its INSERT is issued.                  *)
LEMMA Upserts ==
    ASSUME StoreInv, UpsertLatestState
    PROVE  StoreInv'
  <1> DEFINE h == Head(queue)
             next == <<Statement("insert", h.msg, 0)>>
  <1>1. /\ h.op = "upsert" /\ queue # << >> /\ queue' = Tail(queue) \o next
        /\ latest' = [latest EXCEPT ![h.msg.device] = Upserted(@, h.msg)]
        /\ UNCHANGED <<cache, inserted, last>>
    BY Goes DEF UpsertLatestState, Runs, Done
  <1>2. StoreTypes
    BY DEF StoreInv
  <1>3. /\ h \in Statements /\ Fits(h) /\ h.msg.device \in Device /\ h.msg.ts \in Timestamps
        /\ h = queue[1]
    BY <1>1, <1>2, HeadParts
  <1>4. PICK x \in Statements : /\ Fits(x) /\ next = <<x>> /\ x.op = "insert" /\ x.msg = h.msg
    <2>1. "insert" \in Ops /\ "insert" \in PruneOps /\ h.op \in PruneOps
      BY <1>1 DEF Ops, PruneOps
    <2> QED
      BY <1>3, <2>1, Following
  <1>5. next # << >> /\ next[1] = x
    BY <1>4
  <1> HIDE DEF next
  <1>6. Moves(next)
    BY <1>1, <1>2, <1>4, Moved
  <1>7. PICK d0 \in Device, ts \in Timestamps : d0 = h.msg.device /\ ts = h.msg.ts
    BY <1>3
  <1>8. ts \in Nat /\ latest[d0].ts \in Nat
    BY <1>2, LatestNumbers, TimestampsAreNumbers
  <1>9. /\ \A d \in Device \ {d0} : latest'[d] = latest[d]
        /\ latest'[d0] = IF latest[d0].ts < ts THEN [ts |-> ts, online |-> TRUE] ELSE latest[d0]
        /\ latest' \in [Device -> [ts : {0} \cup Timestamps, online : BOOLEAN]]
    BY <1>1, <1>2, <1>7 DEF StoreTypes, Upserted
  <1>10. latest'[d0].ts \in Nat /\ latest[d0].ts <= latest'[d0].ts /\ ts <= latest'[d0].ts
    BY <1>8, <1>9
  <1>11. \A d \in Device : /\ latest[d].ts \in Nat /\ latest'[d].ts \in Nat
                           /\ latest[d].ts <= latest'[d].ts
    BY <1>2, <1>9, <1>10, LatestNumbers
  <1>12. StoreTypes'
    BY <1>1, <1>2, <1>6, <1>9, FitsMoved DEF StoreTypes
  <1>13. InsertsAreCovered'
    <2>1. next[1].msg.ts <= latest'[next[1].msg.device].ts
      BY <1>4, <1>5, <1>7, <1>10
    <2> QED
      BY <1>2, <1>6, <1>11, <2>1, InsertsMoved DEF StoreInv
  <1>14. LatestCoversCache'
    <2> SUFFICES ASSUME NEW d \in Device, NEW t \in cache[d] PROVE t <= latest'[d].ts
      BY <1>1 DEF LatestCoversCache
    <2>1. t \in Nat /\ t <= latest[d].ts
      BY <1>2, TimestampsAreNumbers DEF StoreInv, LatestCoversCache, StoreTypes
    <2> QED
      BY <1>11, <2>1
  <1>15. CacheWasInserted' /\ CacheKeepsNewest' /\ CutoffsAreOld' /\ DeletesSettle'
    BY <1>1, <1>4, <1>5, <1>6, CacheKept
  <1>18. LastSampleTracked'
    <2>1. RunsOrFails(Head(queue).op = "upsert"
                          => Head(queue).msg.ts <= latest'[Head(queue).msg.device].ts)
      BY <1>1, <1>7, <1>10 DEF RunsOrFails
    <2> QED
      BY <1>2, <1>6, <1>11, <2>1, LastSampleMoved DEF StoreInv
  <1>19. LastStatusTracked'
    <2>1. RunsOrFails(LET g == Head(queue) IN
               g.op = "setOnline" /\ latest'[g.msg.device] # NoRow
                   => latest'[g.msg.device].online = g.msg.online)
      BY <1>1 DEF RunsOrFails
    <2>2. \A d \in Device : ~Writes(1, d) => latest'[d] = latest[d]
      BY <1>1, <1>3, <1>7, <1>9 DEF Writes
    <2>3. next[1].op \notin {"upsert", "setOnline"}
      BY <1>4, <1>5
    <2> QED
      BY <1>2, <1>6, <2>1, <2>2, <2>3, LastStatusMoved DEF StoreInv
  <1> QED
    BY <1>12, <1>13, <1>14, <1>15, <1>18, <1>19 DEF StoreInv

(* A row that enters the cache is covered, and a prune is issued behind it.  *)
LEMMA Inserts ==
    ASSUME StoreInv, InsertTelemetryCache
    PROVE  StoreInv'
  <1> DEFINE h == Head(queue)
             next == <<Statement("select", h.msg, 0)>>
  <1>1. /\ h.op = "insert" /\ queue # << >> /\ queue' = Tail(queue) \o next
        /\ cache' = [cache EXCEPT ![h.msg.device] = @ \cup {h.msg.ts}]
        /\ inserted' = [inserted EXCEPT ![h.msg.device] = @ \cup {h.msg.ts}]
        /\ UNCHANGED <<latest, last>>
    BY Goes DEF InsertTelemetryCache, Runs, Done
  <1>2. StoreTypes
    BY DEF StoreInv
  <1>3. /\ h \in Statements /\ Fits(h) /\ h.msg.device \in Device /\ h.msg.ts \in Timestamps
        /\ h = queue[1] /\ 1 \in Positions
    BY <1>1, <1>2, HeadParts
  <1>4. PICK x \in Statements : /\ Fits(x) /\ next = <<x>> /\ x.op = "select" /\ x.msg = h.msg
    <2>1. "select" \in Ops /\ "select" \in PruneOps /\ h.op \in PruneOps
      BY <1>1 DEF Ops, PruneOps
    <2> QED
      BY <1>3, <2>1, Following
  <1>5. next # << >> /\ next[1] = x
    BY <1>4
  <1> HIDE DEF next
  <1>6. Moves(next)
    BY <1>1, <1>2, <1>4, Moved
  <1>7. PICK d0 \in Device, ts \in Timestamps : d0 = h.msg.device /\ ts = h.msg.ts
    BY <1>3
  <1>8. /\ cache' \in [Device -> SUBSET Timestamps] /\ inserted' \in [Device -> SUBSET Timestamps]
        /\ cache'[d0] = cache[d0] \cup {ts} /\ inserted'[d0] = inserted[d0] \cup {ts}
        /\ \A d \in Device \ {d0} : cache'[d] = cache[d] /\ inserted'[d] = inserted[d]
    BY <1>1, <1>2, <1>7 DEF StoreTypes
  <1>9. StoreTypes'
    BY <1>1, <1>2, <1>6, <1>8, FitsMoved DEF StoreTypes
  <1>10. InsertsAreCovered' /\ LastSampleTracked' /\ LastStatusTracked'
    <2>1. RunsOrFails(Head(queue).op \notin {"upsert", "setOnline"})
      BY <1>1 DEF RunsOrFails
    <2> QED
      BY <1>1, <1>4, <1>5, <1>6, <2>1, RowsKept
  <1>11. LatestCoversCache'
    <2>1. ts <= latest[d0].ts
      BY <1>1, <1>3, <1>7 DEF StoreInv, InsertsAreCovered
    <2> QED
      BY <1>1, <1>8, <2>1 DEF StoreInv, LatestCoversCache
  <1>12. \A d \in Device : /\ IsFiniteSet(inserted'[d]) /\ inserted[d] \subseteq inserted'[d]
                           /\ IsFiniteSet(cache[d]) /\ IsFiniteSet(inserted[d])
    <2>1. \A d \in Device : IsFiniteSet(inserted[d]) /\ IsFiniteSet(cache[d])
      BY FS_Subset DEF StoreInv, CacheWasInserted
    <2>2. IsFiniteSet(inserted[d0] \cup {ts})
      BY <2>1, FS_AddElement
    <2> QED
      BY <1>8, <2>1, <2>2, Zenon
  <1>13. CacheWasInserted'
    BY <1>8, <1>12 DEF StoreInv, CacheWasInserted
  <1>14. CutoffsAreOld'
    BY <1>2, <1>4, <1>5, <1>6, <1>12, CutoffsMoved DEF StoreInv
  <1>15. DeletesSettle'
    <2>1. \A d \in Device : \/ cache'[d] \subseteq cache[d]
                            \/ next # << >> /\ next[1].op = "select" /\ next[1].msg.device = d
      BY <1>4, <1>5, <1>7, <1>8
    <2> QED
      BY <1>2, <1>4, <1>5, <1>6, <1>12, <2>1, DeletesMoved DEF StoreInv
  <1>16. CacheKeepsNewest'
    <2> SUFFICES ASSUME NEW d \in Device, NEW t \in inserted'[d],
                        Cardinality(Newer(inserted'[d], t)) < KeepCount
                 PROVE  t \in cache'[d]
      BY DEF CacheKeepsNewest, Newer
    <2>1. CASE t \in inserted[d]
      <3>1. inserted[d] \in SUBSET inserted'[d] /\ IsFiniteSet(inserted'[d])
            /\ IsFiniteSet(inserted[d])
        BY <1>12
      <3>2. Cardinality(Newer(inserted[d], t)) <= Cardinality(Newer(inserted'[d], t))
        BY <3>1, NewerOfMore
      <3>3. /\ Cardinality(Newer(inserted[d], t)) \in Nat
            /\ Cardinality(Newer(inserted'[d], t)) \in Nat
        BY <3>1, NewerOfFinite
      <3>4. Cardinality(Newer(inserted[d], t)) < KeepCount
        BY <3>2, <3>3, TimestampsAreNumbers
      <3>5. t \in cache[d]
        BY <2>1, <3>4 DEF StoreInv, CacheKeepsNewest
      <3> QED
        BY <1>8, <3>5
    <2>2. CASE t \notin inserted[d]
      BY <1>8, <2>2
    <2> QED
      BY <2>1, <2>2
  <1> QED
    BY <1>9, <1>10, <1>11, <1>13, <1>14, <1>15, <1>16 DEF StoreInv

(* The cutoff a SELECT finds, if any, has keepCount newer rows in the cache. *)
LEMMA Selected ==
    ASSUME StoreInv, SelectCutoff
    PROVE  \E d \in Device : \E c, next :
               /\ d = Head(queue).msg.device /\ Moves(next)
               /\ IF Cardinality(cache[d]) <= KeepCount
                  THEN next = << >>
                  ELSE /\ next # << >> /\ next[1].op = "delete"
                       /\ next[1].msg.device = d /\ next[1].cutoff = c
                       /\ Cardinality(Newer(cache[d], c)) = KeepCount
  <1> DEFINE h == Head(queue)
  <1>1. h.op = "select" /\ queue # << >>
    BY DEF SelectCutoff, Runs
  <1>2. StoreTypes
    BY DEF StoreInv
  <1>3. h \in Statements /\ Fits(h) /\ h.msg.device \in Device /\ h = queue[1]
    BY <1>1, <1>2, HeadParts
  <1>4. PICK d \in Device, c \in {Cutoff(cache[h.msg.device])} : d = h.msg.device
    BY <1>3
  <1>5. PICK rows : rows = cache[d]
    OBVIOUS
  <1>6. IsFiniteSet(rows) /\ rows \subseteq Timestamps
    BY <1>2, <1>5, FS_Subset DEF StoreInv, CacheWasInserted, StoreTypes
  <1>7. IF Cardinality(rows) <= KeepCount
        THEN c = 0
        ELSE c \in rows /\ c # 0 /\ Cardinality(Newer(rows, c)) = KeepCount
    <2>1. c = Cutoff(rows)
      BY <1>4, <1>5
    <2> QED
      BY <1>6, <2>1, CutoffFound
  <1>8. PICK next : /\ next = IF c # 0 THEN <<Statement("delete", h.msg, c)>> ELSE << >>
                    /\ queue' = Tail(queue) \o next
    BY <1>1, <1>4, Goes DEF SelectCutoff, Done
  <1>9. CASE c = 0
    <2>1. next = << >> /\ Cardinality(rows) <= KeepCount
      BY <1>7, <1>8, <1>9
    <2>2. Moves(next)
      BY <1>1, <1>2, <1>8, <2>1, Moved
    <2> QED
      BY <1>4, <1>5, <2>1, <2>2
  <1>10. CASE c # 0
    <2>1. /\ "delete" \in Ops /\ "delete" \in PruneOps /\ h.op \in PruneOps
          /\ c \in {0} \cup Timestamps
      BY <1>1, <1>6, <1>7, <1>10 DEF Ops, PruneOps
    <2>2. PICK x \in Statements : /\ Fits(x) /\ next = <<x>> /\ x.op = "delete"
                                  /\ x.msg = h.msg /\ x.cutoff = c
      BY <1>3, <1>8, <1>10, <2>1, Following
    <2>3. Moves(next)
      BY <1>1, <1>2, <1>8, <2>2, Moved
    <2>4. next # << >> /\ next[1] = x
      BY <2>2
    <2> QED
      BY <1>4, <1>5, <1>7, <1>10, <2>2, <2>3, <2>4
  <1> QED
    BY <1>9, <1>10

(* So it has at least as many among the rows ever inserted.                  *)
LEMMA Selects ==
    ASSUME StoreInv, SelectCutoff
    PROVE  StoreInv'
  <1>1. /\ Head(queue).op = "select" /\ UNCHANGED <<latest, cache, inserted, last>>
    BY DEF SelectCutoff, Runs, tables
  <1>2. StoreTypes
    BY DEF StoreInv
  <1>3. PICK d0 \in Device : \E c, next :
               /\ d0 = Head(queue).msg.device /\ Moves(next)
               /\ IF Cardinality(cache[d0]) <= KeepCount
                  THEN next = << >>
                  ELSE /\ next # << >> /\ next[1].op = "delete"
                       /\ next[1].msg.device = d0 /\ next[1].cutoff = c
                       /\ Cardinality(Newer(cache[d0], c)) = KeepCount
    BY Selected
  <1>4. PICK c, next :
               /\ d0 = Head(queue).msg.device /\ Moves(next)
               /\ IF Cardinality(cache[d0]) <= KeepCount
                  THEN next = << >>
                  ELSE /\ next # << >> /\ next[1].op = "delete"
                       /\ next[1].msg.device = d0 /\ next[1].cutoff = c
                       /\ Cardinality(Newer(cache[d0], c)) = KeepCount
    BY <1>3
  <1>5. /\ IsFiniteSet(cache[d0]) /\ IsFiniteSet(inserted[d0])
        /\ cache[d0] \in SUBSET inserted[d0]
    BY FS_Subset DEF StoreInv, CacheWasInserted
  <1>6. Moves(next)
    BY <1>4
  <1>7. next # << >> => /\ next[1].op = "delete" /\ next[1].msg.device = d0
                         /\ next[1].cutoff = c
                         /\ Cardinality(Newer(cache[d0], c)) = KeepCount
    BY <1>4
  <1>8. StoreTypes'
    BY <1>1, <1>2, <1>6, FitsMoved DEF StoreTypes
  <1>9. InsertsAreCovered' /\ LastSampleTracked' /\ LastStatusTracked'
    <2>1. RunsOrFails(Head(queue).op \notin {"upsert", "setOnline"})
      BY <1>1 DEF RunsOrFails
    <2> QED
      BY <1>1, <1>6, <1>7, <2>1, RowsKept
  <1>10. LatestCoversCache' /\ CacheWasInserted' /\ CacheKeepsNewest'
    BY <1>1 DEF StoreInv, LatestCoversCache, CacheWasInserted, CacheKeepsNewest, Newer
  <1>11. \A d \in Device : /\ IsFiniteSet(inserted'[d]) /\ inserted[d] \subseteq inserted'[d]
                           /\ IsFiniteSet(cache[d]) /\ cache'[d] \subseteq cache[d]
    BY <1>1, FS_Subset DEF StoreInv, CacheWasInserted
  <1>12. next # << >> => /\ Cardinality(Newer(inserted'[d0], c)) >= KeepCount
                         /\ Cardinality(Newer(cache'[d0], c)) <= KeepCount
    <2>1. Cardinality(Newer(cache[d0], c)) <= Cardinality(Newer(inserted[d0], c))
      BY <1>5, NewerOfMore
    <2>2. /\ Cardinality(Newer(cache[d0], c)) \in Nat
          /\ Cardinality(Newer(inserted[d0], c)) \in Nat
      BY <1>5, NewerOfFinite
    <2> QED
      BY <1>1, <1>7, <2>1, <2>2, TimestampsAreNumbers
  <1>13. CutoffsAreOld'
    BY <1>2, <1>6, <1>7, <1>11, <1>12, CutoffsMoved DEF StoreInv
  <1>14. DeletesSettle'
    BY <1>2, <1>6, <1>7, <1>11, <1>12, DeletesMoved DEF StoreInv
  <1> QED
    BY <1>8, <1>9, <1>10, <1>13, <1>14 DEF StoreInv

(* A DELETE spares the newest rows ever inserted.                              *)
LEMMA Deletes ==
    ASSUME StoreInv, DeleteOld
    PROVE  StoreInv'
  <1> DEFINE h == Head(queue)
  <1>1. /\ h.op = "delete" /\ queue # << >> /\ queue' = Tail(queue) \o << >>
        /\ cache' = [cache EXCEPT ![h.msg.device] = Newer(@, h.cutoff)]
        /\ UNCHANGED <<latest, inserted, last>>
    BY Goes DEF DeleteOld, Runs, Done, Deleted
  <1>2. StoreTypes
    BY DEF StoreInv
  <1>3. /\ h \in Statements /\ Fits(h) /\ h.msg.device \in Device /\ h = queue[1]
        /\ 1 \in Positions
    BY <1>1, <1>2, HeadParts
  <1>4. PICK d0 \in Device, c \in Timestamps : d0 = h.msg.device /\ c = h.cutoff
    BY <1>1, <1>3 DEF Fits
  <1>5. Moves(<< >>)
    BY <1>1, <1>2, Moved
  <1>6. /\ cache' \in [Device -> SUBSET Timestamps]
        /\ cache'[d0] = Newer(cache[d0], c)
        /\ \A d \in Device : cache'[d] \subseteq cache[d] /\ (d # d0 => cache'[d] = cache[d])
    BY <1>1, <1>2, <1>4 DEF StoreTypes, Newer
  <1>7. StoreTypes'
    BY <1>1, <1>2, <1>5, <1>6, FitsMoved DEF StoreTypes
  <1>8. InsertsAreCovered' /\ LastSampleTracked' /\ LastStatusTracked'
    <2>1. RunsOrFails(Head(queue).op \notin {"upsert", "setOnline"})
      BY <1>1 DEF RunsOrFails
    <2> QED
      BY <1>1, <1>5, <2>1, RowsKept
  <1>9. LatestCoversCache' /\ CacheWasInserted'
    BY <1>1, <1>6 DEF StoreInv, LatestCoversCache, CacheWasInserted
  <1>10. \A d \in Device : /\ IsFiniteSet(inserted'[d]) /\ inserted[d] \subseteq inserted'[d]
                           /\ IsFiniteSet(cache[d]) /\ cache'[d] \subseteq cache[d]
    BY <1>1, <1>6, FS_Subset DEF StoreInv, CacheWasInserted
  <1>11. CutoffsAreOld' /\ DeletesSettle'
    BY <1>2, <1>5, <1>10, CutoffsMoved, DeletesMoved DEF StoreInv
  <1>12. CacheKeepsNewest'
    <2> SUFFICES ASSUME NEW d \in Device, NEW t \in inserted[d],
                        Cardinality(Newer(inserted[d], t)) < KeepCount
                 PROVE  t \in cache'[d]
      BY <1>1 DEF CacheKeepsNewest, Newer
    <2>1. t \in cache[d]
      BY DEF StoreInv, CacheKeepsNewest
    <2>2. CASE d = d0
      <3>1. PICK rows : rows = inserted[d0]
        OBVIOUS
      <3>2. Cardinality(Newer(rows, c)) >= KeepCount
        BY <1>1, <1>3, <1>4, <3>1 DEF StoreInv, CutoffsAreOld
      <3>3. IsFiniteSet(rows) /\ rows \subseteq Nat /\ t \in Nat /\ c \in Nat
        BY <1>2, <2>2, <3>1, TimestampsAreNumbers DEF StoreInv, CacheWasInserted, StoreTypes
      <3>4. Cardinality(Newer(rows, t)) \in Nat /\ Cardinality(Newer(rows, c)) \in Nat
        BY <3>3, NewerOfFinite
      <3>5. Cardinality(Newer(rows, t)) < KeepCount
        BY <2>2, <3>1
      <3>6. ~(t <= c)
        <4>1. t <= c => Cardinality(Newer(rows, c)) <= Cardinality(Newer(rows, t))
          BY <3>3, NewerThanOlder
        <4> QED
          BY <3>2, <3>4, <3>5, <4>1, TimestampsAreNumbers
      <3>7. t > c
        BY <3>3, <3>6
      <3> QED
        BY <1>6, <2>1, <2>2, <3>7 DEF Newer
    <2>3. CASE d # d0
      BY <1>6, <2>1, <2>3
    <2> QED
      BY <2>2, <2>3
  <1> QED
    BY <1>7, <1>8, <1>9, <1>11, <1>12 DEF StoreInv

(* The flag of a row that exists follows the status.                         *)
LEMMA SetsOnline ==
    ASSUME StoreInv, SetOnline
    PROVE  StoreInv'
  <1> DEFINE h == Head(queue)
             next == <<Statement("setStatus", h.msg, 0)>>
  <1>1. /\ h.op = "setOnline" /\ queue # << >> /\ queue' = Tail(queue) \o next
        /\ latest' = IF latest[h.msg.device] = NoRow THEN latest
                     ELSE [latest EXCEPT ![h.msg.device].online = h.msg.online]
        /\ UNCHANGED <<cache, inserted, last>>
    BY Goes DEF SetOnline, Runs, Done
  <1>2. StoreTypes
    BY DEF StoreInv
  <1>3. /\ h \in Statements /\ Fits(h) /\ h.msg.device \in Device /\ h = queue[1]
        /\ 1 \in Positions
    BY <1>1, <1>2, HeadParts
  <1>4. PICK x \in Statements : Fits(x) /\ next = <<x>> /\ x.op = "setStatus" /\ x.msg = h.msg
    <2>1. "setStatus" \in Ops /\ "setStatus" \notin PruneOps /\ h.op \notin PruneOps
      BY <1>1 DEF Ops, PruneOps
    <2> QED
      BY <1>3, <2>1, Following
  <1>5. next # << >> /\ next[1] = x
    BY <1>4
  <1> HIDE DEF next
  <1>6. Moves(next)
    BY <1>1, <1>2, <1>4, Moved
  <1>7. h.msg.online \in BOOLEAN
    BY <1>1, <1>3, MessageParts DEF Fits, PruneOps
  <1>8. PICK d0 \in Device, on \in BOOLEAN : d0 = h.msg.device /\ on = h.msg.online
    BY <1>3, <1>7
  <1>9. /\ \A d \in Device : latest'[d].ts = latest[d].ts
        /\ \A d \in Device \ {d0} : latest'[d] = latest[d]
        /\ latest'[d0] # NoRow => latest'[d0].online = on
        /\ latest' \in [Device -> [ts : {0} \cup Timestamps, online : BOOLEAN]]
    <2>1. CASE latest[d0] = NoRow
      BY <1>1, <1>2, <1>8, <2>1 DEF StoreTypes
    <2>2. CASE latest[d0] # NoRow
      <3>1. latest' = [latest EXCEPT ![d0] = [@ EXCEPT !.online = on]]
        BY <1>1, <1>8, <2>2
      <3>2. latest[d0] \in [ts : {0} \cup Timestamps, online : BOOLEAN]
        BY <1>2 DEF StoreTypes
      <3>3. PICK row \in [ts : {0} \cup Timestamps, online : BOOLEAN] :
                row = [latest[d0] EXCEPT !.online = on]
        BY <3>2
      <3>4. row.online = on /\ row.ts = latest[d0].ts
        BY <3>2, <3>3
      <3>5. /\ latest'[d0] = row /\ \A d \in Device \ {d0} : latest'[d] = latest[d]
            /\ latest' \in [Device -> [ts : {0} \cup Timestamps, online : BOOLEAN]]
        BY <1>2, <3>1, <3>3 DEF StoreTypes
      <3> QED
        BY <3>4, <3>5
    <2> QED
      BY <2>1, <2>2
  <1>10. \A d \in Device : /\ latest[d].ts \in Nat /\ latest'[d].ts \in Nat
                           /\ latest[d].ts <= latest'[d].ts
    BY <1>2, <1>9, LatestNumbers
  <1>11. StoreTypes'
    BY <1>1, <1>2, <1>6, <1>9, FitsMoved DEF StoreTypes
  <1>12. InsertsAreCovered'
    BY <1>2, <1>4, <1>5, <1>6, <1>10, InsertsMoved DEF StoreInv
  <1>13. LatestCoversCache'
    BY <1>1, <1>9 DEF StoreInv, LatestCoversCache
  <1>14. CacheWasInserted' /\ CacheKeepsNewest' /\ CutoffsAreOld' /\ DeletesSettle'
    BY <1>1, <1>4, <1>5, <1>6, CacheKept
  <1>15. LastSampleTracked'
    <2>1. RunsOrFails(Head(queue).op = "upsert"
                          => Head(queue).msg.ts <= latest'[Head(queue).msg.device].ts)
      BY <1>1 DEF RunsOrFails
    <2> QED
      BY <1>2, <1>6, <1>10, <2>1, LastSampleMoved DEF StoreInv
  <1>16. LastStatusTracked'
    <2>1. RunsOrFails(LET g == Head(queue) IN
               g.op = "setOnline" /\ latest'[g.msg.device] # NoRow
                   => latest'[g.msg.device].online = g.msg.online)
      BY <1>1, <1>8, <1>9 DEF RunsOrFails
    <2>2. \A d \in Device : ~Writes(1, d) => latest'[d] = latest[d]
      BY <1>1, <1>3, <1>8, <1>9 DEF Writes
    <2>3. next[1].op \notin {"upsert", "setOnline"}
      BY <1>4, <1>5
    <2> QED
      BY <1>2, <1>6, <2>1, <2>2, <2>3, LastStatusMoved DEF StoreInv
  <1> QED
    BY <1>11, <1>12, <1>13, <1>14, <1>15, <1>16 DEF StoreInv

(* A statement that writes neither table, or none because it fails.            *)
LEMMA Passes ==
    ASSUME StoreInv, queue # << >>, queue' = Tail(queue) \o << >>,
           UNCHANGED <<latest, cache, inserted>>,
           \/ last' = last /\ Head(queue).op = "setStatus"
           \/ last' = [last EXCEPT ![Head(queue).msg.device] = NoMessage]
    PROVE  StoreInv'
  <1>1. StoreTypes
    BY DEF StoreInv
  <1>2. Moves(<< >>)
    BY <1>1, Moved
  <1>3. last' \in [Device -> Telemetry \cup Status \cup {NoMessage}]
    BY <1>1 DEF StoreTypes
  <1>4. StoreTypes'
    BY <1>1, <1>2, <1>3, FitsMoved DEF StoreTypes
  <1>5. InsertsAreCovered' /\ LastSampleTracked' /\ LastStatusTracked'
    <2>1. RunsOrFails(Head(queue).op \notin {"upsert", "setOnline"})
      BY DEF RunsOrFails
    <2> QED
      BY <1>2, <2>1, RowsKept
  <1>6. CacheWasInserted' /\ CacheKeepsNewest' /\ CutoffsAreOld' /\ DeletesSettle'
    BY <1>2, CacheKept
  <1>7. LatestCoversCache'
    BY DEF StoreInv, LatestCoversCache
  <1> QED
    BY <1>4, <1>5, <1>6, <1>7 DEF StoreInv

(* A restart empties the queue and forgets the last messages.                *)
LEMMA Restarts ==
    ASSUME StoreInv, AppRestarts
    PROVE  StoreInv'
  <1>1. /\ queue' = << >> /\ last' = [d \in Device |-> NoMessage]
        /\ UNCHANGED <<latest, cache, inserted>> /\ Positions' = {}
    BY DEF AppRestarts, tables, Positions
  <1>2. StoreTypes'
    <2>1. << >> \in Seq(Statements)
      OBVIOUS
    <2>2. last' \in [Device -> Telemetry \cup Status \cup {NoMessage}]
      BY <1>1
    <2> QED
      BY <1>1, <2>1, <2>2 DEF StoreInv, StoreTypes
  <1>3. InsertsAreCovered' /\ CutoffsAreOld' /\ DeletesSettle'
    BY <1>1 DEF InsertsAreCovered, CutoffsAreOld, DeletesSettle
  <1>4. LatestCoversCache' /\ CacheWasInserted' /\ CacheKeepsNewest'
    BY <1>1 DEF StoreInv, LatestCoversCache, CacheWasInserted, CacheKeepsNewest, Newer
  <1>5. LastSampleTracked' /\ LastStatusTracked'
    BY <1>1, NoMessageIsNone DEF LastSampleTracked, LastStatusTracked
  <1> QED
    BY <1>2, <1>3, <1>4, <1>5 DEF StoreInv

(* Every step preserves the invariant.                                       *)
LEMMA StoreSteps == StoreInv /\ [StoreNext]_storeVars => StoreInv'
  <1> SUFFICES ASSUME StoreInv, [StoreNext]_storeVars PROVE StoreInv'
    OBVIOUS
  <1>1. ASSUME NEW msg \in Telemetry \cup Status, Handle(msg) PROVE StoreInv'
    BY <1>1, Handled
  <1>2. ASSUME SetStatus PROVE StoreInv'
    <2>1. /\ queue # << >> /\ Head(queue).op = "setStatus" /\ last' = last
          /\ queue' = Tail(queue) \o << >> /\ UNCHANGED <<latest, cache, inserted>>
      BY <1>2, Goes DEF SetStatus, Runs, Done
    <2> QED
      BY <2>1, Passes
  <1>3. ASSUME StatementFails PROVE StoreInv'
    <2>1. queue \in Seq(Statements) /\ queue # << >>
      BY <1>3 DEF StatementFails, StoreInv, StoreTypes
    <2>2. Tail(queue) \in Seq(Statements)
      BY <2>1
    <2>3. Tail(queue) \o << >> = Tail(queue)
      BY <2>2
    <2>4. /\ queue' = Tail(queue) \o << >> /\ UNCHANGED <<latest, cache, inserted>>
          /\ last' = [last EXCEPT ![Head(queue).msg.device] = NoMessage]
      BY <1>3, <2>3 DEF StatementFails, tables
    <2> QED
      BY <2>1, <2>4, Passes
  <1>4. ASSUME UNCHANGED storeVars PROVE StoreInv'
    BY <1>4 DEF storeVars, tables, StoreInv, StoreTypes, Positions, InsertsAreCovered,
                LatestCoversCache, CacheWasInserted, CutoffsAreOld, CacheKeepsNewest, Newer,
                DeletesSettle, PruneFollows, LastSampleTracked, LastStatusTracked,
                StatusToCome, StatusShown, Writes
  <1> QED
    BY <1>1, <1>2, <1>3, <1>4, Upserts, Inserts, Selects, Deletes, SetsOnline, Restarts
       DEF StoreNext

(* The inductive invariant holds in every state.                               *)
THEOREM StoreInvariant == StoreSpec => []StoreInv
  BY StoreStarts, StoreSteps, PTL DEF StoreSpec

(* No row of the cache is newer than the latest row, for any set of timestamps *)
(* and through failed statements and restarts.                                 *)
THEOREM LatestCovers == StoreSpec => []LatestCoversCache
  <1>1. StoreInv => LatestCoversCache
    BY DEF StoreInv
  <1> QED
    BY <1>1, StoreInvariant, PTL

(* Pruning with a cutoff read earlier spares the newest keepCount rows ever    *)
(* inserted.                                                                   *)
THEOREM NewestRowsStay == StoreSpec => []CacheKeepsNewest
  <1>1. StoreInv => CacheKeepsNewest
    BY DEF StoreInv
  <1> QED
    BY <1>1, StoreInvariant, PTL

(* When no statement is left, the tables show each device's last message.      *)
THEOREM LastMessagesShow == StoreSpec => []LastMessageShows
  <1>1. StoreInv => LastMessageShows
    <2> SUFFICES ASSUME StoreInv, queue = << >>, NEW d \in Device
                 PROVE  /\ last[d] \in Status /\ latest[d] # NoRow
                               => latest[d].online = last[d].online
                        /\ last[d] \in Telemetry => last[d].ts <= latest[d].ts
      BY DEF LastMessageShows
    <2>1. Positions = {}
      BY DEF Positions
    <2> QED
      BY <2>1 DEF StoreInv, LastSampleTracked, LastStatusTracked, StatusToCome, StatusShown
  <1> QED
    BY <1>1, StoreInvariant, PTL

(* A prune that is the last statement leaves at most keepCount rows.           *)
THEOREM PrunesSettle == StoreSpec => PruneSettles
  <1>1. ASSUME StoreInv, SelectCutoff, queue' = << >>
        PROVE  Cardinality(cache'[Head(queue).msg.device]) <= KeepCount
    <2>1. PICK d \in Device : \E c, next :
               /\ d = Head(queue).msg.device /\ Moves(next)
               /\ IF Cardinality(cache[d]) <= KeepCount THEN next = << >> ELSE next # << >>
      BY <1>1, Selected
    <2>2. Positions' = {} /\ cache' = cache
      BY <1>1 DEF Positions, SelectCutoff, tables
    <2>3. PICK next :
               /\ d = Head(queue).msg.device /\ Moves(next)
               /\ IF Cardinality(cache[d]) <= KeepCount THEN next = << >> ELSE next # << >>
      BY <2>1
    <2>4. next = << >>
      BY <2>2, <2>3 DEF Moves
    <2> QED
      BY <2>2, <2>3, <2>4
  <1>2. ASSUME StoreInv, DeleteOld, queue' = << >>
        PROVE  Cardinality(cache'[Head(queue).msg.device]) <= KeepCount
    <2> DEFINE h == Head(queue)
    <2>1. /\ h.op = "delete" /\ queue # << >> /\ queue' = Tail(queue) \o << >>
          /\ cache' = [cache EXCEPT ![h.msg.device] = Newer(@, h.cutoff)]
      BY <1>2, Goes DEF DeleteOld, Runs, Done, Deleted
    <2>2. StoreTypes
      BY <1>2 DEF StoreInv
    <2>3. h.msg.device \in Device /\ h = queue[1] /\ 1 \in Positions
      BY <2>1, <2>2, HeadParts
    <2>4. Moves(<< >>)
      BY <2>1, <2>2, Moved
    <2>5. Positions' = {}
      BY <1>2 DEF Positions
    <2>6. ~PruneFollows(1)
      BY <2>4, <2>5 DEF PruneFollows, Moves
    <2>7. Cardinality(Newer(cache[h.msg.device], h.cutoff)) <= KeepCount
      BY <1>2, <2>1, <2>3, <2>6 DEF StoreInv, DeletesSettle
    <2>8. cache'[h.msg.device] = Newer(cache[h.msg.device], h.cutoff)
      BY <2>1, <2>2, <2>3 DEF StoreTypes
    <2> QED
      BY <2>7, <2>8
  <1>3. StoreInv => [(SelectCutoff \/ DeleteOld) /\ queue' = << >>
                         => Cardinality(cache'[Head(queue).msg.device]) <= KeepCount]_storeVars
    BY <1>1, <1>2
  <1> QED
    BY <1>3, StoreInvariant, PTL DEF PruneSettles
================================================================================
