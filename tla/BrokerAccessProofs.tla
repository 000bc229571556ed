--------------------------- MODULE BrokerAccessProofs ---------------------------
(* Proofs about the broker's access control, for any users, devices and lives  *)
(* of tokens and cache entries.                                                *)
EXTENDS BrokerAccess, TLAPS

(* An app's token lists devices of its user only, and so does what the cache   *)
(* remembers about it: both outlive the moment they were made.                 *)
TokensAreClaims ==
    \A u \in User :
        /\ token[u].scope \in {"none", "app"}
        /\ \A d \in token[u].devices : <<u, d>> \in owns
        /\ \A t \in Topic : permit[u][t] >= 0 => <<u, DeviceOf(t)>> \in owns

(* While the worker is connected, the cache remembers every topic that has had *)
(* a message within its life, or the topic has lapsed.                         *)
CacheFollowsRhythm ==
    /\ decode_token(token[Worker]) => token[Worker].scope = "backend"
    /\ Worker \in online =>
         /\ backend = "serving"
         /\ \A t \in Topic \ lapsed :
              /\ quiet[t] # Silence => permit[Worker][t] = CacheLife - quiet[t]
              /\ quiet[t] = Silence => decode_token(token[Worker])

(* A placeholder stays, and only where the ingestor came first.                *)
PlaceholdersStay ==
    \A d \in Device : (hash[d] = "unprovisioned") <=> d \in heardFirst

RowsAreKept == PlaceholdersStay /\ PrintedCodeWorks

IInv == TypeOK /\ RowsAreKept /\ TokensAreClaims /\ CacheFollowsRhythm

--------------------------------------------------------------------------------
(* Types.                                                                      *)

LEMMA Clients ==
    /\ Worker \in Client /\ Worker \in Reader /\ Worker \notin User /\ Worker \notin Device
    /\ \A u \in User : u \in Client /\ u \in Reader /\ u \notin Device /\ u # Worker
    /\ \A d \in Device : d \in Client /\ d # Worker
  BY AccessAssumption DEF Client, Reader

LEMMA TokenTypes ==
    /\ NoToken \in Token /\ create_backend_token \in Token
    /\ \A d \in Device : create_device_jwt(d) \in Token
    /\ \A u, S : S \subseteq Device => create_mqtt_token(u, S) \in Token
  BY AccessAssumption
  DEF Token, NoToken, create_backend_token, create_device_jwt, create_mqtt_token

LEMMA AgedType ==
    ASSUME NEW t \in Token
    PROVE  /\ Aged(t) \in Token
           /\ Aged(t).scope = t.scope /\ Aged(t).devices = t.devices
           /\ Aged(t).left <= t.left
  BY AccessAssumption DEF Token, Aged

LEMMA TopicParts == \A t \in Topic : DeviceOf(t) \in Device /\ KindOf(t) \in Kind
  BY DEF Topic, DeviceOf, KindOf

LEMMA NoPermitType == NoPermit \in [Topic -> -1 .. CacheLife]
  BY AccessAssumption DEF NoPermit

LEMMA RenewedType ==
    ASSUME TypeOK, NEW c \in Reader, NEW topics
    PROVE  Renewed(c, topics) \in [Topic -> -1 .. CacheLife]
  BY AccessAssumption DEF TypeOK, Renewed

LEMMA RecordedType ==
    ASSUME NEW topics \in SUBSET Topic
    PROVE  Recorded(topics) \subseteq Device
  BY TopicParts DEF Recorded

LEMMA InitType == Init => TypeOK
  BY TokenTypes, NoPermitType, AccessAssumption
  DEF Init, RegistryInit, TypeOK, Silence

LEMMA TablesType ==
    ASSUME TypeOK, Tables
    PROVE  TypeOK'
  <1> USE DEF TypeOK, access, process, observer, Tables
  <1>1. CASE SeedInserts
    BY <1>1 DEF SeedInserts
  <1>2. CASE \E d \in Device : SeedSelects(d)
    BY <1>2 DEF SeedSelects
  <1>3. CASE \E u \in User, d \in Device, code \in Code : claim_device(u, d, code)
    BY <1>3 DEF claim_device
  <1> QED
    BY <1>1, <1>2, <1>3 DEF Seed

LEMMA WorkerType ==
    ASSUME TypeOK,
           BackendStarts \/ BackendServes \/ BackendStops \/ WorkerDials
             \/ LinkBreaks \/ LinkReturns \/ Flush
    PROVE  TypeOK'
  <1> USE Clients, TokenTypes, NoPermitType
      DEF TypeOK, access, process, observer, registry
  <1>1. CASE BackendStarts
    BY <1>1 DEF BackendStarts, RefreshJwt
  <1>2. CASE BackendServes
    BY <1>2 DEF BackendServes
  <1>3. CASE BackendStops
    BY <1>3, AccessAssumption DEF BackendStops, ObserverRests, Silence
  <1>4. CASE WorkerConnects
    <2>1. PICK sent \in SUBSET Retained :
            /\ permit' = [permit EXCEPT ![Worker] = Renewed(Worker, sent)]
            /\ queue' = queue \cup Recorded(sent)
            /\ quiet' = [t \in Topic |-> IF t \in sent THEN 0 ELSE Silence]
      BY <1>4 DEF WorkerConnects
    <2>2. permit' \in [Reader -> [Topic -> -1 .. CacheLife]]
      BY <2>1, RenewedType
    <2>3. Recorded(sent) \subseteq Device
      BY RecordedType DEF Retained
    <2>4. quiet' \in [Topic -> 0 .. Silence]
      BY <2>1, AccessAssumption DEF Silence
    <2> QED
      BY <1>4, <2>1, <2>2, <2>3, <2>4 DEF WorkerConnects
  <1>5. CASE WorkerRefused
    BY <1>5 DEF WorkerRefused, RefreshJwt
  <1>6. CASE LinkBreaks
    <2>1. token' \in [Client -> Token]
      BY <1>6 DEF LinkBreaks
    <2>2. permit' \in [Reader -> [Topic -> -1 .. CacheLife]]
      BY <1>6 DEF LinkBreaks
    <2>3. subs' \in [User -> SUBSET Device] /\ online' \subseteq Client
      BY <1>6 DEF LinkBreaks
    <2>4. quiet' \in [Topic -> 0 .. Silence] /\ lapsed' \subseteq Topic
      BY <1>6, AccessAssumption DEF LinkBreaks, ObserverRests, Silence
    <2> QED
      BY <1>6, <2>1, <2>2, <2>3, <2>4 DEF LinkBreaks
  <1>7. CASE LinkReturns
    BY <1>7 DEF LinkReturns
  <1>8. CASE Flush
    BY <1>8 DEF Flush, AutoRegister, Unknown
  <1> QED
    BY <1>1, <1>2, <1>3, <1>4, <1>5, <1>6, <1>7, <1>8 DEF WorkerDials

LEMMA DeviceType ==
    ASSUME TypeOK, NEW d \in Device,
           FlashNvs(d) \/ provision(d) \/ DeviceConnects(d)
    PROVE  TypeOK'
  <1> USE Clients, TokenTypes DEF TypeOK, access, process, observer, registry
  <1>1. CASE FlashNvs(d)
    BY <1>1 DEF FlashNvs
  <1>2. CASE provision(d)
    BY <1>2 DEF provision
  <1>3. CASE DeviceConnects(d)
    BY <1>3 DEF DeviceConnects
  <1> QED
    BY <1>1, <1>2, <1>3

LEMMA PublishType ==
    ASSUME TypeOK, NEW t \in Topic, Publish(t)
    PROVE  TypeOK'
  <1>1. permit' \in [Reader -> [Topic -> -1 .. CacheLife]]
    <2>1. \A c \in Reader : Renewed(c, {t}) \in [Topic -> -1 .. CacheLife]
      BY RenewedType
    <2> QED
      BY <2>1 DEF TypeOK, Publish
  <1>2. quiet' \in [Topic -> 0 .. Silence]
    BY AccessAssumption DEF TypeOK, Publish, Silence
  <1>3. queue' \subseteq Device
    BY RecordedType DEF TypeOK, Publish
  <1> QED
    BY <1>1, <1>2, <1>3 DEF TypeOK, Publish, registry

LEMMA AppType ==
    ASSUME TypeOK, NEW u \in User,
           get_mqtt_credentials(u) \/ AppConnects(u) \/ AppLeaves(u)
    PROVE  TypeOK'
  <1> USE Clients, TokenTypes, NoPermitType DEF TypeOK, process, observer, registry
  <1>1. CASE get_mqtt_credentials(u)
    BY <1>1 DEF get_mqtt_credentials, DevicesOf
  <1>2. CASE AppConnects(u)
    <2>1. PICK sent : permit' = [permit EXCEPT ![u] = Renewed(u, sent)]
      BY <1>2 DEF AppConnects
    <2>2. permit' \in [Reader -> [Topic -> -1 .. CacheLife]]
      BY <2>1, RenewedType
    <2>3. subs' \in [User -> SUBSET Device]
      BY <1>2 DEF AppConnects
    <2> QED
      BY <1>2, <2>2, <2>3 DEF AppConnects
  <1>3. CASE AppLeaves(u)
    BY <1>3 DEF AppLeaves
  <1> QED
    BY <1>1, <1>2, <1>3

LEMMA TickType ==
    ASSUME TypeOK, Tick
    PROVE  TypeOK'
  <1>1. token' \in [Client -> Token]
    BY AgedType DEF TypeOK, Tick
  <1>2. permit' \in [Reader -> [Topic -> -1 .. CacheLife]]
    <2>1. ASSUME NEW c \in Reader, NEW t \in Topic
          PROVE  (IF permit[c][t] = -1 THEN -1 ELSE permit[c][t] - 1) \in -1 .. CacheLife
      <3>1. permit[c][t] \in -1 .. CacheLife
        BY DEF TypeOK
      <3> QED
        BY <3>1, AccessAssumption
    <2> QED
      BY <2>1, Zenon DEF Tick
  <1>3. quiet' \in [Topic -> 0 .. Silence]
    <2>1. ASSUME NEW t \in Topic
          PROVE  (IF quiet[t] = Silence THEN Silence ELSE quiet[t] + 1) \in 0 .. Silence
      <3>1. quiet[t] \in 0 .. Silence
        BY DEF TypeOK
      <3> QED
        BY <3>1, AccessAssumption DEF Silence
    <2> QED
      BY <2>1, Zenon DEF Tick
  <1>4. lapsed' \subseteq Topic
    BY DEF TypeOK, Tick
  <1> QED
    BY <1>1, <1>2, <1>3, <1>4 DEF TypeOK, Tick, registry, process

LEMMA StepType == TypeOK /\ [Next]_vars => TypeOK'
  <1> SUFFICES ASSUME TypeOK, [Next]_vars PROVE TypeOK'
    OBVIOUS
  <1>1. CASE UNCHANGED vars
    BY <1>1 DEF vars, registry, access, process, observer, TypeOK
  <1> QED
    BY <1>1, TablesType, WorkerType, DeviceType, PublishType, AppType, TickType DEF Next

--------------------------------------------------------------------------------
(* The tables.                                                                 *)

LEMMA InitPrinted == Init => RowsAreKept
  BY DEF Init, RegistryInit, RowsAreKept, PlaceholdersStay, PrintedCodeWorks

LEMMA TablesPrinted ==
    ASSUME TypeOK, RowsAreKept, Tables
    PROVE  RowsAreKept'
  <1> USE DEF RowsAreKept, PlaceholdersStay, PrintedCodeWorks, CodeIsAccepted,
              generate_pairing_code
  <1>1. CASE SeedInserts
    BY <1>1 DEF SeedInserts, TypeOK
  <1>2. CASE \E d \in Device : SeedSelects(d)
    BY <1>2 DEF SeedSelects, TypeOK
  <1>3. CASE \E u \in User, d \in Device, code \in Code : claim_device(u, d, code)
    BY <1>3 DEF claim_device, TypeOK, Code, pairingCode
  <1> QED
    BY <1>1, <1>2, <1>3 DEF Tables, Seed

LEMMA FlushPrinted ==
    ASSUME TypeOK, RowsAreKept, Flush
    PROVE  RowsAreKept'
  BY DEF TypeOK, Flush, AutoRegister, Unknown, RowsAreKept, PlaceholdersStay,
         PrintedCodeWorks, CodeIsAccepted, generate_pairing_code

(* Every other step leaves the tables alone.                                   *)
LEMMA OthersKeepTables == [Next]_vars => Tables \/ Flush \/ UNCHANGED registry
  <1> SUFFICES ASSUME [Next]_vars PROVE Tables \/ Flush \/ UNCHANGED registry
    OBVIOUS
  <1>1. CASE UNCHANGED vars
    BY <1>1 DEF vars
  <1>2. CASE BackendStarts \/ BackendServes \/ BackendStops \/ WorkerDials
               \/ LinkBreaks \/ LinkReturns \/ Tick
    BY <1>2 DEF BackendStarts, BackendServes, BackendStops, WorkerDials, WorkerConnects,
                WorkerRefused, LinkBreaks, LinkReturns, Tick
  <1>3. CASE (\E d \in Device : FlashNvs(d) \/ provision(d) \/ DeviceConnects(d))
               \/ \E t \in Topic : Publish(t)
    BY <1>3 DEF FlashNvs, provision, DeviceConnects, Publish
  <1>4. CASE \E u \in User : get_mqtt_credentials(u) \/ AppConnects(u) \/ AppLeaves(u)
    BY <1>4 DEF get_mqtt_credentials, AppConnects, AppLeaves
  <1> QED
    BY <1>1, <1>2, <1>3, <1>4 DEF Next

LEMMA StepPrinted == TypeOK /\ RowsAreKept /\ [Next]_vars => RowsAreKept'
  <1> SUFFICES ASSUME TypeOK, RowsAreKept, [Next]_vars PROVE RowsAreKept'
    OBVIOUS
  <1>1. CASE UNCHANGED registry
    BY <1>1 DEF registry, RowsAreKept, PlaceholdersStay, PrintedCodeWorks, CodeIsAccepted
  <1> QED
    BY <1>1, TablesPrinted, FlushPrinted, OthersKeepTables

--------------------------------------------------------------------------------
(* The apps.                                                                   *)

LEMMA InitClaims == Init => TokensAreClaims
  BY Clients DEF Init, TokensAreClaims, NoToken, NoPermit

(* No step takes a claim away.                                                 *)
LEMMA ClaimsGrow == [Next]_vars => owns \subseteq owns'
  BY OthersKeepTables
  DEF Tables, Seed, SeedInserts, SeedSelects, claim_device, Flush, AutoRegister, registry

LEMMA FetchClaims ==
    ASSUME TypeOK, TokensAreClaims, NEW u \in User, get_mqtt_credentials(u)
    PROVE  TokensAreClaims'
  <1>1. owns' = owns
    BY DEF get_mqtt_credentials, registry
  <1>2. /\ token'[u].scope = "app" /\ token'[u].devices = DevicesOf(u)
        /\ permit'[u] = NoPermit
    BY Clients DEF TypeOK, get_mqtt_credentials, create_mqtt_token
  <1>3. \A v \in User : v # u => token'[v] = token[v] /\ permit'[v] = permit[v]
    BY Clients DEF TypeOK, get_mqtt_credentials
  <1> QED
    BY <1>1, <1>2, <1>3 DEF TokensAreClaims, DevicesOf, NoPermit

LEMMA ConnectClaims ==
    ASSUME TypeOK, TokensAreClaims, NEW u \in User, AppConnects(u)
    PROVE  TokensAreClaims'
  <1>1. owns' = owns /\ token' = token
    BY DEF AppConnects, registry
  <1>2. PICK sent : /\ sent \subseteq {t \in Retained : DeviceOf(t) \in subs'[u]}
                    /\ permit' = [permit EXCEPT ![u] = Renewed(u, sent)]
    BY DEF AppConnects
  <1>3. \A d \in subs'[u] : <<u, d>> \in owns
    BY DEF TypeOK, TokensAreClaims, AppConnects, mqtt_acl
  <1>4. ASSUME NEW v \in User, NEW t \in Topic, permit'[v][t] >= 0
        PROVE  <<v, DeviceOf(t)>> \in owns
    <2>1. CASE v = u /\ t \in sent
      BY <1>2, <1>3, <2>1
    <2>2. CASE ~(v = u /\ t \in sent)
      <3>1. permit'[v][t] = permit[v][t]
        BY <1>2, <2>2, Clients DEF TypeOK, Renewed
      <3> QED
        BY <1>4, <3>1 DEF TokensAreClaims
    <2> QED
      BY <2>1, <2>2
  <1> QED
    BY <1>1, <1>4 DEF TokensAreClaims

LEMMA PublishClaims ==
    ASSUME TypeOK, TokensAreClaims, NEW t \in Topic, Publish(t)
    PROVE  TokensAreClaims'
  <1>1. owns' = owns /\ token' = token
    BY DEF Publish, registry
  <1>2. ASSUME NEW u \in User, NEW s \in Topic, permit'[u][s] >= 0
        PROVE  <<u, DeviceOf(s)>> \in owns
    <2>1. CASE u \in Readers(t) /\ s = t
      BY <2>1 DEF Readers, MayRead, mqtt_acl, TokensAreClaims
    <2>2. CASE ~(u \in Readers(t) /\ s = t)
      <3>1. permit'[u][s] = permit[u][s]
        BY <2>2, Clients DEF Publish, Renewed
      <3> QED
        BY <1>2, <3>1 DEF TokensAreClaims
    <2> QED
      BY <2>1, <2>2
  <1> QED
    BY <1>1, <1>2 DEF TokensAreClaims

LEMMA TickClaims ==
    ASSUME TypeOK, TokensAreClaims, Tick
    PROVE  TokensAreClaims'
  <1>1. owns' = owns
    BY DEF Tick, registry
  <1>2. \A u \in User : token'[u].scope = token[u].scope /\ token'[u].devices = token[u].devices
    BY Clients, AgedType DEF TypeOK, Tick
  <1>3. ASSUME NEW u \in User, NEW t \in Topic, permit'[u][t] >= 0
        PROVE  permit[u][t] >= 0
    <2>1. /\ permit'[u][t] = IF permit[u][t] = -1 THEN -1 ELSE permit[u][t] - 1
          /\ permit[u][t] \in -1 .. CacheLife
      BY Clients DEF TypeOK, Tick
    <2> QED
      BY <1>3, <2>1, AccessAssumption
  <1> QED
    BY <1>1, <1>2, <1>3 DEF TokensAreClaims

LEMMA StepClaims == TypeOK /\ TokensAreClaims /\ [Next]_vars => TokensAreClaims'
  <1> SUFFICES ASSUME TypeOK, TokensAreClaims, [Next]_vars PROVE TokensAreClaims'
    OBVIOUS
  <1>1. ASSUME \A u \in User : token'[u] = token[u] /\ (permit'[u] = permit[u] \/ permit'[u] = NoPermit)
        PROVE  TokensAreClaims'
    BY <1>1, ClaimsGrow DEF TokensAreClaims, NoPermit
  <1>2. CASE UNCHANGED <<token, permit>>
    BY <1>1, <1>2
  <1>3. CASE BackendStarts \/ BackendStops \/ WorkerRefused \/ WorkerConnects \/ LinkBreaks
    BY <1>1, <1>3, Clients
    DEF TypeOK, BackendStarts, BackendStops, WorkerRefused, WorkerConnects, LinkBreaks,
        RefreshJwt
  <1>4. CASE \E d \in Device : FlashNvs(d) \/ provision(d)
    BY <1>1, <1>4, Clients DEF TypeOK, FlashNvs, provision
  <1>5. CASE BackendServes \/ LinkReturns \/ Flush \/ Tables \/ UNCHANGED vars
    BY <1>2, <1>5 DEF BackendServes, LinkReturns, Flush, Tables, vars, access
  <1>6. CASE \E d \in Device : DeviceConnects(d)
    BY <1>2, <1>6 DEF DeviceConnects
  <1>7. CASE \E u \in User : AppLeaves(u)
    BY <1>2, <1>7 DEF AppLeaves
  <1> QED
    BY <1>3, <1>4, <1>5, <1>6, <1>7, FetchClaims, ConnectClaims, PublishClaims, TickClaims
    DEF Next, WorkerDials

LEMMA ClaimsImplyDelivered == TokensAreClaims => DeliveredIsClaimed
  BY DEF TokensAreClaims, DeliveredIsClaimed, MayRead, mqtt_acl

--------------------------------------------------------------------------------
(* The worker.                                                                 *)

LEMMA InitCache == Init => CacheFollowsRhythm
  BY Clients DEF Init, CacheFollowsRhythm, NoToken, decode_token

(* What the steps that come and go with the worker's connection do.            *)
LEMMA ConnectionCache ==
    ASSUME TypeOK, CacheFollowsRhythm,
           BackendStarts \/ BackendServes \/ BackendStops \/ WorkerDials \/ LinkBreaks
    PROVE  CacheFollowsRhythm'
  <1> USE Clients DEF TypeOK, CacheFollowsRhythm, decode_token, create_backend_token
  <1>1. CASE BackendStarts
    BY <1>1 DEF BackendStarts, RefreshJwt
  <1>2. CASE BackendServes
    BY <1>2 DEF BackendServes, access, observer
  <1>3. CASE BackendStops
    BY <1>3 DEF BackendStops, NoToken
  <1>4. CASE WorkerConnects
    <2>1. PICK sent \in SUBSET Retained :
            /\ permit' = [permit EXCEPT ![Worker] = Renewed(Worker, sent)]
            /\ quiet' = [t \in Topic |-> IF t \in sent THEN 0 ELSE Silence]
      BY <1>4 DEF WorkerConnects
    <2>2. token' = token /\ decode_token(token[Worker]) /\ backend' = "serving"
      BY <1>4 DEF WorkerConnects, mqtt_auth
    <2>3. ASSUME NEW t \in Topic, quiet'[t] # Silence
          PROVE  permit'[Worker][t] = CacheLife - quiet'[t]
      BY <2>1, <2>3, AccessAssumption DEF Renewed, Silence
    <2> QED
      BY <2>2, <2>3
  <1>5. CASE WorkerRefused
    BY <1>5 DEF WorkerRefused, WorkerDialling, RefreshJwt, process, observer
  <1>6. CASE LinkBreaks
    BY <1>6 DEF LinkBreaks
  <1> QED
    BY <1>1, <1>2, <1>3, <1>4, <1>5, <1>6 DEF WorkerDials

LEMMA PublishCache ==
    ASSUME TypeOK, CacheFollowsRhythm, NEW t \in Topic, Publish(t)
    PROVE  CacheFollowsRhythm'
  <1>1. /\ token' = token /\ online' = online /\ backend' = backend /\ lapsed' = lapsed
        /\ Worker \in online => quiet' = [quiet EXCEPT ![t] = 0]
    BY DEF Publish
  <1>2. permit'[Worker] = IF Worker \in Readers(t) THEN Renewed(Worker, {t}) ELSE permit[Worker]
    BY Clients DEF Publish
  <1>3. ASSUME Worker \in online, NEW s \in Topic \ lapsed
        PROVE  /\ quiet'[s] # Silence => permit'[Worker][s] = CacheLife - quiet'[s]
               /\ quiet'[s] = Silence => decode_token(token[Worker])
    <2>1. quiet[s] \in 0 .. Silence /\ quiet \in [Topic -> 0 .. Silence]
      BY DEF TypeOK
    <2>2. CASE s # t
      <3>1. quiet'[s] = quiet[s] /\ permit'[Worker][s] = permit[Worker][s]
        BY <1>1, <1>2, <1>3, <2>1, <2>2 DEF Renewed
      <3> QED
        BY <1>3, <3>1 DEF CacheFollowsRhythm
    <2>3. CASE s = t
      <3>1. MayRead(Worker, t)
        <4>1. CASE quiet[t] = Silence
          BY <1>3, <2>3, <4>1 DEF CacheFollowsRhythm, MayRead, mqtt_acl
        <4>2. CASE quiet[t] # Silence
          BY <1>3, <2>1, <2>3, <4>2, AccessAssumption
          DEF CacheFollowsRhythm, MayRead, Silence
        <4> QED
          BY <4>1, <4>2
      <3>2. Worker \in Readers(t)
        BY <1>3, <3>1, Clients DEF Readers, Subscribes
      <3>3. quiet'[t] = 0 /\ permit'[Worker][t] = CacheLife
        BY <1>1, <1>2, <1>3, <2>1, <3>2 DEF Renewed
      <3> QED
        BY <2>3, <3>3, AccessAssumption DEF Silence
    <2> QED
      BY <2>2, <2>3
  <1> QED
    BY <1>1, <1>3 DEF CacheFollowsRhythm, decode_token

LEMMA TickCache ==
    ASSUME TypeOK, CacheFollowsRhythm, Tick
    PROVE  CacheFollowsRhythm'
  <1>1. /\ token'[Worker].scope = token[Worker].scope
        /\ decode_token(token'[Worker]) => decode_token(token[Worker])
        /\ token[Worker] \in Token /\ token'[Worker] \in Token
    BY Clients, AgedType DEF TypeOK, Tick, decode_token, Token
  <1>2. online' = online /\ backend' = backend
    BY DEF Tick, process
  <1>3. ASSUME Worker \in online, NEW t \in Topic, t \notin lapsed'
        PROVE  /\ quiet'[t] # Silence => permit'[Worker][t] = CacheLife - quiet'[t]
               /\ quiet'[t] = Silence => decode_token(token'[Worker])
    <2>1. t \notin lapsed
      BY <1>3 DEF Tick
    <2>2. /\ quiet'[t] = IF quiet[t] = Silence THEN Silence ELSE quiet[t] + 1
          /\ permit'[Worker][t] = IF permit[Worker][t] = -1 THEN -1 ELSE permit[Worker][t] - 1
          /\ quiet[t] \in 0 .. Silence
      BY Clients DEF TypeOK, Tick
    <2>3. quiet'[t] # Silence => permit'[Worker][t] = CacheLife - quiet'[t]
      <3>1. quiet[t] # Silence => permit[Worker][t] = CacheLife - quiet[t]
        BY <1>3, <2>1 DEF CacheFollowsRhythm
      <3> QED
        BY <2>2, <3>1, AccessAssumption DEF Silence
    <2>4. quiet'[t] = Silence => decode_token(token'[Worker])
      BY <1>3 DEF Tick
    <2> QED
      BY <2>3, <2>4
  <1> QED
    BY <1>1, <1>2, <1>3 DEF CacheFollowsRhythm, decode_token

LEMMA StepCache == TypeOK /\ CacheFollowsRhythm /\ [Next]_vars => CacheFollowsRhythm'
  <1> SUFFICES ASSUME TypeOK, CacheFollowsRhythm, [Next]_vars PROVE CacheFollowsRhythm'
    OBVIOUS
  <1>1. ASSUME /\ token'[Worker] = token[Worker] /\ permit'[Worker] = permit[Worker]
               /\ (Worker \in online') = (Worker \in online)
               /\ UNCHANGED <<backend, quiet, lapsed>>
        PROVE  CacheFollowsRhythm'
    BY <1>1 DEF CacheFollowsRhythm, decode_token
  <1>2. CASE LinkReturns \/ Flush \/ Tables \/ UNCHANGED vars
    BY <1>1, <1>2 DEF LinkReturns, Flush, Tables, vars, access, process, observer
  <1>3. CASE \E d \in Device : FlashNvs(d) \/ provision(d) \/ DeviceConnects(d)
    BY <1>1, <1>3, Clients DEF TypeOK, FlashNvs, provision, DeviceConnects, process, observer
  <1>4. CASE \E u \in User : get_mqtt_credentials(u) \/ AppConnects(u) \/ AppLeaves(u)
    BY <1>1, <1>4, Clients
    DEF TypeOK, get_mqtt_credentials, AppConnects, AppLeaves, process, observer
  <1> QED
    BY <1>2, <1>3, <1>4, ConnectionCache, PublishCache, TickCache DEF Next

LEMMA CacheImpliesHeard == TypeOK /\ CacheFollowsRhythm => HeardUnlessLapsed
  <1> SUFFICES ASSUME TypeOK, CacheFollowsRhythm, Worker \in online,
                      NEW t \in Topic, t \notin lapsed
               PROVE  MayRead(Worker, t)
    BY DEF HeardUnlessLapsed
  <1>1. CASE quiet[t] = Silence
    BY <1>1 DEF CacheFollowsRhythm, MayRead, mqtt_acl
  <1>2. CASE quiet[t] # Silence
    <2>1. quiet[t] \in 0 .. Silence /\ permit[Worker][t] = CacheLife - quiet[t]
      BY <1>2 DEF TypeOK, CacheFollowsRhythm
    <2> QED
      BY <1>2, <2>1, AccessAssumption DEF MayRead, Silence
  <1> QED
    BY <1>1, <1>2

--------------------------------------------------------------------------------

LEMMA InitIInv == Init => IInv
  BY InitType, InitPrinted, InitClaims, InitCache DEF IInv

LEMMA StepIInv == IInv /\ [Next]_vars => IInv'
  BY StepType, StepPrinted, StepClaims, StepCache DEF IInv

THEOREM AccessInvariant == Spec => []IInv
  BY InitIInv, StepIInv, PTL DEF Spec

(* A printed code works for ever or, where the ingestor came before the        *)
(* script's INSERT, never, whatever the seed script, claims and telemetry of   *)
(* unknown devices do to the tables, in whatever order.                        *)
THEOREM PrintedCodesWork == Spec => []PrintedCodeWorks
  <1>1. IInv => PrintedCodeWorks
    BY DEF IInv, RowsAreKept
  <1> QED
    BY <1>1, AccessInvariant, PTL

(* Apps hear devices of their user only, for any lives of tokens and cache.    *)
THEOREM DeliveriesAreClaimed == Spec => []DeliveredIsClaimed
  <1>1. IInv => DeliveredIsClaimed
    BY ClaimsImplyDelivered DEF IInv
  <1> QED
    BY <1>1, AccessInvariant, PTL

(* The backend hears every topic that has not lapsed, each by its own rhythm,  *)
(* for any lives of tokens and cache.                                          *)
THEOREM RhythmIsHeard == Spec => []HeardUnlessLapsed
  <1>1. IInv => HeardUnlessLapsed
    BY CacheImpliesHeard DEF IInv
  <1> QED
    BY <1>1, AccessInvariant, PTL
================================================================================
