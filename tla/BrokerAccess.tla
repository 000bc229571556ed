------------------------------ MODULE BrokerAccess ------------------------------
(* Who hears whom on the broker: the tokens the backend issues, the go-auth    *)
(* plugin's calls of /mqtt/auth and /mqtt/acl and its cache, the backend's own *)
(* MQTT worker, the apps and the devices, over the tables of DeviceRegistry.   *)
(* Times are what is left of them: a Tick takes one unit off every token and   *)
(* every cache entry.                                                          *)
EXTENDS DeviceRegistry

CONSTANTS
    Kind,        \* the last level of a device's topics
    Worker,      \* the backend's client
    TokenLife,   \* mqtt_jwt_expire_minutes
    CacheLife    \* auth_opt_acl_cache_seconds

ASSUME AccessAssumption ==
    /\ Worker \notin User \cup Device /\ User \cap Device = {}
    /\ Kind \subseteq {"telemetry", "status", "meta"}
    /\ TokenLife \in Nat /\ CacheLife \in Nat

VARIABLES
    token,      \* the JWT each client presents
    online,     \* clients with a connection the broker has accepted
    subs,       \* devices each app is subscribed to
    permit,     \* what is left of the cached permission to read each topic, or -1
    backend,    \* "down", "starting" (in lifespan) or "serving" HTTP
    link,       \* the worker can reach the broker
    queue,      \* devices with messages the ingestor has not stored
    quiet,      \* time since a message of each topic, while this worker connection lasts
    lapsed      \* topics once quiet for longer than the cache with the token expired

access == <<token, online, subs, permit>>
process == <<backend, link, queue>>
observer == <<quiet, lapsed>>
vars == <<registry, access, process, observer>>

Client == {Worker} \cup User \cup Device
Reader == {Worker} \cup User
Silence == CacheLife + 1

Topic == Device \X Kind
DeviceOf(t) == t[1]
KindOf(t) == t[2]

(* The broker keeps the last message of these for later subscribers.           *)
Retained == {t \in Topic : KindOf(t) # "telemetry"}

(* MqttWorker.TOPICS covers every topic, an app's two lines no meta.           *)
Subscribes(c, t) == c = Worker \/ (DeviceOf(t) \in subs[c] /\ KindOf(t) # "meta")

--------------------------------------------------------------------------------
(* app/auth/jwt.py.  A device's token is valid until 2038: it does not age.    *)

NoToken == [scope |-> "none", devices |-> {}, left |-> -1]

create_mqtt_token(u, device_ids) ==
    [scope |-> "app", devices |-> device_ids, left |-> TokenLife]

create_backend_token == [scope |-> "backend", devices |-> {}, left |-> TokenLife]

create_device_jwt(d) == [scope |-> "device", devices |-> {d}, left |-> TokenLife]

Aged(t) == IF t.scope = "device" \/ t.left = -1 THEN t ELSE [t EXCEPT !.left = @ - 1]

decode_token(t) == t.left >= 0

(* /mqtt/auth and /mqtt/acl: functions of the token alone, not of the tables.  *)
mqtt_auth(t) == decode_token(t)

mqtt_acl(t, d) ==
    /\ decode_token(t)
    /\ \/ t.scope = "backend"
       \/ t.scope = "app" /\ d \in t.devices
       \/ t.scope = "device" /\ t.devices = {d}

(* The plugin asks the backend only when its cache does not know about this    *)
(* token and this topic.  Refusals are cached too: as no token gains a right,  *)
(* that changes nothing.                                                       *)
MayRead(c, t) ==
    \/ permit[c][t] >= 0
    \/ backend = "serving" /\ mqtt_acl(token[c], DeviceOf(t))

NoPermit == [t \in Topic |-> -1]

(* auth_opt_cache_reset: an answer that is used lives on.                      *)
Renewed(c, topics) == [t \in Topic |-> IF t \in topics THEN CacheLife ELSE permit[c][t]]

(* What the ingestor makes of messages: it ignores a status.                   *)
Recorded(topics) == {DeviceOf(t) : t \in {s \in topics : KindOf(s) # "status"}}

Init ==
    /\ RegistryInit
    /\ token = [c \in Client |-> NoToken]
    /\ online = {} /\ subs = [u \in User |-> {}]
    /\ permit = [c \in Reader |-> NoPermit]
    /\ backend = "down" /\ link = TRUE /\ queue = {}
    /\ quiet = [t \in Topic |-> Silence] /\ lapsed = {}

--------------------------------------------------------------------------------
(* The backend process and its MqttWorker.                                     *)

(* _refresh_jwt: the new token is a new key for the plugin's cache.            *)
RefreshJwt ==
    /\ token' = [token EXCEPT ![Worker] = create_backend_token]
    /\ permit' = [permit EXCEPT ![Worker] = NoPermit]

(* lifespan: the worker starts before HTTP is served.                          *)
BackendStarts ==
    /\ backend = "down" /\ backend' = "starting"
    /\ RefreshJwt
    /\ UNCHANGED <<registry, online, subs, link, queue, observer>>

BackendServes ==
    /\ backend = "starting" /\ backend' = "serving"
    /\ UNCHANGED <<registry, access, link, queue, observer>>

(* The observer starts anew with the next connection of the worker.            *)
ObserverRests == quiet' = [t \in Topic |-> Silence] /\ lapsed' = {}

(* The worker's token is in memory only, and nobody presents it any more.      *)
BackendStops ==
    /\ backend # "down" /\ backend' = "down"
    /\ token' = [token EXCEPT ![Worker] = NoToken]
    /\ permit' = [permit EXCEPT ![Worker] = NoPermit]
    /\ online' = online \ {Worker} /\ queue' = {}
    /\ ObserverRests
    /\ UNCHANGED <<registry, subs, link>>

WorkerDialling == backend # "down" /\ link /\ Worker \notin online

(* _on_connect subscribes to the topics of every device, and the broker sends  *)
(* what it has retained of them.                                               *)
WorkerConnects ==
    /\ WorkerDialling
    /\ backend = "serving" /\ mqtt_auth(token[Worker])
    /\ online' = online \cup {Worker}
    /\ \E sent \in SUBSET Retained :
         /\ permit' = [permit EXCEPT ![Worker] = Renewed(Worker, sent)]
         /\ queue' = queue \cup Recorded(sent)
         /\ quiet' = [t \in Topic |-> IF t \in sent THEN 0 ELSE Silence]
    /\ UNCHANGED <<registry, token, subs, backend, link, lapsed>>

(* Mutant: on_disconnect keeps the token it has.                               *)
RefusedKeepsToken ==
    /\ WorkerDialling
    /\ ~(backend = "serving" /\ mqtt_auth(token[Worker]))
    /\ UNCHANGED vars

(* The broker's CONNACK refuses: _on_disconnect refreshes the token.           *)
WorkerRefused ==
    /\ WorkerDialling
    /\ ~(backend = "serving" /\ mqtt_auth(token[Worker]))
    /\ RefreshJwt
    /\ UNCHANGED <<registry, online, subs, process, observer>>

WorkerDials == WorkerConnects \/ WorkerRefused

(* The worker's network fails, or the broker itself goes, with its cache.      *)
LinkBreaks ==
    /\ link /\ link' = FALSE
    /\ IF Worker \in online
       THEN token' = [token EXCEPT ![Worker] = create_backend_token]
       ELSE UNCHANGED token
    /\ \/ /\ online' = online \ {Worker}
          /\ permit' = [permit EXCEPT ![Worker] = NoPermit]
          /\ UNCHANGED subs
       \/ /\ online' = {}
          /\ permit' = [c \in Reader |-> NoPermit]
          /\ subs' = [u \in User |-> {}]
    /\ ObserverRests
    /\ UNCHANGED <<registry, backend, queue>>

LinkReturns ==
    /\ ~link /\ link' = TRUE
    /\ UNCHANGED <<registry, access, backend, queue, observer>>

(* The ingestor's _flush, and _handle_meta.                                    *)
Flush ==
    /\ queue # {} /\ queue' = {}
    /\ AutoRegister(queue)
    /\ UNCHANGED <<access, backend, link, observer>>

--------------------------------------------------------------------------------
(* Devices.                                                                    *)

(* provision_nvs.py takes the token of any device id from the backend, flashes *)
(* it and resets the chip; the app's wizard has to know the code.              *)
FlashNvs(d) ==
    /\ backend = "serving"
    /\ token' = [token EXCEPT ![d] = create_device_jwt(d)]
    /\ online' = online \ {d}
    /\ UNCHANGED <<registry, subs, permit, process, observer>>

provision(d) ==
    /\ backend = "serving" /\ \E code \in Code : CodeIsAccepted(d, code)
    /\ token' = [token EXCEPT ![d] = create_device_jwt(d)]
    /\ UNCHANGED <<registry, online, subs, permit, process, observer>>

DeviceConnects(d) ==
    /\ d \notin online
    /\ backend = "serving" /\ mqtt_auth(token[d])
    /\ online' = online \cup {d}
    /\ UNCHANGED <<registry, token, subs, permit, process, observer>>

(* Subscribers that get a message of a topic.                                  *)
Readers(t) == {c \in online \cap Reader : Subscribes(c, t) /\ MayRead(c, t)}

(* Mutant: cached permissions are not renewed.                                 *)
HeardOnce(t) ==
    /\ DeviceOf(t) \in online
    /\ backend = "serving" => mqtt_acl(token[DeviceOf(t)], DeviceOf(t))
    /\ permit' = [c \in Reader |-> IF c \in Readers(t) /\ permit[c][t] = -1
                                   THEN Renewed(c, {t}) ELSE permit[c]]
    /\ queue' = IF Worker \in Readers(t) THEN queue \cup Recorded({t}) ELSE queue
    /\ quiet' = IF Worker \in online THEN [quiet EXCEPT ![t] = 0] ELSE quiet
    /\ UNCHANGED <<registry, token, online, subs, backend, link, lapsed>>

(* A device publishes: every subscriber that may read the topic gets the       *)
(* message, which renews the cached permission about this topic and no other.  *)
Publish(t) ==
    /\ DeviceOf(t) \in online
    /\ backend = "serving" => mqtt_acl(token[DeviceOf(t)], DeviceOf(t))
    /\ permit' = [c \in Reader |-> IF c \in Readers(t) THEN Renewed(c, {t}) ELSE permit[c]]
    /\ queue' = IF Worker \in Readers(t) THEN queue \cup Recorded({t}) ELSE queue
    /\ quiet' = IF Worker \in online THEN [quiet EXCEPT ![t] = 0] ELSE quiet
    /\ UNCHANGED <<registry, token, online, subs, backend, link, lapsed>>

--------------------------------------------------------------------------------
(* Apps.                                                                       *)

(* Mutant: the query of get_mqtt_credentials without its WHERE.                *)
CredentialsForAll(u) ==
    /\ backend = "serving"
    /\ token' = [token EXCEPT ![u] =
                    create_mqtt_token(u, {d \in Device : \E v \in User : <<v, d>> \in owns})]
    /\ online' = online \ {u} /\ subs' = [subs EXCEPT ![u] = {}]
    /\ permit' = [permit EXCEPT ![u] = NoPermit]
    /\ UNCHANGED <<registry, process, observer>>

(* POST /mqtt/credentials, for a first connection, a reconnection or before    *)
(* the token expires: the app leaves and dials again with the new token.       *)
get_mqtt_credentials(u) ==
    /\ backend = "serving"
    /\ token' = [token EXCEPT ![u] = create_mqtt_token(u, DevicesOf(u))]
    /\ online' = online \ {u} /\ subs' = [subs EXCEPT ![u] = {}]
    /\ permit' = [permit EXCEPT ![u] = NoPermit]
    /\ UNCHANGED <<registry, process, observer>>

(* The app subscribes to what its own table lists: devices claimed, paired and *)
(* not yet claimed, or of an earlier user of the phone.                        *)
AppConnects(u) ==
    /\ u \notin online
    /\ backend = "serving" /\ mqtt_auth(token[u])
    /\ online' = online \cup {u}
    /\ \E local \in SUBSET Device :
           subs' = [subs EXCEPT ![u] = {d \in local : mqtt_acl(token[u], d)}]
    /\ \E sent \in SUBSET {t \in Retained : KindOf(t) # "meta" /\ DeviceOf(t) \in subs'[u]} :
           permit' = [permit EXCEPT ![u] = Renewed(u, sent)]
    /\ UNCHANGED <<registry, token, process, observer>>

AppLeaves(u) ==
    /\ u \in online
    /\ online' = online \ {u} /\ subs' = [subs EXCEPT ![u] = {}]
    /\ UNCHANGED <<registry, token, permit, process, observer>>

--------------------------------------------------------------------------------

(* The worker retries within two minutes, far less than a token lives.         *)
Tick ==
    /\ ~(WorkerDialling /\ backend = "serving")
    /\ token' = [c \in Client |-> Aged(token[c])]
    /\ permit' = [c \in Reader |-> [t \in Topic |->
                    IF permit[c][t] = -1 THEN -1 ELSE permit[c][t] - 1]]
    /\ quiet' = [t \in Topic |-> IF quiet[t] = Silence THEN Silence ELSE quiet[t] + 1]
    /\ lapsed' = IF Worker \in online /\ ~decode_token(token'[Worker])
                 THEN lapsed \cup {t \in Topic : quiet'[t] = Silence}
                 ELSE lapsed
    /\ UNCHANGED <<registry, online, subs, process>>

Seed == SeedInserts \/ \E d \in Device : SeedSelects(d)

Tables ==
    /\ Seed \/ \E u \in User, d \in Device, code \in Code : claim_device(u, d, code)
    /\ UNCHANGED <<access, process, observer>>

Next ==
    \/ BackendStarts \/ BackendServes \/ BackendStops \/ WorkerDials
    \/ LinkBreaks \/ LinkReturns \/ Flush \/ Tick \/ Tables
    \/ \E d \in Device : FlashNvs(d) \/ provision(d) \/ DeviceConnects(d)
    \/ \E t \in Topic : Publish(t)
    \/ \E u \in User : get_mqtt_credentials(u) \/ AppConnects(u) \/ AppLeaves(u)

(* paho's network thread dials for as long as the process lives.               *)
Spec == Init /\ [][Next]_vars /\ WF_vars(WorkerDials)

--------------------------------------------------------------------------------

Token ==
    [scope : {"none", "app", "backend", "device"}, devices : SUBSET Device,
     left : -1 .. TokenLife]

(* Type invariant.                                                             *)
TypeOK ==
    /\ hash \in [Device -> {"none", "unprovisioned", generate_pairing_code}]
    /\ owns \subseteq User \X Device
    /\ seeding \in Device \cup {NoDevice}
    /\ printed \subseteq Device /\ heardFirst \subseteq Device
    /\ token \in [Client -> Token] /\ online \subseteq Client
    /\ subs \in [User -> SUBSET Device]
    /\ permit \in [Reader -> [Topic -> -1 .. CacheLife]]
    /\ backend \in {"down", "starting", "serving"} /\ link \in BOOLEAN
    /\ queue \subseteq Device
    /\ quiet \in [Topic -> 0 .. Silence] /\ lapsed \subseteq Topic

(* What the broker would hand to an app is about a device its user has         *)
(* claimed: whatever the app asks for, however old its token and the cached    *)
(* answers about it are, and while the backend that gave them is gone.         *)
DeliveredIsClaimed ==
    \A u \in User \cap online, t \in Topic :
        Subscribes(u, t) /\ MayRead(u, t) => <<u, DeviceOf(t)>> \in owns

(* The worker misses a message of a topic on a live connection only if this    *)
(* topic has been quiet for longer than the plugin's cache since the worker's  *)
(* token expired.  The token of a live connection is never renewed: what keeps *)
(* telemetry flowing past its hour is the cache and the devices' own rhythm,   *)
(* which does nothing for a meta, sent once per boot.                          *)
HeardUnlessLapsed ==
    Worker \in online => \A t \in Topic : MayRead(Worker, t) \/ t \in lapsed

(* The worker comes back: after a start in which HTTP is not served yet, and   *)
(* after an outage longer than the token lives.                                *)
WorkerReturns ==
    (backend = "serving" /\ link) ~> (Worker \in online \/ backend # "serving" \/ ~link)
================================================================================
