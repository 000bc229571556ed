# Vena: verification models

TLA+ models of the Vena system, kept beside its code: an ESP32 that measures a
cold box, a FastAPI backend that stores what it publishes over MQTT, and a Flutter
app that shows it, offline first. The modules are checked with TLC on small
instances; every safety property of the passing runs, and the refinement, is also a
theorem proved with TLAPS for every instance; what stays with TLC is liveness.
`PROJECT.json` lists components, runs, mutants, hazards, findings, theorems and, for every definition that models code, the lines it
stands for.

    tlc -workers 2 -config TelemetryUplink.cfg TelemetryUplink.tla     # one run
    tlc -workers 2 -config TelemetryIngest.cfg MCTelemetryIngest.tla   # with an MC module
    tlc -workers 2 -config HistoryQuery.cfg MCHistoryQuery.tla
    tlapm BrokerAccessProofs.tla                                       # proofs

## 1. The system

    DHT22 -> loop() -> OfflineBuffer -> MqttPublisher ==MQTT==> Mosquitto ==> MqttWorker -> queue -> TelemetryIngestor -> Postgres
                 |                                                  |                                                        |
                 +-BLE-> app (BleService)                           +==> app (MqttService) -> telemetry tables            REST API
                                                                         app (OutboxWorker, AuthInterceptor) ==HTTPS==> auth, devices

| Part | State | Operations | What is hard | Module |
|---|---|---|---|---|
| firmware, `OfflineBuffer` | array, `_head`, `_tail`, `_count` | push, peek, pop | three indices that wrap separately, drop-oldest | `OfflineBuffer`, `BoundedFifo` |
| firmware, `main.cpp` loop and publishes | `seqCounter`, boot count in NVS, buffer, `metaPublished` | meta, sample, drain four | a socket that is dead before anyone knows, resets | `TelemetryUplink` |
| firmware, `MqttPublisher` retries | deadlines and backoffs on `millis()` | `ensureWifi`, `ensureMqtt` | a clock that wraps, connect() that blocks | `ReconnectBackoff` |
| firmware, BLE server, `WifiProvisioner`, `NvsJwt` | `pendingProvision`, NVS keys | callbacks of the NimBLE task, deferred work in loop() | two tasks, partial writes | `Provisioning` |
| firmware, sensors, display, Peltier PID | last readings, PID integral | read, draw, drive | real arithmetic, devices | no |
| backend, `MqttWorker` + `TelemetryIngestor` | hand-off to the event loop, queue, batch, tables | `_on_message`, `_run`, `_flush`, `_handle_meta`, `stop` | thread and loop, exceptions, cancellation | `TelemetryIngest` |
| backend, auth | `refresh_tokens` rows | rotate, check, login | rotation without a lock | `SessionRefresh` |
| backend, devices; `seed_device.py` | `devices`, `user_devices` | seed, auto-register, claim, list, alias | writers that do not know of each other, claim without a lock | `DeviceRegistry`, `OutboxSync` |
| backend, broker access: `jwt.py`, `credentials.py`, `broker_auth`, `MqttWorker`'s token, go-auth's cache | tokens with their expiry, connections, cached permissions | issue, CONNECT, ACL, refresh on disconnect | snapshots of claims, expiry on a live connection, a circular start | `BrokerAccess` |
| backend, Alembic's migrations, aggregates, retention | hypertable, `telemetry_hourly`, `telemetry_daily`, jobs | upgrade, downgrade, refresh, drop | windows against late rows, two kinds of retention | `TelemetryHistory` |
| backend, `/history` | none (queries) | ranges, buckets, pages | boundaries, rows that arrive between two pages | `HistoryQuery` |
| app, `AuthInterceptor`, storage, `AuthNotifier` | two stored tokens, session | request, 401, refresh, retry, sign-out | parallel calls between awaits | `SessionRefresh` |
| app, `OutboxWorker`, `DeviceActions`, list sync | outbox and device tables, `_processing`, `_retryTimer` | rename, claim, replay, pull | overlapping activations, timeouts | `OutboxSync` |
| app, `MqttService` + lifecycle observer | `_client`, subscription, three timers, `_intentionalDisconnect` | connect, disconnect, refresh, pause, resume | calls that overlap at their awaits | `MqttAppService` |
| app, telemetry tables | `latest_states`, `telemetry_cache`, `devices.status` | upsert, insert, prune | handlers nobody awaits, late samples | `TelemetryStore` |
| app, BLE client, pairing wizard | scan, connection, wizard step | provision, poll status, claim | timeouts against the device's restart | `Provisioning` |
| app, live and history providers | a 5-minute cache | read | its invalidator has no caller | no |
| app, screens and theme | widgets | | layout | no |
| `application/`, `publisher.py`, `docker-compose.yml` | | | earlier prototype, deployment | no |

How they interact: the firmware and the backend share only the broker (topics
`vena/{id}/telemetry`, `meta` retained, `status`); the backend and the app share
the REST API and the broker; the broker asks the backend whom to let in and what
each may read; the database's own jobs work on the rows beside the backend; the app's components share its Drift database, whose
watch streams drive the outbox worker. Each process is sequential in itself
(Arduino loop, asyncio loop plus paho's thread, Dart isolate); what interleaves is
what runs between two awaits, two threads, or two processes.

What makes each part correct: the buffer is a queue; samples keep their order and
a gap has a cause; retries neither stop nor flood; a row is stored once, in order,
or its loss has a name; a valid session stays usable; an offline write reaches the
server, once, in order; the app ends up connected, once; the card and the chart of
a device agree; nobody hears a device he has not claimed, and no telemetry takes the hash from behind a
code that works; a row outlives its retention in the aggregates, and what is shown of it does
not depend on which of the two is asked.

## 2. Modules

Every component has a module; a module of proofs extends the modules it is about. Where
one module of proofs is about two components, the initial predicate, the next-state
relation and the specification of the second carry its name (`OutboxInit`,
`StoreNext`, `BackoffSpec`), so that both can be extended.

### BoundedFifo, OfflineBuffer, OfflineBufferProofs
`BoundedFifo` is the promise the firmware relies on: a queue of at most `Capacity`
payloads whose push drops the oldest. `OfflineBuffer` is the C++ class: `items`,
`head`, `tail`, `count` are `_items`, `_head`, `_tail`, `_count`, and `out` the
String of the caller of `peek`. `Contents` reads the array from `head` and is the
refinement mapping: `RefinesFifo == Fifo!Spec`.

### TelemetryUplink, PublisherProofs
One action per block of `loop()`, in order through `pc`: `MqttLoop`, `PublishMeta`,
`SampleNotDue`/`TakeSample` (direct publish only when the buffer is empty, else
push), `DrainOne`/`DrainBreaks`/`DrainEnds` (peek, publish, pop, at most
`DrainLimit`). The buffer is the queue of `BoundedFifo`, which the refinement
justifies. Every publish is QoS 0, so `publish()` succeeds when the bytes are in the
socket: `conn = "dead"` is the time between the death of a link and its discovery,
when publishes still succeed and their samples end in `vanished`. `Reset` erases RAM
and restarts `seqCounter`; `bootCount` is in NVS. `dropped`, `vanished` and `wiped`
are history variables: the fate of each sample that did not arrive.

### ReconnectBackoff, PublisherProofs
`ensureWifi` and `ensureMqtt` with deadlines compared as `(long)(millis() - t) < 0`
(`SignedDifference`, modulo `ClockSize`). `connect()` blocks for up to
`ConnectTime` units while the clock moves. Every Wi-Fi attempt restarts the
association (`joinAge = 0`), as `WiFi.begin` does. `wifiElapsed` and `mqttElapsed`
remember, up to half the clock, how long ago a deadline was written; the properties
need them to say where signed comparison is meaningful.

### TelemetryIngest, MCTelemetryIngest, TelemetryIngestProofs
Messages are numbered in the broker's order. `OnMessage` is paho's thread, `handoff`
the `call_soon_threadsafe` callbacks that have not run, `PutNowait` the callback:
`QueueFull` is raised there, in the loop. `GetItem`, `GetTimesOut`, `FlushCommits`,
`MetaCommits`, `TaskDies` are `_run`; `StopWorker`, `CancelTask`, `DrainItem`,
`DrainMeta`, `LastFlush`, `DrainFails` the lifespan's end; `Crash` and `Restart` the
process. `lost` records each loss under its cause. A row's key is `(device_id, ts)`;
`Inserted` is `ON CONFLICT DO NOTHING`. `Broken` messages make `_parse` raise
something it does not catch. The MC module names six messages: two samples of a
device with the same timestamp, two meta payloads, a sample of a second device, and
a broken message.

### SessionRefresh, RestClientProofs
One action per await of the interceptor and of the rotation: `Send`, `Answer`,
`ReadRefreshToken`, `SelectToken`, `CommitRotation` (SELECT without a lock, then
revoke, insert, commit), `SaveAccess`/`SaveRefresh` (two parallel writes),
`ReadAccessToken`, `RetryAnswered`, `ClearStorage`, `RebuildSession`, and the user's
`SignOutClears`, `SignOutEnds`, `SignIn` (whose two writes are one step: nothing of
the app reads the storage before they end). A pair of tokens is the number of its
issue.

### OutboxSync, RestClientProofs
`RenameLocally`/`QueueRename`/`QueueClaim` are `DeviceActions`; `Emit` is the watch
stream, which delivers the list as it is when the listener runs; an activation of
`_processBatch` is a slot with its list (`todo`, the rows left of it, taken oldest first) and its call. `TimerFires` and
`TimerBegins` are the retry callback, which queries before it starts and does not
look at `_processing`. `flying` holds requests on their way: one that timed out
(`slot = 0`) may still be executed. `ServeClaim` and `ServeRename` are the backend's
services, `raced` a claim that looked before a rival committed. `PullList` and
`UpsertNext` are the device list sync.

### TelemetryStore, AppTelemetryProofs
Messages of MQTT and of BLE take the same path. A handler issues one statement at a
time and the next when it has returned; nobody awaits the handlers, and Drift
executes statements in the order of issue, so `queue` is a FIFO of the statements of
several handlers (`FirstOp`, `Continuation`). The prune reads its cutoff in one
statement and deletes in the next. `StatementFails` ends a handler in its middle,
`AppRestarts` ends them all. That the list pull of OutboxSync also writes
`devices.status` is left out.

### MqttAppService, AppTelemetryProofs
`fetching` and `renewing` count the `connect` and `_doTokenRefresh` calls that wait
for credentials, `dialing` those that wait for their client. `client` maps each
`MqttServerClient` to its state; `"stale"` is a broken connection whose status still
says connected. `held` is the timer `_reconnectTimer` refers to, `orphans` those it
referred to before: `_scheduleReconnect` overwrites the field without cancelling.
`OnDisconnected` is the callback of every client, and `_doTokenRefresh` triggers it
itself. `DialSucceeds` runs `_onConnected` against `_client`, which need not be the
client that connected. Two history variables observe what nobody refers to any more:
`replaced` holds the clients in use in whose place `connect` has put another, whether a call
of `connect` or a token refresh had dialled them, and `deafened` says that one of them has
dropped, and taken the subscription with it, since a client was listened to last.
`subscribe` after login, sign-out's `dispose` and the
length of the delays are left out; the user has a device (with none, there is
nothing to subscribe). Two waits for the token storage count as one.

### Provisioning, ProvisioningProofs
Three processes: the NimBLE task (`task` is its next step: `SaveKey` commits four keys
one by one, `AssignCreds` assigns `pendingCreds` member by member, `SetPending` sets
the flag and returns), the Arduino task (`pc`: `setup()` from its wait for Wi-Fi on,
then `loop()`'s provisioning block, Wi-Fi edges and `ensureWifi`), and the app's wizard
(`wizard` is its `PairingStep` with the calls of `submitProvisioning`). The k-th write
carries k as its ssid, psk and jwt; 0 is the compile-time network or a missing key. A
read of a String that is being assigned may give `Torn`. `WiFiBegin` is what every
`WiFi.begin` does to the station; the provisioning block switches the radio off
first. When a deadline of `ensureWifi` has come is left open (ReconnectBackoff has
the clock), and `MQTT_USE_AUTH` is taken as set. The form admits what `onWrite` accepts.
Left out: a write during the first calls of `setup()`, backing out of the wizard
during a submission, a scanned code that belongs to another device than the one
connected, the automatic connection of the detail screen, and `provision_nvs.py`, which
replaces the whole partition.

### DeviceRegistry, BrokerAccess, BrokerAccessProofs
`DeviceRegistry` is the tables `devices` and `user_devices` with everything that writes
them: `SeedSelects` and `SeedInserts` are the two statements of `seed_device.py`,
`AutoRegister` the `ON CONFLICT DO NOTHING` of `_flush` and `_handle_meta`, `claim_device`
the claim of any user, with either of the two codes that exist (`Code`): the hash the
backend and the scripts make of the MAC, and the XOR the firmware makes of it. `hash` is a
missing row, the placeholder `unprovisioned`, or the code whose bcrypt hash it is. `printed`
and `heardFirst` are history variables: the devices whose code the script has printed, also
where it skipped its insert, and those whose row the ingestor has inserted.

`BrokerAccess` extends it with tokens, connections and the go-auth plugin. Times are
countdowns, so that no clock has to be bounded: `Tick` takes one from what is left of
every token (`Aged`) and every cached permission (`permit`). A topic is a device and a
`Kind`; the plugin asks and caches for each topic. `mqtt_auth` and `mqtt_acl` are functions of
the token, as in the code, and of the topic only its device; `MayRead` is the plugin, which
asks `/mqtt/acl` only when its cache does not know this topic, and gets no answer unless the
backend serves HTTP. A subscription brings what the broker has retained (`status`, `meta`),
and a message that is let through renews the entry of its own topic. `RefreshJwt` is `_refresh_jwt`; it runs in `BackendStarts` (before
HTTP is served), in `WorkerRefused` and in `LinkBreaks` (`_on_disconnect`), never on a
live connection. `get_mqtt_credentials` is a call of the app that then leaves and dials
again. `quiet` and `lapsed` are history variables: how long a topic has been silent on
this connection of the worker, and whether that was ever longer than the cache with the
token expired.
Left out: the plugin's authentication cache (each connection of the worker or an app
comes with a new token, and a device's token does not expire; a CONNECT with a token the
cache remembers may succeed while the backend is away, 300 s long), cached refusals (no token
ever gains a right), and writes of an app (it only subscribes). A call that fails
because HTTP does not answer is taken as not cached.

### TelemetryHistory, HistoryQuery, MCHistoryQuery, TelemetryHistoryProofs
`TelemetryHistory` is one device's rows in `telemetry_raw`, each named by its `ts`, and
what the database does with them. `UpgradeHypertable` to `UpgradeCleanup` and their
downgrades are the migrations a1, a2, a3 and b2 (`revision` 1 to 4; those between only
create tables and an index), `available` the extensions of the server. `Refresh` is the
job of a continuous aggregate: it replaces the buckets that lie in its window as a whole
by what `raw` holds. `DropChunks` is TimescaleDB's retention, a chunk of a day at a time,
`CronDelete` pg_cron's, a row at a time, `DropHourly` that of the hourly aggregate. An
aggregate of rows is the set of rows it was computed from, of which COUNT, AVG, MIN and
MAX are functions. `Gap` bounds how long a job may be late; `Tick` waits for it, so that a
job whose outage is longer does not occur: rows whose buckets leave the window meanwhile
would never be in the aggregate, and no property could promise them. `MaxLate` bounds how
late a row is stored in the run; the theorems hold for any.

`HistoryQuery` is `GET /devices/{id}/history` asked in any of these states: `history` is
the route, with the order in which its errors come; `get_device_history` the pages, the
newest first, `get_device_history_aggregated` the ranges with their buckets, the oldest
first, as the code orders them. The MC module shrinks the calendar: a day of two hours
of two ticks, a retention of four days, ranges below, at and above it. `AnswersAgreeWithRollups`
speaks of the ranges whose buckets one answer can hold (`OneAnswer`: 5000 are more than 90 days
by the hour and less than a year), in the instance as in the code all but `1y` by the hour.
`StillToRead` joins the pages a client has before it, each of `PageSize` rows.

## 3. Runs

| Run | Bounds | States | Shows |
|---|---|---|---|
| `offline_buffer` | 3 payloads, capacity 3 | 480 | index ranges, tail = head + count, occupied window, refinement of the queue |
| `telemetry_uplink` | capacity 2, drain 2, 4 samples per boot, 2 boots | 968 k | order, recency of the buffer, cause of every gap, drain |
| `reconnect_backoff` | clock of 16, cap 3, join 2, block 2 | 275 k | waits bounded across the wrap, backoff honoured, Wi-Fi and MQTT come back |
| `telemetry_ingest` | 6 messages, queue 2, batch 2, 1 database error, 1 outage or restart | 369 k | rows accounted, sound, in order; meta monotone; accepted rows stored |
| `session_refresh` | 2 parallel calls, 3 pairs, all failures | 384 k | the stored token is usable, calls end |
| `outbox_sync` | 1 device, 2 aliases, 2 rows, 2 activations, 2 timeouts | 513 k | synced rows were executed, in order, none forgotten, all drain |
| `telemetry_store` | 2 devices, 3 timestamps, 4 messages, keep 2, 1 fault | 1.8 M | latest covers cache, prune keeps the newest and settles, last message shows |
| `mqtt_app_service` | 4 clients, 4 things under way | 825 k | never idle, no dead subscription, one connection, reconnects |
| `provisioning` | 2 writes, 1 reset | 657 k | the last write is taken whole, a wizard that goes on has its write in the flash |
| `telemetry_history` | 3 rows, up to 8 late, clock of 20 (5 days of 2 hours), gap of 2, pages of 1 | 1.4 M | aggregates keep what came in time, retention spares the last days, `/history` agrees with the aggregates, pages skip nothing |
| `broker_access` | 2 users, 1 device, 2 topics, tokens of 2, cache of 1 | 612 k | deliveries are claimed, which printed codes work, which topics the worker hears, its return |
| `parallel_refresh` | 2 calls, no failure | violated | the finding |

Why the bounds are enough. The ring buffer's cases are wrap or no wrap, full or not:
capacity 3 has all, and the theorems take over from there. In the uplink two samples
buffered and two drained per loop let the buffer overflow, drain partly and refill;
two boots let sequence numbers restart. The clock of 16 wraps many times with every
phase of both loops, and half of it is more than twice the cap, as
24.8 days are of 30 s. Queue and batch of two fill, overflow and flush partly with
three rows; two messages of one key collide. Two calls are what a race over a token
takes; three pairs let a consumed token be followed twice. Two rows and two
activations are the least where an activation can overtake another. Four clients
hold a refresh and two connects at the same time. A second write that meets the first
on its way is what the hand-over to `loop()` can confuse, and one reset may fall between
any two steps of either. Three rows are the two sides of the boundary of a chunk (3 and 4)
and one before the migrations (0), early enough for all to be refreshed, retained and
dropped before the clock ends; hour and day aggregate, with a window of three buckets
each, are at different points of it. The middle row may arrive, and the oldest leave, while
another is still to be read, with a client that has read one row or two; a row that is 8 late is
past the hourly window. The migrations run before the clock starts, up and down any number of times. A token that lives two units and a cache that lives
one is the least where each may outlive the other; two users tell a claim of
one from that of the other, and devices do not influence each other. `telemetry` and `meta` are the
two kinds of topic the ingestor stores, one of them retained and one not; `status` is retained
like a meta and ignored, and the theorems have all three.

The bounds never stop what has begun: they limit new samples, messages, rows, calls,
failures, refreshes and resumes. In `MqttAppService` what is under way carries the
weight of what may follow from it (`Work`), so that a drop or a failed dial is always
allowed to arm its timer. In `SessionRefresh` a rotation needs a pair to issue:
`CallsEnd` says so (`issued = MaxTokens`). `CHECK_DEADLOCK FALSE` stands where the
system may rest: no message to come, no user, an empty outbox. The firmware's runs
check deadlock; its loop never stops.

Each property of a passing run is broken by at least one mutant: an operator beside
the definition it replaces, commented `Mutant`, that changes it as a plausible bug
would.

### Fairness
* `TelemetryUplink`, `ReconnectBackoff`: Arduino calls `loop()` for ever and the
  clock moves; a TCP connection that works delivers. The link, the access point and
  the broker owe nothing; the liveness properties assume them to stay from some
  point (`<>[]`).
* `TelemetryIngest`: the asyncio loop runs callbacks and tasks that are ready.
  Nothing forces messages, reconnections, stops or restarts.
* `SessionRefresh`: a call is answered or times out (Dio's `receiveTimeout`), and an
  async method goes on. Expiry and the user owe nothing.
* `OutboxSync`: the event loop, the timer and the server, each in itself.
* `MqttAppService`: credentials calls and dials end (both have timeouts), timers
  fire while the process runs, and a broken connection is noticed in the end (the
  60 s keep-alive writes into it). The user, the network and the refresh timer owe
  nothing.
* `BrokerAccess`: paho's network thread dials again for as long as the process lives
  (`connect_async` with `loop_start` retries the first connection too). Its delays are
  at most two minutes and a token lives an hour, so `Tick` waits while the worker can
  reach a broker whose backend answers. The backend, the link, devices and users owe
  nothing.

## 4. Findings

**Parallel refreshes sign the user out** (`parallel_refresh`). Two 401s start two
refreshes with the same stored token; the first rotation revokes it and the second
is denied, which clears the storage the first one saved into
(`auth_interceptor.dart:49`; `api_client.dart:11` calls the refresh transparent).

Met while modelling, without a run of their own:

* One database error stops ingestion: `_run` has no handler around `_flush` and
  `_handle_meta`; the task ends, the queue fills, and the process, the MQTT thread and the
  HTTP API stay up (`ingest.py:80`, against line 22). `TelemetryIngest!TaskDies` is
  that step, and `AcceptedIsStored` says "unless the task is dead".
* A stored network is not used: `setup()` gives the stored network to `WiFi.begin`
  (`main.cpp:206`) and then calls `mqtt.begin`, whose `WiFi.begin` replaces it by the
  compile-time one (`MqttPublisher.cpp:19`, against `device-setup.md:236`).
  `Provisioning!Reset` does what the code does.
* The same call is made at the first Wi-Fi edge after provisioning (`main.cpp:292`) and
  by every retry (`MqttPublisher.cpp:75`): a device keeps a provisioned network until
  its first connection has been seen, or until the first retry.
* `setup()` looks at the Wi-Fi twice (`main.cpp:237`, `253`): a connection that changes
  in between leaves `wifi_status` wrong until the next edge. A poll may also see a
  connection to another network than the user's; `WizardMeansStored` speaks of the
  flash. A reset between the NVS writes leaves keys of two writes until the next
  provisioning.
* A rename whose call timed out may be executed after its retry and after a newer
  rename (`outbox_worker.dart:106`): the server then keeps the older alias, and the
  outbox is empty. `FirstExecutionsInOrder` speaks of first executions for that reason.
* `device_dto.dart:24` reads `last_seen_at` as an int, the backend sends a date
  (`devices/schemas.py:23`): the list pull throws for every device that was ever
  seen. `OutboxSync!PullList` has it as its guard.
* `MqttPublisher.cpp:49` says "QoS 1, retain=true"; PubSubClient publishes at QoS 0.
  `metaPublished` is set although the payload may die with the socket, and no later
  loop sends it again before a reset.
* A connection longer than 24.8 days leaves a deadline that reads as the future; the
  first retry may then wait as long. `WaitIsBounded` carries the proviso.
* A refresh under way while the user signs out saves its tokens into the cleared
  storage (`auth_interceptor.dart:70`; `auth_repository.dart:68` says that signing out
  clears all tokens), and the next start finds a session: `Send`, `AccessExpires`, `Answer`,
  `ReadRefreshToken`, `SelectToken`, `CommitRotation`, `SignOutClears`, `SaveAccess`,
  `SignOutEnds` in `SessionRefresh`. Any failure of the repeated call, a 500 included,
  clears the session (`auth_interceptor.dart:55`).
* `TelemetryIngestor.stop` cancels the task and with it the batch it holds
  (`ingest.py:33`); only the queue is drained.
* A claim or rename the server refuses stays at the head of the outbox and blocks
  the rows behind it; `PendingDrains` says "unless". An optimistic alias is
  overwritten by a pull that precedes its rename.
* `MqttService`: `disconnect` during a call of `connect` (one that a reconnect timer has
  just started, say) does not stop it; its success or its `catch` revives the service, so
  that a paused app stays or comes back connected (`mqtt_service.dart:67`;
  `mqtt_lifecycle.dart:15` promises a disconnect after 30 s): `Pause`, `Disconnect`,
  `CredentialsArrive`, `DialSucceeds` in `MqttAppService`. A token refresh that ends after `disconnect` connects
  with `_intentionalDisconnect` still set, and the next drop is not retried (`mqtt_service.dart:22` promises it);
  `Reconnects` and `NeverIdle` say "unless intentional". A refresh that fails is not armed again.
* `connect` looks at `_client` before its first await only (`mqtt_service.dart:58`, `121`): a client that has become
  `_client` meanwhile is replaced while it dials or is connected, stays connected, and its later drop cancels the
  live client's subscription. Two overlapping calls of `connect` do so, and so does one call with a token
  refresh: `CredentialsArrive`, `DialSucceeds`, `ArmRefresh`, `RefreshFires`, `RenewalArrives` (whose own disconnect
  arms the reconnect timer), `TimerFires`, `CredentialsArrive` in `MqttAppService` leave the refresh's client dialling
  beside `_client`. `SingleConnection` says exactly which clients these are, and that nothing else leaves one.
* A device that is heard before it is seeded can never be claimed: `seed_device.py`
  finds the placeholder's row, skips its insert and prints a code that is in no row
  (`seed_device.py:66`), and `bcrypt` raises on the placeholder, so that a claim answers
  500. `PrintedCodeWorks` says so: a printed code works if and only if the ingestor had not
  inserted the row before the script did.
* Two formulas make a pairing code. `generate_qr.py:4` says that its own is that of the
  firmware and of the backend, and `device-setup.md:158` that the seed script uses the firmware's; but the firmware
  XORs four bytes of the MAC (`main.cpp:110`), and offers the result over BLE, while
  `pairing.py:8` hashes the MAC with a secret, as `generate_qr.py` does. The code that
  `device-setup.md:242` tells how to obtain, and has one read with nRF Connect, is refused with a
  403 by `/claim` and `/provision` (`pairingCode` is in `Code`, and `CodeIsAccepted` never holds of it); line 295 of that
  document even advises to check the XOR when a 403 comes.
* The worker's token is never renewed on a live connection, although `jwt.py:75` says
  "so the token is always fresh": after its hour the worker hears a topic only while
  the plugin's entry about this very topic is renewed by its own messages, and one that was silent for
  longer than 300 s is unheard until the next connection. Telemetry comes every few seconds; a meta
  comes once per boot, so that of a device that resets more than an hour into a connection
  telemetry is stored and the meta is not, until the worker reconnects and gets the retained one.
  `HeardUnlessLapsed` says so, topic by topic.
* After an outage longer than the token, and at every start before HTTP is served, the
  worker's first dial is refused; the refresh in `_on_disconnect` lets the next one in
  (`WorkerReturns`).
* A device claimed while the app is connected is neither in its token nor
  subscribed (`mqtt_service.dart:102`) until the next credentials and the next login.
* `provision_nvs.py` writes the whole NVS partition: stored Wi-Fi and `boot_count` go with
  it, so that (boot, seq) starts again.
* `/history` orders a range ascending and limits it to 500 by default: an hour at 5 s is
  720 rows and a day at 1 min 1440 buckets, and the chart gets the oldest of them
  (`telemetry/service.py:100`, `aggregation.py:122`; the app sends
  500 too, `device_api.dart:90`). Where no retention runs, a year by the hour is more than the
  greatest limit, 5000. `?end=` alone with a date before yesterday is an empty range.
* Nothing reads `telemetry_hourly` and `telemetry_daily`: "1y" is computed from raw rows
  and returns the 90 days that are left.
* The aggregates start `WITH NO DATA` and look back 3 hours and 3 days: rows that are
  older when the migration runs never come into them, nor do rows that arrive after
  their bucket has left the window. `RollupsKeepHistory` speaks of rows in time.
* b2's downgrade reads `cron.job` and fails where pg_cron was never installed, although
  `b2_pg_cron_cleanup.py:91` says "No-op". With neither extension rows stay for ever.
* The history cache's invalidator has no caller (`history_provider.dart:153`), and no
  path of the backend writes `devices.status = "offline"`.

## 5. Proofs

`OfflineBufferProofs` proves, for every `Capacity \in Nat \ {0}`
(`CapacityAssumption`) and every set of payloads without the empty one
(`NoPayloadAssumption`):

* `TypeCorrect`, `TailCorrect`, `WindowCorrect`: the three invariants of the run.
* `RingImplementsFifo`: `Spec => RefinesFifo`.

The inductive invariant is `IInv == TypeOK /\ TailFollowsCount /\ WindowIsOccupied`.
No part is inductive alone: push writes at `_tail`, so the window is preserved only
because `_tail` is `_head + _count` around the ring, and the index arithmetic needs
the ranges. The arithmetic meets `%` only below twice the capacity
(`ModBelowTwice`), from which `AfterWraps`, `OffsetWraps` and `SlotAtWraps` remove
it. Each action has one lemma per conjunct (`PushType`, `PushTail`, `PushWindow` and
so on), and `BufferInvariant` joins them.

The refinement needs `IInv`: `SlotAtShift` (the window moves with the head),
`SlotAtInjective` (two positions never share a slot), `FirstSlot` and `LastSlot` (peek
and push hit the ends) show that `Contents` changes as the abstract queue does; the
case that matters is a push into a full buffer, where the slot written is the one the
head has just left (`PushRefines`).

`BrokerAccessProofs` proves, for all sets of users and devices and all lives of tokens and
cache entries (`RegistryAssumption`, `AccessAssumption`: the clients are distinct, the
lives natural numbers): `PrintedCodesWork`, `DeliveriesAreClaimed`, `RhythmIsHeard`, and
`TypeCorrect`. `IInv` joins four parts. `TokensAreClaims` says where rights come from: an app's token
names only what its user owns, because it did when it was issued and claims are never
removed, and what the cache remembers of it is no more. `CacheFollowsRhythm` relates the
cache to the silence of a topic: on a live connection a topic that has had a message
within the cache's life has `permit = CacheLife - quiet`, and one that has not is
in `lapsed` or meets a token that is still valid. Neither the cache nor the silence
alone would be preserved by `Tick`, which moves both. `RowsAreKept` joins `PrintedCodeWorks` with
`PlaceholdersStay`: the devices the ingestor heard first are those whose row is the placeholder, for ever.

`TelemetryHistoryProofs` proves, for every calendar, retention, schedule and gap with
`HistoryAssumption` (a bucket, the end offset and the gap together fit into the start
offset, which is at most the retention): `RecentRowsStay` and `RollupsPreserve`.
`RollupsKeepHistory` is not inductive: that a row is in its bucket follows from a run of the
job after its arrival and after the bucket's end, which has to be remembered. `IInv` adds
`Timing` (no job is later than its gap, nothing is later than now, an aggregate still to be
created has never run) and `RunsCover` (every such run has seen the row), and needs
`RecentRowsAreKept`: a later run over the same bucket computes it anew from `raw`, so
raw rows must outlive the window (`RefreshCovers`). `CoverImpliesHistory` is the
arithmetic: when the bucket has left the window, the last run is younger than the gap
and so came after both.

`AnswersMatchRollups` and `PagesAreComplete` follow for any number of rows. For the first,
`SettledRows` puts the two properties above together: what is in the aggregate's bucket came
in time, so it is in `raw`, and the reverse. That the limit does not cut the answer is a count: the
buckets before one of a range inject into an interval (`FewBefore`, `BucketsOfSpan`), and
`OneAnswer` bounds it. For the second, the pages from an offset on hold the rows with at least
that many newer ones (`PagesByRank`, whatever the page size); `OldestLeaveFirst` says that neither retention
takes a row without all older ones, so that no step gives a row a smaller rank (`NewerGrows`).
`RowsArrived`, that no row is from the future, makes the ranks finite.

`PublisherProofs` proves, about the uplink, `SamplesInOrder`, `BufferRecent` and `GapsExplained` for every
capacity, drain limit and number of samples and resets (`UplinkAssumption`). The trail of
`InOrder` is a concatenation, on which no action works; `PartsInOrder` says of its three
parts that each rises and is earlier than the next, so that an action that moves a
sample from one to another needs only the ends (`Appended`, `Split`, `Concatenated`). That
a new sample is the latest, and a dropped one is in one place only, follows from
`Accounted`; `DeadIsEmpty` is why a connection that is re-established does not bring old bytes.

About the retries it proves `WaitsAreBounded` and `BackoffHonoured` for every even width of the
clock, cap, association time and blocking time below half of it (`BackoffAssumption`). The code
keeps no age of a deadline, only its reading of a clock that wraps; `Falls` is what relates the two: as
long as less than half the clock has passed since a deadline was set `delay` ahead, the signed
difference to it is `delay` less what has passed. `BackoffInv` says so of both deadlines, with
the delay that was used last where a failure is remembered. `SignedDifference` meets `%` only in
`Remainder` and `Signed`; the steps use `Later`, `JustSet` and `TimePasses`.

`TelemetryIngestProofs` proves `RowsAccounted`, `RowsSound` and `RowsInOrder` for any messages,
keys, queue and batch (`IngestAssumption`). `StagesInOrder` is that the hand-off, the queue
and the batch (or the drain's rest) each hold their rows in the broker's order, and a later stage
older rows; `Locals`, that the locals of `_run` and of `stop` are never both filled and die with
their task. `Placed` joins the three properties, of which none is inductive alone: that the row
under a key is the first that was not lost needs that an older row of that key is stored, waits or is
lost (`RowsAccounted`), that it does not wait (`RowsInOrder`), and that a flush takes the first
of its batch (`InsertedRows`, the arithmetic of `ON CONFLICT DO NOTHING`). Retained payloads that
the broker repeats are no rows (`RetainedSent`), which is why they may break the order.
`MetaNeverReturns` needs an order of its own (`MetasInOrder`): each stage holds a device's payloads
in the order of its boots, perhaps the same one twice, none is older than those in the stages
behind it or than the one stored, and none is newer than what the broker retains. The last part
is what a reconnection preserves: the broker repeats nothing but its newest.

`RestClientProofs` proves `StoredTokensUsable` for any number of calls and pairs
(`SessionAssumption`). `Exclusive` is the reason: a refresh token in the hand of a call is
live, is not yet stored, and no other call can present it, so that a rotation can only
revoke the stored one. `Issued` makes a new pair differ from all of them.

About the outbox it proves `SyncedRowsApplied`, `RowsExecuteInOrder` and `PendingRowsWatched` for any
number of rows, activations, timeouts and late answers. `OutboxInv` adds what activations may not
share: `ListsLeaveNoGap` (a row before one an activation still has to do is in its list too, or executed),
`RequestsLeaveNoGap` (what is on its way comes after executed rows only), `WaitingForOldest` (a
request somebody waits for is about the oldest row of its list) and `OkWasApplied`. An
activation may start while another runs, and requests nobody waits for any more may be executed
at any time; neither opens a gap, as executed rows stay executed.

`AppTelemetryProofs` proves, about the MQTT service, `ServiceNeverIdle`, `ListenerLives` and `ConnectionIsSingle` without
the bound on what is under way; of `ServiceAssumption` they use that `None` is no client.
`DialsAreApart`: a client that dials is waited for by one call and is not connected,
so a call that ends cannot take the wait of another away; `Busy` strengthens `NeverIdle` to the
dial of `_client`, as `_client` decides what `connect` returns to. `SingleConnection` is inductive with
the types: each action accounts for the client it takes out of `_client`'s place.

About the telemetry tables it proves `LatestCovers`, `NewestRowsStay`, `LastMessagesShow` and
`PrunesSettle` for any timestamps, `KeepCount`, messages, failures and restarts. `StoreInv` is
about the statements in the queue: an INSERT is covered by the latest row
(`InsertsAreCovered`), a cutoff on its way to the DELETE still has `KeepCount` rows above it
(`CutoffsAreOld`, which holds of all rows ever inserted, as the cache itself shrinks), a DELETE settles its
device or another prune is behind it (`DeletesSettle`), and the last message of a device has written
its row or will be the last to do so (`LastSampleTracked`, `LastStatusTracked`). The counting is in
`Newer` of a larger set, of an older row, and of the row a SELECT with OFFSET finds.

`ProvisioningProofs` proves `LastWritesTaken` and `WizardStored` for any number of writes and
resets. `TaskProgress` is what the NimBLE task has done at each of its steps, `HandOver` what
`loop()` may have read since it took the flag: the flag is set last, so that a torn
read is always followed by another turn. `WizardWaits` ties the wizard's wait to the task: while
the link lasts, a task at rest has stored the write.

Only model-checked: liveness (`BufferDrains`, both `Reconnects`, `AcceptedIsStored`, `CallsEnd`,
`PendingDrains`, `WorkerReturns`), as fairness and `ENABLED` are beyond the prover here. The
run that ends in a violation has nothing to prove. No module declares a recursive
operator.

## 6. Not modelled

Sensors, display and PID (real arithmetic, devices); screens, charts, theme; parsing
and formatting beyond whether they raise; Google's verification; the e-mail of a user,
`GET /meta`; database declarations, except keys and constraints where they decide; the
earlier desktop client and deployment files; the app's history provider, which serves
from a cache that is up to ten minutes old. LWT and status of the firmware are left out, as the backend stores
no status message, and so are commands, which set the setpoint of the PID and which
no part of the repository sends to a Vena device.

Inside what is modelled, these simplifications are made:

* `TelemetryUplink!Reset`: the boot count always increases. `bumpBootCount` returns 0 when NVS cannot be opened
  (`main.cpp:79`), and a boot number may then repeat.
* `Provisioning!SaveKey`: writes to NVS succeed. The code ignores the results of `putString` and `nvs_store_jwt`
  (`WifiProvisioner.cpp:29`, `main.cpp:167`).
* `OutboxSync!Succeed`: `markSynced`'s await and the reset of `_processing` that follows it are one step.
* `OutboxSync!Oldest` takes the order of creation; the code sorts by `createdAt`, a wall clock in whole seconds, without
  the id to break a tie. Two rows of one second, or a clock set back, may be sent in another order.
* The worker's branch for 409 (`outbox_worker.dart:62`) is left out: the backend answers a claim of one's own device with
  success and has no 409 (`devices/service.py:36`), although `smoke_test.py:236` expects one.
* `PendingDrains` speaks of rows the server accepts in the end (`Acceptable`): a permanent refusal blocks the outbox, as
  the findings say.
* `SessionRefresh`: the app is not killed between the server's commit of a rotation and the storage of the pair.
* `BufferDrains` is about finitely many samples (`MaxSeq`), so that the drain against an unending stream is seen only as
  far as these last.
* `TelemetryHistory!StoreRow`: a row's `ts` is not in the future; `ingest.py:105` takes what the device sent. A row from
  the future would be above every page of `/history`, which ends at now.
* `TelemetryHistory`: `available` is fixed. A database that moves to a server with other extensions after b2 is not modelled.

## 7. Plan

Written so far, in the order of importance of what they cover: the buffer and its
proof, the uplink on top of it (composed through `BoundedFifo`), the retries, the
backend's ingestion, session, outbox (composed with the backend's services),
telemetry store, MQTT service, provisioning, device registry with broker access
(composed through EXTENDS), telemetry history with its queries (composed in the same
way), and proofs of every safety property of these modules. Next, in this order:

1. The device list's local table in `TelemetryStore`, and flashing in `Provisioning`.
2. An abstract specification of the pipeline from `publish` to `telemetry_raw` that the uplink and
   the ingestion implement together.
3. The app's history and live-data providers, once their invalidator has a caller.
