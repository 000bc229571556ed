---------------------------- MODULE TelemetryIngest ----------------------------
(* The backend's ingestion pipeline: the MQTT client's thread, the asyncio     *)
(* queue it hands messages to, the ingestor task that batches rows into the    *)
(* database, and the lifespan that starts and stops both.  Messages are        *)
(* numbered in the order the broker forwards them; a row's key is its          *)
(* (device_id, ts) pair.                                                       *)
EXTENDS Naturals, Sequences, FiniteSets, SequencesExt

CONSTANTS
    Device,
    LastMessage,    \* bound: messages, numbered in the broker's order
    Rows,           \* the messages _parse turns into a row
    Metas,          \* the messages on a meta topic
    Broken,         \* those that make _parse raise what it does not catch, as
                    \* JSON that is no object does; the rest yields no row
    Key,            \* Key[m]: what (device_id, ts) stands for, for a row
    DeviceOf,       \* DeviceOf[m]: the device in the topic
    QueueSize,      \* maxsize of the asyncio queue, 10_000
    BatchSize,      \* _BATCH_SIZE
    MaxFailures,    \* bound: database errors
    MaxOutages      \* bound: losses of the broker connection and restarts

Message == 1 .. LastMessage

ASSUME IngestAssumption ==
    /\ LastMessage \in Nat
    /\ Rows \cup Metas \cup Broken \subseteq Message
    /\ Rows \cap Metas = {} /\ Rows \cap Broken = {} /\ Metas \cap Broken = {}
    /\ DeviceOf \in [Message -> Device]
    /\ DOMAIN Key = Rows
    /\ \A m, n \in Rows : Key[m] = Key[n] => DeviceOf[m] = DeviceOf[n]
    /\ QueueSize \in Nat \ {0} /\ BatchSize \in Nat \ {0}
    /\ MaxFailures \in Nat /\ MaxOutages \in Nat

VARIABLES
    forwarded,  \* messages the broker has forwarded
    retained,   \* retained meta message of each device, 0 if none
    phase,      \* "up", "cancelling", "draining", "down"
    subscribed, \* the worker has a connection and its subscriptions
    handoff,    \* call_soon_threadsafe callbacks not run yet
    queue,      \* asyncio.Queue
    task,       \* _run: "get", "meta", "flush", or "dead" after an exception
    batch,      \* the local of _run
    inHand,     \* the meta message being upserted, 0 if none
    remaining,  \* the local of stop()
    table,      \* telemetry_raw: the message whose row is stored under a key
    devices,    \* devices: the registered ids
    deviceMeta, \* device_meta: the message stored for a device, 0 if none
    lost,       \* [cause |-> messages]
    failures, outages

server == <<handoff, queue, task, batch, inHand, remaining>>
database == <<table, devices, deviceMeta>>
bounds == <<failures, outages>>
vars == <<forwarded, retained, phase, subscribed, server, database, lost, bounds>>

Causes == {"missed", "overflow", "failed", "broken", "cancelled", "undrained", "crashed"}
Keys == {Key[m] : m \in Rows}

Lose(cause, ms) == lost' = [lost EXCEPT ![cause] = @ \cup ms]

Init ==
    /\ forwarded = 0 /\ retained = [d \in Device |-> 0]
    /\ phase = "up" /\ subscribed = FALSE
    /\ handoff = << >> /\ queue = << >> /\ task = "get" /\ batch = << >>
    /\ inHand = 0 /\ remaining = << >>
    /\ table = << >> /\ devices = {} /\ deviceMeta = [d \in Device |-> 0]
    /\ lost = [c \in Causes |-> {}]
    /\ failures = 0 /\ outages = 0

--------------------------------------------------------------------------------
(* Mosquitto and MqttWorker.                                                   *)

Forward(m) ==
    /\ m \in Message /\ m = forwarded + 1 /\ forwarded' = m
    /\ retained' = IF m \in Metas THEN [retained EXCEPT ![DeviceOf[m]] = m] ELSE retained

(* _on_message, on the client's thread.                                        *)
OnMessage ==
    /\ phase = "up" /\ subscribed
    /\ Forward(forwarded + 1)
    /\ handoff' = Append(handoff, forwarded + 1)
    /\ UNCHANGED <<phase, subscribed, queue, task, batch, inHand, remaining, database,
                   lost, bounds>>

(* The session ends with the connection: what is published without one is gone.*)
MissMessage ==
    /\ phase # "up" \/ ~subscribed
    /\ Forward(forwarded + 1)
    /\ Lose("missed", {forwarded + 1})
    /\ UNCHANGED <<phase, subscribed, server, database, bounds>>

LoseConnection ==
    /\ phase = "up" /\ subscribed
    /\ outages < MaxOutages /\ outages' = outages + 1
    /\ subscribed' = FALSE
    /\ UNCHANGED <<forwarded, retained, phase, server, database, lost, failures>>

(* _on_connect subscribes again, and the broker sends what it retains.         *)
OnConnect ==
    /\ phase = "up" /\ ~subscribed /\ subscribed' = TRUE
    /\ \E metas \in SetToSeqs({retained[d] : d \in Device} \ {0}) :
           handoff' = handoff \o metas
    /\ UNCHANGED <<forwarded, retained, phase, queue, task, batch, inHand, remaining,
                   database, lost, bounds>>

(* Mutant: a LifoQueue.                                                        *)
PutInFront ==
    /\ phase # "down" /\ handoff # << >> /\ Len(queue) < QueueSize
    /\ handoff' = Tail(handoff)
    /\ queue' = <<Head(handoff)>> \o queue
    /\ UNCHANGED <<forwarded, retained, phase, subscribed, task, batch, inHand,
                   remaining, database, lost, bounds>>

(* The event loop runs put_nowait: QueueFull is raised here, in the loop, not  *)
(* in the thread's try block, and the message is gone.                         *)
PutNowait ==
    /\ phase # "down" /\ handoff # << >>
    /\ handoff' = Tail(handoff)
    /\ IF Len(queue) < QueueSize
       THEN queue' = Append(queue, Head(handoff)) /\ UNCHANGED lost
       ELSE Lose("overflow", {Head(handoff)}) /\ UNCHANGED queue
    /\ UNCHANGED <<forwarded, retained, phase, subscribed, task, batch, inHand,
                   remaining, database, bounds>>

--------------------------------------------------------------------------------
(* The database.                                                               *)

(* Mutant: ON CONFLICT DO UPDATE.                                              *)
InsertedOver(t, ms) ==
    [k \in DOMAIN t \cup {Key[m] : m \in Range(ms)} |->
        IF \E m \in Range(ms) : Key[m] = k
        THEN CHOOSE m \in Range(ms) : Key[m] = k ELSE t[k]]

(* INSERT ... ON CONFLICT (device_id, ts) DO NOTHING, row by row.              *)
Inserted(t, ms) ==
    LET first(k) == CHOOSE m \in Range(ms) :
                        /\ Key[m] = k
                        /\ \A i \in DOMAIN ms : Key[ms[i]] = k =>
                               \E j \in 1 .. i : ms[j] = m
    IN [k \in DOMAIN t \cup {Key[m] : m \in Range(ms)} |->
            IF k \in DOMAIN t THEN t[k] ELSE first(k)]

(* _flush, one transaction.                                                    *)
Flush(ms) ==
    /\ table' = Inserted(table, ms)
    /\ devices' = devices \cup {DeviceOf[m] : m \in Range(ms)}
    /\ UNCHANGED deviceMeta

(* _handle_meta, one transaction.                                              *)
UpsertMeta(m) ==
    /\ deviceMeta' = [deviceMeta EXCEPT ![DeviceOf[m]] = m]
    /\ devices' = devices \cup {DeviceOf[m]}
    /\ UNCHANGED table

DatabaseFails ==
    /\ failures < MaxFailures /\ failures' = failures + 1
    /\ UNCHANGED <<outages, database>>

--------------------------------------------------------------------------------
(* TelemetryIngestor._run.                                                     *)

(* should_flush: a full batch always, a partial one when the interval is over. *)
AfterItem(b) ==
    IF Len(b) >= BatchSize THEN {"flush"}
    ELSE IF b # << >> THEN {"flush", "get"} ELSE {"get"}

GetItem ==
    /\ phase = "up" /\ task = "get" /\ queue # << >> /\ Head(queue) \notin Broken
    /\ queue' = Tail(queue)
    /\ LET m == Head(queue) IN
       IF m \in Metas
       THEN /\ inHand' = m /\ task' = "meta"
            /\ UNCHANGED batch
       ELSE /\ batch' = IF m \in Rows THEN Append(batch, m) ELSE batch
            /\ task' \in AfterItem(batch')
            /\ UNCHANGED inHand
    /\ UNCHANGED <<forwarded, retained, phase, subscribed, handoff, remaining, database,
                   lost, bounds>>

(* Mutants: a timeout flushes full batches only, and a flush that leaves the   *)
(* batch as it is.                                                             *)
FullBatchTimesOut ==
    /\ phase = "up" /\ task = "get" /\ queue = << >> /\ Len(batch) >= BatchSize
    /\ task' = "flush"
    /\ UNCHANGED <<forwarded, retained, phase, subscribed, handoff, queue, batch, inHand,
                   remaining, database, lost, bounds>>

FlushKeepsBatch ==
    /\ phase = "up" /\ task = "flush"
    /\ Flush(batch)
    /\ task' = "get"
    /\ UNCHANGED <<forwarded, retained, phase, subscribed, handoff, queue, batch, inHand,
                   remaining, lost, bounds>>

(* The wait for an item timed out with rows in the batch.                      *)
GetTimesOut ==
    /\ phase = "up" /\ task = "get" /\ queue = << >> /\ batch # << >>
    /\ task' = "flush"
    /\ UNCHANGED <<forwarded, retained, phase, subscribed, handoff, queue, batch, inHand,
                   remaining, database, lost, bounds>>

FlushCommits ==
    /\ phase = "up" /\ task = "flush"
    /\ Flush(batch)
    /\ batch' = << >> /\ task' = "get"
    /\ UNCHANGED <<forwarded, retained, phase, subscribed, handoff, queue, inHand,
                   remaining, lost, bounds>>

MetaCommits ==
    /\ phase = "up" /\ task = "meta"
    /\ UpsertMeta(inHand)
    /\ inHand' = 0
    /\ task' \in AfterItem(batch)
    /\ UNCHANGED <<forwarded, retained, phase, subscribed, handoff, queue, batch,
                   remaining, lost, bounds>>

(* An exception ends the task, and its locals go with it; nobody restarts it.  *)
TaskDies ==
    /\ phase = "up" /\ task' = "dead" /\ batch' = << >> /\ inHand' = 0
    /\ \/ /\ task \in {"flush", "meta"}
          /\ DatabaseFails
          /\ Lose("failed", Range(batch) \cup ({inHand} \ {0}))
          /\ UNCHANGED queue
       \/ /\ task = "get" /\ queue # << >> /\ Head(queue) \in Broken
          /\ queue' = Tail(queue)
          /\ Lose("broken", Range(batch) \cup {Head(queue)})
          /\ UNCHANGED <<database, bounds>>
    /\ UNCHANGED <<forwarded, retained, subscribed, phase, handoff, remaining>>

--------------------------------------------------------------------------------
(* The lifespan's shutdown: MqttWorker.stop, then TelemetryIngestor.stop.      *)

StopWorker ==
    /\ phase = "up" /\ phase' = "cancelling" /\ subscribed' = FALSE
    /\ UNCHANGED <<forwarded, retained, server, database, lost, bounds>>

(* await self._task: the task's locals are gone with it.  A task that died     *)
(* re-raises its exception here, and stop() does not reach the drain.          *)
CancelTask ==
    /\ phase = "cancelling"
    /\ IF task = "dead"
       THEN /\ phase' = "down"
            /\ Lose("undrained", Range(handoff) \cup Range(queue))
            /\ handoff' = << >> /\ queue' = << >>
            /\ UNCHANGED <<batch, inHand>>
       ELSE /\ phase' = "draining"
            /\ Lose("cancelled", Range(batch) \cup ({inHand} \ {0}))
            /\ batch' = << >> /\ inHand' = 0
            /\ UNCHANGED <<handoff, queue>>
    /\ UNCHANGED <<forwarded, retained, subscribed, task, remaining, database, bounds>>

(* Mutant: the drain keeps the last row only.                                  *)
DrainKeepsLastRow ==
    /\ phase = "draining" /\ queue # << >>
    /\ Head(queue) \notin Metas \cup Broken
    /\ queue' = Tail(queue)
    /\ remaining' = IF Head(queue) \in Rows THEN <<Head(queue)>> ELSE remaining
    /\ UNCHANGED <<forwarded, retained, phase, subscribed, handoff, task, batch, inHand,
                   database, lost, bounds>>

(* One turn of the drain: a row is kept for the last flush.                    *)
DrainItem ==
    /\ phase = "draining" /\ queue # << >>
    /\ Head(queue) \notin Metas \cup Broken
    /\ queue' = Tail(queue)
    /\ remaining' = IF Head(queue) \in Rows THEN Append(remaining, Head(queue))
                                            ELSE remaining
    /\ UNCHANGED <<forwarded, retained, phase, subscribed, handoff, task, batch, inHand,
                   database, lost, bounds>>

DrainMeta ==
    /\ phase = "draining" /\ queue # << >> /\ Head(queue) \in Metas
    /\ UpsertMeta(Head(queue))
    /\ queue' = Tail(queue)
    /\ UNCHANGED <<forwarded, retained, phase, subscribed, handoff, task, batch, inHand,
                   remaining, lost, bounds>>

Gone == Range(handoff) \cup Range(queue) \cup Range(batch) \cup Range(remaining)
            \cup ({inHand} \ {0})

ProcessEnds ==
    /\ phase' = "down" /\ subscribed' = FALSE
    /\ handoff' = << >> /\ queue' = << >> /\ batch' = << >> /\ remaining' = << >>
    /\ inHand' = 0
    /\ UNCHANGED <<forwarded, retained, task>>

LastFlush ==
    /\ phase = "draining" /\ queue = << >>
    /\ Flush(remaining)
    /\ Lose("undrained", Range(handoff))
    /\ ProcessEnds
    /\ UNCHANGED bounds

(* stop() lets an exception through: what it had collected is gone.            *)
DrainFails ==
    /\ phase = "draining"
    /\ \/ /\ IF queue # << >> THEN Head(queue) \in Metas ELSE remaining # << >>
          /\ DatabaseFails
          /\ Lose("failed", Gone)
       \/ /\ queue # << >> /\ Head(queue) \in Broken
          /\ Lose("broken", Gone)
          /\ UNCHANGED <<database, bounds>>
    /\ ProcessEnds

Crash ==
    /\ phase # "down"
    /\ outages < MaxOutages
    /\ Lose("crashed", Gone)
    /\ ProcessEnds
    /\ UNCHANGED <<database, bounds>>

Restart ==
    /\ phase = "down" /\ outages < MaxOutages
    /\ outages' = outages + 1
    /\ phase' = "up" /\ task' = "get"
    /\ UNCHANGED <<forwarded, retained, subscribed, handoff, queue, batch, inHand,
                   remaining, database, lost, failures>>

--------------------------------------------------------------------------------

Ingest == GetItem \/ GetTimesOut \/ FlushCommits \/ MetaCommits \/ TaskDies
Shutdown == CancelTask \/ DrainItem \/ DrainMeta \/ LastFlush \/ DrainFails

Next ==
    \/ OnMessage \/ MissMessage \/ LoseConnection \/ OnConnect \/ PutNowait
    \/ Ingest \/ StopWorker \/ Shutdown \/ Crash \/ Restart

(* The event loop runs what is ready; nothing forces messages, reconnections,  *)
(* stops, crashes or restarts.                                                 *)
Spec == Init /\ [][Next]_vars /\ WF_vars(PutNowait) /\ WF_vars(Ingest) /\ WF_vars(Shutdown)

--------------------------------------------------------------------------------

Stored(m) == Key[m] \in DOMAIN table
Pending == Gone
Lost == UNION {lost[c] : c \in Causes}

(* Type invariant.                                                             *)
TypeOK ==
    /\ forwarded \in {0} \cup Message
    /\ retained \in [Device -> {0} \cup Metas] /\ deviceMeta \in [Device -> {0} \cup Metas]
    /\ phase \in {"up", "cancelling", "draining", "down"}
    /\ subscribed => phase = "up"
    /\ task \in {"get", "meta", "flush", "dead"}
    /\ handoff \in Seq(Message) /\ queue \in Seq(Message) /\ Len(queue) <= QueueSize
    /\ batch \in Seq(Rows) /\ Len(batch) <= BatchSize /\ remaining \in Seq(Rows)
    /\ inHand \in {0} \cup Metas /\ (inHand # 0 => task = "meta")
    /\ DOMAIN table \subseteq Keys /\ devices \subseteq Device
    /\ \A c \in Causes : lost[c] \subseteq Message

(* A row the broker forwarded is stored, on its way, or lost to a cause that   *)
(* has a name: no path of _run, stop or the queue drops one unseen.            *)
EveryRowIsAccounted ==
    \A m \in Rows : m <= forwarded => Stored(m) \/ m \in Pending \/ m \in Lost

(* A row is stored under its own key, with its device registered before it     *)
(* (the foreign key of telemetry_raw), and never twice: the row under a key is *)
(* the one that arrived first among those that were not lost.                  *)
StoredRowsAreSound ==
    \A k \in DOMAIN table :
        /\ Key[table[k]] = k
        /\ DeviceOf[table[k]] \in devices
        /\ \A m \in Rows : Key[m] = k /\ m < table[k] => m \in Lost

(* The pipeline never reorders: when a row is in the table, no row forwarded   *)
(* before it still waits, neither in the queue nor in a batch.                 *)
StoredInOrder ==
    \A k \in DOMAIN table : \A m \in Pending \cap Rows : table[k] < m

(* device_meta never goes back to an older boot's payload, also when a restart *)
(* makes the broker send the retained payload again.                           *)
MetaNeverGoesBack == [][\A d \in Device : deviceMeta'[d] >= deviceMeta[d]]_vars

(* What the event loop accepted gets stored, unless it is lost or the task has *)
(* died.                                                                       *)
AcceptedIsStored ==
    \A m \in Rows : m \in Range(queue) ~> (Stored(m) \/ m \in Lost \/ task = "dead")
================================================================================
