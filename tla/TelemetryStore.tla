---------------------------- MODULE TelemetryStore ----------------------------
(* The app's telemetry tables: what MqttMessageHandler and the BLE telemetry   *)
(* listener write into latest_states, telemetry_cache and devices.  A handler  *)
(* is never awaited by its stream, so the statements of several handlers are   *)
(* under way at a time; the database executes them in the order of issue.      *)
EXTENDS Naturals, Sequences, FiniteSets

CONSTANTS
    Device,
    Timestamps,   \* the ts values of telemetry
    KeepCount,    \* keepCount of pruneOldEntries, 1000
    MaxMessages,  \* bound: messages
    MaxFaults     \* bound: failed statements and restarts of the app

ASSUME StoreAssumption ==
    /\ Timestamps \subseteq Nat \ {0}
    /\ KeepCount \in Nat \ {0} /\ MaxMessages \in Nat /\ MaxFaults \in Nat

NoRow == [ts |-> 0, online |-> FALSE]
NoMessage == [device |-> "none"]

Telemetry == [device : Device, kind : {"telemetry"}, ts : Timestamps]
Status == [device : Device, kind : {"status"}, online : BOOLEAN]

VARIABLES
    latest,     \* latest_states, NoRow for a device without a row
    cache,      \* telemetry_cache: the timestamps of each device's rows
    status,     \* devices.status is "online", as far as the handlers write it
    queue,      \* statements issued and not executed: [op, msg, cutoff]
    last,       \* the last message of each device, while nothing failed since
    inserted,   \* timestamps ever inserted into the cache
    messages, faults

tables == <<latest, cache, status>>
bounds == <<messages, faults>>
storeVars == <<tables, queue, last, inserted, bounds>>

StoreInit ==
    /\ latest = [d \in Device |-> NoRow]
    /\ cache = [d \in Device |-> {}]
    /\ status = [d \in Device |-> FALSE]
    /\ queue = << >>
    /\ last = [d \in Device |-> NoMessage]
    /\ inserted = [d \in Device |-> {}]
    /\ messages = 0 /\ faults = 0

--------------------------------------------------------------------------------
(* The statements of a handler.                                                *)

Statement(op, msg, cutoff) == [op |-> op, msg |-> msg, cutoff |-> cutoff]

(* Mutants of FirstOp: a status that leaves latest_states as it is, and        *)
(* telemetry that never upserts it.                                            *)
StatusSkipsLatest(msg) == IF msg.kind = "telemetry" THEN "upsert" ELSE "setStatus"

TelemetrySkipsLatest(msg) == IF msg.kind = "telemetry" THEN "insert" ELSE "setOnline"

(* What _handleTelemetry and _handleStatus issue first.                        *)
FirstOp(msg) == IF msg.kind = "telemetry" THEN "upsert" ELSE "setOnline"

(* What they issue when s is done; cutoff is the row a SELECT found, or 0.     *)
Continuation(s, cutoff) ==
    CASE s.op = "upsert" -> <<Statement("insert", s.msg, 0)>>
      [] s.op = "insert" -> <<Statement("select", s.msg, 0)>>
      [] s.op = "select" /\ cutoff # 0 -> <<Statement("delete", s.msg, cutoff)>>
      [] s.op = "setOnline" -> <<Statement("setStatus", s.msg, 0)>>
      [] OTHER -> << >>

(* handle runs up to its first await: the first statement is issued with the   *)
(* message.  MQTT and BLE telemetry take the same way.                         *)
Handle(msg) ==
    /\ messages < MaxMessages /\ messages' = messages + 1
    /\ queue' = Append(queue, Statement(FirstOp(msg), msg, 0))
    /\ last' = [last EXCEPT ![msg.device] = msg]
    /\ UNCHANGED <<tables, inserted, faults>>

(* The oldest statement issued runs, and its handler goes on.                  *)
Done(s, cutoff) == queue' = Tail(queue) \o Continuation(s, cutoff)

Runs(op) == queue # << >> /\ Head(queue).op = op

--------------------------------------------------------------------------------
(* TelemetryDao.                                                               *)

(* Mutant: no WHERE in the conflict clause.                                    *)
UpsertAlways(row, msg) == [ts |-> msg.ts, online |-> TRUE]

(* upsertLatestState: only a strictly newer ts replaces the row.               *)
Upserted(row, msg) ==
    IF row.ts < msg.ts THEN [ts |-> msg.ts, online |-> TRUE] ELSE row

UpsertLatestState ==
    /\ Runs("upsert")
    /\ LET s == Head(queue) IN
       /\ latest' = [latest EXCEPT ![s.msg.device] = Upserted(@, s.msg)]
       /\ Done(s, 0)
    /\ UNCHANGED <<cache, status, last, inserted, bounds>>

(* The key is (device, ts): a second sample of the same ts replaces the first. *)
InsertTelemetryCache ==
    /\ Runs("insert")
    /\ LET s == Head(queue) IN
       /\ cache' = [cache EXCEPT ![s.msg.device] = @ \cup {s.msg.ts}]
       /\ inserted' = [inserted EXCEPT ![s.msg.device] = @ \cup {s.msg.ts}]
       /\ Done(s, 0)
    /\ UNCHANGED <<latest, status, last, bounds>>

Newer(rows, ts) == {t \in rows : t > ts}

(* Mutants: the offset is one too small, and the DELETE spares the cutoff.     *)
CutoffTooHigh(rows) ==
    IF Cardinality(rows) < KeepCount THEN 0
    ELSE CHOOSE t \in rows : Cardinality(Newer(rows, t)) = KeepCount - 1

KeepsCutoff(rows, cutoff) == {t \in rows : t >= cutoff}

(* The (keepCount + 1)-th newest row, 0 if there is none.                      *)
Cutoff(rows) ==
    IF Cardinality(rows) <= KeepCount THEN 0
    ELSE CHOOSE t \in rows : Cardinality(Newer(rows, t)) = KeepCount

Deleted(rows, cutoff) == Newer(rows, cutoff)

(* pruneOldEntries, in two statements.                                         *)
SelectCutoff ==
    /\ Runs("select")
    /\ LET s == Head(queue) IN Done(s, Cutoff(cache[s.msg.device]))
    /\ UNCHANGED <<tables, last, inserted, bounds>>

DeleteOld ==
    /\ Runs("delete")
    /\ LET s == Head(queue) IN
       /\ cache' = [cache EXCEPT ![s.msg.device] = Deleted(@, s.cutoff)]
       /\ Done(s, 0)
    /\ UNCHANGED <<latest, status, last, inserted, bounds>>

--------------------------------------------------------------------------------
(* _handleStatus: an UPDATE changes a row that is there.                       *)

SetOnline ==
    /\ Runs("setOnline")
    /\ LET s == Head(queue) IN
       /\ latest' = IF latest[s.msg.device] = NoRow THEN latest
                    ELSE [latest EXCEPT ![s.msg.device].online = s.msg.online]
       /\ Done(s, 0)
    /\ UNCHANGED <<cache, status, last, inserted, bounds>>

SetStatus ==
    /\ Runs("setStatus")
    /\ LET s == Head(queue) IN
       /\ status' = [status EXCEPT ![s.msg.device] = s.msg.online]
       /\ Done(s, 0)
    /\ UNCHANGED <<latest, cache, last, inserted, bounds>>

--------------------------------------------------------------------------------

(* handle catches what a statement throws: the rest of its own is not issued.  *)
StatementFails ==
    /\ queue # << >> /\ faults < MaxFaults /\ faults' = faults + 1
    /\ queue' = Tail(queue)
    /\ last' = [last EXCEPT ![Head(queue).msg.device] = NoMessage]
    /\ UNCHANGED <<tables, inserted, messages>>

(* The app is killed and started again: what was issued is gone.               *)
AppRestarts ==
    /\ faults < MaxFaults /\ faults' = faults + 1
    /\ queue' = << >>
    /\ last' = [d \in Device |-> NoMessage]
    /\ UNCHANGED <<tables, inserted, messages>>

StoreNext ==
    \/ \E msg \in Telemetry \cup Status : Handle(msg)
    \/ UpsertLatestState \/ InsertTelemetryCache \/ SelectCutoff \/ DeleteOld
    \/ SetOnline \/ SetStatus \/ StatementFails \/ AppRestarts

StoreSpec == StoreInit /\ [][StoreNext]_storeVars

--------------------------------------------------------------------------------

Ops == {"upsert", "insert", "select", "delete", "setOnline", "setStatus"}

(* Type invariant.  A DELETE always has a cutoff, and only it.                 *)
StoreTypeOK ==
    /\ latest \in [Device -> [ts : {0} \cup Timestamps, online : BOOLEAN]]
    /\ cache \in [Device -> SUBSET Timestamps]
    /\ status \in [Device -> BOOLEAN]
    /\ \A i \in DOMAIN queue :
           /\ queue[i].op \in Ops /\ queue[i].msg \in Telemetry \cup Status
           /\ IF queue[i].op = "delete" THEN queue[i].cutoff \in Timestamps
                                        ELSE queue[i].cutoff = 0
    /\ last \in [Device -> Telemetry \cup Status \cup {NoMessage}]
    /\ messages \in 0 .. MaxMessages /\ faults \in 0 .. MaxFaults

(* The card and the chart of a device agree: the latest row is at least as new *)
(* as every row of the cache, through failed statements and restarts.          *)
LatestCoversCache == \A d \in Device : \A t \in cache[d] : t <= latest[d].ts

(* Pruning never takes one of the newest keepCount rows, although the cutoff   *)
(* is read one statement before it is used and rows arrive late and in between.*)
CacheKeepsNewest ==
    \A d \in Device : \A t \in inserted[d] :
        Cardinality(Newer(inserted[d], t)) < KeepCount => t \in cache[d]

(* A prune that is the last to run leaves at most keepCount rows, whatever     *)
(* earlier handlers left behind by failing.                                    *)
PruneSettles ==
    [][(SelectCutoff \/ DeleteOld) /\ queue' = << >>
           => Cardinality(cache'[Head(queue).msg.device]) <= KeepCount]_storeVars

(* When the statements have run, the latest row shows a device's last message: *)
(* a status message sets the flag, and telemetry is in the row unless the row  *)
(* was newer already.  A message never overtakes one handled before it.        *)
LastMessageShows ==
    queue = << >> => \A d \in Device :
        LET msg == last[d] IN
        /\ msg \in Status /\ latest[d] # NoRow => latest[d].online = msg.online
        /\ msg \in Telemetry => msg.ts <= latest[d].ts
================================================================================
