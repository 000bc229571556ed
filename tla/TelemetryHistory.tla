---------------------------- MODULE TelemetryHistory ----------------------------
(* What becomes of the rows of telemetry_raw: the migrations that set the      *)
(* database up, the continuous aggregates and their refresh jobs, and the two  *)
(* ways rows leave, TimescaleDB's retention and pg_cron's DELETE.  One device; *)
(* its row is its ts.  An aggregate of rows is the set of rows it was computed *)
(* from: COUNT, AVG, MIN and MAX are functions of it.                          *)
EXTENDS Integers, FiniteSets

CONSTANTS
    Hour, Day,       \* in ticks of the clock
    RetentionDays,   \* 90
    HourlyDays,      \* 2 years
    Gap,             \* for each aggregate, the longest time from one run of its
                     \* refresh job to the next, outages included
    Stamps,          \* bound: the timestamps of rows
    MaxTime,         \* bound: the clock
    LastMigration,   \* bound: the last time a migration runs
    MaxLate          \* bound: how late a row is stored

Rollup == {"hourly", "daily"}

(* The policies of the two aggregates: window [now - start, now - end], each   *)
(* schedule interval.                                                          *)
telemetry_hourly == [width |-> Hour, start |-> 3 * Hour, end |-> Hour \div 2, every |-> Hour \div 2]
telemetry_daily == [width |-> Day, start |-> 3 * Day, end |-> Day, every |-> Day \div 4]

policy == [r \in Rollup |-> IF r = "hourly" THEN telemetry_hourly ELSE telemetry_daily]

Retention == RetentionDays * Day

(* The jobs come often enough for a window, and raw rows outlive the windows.  *)
ASSUME HistoryAssumption ==
    /\ Hour \in Nat \ {0} /\ Day \in Nat \ {0}
    /\ RetentionDays \in Nat /\ HourlyDays \in Nat
    /\ Gap \in [Rollup -> Nat]
    /\ \A r \in Rollup :
           /\ policy[r].width + policy[r].end + Gap[r] <= policy[r].start
           /\ policy[r].start <= Retention
    /\ Stamps \subseteq Nat
    /\ MaxTime \in Nat /\ LastMigration \in Nat /\ MaxLate \in Nat

VARIABLES
    now,
    available,   \* the extensions the server offers
    revision,    \* Alembic's: 0, then 1 to 4 for a1, a2, a3 and b2
    hypertable,  \* TimescaleDB is active and telemetry_raw a hypertable
    cron,        \* pg_cron is installed
    scheduled,   \* its clean-up job is in cron.job
    raw,         \* telemetry_raw
    arrived,     \* when each row was first stored, -1 for never
    created,     \* when an aggregate was created, -1 if it does not exist
    refreshed,   \* when its refresh job last ran, -1 for never
    rollup       \* the rows in the buckets of an aggregate

schema == <<available, revision, hypertable, cron, scheduled>>
aggregates == <<created, refreshed, rollup>>
vars == <<now, schema, raw, arrived, aggregates>>

(* date_trunc and time_bucket.                                                 *)
Bucket(ts, width) == width * (ts \div width)

(* Before a1: the table is there, and rows may come before the next migration. *)
Init ==
    /\ now = 0 /\ revision = 0
    /\ available \in SUBSET {"timescaledb", "pg_cron"}
    /\ hypertable = FALSE /\ cron = FALSE /\ scheduled = FALSE
    /\ raw = {} /\ arrived = [ts \in Stamps |-> -1]
    /\ created = [r \in Rollup |-> -1] /\ refreshed = [r \in Rollup |-> -1]
    /\ rollup = [r \in Rollup |-> {}]

--------------------------------------------------------------------------------
(* The migrations.                                                             *)

Upgrade(to) == now <= LastMigration /\ revision = to - 1 /\ revision' = to

(* a1: rows move into the hypertable, and its retention policy is added.       *)
UpgradeHypertable ==
    /\ Upgrade(1)
    /\ hypertable' = ("timescaledb" \in available)
    /\ UNCHANGED <<now, available, cron, scheduled, raw, arrived, aggregates>>

(* What a2 and a3 do: the view starts WITH NO DATA; its job is scheduled.      *)
CreateAggregate(r) ==
    /\ created' = IF hypertable THEN [created EXCEPT ![r] = now] ELSE created
    /\ UNCHANGED <<now, available, hypertable, cron, scheduled, raw, arrived,
                   refreshed, rollup>>

(* a2 and a3; both are skipped where TimescaleDB is not active.                *)
UpgradeHourly == Upgrade(2) /\ CreateAggregate("hourly")
UpgradeDaily == Upgrade(3) /\ CreateAggregate("daily")

(* b2: nothing to do with TimescaleDB; without either, rows stay for ever.     *)
UpgradeCleanup ==
    /\ Upgrade(4)
    /\ LET uses == ~hypertable /\ "pg_cron" \in available IN
       /\ cron' = (cron \/ uses)
       /\ scheduled' = (scheduled \/ uses)
    /\ UNCHANGED <<now, available, hypertable, raw, arrived, aggregates>>

DropAggregate(r) ==
    /\ created' = [created EXCEPT ![r] = -1]
    /\ refreshed' = [refreshed EXCEPT ![r] = -1]
    /\ rollup' = [rollup EXCEPT ![r] = {}]
    /\ UNCHANGED <<now, available, hypertable, cron, scheduled, raw, arrived>>

Downgrade(from) == now <= LastMigration /\ revision = from /\ revision' = from - 1

(* b2's downgrade reads cron.job: without pg_cron it fails, and stays at b2.   *)
DowngradeCleanup ==
    /\ cron /\ Downgrade(4)
    /\ scheduled' = FALSE
    /\ UNCHANGED <<now, available, hypertable, cron, raw, arrived, aggregates>>

DowngradeDaily == Downgrade(3) /\ DropAggregate("daily")
DowngradeHourly == Downgrade(2) /\ DropAggregate("hourly")

--------------------------------------------------------------------------------
(* Rows and jobs.                                                              *)

(* The ingestor's INSERT ... ON CONFLICT DO NOTHING; a row may be late.        *)
StoreRow(ts) ==
    /\ ts <= now /\ now <= ts + MaxLate /\ ts \notin raw
    /\ raw' = raw \cup {ts}
    /\ arrived' = [arrived EXCEPT ![ts] = IF @ = -1 THEN now ELSE @]
    /\ UNCHANGED <<now, schema, aggregates>>

(* Mutant: the window begins one bucket too late.                              *)
LateWindow(r, b) ==
    now - policy[r].start + policy[r].width < b /\ b + policy[r].width + policy[r].end <= now

(* A refresh takes the buckets that lie in its window as a whole.              *)
InWindow(r, b) ==
    now - policy[r].start <= b /\ b + policy[r].width + policy[r].end <= now

BucketIn(r, ts) == Bucket(ts, policy[r].width)

(* The refresh job replaces each bucket of its window by what raw holds.       *)
Refresh(r) ==
    /\ created[r] # -1
    /\ refreshed[r] = -1 \/ refreshed[r] + policy[r].every <= now
    /\ refreshed' = [refreshed EXCEPT ![r] = now]
    /\ rollup' = [rollup EXCEPT ![r] =
                     {ts \in @ : ~InWindow(r, BucketIn(r, ts))}
                     \cup {ts \in raw : InWindow(r, BucketIn(r, ts))}]
    /\ UNCHANGED <<now, schema, raw, arrived, created>>

(* Mutant: every chunk that begins before the cut.                             *)
ChunkBegins(ts) == Bucket(ts, Day) < now - Retention

(* TimescaleDB drops whole chunks of one day, when all of one is too old.      *)
Expired(ts) == Bucket(ts, Day) + Day <= now - Retention

DropChunks ==
    /\ hypertable
    /\ \E ts \in raw : Expired(ts)
    /\ raw' = {ts \in raw : ~Expired(ts)}
    /\ UNCHANGED <<now, schema, arrived, aggregates>>

(* The DELETE of the pg_cron job.                                              *)
TooOld(ts) == ts < now - Retention

CronDelete ==
    /\ scheduled
    /\ \E ts \in raw : TooOld(ts)
    /\ raw' = {ts \in raw : ~TooOld(ts)}
    /\ UNCHANGED <<now, schema, arrived, aggregates>>

(* The hourly aggregate's own retention, up to a chunk of it.                  *)
DropHourly ==
    /\ \E cut \in 1 .. now - HourlyDays * Day :
           /\ \E ts \in rollup["hourly"] : BucketIn("hourly", ts) + Hour <= cut
           /\ rollup' = [rollup EXCEPT !["hourly"] =
                            {ts \in @ : BucketIn("hourly", ts) + Hour > cut}]
    /\ UNCHANGED <<now, schema, raw, arrived, created, refreshed>>

LastRun(r) == IF refreshed[r] = -1 THEN created[r] ELSE refreshed[r]

(* The clock waits for a job that is late by more than its gap.                *)
Tick ==
    /\ now < MaxTime /\ now' = now + 1
    /\ \A r \in Rollup : created[r] # -1 => now < LastRun(r) + Gap[r]
    /\ UNCHANGED <<schema, raw, arrived, aggregates>>

Next ==
    \/ UpgradeHypertable \/ UpgradeHourly \/ UpgradeDaily \/ UpgradeCleanup
    \/ DowngradeCleanup \/ DowngradeDaily \/ DowngradeHourly
    \/ \E ts \in Stamps : StoreRow(ts)
    \/ \E r \in Rollup : Refresh(r)
    \/ DropChunks \/ CronDelete \/ DropHourly \/ Tick

Spec == Init /\ [][Next]_vars

--------------------------------------------------------------------------------

TypeOK ==
    /\ now \in Nat /\ revision \in 0 .. 4
    /\ available \subseteq {"timescaledb", "pg_cron"}
    /\ hypertable \in BOOLEAN /\ cron \in BOOLEAN /\ scheduled \in BOOLEAN
    /\ raw \subseteq Stamps /\ arrived \in [Stamps -> Nat \cup {-1}]
    /\ created \in [Rollup -> Nat \cup {-1}] /\ refreshed \in [Rollup -> Nat \cup {-1}]
    /\ rollup \in [Rollup -> SUBSET Stamps]

(* A row is in time for an aggregate when a run of the job is sure to follow   *)
(* its arrival, and the view's creation, before its bucket leaves the window.  *)
InTime(r, ts) ==
    /\ created[r] # -1 /\ arrived[ts] # -1
    /\ arrived[ts] + Gap[r] <= BucketIn(r, ts) + policy[r].start
    /\ created[r] + Gap[r] <= BucketIn(r, ts) + policy[r].start

KeptBy(r, ts) == r = "hourly" => now - HourlyDays * Day < BucketIn(r, ts) + Hour

(* Raw data is preserved in the aggregates beyond its own retention: once its  *)
(* bucket has left the refresh window, a row that came in time is in it, and   *)
(* no later refresh, drop or migration of the other aggregate takes it out.    *)
RollupsKeepHistory ==
    \A r \in Rollup : \A ts \in Stamps :
        InTime(r, ts) /\ KeptBy(r, ts) /\ BucketIn(r, ts) + policy[r].start < now
            => ts \in rollup[r]

(* Neither retention takes a row of the last RetentionDays, whichever of the   *)
(* two the migrations have set up, and however late it was stored.             *)
RecentRowsAreKept ==
    \A ts \in Stamps : arrived[ts] # -1 /\ now - Retention <= ts => ts \in raw
================================================================================
