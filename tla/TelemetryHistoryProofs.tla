-------------------------- MODULE TelemetryHistoryProofs -------------------------
(* Proofs about the life of telemetry rows, for any lengths of the windows,    *)
(* the retentions and the gaps between two runs of a job, and about what       *)
(* /history answers from them, for any ranges.                                 *)
EXTENDS HistoryQuery, FiniteSetTheorems, TLAPS

(* What the proofs use of div.                                                 *)
LEMMA BucketHolds ==
    ASSUME NEW ts \in Nat, NEW width \in Nat \ {0}
    PROVE  /\ Bucket(ts, width) \in Nat
           /\ Bucket(ts, width) <= ts /\ ts < Bucket(ts, width) + width
  BY SMTT(60) DEF Bucket

LEMMA PolicyFacts ==
    ASSUME NEW r \in Rollup
    PROVE  /\ policy[r].width \in Nat \ {0}
           /\ policy[r].start \in Nat /\ policy[r].end \in Nat
           /\ Gap[r] \in Nat
           /\ policy[r].width + policy[r].end + Gap[r] <= policy[r].start
           /\ policy[r].start <= Retention
           /\ Retention \in Nat
           /\ r = "hourly" => policy[r].width = Hour
  <1>1. Hour \div 2 \in Nat
    BY HistoryAssumption, SMTT(60)
  <1> QED
    BY <1>1, HistoryAssumption
    DEF Rollup, policy, telemetry_hourly, telemetry_daily, Retention

LEMMA BucketInHolds ==
    ASSUME NEW r \in Rollup, NEW ts \in Stamps
    PROVE  BucketIn(r, ts) \in Nat /\ BucketIn(r, ts) <= ts
  BY BucketHolds, PolicyFacts, HistoryAssumption DEF BucketIn

--------------------------------------------------------------------------------
(* Types.                                                                      *)

LEMMA InitType == Init => TypeOK
  <1> SUFFICES ASSUME Init PROVE TypeOK
    OBVIOUS
  <1>1. hypertable \in BOOLEAN /\ cron \in BOOLEAN /\ scheduled \in BOOLEAN
    BY Zenon DEF Init
  <1>2. now \in Nat /\ revision \in 0 .. 4
    BY DEF Init
  <1>3. available \subseteq {"timescaledb", "pg_cron"} /\ raw \subseteq Stamps
    BY Zenon DEF Init
  <1>4. /\ arrived \in [Stamps -> Nat \cup {-1}]
        /\ created \in [Rollup -> Nat \cup {-1}] /\ refreshed \in [Rollup -> Nat \cup {-1}]
        /\ rollup \in [Rollup -> SUBSET Stamps]
    BY DEF Init
  <1> QED
    BY <1>1, <1>2, <1>3, <1>4, Zenon DEF TypeOK

(* The flags are apart from the rest: their values are truth values of other   *)
(* formulas.                                                                   *)
LEMMA FlagsType ==
    ASSUME TypeOK,
           UpgradeHypertable \/ UpgradeHourly \/ UpgradeDaily \/ UpgradeCleanup
             \/ DowngradeCleanup \/ DowngradeDaily \/ DowngradeHourly
    PROVE  hypertable' \in BOOLEAN /\ cron' \in BOOLEAN /\ scheduled' \in BOOLEAN
  <1>1. hypertable \in BOOLEAN /\ cron \in BOOLEAN /\ scheduled \in BOOLEAN
    BY Zenon DEF TypeOK
  <1>2. CASE UpgradeHypertable
    <2>1. hypertable' = ("timescaledb" \in available) /\ cron' = cron /\ scheduled' = scheduled
      BY <1>2, Zenon DEF UpgradeHypertable
    <2> QED
      BY <1>1, <2>1, SMT
  <1>3. CASE UpgradeCleanup
    <2> DEFINE uses == ~hypertable /\ "pg_cron" \in available
    <2>1. hypertable' = hypertable /\ cron' = (cron \/ uses) /\ scheduled' = (scheduled \/ uses)
      BY <1>3, Zenon DEF UpgradeCleanup
    <2> QED
      BY <1>1, <2>1, SMT
  <1>4. CASE UpgradeHourly \/ UpgradeDaily \/ DowngradeDaily \/ DowngradeHourly
    BY <1>1, <1>4, Zenon
    DEF UpgradeHourly, UpgradeDaily, CreateAggregate, DowngradeDaily, DowngradeHourly,
        DropAggregate
  <1>5. CASE DowngradeCleanup
    <2>1. hypertable' = hypertable /\ cron' = cron /\ scheduled' = FALSE
      BY <1>5, Zenon DEF DowngradeCleanup
    <2> QED
      BY <1>1, <2>1, Zenon
  <1> QED
    BY <1>2, <1>3, <1>4, <1>5

LEMMA MigrationType ==
    ASSUME TypeOK,
           UpgradeHypertable \/ UpgradeHourly \/ UpgradeDaily \/ UpgradeCleanup
             \/ DowngradeCleanup \/ DowngradeDaily \/ DowngradeHourly
    PROVE  TypeOK'
  <1>1. /\ UNCHANGED <<now, available, raw, arrived>>
        /\ revision' \in 0 .. 4
    BY DEF TypeOK, Upgrade, Downgrade, UpgradeHypertable, UpgradeHourly, UpgradeDaily,
           CreateAggregate, UpgradeCleanup, DowngradeCleanup, DowngradeDaily, DowngradeHourly,
           DropAggregate
  <1>2. /\ created' \in [Rollup -> Nat \cup {-1}] /\ refreshed' \in [Rollup -> Nat \cup {-1}]
        /\ rollup' \in [Rollup -> SUBSET Stamps]
    <2>1. /\ now \in Nat
          /\ created \in [Rollup -> Nat \cup {-1}] /\ refreshed \in [Rollup -> Nat \cup {-1}]
          /\ rollup \in [Rollup -> SUBSET Stamps]
      BY DEF TypeOK
    <2>2. CASE UNCHANGED aggregates
      BY <2>1, <2>2 DEF aggregates
    <2>3. CASE \E r \in Rollup : CreateAggregate(r)
      BY <2>1, <2>3 DEF CreateAggregate
    <2>4. CASE \E r \in Rollup : DropAggregate(r)
      BY <2>1, <2>4 DEF DropAggregate
    <2> QED
      BY <2>2, <2>3, <2>4
      DEF UpgradeHypertable, UpgradeHourly, UpgradeDaily, UpgradeCleanup, DowngradeCleanup,
          DowngradeDaily, DowngradeHourly, Rollup, aggregates
  <1> QED
    BY <1>1, <1>2, FlagsType, Zenon DEF TypeOK

LEMMA StoreType ==
    ASSUME TypeOK, NEW ts \in Stamps, StoreRow(ts)
    PROVE  TypeOK'
  BY DEF TypeOK, StoreRow, schema, aggregates

LEMMA JobType ==
    ASSUME TypeOK, (\E r \in Rollup : Refresh(r)) \/ DropChunks \/ CronDelete \/ DropHourly \/ Tick
    PROVE  TypeOK'
  <1> USE DEF TypeOK, schema, aggregates
  <1>1. CASE \E r \in Rollup : Refresh(r)
    BY <1>1 DEF Refresh
  <1>2. CASE DropChunks
    BY <1>2 DEF DropChunks
  <1>3. CASE CronDelete
    BY <1>3 DEF CronDelete
  <1>4. CASE DropHourly
    BY <1>4 DEF DropHourly
  <1>5. CASE Tick
    BY <1>5 DEF Tick
  <1> QED
    BY <1>1, <1>2, <1>3, <1>4, <1>5

LEMMA StepType == TypeOK /\ [Next]_vars => TypeOK'
  <1> SUFFICES ASSUME TypeOK, [Next]_vars PROVE TypeOK'
    OBVIOUS
  <1>1. CASE UNCHANGED vars
    BY <1>1 DEF vars, schema, aggregates, TypeOK
  <1> QED
    BY <1>1, MigrationType, StoreType, JobType DEF Next

--------------------------------------------------------------------------------
(* Retention of raw rows.                                                      *)

LEMMA InitRecent == Init => RecentRowsAreKept
  BY DEF Init, RecentRowsAreKept

LEMMA StepRecent == TypeOK /\ RecentRowsAreKept /\ [Next]_vars => RecentRowsAreKept'
  <1> SUFFICES ASSUME TypeOK, RecentRowsAreKept, [Next]_vars PROVE RecentRowsAreKept'
    OBVIOUS
  <1>0. Retention \in Nat /\ Stamps \subseteq Nat /\ Day \in Nat \ {0}
    BY PolicyFacts, HistoryAssumption DEF Rollup
  <1>1. CASE UNCHANGED <<now, raw, arrived>>
    BY <1>1 DEF RecentRowsAreKept
  <1>2. CASE UpgradeHypertable \/ UpgradeHourly \/ UpgradeDaily \/ UpgradeCleanup
               \/ DowngradeCleanup \/ DowngradeDaily \/ DowngradeHourly
    BY <1>1, <1>2
    DEF UpgradeHypertable, UpgradeHourly, UpgradeDaily, CreateAggregate, UpgradeCleanup,
        DowngradeCleanup, DowngradeDaily, DowngradeHourly, DropAggregate
  <1>3. CASE (\E r \in Rollup : Refresh(r)) \/ DropHourly \/ UNCHANGED vars
    BY <1>1, <1>3 DEF Refresh, DropHourly, vars
  <1>4. CASE \E ts \in Stamps : StoreRow(ts)
    BY <1>4 DEF TypeOK, RecentRowsAreKept, StoreRow
  <1>5. CASE DropChunks
    <2>1. ASSUME NEW ts \in Stamps, Expired(ts) PROVE ~(now - Retention <= ts)
      <3> DEFINE b == Bucket(ts, Day)
      <3>1. ts \in Nat /\ b \in Nat /\ ts < b + Day
        BY <1>0, BucketHolds
      <3>2. b + Day <= now - Retention /\ now \in Nat
        BY <2>1 DEF Expired, TypeOK
      <3> HIDE DEF b
      <3> QED
        BY <1>0, <3>1, <3>2
    <2>2. /\ now' = now /\ arrived' = arrived
          /\ raw' = {ts \in raw : ~Expired(ts)}
      BY <1>5 DEF DropChunks
    <2>3. Retention' = Retention
      BY DEF Retention
    <2> SUFFICES ASSUME NEW ts \in Stamps, arrived[ts] # -1, now - Retention <= ts
                 PROVE  ts \in raw /\ ~Expired(ts)
      BY <2>2, <2>3 DEF RecentRowsAreKept
    <2> QED
      BY <2>1 DEF RecentRowsAreKept
  <1>6. CASE CronDelete
    <2>1. /\ now' = now /\ arrived' = arrived
          /\ raw' = {ts \in raw : ~TooOld(ts)}
      BY <1>6 DEF CronDelete
    <2>2. now \in Nat /\ Retention' = Retention
      BY DEF TypeOK, Retention
    <2> SUFFICES ASSUME NEW ts \in Stamps, arrived[ts] # -1, now - Retention <= ts
                 PROVE  ts \in raw /\ ~TooOld(ts)
      BY <2>1, <2>2 DEF RecentRowsAreKept
    <2> QED
      BY <1>0, <2>2 DEF RecentRowsAreKept, TooOld
  <1>7. CASE Tick
    BY <1>0, <1>7 DEF TypeOK, RecentRowsAreKept, Tick
  <1> QED
    BY <1>2, <1>3, <1>4, <1>5, <1>6, <1>7 DEF Next

--------------------------------------------------------------------------------
(* The aggregates.                                                             *)

(* When things happened: nothing is later than now, a job is never later than  *)
(* its gap, and an aggregate that is still to be created has never been run.   *)
Timing ==
    /\ \A ts \in Stamps : arrived[ts] <= now
    /\ \A r \in Rollup :
          /\ refreshed[r] <= now /\ created[r] <= now
          /\ created[r] = -1 => refreshed[r] = -1
          /\ created[r] # -1 => now <= LastRun(r) + Gap[r]
    /\ revision < 2 => created["hourly"] = -1
    /\ revision < 3 => created["daily"] = -1

(* A run after a row's arrival and after the end of its bucket has seen it.    *)
RunsCover ==
    \A r \in Rollup : \A ts \in Stamps :
        /\ InTime(r, ts) /\ KeptBy(r, ts)
        /\ arrived[ts] < refreshed[r]
        /\ BucketIn(r, ts) + policy[r].width + policy[r].end <= refreshed[r]
        => ts \in rollup[r]

IInv == TypeOK /\ RecentRowsAreKept /\ Timing /\ RunsCover

LEMMA InitTiming == Init => Timing
  BY HistoryAssumption DEF Init, Timing, Rollup

LEMMA StepTiming == TypeOK /\ Timing /\ [Next]_vars => Timing'
  <1> SUFFICES ASSUME TypeOK, Timing, [Next]_vars PROVE Timing'
    OBVIOUS
  <1>0. /\ now \in Nat /\ revision \in 0 .. 4
        /\ arrived \in [Stamps -> Nat \cup {-1}]
        /\ created \in [Rollup -> Nat \cup {-1}] /\ refreshed \in [Rollup -> Nat \cup {-1}]
        /\ \A r \in Rollup : Gap[r] \in Nat
    BY PolicyFacts DEF TypeOK
  <1>1. CASE UNCHANGED <<now, arrived, created, refreshed>> /\ revision <= revision'
             /\ revision' \in 0 .. 4
    BY <1>0, <1>1 DEF Timing, LastRun
  <1>2. CASE UpgradeHypertable \/ UpgradeCleanup
    BY <1>0, <1>1, <1>2 DEF UpgradeHypertable, UpgradeCleanup, Upgrade, aggregates
  <1>3. CASE UpgradeHourly
    BY <1>0, <1>3 DEF Timing, LastRun, UpgradeHourly, CreateAggregate, Upgrade, Rollup
  <1>4. CASE UpgradeDaily
    BY <1>0, <1>4 DEF Timing, LastRun, UpgradeDaily, CreateAggregate, Upgrade, Rollup
  <1>5. CASE DowngradeCleanup
    BY <1>0, <1>5 DEF Timing, LastRun, DowngradeCleanup, Downgrade, aggregates
  <1>6. CASE DowngradeDaily
    BY <1>0, <1>6 DEF Timing, LastRun, DowngradeDaily, DropAggregate, Downgrade, Rollup
  <1>7. CASE DowngradeHourly
    BY <1>0, <1>7 DEF Timing, LastRun, DowngradeHourly, DropAggregate, Downgrade, Rollup
  <1>8. CASE \E ts \in Stamps : StoreRow(ts)
    BY <1>0, <1>8 DEF Timing, LastRun, StoreRow, schema, aggregates
  <1>9. CASE \E r \in Rollup : Refresh(r)
    BY <1>0, <1>9 DEF Timing, LastRun, Refresh, schema
  <1>10. CASE DropChunks \/ CronDelete \/ DropHourly \/ UNCHANGED vars
    BY <1>0, <1>1, <1>10 DEF DropChunks, CronDelete, DropHourly, vars, schema, aggregates
  <1>11. CASE Tick
    BY <1>0, <1>11 DEF Timing, LastRun, Tick, schema, aggregates
  <1> QED
    BY <1>2, <1>3, <1>4, <1>5, <1>6, <1>7, <1>8, <1>9, <1>10, <1>11 DEF Next

(* A row whose bucket has left the window was seen by the last run: that run   *)
(* is younger than the gap, so it came after the row and after the bucket.     *)
LEMMA CoverImpliesHistory == TypeOK /\ Timing /\ RunsCover => RollupsKeepHistory
  <1> SUFFICES ASSUME TypeOK, Timing, RunsCover, NEW r \in Rollup, NEW ts \in Stamps,
                      InTime(r, ts), KeptBy(r, ts), BucketIn(r, ts) + policy[r].start < now
               PROVE  ts \in rollup[r]
    BY DEF RollupsKeepHistory
  <1> DEFINE b == BucketIn(r, ts)
  <1>1. /\ now \in Nat /\ b \in Nat
        /\ arrived[ts] \in Nat \cup {-1} /\ created[r] \in Nat \cup {-1}
        /\ refreshed[r] \in Nat \cup {-1}
    BY BucketInHolds DEF TypeOK
  <1>2. /\ created[r] # -1 /\ arrived[ts] + Gap[r] <= b + policy[r].start
        /\ created[r] + Gap[r] <= b + policy[r].start
        /\ b + policy[r].start < now
    BY DEF InTime
  <1>3. now <= (IF refreshed[r] = -1 THEN created[r] ELSE refreshed[r]) + Gap[r]
    BY <1>2 DEF Timing, LastRun
  <1> HIDE DEF b
  <1>4. arrived[ts] < refreshed[r] /\ b + policy[r].width + policy[r].end <= refreshed[r]
    BY <1>1, <1>2, <1>3, PolicyFacts
  <1> QED
    BY <1>4 DEF b, RunsCover

LEMMA InitCover == Init => RunsCover
  BY DEF Init, RunsCover, InTime

LEMMA RefreshCovers ==
    ASSUME TypeOK, RecentRowsAreKept, Timing, RunsCover, NEW q \in Rollup, Refresh(q)
    PROVE  RunsCover'
  <1>1. /\ UNCHANGED <<now, raw, arrived, created>>
        /\ rollup' = [rollup EXCEPT ![q] =
                     {ts \in @ : ~InWindow(q, BucketIn(q, ts))}
                     \cup {ts \in raw : InWindow(q, BucketIn(q, ts))}]
        /\ refreshed' = [refreshed EXCEPT ![q] = now]
    BY DEF Refresh
  <1> SUFFICES ASSUME NEW r \in Rollup, NEW ts \in Stamps, InTime(r, ts), KeptBy(r, ts),
                      arrived[ts] < refreshed'[r],
                      BucketIn(r, ts) + policy[r].width + policy[r].end <= refreshed'[r]
               PROVE  ts \in rollup'[r]
    BY <1>1 DEF RunsCover, InTime, KeptBy, BucketIn, Bucket
  <1>2. CASE r # q
    <2>1. refreshed'[r] = refreshed[r] /\ rollup'[r] = rollup[r]
      BY <1>1, <1>2 DEF TypeOK
    <2> QED
      BY <2>1 DEF RunsCover
  <1>3. CASE r = q
    <2> DEFINE b == BucketIn(r, ts)
    <2>1. /\ refreshed'[r] = now
          /\ rollup'[r] = {t \in rollup[r] : ~InWindow(r, BucketIn(r, t))}
                            \cup {t \in raw : InWindow(r, BucketIn(r, t))}
      BY <1>1, <1>3 DEF TypeOK
    <2>2. now \in Nat /\ b \in Nat /\ ts \in Nat /\ b <= ts
      BY BucketInHolds, HistoryAssumption DEF TypeOK
    <2>3. CASE now - policy[r].start <= b
      <3>1. InWindow(r, b)
        BY <2>1, <2>3 DEF InWindow
      <3>2. now - Retention <= ts
        <4> HIDE DEF b
        <4> QED
          BY <2>2, <2>3, PolicyFacts
      <3>3. ts \in raw
        BY <3>2 DEF RecentRowsAreKept, InTime
      <3> QED
        BY <2>1, <3>1, <3>3
    <2>4. CASE ~(now - policy[r].start <= b)
      <3>1. ~InWindow(r, b)
        BY <2>4 DEF InWindow
      <3>2. b + policy[r].start < now
        <4> HIDE DEF b
        <4> QED
          BY <2>2, <2>4, PolicyFacts
      <3>3. ts \in rollup[r]
        BY <3>2, CoverImpliesHistory DEF RollupsKeepHistory
      <3> QED
        BY <2>1, <3>1, <3>3
    <2> QED
      BY <2>3, <2>4
  <1> QED
    BY <1>2, <1>3

(* Nothing new is claimed of an aggregate that does not change.                *)
LEMMA NothingNew ==
    ASSUME TypeOK, RunsCover, now' \in Nat, now <= now',
           NEW r \in Rollup, NEW ts \in Stamps,
           UNCHANGED <<arrived[ts], created[r], refreshed[r], rollup[r]>>,
           InTime(r, ts)', KeptBy(r, ts)', arrived'[ts] < refreshed'[r],
           BucketIn(r, ts) + policy[r].width + policy[r].end <= refreshed'[r]
    PROVE  ts \in rollup'[r]
  <1>1. InTime(r, ts)
    BY DEF InTime, BucketIn, Bucket
  <1>2. KeptBy(r, ts)
    <2> DEFINE b == BucketIn(r, ts)
               kept == HourlyDays * Day
    <2>1. now \in Nat /\ kept \in Nat /\ b \in Nat /\ Hour \in Nat
      BY BucketInHolds, HistoryAssumption DEF TypeOK
    <2>2. r = "hourly" => now' - kept < b + Hour
      BY DEF KeptBy, BucketIn, Bucket
    <2>3. \A n, m, k, x, h \in Nat : n <= m /\ m - k < x + h => n - k < x + h
      OBVIOUS
    <2>4. r = "hourly" => now - kept < b + Hour
      <3> HIDE DEF b, kept
      <3> QED
        BY <2>1, <2>2, <2>3, Zenon
    <2> QED
      BY <2>4 DEF KeptBy
  <1> QED
    BY <1>1, <1>2 DEF RunsCover

LEMMA StepCover ==
    TypeOK /\ RecentRowsAreKept /\ Timing /\ RunsCover /\ [Next]_vars => RunsCover'
  <1> SUFFICES ASSUME TypeOK, RecentRowsAreKept, Timing, RunsCover, [Next]_vars
               PROVE  RunsCover'
    OBVIOUS
  <1>0. /\ now \in Nat /\ arrived \in [Stamps -> Nat \cup {-1}]
        /\ created \in [Rollup -> Nat \cup {-1}] /\ refreshed \in [Rollup -> Nat \cup {-1}]
        /\ rollup \in [Rollup -> SUBSET Stamps]
    BY DEF TypeOK
  <1>1. CASE \E q \in Rollup : Refresh(q)
    BY <1>1, RefreshCovers
  <1>2. CASE ~ \E q \in Rollup : Refresh(q)
    <2> SUFFICES ASSUME NEW r \in Rollup, NEW ts \in Stamps, InTime(r, ts)', KeptBy(r, ts)',
                        arrived'[ts] < refreshed'[r],
                        BucketIn(r, ts) + policy[r].width + policy[r].end <= refreshed'[r]
                 PROVE  ts \in rollup'[r]
      BY DEF RunsCover, BucketIn, Bucket
    <2>1. CASE now' \in Nat /\ now <= now'
               /\ UNCHANGED <<arrived[ts], created[r], refreshed[r], rollup[r]>>
      BY <2>1, NothingNew
    <2>2. CASE UNCHANGED <<now, arrived, aggregates>>
      BY <1>0, <2>1, <2>2 DEF aggregates
    <2>3. CASE UpgradeHypertable \/ UpgradeCleanup \/ DowngradeCleanup \/ DropChunks
                 \/ CronDelete \/ UNCHANGED vars
      BY <2>2, <2>3
      DEF UpgradeHypertable, UpgradeCleanup, DowngradeCleanup, DropChunks, CronDelete, vars
    <2>4. CASE UpgradeHourly \/ UpgradeDaily
      \* An aggregate that is created has never been run.
      <3>1. PICK q \in Rollup : created[q] = -1 /\ CreateAggregate(q)
        BY <2>4 DEF UpgradeHourly, UpgradeDaily, Upgrade, Timing, Rollup
      <3>2. UNCHANGED <<now, arrived, refreshed, rollup>>
        BY <3>1 DEF CreateAggregate
      <3>3. CASE r = q
        <4>1. refreshed'[r] = -1
          BY <3>1, <3>2, <3>3 DEF Timing
        <4>2. arrived'[ts] \in Nat
          BY <1>0, <3>2 DEF InTime
        <4> QED
          BY <4>1, <4>2
      <3>4. CASE r # q
        <4>1. created'[r] = created[r]
          BY <1>0, <3>1, <3>4 DEF CreateAggregate
        <4> QED
          BY <1>0, <2>1, <3>2, <4>1
      <3> QED
        BY <3>3, <3>4
    <2>5. CASE DowngradeHourly \/ DowngradeDaily
      <3>1. PICK q \in Rollup : DropAggregate(q)
        BY <2>5 DEF DowngradeHourly, DowngradeDaily, Rollup
      <3>2. r # q
        BY <1>0, <3>1 DEF DropAggregate, InTime
      <3> QED
        BY <1>0, <2>1, <3>1, <3>2 DEF DropAggregate
    <2>6. CASE \E t \in Stamps : StoreRow(t)
      <3>1. PICK t \in Stamps : StoreRow(t)
        BY <2>6
      <3>2. UNCHANGED <<now, created, refreshed, rollup>>
        BY <3>1 DEF StoreRow, aggregates
      <3>3. arrived'[ts] = arrived[ts] \/ arrived'[ts] = now
        BY <1>0, <3>1 DEF StoreRow
      <3>4. arrived'[ts] # now
        BY <1>0, <3>2 DEF Timing
      <3> QED
        BY <1>0, <2>1, <3>2, <3>3, <3>4
    <2>7. CASE DropHourly
      <3>1. PICK cut \in 1 .. now - HourlyDays * Day :
                rollup' = [rollup EXCEPT !["hourly"] =
                              {t \in @ : BucketIn("hourly", t) + Hour > cut}]
        BY <2>7 DEF DropHourly
      <3>2. UNCHANGED <<now, arrived, created, refreshed>>
        BY <2>7 DEF DropHourly
      <3>3. ts \in rollup[r]
        <4> DEFINE old == /\ InTime(r, ts) /\ KeptBy(r, ts) /\ arrived[ts] < refreshed[r]
                          /\ BucketIn(r, ts) + policy[r].width + policy[r].end <= refreshed[r]
        <4>1. old
          BY <3>2 DEF InTime, KeptBy, BucketIn, Bucket
        <4> QED
          BY <4>1 DEF RunsCover
      <3>4. CASE r # "hourly"
        BY <1>0, <3>1, <3>3, <3>4
      <3>5. CASE r = "hourly"
        <4> DEFINE b == BucketIn("hourly", ts)
                   kept == HourlyDays * Day
        <4>1. /\ now \in Nat /\ kept \in Nat /\ b \in Nat /\ Hour \in Nat
              /\ cut \in 1 .. now - kept
          BY <1>0, <3>5, BucketInHolds, HistoryAssumption
        <4>2. now - kept < b + Hour
          BY <3>2, <3>5 DEF KeptBy, BucketIn, Bucket
        <4>3. b + Hour > cut
          <5> HIDE DEF b, kept
          <5> QED
            BY <4>1, <4>2
        <4>4. rollup'[r] = {t \in rollup[r] : BucketIn("hourly", t) + Hour > cut}
          BY <1>0, <3>1, <3>5
        <4> QED
          BY <3>3, <4>3, <4>4
      <3> QED
        BY <3>4, <3>5
    <2>8. CASE Tick
      BY <1>0, <2>1, <2>8 DEF Tick, aggregates
    <2> QED
      BY <1>2, <2>3, <2>4, <2>5, <2>6, <2>7, <2>8 DEF Next
  <1> QED
    BY <1>1, <1>2

--------------------------------------------------------------------------------
(* The theorems.                                                               *)

(* IInv is inductive.                                                          *)
THEOREM HistoryInvariant == Spec => []IInv
  <1>1. Init => IInv
    BY InitType, InitRecent, InitTiming, InitCover DEF IInv
  <1>2. IInv /\ [Next]_vars => IInv'
    <2> SUFFICES ASSUME IInv, [Next]_vars PROVE IInv'
      OBVIOUS
    <2> QED
      BY StepType, StepRecent, StepTiming, StepCover DEF IInv
  <1> QED
    BY <1>1, <1>2, PTL DEF Spec

(* Retention never takes a recent row, for any retention and chunk length:     *)
(* neither TimescaleDB's chunks (a1) nor the DELETE of pg_cron (b2).           *)
THEOREM RecentRowsStay == Spec => []RecentRowsAreKept
  <1>1. IInv => RecentRowsAreKept
    BY DEF IInv
  <1> QED
    BY <1>1, HistoryInvariant, PTL

(* What came in time for an aggregate is in it after its bucket has left the   *)
(* window: the start_offset of a2 and a3 is long enough for every gap that     *)
(* HistoryAssumption admits, and shorter than the retention of raw rows.       *)
THEOREM RollupsPreserve == Spec => []RollupsKeepHistory
  <1>1. IInv => RollupsKeepHistory
    BY CoverImpliesHistory DEF IInv
  <1> QED
    BY <1>1, HistoryInvariant, PTL

--------------------------------------------------------------------------------
(* HistoryQuery.                                                               *)

(* What raw and the aggregates hold was stored, and is not from the future.    *)
RowsArrived ==
    /\ \A ts \in raw : arrived[ts] # -1 /\ ts <= now
    /\ \A r \in Rollup : \A ts \in rollup[r] : arrived[ts] # -1

LEMMA StepArrived == TypeOK /\ RowsArrived /\ [Next]_vars => RowsArrived'
  <1> SUFFICES ASSUME TypeOK, RowsArrived, [Next]_vars PROVE RowsArrived'
    OBVIOUS
  <1>0. /\ now \in Nat /\ arrived \in [Stamps -> Nat \cup {-1}]
        /\ rollup \in [Rollup -> SUBSET Stamps] /\ raw \subseteq Stamps
        /\ Stamps \subseteq Nat
    BY HistoryAssumption DEF TypeOK
  <1>1. CASE /\ raw' \subseteq raw /\ arrived' = arrived /\ now' \in Nat /\ now <= now'
             /\ \A r \in Rollup : rollup'[r] \subseteq rollup[r] \cup raw
    <2>1. ASSUME NEW ts \in raw PROVE ts <= now'
      BY <1>0, <1>1, <2>1 DEF RowsArrived
    <2> QED
      BY <1>1, <2>1 DEF RowsArrived
  <1>2. CASE UpgradeHypertable \/ UpgradeHourly \/ UpgradeDaily \/ UpgradeCleanup
               \/ DowngradeCleanup
    BY <1>0, <1>1, <1>2
    DEF UpgradeHypertable, UpgradeHourly, UpgradeDaily, CreateAggregate, UpgradeCleanup,
        DowngradeCleanup, aggregates
  <1>3. CASE DowngradeDaily \/ DowngradeHourly
    BY <1>0, <1>1, <1>3 DEF DowngradeDaily, DowngradeHourly, DropAggregate, Rollup
  <1>4. CASE \E ts \in Stamps : StoreRow(ts)
    <2>1. PICK ts \in Stamps : StoreRow(ts)
      BY <1>4
    <2>2. /\ raw' = raw \cup {ts} /\ ts <= now /\ now' = now /\ rollup' = rollup
          /\ arrived' = [arrived EXCEPT ![ts] = IF @ = -1 THEN now ELSE @]
      BY <2>1 DEF StoreRow, aggregates
    <2>3. arrived'[ts] # -1 /\ \A t \in Stamps : arrived[t] # -1 => arrived'[t] # -1
      BY <1>0, <2>2
    <2> QED
      BY <1>0, <2>2, <2>3 DEF RowsArrived
  <1>5. CASE \E r \in Rollup : Refresh(r)
    <2>1. PICK r \in Rollup : Refresh(r)
      BY <1>5
    <2>2. /\ UNCHANGED <<now, raw, arrived>>
          /\ rollup' = [rollup EXCEPT ![r] = {ts \in @ : ~InWindow(r, BucketIn(r, ts))}
                                       \cup {ts \in raw : InWindow(r, BucketIn(r, ts))}]
      BY <2>1 DEF Refresh
    <2>3. \A q \in Rollup : rollup'[q] \subseteq rollup[q] \cup raw
      BY <1>0, <2>2
    <2> QED
      BY <1>0, <1>1, <2>2, <2>3
  <1>6. CASE DropChunks \/ CronDelete
    BY <1>0, <1>1, <1>6 DEF DropChunks, CronDelete, aggregates
  <1>7. CASE DropHourly
    <2>1. /\ UNCHANGED <<now, raw, arrived>>
          /\ \A q \in Rollup : rollup'[q] \subseteq rollup[q]
      BY <1>0, <1>7 DEF DropHourly
    <2> QED
      BY <1>0, <1>1, <2>1
  <1>8. CASE Tick
    BY <1>0, <1>1, <1>8 DEF Tick, aggregates
  <1>9. CASE UNCHANGED vars
    BY <1>0, <1>1, <1>9 DEF vars, aggregates
  <1> QED
    BY <1>2, <1>3, <1>4, <1>5, <1>6, <1>7, <1>8, <1>9 DEF Next

LEMMA RowsHaveArrived == Spec => []RowsArrived
  <1>1. Init => RowsArrived
    BY DEF Init, RowsArrived
  <1>2. IInv => TypeOK
    BY DEF IInv
  <1> QED
    BY <1>1, <1>2, StepArrived, HistoryInvariant, PTL DEF Spec

--------------------------------------------------------------------------------
(* What /history answers.                                                      *)

Ranges == {"1h", "6h", "24h", "7d", "30d", "90d", "1y"}

BucketName(r) == IF r = "hourly" THEN "1h" ELSE "1d"

LEMMA RangeFacts ==
    ASSUME NEW range \in DOMAIN RANGE_TO_TIMEDELTA
    PROVE  /\ range \in Ranges /\ range # NoRange
           /\ RANGE_TO_TIMEDELTA[range] \in Nat
  <1>1. range \in Ranges
    BY DEF RANGE_TO_TIMEDELTA, Ranges
  <1>2. range # NoRange
    BY <1>1 DEF Ranges, NoRange
  <1>3. Hour \in Nat /\ 6 * Hour \in Nat /\ Day \in Nat
    BY HistoryAssumption
  <1>4. ASSUME range \in {"7d", "30d", "90d", "1y"}
        PROVE  RangeDays[range] * Day \in Nat
    <2>1. RangeDays[range] \in Nat
      BY <1>4, QueryAssumption
    <2> QED
      BY <1>3, <2>1
  <1>5. RANGE_TO_TIMEDELTA[range] = CASE range = "1h" -> Hour [] range = "6h" -> 6 * Hour
                                      [] range = "24h" -> Day
                                      [] OTHER -> RangeDays[range] * Day
    BY <1>1 DEF RANGE_TO_TIMEDELTA, Ranges
  <1> QED
    BY <1>1, <1>2, <1>3, <1>4, <1>5 DEF Ranges

(* The rows of the range, grouped by the buckets of the aggregate.             *)
RowsOfRange(range) == {ts \in raw : now - RANGE_TO_TIMEDELTA[range] <= ts /\ ts < now}

Grouped(r, rows) ==
    {BucketSample(b, policy[r].width, rows) : b \in {BucketIn(r, ts) : ts \in rows}}

LEMMA Truncation ==
    ASSUME NEW r \in Rollup
    PROVE  /\ BucketName(r) \in {"1h", "1d"}
           /\ date_trunc_field(BucketName(r)) = policy[r].width
           /\ resolve_bucket("any", BucketName(r)) = BucketName(r)
  BY DEF Rollup, BucketName, date_trunc_field, policy, telemetry_hourly, telemetry_daily,
         resolve_bucket

LEMMA HistoryAnswers ==
    ASSUME NEW r \in Rollup, NEW range \in DOMAIN RANGE_TO_TIMEDELTA
    PROVE  history(RangeQuery(range, BucketName(r), MaxLimit)).samples =
               IF ~DeviceExists THEN {}
               ELSE {s \in Grouped(r, RowsOfRange(range)) :
                        Older(s, Grouped(r, RowsOfRange(range))) < MaxLimit}
  <1> DEFINE q == RangeQuery(range, BucketName(r), MaxLimit)
  <1>1. /\ q.start = NoTime /\ q.end = NoTime /\ q.range = range
        /\ q.bucket = BucketName(r) /\ q.metric = "all" /\ q.limit = MaxLimit
    BY DEF RangeQuery
  <1>2. /\ range # NoRange /\ BucketName(r) \in ALLOWED_BUCKETS /\ parse_metrics("all")
        /\ BucketName(r) # "5s" /\ BucketName(r) # "auto"
    BY RangeFacts, Truncation DEF ALLOWED_BUCKETS, parse_metrics
  <1> HIDE DEF q
  <1>3. CASE ~DeviceExists
    <2>1. history(q) = Answer(404, {})
      BY <1>1, <1>2, <1>3 DEF history
    <2> QED
      BY <1>3, <2>1 DEF Answer, q
  <1>4. CASE DeviceExists
    <2>1. history(q) = Answer(200, get_device_history_aggregated(range, q.bucket, q.limit))
      BY <1>1, <1>2, <1>4 DEF history
    <2>2. build_aggregate_sql(BucketName(r), now - RANGE_TO_TIMEDELTA[range], now)
            = Grouped(r, RowsOfRange(range))
      BY Truncation DEF build_aggregate_sql, Grouped, RowsOfRange, BucketIn
    <2>3. resolve_bucket(range, BucketName(r)) = BucketName(r)
      BY <1>2 DEF resolve_bucket
    <2>4. get_device_history_aggregated(range, BucketName(r), MaxLimit)
            = {s \in Grouped(r, RowsOfRange(range)) :
                        Older(s, Grouped(r, RowsOfRange(range))) < MaxLimit}
      BY <1>2, <2>2, <2>3 DEF get_device_history_aggregated
    <2> QED
      BY <1>1, <1>4, <2>1, <2>4 DEF Answer, q
  <1> QED
    BY <1>3, <1>4

(* A sample has fewer samples before it than there are rows.                   *)
LEMMA ImageSize ==
    ASSUME NEW S, IsFiniteSet(S), NEW f, f = [x \in S |-> f[x]]
    PROVE  /\ IsFiniteSet({f[x] : x \in S})
           /\ Cardinality({f[x] : x \in S}) <= Cardinality(S)
  <1> DEFINE T == {f[x] : x \in S}
  <1>1. f \in Surjection(S, T)
    BY DEF Surjection
  <1> QED
    BY <1>1, FS_Surjection

(* Multiples of a width are in the order of their factors.                     *)
LEMMA FactorsRise ==
    ASSUME NEW width \in Nat \ {0}, NEW p \in Int, NEW q \in Int, width * p < width * q
    PROVE  p < q
  <1> SUFFICES ASSUME p >= q PROVE FALSE
    OBVIOUS
  <1>1. PICK k \in Nat : p = q + k
    <2>1. p - q \in Nat /\ p = q + (p - q)
      OBVIOUS
    <2> QED
      BY <2>1
  <1>2. width * p = width * q + width * k
    BY <1>1, SMTT(60)
  <1>3. width * k \in Nat /\ width * q \in Int
    OBVIOUS
  <1> QED
    BY <1>2, <1>3

LEMMA BucketsAreMultiples ==
    ASSUME NEW ts \in Nat, NEW width \in Nat \ {0}
    PROVE  \E k \in Nat : Bucket(ts, width) = width * k
  <1>1. ts \div width \in Nat
    BY SMTT(60)
  <1> QED
    BY <1>1 DEF Bucket

(* Buckets that begin less than span + width after an earlier one are at most  *)
(* span \div width + 1 buckets after it.                                       *)
LEMMA BucketsOfSpan ==
    ASSUME NEW width \in Nat \ {0}, NEW span \in Nat, NEW p \in Nat, NEW q \in Nat,
           width * q < width * p + width + span
    PROVE  q - p <= span \div width + 1
  <1>1. PICK m \in Nat : m = span \div width
    BY SMTT(60)
  <1>2. width * m \in Nat /\ span < width * m + width
    BY <1>1, BucketHolds DEF Bucket
  <1>3. width * (p + m + 2) = width * p + width * m + 2 * width
    BY SMTT(60)
  <1>4. width * q < width * (p + m + 2)
    <2>1. width * p \in Nat /\ width * q \in Nat
      OBVIOUS
    <2> QED
      BY <1>2, <1>3, <2>1
  <1>5. q < p + m + 2
    BY <1>4, FactorsRise
  <1> QED
    BY <1>1, <1>5

(* A range that fits into one answer has fewer buckets before any of them than *)
(* the limit admits.                                                           *)
LEMMA FewBefore ==
    ASSUME NEW r \in Rollup, NEW rows \in SUBSET Stamps,
           NEW start \in Nat, NEW end \in Nat, NEW span \in Nat, start <= end, end <= start + span,
           \A ts \in rows : start <= ts /\ ts < end,
           span \div policy[r].width + 2 <= MaxLimit,
           NEW s \in Grouped(r, rows)
    PROVE  Older(s, Grouped(r, rows)) < MaxLimit
  <1>1. PICK width \in Nat \ {0} : width = policy[r].width
    BY PolicyFacts
  <1>2. ASSUME NEW t \in Grouped(r, rows)
        PROVE  \E k \in Nat : \E u \in rows :
                   /\ t = BucketSample(width * k, width, rows) /\ t.ts = width * k
                   /\ u \in Nat /\ width * k <= u /\ u < width * k + width
    <2>1. PICK u \in rows : t = BucketSample(BucketIn(r, u), width, rows)
      BY <1>1 DEF Grouped
    <2>2. u \in Nat /\ BucketIn(r, u) = Bucket(u, width)
      BY <1>1, HistoryAssumption DEF BucketIn
    <2>3. PICK k \in Nat : Bucket(u, width) = width * k
      BY <2>2, BucketsAreMultiples
    <2>4. width * k <= u /\ u < width * k + width
      BY <2>2, <2>3, BucketHolds
    <2> QED
      BY <2>1, <2>2, <2>3, <2>4 DEF BucketSample
  <1>3. PICK q \in Nat : \E u \in rows :
            s.ts = width * q /\ u \in Nat /\ width * q <= u /\ u < width * q + width
    BY <1>2
  <1>4. PICK p \in Nat : width * p <= start /\ start < width * p + width
    BY BucketsAreMultiples, BucketHolds
  <1>5. q - p <= span \div width + 1
    <2>1. width * q \in Nat /\ width * p \in Nat /\ width * q < width * p + width + span
      BY <1>3, <1>4
    <2> QED
      BY <2>1, BucketsOfSpan
  <1> DEFINE f == [k \in p .. q - 1 |-> BucketSample(width * k, width, rows)]
             before == {t \in Grouped(r, rows) : t.ts < s.ts}
  <1>6. ASSUME NEW t \in before PROVE t \in {f[k] : k \in p .. q - 1}
    <2>1. t \in Grouped(r, rows) /\ t.ts < s.ts
      OBVIOUS
    <2>2. PICK j \in Nat, u \in rows :
              /\ t = BucketSample(width * j, width, rows) /\ t.ts = width * j
              /\ u \in Nat /\ width * j <= u /\ u < width * j + width
      BY <1>2, <2>1
    <2>3. j < q
      <3>1. width * j < width * q
        BY <1>3, <2>1, <2>2
      <3> QED
        BY <3>1, FactorsRise
    <2>4. p < j + 1
      <3>1. width * (j + 1) = width * j + width
        BY SMTT(60)
      <3>2. width * p \in Nat /\ width * j \in Nat /\ start <= u
        OBVIOUS
      <3>3. width * p < width * (j + 1)
        BY <1>4, <2>2, <3>1, <3>2
      <3> QED
        BY <3>3, FactorsRise
    <2>5. j \in p .. q - 1
      BY <2>3, <2>4
    <2>6. f[j] = t
      BY <2>2, <2>5
    <2> QED
      BY <2>5, <2>6
  <1>7. f = [k \in p .. q - 1 |-> f[k]]
    OBVIOUS
  <1>8. /\ IsFiniteSet(p .. q - 1)
        /\ Cardinality(p .. q - 1) = IF p > q - 1 THEN 0 ELSE q - 1 - p + 1
    BY FS_Interval
  <1> HIDE DEF f
  <1>9. /\ IsFiniteSet({f[k] : k \in p .. q - 1})
        /\ Cardinality({f[k] : k \in p .. q - 1}) <= Cardinality(p .. q - 1)
    BY <1>7, <1>8, ImageSize
  <1>10. before \subseteq {f[k] : k \in p .. q - 1}
    BY <1>6
  <1>11. Older(s, Grouped(r, rows)) = Cardinality(before)
    BY DEF Older
  <1> HIDE DEF before
  <1>12. IsFiniteSet(before) /\ Cardinality(before) <= Cardinality({f[k] : k \in p .. q - 1})
    BY <1>9, <1>10, FS_Subset
  <1>13. /\ Cardinality(before) \in Nat /\ Cardinality({f[k] : k \in p .. q - 1}) \in Nat
         /\ Cardinality(p .. q - 1) \in Nat
    BY <1>8, <1>9, <1>12, FS_CardinalityType
  <1>14. span \div width \in Nat /\ span \div width + 2 <= MaxLimit /\ MaxLimit \in Nat
    <2>1. span \div width \in Nat
      BY SMTT(60)
    <2> QED
      BY <1>1, <2>1, QueryAssumption
  <1> QED
    BY <1>5, <1>8, <1>9, <1>11, <1>12, <1>13, <1>14

(* So the limit does not cut the answer, and its samples of one bucket hold the rows of *)
(* the range in that bucket.                                                   *)
LEMMA SamplesOfBucket ==
    ASSUME NEW r \in Rollup, NEW rows \in SUBSET Stamps, NEW b,
           NEW start \in Nat, NEW end \in Nat, NEW span \in Nat, start <= end, end <= start + span,
           \A ts \in rows : start <= ts /\ ts < end,
           span \div policy[r].width + 2 <= MaxLimit
    PROVE  LET found == {s \in Grouped(r, rows) : Older(s, Grouped(r, rows)) < MaxLimit}
           IN  UNION {s.rows : s \in {s \in found : s.ts = b}}
                   = {ts \in rows : BucketIn(r, ts) = b}
  <1> DEFINE all == Grouped(r, rows)
             found == {s \in all : Older(s, all) < MaxLimit}
  <1>1. ASSUME NEW s \in all PROVE Older(s, all) < MaxLimit
    BY <1>1, FewBefore
  <1>2. found = all
    BY <1>1
  <1>3. \A s : s \in all <=> \E ts \in rows :
                                s = [ts |-> BucketIn(r, ts),
                                     rows |-> {t \in rows : BucketIn(r, t) = BucketIn(r, ts)}]
    BY DEF Grouped, BucketSample, BucketIn
  <1> HIDE DEF all
  <1>4. UNION {s.rows : s \in {s \in all : s.ts = b}} \subseteq {ts \in rows : BucketIn(r, ts) = b}
    BY <1>3
  <1>5. ASSUME NEW ts \in rows, BucketIn(r, ts) = b
        PROVE  ts \in UNION {s.rows : s \in {s \in all : s.ts = b}}
    <2>1. PICK s : s = [ts |-> b, rows |-> {t \in rows : BucketIn(r, t) = b}]
      OBVIOUS
    <2>2. s \in all
      BY <1>3, <1>5, <2>1
    <2>3. s.ts = b /\ ts \in s.rows
      BY <1>5, <2>1
    <2> QED
      BY <2>2, <2>3
  <1> HIDE DEF found
  <1>6. UNION {s.rows : s \in {s \in found : s.ts = b}} = {ts \in rows : BucketIn(r, ts) = b}
    BY <1>2, <1>4, <1>5
  <1> QED
    BY <1>6 DEF found, all

(* The continuous aggregate and the answer hold the same rows of a settled     *)
(* bucket: what came in time has been refreshed into the one and is still in   *)
(* the raw table for the other.                                                *)
LEMMA SettledRows ==
    ASSUME IInv, RowsArrived, NEW r \in Rollup, NEW b \in Nat,
           NEW range \in DOMAIN RANGE_TO_TIMEDELTA, Settled(r, b, range)
    PROVE  {ts \in RowsOfRange(range) : BucketIn(r, ts) = b}
               = {ts \in rollup[r] : BucketIn(r, ts) = b}
  <1>1. /\ now \in Nat /\ raw \subseteq Stamps /\ rollup[r] \subseteq Stamps
        /\ Stamps \subseteq Nat
    BY HistoryAssumption DEF IInv, TypeOK
  <1>2. PICK start \in Int : start = now - RANGE_TO_TIMEDELTA[range]
    BY <1>1, RangeFacts
  <1>3. RollupsKeepHistory /\ RecentRowsAreKept
    BY CoverImpliesHistory DEF IInv
  <1>4. /\ b + policy[r].start < now /\ start <= b /\ now - Retention <= b
        /\ \A ts \in Stamps : arrived[ts] # -1 /\ BucketIn(r, ts) = b
                                => InTime(r, ts) /\ KeptBy(r, ts)
    BY <1>2 DEF Settled
  <1>5. ASSUME NEW ts \in raw, BucketIn(r, ts) = b PROVE ts \in rollup[r]
    <2>1. InTime(r, ts) /\ KeptBy(r, ts)
      BY <1>1, <1>4, <1>5 DEF RowsArrived
    <2> QED
      BY <1>1, <1>3, <1>4, <1>5, <2>1 DEF RollupsKeepHistory
  <1>6. ASSUME NEW ts \in rollup[r], BucketIn(r, ts) = b
        PROVE  ts \in raw /\ start <= ts /\ ts < now
    <2>1. ts \in Nat /\ b <= ts /\ ts < b + policy[r].width
      BY <1>1, <1>6, BucketHolds, PolicyFacts DEF BucketIn
    <2>2. policy[r].width <= policy[r].start
      BY PolicyFacts
    <2>3. now - Retention <= ts /\ start <= ts /\ ts < now
      BY <1>1, <1>2, <1>4, <2>1, <2>2, PolicyFacts
    <2>4. arrived[ts] # -1
      BY DEF RowsArrived
    <2> QED
      BY <1>1, <1>3, <2>3, <2>4 DEF RecentRowsAreKept
  <1> QED
    BY <1>2, <1>5, <1>6 DEF RowsOfRange

LEMMA AnswersAgree ==
    ASSUME IInv, RowsArrived
    PROVE  AnswersAgreeWithRollups
  <1> SUFFICES ASSUME NEW r \in Rollup, NEW range \in DOMAIN RANGE_TO_TIMEDELTA,
                      NEW b \in {BucketIn(r, ts) : ts \in Stamps},
                      OneAnswer(r, range), Settled(r, b, range)
               PROVE  UNION {s.rows : s \in {s \in history(RangeQuery(range, BucketName(r),
                                                            MaxLimit)).samples : s.ts = b}}
                          = {ts \in rollup[r] : BucketIn(r, ts) = b}
    BY DEF AnswersAgreeWithRollups, BucketName
  <1>1. b \in Nat
    BY BucketInHolds
  <1>2. PICK rows \in SUBSET Stamps : rows = RowsOfRange(range)
    BY DEF IInv, TypeOK, RowsOfRange
  <1>3. {ts \in rows : BucketIn(r, ts) = b} = {ts \in rollup[r] : BucketIn(r, ts) = b}
    BY <1>1, <1>2, SettledRows
  <1>4. CASE DeviceExists
    <2>1. history(RangeQuery(range, BucketName(r), MaxLimit)).samples
            = {s \in Grouped(r, rows) : Older(s, Grouped(r, rows)) < MaxLimit}
      BY <1>2, <1>4, HistoryAnswers
    <2>2. UNION {s.rows : s \in {s \in {s \in Grouped(r, rows) :
                                           Older(s, Grouped(r, rows)) < MaxLimit} : s.ts = b}}
            = {ts \in rows : BucketIn(r, ts) = b}
      <3>1. PICK span \in Nat : span = RANGE_TO_TIMEDELTA[range]
        BY RangeFacts
      <3>2. now \in Nat /\ Stamps \subseteq Nat
        BY HistoryAssumption DEF IInv, TypeOK
      <3>3. PICK start \in Nat : /\ start <= now /\ now <= start + span
                                 /\ \A n \in Nat : now - span <= n => start <= n
        <4>1. CASE span <= now
          <5>1. now - span \in Nat /\ now - span <= now /\ now <= (now - span) + span
            BY <3>2, <4>1
          <5> QED
            BY <5>1
        <4>2. CASE now < span
          <5>1. /\ 0 <= now /\ now <= 0 + span /\ \A n \in Nat : 0 <= n
            BY <3>2, <4>2
          <5> QED
            BY <5>1
        <4> QED
          BY <3>2, <4>1, <4>2
      <3>4. \A ts \in rows : start <= ts /\ ts < now
        BY <1>2, <3>1, <3>2, <3>3 DEF RowsOfRange
      <3>5. span \div policy[r].width + 2 <= MaxLimit
        BY <3>1 DEF OneAnswer
      <3> QED
        BY <3>2, <3>3, <3>4, <3>5, SamplesOfBucket
    <2> QED
      BY <1>3, <2>1, <2>2
  <1>5. CASE ~DeviceExists
    <2>1. history(RangeQuery(range, BucketName(r), MaxLimit)).samples = {}
      BY <1>5, HistoryAnswers
    <2>2. rollup[r] = {}
      <3>1. \A ts \in rollup[r] : ts \in Stamps /\ arrived[ts] # -1
        BY DEF RowsArrived, IInv, TypeOK
      <3> QED
        BY <1>5, <3>1 DEF DeviceExists
    <2> QED
      BY <2>1, <2>2
  <1> QED
    BY <1>4, <1>5

--------------------------------------------------------------------------------
(* Pages of raw rows.                                                          *)

LEMMA BucketsRise ==
    ASSUME NEW t \in Nat, NEW u \in Nat, t <= u, NEW width \in Nat \ {0}
    PROVE  Bucket(t, width) <= Bucket(u, width)
  <1>1. PICK p \in Nat, q \in Nat : /\ p = t \div width /\ q = u \div width
    BY SMTT(60)
  <1>2. /\ Bucket(t, width) = width * p /\ Bucket(u, width) = width * q
        /\ width * p \in Nat /\ width * q \in Nat
    BY <1>1 DEF Bucket
  <1>3. width * p <= t /\ u < width * q + width
    BY <1>2, BucketHolds
  <1>4. ASSUME p > q PROVE width * p >= width * q + width
    <2>1. PICK k \in Nat : p = q + 1 + k
      <3>1. p - q - 1 \in Nat /\ p = q + 1 + (p - q - 1)
        BY <1>4
      <3> QED
        BY <3>1
    <2>2. width * p = width * q + width + width * k
      BY <2>1, SMTT(60)
    <2>3. width * k \in Nat
      OBVIOUS
    <2> QED
      BY <1>2, <2>2, <2>3
  <1>5. p <= q
    BY <1>2, <1>3, <1>4
  <1>6. PICK k \in Nat : q = p + k
    <2>1. q - p \in Nat /\ q = p + (q - p)
      BY <1>5
    <2> QED
      BY <2>1
  <1>7. width * q = width * p + width * k
    BY <1>6, SMTT(60)
  <1>8. width * k \in Nat
    OBVIOUS
  <1> QED
    BY <1>2, <1>7, <1>8

(* Neither retention takes a row without taking every older one.               *)
LEMMA OldestLeaveFirst ==
    ASSUME IInv, RowsArrived, [Next]_vars, NEW t \in raw, NEW u \in raw, t < u, t \in raw'
    PROVE  u \in raw'
  <1>1. /\ now \in Nat /\ t \in Nat /\ u \in Nat /\ Day \in Nat \ {0} /\ Retention \in Nat
    BY HistoryAssumption, PolicyFacts DEF IInv, TypeOK, Rollup
  <1>2. CASE raw \subseteq raw'
    BY <1>2
  <1>3. CASE DropChunks
    <2>1. Bucket(t, Day) <= Bucket(u, Day) /\ Bucket(t, Day) \in Nat /\ Bucket(u, Day) \in Nat
      BY <1>1, BucketsRise, BucketHolds
    <2>2. ~Expired(t)
      BY <1>3 DEF DropChunks
    <2>3. ~Expired(u)
      BY <1>1, <2>1, <2>2 DEF Expired
    <2> QED
      BY <1>3, <2>3 DEF DropChunks
  <1>4. CASE CronDelete
    <2>1. ~TooOld(t)
      BY <1>4 DEF CronDelete
    <2>2. ~TooOld(u)
      BY <1>1, <2>1 DEF TooOld
    <2> QED
      BY <1>4, <2>2 DEF CronDelete
  <1>5. CASE UNCHANGED raw
    BY <1>5
  <1>6. CASE \E ts \in Stamps : StoreRow(ts)
    BY <1>6 DEF StoreRow
  <1> QED
    BY <1>3, <1>4, <1>5, <1>6
    DEF Next, vars, UpgradeHypertable, UpgradeHourly, UpgradeDaily, CreateAggregate,
        UpgradeCleanup, DowngradeCleanup, DowngradeDaily, DowngradeHourly, DropAggregate,
        Refresh, DropHourly, Tick

LEMMA DeviceStays ==
    ASSUME IInv, [Next]_vars, DeviceExists
    PROVE  DeviceExists'
  <1>1. now \in Nat /\ arrived \in [Stamps -> Nat \cup {-1}]
    BY DEF IInv, TypeOK
  <1>2. CASE UNCHANGED arrived
    BY <1>2 DEF DeviceExists
  <1>3. CASE \E ts \in Stamps : StoreRow(ts)
    BY <1>1, <1>3 DEF DeviceExists, StoreRow
  <1> QED
    BY <1>2, <1>3
    DEF Next, vars, UpgradeHypertable, UpgradeHourly, UpgradeDaily, CreateAggregate,
        UpgradeCleanup, DowngradeCleanup, DowngradeDaily, DowngradeHourly, DropAggregate,
        Refresh, DropHourly, Tick, DropChunks, CronDelete

RawSamples(rows) == {RawSample(ts) : ts \in rows}

NewerThan(ts, rows) == {s \in RawSamples(rows) : s.ts > ts}

(* The rows on a page.                                                         *)
LEMMA RowsOnPage ==
    ASSUME TypeOK, RowsArrived, DeviceExists, NEW offset \in Nat
    PROVE  PageRows(offset) =
               {ts \in raw : Cardinality(NewerThan(ts, raw)) \in offset .. offset + PageSize - 1}
  <1> DEFINE q == PageQuery(0, PageSize, offset)
  <1>1. /\ q.start = 0 /\ q.end = NoTime /\ q.limit = PageSize /\ q.offset = offset
        /\ 0 # NoTime
    BY DEF PageQuery, NoTime
  <1>2. {t \in raw : 0 <= t /\ t <= now} = raw
    <2>1. ASSUME NEW t \in raw PROVE 0 <= t /\ t <= now
      <3>1. t \in Nat /\ t <= now
        BY HistoryAssumption DEF TypeOK, RowsArrived
      <3> QED
        BY <3>1
    <2> QED
      BY <2>1
  <1> HIDE DEF q
  <1>3. history(q) = Answer(200, get_device_history(0, NoTime, PageSize, offset))
    BY <1>1 DEF history
  <1>4. get_device_history(0, NoTime, PageSize, offset) =
            {s \in RawSamples(raw) : Newer(s, RawSamples(raw)) \in offset .. offset + PageSize - 1}
    BY <1>1, <1>2 DEF get_device_history, RawSamples
  <1>5. PageRows(offset) = UNION {s.rows : s \in get_device_history(0, NoTime, PageSize, offset)}
    BY <1>3 DEF PageRows, Answer, q
  <1>6. \A s \in RawSamples(raw) : s.ts \in raw /\ s.rows = {s.ts}
                                    /\ Newer(s, RawSamples(raw)) = Cardinality(NewerThan(s.ts, raw))
    BY DEF RawSamples, RawSample, Newer, NewerThan
  <1>7. ASSUME NEW ts \in raw PROVE \E s \in RawSamples(raw) : s.ts = ts
    <2>1. RawSample(ts) \in RawSamples(raw) /\ RawSample(ts).ts = ts
      BY DEF RawSamples, RawSample
    <2> QED
      BY <2>1
  <1> QED
    BY <1>4, <1>5, <1>6, <1>7

(* A row that is there has finitely many newer ones, fewer than there are rows.*)
LEMMA RankHolds ==
    ASSUME TypeOK, RowsArrived, NEW ts \in raw
    PROVE  /\ IsFiniteSet(NewerThan(ts, raw))
           /\ Cardinality(raw) \in Nat
           /\ Cardinality(NewerThan(ts, raw)) \in 0 .. Cardinality(raw)
  <1>1. /\ now \in Nat /\ raw \in SUBSET Nat /\ \A t \in raw : t <= now
    BY HistoryAssumption DEF TypeOK, RowsArrived
  <1>2. IsFiniteSet(raw)
    BY <1>1, FS_BoundedSetOfNaturals
  <1> DEFINE f == [t \in raw |-> RawSample(t)]
  <1>3. RawSamples(raw) = {f[t] : t \in raw} /\ f = [t \in raw |-> f[t]]
    BY DEF RawSamples
  <1> HIDE DEF f
  <1>4. IsFiniteSet(RawSamples(raw)) /\ Cardinality(RawSamples(raw)) <= Cardinality(raw)
    BY <1>2, <1>3, ImageSize
  <1>5. NewerThan(ts, raw) \subseteq RawSamples(raw)
    BY DEF NewerThan
  <1>6. /\ IsFiniteSet(NewerThan(ts, raw))
        /\ Cardinality(NewerThan(ts, raw)) <= Cardinality(RawSamples(raw))
    BY <1>4, <1>5, FS_Subset
  <1>7. /\ Cardinality(raw) \in Nat /\ Cardinality(RawSamples(raw)) \in Nat
        /\ Cardinality(NewerThan(ts, raw)) \in Nat
    BY <1>2, <1>4, <1>6, FS_CardinalityType
  <1> QED
    BY <1>4, <1>6, <1>7

(* The pages from an offset on hold every row with that many newer ones or     *)
(* more, each on the page its rank falls on.                                   *)
PagesByRank ==
    TypeOK /\ RowsArrived /\ DeviceExists =>
        \A offset \in Nat :
            StillToRead(offset) = {ts \in raw : offset <= Cardinality(NewerThan(ts, raw))}

LEMMA PageOf == PagesByRank
  <1> SUFFICES ASSUME TypeOK, RowsArrived, DeviceExists, NEW offset \in Nat
               PROVE  StillToRead(offset) =
                          {ts \in raw : offset <= Cardinality(NewerThan(ts, raw))}
    BY DEF PagesByRank
  <1>0. PageSize \in Nat \ {0}
    BY QueryAssumption
  <1>1. ASSUME NEW k \in Nat
        PROVE  /\ offset + k * PageSize \in Nat /\ offset <= offset + k * PageSize
               /\ PageRows(offset + k * PageSize)
                    = {ts \in raw : Cardinality(NewerThan(ts, raw))
                           \in offset + k * PageSize .. offset + k * PageSize + PageSize - 1}
    <2>1. PICK n \in Nat : n = k * PageSize
      BY <1>0
    <2>2. offset + n \in Nat /\ offset <= offset + n
      OBVIOUS
    <2>3. PageRows(offset + n)
            = {ts \in raw : Cardinality(NewerThan(ts, raw)) \in offset + n .. offset + n + PageSize - 1}
      BY <2>2, RowsOnPage
    <2> QED
      BY <2>1, <2>2, <2>3
  <1>2. ASSUME NEW ts \in StillToRead(offset)
        PROVE  ts \in raw /\ offset <= Cardinality(NewerThan(ts, raw))
    <2>1. PICK k \in 0 .. Cardinality(raw) - offset : ts \in PageRows(offset + k * PageSize)
      BY DEF StillToRead
    <2>2. k \in Nat
      OBVIOUS
    <2>3. PICK n \in Nat : n = offset + k * PageSize
      BY <1>1, <2>2
    <2>4. /\ offset <= n /\ ts \in raw
          /\ Cardinality(NewerThan(ts, raw)) \in n .. n + PageSize - 1
      BY <1>1, <2>1, <2>2, <2>3
    <2> QED
      BY <1>0, <2>4
  <1>3. ASSUME NEW ts \in raw, offset <= Cardinality(NewerThan(ts, raw))
        PROVE  ts \in StillToRead(offset)
    <2>1. PICK rank \in Nat : rank = Cardinality(NewerThan(ts, raw)) - offset
      BY <1>3, RankHolds
    <2>2. PICK k \in Nat : k * PageSize <= rank /\ rank < k * PageSize + PageSize
      <3>1. PICK k \in Nat : Bucket(rank, PageSize) = PageSize * k
        BY <1>0, BucketsAreMultiples
      <3>2. PageSize * k = k * PageSize
        BY <1>0
      <3> QED
        BY <1>0, <3>1, <3>2, BucketHolds
    <2>3. k <= k * PageSize
      <3>1. PICK n \in Nat : PageSize = n + 1
        <4>1. PageSize - 1 \in Nat /\ PageSize = (PageSize - 1) + 1
          BY <1>0
        <4> QED
          BY <4>1
      <3>2. k * PageSize = k * n + k
        BY <3>1, SMTT(60)
      <3>3. k * n \in Nat
        OBVIOUS
      <3> QED
        BY <3>2, <3>3
    <2>4. PICK n \in Nat : n = k * PageSize
      BY <1>0
    <2>5. k \in 0 .. Cardinality(raw) - offset
      BY <2>1, <2>2, <2>3, <2>4, RankHolds
    <2>6. Cardinality(NewerThan(ts, raw)) \in offset + n .. offset + n + PageSize - 1
      BY <1>0, <2>1, <2>2, <2>4, RankHolds
    <2>7. ts \in PageRows(offset + k * PageSize)
      BY <1>1, <2>4, <2>6
    <2> QED
      BY <2>5, <2>7 DEF StillToRead
  <1> QED
    BY <1>2, <1>3

(* A row that stays has at least as many newer ones as before.                 *)
LEMMA NewerGrows ==
    ASSUME NEW rows \in SUBSET Stamps, NEW later \in SUBSET Stamps, NEW ts \in rows,
           IsFiniteSet(NewerThan(ts, later)),
           \A u \in rows : ts < u => u \in later
    PROVE  Cardinality(NewerThan(ts, rows)) <= Cardinality(NewerThan(ts, later))
  <1>1. NewerThan(ts, rows) \subseteq NewerThan(ts, later)
    BY HistoryAssumption DEF NewerThan, RawSamples, RawSample
  <1> QED
    BY <1>1, FS_Subset

(* What RankHolds says, as a formula to be primed.                             *)
RanksHold ==
    TypeOK /\ RowsArrived =>
        \A ts \in raw : /\ IsFiniteSet(NewerThan(ts, raw))
                        /\ Cardinality(NewerThan(ts, raw)) \in Nat

LEMMA RanksAreNumbers == RanksHold
  BY RankHolds DEF RanksHold

LEMMA PagesStep ==
    ASSUME IInv, RowsArrived, [Next]_vars, TypeOK', RowsArrived', PagesByRank', RanksHold',
           NEW offset \in 1 .. MaxOffset
    PROVE  \A ts \in StillToRead(offset) : ts \in raw' => ts \in StillToRead(offset)'
  <1>0. offset \in Nat
    OBVIOUS
  <1>1. CASE DeviceExists
    <2>1. DeviceExists'
      BY <1>1, DeviceStays
    <2>2. StillToRead(offset) = {ts \in raw : offset <= Cardinality(NewerThan(ts, raw))}
      BY <1>0, <1>1, PageOf DEF IInv, PagesByRank
    <2>3. StillToRead(offset)' = {ts \in raw' : offset <= Cardinality(NewerThan(ts, raw'))}
      BY <1>0, <2>1 DEF PagesByRank
    <2>4. ASSUME NEW ts \in raw, ts \in raw', offset <= Cardinality(NewerThan(ts, raw))
          PROVE  offset <= Cardinality(NewerThan(ts, raw'))
      <3>1. \A u \in raw : ts < u => u \in raw'
        BY <2>4, OldestLeaveFirst
      <3>2. raw \in SUBSET Stamps /\ raw' \in SUBSET Stamps
        BY DEF IInv, TypeOK
      <3>3. /\ Cardinality(NewerThan(ts, raw)) \in Nat
            /\ IsFiniteSet(NewerThan(ts, raw')) /\ Cardinality(NewerThan(ts, raw')) \in Nat
        BY <2>4, RanksAreNumbers DEF RanksHold, IInv
      <3>4. Cardinality(NewerThan(ts, raw)) <= Cardinality(NewerThan(ts, raw'))
        BY <3>1, <3>2, <3>3, NewerGrows
      <3> QED
        BY <1>0, <2>4, <3>3, <3>4
    <2> QED
      BY <2>2, <2>3, <2>4
  <1>2. CASE ~DeviceExists
    <2>1. ASSUME NEW n PROVE PageRows(n) = {}
      <3>1. PageQuery(0, PageSize, n).start # NoTime
        BY DEF PageQuery, NoTime
      <3>2. history(PageQuery(0, PageSize, n)) = Answer(404, {})
        BY <1>2, <3>1 DEF history
      <3> QED
        BY <3>2 DEF PageRows, Answer
    <2> QED
      BY <2>1 DEF StillToRead
  <1> QED
    BY <1>1, <1>2

--------------------------------------------------------------------------------

(* /history and the continuous aggregates agree on every settled bucket, for   *)
(* any windows, retentions, gaps and migrations.                               *)
THEOREM AnswersMatchRollups == Spec => []AnswersAgreeWithRollups
  <1>1. IInv /\ RowsArrived => AnswersAgreeWithRollups
    BY AnswersAgree
  <1> QED
    BY <1>1, HistoryInvariant, RowsHaveArrived, PTL

(* Page by page, newest first, no row that stays is skipped.                   *)
THEOREM PagesAreComplete == Spec => PagesSkipNothing
  <1>1. IInv /\ RowsArrived /\ [Next]_vars /\ IInv' /\ RowsArrived' /\ PagesByRank' /\ RanksHold'
            => [raw' # raw =>
                  \A offset \in 1 .. MaxOffset : \A ts \in StillToRead(offset) :
                      ts \in raw' => ts \in StillToRead(offset)']_vars
    BY PagesStep DEF IInv
  <1> QED
    BY <1>1, PageOf, RanksAreNumbers, HistoryInvariant, RowsHaveArrived, PTL
    DEF Spec, PagesSkipNothing
================================================================================
