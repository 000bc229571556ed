------------------------------ MODULE HistoryQuery ------------------------------
(* GET /devices/{id}/history, asked in the states of TelemetryHistory.  A      *)
(* sample is its ts and the rows it was computed from; samples are a set, in   *)
(* the order of their ts.                                                      *)
EXTENDS TelemetryHistory

CONSTANTS
    Minute,      \* in ticks
    RangeDays,   \* the days of "7d", "30d", "90d" and "1y"
    MaxLimit,    \* the greatest limit, 5000
    PageSize,    \* the limit of a client that pages
    MaxOffset    \* bound: the greatest offset

ASSUME QueryAssumption ==
    /\ Minute \in Nat \ {0} /\ MaxLimit \in Nat /\ PageSize \in 1 .. MaxLimit
    /\ MaxOffset \in Nat
    /\ RangeDays \in [{"7d", "30d", "90d", "1y"} -> Nat]

NoTime == -1
NoRange == "none"

RANGE_TO_TIMEDELTA ==
    [range \in {"1h", "6h", "24h", "7d", "30d", "90d", "1y"} |->
        CASE range = "1h" -> Hour [] range = "6h" -> 6 * Hour [] range = "24h" -> Day
          [] OTHER -> RangeDays[range] * Day]

ALLOWED_BUCKETS == {"auto", "5s", "1m", "1h", "1d"}

choose_bucket(range) ==
    CASE range \in {"1h", "6h"} -> "5s" [] range = "24h" -> "1m"
      [] range \in {"7d", "30d"} -> "1h" [] range \in {"90d", "1y"} -> "1d"

resolve_bucket(range, bucket) == IF bucket = "auto" THEN choose_bucket(range) ELSE bucket

date_trunc_field(bucket) ==
    CASE bucket = "1m" -> Minute [] bucket = "1h" -> Hour [] bucket = "1d" -> Day

(* What ?metric= names: all, some known columns, nothing, or an unknown one.   *)
MetricArgs == {"all", "known", "empty", "unknown"}
parse_metrics(metric) == metric \in {"all", "known"}

--------------------------------------------------------------------------------

(* How many of the samples come before one of them, by each order.             *)
Older(sample, samples) == Cardinality({s \in samples : s.ts < sample.ts})
Newer(sample, samples) == Cardinality({s \in samples : s.ts > sample.ts})

RawSample(ts) == [ts |-> ts, rows |-> {ts}]
BucketSample(b, width, rows) == [ts |-> b, rows |-> {ts \in rows : Bucket(ts, width) = b}]

(* Mutants: the oldest rows first, and a range without its first instant.      *)
OldestPage(start, end, limit, offset) ==
    LET found == {RawSample(ts) : ts \in {t \in raw : start <= t /\ t <= now}}
    IN {s \in found : Older(s, found) \in offset .. offset + limit - 1}

ExclusiveSql(bucket, start, end) ==
    LET width == date_trunc_field(bucket)
        rows == {ts \in raw : start < ts /\ ts < end}
    IN {BucketSample(b, width, rows) : b \in {Bucket(ts, width) : ts \in rows}}

(* The query with GROUP BY, over [start, end).                                 *)
build_aggregate_sql(bucket, start, end) ==
    LET width == date_trunc_field(bucket)
        rows == {ts \in raw : start <= ts /\ ts < end}
    IN {BucketSample(b, width, rows) : b \in {Bucket(ts, width) : ts \in rows}}

(* The oldest limit samples of the range that ends now.                        *)
get_device_history_aggregated(range, bucket, limit) ==
    LET start == now - RANGE_TO_TIMEDELTA[range]
        field == resolve_bucket(range, bucket)
        found == IF field = "5s"
                 THEN {RawSample(ts) : ts \in {t \in raw : start <= t /\ t < now}}
                 ELSE build_aggregate_sql(field, start, now)
    IN {s \in found : Older(s, found) < limit}

(* Raw rows of [start, end], the newest first; by default the last 24 hours.   *)
get_device_history(start, end, limit, offset) ==
    LET from == IF start = NoTime THEN now - Day ELSE start
        to == IF end = NoTime THEN now ELSE end
        found == {RawSample(ts) : ts \in {t \in raw : from <= t /\ t <= to}}
    IN {s \in found : Newer(s, found) \in offset .. offset + limit - 1}

(* The ingestor registers a device with its first row.                         *)
DeviceExists == \E ts \in Stamps : arrived[ts] # -1

Answer(status, samples) == [status |-> status, samples |-> samples]

(* The route: which of the two it asks, and in which order requests fail.      *)
history(q) ==
    LET range == IF q.range = NoRange THEN "24h" ELSE q.range IN
    CASE (q.start # NoTime \/ q.end # NoTime) /\ ~DeviceExists -> Answer(404, {})
      [] (q.start # NoTime \/ q.end # NoTime) /\ DeviceExists ->
            Answer(200, get_device_history(q.start, q.end, q.limit, q.offset))
      [] OTHER ->
            CASE range \notin DOMAIN RANGE_TO_TIMEDELTA -> Answer(422, {})
              [] q.bucket \notin ALLOWED_BUCKETS -> Answer(422, {})
              [] ~DeviceExists -> Answer(404, {})
              [] ~parse_metrics(q.metric) -> Answer(422, {})
              [] OTHER -> Answer(200, get_device_history_aggregated(range, q.bucket, q.limit))

--------------------------------------------------------------------------------

RangeQuery(range, bucket, limit) ==
    [start |-> NoTime, end |-> NoTime, range |-> range, bucket |-> bucket,
     metric |-> "all", limit |-> limit, offset |-> 0]

PageQuery(start, limit, offset) ==
    [start |-> start, end |-> NoTime, range |-> NoRange, bucket |-> "auto",
     metric |-> "all", limit |-> limit, offset |-> offset]

(* Bucket b has left the refresh window, is whole in the range and in the      *)
(* retention, and all rows that were ever stored in it came in time.           *)
Settled(r, b, range) ==
    /\ b + policy[r].start < now
    /\ now - RANGE_TO_TIMEDELTA[range] <= b /\ now - Retention <= b
    /\ \A ts \in Stamps :
           arrived[ts] # -1 /\ BucketIn(r, ts) = b => InTime(r, ts) /\ KeptBy(r, ts)

(* One answer holds the whole range: 5000 samples are 90 days by the hour and  *)
(* more, but not a year.                                                       *)
OneAnswer(r, range) == RANGE_TO_TIMEDELTA[range] \div policy[r].width + 2 <= MaxLimit

(* A settled bucket that /history computes from raw rows is the bucket the     *)
(* continuous aggregate holds: two computations, weeks apart, of the same rows.*)
AnswersAgreeWithRollups ==
    \A r \in Rollup : \A b \in {BucketIn(r, ts) : ts \in Stamps} :
        \A range \in DOMAIN RANGE_TO_TIMEDELTA :
            LET bucket == IF r = "hourly" THEN "1h" ELSE "1d"
                answer == history(RangeQuery(range, bucket, MaxLimit))
            IN OneAnswer(r, range) /\ Settled(r, b, range) =>
                   UNION {s.rows : s \in {s \in answer.samples : s.ts = b}}
                       = {ts \in rollup[r] : BucketIn(r, ts) = b}

(* The rows a client has still to read when it has read offset of them: those  *)
(* of the next page, of the one after it, and so on.                           *)
PageRows(offset) == UNION {s.rows : s \in history(PageQuery(0, PageSize, offset)).samples}

StillToRead(offset) ==
    UNION {PageRows(offset + k * PageSize) : k \in 0 .. Cardinality(raw) - offset}

(* A client that reads the newest rows first, page by page, while rows arrive, *)
(* late ones too, and old ones leave, skips none that is there all the time:   *)
(* what it has still to read it finds at a greater offset or at the same one.  *)
(* Time alone moves no page: no row is later than now.                         *)
PagesSkipNothing ==
    [][raw' # raw =>
         \A offset \in 1 .. MaxOffset : \A ts \in StillToRead(offset) :
             ts \in raw' => ts \in StillToRead(offset)']_vars
================================================================================
