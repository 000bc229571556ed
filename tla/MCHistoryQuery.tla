----------------------------- MODULE MCHistoryQuery -----------------------------
(* An instance of HistoryQuery: a day has two hours, and the longest range but *)
(* one is the retention, as 90 days are in the code.                           *)
EXTENDS HistoryQuery

GapOfJobs == [r \in Rollup |-> IF r = "hourly" THEN 2 ELSE 2]

DaysOfRange ==
    [range \in {"7d", "30d", "90d", "1y"} |->
        CASE range \in {"7d", "30d"} -> 3 [] range = "90d" -> RetentionDays [] range = "1y" -> 5]
================================================================================
