SPECIFICATION Spec
CONSTANTS
    Minute = 1
    Hour = 2
    Day = 4
    RetentionDays = 4
    HourlyDays = 4
    Gap <- GapOfJobs
    RangeDays <- DaysOfRange
    MaxLimit = 10
    PageSize = 1
    MaxOffset = 2
    Stamps = {0, 3, 4}
    MaxTime = 20
    LastMigration = 0
    MaxLate = 8
INVARIANTS RollupsKeepHistory RecentRowsAreKept AnswersAgreeWithRollups
PROPERTY PagesSkipNothing
CHECK_DEADLOCK FALSE
