\* Two workers: a forced daily run for a user and its retries, back-fills that
\* overlap, a backlog of keywords above the threshold, one of them poison,
\* that falls below it; fairness.
SPECIFICATION FairSpec
CONSTANTS
    Users = {1}
    Keywords = {2, 3, 4}
    LastDate = 1
    Poison = {2}
    Workers = {w1, w2}
    NoWorker = NoWorker
    UserBatch = 1
    KeywordBatch = 2
    SmallBacklog = 3
    MaxRetries = 1
    DailySoft = 1
    DailyHard = 2
    BackfillSoft = 1
    LockTimeout = 2
    BackfillHard = 3
    StaleAge = 4
    Daily = {}
    Forced = {"users"}
    MessageLimit = 1
INVARIANTS TypeOK OverlapOnlyIfDeaf ReaperSparesRuns NothingPassedOver
PROPERTIES PromiseKept HealthyGapsClose
