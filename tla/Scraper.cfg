\* The task: two workers, a lock left behind, a pause that doubles.  The
\* queue: clients that wait for an answer before they claim again.
SPECIFICATION SceneSpec
CONSTANTS
    Workers = {w1, w2}
    TimeLimit = 1
    LockTimeout = 2
    CooldownBase = 2
    CooldownMax = 3
    CacheTimeout = 4
    MessageLimit = 1
    AbortLimit = 2
    Targets = {t1}
    Accounts = {a1, a2}
    NoAccount = NoAccount
    MaxAttempts = 2
    MaxChecks = 2
    BatchSize = 1
    ExternalLease = 1
    InternalLease = 2
    RunLimit = 1
    Backoff = 1
    BlocksBeforeAbort = 1
    FailuresBeforeAbort = 2
    Copies = 1
    MailLimit = 2
    Patient = TRUE
INVARIANTS OneRunAtATime EscalationKept LeaseExclusive
PROPERTIES ScrapingResumes WorkedOff
