\* The documented promise that a later or an 'in window' interaction stays:
\* two donations recorded at a time.
SPECIFICATION SceneSpec
CONSTANTS
    Ids = {1, 2, 3}
    Rows <- Samples
    PriorityMin = 2
    PrioritySince = 2
    MaxChecks = 3
    Claims = {}
    Limits = {1, 2}
    LeaseLimit = 0
    Donors = {}
    Excluded = {}
    Videos = {v1}
    Command = Command
    MaxRetries = 1
    RunLimit = 0
    Clips = {1}
    Keywords = {k1}
    Mentions <- AllMentions
    Calls = {}
    Credentials = 2
    Interactions <- EarlyAndLate
    OtherWriters = {w1, w2}
    Overlap = 1
    CallLimit = 2
    WriteLimit = 3
    PollLimit = 1
    Names <- Accounts
    Files <- SampleFiles
    SyncLimit = 0
    LinkIds = {1}
    Lists = {}
    Origins = {}
    ImportLimit = 0
    CountLimit = 0
PROPERTY LaterKept
CHECK_DEADLOCK FALSE
