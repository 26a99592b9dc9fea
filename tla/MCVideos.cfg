\* Two claims over three rows from each side of every threshold; a donor and
\* a test participant; two queries, two writers and two polls; three runs of
\* the command for items, two imports of links next to one donation.
SPECIFICATION SceneSpec
CONSTANTS
    Ids = {1, 2, 3}
    Rows <- Samples
    PriorityMin = 2
    PrioritySince = 2
    MaxChecks = 3
    Claims = {c1, c2}
    Limits = {1, 2}
    LeaseLimit = 1
    Donors = {d1, d2}
    Excluded = {d2}
    Videos = {v1}
    Command = Command
    MaxRetries = 1
    RunLimit = 2
    Clips = {1}
    Keywords = {k1}
    Mentions <- AllMentions
    Calls = {q1, q2}
    Credentials = 2
    Interactions <- EarlyAndLate
    OtherWriters = {w1, w2}
    Overlap = 1
    CallLimit = 2
    WriteLimit = 2
    PollLimit = 2
    Names <- Accounts
    Files <- SampleFiles
    SyncLimit = 3
    LinkIds = {1, 2}
    Lists <- SampleLists
    Origins = {"DATAPODS", "IMPORT"}
    ImportLimit = 2
    CountLimit = 1
INVARIANTS EveryTypeOK ClaimsDisjoint FollowsOrder RecountExact ProcessedIsQueued
INVARIANTS NothingMissed QueriesComplete AppliedMatches ImportSound
SYMMETRY Interchangeable
CHECK_DEADLOCK FALSE
