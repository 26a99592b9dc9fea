\* The documented promise that scheduled runs are skipped during the pause.
SPECIFICATION TaskSpec
CONSTANTS
    Workers = {w1, w2}
    TimeLimit = 1
    LockTimeout = 2
    CooldownBase = 1
    CooldownMax = 3
    CacheTimeout = 4
    MessageLimit = 1
    AbortLimit = 2
PROPERTIES CooldownRespected
