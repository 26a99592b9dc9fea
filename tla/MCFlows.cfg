\* Two tabs and two data requests, one thing that goes wrong; a back-fill of
\* two days and a sync of one of them, one thing that goes wrong.
SPECIFICATION SceneSpec
CONSTANTS
    Tabs = {t1, t2}
    RequestLimit = 2
    CallLimit = 2
    FaultLimit = 1
    Days = {1, 2}
    Load <- VideosPerDay
    BatchSize = 1
    Jobs <- BackfillAndDay
    First <- FirstDay
    Last <- LastDay
    MaxVideos <- Caps
    Runners = {w1, w2}
    TroubleLimit = 1
INVARIANTS EveryTypeOK OneActiveRequest QuestionnaireAfterDonation SubmitAccepted
INVARIANTS DaysAccounted CapKept
PROPERTIES ParticipantDonates JobsEnd
