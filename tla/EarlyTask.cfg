\* The documented promise that the task of a donation starts once it landed.
SPECIFICATION ParticipationSpec
CONSTANTS
    Tabs = {t1}
    RequestLimit = 3
    CallLimit = 2
    FaultLimit = 2
INVARIANT DonationRead
