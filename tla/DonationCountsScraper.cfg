\* The documented promise that the scraper may go on during a recount.
SPECIFICATION Spec
CONSTANTS
    Donors = {d1, d2}
    Excluded = {}
    Videos = {v1}
    Command = Command
    MaxRetries = 0
    RunLimit = 1
INVARIANT RecountDespiteScraper
SYMMETRY DonorSymmetry
CHECK_DEADLOCK FALSE
