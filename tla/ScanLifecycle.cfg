SPECIFICATION FairSpec
CONSTANTS
    Fargate = {f1}
    Entra = {e1}
    GRACE = 2
    API_TIMEOUT = 1
    REAPER_TIMEOUT = 1
    LAMBDA_CEILING = 2
    EVENT_DELAY = 1
    MAX_ATTEMPTS = 3
    MAX_SCANS = 1
    MAX_START = 1
    MAX_TIME = 4
INVARIANTS ReaperSparesLiveTasks ReapedIsFinal ResultsMatchStatus
PROPERTIES EveryScanSettles ImplementsScanStatus FinishedIsFinal
