SPECIFICATION Spec
CONSTANTS
    Fargate = {}
    Entra = {e1}
    GRACE = 1
    API_TIMEOUT = 0
    REAPER_TIMEOUT = 1
    LAMBDA_CEILING = 1
    EVENT_DELAY = 1
    MAX_ATTEMPTS = 3
    MAX_SCANS = 1
    MAX_START = 0
    MAX_TIME = 2
PROPERTY SigninSparesScan
