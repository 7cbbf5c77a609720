SPECIFICATION FairSpec
CONSTANTS
    Place = {p1, p2}
    PhaseOne = {m1}
    PhaseTwo = {m2}
    WORKERS = 2
    CAP = 1
    BATCH_TIMEOUT = TRUE
    Scan = {s1}
    Finding = {f1}
    COMMITS = 2
    MAX_RECEIVE = 3
    Call = {c1, c2}
    Grant = {g1, g2}
    NoContent = NoContent
    MINUTE = 2
    MAX_EDITS = 2
    MAX_TIME = 6
    MAX_ATTEMPTS = 3
INVARIANTS CompletedSawEverything NoCardSwallowed NothingUndone SaidIsDone
PROPERTIES ScanEnds EveryMessageSettles PingComes
CHECK_DEADLOCK FALSE
