SPECIFICATION FairSpec
CONSTANTS
    e1 = e1
    e2 = e2
    Event = {e1, e2}
    Shapes <- MCShapes
    COPIES = 2
    Worker = {w1, w2}
    DEVICES = 2
    PUSH_RATE_LIMIT_HOUR = 1
    BATCH_SIZE = 2
    MAX_RECEIVE = 2
    DAILY_CAP_CENTS = 1
    MAX_COST = 1
    GREYNOISE_CAP = 1
    Allowed = {"app"}
    HIGH_VOLUME = 1
    MAX_HOUR = 1
INVARIANTS AlertedOnce SilencedOnlyAtLimit SpendNearCap BedrockAccounted
PROPERTY QueueDrains
CHECK_DEADLOCK FALSE
