SPECIFICATION CardSpec
CONSTANTS
    Tab = {t1}
    Payload = {"as_proposed", "edited"}
    Proposed = "as_proposed"
    MAX_CLICKS = 2
    MAX_PATCHES = 2
INVARIANT FinalPayloadWritten
CHECK_DEADLOCK FALSE
