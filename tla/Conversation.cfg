SPECIFICATION ConversationFairSpec
CONSTANTS
    MAX_ATTEMPTS = 2
    TURNS = 3
    Call = {c1, c2, c3}
    UTTERANCES = 3
    Ask = {a1, a2}
    Tool = {t1}
    MAX_TOOL_ROUNDS = 2
    MAX_USES = 1
INVARIANTS OrderKept ToolResultsKept ReloadShowsTurn HistoryIsWhole
PROPERTIES ImplementsTranscript EveryTurnSettles TurnEnds
CHECK_DEADLOCK FALSE
