CONSTANTS
    Setups <- BareFails
    None = None
SPECIFICATION Spec
INVARIANTS
    AnswersFit
CHECK_DEADLOCK FALSE
