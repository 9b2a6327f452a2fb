CONSTANTS
    Ids = {a}
    Parties = {p, q}
    Blocks = {1, 2}
    Null = null
SPECIFICATION Spec
INVARIANTS OutcomeStaysShown
CHECK_DEADLOCK FALSE
