CONSTANTS
    Ids = {a, b}
    Parties = {p}
    Blocks = {1}
    Null = null
    MaxFailures = 2
SPECIFICATION LiveSpec
INVARIANTS TypeOK AppliedUpToCursor RowsTruthful
PROPERTIES Converges
CHECK_DEADLOCK FALSE
