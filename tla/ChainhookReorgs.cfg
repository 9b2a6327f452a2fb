CONSTANTS
    Ids = {a}
    Parties = {p, q}
    Blocks = {1}
    Null = null
    MaxFailures = 1
    MaxReorgs = 2
SPECIFICATION ReorgSpec
INVARIANTS SurvivorsShown
CHECK_DEADLOCK FALSE
