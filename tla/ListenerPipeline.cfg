CONSTANTS
    Ids = {a}
    Parties = {p, q}
    Blocks = {1, 2}
    Null = null
SPECIFICATION Spec
INVARIANTS TypeOK RowsTruthful
PROPERTIES WriteOnce OrderSuffices
CHECK_DEADLOCK FALSE
