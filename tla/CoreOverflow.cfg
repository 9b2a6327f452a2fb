CONSTANTS
    Core = core
    None = none
    Principals = {owner, alice}
    CONTRACT_OWNER = owner
    DEFAULT_LIVENESS = 1
    MIN_LIVENESS = 1
    MIN_BOND_SATS = 1
    MaxUint = 6
    Identifiers <- OneIdentifier
    Claims <- OneClaim
    Bonds = {0, 1}
    Livenesses = {0, 1, 6}
    Candidates = {alice}
    Amounts = {1}
    InitialBalance <- MCInitialBalance
    Funds = 2
    InitHeight = 1
    MaxHeight = 3
    MaxAssertions = 2
SPECIFICATION Spec
INVARIANTS DisputableWithinWindow
CHECK_DEADLOCK FALSE
