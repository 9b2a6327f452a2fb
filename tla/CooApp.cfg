CONSTANTS
    User = alice
    MaxSafe = 3
    Core = core
    None = none
    Principals = {owner, alice}
    CONTRACT_OWNER = owner
    DEFAULT_LIVENESS = 1
    MIN_LIVENESS = 1
    MIN_BOND_SATS = 1
    MaxUint = 6
    Identifiers <- OneIdentifier
    Claims <- OneClaim
    Bonds = {1}
    Livenesses = {5}
    Candidates = {alice}
    Amounts = {}
    InitialBalance <- MCInitialBalance
    Funds = 1
    InitHeight = 1
    MaxHeight = 3
    MaxAssertions = 1
SPECIFICATION AppSpec
INVARIANTS ListTruthful ButtonsSafe ButtonsExact CardTells
PROPERTIES ListKept
CHECK_DEADLOCK FALSE
