CONSTANTS
    Core = core
    None = none
    Principals = {owner, alice}
    CONTRACT_OWNER = owner
    DEFAULT_LIVENESS = 0
    MIN_LIVENESS = 1
    MIN_BOND_SATS = 1
    MaxUint = 6
    Identifiers <- OneIdentifier
    Claims <- OneClaim
    Bonds = {1, 2}
    Livenesses = {}
    Candidates = {owner}
    Amounts = {1}
    InitialBalance <- MCInitialBalance
    Funds = 2
    InitHeight = 1
    MaxHeight = 2
    MaxAssertions = 2
SPECIFICATION LiveSpec
PROPERTIES ImplementsEscrow ImplementsFeed BondsReleased
CHECK_DEADLOCK FALSE
