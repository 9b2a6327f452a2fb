CONSTANTS
    Core = core
    None = none
    Principals = {owner, alice, bob}
    CONTRACT_OWNER = owner
    DEFAULT_LIVENESS = 1
    MIN_LIVENESS = 1
    MIN_BOND_SATS = 1
    MaxUint = 6
    Identifiers <- OneIdentifier
    Claims <- OneClaim
    Bonds = {0, 1, 2}
    Livenesses = {0, 1, 6}
    Candidates = {alice}
    Amounts = {}
    InitialBalance <- MCInitialBalance
    Funds = 3
    InitHeight = 1
    MaxHeight = 3
    MaxAssertions = 2
SPECIFICATION Spec
INVARIANTS TypeOK Solvent PayoutsCovered WindowRespected EventsDetermineRecord
PROPERTIES Finality
CHECK_DEADLOCK FALSE
