CONSTANTS
    Core = core
    None = none
    NoAddress = null
    Principals = {owner, alice}
    Accounts = {owner, alice}
    CONTRACT_OWNER = owner
    DEFAULT_LIVENESS = 1
    MIN_LIVENESS = 1
    MIN_BOND_SATS = 1
    FormMinBond = 1
    FormMinLiveness = 1
    MaxUint = 6
    Identifiers <- OneIdentifier
    Statement <- OneByte
    Claims <- OneClaim
    Bonds = {0, 1}
    Livenesses = {0, 1}
    Candidates = {}
    Amounts = {}
    InitialBalance <- MCInitialBalance
    Funds = 2
    InitHeight = 1
    MaxHeight = 3
    MaxAssertions = 1
    MaxDrafts = 1
    MaxClicks = 2
SPECIFICATION TxSpec
INVARIANTS TxTypeOK PageMatchesStorage ConnectButtonFree FormFitsContract ShownPartyRecorded OneEffect DraftSentOnce
PROPERTY PostConditionsFit
CHECK_DEADLOCK FALSE
