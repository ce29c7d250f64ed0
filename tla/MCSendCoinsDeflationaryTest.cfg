\* TestSendCoins_deflationaryCoins: three accounts, bar and foo, sdk.Dec
\* with two decimals; the keeper is called directly, so the message sets
\* the handlers draw from are empty
CONSTANTS
    addr1 = addr1
    addr2 = addr2
    MintAcc = mint
    Users = {addr1, addr2, mint}
    ModuleAcc = bankModule
    EmptyAddr = emptyAddr
    DenomOrder <- TestDenomOrder
    Precision = 100
    Locked <- TestLocked
    ModuleIsBurner = TRUE
    BlockedAddrs = {}
    GenesisStates = {}
    SendAmounts = {}
    MultiEntries = {}
    MaxIOLen = 1
    PoolSpendAmounts = {}
    ParamChoices = {}

SPECIFICATION TestSpec

\* the test ends after its last call
CHECK_DEADLOCK FALSE

INVARIANT TestRequirementsHold
