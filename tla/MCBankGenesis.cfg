CONSTANTS
    u1 = u1
    u2 = u2
    bankModule = bankModule
    emptyAddr = emptyAddr
    Users <- MCUsers
    ModuleAcc = bankModule
    EmptyAddr = emptyAddr
    DenomOrder <- MCDenomOrder
    Precision <- MCPrecision
    Locked <- MCLocked
    ModuleIsBurner = TRUE
    BlockedAddrs = {bankModule}
    GenesisStates <- MCGenesisStates
    SendAmounts <- MCSendAmounts
    MultiEntries <- MCMultiEntries
    MaxIOLen = 2
    PoolSpendAmounts <- MCPoolSpendAmounts
    ParamChoices <- MCParamChoices
    ImportGenesisStates <- MCImportGenesisStates

SPECIFICATION GenesisSpec

INVARIANT GenesisTypeOK
INVARIANT SupplyInvariant
INVARIANT LockedCoinsNeverSpent
INVARIANT PartialWritesNeverMint
PROPERTY RestartPreservesLedger
