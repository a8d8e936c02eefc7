SPECIFICATION MachineSpec
CONSTANTS
    Sessions <- TwoOfEach
    Output <- Outs
    Items <- SomeItems
    SessionOf <- Signers
    MaxRuns = 3
    MaxFailures = 2
    Dmg = "dmg"
    Hfs = "hfs"
    Project = "torvpn"
    Platforms <- VpnPlatforms
    Files <- VpnFiles
    Kind <- VpnKind
    BuiltFirst = TRUE
    MaxInterrupts = 2
CHECK_DEADLOCK FALSE
INVARIANTS
    SecretsAvailable
    FinishedIsSigned
