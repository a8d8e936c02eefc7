SPECIFICATION Spec
CONSTANTS
    Dmg = "dmg"
    Hfs = "hfs"
    Project = "torbrowser"
    Platforms <- MacosOnly
    Files <- MacFiles
    Kind <- MacKind
    BuiltFirst = FALSE
    MaxInterrupts = 0
INVARIANT
    WaitsForFinishedBuild
