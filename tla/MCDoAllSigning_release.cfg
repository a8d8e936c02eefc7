SPECIFICATION FairSpec
CONSTANTS
    Dmg = "dmg"
    Hfs = "hfs"
    Project = "torbrowser"
    Platforms <- AllPlatforms
    Files <- BrowserFiles
    Kind <- BrowserKind
    BuiltFirst = FALSE
    MaxInterrupts = 1
INVARIANTS
    PublishedIsFinal
    PublishedIsConsistent
    UpdatesMatchMars
PROPERTIES
    NoSignatureLost
    EventuallyFinishedOrWedged
