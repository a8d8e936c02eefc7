SPECIFICATION FairSpec
CONSTANTS
    tb = tb
    mb = mb
    linux = linux
    windows = windows
    m1 = m1
    m2 = m2
    Dirs = {linux, windows}
    Procs = {tb}
    DirsOf <- OneProject
    Mars = {m1}
    MaxDay = 3
    Made <- SomeBuilds
    Lookback = 1
    KeepDays = 1
    MayOverlap = FALSE
    MaxFailures = 1
CHECK_DEADLOCK FALSE
INVARIANTS OnlyCurrentIsKept
PROPERTIES CurrentReachesDest NewestIsSignedOrWedged
