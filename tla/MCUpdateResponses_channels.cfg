SPECIFICATION FairSpec
CONSTANTS
  linux = linux
  windows = windows
  Channels = {"alpha", "release"}
  Oses <- TwoOses
  Targets <- SomeTargets
  OsOf <- BuildTargets
  OldVersions <- OldOf
  SeriesOf <- NewOf
  NumFrom = 2
INVARIANTS PartialFits SmallestUpdate
PROPERTIES NoWatershedSkipped GetsToTheLast
