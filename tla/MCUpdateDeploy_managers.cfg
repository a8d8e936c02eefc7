SPECIFICATION FairSpec
CONSTANTS
  ana = ana
  bob = bob
  linux = linux
  macos = macos
  android = android
  top = top
  Managers = {ana, bob}
  Channels = {"alpha", "release"}
  ChannelsOf <- TwoManagers
  Desktop = {linux, macos}
  Android = {android}
  Top = top
  Latest <- LatestVersions
  Included <- IncludedItems
  DeployFirst = TRUE
  MaxTrouble = 2
INVARIANTS NothingUnapproved WholeRelease NotBlockedByItself
PROPERTIES ServesReleases NothingGoesBack ServedOrStuck
