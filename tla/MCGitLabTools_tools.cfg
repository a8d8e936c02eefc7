SPECIFICATION ToolsSpec
CONSTANTS
  Tickets <- Numbers
  Relpreps <- Preps
  TitleOf <- Titles
  IsMullvad = {3}
  Issues <- ThreeIssues
  LabelSets <- SomeLabels
  Links <- SomeLinks
  Versions = {"14.5", "14.5.1", "6"}
  Contains <- Searched
  Asked <- Arguments
  MaxMoves = 1
  ana = ana
  bob = bob
  Devs = {ana, bob}
  MaxPipelines = 2
  MaxFailures = 2
CHECK_DEADLOCK FALSE
INVARIANTS GroupedByPlatforms LinkedAreListed
INVARIANTS PinnedIsThePipelines MainCanBeBuilt
PROPERTIES RelprepIsOfTheVersion NewestIsMerged
