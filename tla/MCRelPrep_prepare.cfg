SPECIFICATION Spec
CONSTANTS
  Browsers <- TwoBrowsers
  ProjectsOf <- TwoProjects
  Histories <- OneHistory
  NumIncrementals = 2
  MaxVersion = 4
  MaxBuild = 2
  MaxRuns = 2
  MaxMoves = 2
  MaxFailures = 2
INVARIANTS BuildIsNew IncrementalsAreTheLast ChangelogIsOfTheTree
PROPERTIES BuildsAreTheBrowsers
