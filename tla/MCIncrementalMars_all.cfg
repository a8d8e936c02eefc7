SPECIFICATION FairSpec
CONSTANTS
  linux = linux
  macos = macos
  Platforms = {linux, macos}
  MacOS = macos
  NumFrom = 2
  Published <- AllPublished
  Present <- FromTheLast
  NumProcs = 2
  MaxFailures = 2
INVARIANTS UnsignedAreReplaced AllIncrementals OneFailureIsHarmless
PROPERTIES ConvertedOrStuck
