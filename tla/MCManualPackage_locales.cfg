SPECIFICATION Spec
CONSTANTS
  Locales = {"en", "fr"}
  Default = "en"
  StartTags <- SomeTags
  Texts = {"data", "doctype", "pi"}
  AssetPath <- TwoPaths
  AssetName <- SafeNames
  MaxDepth = 4
CHECK_DEADLOCK FALSE
INVARIANTS ListedAreComplete
PROPERTIES PagesAreWhole LinksLeadToTheirSections RefusedForMissingSections
