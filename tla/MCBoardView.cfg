SPECIFICATION Spec
CONSTANTS
  Universe <- MCUniverse
  Coords = {"ours", "theirs"}
  Seeds <- MCSeeds
  MaxLog = 8
  MaxDepth = 2
CHECK_DEADLOCK FALSE
INVARIANTS
  ReadersAgree
  OwnerHasTheLastWord
  RetractionLeavesNoTrace
  BannedHaveNoVoice
  FeedAgreesWithIdeaPage
PROPERTIES
  OnlyModeratorsModerate
