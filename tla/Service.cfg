CONSTANTS
  Pipelines = {"Char", "Character"}
  Passes = {"forward"}
  PassesOf <- MCPassesOf
  Masks = {1, 3}
  CommonMasks = {1}
  Modes = {"default"}
  DefaultMode = "default"
  Contents <- MCContents
  Parses <- MCParses
  Declares <- MCDeclares
  Failing <- MCFailing
  LongPasses = {}
  RecentLimit = 2
  MaxEdits = 1
  PrefixOf <- MCPrefixOf
SPECIFICATION FairMetalSpec
CHECK_DEADLOCK FALSE
INVARIANTS
  MetalTypeOK
  NoStaleVariant
  RightVariant
  LibrariesFollowTheCore
PROPERTIES
  ReloadBringsBackRecent
  ReloadsLeaveNoDeadPointer
  EventuallyFresh
