CONSTANTS
  Source <- OneSource
  Target <- OneTarget
  ThumbFolder <- OneThumbFolder
  Stock <- OneStock
  StartsWith <- NameStartsWith
  IndexOf <- IndexNames
  SdrOf <- SdrNames
  BookPaths <- NestedBooks
  Indexes <- NestedIndexes
  ThumbOf <- TwoThumbs
  NoThumb = "none"
  DeviceOwn <- NestedOwn
  Mounted = TRUE
SPECIFICATION Spec
CHECK_DEADLOCK FALSE
INVARIANTS
  NothingFails
  BothSidesAgree
  SideFilesAreCopied
  SideFilesAreRemoved
  NoEmptyDirectory
PROPERTIES
  OthersUntouched
