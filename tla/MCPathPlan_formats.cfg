CONSTANTS
  Source <- OneSource
  Target <- OneTarget
  ThumbFolder <- OneThumbFolder
  Stock <- OneStock
  StartsWith <- NameStartsWith
  IndexOf <- IndexNames
  SdrOf <- SdrNames
  BookPaths <- TwoFormats
  Indexes <- SharedIndex
  ThumbOf <- NoThumbs
  NoThumb = "none"
  DeviceOwn = {}
  Mounted = TRUE
SPECIFICATION Spec
CHECK_DEADLOCK FALSE
INVARIANTS
  NothingFails
