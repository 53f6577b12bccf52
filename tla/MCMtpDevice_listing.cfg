CONSTANTS
  Source <- OneSource
  Target <- OneTarget
  ThumbFolder <- OneThumbFolder
  Stock <- OneStock
  StartsWith <- NameStartsWith
  IndexOf <- IndexNames
  SdrOf <- SdrNames
  BookPaths <- OneBook
  Indexes = {}
  ThumbOf <- OneThumb
  NoThumb = "none"
  DeviceOwn = {}
  FreshIds <- TenIds
  ListingsFail = TRUE
  NamesFail = FALSE
SPECIFICATION Spec
CHECK_DEADLOCK FALSE
PROPERTY
  OnlyAbsentBooksAreDropped
