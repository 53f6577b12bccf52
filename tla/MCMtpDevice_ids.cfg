CONSTANTS
  Source <- OneSource
  Target <- OneTarget
  ThumbFolder <- OneThumbFolder
  Stock <- OneStock
  StartsWith <- NameStartsWith
  IndexOf <- IndexNames
  SdrOf <- SdrNames
  BookPaths <- TwoBooks
  Indexes <- OneIndex
  ThumbOf <- OneThumb
  NoThumb = "none"
  DeviceOwn = {}
  FreshIds <- TenIds
  ListingsFail = FALSE
  NamesFail = FALSE
SPECIFICATION Spec
CHECK_DEADLOCK FALSE
INVARIANTS
  OneObjectPerPath
  IdsAreCurrent
PROPERTIES
  ImplementsPathPlan
  OnlyAbsentBooksAreDropped
