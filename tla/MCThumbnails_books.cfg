CONSTANTS
  KfxBooks <- MCKfxBooks
  MobiBooks <- MCMobiBooks
  Names = {"A", "C", "M"}
  NoName = "none"
  NoBook = NoBook
  SignBit = 8
  Shelves <- MCShelves
  MaxFailures = 1
SPECIFICATION Spec
CHECK_DEADLOCK FALSE
INVARIANTS
  RoomyBooksAreReadAsStored
  NamesLeadToPictures
  MobiThumbnailIsDeclared
  DeclaredCoversAreUsed
