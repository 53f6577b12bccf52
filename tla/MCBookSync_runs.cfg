CONSTANTS
  b1 = b1
  b2 = b2
  c1 = c1
  c2 = c2
  Books = {b1, b2}
  Contents = {c1, c2}
  Size <- GrowingSize
  Absent = Absent
  Garbled = Garbled
  None = None
  MaxEdits = 3
  MaxFaults = 1
  ScansSkip = TRUE
SPECIFICATION FairSpec
INVARIANTS
  HistoryWasOnDevice
  SecondRunIdle
  SmoothRunsMirror
PROPERTIES
  LocalLossNeedsDelivery
  SmoothLocalLossIsRequested
  ForeignBooksUntouched
  EventuallyAgreed
