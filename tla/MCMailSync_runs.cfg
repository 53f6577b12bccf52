CONSTANTS
  Books = {b1, b2}
  Contents = {c1, c2}
  Absent = Absent
  MaxEdits = 3
  MaxFaults = 2
SPECIFICATION FairSpec
INVARIANTS
  RecordedWasMailed
  RepeatsAreBounded
PROPERTIES
  EventuallyMailed
