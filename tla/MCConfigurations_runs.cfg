CONSTANTS
  s1 = s1
  s2 = s2
  d1 = d1
  d2 = d2
  fiction = fiction
  nonfiction = nonfiction
  b1 = b1
  b2 = b2
  c1 = c1
  c2 = c2
  Profiles <- Mixed
  Books = {b1, b2}
  Contents = {c1, c2}
  Absent = Absent
  Nobody = Nobody
  MaxEdits = 3
SPECIFICATION MCSpec
PROPERTIES
  LocalLossIsRequested
  RunsMirror
  EventuallyAgreed
