SPECIFICATION Spec
CONSTANTS
  s1 = s1 s2 = s2 n1 = n1 n2 = n2 i1 = i1 i2 = i2 i3 = i3 i4 = i4
  NoThread = NoThread NoId = NoId NoName = NoName
  Sids = {s1, s2}
  Threads = {w1}
  Overlap = FALSE
  Accidents = TRUE
  Names = {n1, n2}
  Ids = {i1, i2, i3, i4}
  UserOf <- OwnNames
  IdOf <- KnownToNemo
  MockOf <- MadeUp
  Rows <- NewOrUsed
  NemoFails = TRUE
  DbFails = TRUE
INVARIANTS TypeOK NoLostSession MigratedUnlessTaken
PROPERTIES ImplementsSessionMap
