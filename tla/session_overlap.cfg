SPECIFICATION Spec
CONSTANTS
  s1 = s1 s2 = s2 n1 = n1 n2 = n2 i1 = i1 i2 = i2 i3 = i3 i4 = i4
  NoThread = NoThread NoId = NoId NoName = NoName
  Sids = {s1, s2}
  Threads = {w1, w2}
  Overlap = TRUE
  Accidents = FALSE
  Names = {n1, n2}
  Ids = {i1, i2, i3, i4}
  UserOf <- OwnNames
  IdOf <- KnownToNemo
  MockOf <- MadeUp
  Rows <- NewOrUsed
  NemoFails = TRUE
  DbFails = FALSE
INVARIANTS NoLostSession
