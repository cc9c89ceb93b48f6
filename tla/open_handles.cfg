SPECIFICATION Spec
CONSTANTS
  u1 = u1 u2 = u2 t1 = t1 t2 = t2 p1 = p1 p2 = p2 a1 = a1 f1 = f1 f2 = f2
  NoUser = NoUser NoJob = NoJob NoRow = NoRow
  Users <- OneUser
  Tools <- OneTool
  Contains <- Apart
  Projects <- OneProject
  Accounts <- OneAccount
  AccountOf <- SameAccount
  Folders <- TwoFolders
  FolderOf <- OwnFolders
  BindGroups = FALSE
  Excluded <- Nobody
  NemoStates <- Static
  Workers = {w1}
  ActiveTools = {}
  OpenTools <- OneTool
  Orderly = TRUE
  LossyLink = FALSE
  UmountCanFail = FALSE
  MountCanFail = FALSE
  ReadCanFail = FALSE
  MaxStack = 0
  DbCanFail = FALSE
PROPERTIES OpenSessionSpared
