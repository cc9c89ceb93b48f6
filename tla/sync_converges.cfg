SPECIFICATION FairSpec
CONSTANTS
  a1 = a1 a2 = a2 p1 = p1 p2 = p2 u1 = u1 u2 = u2 n1 = n1 n2 = n2 n3 = n3
  Accounts = {a1}
  Projects = {p1}
  Users = {u1, u2}
  Names = {n1, n2, n3}
  AccountOf <- Home
  Rules <- Administration
  Policy = "lock_account"
  Worlds <- Renaming
  Runners = {loop, request}
  Loop = loop
  Unruled = {}
  CanFail = FALSE
  CommandsFail = FALSE
  ReadsFail = FALSE
PROPERTIES Converges RunsReconcile
