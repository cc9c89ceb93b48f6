SPECIFICATION Spec
CONSTANTS
  a1 = a1 a2 = a2 p1 = p1 p2 = p2 u1 = u1 u2 = u2 n1 = n1 n2 = n2 n3 = n3
  Accounts = {a1, a2}
  Projects = {p1, p2}
  Users = {u1}
  Names = {n1, n2, n3}
  AccountOf <- Home
  Rules <- Administration
  Policy = "lock_account"
  Worlds <- Growing
  Runners = {loop}
  Loop = loop
  Unruled = {}
  CanFail = TRUE
  CommandsFail = FALSE
  ReadsFail = FALSE
INVARIANTS NoExcludedGroup
