SPECIFICATION Spec
CONSTANTS
  a1 = a1 a2 = a2 p1 = p1 p2 = p2 u1 = u1 u2 = u2 n1 = n1 n2 = n2 n3 = n3
  Accounts = {a2}
  Projects = {p2}
  Users = {u1}
  Names = {n1, n2, n3}
  AccountOf <- Home
  Rules <- Administration
  Policy = "lock_account"
  Worlds <- Growing
  Runners = {loop, request}
  Loop = loop
  Unruled = {}
  CanFail = TRUE
  CommandsFail = TRUE
  ReadsFail = FALSE
SYMMETRY RunnerSymmetry
INVARIANTS TypeOK
PROPERTIES ExcludedStayOut ImplementsTables
