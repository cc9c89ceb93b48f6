------------------------------ MODULE NemoTables ------------------------------
(***************************************************************************)
(* What the mount handlers may rely on in the tables that reconciliation   *)
(* fills, whoever writes them and in whatever order: a row appears before  *)
(* anything refers to it and never goes away, memberships come and go one  *)
(* at a time, and nobody is a member of what NEMO never said.              *)
(***************************************************************************)
CONSTANTS
  Users, Projects,
  Reportable     \* <<u, p>>: NEMO may say that u belongs to p

VARIABLES
  users,         \* the row of a user
  groups,        \* the row of a project, inactive with its account
  member         \* the projects of a user

vars == <<users, groups, member>>

Row == {"active", "inactive"}

Init ==
  /\ users = [u \in Users |-> "absent"]
  /\ groups = [p \in Projects |-> "absent"]
  /\ member = [u \in Users |-> {}]

SetUser(u, row) ==
  /\ users' = [users EXCEPT ![u] = row]
  /\ UNCHANGED <<groups, member>>

SetProject(p, row) ==
  /\ groups' = [groups EXCEPT ![p] = row]
  /\ UNCHANGED <<users, member>>

\* The projects of an account are opened and closed together.
SetProjects(P, row) ==
  /\ \A p \in P : groups[p] # "absent"
  /\ groups' = [p \in Projects |-> IF p \in P THEN row ELSE groups[p]]
  /\ UNCHANGED <<users, member>>

Join(u, p) ==
  /\ <<u, p>> \in Reportable
  /\ users[u] # "absent" /\ groups[p] # "absent"
  /\ member' = [member EXCEPT ![u] = @ \cup {p}]
  /\ UNCHANGED <<users, groups>>

Leave(u, p) ==
  /\ member' = [member EXCEPT ![u] = @ \ {p}]
  /\ UNCHANGED <<users, groups>>

Next ==
  \/ \E row \in Row :
       \/ \E u \in Users : SetUser(u, row)
       \/ \E p \in Projects : SetProject(p, row)
       \/ \E P \in SUBSET Projects : SetProjects(P, row)
  \/ \E u \in Users, p \in Projects : Join(u, p) \/ Leave(u, p)

Spec == Init /\ [][Next]_vars
===============================================================================
