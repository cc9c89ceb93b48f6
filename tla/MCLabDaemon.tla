----------------------------- MODULE MCLabDaemon -----------------------------
(* Small instances of LabDaemon for TLC.                                   *)
EXTENDS LabDaemon, TLC

CONSTANTS u1, u2, t1, t2, p1, p2, a1, f1, f2

OneUser == {u1}
TwoUsers == {u1, u2}
OneTool == {t1}
TwoTools == {t1, t2}
OneProject == {p1}
TwoProjects == {p1, p2}
OneAccount == {a1}
TwoFolders == {f1, f2}

SameAccount == [p \in Projects |-> a1]
OwnFolders == [p \in Projects |-> IF p = p1 THEN f1 ELSE f2]

\* The request threads are interchangeable.
Threads == Permutations(Workers)

\* Every tool on its own, and t1 a prefix of t2.
Apart == {<<t, t>> : t \in Tools}
Prefix == Apart \cup {<<t1, t2>>}

Nobody == {}

Known(members) ==
  [users |-> [u \in Users |-> "active"], groups |-> [p \in Projects |-> "active"],
   member |-> members]

\* u1 belongs to p1, u2 to p2 (where there is one).
Members == [u \in Users |-> IF u = u1 THEN {p1} ELSE {p2} \cap Projects]
Static == {Known(Members)}

\* What NEMO may report in turn: u2 is new; p1 is closed and u1
\* moves to p2.
Changing ==
  Static \cup
  {[users |-> [u \in Users |-> IF u = u1 THEN "active" ELSE "absent"],
    groups |-> [p \in Projects |-> "active"],
    member |-> [Members EXCEPT ![u2] = {}]],
   [users |-> [u \in Users |-> "active"],
    groups |-> [p \in Projects |-> IF p = p1 THEN "inactive" ELSE "active"],
    member |-> [Members EXCEPT ![u1] = {p2} \cap Projects]]}
==============================================================================
