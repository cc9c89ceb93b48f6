----------------------------- MODULE MCNemoSync -----------------------------
(* Small instances of NemoSync for TLC.                                    *)
EXTENDS NemoSync, TLC

CONSTANTS a1, a2, p1, p2, u1, u2, n1, n2, n3

Home == [p \in Projects |-> IF p = p1 THEN a1 ELSE a2]

\* The rule of config.yaml that names an account.
Administration == [projectIds |-> {}, projectNames |-> {}, accountIds |-> {},
                   accountNames |-> {a2} \cap Accounts]

Full(names, members) ==
  [account |-> [a \in Accounts |-> "active"], project |-> [p \in Projects |-> "active"],
   user |-> [u \in Users |-> "active"], name |-> names, member |-> members]
\* The runners differ for the fairness of the daemon's loop only.
RunnerSymmetry == Permutations(Runners)

Original == [u \in Users |-> IF u = u1 THEN n1 ELSE n2]

\* The account a2 and its project p2 come into being, p1 is opened, and the
\* users join both; or all of it is undone.
Growing ==
  LET full == Full(Original, [u \in Users |-> Projects])
  IN {full,
      [full EXCEPT !.account = [a \in Accounts |-> IF a = a2 THEN "absent" ELSE "active"],
                   !.project = [p \in Projects |-> IF p = p2 THEN "absent" ELSE "inactive"],
                   !.member = [u \in Users |-> {}]]}

\* u2 takes a new name and leaves, u1 takes the name u2 had.
Renaming ==
  LET before == Full(Original, [u \in Users |-> Projects])
  IN {before,
      [before EXCEPT !.name = [u \in Users |-> IF u = u1 THEN n2 ELSE n3],
                     !.user = [u \in Users |-> IF u = u1 THEN "active" ELSE "inactive"],
                     !.member = [u \in Users |-> IF u = u1 THEN Projects ELSE {}]]}
=============================================================================
