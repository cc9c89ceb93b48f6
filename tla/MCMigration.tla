----------------------------- MODULE MCMigration -----------------------------
(* Small instances of SessionFile and Migration for TLC.                   *)
EXTENDS Migration

CONSTANTS s1, s2, n1, n2, i1, i2, i3, i4

\* n1 is a user of NEMO, n2 has left it.
OwnNames == [s \in Sids |-> IF s = s1 THEN n1 ELSE n2]
KnownToNemo == [n \in Names |-> IF n = n1 THEN i1 ELSE NoId]
MadeUp == [n \in Names |-> IF n = n1 THEN i3 ELSE i4]

\* A new database, and one that remembers n2.
NewOrUsed ==
  {[i \in Ids |-> NoName], [i \in Ids |-> IF i = i2 THEN n2 ELSE NoName]}
=============================================================================
