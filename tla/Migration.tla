------------------------------- MODULE Migration -------------------------------
(***************************************************************************)
(* The script that takes the sessions of the JSON file into the state      *)
(* database (scripts/migrate_json_to_sqlite.py).  It reads the file        *)
(* without the lock, while the daemon of old may still write it and that   *)
(* of today may already reconcile users, and it may be run again.          *)
(***************************************************************************)
EXTENDS SessionFile

CONSTANTS
  Names, Ids,
  NoId, NoName,
  UserOf,       \* the user name of a session
  IdOf,         \* the identifier of a name in NEMO, NoId if there is none
  MockOf,       \* the identifier derived from a name NEMO does not know
  Rows,         \* the rows of users there may be at first
  NemoFails,    \* the list of the users may come out shorter
  DbFails       \* the database may refuse a statement

\* No name is in two rows, and nobody changed names: the row of an identifier
\* has the name for which the script and NEMO use it.
RowsAgree(rows) ==
  \A i \in Ids : rows[i] # NoName =>
    /\ \A j \in Ids \ {i} : rows[j] # rows[i]
    /\ \A n \in Names : i \in {IdOf[n], MockOf[n]} => rows[i] = n

ASSUME MigrationAssumption ==
  /\ UserOf \in [Sids -> Names]
  /\ IdOf \in [Names -> Ids \cup {NoId}] /\ MockOf \in [Names -> Ids]
  /\ NoId \notin Ids /\ NoName \notin Names
  /\ \A n, m \in Names : n # m =>
       /\ IdOf[n] # NoId => IdOf[n] # IdOf[m]
       /\ MockOf[n] \notin {MockOf[m], IdOf[n], IdOf[m]}
  /\ Rows \subseteq [Ids -> Names \cup {NoName}] /\ Rows # {}
  /\ \A rows \in Rows : RowsAgree(rows)
  /\ NemoFails \in BOOLEAN /\ DbFails \in BOOLEAN

VARIABLES
  userRow,      \* the name in the row of an identifier
  sessionRow,   \* the identifier in the row of a session
  script        \* where the script stands

tables == <<userRow, sessionRow>>
vars == <<fileVars, tables, script>>

Script == [pc: {"idle", "users", "upsert", "save", "done"}, legacy: Map,
           known: [Names -> Ids \cup {NoId}], todo: SUBSET Sids, sid: Sids,
           refused: SUBSET Sids]

NotRun == [pc |-> "idle", legacy |-> NoSessions, known |-> [n \in Names |-> NoId],
           todo |-> {}, sid |-> CHOOSE s \in Sids : TRUE, refused |-> {}]

Init ==
  /\ FileInit
  /\ userRow \in Rows
  /\ sessionRow = [s \in Sids |-> NoId]
  /\ script = NotRun

\* The user name is unique.
Upserted(i, n) ==
  IF \E j \in Ids \ {i} : userRow[j] = n THEN userRow ELSE [userRow EXCEPT ![i] = n]

\* A file that cannot be parsed ends the script.
ReadLegacy ==
  /\ script.pc \in {"idle", "done"}
  /\ script' = IF file.kind = "map"
                 THEN [NotRun EXCEPT !.pc = "users", !.legacy = file.map] ELSE NotRun
  /\ UNCHANGED <<fileVars, tables>>

LoadUsers ==
  /\ script.pc = "users"
  /\ \E seen \in IF NemoFails THEN SUBSET Names ELSE {Names} :
       script' = [script EXCEPT
         !.pc = "upsert",
         !.known = [n \in Names |-> IF n \in seen THEN IdOf[n] ELSE NoId],
         !.todo = {s \in Sids : script.legacy[s] # "none"}]
  /\ UNCHANGED <<fileVars, tables>>

\* The identifier of the user, or one made up for the name.
UserId(n) == IF script.known[n] = NoId THEN MockOf[n] ELSE script.known[n]

\* Faulty variant: the session is saved and its user is not.
MigrateUserNever(s) ==
  /\ script.pc = "upsert"
  /\ s \in script.todo
  /\ script' = [script EXCEPT !.pc = "save", !.sid = s, !.known[UserOf[s]] = UserId(UserOf[s]),
                              !.todo = @ \ {s}]
  /\ UNCHANGED <<fileVars, tables>>

\* A statement the database refuses (it is locked, the disk is full) is logged,
\* and the session counted as one that was migrated.
Refusals(s) == IF DbFails THEN {{}, {s}} ELSE {{}}

MigrateUser(s) ==
  LET n == UserOf[s]
  IN /\ script.pc = "upsert"
     /\ s \in script.todo
     /\ \E refused \in Refusals(s) :
          /\ userRow' = IF refused = {} THEN Upserted(UserId(n), n) ELSE userRow
          /\ script' = [script EXCEPT !.pc = "save", !.sid = s, !.known[n] = UserId(n),
                                      !.todo = @ \ {s}, !.refused = @ \cup refused]
     /\ UNCHANGED <<fileVars, sessionRow>>

\* The user of a session is a foreign key.
MigrateSession ==
  LET s == script.sid
      i == UserId(UserOf[s])
  IN /\ script.pc = "save"
     /\ \E refused \in Refusals(s) :
          /\ sessionRow' = IF refused = {} /\ userRow[i] # NoName
                             THEN [sessionRow EXCEPT ![s] = i] ELSE sessionRow
          /\ script' = [script EXCEPT !.pc = "upsert", !.refused = @ \cup refused]
     /\ UNCHANGED <<fileVars, userRow>>

Migrated ==
  /\ script.pc = "upsert"
  /\ script.todo = {}
  /\ script' = [script EXCEPT !.pc = "done"]
  /\ UNCHANGED <<fileVars, tables>>

Interrupt ==
  /\ script.pc # "idle"
  /\ script' = NotRun
  /\ UNCHANGED <<fileVars, tables>>

\* The daemon of today reconciles a user.
Reconcile(n) ==
  /\ IdOf[n] # NoId
  /\ userRow' = Upserted(IdOf[n], n)
  /\ UNCHANGED <<fileVars, sessionRow, script>>

Next ==
  \/ FileNext /\ UNCHANGED <<tables, script>>
  \/ ReadLegacy \/ LoadUsers
  \/ \E s \in Sids : MigrateUser(s)
  \/ MigrateSession \/ Migrated \/ Interrupt
  \/ \E n \in Names : Reconcile(n)

Spec == Init /\ [][Next]_vars

-----------------------------------------------------------------------------
(* Properties.                                                             *)

TypeOK ==
  /\ FileTypeOK
  /\ userRow \in [Ids -> Names \cup {NoName}]
  /\ sessionRow \in [Sids -> Ids \cup {NoId}]
  /\ script \in Script

\* When the script says that it has migrated the sessions it found, each has a
\* row, under the row of its user (migrate_json_to_sqlite.py:85: "so foreign
\* key matches"), unless the database refused one of its own statements, or its
\* user's name is in the row of another identifier, which the upsert does not
\* replace: the user has left NEMO, or NEMO did not answer.  A statement refused
\* for another session, a script that is interrupted and run again, and a daemon
\* that reconciles users meanwhile, lose none.
MigratedUnlessTaken ==
  script.pc = "done" =>
    \A s \in Sids : script.legacy[s] # "none" =>
      \/ sessionRow[s] # NoId /\ userRow[sessionRow[s]] = UserOf[s]
      \/ \E i \in Ids \ {UserId(UserOf[s])} : userRow[i] = UserOf[s]
      \/ s \in script.refused
===============================================================================
