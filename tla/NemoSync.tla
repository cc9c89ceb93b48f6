------------------------------ MODULE NemoSync ------------------------------
(***************************************************************************)
(* Reconciliation with NEMO (modules/nemo_sync.py).  run_once fetches the  *)
(* accounts, projects and users of NEMO in three requests and writes them  *)
(* to the state database and to the operating system, one transaction or   *)
(* command at a time.  The loop of the daemon calls it, every request that *)
(* names an unknown user or project calls it, and scripts/sync_nemo.py     *)
(* calls it from a process of its own: no lock keeps the runs apart.       *)
(*                                                                         *)
(* NEMO, a fetched list and the database have the same shape; "absent"     *)
(* stands for what is not in a list or has no row.                         *)
(***************************************************************************)
EXTENDS FiniteSets

CONSTANTS
  Accounts, Projects, Users,
  Names,          \* user names
  AccountOf,      \* the account of a project
  Rules,          \* the exclusion rules of the configuration
  Policy,         \* on_deactivation
  Worlds,         \* bound: what NEMO may contain
  Runners,        \* bound: runs at a time
  Loop,           \* the runner that is the loop of the daemon
  Unruled,        \* runners without exclusion rules: the script
  CanFail,        \* requests, transactions and runs may fail
  CommandsFail,   \* and so may the commands of the operating system
  ReadsFail       \* and so may the reads of the database

Status == {"absent", "active", "inactive"}

World == [account: [Accounts -> Status], project: [Projects -> Status],
          user: [Users -> Status], name: [Users -> Names],
          member: [Users -> SUBSET Projects]]

ASSUME SyncAssumption ==
  /\ AccountOf \in [Projects -> Accounts]
  /\ Rules \in [projectIds: SUBSET Projects, projectNames: SUBSET Projects,
                accountIds: SUBSET Accounts, accountNames: SUBSET Accounts]
  /\ Policy \in {"lock_account", "remove_membership_only", "ignore"}
  /\ Worlds \subseteq World /\ Worlds # {}
  /\ Users # {} /\ Projects # {}
  /\ Loop \in Runners
  /\ Unruled \subseteq Runners
  /\ CanFail \in BOOLEAN /\ CommandsFail \in BOOLEAN /\ ReadsFail \in BOOLEAN

PCs == {"idle", "get_projects", "get_users", "accounts", "projects", "provision",
        "users", "create", "status", "members", "compare", "apply"}

Run == [pc: PCs, got: World, todo: SUBSET (Accounts \cup Projects \cup Users),
        proj: Projects, user: Users, new: SUBSET Projects,
        add: SUBSET Projects, del: SUBSET Projects]

VARIABLES
  nemo,     \* what NEMO contains
  calm,     \* from now on NEMO does not change and nothing fails
  db,       \* accounts, projects, users and memberships tables
  groups,   \* projects with a Linux group and a directory
  linux,    \* users with a Linux account
  homes,    \* users whose directory belongs to them and has its quota
  memberOf, \* the Linux groups of a user
  locked,   \* users whose Linux account is locked
  run       \* the runs

os == <<groups, linux, homes, memberOf, locked>>
vars == <<nemo, calm, db, os, run>>

Empty(w) == [account |-> [a \in Accounts |-> "absent"],
             project |-> [p \in Projects |-> "absent"],
             user |-> [u \in Users |-> "absent"],
             name |-> w.name, member |-> [u \in Users |-> {}]]

Idle(w) == [pc |-> "idle", got |-> Empty(w), todo |-> {},
            proj |-> CHOOSE p \in Projects : TRUE,
            user |-> CHOOSE u \in Users : TRUE,
            new |-> {}, add |-> {}, del |-> {}]

Init ==
  /\ nemo \in Worlds
  /\ calm = FALSE
  /\ db = Empty(nemo)
  /\ groups = {}
  /\ linux = {}
  /\ homes = {}
  /\ memberOf = [u \in Users |-> {}]
  /\ locked = {}
  /\ run = [r \in Runners |-> Idle(nemo)]

-----------------------------------------------------------------------------
(* Failures.  A request that fails yields an empty list, one that fails on *)
(* a later page the pages before it.  The database and the operating       *)
(* system log an error and the run goes on: nothing is written, a read     *)
(* finds no row.                                                           *)

Failing == CanFail /\ ~calm

Listing(status) ==
  {[x \in DOMAIN status |-> IF x \in S THEN status[x] ELSE "absent"] :
     S \in IF Failing THEN SUBSET DOMAIN status ELSE {DOMAIN status}}

Listed(status) == {x \in DOMAIN status : status[x] # "absent"}

Outcome(new, old) == IF Failing THEN {new, old} ELSE {new}

Commit(new) == db' \in Outcome(new, db)

Result(new, old) == IF CommandsFail /\ ~calm THEN {new, old} ELSE {new}

\* The rows of accounts and projects that reads may miss.
Misses == IF Failing /\ ReadsFail THEN SUBSET (Accounts \cup Projects) ELSE {{}}

-----------------------------------------------------------------------------
(* Exclusion rules, evaluated with the rows that are found.                *)

\* _is_project_excluded: an account is recognised by its name only if it has
\* a row.
Recognised(p, missed) ==
  \/ p \in Rules.projectIds \cup Rules.projectNames
  \/ AccountOf[p] \in Rules.accountIds
  \/ /\ AccountOf[p] \in Rules.accountNames
     /\ db.account[AccountOf[p]] # "absent" /\ AccountOf[p] \notin missed

\* _is_project_id_excluded
IdRecognised(p, missed) ==
  IF db.project[p] = "absent" \/ p \in missed
    THEN p \in Rules.projectIds ELSE Recognised(p, missed)

-----------------------------------------------------------------------------
(* Fetching.                                                               *)

FetchAccounts(r) ==
  /\ run[r].pc = "idle"
  /\ \E list \in Listing(nemo.account) :
       run' = [run EXCEPT ![r].pc = "get_projects", ![r].got.account = list]
  /\ UNCHANGED <<nemo, calm, db, os>>

FetchProjects(r) ==
  /\ run[r].pc = "get_projects"
  /\ \E list \in Listing(nemo.project) :
       run' = [run EXCEPT ![r].pc = "get_users", ![r].got.project = list]
  /\ UNCHANGED <<nemo, calm, db, os>>

FetchUsers(r) ==
  /\ run[r].pc = "get_users"
  /\ \E list \in Listing(nemo.user) :
       run' = [run EXCEPT
         ![r].pc = "accounts", ![r].todo = Listed(run[r].got.account),
         ![r].got = [@ EXCEPT !.user = list, !.name = nemo.name,
                              !.member = nemo.member]]
  /\ UNCHANGED <<nemo, calm, db, os>>

-----------------------------------------------------------------------------
(* Writing.                                                                *)

SyncAccount(r, a) ==
  /\ run[r].pc = "accounts"
  /\ a \in run[r].todo
  /\ Commit([db EXCEPT !.account[a] = run[r].got.account[a]])
  /\ run' = [run EXCEPT ![r].todo = @ \ {a}]
  /\ UNCHANGED <<nemo, calm, os>>

\* Faulty variant: the projects are taken from the list of accounts.
AccountsDoneWrongList(r) ==
  /\ run[r].pc = "accounts"
  /\ run[r].todo = {}
  /\ run' = [run EXCEPT ![r].pc = "projects", ![r].todo = Listed(run[r].got.account)]
  /\ UNCHANGED <<nemo, calm, db, os>>

AccountsDone(r) ==
  /\ run[r].pc = "accounts"
  /\ run[r].todo = {}
  /\ run' = [run EXCEPT ![r].pc = "projects", ![r].todo = Listed(run[r].got.project)]
  /\ UNCHANGED <<nemo, calm, db, os>>

\* Faulty variant: foreign keys are not enforced on this connection.
UpsertProjectUnchecked(p, status) == [db EXCEPT !.project[p] = status]

\* The account of a project is a foreign key.
UpsertProject(p, status) ==
  IF db.account[AccountOf[p]] # "absent" THEN [db EXCEPT !.project[p] = status] ELSE db

SyncProject(r, p) ==
  /\ run[r].pc = "projects"
  /\ p \in run[r].todo
  /\ Commit(UpsertProject(p, run[r].got.project[p]))
  /\ run' = [run EXCEPT ![r].pc = "provision", ![r].proj = p, ![r].todo = @ \ {p}]
  /\ UNCHANGED <<nemo, calm, os>>

ProvisionProject(r) ==
  LET p == run[r].proj
  IN /\ run[r].pc = "provision"
     /\ \E missed \in Misses :
          groups' \in IF r \notin Unruled /\ Recognised(p, missed)
                       THEN {groups} ELSE Result(groups \cup {p}, groups)
     /\ run' = [run EXCEPT ![r].pc = "projects"]
     /\ UNCHANGED <<nemo, calm, db, linux, homes, memberOf, locked>>

ProjectsDone(r) ==
  /\ run[r].pc = "projects"
  /\ run[r].todo = {}
  /\ run' = [run EXCEPT ![r].pc = "users", ![r].todo = Listed(run[r].got.user)]
  /\ UNCHANGED <<nemo, calm, db, os>>

\* The user name is unique.
UpsertUser(u, status, name) ==
  IF \E v \in Users \ {u} : db.user[v] # "absent" /\ db.name[v] = name
    THEN db
    ELSE [db EXCEPT !.user[u] = status, !.name[u] = name]

SyncUser(r, u) ==
  /\ run[r].pc = "users"
  /\ u \in run[r].todo
  /\ Commit(UpsertUser(u, run[r].got.user[u], run[r].got.name[u]))
  /\ run' = [run EXCEPT ![r].pc = "create", ![r].user = u, ![r].todo = @ \ {u}]
  /\ UNCHANGED <<nemo, calm, os>>

\* Faulty variant: an account is created in handle_init_user only.
CreateUserNever(r) ==
  /\ run[r].pc = "create"
  /\ run' = [run EXCEPT ![r].pc = "status"]
  /\ UNCHANGED <<nemo, calm, db, os>>

\* provision_user, ensure_user_directory and apply_user_quota: the directory
\* cannot be given to a user without an account.
Provision(u) ==
  /\ linux' \in Result(linux \cup {u}, linux)
  /\ homes' \in IF u \in linux' THEN Result(homes \cup {u}, homes) ELSE {homes}
  /\ UNCHANGED <<nemo, calm, db, groups, memberOf, locked>>

CreateUser(r) ==
  /\ run[r].pc = "create"
  /\ Provision(run[r].user)
  /\ run' = [run EXCEPT ![r].pc = "status"]

\* handle_init_user, on a request thread; the run it begins for a user it
\* does not know is one of the other runs.
InitUser(u) ==
  /\ Provision(u)
  /\ UNCHANGED run

\* Faulty variant: an account that is locked is never unlocked.
SetStatusLocks(r) ==
  /\ run[r].pc = "status"
  /\ locked' = IF run[r].user \in linux /\ run[r].got.user[run[r].user] = "inactive"
                  /\ Policy = "lock_account"
                 THEN locked \cup {run[r].user} ELSE locked
  /\ run' = [run EXCEPT ![r].pc = "users"]
  /\ UNCHANGED <<nemo, calm, db, groups, linux, homes, memberOf>>

\* set_user_active_status, which does nothing to a user without an account.
SetStatus(r) ==
  LET u == run[r].user
      active == run[r].got.user[u] = "active"
  IN /\ run[r].pc = "status"
     /\ locked' \in IF u \notin linux THEN {locked}
                    ELSE IF active THEN Result(locked \ {u}, locked)
                    ELSE IF Policy = "lock_account" THEN Result(locked \cup {u}, locked)
                    ELSE {locked}
     /\ memberOf' \in IF u \in linux /\ ~active /\ Policy = "remove_membership_only"
                        THEN Result([memberOf EXCEPT ![u] = {}], memberOf) ELSE {memberOf}
     /\ run' = [run EXCEPT ![r].pc = "users"]
     /\ UNCHANGED <<nemo, calm, db, groups, linux, homes>>

UsersDone(r) ==
  /\ run[r].pc = "users"
  /\ run[r].todo = {}
  /\ run' = [run EXCEPT ![r].pc = "members", ![r].todo = Listed(run[r].got.user)]
  /\ UNCHANGED <<nemo, calm, db, os>>

Reported(w, u) ==
  IF w.user[u] = "inactive" /\ Policy = "remove_membership_only"
    THEN {} ELSE w.member[u]

\* The projects a user is to have.
FilterProjects(r, u) ==
  /\ run[r].pc = "members"
  /\ u \in run[r].todo
  /\ \E missed \in Misses :
       run' = [run EXCEPT ![r].pc = "compare", ![r].user = u, ![r].todo = @ \ {u},
                 ![r].new = {p \in Reported(run[r].got, u) :
                               r \in Unruled \/ ~IdRecognised(p, missed)}]
  /\ UNCHANGED <<nemo, calm, db, os>>

\* Faulty variant: memberships are added and never removed.
CompareAddsOnly(r) ==
  /\ run[r].pc = "compare"
  /\ run' = [run EXCEPT ![r].pc = "apply",
                        ![r].add = run[r].new \ db.member[run[r].user]]
  /\ UNCHANGED <<nemo, calm, db, os>>

CompareProjects(r) ==
  /\ run[r].pc = "compare"
  /\ \E old \in IF ReadsFail THEN Outcome(db.member[run[r].user], {})
               ELSE {db.member[run[r].user]} :
       run' = [run EXCEPT ![r].pc = "apply", ![r].add = run[r].new \ old,
                          ![r].del = old \ run[r].new]
  /\ UNCHANGED <<nemo, calm, db, os>>

\* Faulty variant: foreign keys are not enforced on this connection.
AddMembershipUnchecked(r, p) ==
  /\ run[r].pc = "apply"
  /\ p \in run[r].add
  /\ Commit([db EXCEPT !.member[run[r].user] = @ \cup {p}])
  /\ run' = [run EXCEPT ![r].add = @ \ {p}]
  /\ UNCHANGED <<nemo, calm, os>>

\* User and project of a membership are foreign keys.
AddMembership(r, p) ==
  LET u == run[r].user
  IN /\ run[r].pc = "apply"
     /\ p \in run[r].add
     /\ Commit(IF db.user[u] # "absent" /\ db.project[p] # "absent"
                 THEN [db EXCEPT !.member[u] = @ \cup {p}] ELSE db)
     /\ run' = [run EXCEPT ![r].add = @ \ {p}]
     /\ UNCHANGED <<nemo, calm, os>>

RemoveMembership(r, p) ==
  /\ run[r].pc = "apply"
  /\ run[r].add = {}
  /\ p \in run[r].del
  /\ Commit([db EXCEPT !.member[run[r].user] = @ \ {p}])
  /\ run' = [run EXCEPT ![r].del = @ \ {p}]
  /\ UNCHANGED <<nemo, calm, os>>

\* sync_user_groups
SetGroups(r) ==
  LET u == run[r].user
      new == IF u \in linux THEN run[r].new ELSE {}
  IN /\ run[r].pc = "apply"
     /\ run[r].add = {} /\ run[r].del = {}
     /\ groups' \in {groups \cup S :
                      S \in IF CommandsFail /\ ~calm THEN SUBSET new ELSE {new}}
     /\ memberOf' \in IF u \in linux /\ new \subseteq groups'
                        THEN Result([memberOf EXCEPT ![u] = new], memberOf) ELSE {memberOf}
     /\ run' = [run EXCEPT ![r].pc = "members", ![r].new = {}]
     /\ UNCHANGED <<nemo, calm, db, linux, homes, locked>>

RunDone(r) ==
  /\ run[r].pc = "members"
  /\ run[r].todo = {}
  /\ run' = [run EXCEPT ![r] = Idle(nemo)]
  /\ UNCHANGED <<nemo, calm, db, os>>

\* An exception of the provisioner ends the run, a crash every run.
Abort(r) ==
  /\ Failing
  /\ run[r].pc # "idle"
  /\ run' = [run EXCEPT ![r] = Idle(nemo)]
  /\ UNCHANGED <<nemo, calm, db, os>>

-----------------------------------------------------------------------------

Change ==
  /\ ~calm
  /\ nemo' \in Worlds
  /\ UNCHANGED <<calm, db, os, run>>

Settle ==
  /\ ~calm
  /\ calm' = TRUE
  /\ UNCHANGED <<nemo, db, os, run>>

\* What a run does once it has begun.
Proceed(r) ==
  \/ FetchProjects(r) \/ FetchUsers(r)
  \/ \E a \in Accounts : SyncAccount(r, a)
  \/ AccountsDone(r)
  \/ \E p \in Projects : SyncProject(r, p)
  \/ ProvisionProject(r) \/ ProjectsDone(r)
  \/ \E u \in Users : SyncUser(r, u)
  \/ CreateUser(r) \/ SetStatus(r) \/ UsersDone(r)
  \/ \E u \in Users : FilterProjects(r, u)
  \/ CompareProjects(r)
  \/ \E p \in Projects : AddMembership(r, p) \/ RemoveMembership(r, p)
  \/ SetGroups(r) \/ RunDone(r)

Next ==
  \/ Change \/ Settle
  \/ \E u \in Users : InitUser(u)
  \/ \E r \in Runners : FetchAccounts(r) \/ Proceed(r) \/ Abort(r)

Spec == Init /\ [][Next]_vars

\* A run goes on, and the loop of the daemon begins another.
Fairness ==
  /\ \A r \in Runners : WF_vars(Proceed(r))
  /\ WF_vars(FetchAccounts(Loop))

FairSpec == Spec /\ Fairness

-----------------------------------------------------------------------------
(* Properties.                                                             *)

\* What a run still has to write is of the kind its phase writes.
Todo(pc) ==
  CASE pc = "accounts" -> Accounts
    [] pc \in {"projects", "provision"} -> Projects
    [] pc \in {"users", "create", "status", "members", "compare", "apply"} -> Users
    [] OTHER -> {}

\* The variables stay in their domains; a run works on the list of its phase,
\* adds what it found wanting and removes what is not wanted.
TypeOK ==
  /\ nemo \in Worlds
  /\ calm \in BOOLEAN
  /\ db \in World
  /\ groups \subseteq Projects
  /\ linux \subseteq Users /\ homes \subseteq linux
  /\ memberOf \in [Users -> SUBSET Projects]
  /\ locked \subseteq Users
  /\ run \in [Runners -> Run]
  /\ \A r \in Runners :
       /\ run[r].todo \subseteq Todo(run[r].pc)
       /\ run[r].add \subseteq run[r].new /\ run[r].del \cap run[r].new = {}
       /\ run[r].pc # "apply" => run[r].add = {} /\ run[r].del = {}

\* What the rules of the configuration exclude.
Excluded(p) ==
  \/ p \in Rules.projectIds \cup Rules.projectNames
  \/ AccountOf[p] \in Rules.accountIds \cup Rules.accountNames

\* The rules can tell what an excluded project is: by its id, or by its row,
\* which comes after that of its account.
Judgeable(p) == p \in Rules.projectIds \/ db.project[p] # "absent"

\* It has no Linux group, nobody is a member of it, in the tables or in Linux,
\* and no run is about to make anybody one.
KeptOut(p) ==
  /\ p \notin groups
  /\ Judgeable(p)
  /\ \A r \in Runners : p \notin run[r].new
  /\ \A u \in Users : p \notin db.member[u] /\ p \notin memberOf[u]

\* An excluded project that is kept out, and that the rules can judge, is kept
\* out for good: of the tables and of the operating system, whatever failed and
\* left rows missing, and whatever older lists the overlapping runs still hold.
ExcludedStayOut ==
  [][\A p \in Projects : Excluded(p) /\ KeptOut(p) => KeptOut(p)']_vars

Wanted(u) == {p \in Reported(nemo, u) : ~Excluded(p)}

\* Database and operating system say of what NEMO lists what NEMO says of it.
Agrees ==
  /\ \A a \in Accounts : nemo.account[a] # "absent" => db.account[a] = nemo.account[a]
  /\ \A p \in Projects : nemo.project[p] # "absent" => db.project[p] = nemo.project[p]
  /\ \A u \in Users : nemo.user[u] # "absent" =>
       /\ db.user[u] = nemo.user[u] /\ db.name[u] = nemo.name[u]
       /\ u \in linux /\ u \in homes
       /\ db.member[u] = Wanted(u) /\ memberOf[u] = Wanted(u)
       /\ Policy = "lock_account" => (u \in locked <=> nemo.user[u] = "inactive")

\* Once NEMO rests and nothing fails, database and operating system come to
\* agree with it and stay so, whatever older lists the other runs still hold
\* and in whatever order users hand their names on.
Converges == <>calm => <>[]Agrees

\* Every account, project and name NEMO refers to is its own.
Coherent(w) ==
  /\ \A p \in Projects : w.project[p] # "absent" => w.account[AccountOf[p]] # "absent"
  /\ \A u \in Users : w.user[u] # "absent" =>
       /\ \A p \in w.member[u] : w.project[p] # "absent"
       /\ \A v \in Users \ {u} : w.user[v] # "absent" => w.name[v] # w.name[u]

\* No row holds the name of another user of NEMO.
NamesFree ==
  \A u, v \in Users :
    u # v /\ nemo.user[u] # "absent" /\ db.user[v] # "absent" => db.name[v] # nemo.name[u]

\* NEMO rests, nothing fails, no run is under way and no name has to be handed on.
Rested ==
  calm /\ Coherent(nemo) /\ NamesFree /\ \A r \in Runners : run[r].pc = "idle"

Ended == \E r \in Runners : run[r].pc = "members" /\ run[r].todo = {}

\* From then on, the first run that comes to its end leaves database and
\* operating system in agreement with NEMO, whatever failed, was interrupted or
\* was changed behind the daemon's back before; and no run that overlaps it or
\* follows it disturbs what agrees.
RunsReconcile == [](Rested => [](Ended => []Agrees))

\* The tables as the mount handlers read them: a project is open when its row
\* and that of its account are active.
Open(p) == db.project[p] = "active" /\ db.account[AccountOf[p]] = "active"

GroupRows ==
  [p \in Projects |-> IF db.project[p] = "absent" THEN "absent"
                      ELSE IF Open(p) THEN "active" ELSE "inactive"]

Reportable ==
  {pair \in Users \X Projects : \E w \in Worlds : pair[2] \in w.member[pair[1]]}

Tables == INSTANCE NemoTables WITH users <- db.user, groups <- GroupRows,
                                   member <- db.member

\* Each step of a reconciliation is a step of the tables the mount handlers
\* rely on, however many runs overlap, whatever fails or stops half-way and
\* whatever NEMO says next.
ImplementsTables == Tables!Spec

-----------------------------------------------------------------------------
(* What a comment, a test or the configuration says, and the code does not *)
(* do.                                                                     *)

\* No Linux group and no directory for an excluded project (config.yaml:13:
\* "Skip creating group folders and Linux groups").
NoExcludedGroup == \A p \in groups : ~Excluded(p)
=============================================================================
