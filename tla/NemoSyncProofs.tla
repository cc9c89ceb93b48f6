--------------------------- MODULE NemoSyncProofs ---------------------------
(* Type correctness of NemoSync, that what the rules exclude is kept out   *)
(* for good once they can judge it, and that reconciliation implements     *)
(* NemoTables, however the runs overlap.                                   *)
EXTENDS NemoSync, TLAPS

\* A run in order.
RunOK(x) ==
  /\ x \in Run
  /\ x.todo \subseteq Todo(x.pc)
  /\ x.add \subseteq x.new /\ x.del \cap x.new = {}
  /\ x.pc # "apply" => x.add = {} /\ x.del = {}

LEMMA EmptyIsWorld == \A w \in World : Empty(w) \in World
BY DEF Empty, World, Status

LEMMA IdleIsRun == \A w \in World : Idle(w) \in Run
BY EmptyIsWorld, SyncAssumption DEF Idle, Run, PCs

LEMMA IdleRuns ==
  ASSUME NEW w \in World
  PROVE  RunOK(Idle(w))
BY IdleIsRun DEF Idle, RunOK

LEMMA InitType == Init => TypeOK
<1> SUFFICES ASSUME Init PROVE TypeOK
  OBVIOUS
<1>1. nemo \in World
  BY SyncAssumption DEF Init
<1>2. Empty(nemo) \in World /\ Idle(nemo) \in Run
  BY <1>1, EmptyIsWorld, IdleIsRun
<1>3. run \in [Runners -> Run]
  BY <1>2 DEF Init
<1>4. \A r \in Runners : RunOK(run[r])
  BY <1>1, IdleRuns DEF Init
<1> QED
  BY <1>1, <1>2, <1>3, <1>4 DEF Init, TypeOK, RunOK

\* What a list may say.
LEMMA ListingType ==
  ASSUME NEW S, NEW f \in [S -> Status], NEW list \in Listing(f)
  PROVE  list \in [S -> Status]
BY DEF Listing, Status

LEMMA ListedType ==
  ASSUME NEW S, NEW f \in [S -> Status]
  PROVE  Listed(f) \subseteq S
BY DEF Listed

LEMMA Upserts ==
  ASSUME db \in World
  PROVE  /\ \A a \in Accounts, s \in Status : [db EXCEPT !.account[a] = s] \in World
         /\ \A p \in Projects, s \in Status : UpsertProject(p, s) \in World
         /\ \A u \in Users, s \in Status, n \in Names : UpsertUser(u, s, n) \in World
         /\ \A u \in Users, P \in SUBSET Projects : [db EXCEPT !.member[u] = P] \in World
<1>1. \A a \in Accounts, s \in Status : [db EXCEPT !.account[a] = s] \in World
  BY DEF World
<1>2. \A p \in Projects, s \in Status : UpsertProject(p, s) \in World
  BY DEF World, UpsertProject
<1>3. \A u \in Users, s \in Status, n \in Names : UpsertUser(u, s, n) \in World
  BY DEF World, UpsertUser
<1>4. \A u \in Users, P \in SUBSET Projects : [db EXCEPT !.member[u] = P] \in World
  BY DEF World
<1> QED
  BY <1>1, <1>2, <1>3, <1>4

LEMMA TypeStep ==
  ASSUME TypeOK, NEW r \in Runners, NEW x, RunOK(x), run' = [run EXCEPT ![r] = x],
         nemo' = nemo, calm' = calm, db' \in World, groups' \subseteq Projects,
         linux' \subseteq Users, homes' \subseteq linux',
         memberOf' \in [Users -> SUBSET Projects], locked' \subseteq Users
  PROVE  TypeOK'
<1>1. run' \in [Runners -> Run] /\ \A s \in Runners : RunOK(run'[s])
  BY DEF TypeOK, RunOK
<1> QED
  BY <1>1 DEF TypeOK, RunOK

LEMMA RunType ==
  ASSUME TypeOK, NEW r \in Runners
  PROVE  /\ RunOK(run[r])
         /\ run[r].got \in World
         /\ nemo \in World
BY SyncAssumption DEF TypeOK, RunOK, Run

LEMMA FetchType ==
  ASSUME TypeOK, NEW r \in Runners, FetchAccounts(r) \/ FetchProjects(r) \/ FetchUsers(r)
  PROVE  TypeOK'
<1> DEFINE R == run[r]
<1>a. RunOK(R) /\ R.got \in World /\ nemo \in World
  BY RunType
<1>1. CASE FetchAccounts(r)
  <2>1. PICK list \in Listing(nemo.account) :
          run' = [run EXCEPT ![r].pc = "get_projects", ![r].got.account = list]
    BY <1>1 DEF FetchAccounts
  <2>2. list \in [Accounts -> Status]
    BY <1>a, ListingType DEF World
  <2> DEFINE x == [R EXCEPT !.pc = "get_projects", !.got.account = list]
  <2>3. RunOK(x)
    BY <1>1, <1>a, <2>2 DEF RunOK, Run, World, PCs, Todo, FetchAccounts
  <2>4. run' = [run EXCEPT ![r] = x]
    BY <2>1, <1>a DEF TypeOK, RunOK, Run, World
  <2> HIDE DEF x
  <2> QED
    BY <1>1, <2>3, <2>4, TypeStep DEF FetchAccounts, TypeOK, os
<1>2. CASE FetchProjects(r)
  <2>1. PICK list \in Listing(nemo.project) :
          run' = [run EXCEPT ![r].pc = "get_users", ![r].got.project = list]
    BY <1>2 DEF FetchProjects
  <2>2. list \in [Projects -> Status]
    BY <1>a, ListingType DEF World
  <2> DEFINE x == [R EXCEPT !.pc = "get_users", !.got.project = list]
  <2>3. RunOK(x)
    BY <1>2, <1>a, <2>2 DEF RunOK, Run, World, PCs, Todo, FetchProjects
  <2>4. run' = [run EXCEPT ![r] = x]
    BY <2>1, <1>a DEF TypeOK, RunOK, Run, World
  <2> HIDE DEF x
  <2> QED
    BY <1>2, <2>3, <2>4, TypeStep DEF FetchProjects, TypeOK, os
<1>3. CASE FetchUsers(r)
  <2>1. PICK list \in Listing(nemo.user) :
          run' = [run EXCEPT
            ![r].pc = "accounts", ![r].todo = Listed(R.got.account),
            ![r].got = [@ EXCEPT !.user = list, !.name = nemo.name,
                                 !.member = nemo.member]]
    BY <1>3 DEF FetchUsers
  <2>2. list \in [Users -> Status]
    BY <1>a, ListingType DEF World
  <2>3. Listed(R.got.account) \subseteq Accounts
    BY <1>a, ListedType DEF World
  <2> DEFINE got == [R.got EXCEPT !.user = list, !.name = nemo.name, !.member = nemo.member]
             x == [R EXCEPT !.pc = "accounts", !.todo = Listed(R.got.account), !.got = got]
  <2>4. got \in World
    BY <1>a, <2>2 DEF World
  <2>5. run' = [run EXCEPT ![r] = x]
    BY <2>1 DEF TypeOK
  <2> HIDE DEF got
  <2>6. RunOK(x)
    BY <1>3, <1>a, <2>3, <2>4 DEF FetchUsers, RunOK, Run, PCs, Todo
  <2> HIDE DEF x
  <2> QED
    BY <1>3, <2>5, <2>6, TypeStep DEF FetchUsers, TypeOK, os
<1> QED
  BY <1>1, <1>2, <1>3

\* The actions that only begin another phase.
LEMMA PhaseType ==
  ASSUME TypeOK, NEW r \in Runners, AccountsDone(r) \/ ProjectsDone(r) \/ UsersDone(r)
  PROVE  TypeOK'
<1> DEFINE R == run[r]
           To(pc, list) == [R EXCEPT !.pc = pc, !.todo = list]
<1>a. RunOK(R) /\ R.got \in World
  BY RunType
<1>b. Listed(R.got.project) \subseteq Projects /\ Listed(R.got.user) \subseteq Users
  BY <1>a, ListedType DEF World
<1>1. PICK pc \in {"projects", "users", "members"} : \E list \in SUBSET Todo(pc) :
        run' = [run EXCEPT ![r] = To(pc, list)]
  <2>1. CASE AccountsDone(r)
    BY <2>1, <1>b DEF AccountsDone, Todo, TypeOK
  <2>2. CASE ProjectsDone(r)
    BY <2>2, <1>b DEF ProjectsDone, Todo, TypeOK
  <2>3. CASE UsersDone(r)
    BY <2>3, <1>b DEF UsersDone, Todo, TypeOK
  <2> QED
    BY <2>1, <2>2, <2>3
<1>2. \A list \in SUBSET Todo(pc) : RunOK(To(pc, list))
  <2>1. R.pc # "apply"
    BY DEF AccountsDone, ProjectsDone, UsersDone
  <2> QED
    BY <2>1, <1>a DEF RunOK, Run, PCs, Todo
<1>3. UNCHANGED <<nemo, calm, db, os>>
  BY DEF AccountsDone, ProjectsDone, UsersDone
<1> HIDE DEF To
<1> QED
  BY <1>1, <1>2, <1>3, TypeStep DEF TypeOK, os

LEMMA CommitType ==
  ASSUME TypeOK, NEW new \in World, Commit(new) PROVE db' \in World
BY DEF Commit, Outcome, TypeOK

\* The actions that write a row.
LEMMA SyncType ==
  ASSUME TypeOK, NEW r \in Runners,
         \/ \E a \in Accounts : SyncAccount(r, a)
         \/ \E p \in Projects : SyncProject(r, p)
         \/ \E u \in Users : SyncUser(r, u)
  PROVE  TypeOK'
<1> DEFINE R == run[r]
<1>a. RunOK(R) /\ R.got \in World /\ db \in World
  BY RunType DEF TypeOK
<1>b. /\ \A a \in Accounts : R.got.account[a] \in Status
      /\ \A p \in Projects : R.got.project[p] \in Status
      /\ \A u \in Users : R.got.user[u] \in Status /\ R.got.name[u] \in Names
  BY <1>a DEF World
<1>1. ASSUME NEW a \in Accounts, SyncAccount(r, a) PROVE TypeOK'
  <2>1. db' \in World
    BY <1>1, <1>a, <1>b, Upserts, CommitType DEF SyncAccount
  <2> DEFINE x == [R EXCEPT !.todo = @ \ {a}]
  <2>2. RunOK(x) /\ run' = [run EXCEPT ![r] = x]
    BY <1>1, <1>a DEF RunOK, Run, SyncAccount, TypeOK
  <2> HIDE DEF x
  <2> QED
    BY <1>1, <2>1, <2>2, TypeStep DEF SyncAccount, TypeOK, os
<1>2. ASSUME NEW p \in Projects, SyncProject(r, p) PROVE TypeOK'
  <2>1. db' \in World
    BY <1>2, <1>a, <1>b, Upserts, CommitType DEF SyncProject
  <2> DEFINE x == [R EXCEPT !.pc = "provision", !.proj = p, !.todo = @ \ {p}]
  <2>2. RunOK(x)
    BY <1>2, <1>a DEF RunOK, Run, SyncProject, PCs, Todo
  <2>3. run' = [run EXCEPT ![r] = x]
    BY <1>2 DEF SyncProject, TypeOK
  <2> HIDE DEF x
  <2> QED
    BY <1>2, <2>1, <2>2, <2>3, TypeStep DEF SyncProject, TypeOK, os
<1>3. ASSUME NEW u \in Users, SyncUser(r, u) PROVE TypeOK'
  <2>1. db' \in World
    BY <1>3, <1>a, <1>b, Upserts, CommitType DEF SyncUser
  <2> DEFINE x == [R EXCEPT !.pc = "create", !.user = u, !.todo = @ \ {u}]
  <2>2. RunOK(x)
    BY <1>3, <1>a DEF RunOK, Run, SyncUser, PCs, Todo
  <2>3. run' = [run EXCEPT ![r] = x]
    BY <1>3 DEF SyncUser, TypeOK
  <2> HIDE DEF x
  <2> QED
    BY <1>3, <2>1, <2>2, <2>3, TypeStep DEF SyncUser, TypeOK, os
<1> QED
  BY <1>1, <1>2, <1>3

LEMMA ProvisionKeeps ==
  ASSUME TypeOK, NEW u \in Users, Provision(u)
  PROVE  linux' \subseteq Users /\ homes' \subseteq linux'
<1>1. linux' \in {linux, linux \cup {u}}
  BY DEF Provision, Result
<1>2. homes' = homes \/ (u \in linux' /\ homes' = homes \cup {u})
  BY DEF Provision, Result
<1> QED
  BY <1>1, <1>2 DEF TypeOK

LEMMA ProvisionType ==
  ASSUME TypeOK, NEW r \in Runners, ProvisionProject(r) \/ CreateUser(r) \/ SetStatus(r)
  PROVE  TypeOK'
<1> DEFINE R == run[r]
<1>a. RunOK(R) /\ R.proj \in Projects /\ R.user \in Users
  BY RunType DEF RunOK, Run
<1>1. PICK pc \in {"projects", "status", "users"} :
        run' = [run EXCEPT ![r].pc = pc] /\ RunOK([R EXCEPT !.pc = pc])
  <2>1. CASE ProvisionProject(r)
    BY <2>1, <1>a DEF RunOK, Run, ProvisionProject, PCs, Todo
  <2>2. CASE CreateUser(r)
    BY <2>2, <1>a DEF RunOK, Run, CreateUser, PCs, Todo
  <2>3. CASE SetStatus(r)
    BY <2>3, <1>a DEF RunOK, Run, SetStatus, PCs, Todo
  <2> QED
    BY <2>1, <2>2, <2>3
<1> DEFINE x == [R EXCEPT !.pc = pc]
<1>2. RunOK(x) /\ run' = [run EXCEPT ![r] = x]
  BY <1>1 DEF TypeOK
<1>3. /\ nemo' = nemo /\ calm' = calm /\ db' = db
      /\ groups' \subseteq Projects /\ locked' \subseteq Users
      /\ memberOf' \in [Users -> SUBSET Projects]
      /\ linux' \subseteq Users /\ homes' \subseteq linux'
  <2>1. CASE ProvisionProject(r)
    BY <2>1, <1>a DEF ProvisionProject, Result, TypeOK
  <2>2. CASE CreateUser(r)
    <3>1. Provision(R.user)
      BY <2>2 DEF CreateUser
    <3> QED
      BY <3>1, <1>a, ProvisionKeeps DEF Provision, TypeOK
  <2>3. CASE SetStatus(r)
    <3>1. locked' \in {locked, locked \ {R.user}, locked \cup {R.user}}
      BY <2>3 DEF SetStatus, Result
    <3>2. memberOf' \in {memberOf, [memberOf EXCEPT ![R.user] = {}]}
      BY <2>3 DEF SetStatus, Result
    <3> QED
      BY <2>3, <3>1, <3>2, <1>a DEF SetStatus, TypeOK
  <2> QED
    BY <2>1, <2>2, <2>3
<1> HIDE DEF x
<1> QED
  BY <1>2, <1>3, TypeStep DEF TypeOK

LEMMA MembersType ==
  ASSUME TypeOK, NEW r \in Runners,
         \/ \E u \in Users : FilterProjects(r, u)
         \/ CompareProjects(r)
         \/ \E p \in Projects : AddMembership(r, p) \/ RemoveMembership(r, p)
         \/ SetGroups(r)
  PROVE  TypeOK'
<1> DEFINE R == run[r]
<1>a. RunOK(R) /\ R.got \in World /\ db \in World /\ R.user \in Users
  BY RunType DEF TypeOK, RunOK, Run
<1>1. ASSUME NEW u \in Users, FilterProjects(r, u) PROVE TypeOK'
  <2>a. PICK missed \in Misses :
          run' = [run EXCEPT ![r].pc = "compare", ![r].user = u, ![r].todo = @ \ {u},
                    ![r].new = {p \in Reported(R.got, u) :
                                  r \in Unruled \/ ~IdRecognised(p, missed)}]
    BY <1>1 DEF FilterProjects
  <2> DEFINE new == {p \in Reported(R.got, u) : r \in Unruled \/ ~IdRecognised(p, missed)}
             x == [R EXCEPT !.pc = "compare", !.user = u, !.todo = @ \ {u}, !.new = new]
  <2>1. new \subseteq Projects
    BY <1>a DEF Reported, World
  <2>2. run' = [run EXCEPT ![r] = x]
    BY <2>a DEF TypeOK
  <2> HIDE DEF new
  <2>3. RunOK(x)
    BY <1>1, <1>a, <2>1 DEF FilterProjects, RunOK, Run, PCs, Todo
  <2> HIDE DEF x
  <2> QED
    BY <1>1, <2>2, <2>3, TypeStep DEF FilterProjects, TypeOK, os
<1>2. CASE CompareProjects(r)
  <2>a. PICK old \in SUBSET Projects :
          run' = [run EXCEPT ![r].pc = "apply", ![r].add = R.new \ old,
                             ![r].del = old \ R.new]
    BY <1>2, <1>a DEF CompareProjects, Outcome, World
  <2> DEFINE x == [R EXCEPT !.pc = "apply", !.add = R.new \ old, !.del = old \ R.new]
  <2>2. run' = [run EXCEPT ![r] = x]
    BY <2>a DEF TypeOK
  <2>3. RunOK(x)
    BY <1>2, <1>a DEF CompareProjects, RunOK, Run, PCs, Todo
  <2> HIDE DEF x
  <2> QED
    BY <1>2, <2>2, <2>3, TypeStep DEF CompareProjects, TypeOK, os
<1>3. ASSUME NEW p \in Projects, AddMembership(r, p) PROVE TypeOK'
  <2>1. db.member[R.user] \cup {p} \in SUBSET Projects
    BY <1>a DEF World
  <2>2. [db EXCEPT !.member[R.user] = @ \cup {p}] \in World
    BY <1>a, <2>1 DEF World
  <2>3. db' \in World
    BY <1>3, <1>a, <2>2, CommitType DEF AddMembership
  <2> DEFINE x == [R EXCEPT !.add = @ \ {p}]
  <2>4. RunOK(x) /\ run' = [run EXCEPT ![r] = x]
    BY <1>3, <1>a DEF RunOK, Run, AddMembership, TypeOK
  <2> HIDE DEF x
  <2> QED
    BY <1>3, <2>3, <2>4, TypeStep DEF AddMembership, TypeOK, os
<1>4. ASSUME NEW p \in Projects, RemoveMembership(r, p) PROVE TypeOK'
  <2>1. [db EXCEPT !.member[R.user] = @ \ {p}] \in World
    BY <1>a DEF World
  <2>2. db' \in World
    BY <1>4, <2>1, CommitType DEF RemoveMembership
  <2> DEFINE x == [R EXCEPT !.del = @ \ {p}]
  <2>3. RunOK(x) /\ run' = [run EXCEPT ![r] = x]
    BY <1>4, <1>a DEF RunOK, Run, RemoveMembership, TypeOK
  <2> HIDE DEF x
  <2> QED
    BY <1>4, <2>2, <2>3, TypeStep DEF RemoveMembership, TypeOK, os
<1>5. CASE SetGroups(r)
  <2> DEFINE x == [R EXCEPT !.pc = "members", !.new = {}]
  <2>1. RunOK(x)
    BY <1>5, <1>a DEF RunOK, Run, SetGroups, PCs, Todo
  <2>2. run' = [run EXCEPT ![r] = x]
    BY <1>5 DEF SetGroups, TypeOK
  <2> DEFINE new == IF R.user \in linux THEN R.new ELSE {}
  <2>a. new \subseteq Projects
    BY <1>a DEF RunOK, Run
  <2>b. \E S \in SUBSET new : groups' = groups \cup S
    BY <1>5 DEF SetGroups
  <2>c. memberOf' \in {memberOf, [memberOf EXCEPT ![R.user] = new]}
    BY <1>5 DEF SetGroups, Result
  <2> HIDE DEF new
  <2>3. /\ groups' \subseteq Projects
        /\ memberOf' \in [Users -> SUBSET Projects]
    BY <2>a, <2>b, <2>c DEF TypeOK
  <2> HIDE DEF x
  <2> QED
    BY <1>5, <2>1, <2>2, <2>3, TypeStep DEF SetGroups, TypeOK
<1> QED
  BY <1>1, <1>2, <1>3, <1>4, <1>5

LEMMA EndType ==
  ASSUME TypeOK, NEW r \in Runners, RunDone(r) \/ Abort(r)
  PROVE  TypeOK'
<1>1. RunOK(Idle(nemo))
  BY RunType, IdleRuns
<1>2. run' = [run EXCEPT ![r] = Idle(nemo)] /\ UNCHANGED <<nemo, calm, db, os>>
  BY DEF RunDone, Abort
<1> QED
  BY <1>1, <1>2, TypeStep DEF TypeOK, os

LEMMA NextType == TypeOK /\ [Next]_vars => TypeOK'
<1> SUFFICES ASSUME TypeOK, [Next]_vars PROVE TypeOK'
  OBVIOUS
<1>1. CASE Change \/ Settle
  BY <1>1 DEF Change, Settle, TypeOK, os
<1>4. ASSUME NEW u \in Users, InitUser(u) PROVE TypeOK'
  BY <1>4, ProvisionKeeps DEF InitUser, Provision, TypeOK
<1>2. ASSUME NEW r \in Runners, FetchAccounts(r) \/ Proceed(r) \/ Abort(r)
      PROVE  TypeOK'
  BY <1>2, FetchType, PhaseType, SyncType, ProvisionType, MembersType, EndType
     DEF Proceed
<1>3. CASE UNCHANGED vars
  BY <1>3 DEF vars, os, TypeOK
<1> QED
  BY <1>1, <1>2, <1>3, <1>4 DEF Next

\* Reconciliation keeps its variables in their domains and its phases on
\* their lists, for any number of runs at once and whatever fails (run_once).
THEOREM TypeCorrect == Spec => []TypeOK
BY InitType, NextType, PTL DEF Spec

-----------------------------------------------------------------------------
(* What a run knows of NEMO.                                               *)

\* What a run has still to write was listed.
Pending(x) ==
  /\ x.pc = "accounts" => x.todo \subseteq Listed(x.got.account)
  /\ x.pc \in {"projects", "provision"} => x.todo \subseteq Listed(x.got.project)
  /\ x.pc \in {"users", "create", "status"} => x.todo \subseteq Listed(x.got.user)

\* It knows of no membership but those NEMO may report.
Told(x) ==
  /\ Pending(x)
  /\ \A u \in Users : \A p \in x.got.member[u] : <<u, p>> \in Reportable
  /\ x.pc \in {"compare", "apply"} => \A p \in x.new : <<x.user, p>> \in Reportable

AllTold == \A r \in Runners : Told(run[r])

\* What a runner does next, known of no other membership either.
StillTold(r) == Told(run'[r]) /\ \E x : run' = [run EXCEPT ![r] = x]

LEMMA IdleTold == \A w \in World : Told(Idle(w))
BY DEF Told, Pending, Idle, Empty

LEMMA InitTold == Init => AllTold
<1> SUFFICES ASSUME Init PROVE AllTold
  OBVIOUS
<1>1. nemo \in World
  BY SyncAssumption DEF Init
<1>2. \A r \in Runners : run[r] = Idle(nemo)
  BY DEF Init
<1> QED
  BY <1>1, <1>2, IdleTold DEF AllTold

LEMMA NemoTold ==
  ASSUME TypeOK
  PROVE  \A u \in Users : \A p \in nemo.member[u] : <<u, p>> \in Reportable
<1>1. nemo \in Worlds /\ nemo \in World
  BY SyncAssumption DEF TypeOK
<1>2. \A u \in Users : nemo.member[u] \subseteq Projects
  BY <1>1 DEF World
<1> QED
  BY <1>1, <1>2 DEF Reportable

LEMMA ToldStep ==
  ASSUME TypeOK, AllTold, NEW r \in Runners, StillTold(r)
  PROVE  AllTold'
<1>1. PICK x : run' = [run EXCEPT ![r] = x]
  BY DEF StillTold
<1>2. \A s \in Runners : run'[s] = IF s = r THEN x ELSE run[s]
  BY <1>1 DEF TypeOK
<1>3. \A s \in Runners : Told(run'[s])
  BY <1>2 DEF AllTold, StillTold
<1> QED
  BY <1>3 DEF AllTold, Told, Pending, Listed, Reportable

\* What a run keeps of the lists and of the user it is at.
LEMMA KeepTold ==
  ASSUME NEW x, NEW y, Told(x), Pending(y), y.got.member = x.got.member,
         \/ y.pc \notin {"compare", "apply"}
         \/ /\ x.pc \in {"compare", "apply"}
            /\ y.new = x.new /\ y.user = x.user
  PROVE  Told(y)
BY DEF Told

LEMMA FetchTold ==
  ASSUME TypeOK, AllTold, NEW r \in Runners,
         FetchAccounts(r) \/ FetchProjects(r) \/ FetchUsers(r)
  PROVE  StillTold(r)
<1> DEFINE R == run[r]
<1>a. /\ Told(R) /\ R \in Run /\ R.got \in World /\ nemo \in World
      /\ run \in [Runners -> Run]
  BY RunType DEF AllTold, RunOK, TypeOK
<1>1. CASE FetchAccounts(r)
  <2>1. PICK list : run' = [run EXCEPT ![r].pc = "get_projects", ![r].got.account = list]
    BY <1>1 DEF FetchAccounts
  <2>2. run'[r].pc = "get_projects" /\ run'[r].got.member = R.got.member
    BY <2>1, <1>a DEF Run, World
  <2>3. \E x : run' = [run EXCEPT ![r] = x]
    BY <2>1, <1>a
  <2> QED
    BY <2>2, <2>3, <1>a, KeepTold DEF StillTold, Pending
<1>2. CASE FetchProjects(r)
  <2>1. PICK list : run' = [run EXCEPT ![r].pc = "get_users", ![r].got.project = list]
    BY <1>2 DEF FetchProjects
  <2>2. run'[r].pc = "get_users" /\ run'[r].got.member = R.got.member
    BY <2>1, <1>a DEF Run, World
  <2>3. \E x : run' = [run EXCEPT ![r] = x]
    BY <2>1, <1>a
  <2> QED
    BY <2>2, <2>3, <1>a, KeepTold DEF StillTold, Pending
<1>3. CASE FetchUsers(r)
  <2>1. PICK list :
          run' = [run EXCEPT
            ![r].pc = "accounts", ![r].todo = Listed(R.got.account),
            ![r].got = [@ EXCEPT !.user = list, !.name = nemo.name,
                                 !.member = nemo.member]]
    BY <1>3 DEF FetchUsers
  <2>2. /\ run'[r].pc = "accounts" /\ run'[r].todo = Listed(R.got.account)
        /\ run'[r].got.member = nemo.member /\ run'[r].got.account = R.got.account
    <3> DEFINE got == [R.got EXCEPT !.user = list, !.name = nemo.name,
                                    !.member = nemo.member]
    <3>1. got.member = nemo.member /\ got.account = R.got.account
      BY <1>a DEF World
    <3>2. run'[r] = [R EXCEPT !.pc = "accounts", !.todo = Listed(R.got.account), !.got = got]
      BY <2>1, <1>a
    <3> HIDE DEF got
    <3>3. run'[r].pc = "accounts" /\ run'[r].todo = Listed(R.got.account) /\ run'[r].got = got
      BY <3>2, <1>a DEF Run
    <3> QED
      BY <3>1, <3>3
  <2>3. \E x : run' = [run EXCEPT ![r] = x]
    BY <2>1, <1>a
  <2> QED
    BY <2>2, <2>3, NemoTold DEF StillTold, Told, Pending
<1> QED
  BY <1>1, <1>2, <1>3

LEMMA WriteTold ==
  ASSUME TypeOK, AllTold, NEW r \in Runners,
         \/ AccountsDone(r) \/ ProjectsDone(r) \/ UsersDone(r)
         \/ ProvisionProject(r) \/ CreateUser(r) \/ SetStatus(r) \/ SetGroups(r)
         \/ \E a \in Accounts : SyncAccount(r, a)
         \/ \E p \in Projects : SyncProject(r, p)
         \/ \E u \in Users : SyncUser(r, u)
  PROVE  StillTold(r)
<1> DEFINE y == run'[r]
           Begins == /\ y.pc \notin {"compare", "apply"} /\ y.got = run[r].got
                     /\ Pending(y)
                     /\ \E x : run' = [run EXCEPT ![r] = x]
<1>a. Told(run[r]) /\ run[r] \in Run /\ run \in [Runners -> Run] /\ Pending(run[r])
  BY RunType DEF AllTold, RunOK, TypeOK, Told
<1>1. ASSUME AccountsDone(r) \/ ProjectsDone(r) \/ UsersDone(r) PROVE Begins
  <2>1. CASE AccountsDone(r)
    BY <2>1, <1>a DEF AccountsDone, Run, Pending
  <2>2. CASE ProjectsDone(r)
    BY <2>2, <1>a DEF ProjectsDone, Run, Pending
  <2>3. CASE UsersDone(r)
    BY <2>3, <1>a DEF UsersDone, Run, Pending
  <2> QED
    BY <1>1, <2>1, <2>2, <2>3
<1>2. ASSUME ProvisionProject(r) \/ CreateUser(r) \/ SetStatus(r) \/ SetGroups(r)
      PROVE  Begins
  <2>1. CASE ProvisionProject(r)
    BY <2>1, <1>a DEF ProvisionProject, Run, Pending
  <2>2. CASE CreateUser(r)
    BY <2>2, <1>a DEF CreateUser, Run, Pending
  <2>3. CASE SetStatus(r)
    BY <2>3, <1>a DEF SetStatus, Run, Pending
  <2>4. CASE SetGroups(r)
    BY <2>4, <1>a DEF SetGroups, Run, Pending
  <2> QED
    BY <1>2, <2>1, <2>2, <2>3, <2>4
<1>3. ASSUME NEW a \in Accounts, SyncAccount(r, a) PROVE Begins
  BY <1>3, <1>a DEF SyncAccount, Run, Pending
<1>4. ASSUME NEW p \in Projects, SyncProject(r, p) PROVE Begins
  BY <1>4, <1>a DEF SyncProject, Run, Pending
<1>5. ASSUME NEW u \in Users, SyncUser(r, u) PROVE Begins
  BY <1>5, <1>a DEF SyncUser, Run, Pending
<1>6. Begins
  BY <1>1, <1>2, <1>3, <1>4, <1>5
<1> QED
  BY <1>6, <1>a, KeepTold DEF StillTold

LEMMA MembersTold ==
  ASSUME TypeOK, AllTold, NEW r \in Runners,
         \/ \E u \in Users : FilterProjects(r, u)
         \/ CompareProjects(r)
         \/ \E p \in Projects : AddMembership(r, p) \/ RemoveMembership(r, p)
         \/ RunDone(r) \/ Abort(r)
  PROVE  StillTold(r)
<1> DEFINE Goes == /\ run[r].pc \in {"compare", "apply"} /\ Pending(run'[r])
                   /\ run'[r].got = run[r].got
                   /\ run'[r].new = run[r].new /\ run'[r].user = run[r].user
                   /\ \E x : run' = [run EXCEPT ![r] = x]
<1>a. Told(run[r]) /\ run[r] \in Run /\ run \in [Runners -> Run]
  BY RunType DEF AllTold, RunOK, TypeOK
<1>1. ASSUME NEW u \in Users, FilterProjects(r, u) PROVE StillTold(r)
  <2> DEFINE New(missed) == {p \in Reported(run[r].got, u) :
                               r \in Unruled \/ ~IdRecognised(p, missed)}
  <2>1. PICK missed \in Misses :
          run' = [run EXCEPT ![r].pc = "compare", ![r].user = u, ![r].todo = @ \ {u},
                             ![r].new = New(missed)]
    BY <1>1 DEF FilterProjects
  <2>2. New(missed) \subseteq Reported(run[r].got, u)
    OBVIOUS
  <2> HIDE DEF New
  <2>3. /\ run'[r].pc = "compare" /\ run'[r].got = run[r].got
        /\ run'[r].user = u /\ run'[r].new = New(missed)
        /\ \E x : run' = [run EXCEPT ![r] = x]
    BY <2>1, <1>a DEF Run
  <2>4. \A p \in New(missed) : p \in run[r].got.member[u]
    BY <2>2 DEF Reported
  <2> QED
    BY <2>3, <2>4, <1>a DEF StillTold, Told, Pending
<1>2. CASE CompareProjects(r)
  <2>1. PICK old : run' = [run EXCEPT ![r].pc = "apply", ![r].add = run[r].new \ old,
                                      ![r].del = old \ run[r].new]
    BY <1>2 DEF CompareProjects
  <2>2. Goes
    BY <1>2, <2>1, <1>a DEF CompareProjects, Run, Pending
  <2> QED
    BY <2>2, <1>a, KeepTold DEF StillTold
<1>3. ASSUME NEW p \in Projects, AddMembership(r, p) \/ RemoveMembership(r, p)
      PROVE  StillTold(r)
  <2>1. Goes
    BY <1>3, <1>a DEF AddMembership, RemoveMembership, Run, Pending
  <2> QED
    BY <2>1, <1>a, KeepTold DEF StillTold
<1>4. CASE RunDone(r) \/ Abort(r)
  <2>1. run' = [run EXCEPT ![r] = Idle(nemo)]
    BY <1>4 DEF RunDone, Abort
  <2>2. run'[r] = Idle(nemo) /\ nemo \in World
    BY <2>1, <1>a, RunType
  <2> QED
    BY <2>1, <2>2, IdleTold DEF StillTold
<1> QED
  BY <1>1, <1>2, <1>3, <1>4

LEMMA NextTold == TypeOK /\ AllTold /\ [Next]_vars => AllTold'
<1> SUFFICES ASSUME TypeOK, AllTold, [Next]_vars PROVE AllTold'
  OBVIOUS
<1>1. CASE Change \/ Settle \/ (\E u \in Users : InitUser(u)) \/ UNCHANGED vars
  <2>1. run' = run
    BY <1>1 DEF Change, Settle, InitUser, vars
  <2> QED
    BY <2>1 DEF AllTold, Told, Pending, Listed, Reportable
<1>2. ASSUME NEW r \in Runners, FetchAccounts(r) \/ Proceed(r) \/ Abort(r)
      PROVE  AllTold'
  BY <1>2, FetchTold, WriteTold, MembersTold, ToldStep DEF Proceed
<1> QED
  BY <1>1, <1>2 DEF Next

-----------------------------------------------------------------------------
(* Excluded projects.                                                      *)

\* The account of a project is a foreign key.
Referenced ==
  \A p \in Projects : db.project[p] # "absent" => db.account[AccountOf[p]] # "absent"

\* A row stays, and that of a project finds the one of its account.
RowsStay ==
  /\ \A a \in Accounts : db.account[a] # "absent" => db'.account[a] # "absent"
  /\ \A p \in Projects : db.project[p] # "absent" => db'.project[p] # "absent"
  /\ \A p \in Projects : db'.project[p] # db.project[p] => db.account[AccountOf[p]] # "absent"

LEMMA SyncRows ==
  ASSUME TypeOK, AllTold, NEW r \in Runners,
         \/ \E a \in Accounts : SyncAccount(r, a)
         \/ \E p \in Projects : SyncProject(r, p)
         \/ \E u \in Users : SyncUser(r, u)
         \/ \E p \in Projects : AddMembership(r, p) \/ RemoveMembership(r, p)
  PROVE  RowsStay
<1>a. Pending(run[r]) /\ db \in World
  BY DEF AllTold, Told, TypeOK
<1>1. ASSUME NEW a \in Accounts, SyncAccount(r, a) PROVE RowsStay
  <2>1. run[r].got.account[a] # "absent"
    BY <1>1, <1>a DEF SyncAccount, Pending, Listed
  <2>2. db' \in {db, [db EXCEPT !.account[a] = run[r].got.account[a]]}
    BY <1>1 DEF SyncAccount, Commit, Outcome
  <2> QED
    BY <2>1, <2>2, <1>a DEF RowsStay, World
<1>2. ASSUME NEW p \in Projects, SyncProject(r, p) PROVE RowsStay
  <2>1. run[r].got.project[p] # "absent"
    BY <1>2, <1>a DEF SyncProject, Pending, Listed
  <2>2. \/ db' = db
        \/ /\ db' = [db EXCEPT !.project[p] = run[r].got.project[p]]
           /\ db.account[AccountOf[p]] # "absent"
    BY <1>2 DEF SyncProject, Commit, Outcome, UpsertProject
  <2> QED
    BY <2>1, <2>2, <1>a DEF RowsStay, World
<1>3. ASSUME NEW u \in Users, SyncUser(r, u) PROVE RowsStay
  <2>1. db'.account = db.account /\ db'.project = db.project
    BY <1>3, <1>a DEF SyncUser, Commit, Outcome, UpsertUser, World
  <2> QED
    BY <2>1 DEF RowsStay
<1>4. ASSUME NEW p \in Projects, AddMembership(r, p) \/ RemoveMembership(r, p)
      PROVE  RowsStay
  <2>1. \E S : db' = db \/ db' = [db EXCEPT !.member[run[r].user] = S]
    BY <1>4 DEF AddMembership, RemoveMembership, Commit, Outcome
  <2>2. db'.account = db.account /\ db'.project = db.project
    BY <2>1, <1>a DEF World
  <2> QED
    BY <2>2 DEF RowsStay
<1> QED
  BY <1>1, <1>2, <1>3, <1>4

\* Every other step leaves the database alone.
LEMMA OtherRows ==
  ASSUME NEW r \in Runners,
         \/ FetchAccounts(r) \/ FetchProjects(r) \/ FetchUsers(r)
         \/ AccountsDone(r) \/ ProjectsDone(r) \/ UsersDone(r)
         \/ ProvisionProject(r) \/ CreateUser(r) \/ SetStatus(r)
         \/ \E u \in Users : FilterProjects(r, u)
         \/ CompareProjects(r) \/ SetGroups(r) \/ RunDone(r) \/ Abort(r)
  PROVE  db' = db
BY DEF FetchAccounts, FetchProjects, FetchUsers, AccountsDone, ProjectsDone, UsersDone,
       ProvisionProject, CreateUser, Provision, SetStatus, FilterProjects,
       CompareProjects, SetGroups, RunDone, Abort

LEMMA NextRows == TypeOK /\ AllTold /\ [Next]_vars => RowsStay
<1> SUFFICES ASSUME TypeOK, AllTold, [Next]_vars PROVE RowsStay
  OBVIOUS
<1>1. CASE Change \/ Settle \/ (\E u \in Users : InitUser(u)) \/ UNCHANGED vars
  BY <1>1 DEF Change, Settle, InitUser, Provision, vars, RowsStay
<1>2. ASSUME NEW r \in Runners, FetchAccounts(r) \/ Proceed(r) \/ Abort(r)
      PROVE  RowsStay
  <2>1. db' = db => RowsStay
    BY DEF RowsStay
  <2> QED
    BY <1>2, <2>1, SyncRows, OtherRows DEF Proceed
<1> QED
  BY <1>1, <1>2 DEF Next

LEMMA InitReferenced == Init => Referenced
BY DEF Init, Empty, Referenced

LEMMA NextReferenced == Referenced /\ RowsStay => Referenced'
BY SyncAssumption DEF Referenced, RowsStay

\* The rules recognise an excluded project they can judge, because its account
\* has a row if it has one; by its id, even if the row is not found.
LEMMA JudgedByRules ==
  ASSUME Referenced, NEW p \in Projects, Excluded(p), Judgeable(p),
         p \in Rules.projectIds \/ ~ReadsFail, NEW missed \in Misses
  PROVE  Recognised(p, missed) /\ IdRecognised(p, missed)
<1>1. p \in Rules.projectIds \/ missed = {}
  BY DEF Misses
<1> QED
  BY <1>1 DEF Referenced, Excluded, Judgeable, Recognised, IdRecognised

\* What a step of the runner r does to the project p.
Spared(r, p) ==
  /\ p \notin groups'
  /\ p \notin run'[r].new
  /\ \A u \in Users : p \notin db'.member[u] /\ p \notin memberOf'[u]

LEMMA FetchSpares ==
  ASSUME TypeOK, NEW r \in Runners, NEW p \in Projects, KeptOut(p),
         \/ FetchAccounts(r) \/ FetchProjects(r) \/ FetchUsers(r)
         \/ AccountsDone(r) \/ ProjectsDone(r) \/ UsersDone(r)
         \/ CompareProjects(r) \/ RunDone(r) \/ Abort(r)
  PROVE  Spared(r, p)
<1>1. db' = db /\ groups' = groups /\ memberOf' = memberOf
  BY DEF FetchAccounts, FetchProjects, FetchUsers, AccountsDone, ProjectsDone, UsersDone,
         CompareProjects, RunDone, Abort, os
<1>2. run'[r].new \subseteq run[r].new
  <2>a. run[r] \in Run /\ run \in [Runners -> Run]
    BY RunType DEF RunOK, TypeOK
  <2>1. CASE FetchAccounts(r) \/ FetchProjects(r)
    BY <2>1, <2>a DEF FetchAccounts, FetchProjects, Run
  <2>2. CASE FetchUsers(r)
    <3>1. PICK todo, got : run' = [run EXCEPT ![r].pc = "accounts", ![r].todo = todo, ![r].got = got]
      BY <2>2 DEF FetchUsers
    <3> QED
      BY <3>1, <2>a DEF Run
  <2>3. CASE AccountsDone(r) \/ ProjectsDone(r) \/ UsersDone(r)
    BY <2>3, <2>a DEF AccountsDone, ProjectsDone, UsersDone, Run
  <2>4. CASE CompareProjects(r)
    <3>1. PICK add, del : run' = [run EXCEPT ![r].pc = "apply", ![r].add = add, ![r].del = del]
      BY <2>4 DEF CompareProjects
    <3> QED
      BY <3>1, <2>a DEF Run
  <2>5. CASE RunDone(r) \/ Abort(r)
    BY <2>5, <2>a DEF RunDone, Abort, Idle
  <2> QED
    BY <2>1, <2>2, <2>3, <2>4, <2>5
<1> QED
  BY <1>1, <1>2 DEF Spared, KeptOut

LEMMA TablesSpare ==
  ASSUME TypeOK, NEW r \in Runners, NEW p \in Projects, KeptOut(p),
         \/ \E a \in Accounts : SyncAccount(r, a)
         \/ \E q \in Projects : SyncProject(r, q)
         \/ \E u \in Users : SyncUser(r, u)
         \/ \E q \in Projects : AddMembership(r, q) \/ RemoveMembership(r, q)
  PROVE  Spared(r, p)
<1>a. RunOK(run[r]) /\ db \in World /\ run \in [Runners -> Run]
  BY RunType DEF TypeOK
<1>1. groups' = groups /\ memberOf' = memberOf
  BY DEF SyncAccount, SyncProject, SyncUser, AddMembership, RemoveMembership, os
<1>b. run[r] \in Run
  BY <1>a DEF RunOK
<1>2. run'[r].new = run[r].new
  <2>1. ASSUME NEW a \in Accounts, SyncAccount(r, a) PROVE run'[r].new = run[r].new
    BY <2>1, <1>a, <1>b DEF SyncAccount, Run
  <2>2. ASSUME NEW q \in Projects, SyncProject(r, q) PROVE run'[r].new = run[r].new
    BY <2>2, <1>a, <1>b DEF SyncProject, Run
  <2>3. ASSUME NEW u \in Users, SyncUser(r, u) PROVE run'[r].new = run[r].new
    BY <2>3, <1>a, <1>b DEF SyncUser, Run
  <2>4. ASSUME NEW q \in Projects, AddMembership(r, q) \/ RemoveMembership(r, q)
        PROVE  run'[r].new = run[r].new
    BY <2>4, <1>a, <1>b DEF AddMembership, RemoveMembership, Run
  <2> QED
    BY <2>1, <2>2, <2>3, <2>4
<1>3. CASE \/ \E a \in Accounts : SyncAccount(r, a)
           \/ \E q \in Projects : SyncProject(r, q)
           \/ \E u \in Users : SyncUser(r, u)
  <2>1. db'.member = db.member
    BY <1>3, <1>a DEF SyncAccount, SyncProject, SyncUser, Commit, Outcome, UpsertProject,
                      UpsertUser, World
  <2> QED
    BY <2>1, <1>1, <1>2 DEF Spared, KeptOut
<1>4. ASSUME NEW q \in Projects, AddMembership(r, q) \/ RemoveMembership(r, q)
      PROVE  Spared(r, p)
  <2> DEFINE u == run[r].user
  <2>1. \/ db' = db
        \/ /\ q \in run[r].add
           /\ db' = [db EXCEPT !.member[u] = @ \cup {q}]
        \/ db' = [db EXCEPT !.member[u] = @ \ {q}]
    BY <1>4 DEF AddMembership, RemoveMembership, Commit, Outcome
  <2>2. q \in run[r].add => q # p
    BY <1>a DEF RunOK, KeptOut
  <2>3. \A v \in Users : p \notin db'.member[v]
    BY <2>1, <2>2, <1>a DEF World, KeptOut
  <2> QED
    BY <2>3, <1>1, <1>2 DEF Spared, KeptOut
<1> QED
  BY <1>3, <1>4

LEMMA CommandsSpare ==
  ASSUME TypeOK, NEW r \in Runners, NEW p \in Projects, KeptOut(p),
         \A missed \in Misses : Recognised(p, missed) /\ IdRecognised(p, missed),
         r \notin Unruled,
         \/ ProvisionProject(r) \/ CreateUser(r) \/ SetStatus(r)
         \/ \E u \in Users : FilterProjects(r, u)
         \/ SetGroups(r)
  PROVE  Spared(r, p)
<1>a. RunOK(run[r]) /\ run[r] \in Run /\ run \in [Runners -> Run]
      /\ memberOf \in [Users -> SUBSET Projects]
  BY RunType DEF TypeOK, RunOK
<1>b. db' = db
  BY DEF ProvisionProject, CreateUser, Provision, SetStatus, FilterProjects, SetGroups
<1>1. CASE ProvisionProject(r)
  <2>1. p \notin groups'
    BY <1>1 DEF ProvisionProject, Result, KeptOut
  <2>2. run'[r].new = run[r].new /\ memberOf' = memberOf
    BY <1>1, <1>a DEF ProvisionProject, Run
  <2> QED
    BY <2>1, <2>2, <1>b DEF Spared, KeptOut
<1>2. CASE CreateUser(r)
  <2>1. run'[r].new = run[r].new /\ memberOf' = memberOf /\ groups' = groups
    BY <1>2, <1>a DEF CreateUser, Provision, Run
  <2> QED
    BY <2>1, <1>b DEF Spared, KeptOut
<1>3. CASE SetStatus(r)
  <2>1. run'[r].new = run[r].new /\ groups' = groups
    BY <1>3, <1>a DEF SetStatus, Run
  <2>2. memberOf' \in {memberOf, [memberOf EXCEPT ![run[r].user] = {}]}
    BY <1>3 DEF SetStatus, Result
  <2> QED
    BY <2>1, <2>2, <1>a, <1>b DEF Spared, KeptOut
<1>4. ASSUME NEW u \in Users, FilterProjects(r, u) PROVE Spared(r, p)
  <2>1. PICK missed \in Misses : \E new :
          /\ new = {q \in Reported(run[r].got, u) : r \in Unruled \/ ~IdRecognised(q, missed)}
          /\ run' = [run EXCEPT ![r].pc = "compare", ![r].user = u, ![r].todo = @ \ {u},
                                ![r].new = new]
    BY <1>4 DEF FilterProjects
  <2>a. PICK new :
          /\ new = {q \in Reported(run[r].got, u) : r \in Unruled \/ ~IdRecognised(q, missed)}
          /\ run' = [run EXCEPT ![r].pc = "compare", ![r].user = u, ![r].todo = @ \ {u},
                                ![r].new = new]
    BY <2>1
  <2>2. p \notin new
    BY <2>a
  <2>3. run'[r].new = new
    <3>1. PICK todo : run' = [run EXCEPT ![r].pc = "compare", ![r].user = u, ![r].todo = todo,
                                         ![r].new = new]
      BY <2>a
    <3> QED
      BY <3>1, <1>a DEF Run
  <2>4. groups' = groups /\ memberOf' = memberOf
    BY <1>4 DEF FilterProjects, os
  <2> QED
    BY <2>2, <2>3, <2>4, <1>b DEF Spared, KeptOut
<1>5. CASE SetGroups(r)
  <2> DEFINE new == IF run[r].user \in linux THEN run[r].new ELSE {}
  <2>1. p \notin new
    BY DEF KeptOut
  <2>2. \E S \in SUBSET new : groups' = groups \cup S
    BY <1>5 DEF SetGroups
  <2>3. memberOf' \in {memberOf, [memberOf EXCEPT ![run[r].user] = new]}
    BY <1>5 DEF SetGroups, Result
  <2>4. run'[r].new = {}
    BY <1>5, <1>a DEF SetGroups, Run
  <2> HIDE DEF new
  <2> QED
    BY <2>1, <2>2, <2>3, <2>4, <1>a, <1>b DEF Spared, KeptOut
<1> QED
  BY <1>1, <1>2, <1>3, <1>4, <1>5

\* The runner that steps is the only one that changes.
LEMMA OneRunner ==
  ASSUME TypeOK, AllTold, NEW r \in Runners, FetchAccounts(r) \/ Proceed(r) \/ Abort(r),
         NEW s \in Runners, s # r
  PROVE  run'[s] = run[s]
<1>1. FetchAccounts(r) \/ FetchProjects(r) \/ FetchUsers(r) => run'[s] = run[s]
  BY DEF FetchAccounts, FetchProjects, FetchUsers, TypeOK
<1>2. (\E a \in Accounts : SyncAccount(r, a)) \/ AccountsDone(r)
      \/ (\E p \in Projects : SyncProject(r, p)) \/ ProvisionProject(r) \/ ProjectsDone(r)
      => run'[s] = run[s]
  BY DEF SyncAccount, AccountsDone, SyncProject, ProvisionProject, ProjectsDone, TypeOK
<1>3. (\E u \in Users : SyncUser(r, u)) \/ CreateUser(r) \/ SetStatus(r) \/ UsersDone(r)
      => run'[s] = run[s]
  BY DEF SyncUser, CreateUser, SetStatus, UsersDone, TypeOK
<1>4. (\E u \in Users : FilterProjects(r, u)) \/ CompareProjects(r) => run'[s] = run[s]
  BY DEF FilterProjects, CompareProjects, TypeOK
<1>5. (\E p \in Projects : AddMembership(r, p) \/ RemoveMembership(r, p)) \/ SetGroups(r)
      \/ RunDone(r) \/ Abort(r) => run'[s] = run[s]
  BY DEF AddMembership, RemoveMembership, SetGroups, RunDone, Abort, TypeOK
<1> QED
  BY <1>1, <1>2, <1>3, <1>4, <1>5 DEF Proceed

LEMMA KeptOutStep ==
  ASSUME TypeOK, AllTold, Referenced, Unruled = {}, [Next]_vars,
         NEW p \in Projects, Excluded(p), KeptOut(p), p \in Rules.projectIds \/ ~ReadsFail
  PROVE  KeptOut(p)'
<1>1. Judgeable(p)'
  BY NextRows DEF KeptOut, Judgeable, RowsStay
<1>2. CASE Change \/ Settle \/ (\E u \in Users : InitUser(u)) \/ UNCHANGED vars
  <2>1. db' = db /\ run' = run /\ groups' = groups /\ memberOf' = memberOf
    BY <1>2 DEF Change, Settle, InitUser, Provision, vars, os
  <2> QED
    BY <2>1, <1>1 DEF KeptOut
<1>3. ASSUME NEW r \in Runners, FetchAccounts(r) \/ Proceed(r) \/ Abort(r)
      PROVE  KeptOut(p)'
  <2>1. \A missed \in Misses : Recognised(p, missed) /\ IdRecognised(p, missed)
    BY JudgedByRules DEF KeptOut
  <2>2. Spared(r, p)
    BY <1>3, <2>1, FetchSpares, TablesSpare, CommandsSpare DEF Proceed
  <2>3. \A s \in Runners : p \notin run'[s].new
    BY <1>3, <2>2, OneRunner DEF Spared, KeptOut
  <2> QED
    BY <1>1, <2>2, <2>3 DEF Spared, KeptOut
<1> QED
  BY <1>2, <1>3 DEF Next

\* As long as every run applies the rules and finds the rows there are, an
\* excluded project that is kept out and has a row stays out: nobody is made a
\* member of it in the tables or in Linux, however many runs overlap and
\* whatever fails (_is_project_id_excluded, the foreign keys of the database
\* and sync_user_groups together).
THEOREM ExclusionLasts ==
  ASSUME Unruled = {}, ~ReadsFail PROVE Spec => ExcludedStayOut
<1>1. Init => TypeOK /\ AllTold /\ Referenced
  BY InitType, InitTold, InitReferenced
<1>2. TypeOK /\ AllTold /\ Referenced /\ [Next]_vars => (TypeOK /\ AllTold /\ Referenced)'
  BY NextType, NextTold, NextRows, NextReferenced
<1>3. TypeOK /\ AllTold /\ Referenced /\ [Next]_vars
      => [\A p \in Projects : Excluded(p) /\ KeptOut(p) => KeptOut(p)']_vars
  BY KeptOutStep
<1> QED
  BY <1>1, <1>2, <1>3, PTL DEF Spec, ExcludedStayOut

\* No table can lose what is excluded by its id: nobody is ever a member of it,
\* in the tables or in Linux, and no group is created for it, whatever fails,
\* the reads of the database included.
THEOREM ExcludedByIdNever ==
  ASSUME Unruled = {}, NEW p \in Rules.projectIds PROVE Spec => []KeptOut(p)
<1>a. p \in Projects /\ Excluded(p)
  BY SyncAssumption DEF Excluded
<1>1. Init => TypeOK /\ AllTold /\ Referenced /\ KeptOut(p)
  <2>1. Init => KeptOut(p)
    BY <1>a DEF Init, KeptOut, Judgeable, Empty, Idle
  <2> QED
    BY <2>1, InitType, InitTold, InitReferenced
<1>2. TypeOK /\ AllTold /\ Referenced /\ KeptOut(p) /\ [Next]_vars
      => (TypeOK /\ AllTold /\ Referenced /\ KeptOut(p))'
  BY <1>a, NextType, NextTold, NextRows, NextReferenced, KeptOutStep
<1> QED
  BY <1>1, <1>2, PTL DEF Spec

-----------------------------------------------------------------------------
(* The tables the mount handlers rely on.                                  *)

LEMMA InitTables == Init => Tables!Init
BY DEF Init, Empty, Tables!Init, GroupRows

\* A step that leaves the database alone.
LEMMA SameRows ==
  ASSUME db' = db PROVE UNCHANGED Tables!vars
BY DEF Tables!vars, GroupRows, Open

LEMMA AccountIsTables ==
  ASSUME TypeOK, NEW a \in Accounts, NEW s \in {"active", "inactive"},
         db' = [db EXCEPT !.account[a] = s]
  PROVE  Tables!Next
<1> DEFINE P == {p \in Projects : AccountOf[p] = a /\ db.project[p] = "active"}
<1>1. db \in World
  BY DEF TypeOK
<1>2. /\ db'.user = db.user /\ db'.member = db.member /\ db'.project = db.project
      /\ \A b \in Accounts : db'.account[b] = IF b = a THEN s ELSE db.account[b]
  BY <1>1 DEF World
<1>3. \A p \in P : GroupRows[p] # "absent"
  BY DEF GroupRows
<1>4. GroupRows' = [p \in Projects |-> IF p \in P THEN s ELSE GroupRows[p]]
  BY <1>2, SyncAssumption DEF GroupRows, Open
<1>5. Tables!SetProjects(P, s)
  BY <1>2, <1>3, <1>4 DEF Tables!SetProjects
<1> HIDE DEF P
<1>6. P \in SUBSET Projects
  BY DEF P
<1> QED
  BY <1>5, <1>6 DEF Tables!Next, Tables!Row

LEMMA ProjectIsTables ==
  ASSUME TypeOK, NEW q \in Projects, NEW s \in {"active", "inactive"},
         db' = [db EXCEPT !.project[q] = s]
  PROVE  Tables!Next
<1> DEFINE row == IF s = "active" /\ db.account[AccountOf[q]] = "active"
                  THEN "active" ELSE "inactive"
<1>1. db \in World
  BY DEF TypeOK
<1>2. /\ db'.user = db.user /\ db'.member = db.member /\ db'.account = db.account
      /\ \A p \in Projects : db'.project[p] = IF p = q THEN s ELSE db.project[p]
  BY <1>1 DEF World
<1>3. GroupRows' = [GroupRows EXCEPT ![q] = row]
  <2>1. \A p \in Projects : GroupRows'[p] = IF p = q THEN row ELSE GroupRows[p]
    BY <1>2 DEF GroupRows, Open
  <2>2. GroupRows' = [p \in Projects |-> GroupRows'[p]]
    BY DEF GroupRows
  <2>3. [GroupRows EXCEPT ![q] = row] = [p \in Projects |-> IF p = q THEN row ELSE GroupRows[p]]
    BY DEF GroupRows
  <2> HIDE DEF row
  <2> QED
    BY <2>1, <2>2, <2>3
<1>4. Tables!SetProject(q, row)
  BY <1>2, <1>3 DEF Tables!SetProject
<1> QED
  BY <1>4 DEF Tables!Next, Tables!Row

\* A step that writes users or memberships only.
LEMMA UserIsTables ==
  ASSUME TypeOK, NEW u \in Users, NEW s \in {"active", "inactive"}, NEW n,
         db' = [db EXCEPT !.user[u] = s, !.name[u] = n]
  PROVE  Tables!Next
<1>1. /\ db'.user = [db.user EXCEPT ![u] = s] /\ db'.member = db.member
      /\ db'.account = db.account /\ db'.project = db.project
  BY DEF TypeOK, World
<1>2. Tables!SetUser(u, s)
  BY <1>1 DEF Tables!SetUser, GroupRows, Open
<1> QED
  BY <1>2 DEF Tables!Next, Tables!Row

LEMMA MemberIsTables ==
  ASSUME TypeOK, NEW u \in Users, NEW p \in Projects,
         \/ /\ <<u, p>> \in Reportable /\ db.user[u] # "absent" /\ db.project[p] # "absent"
            /\ db' = [db EXCEPT !.member[u] = @ \cup {p}]
         \/ db' = [db EXCEPT !.member[u] = @ \ {p}]
  PROVE  Tables!Next
<1>1. db'.user = db.user /\ db'.account = db.account /\ db'.project = db.project
  BY DEF TypeOK, World
<1>2. GroupRows' = GroupRows
  BY <1>1 DEF GroupRows, Open
<1>3. CASE db' = [db EXCEPT !.member[u] = @ \ {p}]
  <2>1. db'.member = [db.member EXCEPT ![u] = @ \ {p}]
    BY <1>3 DEF TypeOK, World
  <2>2. Tables!Leave(u, p)
    BY <2>1, <1>1, <1>2 DEF Tables!Leave
  <2> QED
    BY <2>2 DEF Tables!Next
<1>4. CASE /\ <<u, p>> \in Reportable /\ db.user[u] # "absent" /\ db.project[p] # "absent"
           /\ db' = [db EXCEPT !.member[u] = @ \cup {p}]
  <2>1. db'.member = [db.member EXCEPT ![u] = @ \cup {p}]
    BY <1>4 DEF TypeOK, World
  <2>2. GroupRows[p] # "absent"
    BY <1>4 DEF GroupRows
  <2>3. Tables!Join(u, p)
    BY <2>1, <2>2, <1>1, <1>2, <1>4 DEF Tables!Join
  <2> QED
    BY <2>3 DEF Tables!Next
<1> QED
  BY <1>3, <1>4

\* Only what a run has been told is written, and as a row that is there.
LEMMA WriteIsTables ==
  ASSUME TypeOK, AllTold, NEW r \in Runners,
         \/ \E a \in Accounts : SyncAccount(r, a)
         \/ \E p \in Projects : SyncProject(r, p)
         \/ \E u \in Users : SyncUser(r, u)
         \/ \E p \in Projects : AddMembership(r, p) \/ RemoveMembership(r, p)
  PROVE  Tables!Next \/ db' = db
<1>a. /\ RunOK(run[r]) /\ run[r].got \in World /\ run[r].user \in Users /\ Told(run[r])
      /\ Pending(run[r])
  BY RunType DEF RunOK, Run, AllTold, Told
<1>1. ASSUME NEW a \in Accounts, SyncAccount(r, a) PROVE Tables!Next \/ db' = db
  <2>1. run[r].got.account[a] \in {"active", "inactive"}
    BY <1>1, <1>a DEF SyncAccount, Pending, Listed, World, Status
  <2>2. db' = db \/ db' = [db EXCEPT !.account[a] = run[r].got.account[a]]
    BY <1>1 DEF SyncAccount, Commit, Outcome
  <2> QED
    BY <2>1, <2>2, AccountIsTables
<1>2. ASSUME NEW p \in Projects, SyncProject(r, p) PROVE Tables!Next \/ db' = db
  <2>1. run[r].got.project[p] \in {"active", "inactive"}
    BY <1>2, <1>a DEF SyncProject, Pending, Listed, World, Status
  <2>2. db' = db \/ db' = [db EXCEPT !.project[p] = run[r].got.project[p]]
    BY <1>2 DEF SyncProject, Commit, Outcome, UpsertProject
  <2> QED
    BY <2>1, <2>2, ProjectIsTables
<1>3. ASSUME NEW u \in Users, SyncUser(r, u) PROVE Tables!Next \/ db' = db
  <2>1. run[r].got.user[u] \in {"active", "inactive"}
    BY <1>3, <1>a DEF SyncUser, Pending, Listed, World, Status
  <2>2. \/ db' = db
        \/ db' = [db EXCEPT !.user[u] = run[r].got.user[u], !.name[u] = run[r].got.name[u]]
    BY <1>3 DEF SyncUser, Commit, Outcome, UpsertUser
  <2> QED
    BY <2>1, <2>2, UserIsTables
<1>4. ASSUME NEW p \in Projects, AddMembership(r, p) \/ RemoveMembership(r, p)
      PROVE  Tables!Next \/ db' = db
  <2> DEFINE u == run[r].user
  <2>1. CASE AddMembership(r, p)
    <3>1. <<u, p>> \in Reportable
      BY <2>1, <1>a DEF AddMembership, RunOK, Told
    <3>2. \/ db' = db
          \/ /\ db.user[u] # "absent" /\ db.project[p] # "absent"
             /\ db' = [db EXCEPT !.member[u] = @ \cup {p}]
      BY <2>1 DEF AddMembership, Commit, Outcome
    <3> QED
      BY <3>1, <3>2, <1>a, MemberIsTables
  <2>2. CASE RemoveMembership(r, p)
    <3>1. db' = db \/ db' = [db EXCEPT !.member[u] = @ \ {p}]
      BY <2>2 DEF RemoveMembership, Commit, Outcome
    <3> QED
      BY <3>1, <1>a, MemberIsTables
  <2> QED
    BY <1>4, <2>1, <2>2
<1> QED
  BY <1>1, <1>2, <1>3, <1>4

LEMMA NextTables == TypeOK /\ AllTold /\ [Next]_vars => [Tables!Next]_(Tables!vars)
<1> SUFFICES ASSUME TypeOK, AllTold, [Next]_vars PROVE Tables!Next \/ UNCHANGED Tables!vars
  OBVIOUS
<1>1. CASE Change \/ Settle \/ (\E u \in Users : InitUser(u)) \/ UNCHANGED vars
  <2>1. db' = db
    BY <1>1 DEF Change, Settle, InitUser, Provision, vars
  <2> QED
    BY <2>1, SameRows
<1>2. ASSUME NEW r \in Runners, FetchAccounts(r) \/ Proceed(r) \/ Abort(r)
      PROVE  Tables!Next \/ db' = db
  <2>1. CASE \/ \E a \in Accounts : SyncAccount(r, a)
             \/ \E p \in Projects : SyncProject(r, p)
             \/ \E u \in Users : SyncUser(r, u)
             \/ \E p \in Projects : AddMembership(r, p) \/ RemoveMembership(r, p)
    BY <2>1, WriteIsTables
  <2>2. CASE FetchAccounts(r) \/ FetchProjects(r) \/ FetchUsers(r) \/ Abort(r) \/ RunDone(r)
    BY <2>2 DEF FetchAccounts, FetchProjects, FetchUsers, Abort, RunDone
  <2>3. CASE AccountsDone(r) \/ ProjectsDone(r) \/ UsersDone(r)
    BY <2>3 DEF AccountsDone, ProjectsDone, UsersDone
  <2>4. CASE ProvisionProject(r) \/ CreateUser(r) \/ SetStatus(r)
    BY <2>4 DEF ProvisionProject, CreateUser, Provision, SetStatus
  <2>5. CASE \/ \E u \in Users : FilterProjects(r, u)
             \/ CompareProjects(r) \/ SetGroups(r)
    BY <2>5 DEF FilterProjects, CompareProjects, SetGroups
  <2> QED
    BY <1>2, <2>1, <2>2, <2>3, <2>4, <2>5 DEF Proceed
<1> QED
  BY <1>1, <1>2, SameRows DEF Next

\* Whatever fails, stops half-way or overlaps, each step of a reconciliation is
\* a step of the tables the mount handlers rely on (run_once over state_db).
THEOREM SyncImplementsTables == Spec => ImplementsTables
<1>1. Init => TypeOK /\ AllTold /\ Tables!Init
  BY InitType, InitTold, InitTables
<1>2. TypeOK /\ AllTold /\ [Next]_vars => (TypeOK /\ AllTold)'
  BY NextType, NextTold
<1>3. TypeOK /\ AllTold /\ [Next]_vars => [Tables!Next]_(Tables!vars)
  BY NextTables
<1> QED
  BY <1>1, <1>2, <1>3, PTL DEF Spec, ImplementsTables, Tables!Spec
=============================================================================
