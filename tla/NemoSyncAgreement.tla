--------------------------- MODULE NemoSyncAgreement ---------------------------
(* Proof that a reconciliation is right: once NEMO rests and nothing fails,  *)
(* a run that comes to its end leaves database and operating system in       *)
(* agreement with NEMO, and no run disturbs what agrees.                     *)
EXTENDS NemoSyncProofs

\* The parts of Agrees.
AccountAgrees(a) == nemo.account[a] # "absent" => db.account[a] = nemo.account[a]
ProjectAgrees(p) == nemo.project[p] # "absent" => db.project[p] = nemo.project[p]
RowAgrees(u) ==
  nemo.user[u] # "absent" => db.user[u] = nemo.user[u] /\ db.name[u] = nemo.name[u]
HomeAgrees(u) == nemo.user[u] # "absent" => u \in linux /\ u \in homes
LockAgrees(u) ==
  nemo.user[u] # "absent" /\ Policy = "lock_account" =>
    (u \in locked <=> nemo.user[u] = "inactive")
MembersAgree(u) == nemo.user[u] # "absent" => db.member[u] = Wanted(u)
GroupsAgree(u) == nemo.user[u] # "absent" => memberOf[u] = Wanted(u)

LEMMA AgreesParts ==
  Agrees <=> /\ \A a \in Accounts : AccountAgrees(a)
             /\ \A p \in Projects : ProjectAgrees(p)
             /\ \A u \in Users : /\ RowAgrees(u) /\ HomeAgrees(u) /\ LockAgrees(u)
                                 /\ MembersAgree(u) /\ GroupsAgree(u)
BY DEF Agrees, AccountAgrees, ProjectAgrees, RowAgrees, HomeAgrees, LockAgrees,
       MembersAgree, GroupsAgree

\* The memberships of a user come no further from those NEMO wants.
Nearer(u) ==
  nemo.user[u] # "absent" =>
    /\ Wanted(u) \ db'.member[u] \subseteq Wanted(u) \ db.member[u]
    /\ db'.member[u] \ Wanted(u) \subseteq db.member[u] \ Wanted(u)

\* A step that disturbs nothing that agrees.
Keeps ==
  /\ nemo' = nemo /\ calm' = calm
  /\ NamesFree'
  /\ \A a \in Accounts : AccountAgrees(a) => AccountAgrees(a)'
  /\ \A p \in Projects : ProjectAgrees(p) => ProjectAgrees(p)'
  /\ \A u \in Users :
       /\ RowAgrees(u) => RowAgrees(u)'
       /\ HomeAgrees(u) => HomeAgrees(u)'
       /\ LockAgrees(u) => LockAgrees(u)'
       /\ Nearer(u)
       /\ GroupsAgree(u) => GroupsAgree(u)'

LEMMA WantedStays ==
  ASSUME nemo' = nemo PROVE \A u \in Users : Wanted(u)' = Wanted(u)
BY DEF Wanted, Reported, Excluded

\* The sets of memberships are those of the database type.
LEMMA MembersKept ==
  ASSUME TypeOK, Keeps, NEW u \in Users, MembersAgree(u)
  PROVE  MembersAgree(u)'
BY WantedStays DEF Keeps, MembersAgree, Nearer

LEMMA AgreesKept == ASSUME TypeOK, Keeps, Agrees PROVE Agrees'
<1>1. /\ \A a \in Accounts : AccountAgrees(a)'
      /\ \A p \in Projects : ProjectAgrees(p)'
      /\ \A u \in Users : RowAgrees(u)' /\ HomeAgrees(u)' /\ LockAgrees(u)'
                          /\ GroupsAgree(u)'
  BY AgreesParts DEF Keeps
<1>2. \A u \in Users : MembersAgree(u)'
  BY AgreesParts, MembersKept
<1> QED
  BY <1>1, <1>2
     DEF Agrees, AccountAgrees, ProjectAgrees, RowAgrees, HomeAgrees, LockAgrees,
         MembersAgree, GroupsAgree

-----------------------------------------------------------------------------
(* What a run that began when NEMO was at rest has dealt with.             *)

ProjectPCs == {"projects", "provision"}
UserPCs == {"users", "create", "status"}
MemberPCs == {"members", "compare", "apply"}
Working == {"accounts"} \cup ProjectPCs \cup UserPCs \cup MemberPCs

\* Its lists are what NEMO says.
Current(x) ==
  /\ x.pc \in {"get_projects", "get_users"} \cup Working => x.got.account = nemo.account
  /\ x.pc \in {"get_users"} \cup Working => x.got.project = nemo.project
  /\ x.pc \in Working => /\ x.got.user = nemo.user /\ x.got.name = nemo.name
                         /\ x.got.member = nemo.member

TablesDone(x) ==
  /\ x.pc = "accounts" => \A a \in Accounts \ x.todo : AccountAgrees(a)
  /\ x.pc \in ProjectPCs \cup UserPCs \cup MemberPCs => \A a \in Accounts : AccountAgrees(a)
  /\ x.pc \in ProjectPCs => \A p \in Projects \ x.todo : ProjectAgrees(p)
  /\ x.pc \in UserPCs \cup MemberPCs => \A p \in Projects : ProjectAgrees(p)

UsersOf(x) == IF x.pc = "users" THEN Users \ x.todo ELSE Users \ (x.todo \cup {x.user})

AccountsDealt(x) ==
  /\ x.pc \in UserPCs => \A u \in Users \ x.todo : RowAgrees(u)
  /\ x.pc \in UserPCs => \A u \in UsersOf(x) : HomeAgrees(u) /\ LockAgrees(u)
  /\ x.pc = "status" => HomeAgrees(x.user)
  /\ x.pc \in MemberPCs => \A u \in Users : RowAgrees(u) /\ HomeAgrees(u) /\ LockAgrees(u)

MembersOf(x) == IF x.pc = "members" THEN Users \ x.todo ELSE Users \ (x.todo \cup {x.user})

\* What the run adds and removes is what the memberships lack and have too much.
Mends(x) ==
  nemo.user[x.user] # "absent" =>
    /\ Wanted(x.user) \ db.member[x.user] \subseteq x.add
    /\ db.member[x.user] \ Wanted(x.user) \subseteq x.del

MembersDealt(x) ==
  /\ x.pc \in MemberPCs => \A u \in MembersOf(x) : MembersAgree(u) /\ GroupsAgree(u)
  /\ x.pc \in {"compare", "apply"} =>
       (nemo.user[x.user] # "absent" => x.new = Wanted(x.user))
  /\ x.pc = "apply" => Mends(x)

InOrder(x) == Current(x) /\ TablesDone(x) /\ AccountsDealt(x) /\ MembersDealt(x)

Good ==
  /\ calm /\ Coherent(nemo) /\ NamesFree
  /\ \A r \in Runners : InOrder(run[r])

LEMMA RestedIsGood == Rested => Good
<1>1. \A x : x.pc = "idle" => InOrder(x)
  BY DEF InOrder, Current, TablesDone, AccountsDealt, MembersDealt, ProjectPCs, UserPCs,
         MemberPCs, Working
<1> QED
  BY <1>1 DEF Rested, Good

LEMMA EndedAgrees == TypeOK /\ Good /\ Ended => Agrees
<1> SUFFICES ASSUME TypeOK, Good, NEW r \in Runners,
                    run[r].pc = "members", run[r].todo = {}
             PROVE  Agrees
  BY DEF Ended
<1>1. InOrder(run[r])
  BY DEF Good
<1>2. MembersOf(run[r]) = Users
  BY DEF MembersOf
<1> QED
  BY <1>1, <1>2, AgreesParts
     DEF InOrder, TablesDone, AccountsDealt, MembersDealt, UserPCs, MemberPCs

\* What a run has dealt with stays so.
LEMMA OrderKept ==
  ASSUME TypeOK, Keeps, NEW x, x.user \in Users, InOrder(x)
  PROVE  InOrder(x)'
<1>1. Current(x)'
  BY DEF InOrder, Current, Keeps
<1>2. TablesDone(x)'
  BY DEF InOrder, TablesDone, Keeps
<1>3. AccountsDealt(x)'
  BY DEF InOrder, AccountsDealt, UsersOf, Keeps
<1>4. MembersDealt(x)'
  <2>1. \A u \in Users : MembersAgree(u) => MembersAgree(u)'
    BY MembersKept
  <2>2. \A u \in Users : GroupsAgree(u) => GroupsAgree(u)'
    BY DEF Keeps
  <2>3. Wanted(x.user)' = Wanted(x.user) /\ nemo' = nemo
    BY WantedStays DEF Keeps
  <2>4. Mends(x) => Mends(x)'
    BY <2>3 DEF Mends, Keeps, Nearer
  <2>5. MembersOf(x)' = MembersOf(x) /\ MembersOf(x) \subseteq Users
    BY DEF MembersOf
  <2> QED
    BY <2>1, <2>2, <2>3, <2>4, <2>5 DEF InOrder, MembersDealt
<1> QED
  BY <1>1, <1>2, <1>3, <1>4 DEF InOrder

LEMMA GoodStep ==
  ASSUME TypeOK, Good, NEW r \in Runners, Keeps, NEW y, InOrder(y)',
         run' = [run EXCEPT ![r] = y]
  PROVE  Good'
<1>1. ASSUME NEW s \in Runners PROVE InOrder(run[s])'
  <2>1. PICK x : x = IF s = r THEN y ELSE run[s]
    OBVIOUS
  <2>2. run'[s] = x
    BY <2>1 DEF TypeOK
  <2>3. InOrder(x)'
    <3>1. CASE s = r
      BY <2>1, <3>1
    <3>2. CASE s # r
      <4>1. x.user \in Users /\ InOrder(x)
        BY <2>1, <3>2 DEF TypeOK, Run, Good
      <4> QED
        BY <4>1, OrderKept
    <3> QED
      BY <3>1, <3>2
  <2> QED
    BY <2>2, <2>3
<1>2. calm' /\ Coherent(nemo)' /\ NamesFree'
  BY DEF Good, Keeps, Coherent
<1> QED
  BY <1>1, <1>2 DEF Good

\* What holds of every step then.
Advances == Good' /\ (Agrees => Agrees')

\* The runner r comes from x to y.
Moves(r, x, y) == x = run[r] /\ run' = [run EXCEPT ![r] = y]

LEMMA MovesGood ==
  ASSUME TypeOK, Good, NEW r \in Runners, Keeps, NEW x, NEW y, Moves(r, x, y),
         InOrder(x)' => InOrder(y)'
  PROVE  Advances
<1>1. x.user \in Users /\ InOrder(x)
  BY DEF Moves, TypeOK, Run, Good
<1>2. Good'
  BY <1>1, OrderKept, GoodStep DEF Moves
<1> QED
  BY <1>2, AgreesKept DEF Advances

LEMMA NothingWritten ==
  ASSUME Good, UNCHANGED <<nemo, calm, db, linux, homes, memberOf, locked>> PROVE Keeps
<1>1. \A u \in Users : Nearer(u)
  BY DEF Nearer
<1> QED
  BY <1>1
     DEF Good, Keeps, NamesFree, AccountAgrees, ProjectAgrees, RowAgrees, HomeAgrees,
         LockAgrees, GroupsAgree, Wanted, Reported, Excluded

-----------------------------------------------------------------------------
(* The steps of a run, when nothing fails.                                 *)

LEMMA FullListing ==
  ASSUME ~Failing, NEW S, NEW f \in [S -> Status] PROVE Listing(f) = {f}
BY DEF Listing

LEMMA NoFailure ==
  ASSUME TypeOK, Good
  PROVE  /\ ~Failing /\ Misses = {{}}
         /\ \A new, old : Outcome(new, old) = {new} /\ Result(new, old) = {new}
BY DEF Good, Failing, Misses, Outcome, Result

LEMMA FetchGood ==
  ASSUME TypeOK, Good, NEW r \in Runners,
         FetchAccounts(r) \/ FetchProjects(r) \/ FetchUsers(r)
  PROVE  Advances
<1>x. PICK x : x = run[r]
  OBVIOUS
<1>a. /\ RunOK(x) /\ x.got \in World /\ nemo \in World /\ InOrder(x)
      /\ run \in [Runners -> Run]
  BY <1>x, RunType DEF Good, TypeOK
<1>k. Keeps
  BY NothingWritten DEF FetchAccounts, FetchProjects, FetchUsers, os
<1>l. /\ Listing(nemo.account) = {nemo.account} /\ Listing(nemo.project) = {nemo.project}
      /\ Listing(nemo.user) = {nemo.user}
  BY <1>a, NoFailure, FullListing DEF World
<1>1. CASE FetchAccounts(r)
  <2>1. run' = [run EXCEPT ![r].pc = "get_projects", ![r].got.account = nemo.account]
    BY <1>1, <1>l DEF FetchAccounts
  <2> DEFINE y == [x EXCEPT !.pc = "get_projects", !.got.account = nemo.account]
  <2>2. run' = [run EXCEPT ![r] = y]
    BY <2>1, <1>x, <1>a DEF RunOK, Run, World
  <2>3. y.pc = "get_projects" /\ y.got.account = nemo.account
    BY <1>a DEF RunOK, Run, World
  <2> HIDE DEF y
  <2>4. PICK z : z = y
    OBVIOUS
  <2>5. InOrder(z)'
    BY <2>3, <2>4, <1>k
       DEF InOrder, Current, TablesDone, AccountsDealt, MembersDealt, ProjectPCs, UserPCs,
           MemberPCs, Working, Keeps
  <2> QED
    BY <2>2, <2>4, <2>5, <1>x, <1>k, MovesGood DEF Moves
<1>2. CASE FetchProjects(r)
  <2>1. run' = [run EXCEPT ![r].pc = "get_users", ![r].got.project = nemo.project]
    BY <1>2, <1>l DEF FetchProjects
  <2> DEFINE y == [x EXCEPT !.pc = "get_users", !.got.project = nemo.project]
  <2>2. run' = [run EXCEPT ![r] = y]
    BY <2>1, <1>x, <1>a DEF RunOK, Run, World
  <2>3. /\ y.pc = "get_users" /\ y.got.project = nemo.project
        /\ y.got.account = x.got.account /\ x.pc = "get_projects"
    BY <1>2, <1>x, <1>a DEF RunOK, Run, World, FetchProjects
  <2> HIDE DEF y
  <2>4. PICK z : z = y
    OBVIOUS
  <2>5. InOrder(z)'
    BY <2>3, <2>4, <1>k, <1>a
       DEF InOrder, Current, TablesDone, AccountsDealt, MembersDealt, ProjectPCs, UserPCs,
           MemberPCs, Working, Keeps
  <2> QED
    BY <2>2, <2>4, <2>5, <1>x, <1>k, MovesGood DEF Moves
<1>3. CASE FetchUsers(r)
  <2> DEFINE listed == Listed(x.got.account)
             got == [x.got EXCEPT !.user = nemo.user, !.name = nemo.name,
                                  !.member = nemo.member]
             y == [x EXCEPT !.pc = "accounts", !.todo = listed, !.got = got]
  <2>1. run' = [run EXCEPT ![r].pc = "accounts", ![r].todo = Listed(run[r].got.account),
                  ![r].got = [@ EXCEPT !.user = nemo.user, !.name = nemo.name,
                                       !.member = nemo.member]]
    BY <1>3, <1>l DEF FetchUsers
  <2>2. run' = [run EXCEPT ![r] = y]
    BY <2>1, <1>x, <1>a DEF RunOK, Run, World
  <2>3. /\ got.user = nemo.user /\ got.name = nemo.name /\ got.member = nemo.member
        /\ got.project = x.got.project /\ got.account = x.got.account
    BY <1>a DEF World
  <2> HIDE DEF got, listed
  <2>4. /\ y.pc = "accounts" /\ y.todo = listed /\ y.got = got /\ x.pc = "get_users"
    BY <1>3, <1>x, <1>a DEF RunOK, Run, FetchUsers
  <2> HIDE DEF y
  <2>5. PICK z : z = y
    OBVIOUS
  <2>6. \A a \in Accounts \ z.todo : AccountAgrees(a)'
    <3>1. nemo' = nemo /\ x.got.account = nemo.account
      BY <1>k, <1>a, <2>4 DEF Keeps, InOrder, Current
    <3> QED
      BY <3>1, <2>4, <2>5, <1>a DEF AccountAgrees, Listed, World, listed
  <2>7. InOrder(z)'
    BY <2>3, <2>4, <2>5, <2>6, <1>k, <1>a
       DEF InOrder, Current, TablesDone, AccountsDealt, MembersDealt, ProjectPCs, UserPCs,
           MemberPCs, Working, Keeps
  <2> QED
    BY <2>2, <2>5, <2>7, <1>x, <1>k, MovesGood DEF Moves
<1> QED
  BY <1>1, <1>2, <1>3

LEMMA PhaseGood ==
  ASSUME TypeOK, Good, NEW r \in Runners,
         AccountsDone(r) \/ ProjectsDone(r) \/ UsersDone(r) \/ ProvisionProject(r)
         \/ RunDone(r)
  PROVE  Advances
<1>x. PICK x : x = run[r]
  OBVIOUS
<1>a. /\ RunOK(x) /\ x.got \in World /\ nemo \in World /\ InOrder(x)
      /\ run \in [Runners -> Run]
  BY <1>x, RunType DEF Good, TypeOK
<1>k. Keeps
  BY NothingWritten
     DEF AccountsDone, ProjectsDone, UsersDone, ProvisionProject, RunDone, os
<1>n. nemo' = nemo
  BY <1>k DEF Keeps
<1>1. CASE AccountsDone(r)
  <2> DEFINE listed == Listed(x.got.project)
             y == [x EXCEPT !.pc = "projects", !.todo = listed]
  <2>1. run' = [run EXCEPT ![r] = y]
    BY <1>1, <1>x, <1>a DEF AccountsDone
  <2> HIDE DEF listed
  <2>2. /\ y.pc = "projects" /\ y.todo = listed /\ y.got = x.got
        /\ x.pc = "accounts" /\ x.todo = {}
    BY <1>1, <1>x, <1>a DEF RunOK, Run, AccountsDone
  <2> HIDE DEF y
  <2>3. PICK z : z = y
    OBVIOUS
  <2>4. \A p \in Projects \ z.todo : ProjectAgrees(p)'
    BY <1>a, <1>n, <2>2, <2>3
       DEF ProjectAgrees, Listed, World, listed, InOrder, Current, Working
  <2>5. InOrder(x)' => InOrder(z)'
    BY <2>2, <2>3, <2>4, <1>n
       DEF InOrder, Current, TablesDone, AccountsDealt, MembersDealt, ProjectPCs, UserPCs,
           MemberPCs, Working
  <2> QED
    BY <2>1, <2>3, <2>5, <1>x, <1>k, MovesGood DEF Moves
<1>2. CASE ProjectsDone(r)
  <2> DEFINE listed == Listed(x.got.user)
             y == [x EXCEPT !.pc = "users", !.todo = listed]
  <2>1. run' = [run EXCEPT ![r] = y]
    BY <1>2, <1>x, <1>a DEF ProjectsDone
  <2> HIDE DEF listed
  <2>2. /\ y.pc = "users" /\ y.todo = listed /\ y.got = x.got
        /\ x.pc = "projects" /\ x.todo = {}
    BY <1>2, <1>x, <1>a DEF RunOK, Run, ProjectsDone
  <2> HIDE DEF y
  <2>3. PICK z : z = y
    OBVIOUS
  <2>4. \A u \in Users \ z.todo : RowAgrees(u)' /\ HomeAgrees(u)' /\ LockAgrees(u)'
    <3>1. \A u \in Users \ z.todo : nemo'.user[u] = "absent"
      BY <1>a, <1>n, <2>2, <2>3
         DEF Listed, World, listed, InOrder, Current, Working, ProjectPCs
    <3> QED
      BY <3>1 DEF RowAgrees, HomeAgrees, LockAgrees
  <2>5. InOrder(x)' => InOrder(z)'
    BY <2>2, <2>3, <2>4, <1>n
       DEF InOrder, Current, TablesDone, AccountsDealt, MembersDealt, ProjectPCs, UserPCs,
           MemberPCs, Working, UsersOf
  <2> QED
    BY <2>1, <2>3, <2>5, <1>x, <1>k, MovesGood DEF Moves
<1>3. CASE UsersDone(r)
  <2> DEFINE listed == Listed(x.got.user)
             y == [x EXCEPT !.pc = "members", !.todo = listed]
  <2>1. run' = [run EXCEPT ![r] = y]
    BY <1>3, <1>x, <1>a DEF UsersDone
  <2> HIDE DEF listed
  <2>2. /\ y.pc = "members" /\ y.todo = listed /\ y.got = x.got
        /\ x.pc = "users" /\ x.todo = {}
    BY <1>3, <1>x, <1>a DEF RunOK, Run, UsersDone
  <2> HIDE DEF y
  <2>3. PICK z : z = y
    OBVIOUS
  <2>4. \A u \in Users \ z.todo : MembersAgree(u)' /\ GroupsAgree(u)'
    <3>1. \A u \in Users \ z.todo : nemo'.user[u] = "absent"
      BY <1>a, <1>n, <2>2, <2>3
         DEF Listed, World, listed, InOrder, Current, Working, UserPCs
    <3> QED
      BY <3>1 DEF MembersAgree, GroupsAgree
  <2>5. InOrder(x)' => InOrder(z)'
    BY <2>2, <2>3, <2>4, <1>n
       DEF InOrder, Current, TablesDone, AccountsDealt, MembersDealt, ProjectPCs, UserPCs,
           MemberPCs, Working, UsersOf, MembersOf
  <2> QED
    BY <2>1, <2>3, <2>5, <1>x, <1>k, MovesGood DEF Moves
<1>4. CASE ProvisionProject(r)
  <2> DEFINE y == [x EXCEPT !.pc = "projects"]
  <2>1. run' = [run EXCEPT ![r] = y]
    BY <1>4, <1>x, <1>a DEF ProvisionProject
  <2>2. /\ y.pc = "projects" /\ y.todo = x.todo /\ y.got = x.got /\ x.pc = "provision"
    BY <1>4, <1>x, <1>a DEF RunOK, Run, ProvisionProject
  <2> HIDE DEF y
  <2>3. PICK z : z = y
    OBVIOUS
  <2>4. InOrder(x)' => InOrder(z)'
    BY <2>2, <2>3, <1>n
       DEF InOrder, Current, TablesDone, AccountsDealt, MembersDealt, ProjectPCs, UserPCs,
           MemberPCs, Working
  <2> QED
    BY <2>1, <2>3, <2>4, <1>x, <1>k, MovesGood DEF Moves
<1>5. CASE RunDone(r)
  <2>1. PICK z : z = Idle(nemo)
    OBVIOUS
  <2>2. z.pc = "idle"
    BY <2>1 DEF Idle
  <2>3. InOrder(z)'
    BY <2>2
       DEF InOrder, Current, TablesDone, AccountsDealt, MembersDealt, ProjectPCs, UserPCs,
           MemberPCs, Working
  <2> QED
    BY <1>5, <2>1, <2>3, <1>x, <1>k, MovesGood DEF Moves, RunDone
<1> QED
  BY <1>1, <1>2, <1>3, <1>4, <1>5

\* Writing a row: it agrees now, and nothing else changes.
LEMMA AccountGood ==
  ASSUME TypeOK, AllTold, Good, NEW r \in Runners, NEW a \in Accounts, SyncAccount(r, a)
  PROVE  Advances
<1>x. PICK x : x = run[r]
  OBVIOUS
<1>a. /\ RunOK(x) /\ InOrder(x) /\ run \in [Runners -> Run] /\ db \in World
      /\ x.pc = "accounts" /\ x.got.account = nemo.account
  BY <1>x, RunType DEF Good, TypeOK, SyncAccount, InOrder, Current, Working
<1>1. db' = [db EXCEPT !.account[a] = nemo.account[a]]
  BY <1>x, <1>a, NoFailure DEF SyncAccount, Commit
<1>2. /\ db'.project = db.project /\ db'.user = db.user /\ db'.name = db.name
      /\ db'.member = db.member
      /\ \A b \in Accounts : db'.account[b] = IF b = a THEN nemo.account[a] ELSE db.account[b]
  BY <1>1, <1>a DEF World
<1>3. UNCHANGED <<nemo, calm, linux, homes, memberOf, locked>>
  BY DEF SyncAccount, os
<1>k. Keeps
  <2>1. \A u \in Users : Nearer(u)
    BY <1>2 DEF Nearer
  <2> QED
    BY <1>2, <1>3, <2>1
       DEF Good, Keeps, NamesFree, AccountAgrees, ProjectAgrees, RowAgrees, HomeAgrees,
           LockAgrees, GroupsAgree, Wanted, Reported, Excluded
<1> DEFINE y == [x EXCEPT !.todo = @ \ {a}]
<1>4. run' = [run EXCEPT ![r] = y]
  BY <1>x, <1>a DEF SyncAccount
<1>5. y.pc = "accounts" /\ y.todo = x.todo \ {a} /\ y.got = x.got
  BY <1>a DEF RunOK, Run
<1> HIDE DEF y
<1>6. PICK z : z = y
  OBVIOUS
<1>7. AccountAgrees(a)'
  BY <1>2, <1>3 DEF AccountAgrees
<1>8. InOrder(x)' => InOrder(z)'
  BY <1>a, <1>5, <1>6, <1>7
     DEF InOrder, Current, TablesDone, AccountsDealt, MembersDealt, ProjectPCs, UserPCs,
         MemberPCs, Working
<1> QED
  BY <1>4, <1>6, <1>8, <1>x, <1>k, MovesGood DEF Moves

LEMMA ProjectGood ==
  ASSUME TypeOK, AllTold, Good, NEW r \in Runners, NEW p \in Projects, SyncProject(r, p)
  PROVE  Advances
<1>x. PICK x : x = run[r]
  OBVIOUS
<1>a. /\ RunOK(x) /\ InOrder(x) /\ run \in [Runners -> Run] /\ db \in World
      /\ nemo \in World /\ Pending(x) /\ p \in x.todo
      /\ x.pc = "projects" /\ x.got.project = nemo.project
  BY <1>x, RunType DEF Good, TypeOK, SyncProject, InOrder, Current, Working, ProjectPCs,
                       AllTold, Told
<1>1. db' = [db EXCEPT !.project[p] = nemo.project[p]]
  <2>1. nemo.project[p] # "absent"
    BY <1>a DEF Pending, Listed, World
  <2>2. AccountAgrees(AccountOf[p]) /\ nemo.account[AccountOf[p]] # "absent"
    BY <2>1, <1>a, SyncAssumption
       DEF InOrder, TablesDone, ProjectPCs, Good, Coherent
  <2>3. db.account[AccountOf[p]] # "absent"
    BY <2>2 DEF AccountAgrees
  <2>4. Commit(UpsertProject(p, nemo.project[p]))
    BY <1>x, <1>a DEF SyncProject
  <2> QED
    BY <2>3, <2>4, NoFailure DEF Commit, UpsertProject
<1>2. /\ db'.account = db.account /\ db'.user = db.user /\ db'.name = db.name
      /\ db'.member = db.member
      /\ \A q \in Projects : db'.project[q] = IF q = p THEN nemo.project[p] ELSE db.project[q]
  BY <1>1, <1>a DEF World
<1>3. UNCHANGED <<nemo, calm, linux, homes, memberOf, locked>>
  BY DEF SyncProject, os
<1>k. Keeps
  <2>1. \A u \in Users : Nearer(u)
    BY <1>2 DEF Nearer
  <2> QED
    BY <1>2, <1>3, <2>1
       DEF Good, Keeps, NamesFree, AccountAgrees, ProjectAgrees, RowAgrees, HomeAgrees,
           LockAgrees, GroupsAgree, Wanted, Reported, Excluded
<1> DEFINE y == [x EXCEPT !.pc = "provision", !.proj = p, !.todo = @ \ {p}]
<1>4. run' = [run EXCEPT ![r] = y]
  BY <1>x, <1>a DEF SyncProject
<1>5. y.pc = "provision" /\ y.todo = x.todo \ {p} /\ y.got = x.got
  BY <1>a DEF RunOK, Run
<1> HIDE DEF y
<1>6. PICK z : z = y
  OBVIOUS
<1>7. ProjectAgrees(p)'
  BY <1>2, <1>3 DEF ProjectAgrees
<1>8. InOrder(x)' => InOrder(z)'
  BY <1>a, <1>5, <1>6, <1>7
     DEF InOrder, Current, TablesDone, AccountsDealt, MembersDealt, ProjectPCs, UserPCs,
         MemberPCs, Working
<1> QED
  BY <1>4, <1>6, <1>8, <1>x, <1>k, MovesGood DEF Moves

LEMMA UserGood ==
  ASSUME TypeOK, AllTold, Good, NEW r \in Runners, NEW u \in Users, SyncUser(r, u)
  PROVE  Advances
<1>x. PICK x : x = run[r]
  OBVIOUS
<1>a. /\ RunOK(x) /\ InOrder(x) /\ run \in [Runners -> Run] /\ db \in World
      /\ nemo \in World /\ Pending(x) /\ u \in x.todo
      /\ x.pc = "users" /\ x.got.user = nemo.user /\ x.got.name = nemo.name
  BY <1>x, RunType DEF Good, TypeOK, SyncUser, InOrder, Current, Working, UserPCs,
                       AllTold, Told
<1>p. nemo.user[u] # "absent"
  BY <1>a DEF Pending, Listed, World
<1>1. db' = [db EXCEPT !.user[u] = nemo.user[u], !.name[u] = nemo.name[u]]
  <2>1. ~ \E v \in Users \ {u} : db.user[v] # "absent" /\ db.name[v] = nemo.name[u]
    BY <1>p DEF Good, NamesFree
  <2>2. Commit(UpsertUser(u, nemo.user[u], nemo.name[u]))
    BY <1>x, <1>a DEF SyncUser
  <2> QED
    BY <2>1, <2>2, NoFailure DEF Commit, UpsertUser
<1>2. /\ db'.account = db.account /\ db'.project = db.project /\ db'.member = db.member
      /\ \A v \in Users : db'.user[v] = IF v = u THEN nemo.user[u] ELSE db.user[v]
      /\ \A v \in Users : db'.name[v] = IF v = u THEN nemo.name[u] ELSE db.name[v]
  BY <1>1, <1>a DEF World
<1>3. UNCHANGED <<nemo, calm, linux, homes, memberOf, locked>>
  BY DEF SyncUser, os
<1>k. Keeps
  <2>1. \A v \in Users : Nearer(v)
    BY <1>2 DEF Nearer
  <2>2. NamesFree'
    BY <1>2, <1>3, <1>p DEF NamesFree, Good, Coherent
  <2> QED
    BY <1>2, <1>3, <2>1, <2>2
       DEF Keeps, AccountAgrees, ProjectAgrees, RowAgrees, HomeAgrees,
           LockAgrees, GroupsAgree, Wanted, Reported, Excluded
<1> DEFINE y == [x EXCEPT !.pc = "create", !.user = u, !.todo = @ \ {u}]
<1>4. run' = [run EXCEPT ![r] = y]
  BY <1>x, <1>a DEF SyncUser
<1>5. /\ y.pc = "create" /\ y.todo = x.todo \ {u} /\ y.got = x.got
      /\ y.user = u
  BY <1>a DEF RunOK, Run
<1> HIDE DEF y
<1>6. PICK z : z = y
  OBVIOUS
<1>7. RowAgrees(u)'
  BY <1>2, <1>3 DEF RowAgrees
<1>8. InOrder(x)' => InOrder(z)'
  BY <1>a, <1>5, <1>6, <1>7
     DEF InOrder, Current, TablesDone, AccountsDealt, MembersDealt, ProjectPCs, UserPCs,
         MemberPCs, Working, UsersOf
<1> QED
  BY <1>4, <1>6, <1>8, <1>x, <1>k, MovesGood DEF Moves

-----------------------------------------------------------------------------
(* The account of a user, by a run and by handle_init_user.                *)

LEMMA ProvisionKeepsAll ==
  ASSUME TypeOK, Good, NEW u \in Users, Provision(u)
  PROVE  Keeps /\ HomeAgrees(u)'
<1>1. linux' = linux \cup {u} /\ homes' = homes \cup {u}
  BY NoFailure DEF Provision
<1>2. UNCHANGED <<nemo, calm, db, memberOf, locked>>
  BY DEF Provision
<1>3. \A v \in Users : Nearer(v)
  BY <1>2 DEF Nearer
<1> QED
  BY <1>1, <1>2, <1>3
     DEF Good, Keeps, NamesFree, AccountAgrees, ProjectAgrees, RowAgrees, HomeAgrees,
         LockAgrees, GroupsAgree, Wanted, Reported, Excluded

LEMMA CreateGood ==
  ASSUME TypeOK, Good, NEW r \in Runners, CreateUser(r)
  PROVE  Advances
<1>x. PICK x : x = run[r]
  OBVIOUS
<1>a. /\ RunOK(x) /\ run \in [Runners -> Run] /\ x.pc = "create" /\ x.user \in Users
  BY <1>x, RunType DEF TypeOK, CreateUser, RunOK, Run
<1>k. Keeps /\ HomeAgrees(x.user)'
  BY <1>x, <1>a, ProvisionKeepsAll DEF CreateUser
<1> DEFINE y == [x EXCEPT !.pc = "status"]
<1>4. run' = [run EXCEPT ![r] = y]
  BY <1>x, <1>a DEF CreateUser
<1>5. y.pc = "status" /\ y.todo = x.todo /\ y.got = x.got /\ y.user = x.user
  BY <1>a DEF RunOK, Run
<1> HIDE DEF y
<1>6. PICK z : z = y
  OBVIOUS
<1>8. InOrder(x)' => InOrder(z)'
  BY <1>a, <1>5, <1>6, <1>k
     DEF InOrder, Current, TablesDone, AccountsDealt, MembersDealt, ProjectPCs, UserPCs,
         MemberPCs, Working, UsersOf
<1> QED
  BY <1>4, <1>6, <1>8, <1>x, <1>k, MovesGood DEF Moves

LEMMA StatusGood ==
  ASSUME TypeOK, Good, NEW r \in Runners, SetStatus(r)
  PROVE  Advances
<1>x. PICK x : x = run[r]
  OBVIOUS
<1>a. /\ RunOK(x) /\ InOrder(x) /\ run \in [Runners -> Run] /\ x.pc = "status"
      /\ x.user \in Users /\ x.got.user = nemo.user
      /\ memberOf \in [Users -> SUBSET Projects] /\ nemo \in World
  BY <1>x, RunType DEF Good, TypeOK, SetStatus, RunOK, Run, InOrder, Current, Working, UserPCs
<1>1. nemo.user[x.user] # "absent" => x.user \in linux
  BY <1>a DEF InOrder, AccountsDealt, HomeAgrees
<1>2. /\ \A v \in Users \ {x.user} :
           /\ v \in locked' <=> v \in locked
           /\ memberOf'[v] = memberOf[v]
      /\ UNCHANGED <<nemo, calm, db, linux, homes>>
  BY <1>x, <1>a DEF SetStatus, Result, Good
<1>3. LockAgrees(x.user)'
  <2>1. SUFFICES ASSUME nemo.user[x.user] # "absent", Policy = "lock_account"
                 PROVE  x.user \in locked' <=> nemo.user[x.user] = "inactive"
    BY <1>2 DEF LockAgrees
  <2>2. x.user \in linux /\ nemo.user[x.user] \in {"active", "inactive"}
    BY <1>1, <1>a, <2>1 DEF World, Status
  <2> QED
    BY <1>x, <1>a, <2>1, <2>2, NoFailure DEF SetStatus
<1>4. GroupsAgree(x.user) => GroupsAgree(x.user)'
  <2>1. SUFFICES ASSUME nemo.user[x.user] # "absent", memberOf[x.user] = Wanted(x.user)
                 PROVE  memberOf'[x.user] = Wanted(x.user)
    BY <1>2, <1>a, WantedStays DEF GroupsAgree
  <2>2. CASE nemo.user[x.user] # "active" /\ Policy = "remove_membership_only"
    <3>1. Wanted(x.user) = {}
      BY <2>1, <2>2, <1>a DEF Wanted, Reported, World, Status
    <3>2. memberOf'[x.user] \in {{}, memberOf[x.user]}
      BY <1>x, <1>a DEF SetStatus, Result, Good
    <3> QED
      BY <3>1, <3>2, <2>1
  <2>3. CASE ~(nemo.user[x.user] # "active" /\ Policy = "remove_membership_only")
    BY <2>1, <2>3, <1>x, <1>a DEF SetStatus
  <2> QED
    BY <2>2, <2>3
<1>k. Keeps
  <2>1. \A v \in Users : Nearer(v)
    BY <1>2 DEF Nearer
  <2>2. \A v \in Users : LockAgrees(v) => LockAgrees(v)'
    BY <1>2, <1>3 DEF LockAgrees
  <2>3. \A v \in Users : GroupsAgree(v) => GroupsAgree(v)'
    BY <1>2, <1>4, WantedStays DEF GroupsAgree
  <2> QED
    BY <1>2, <2>1, <2>2, <2>3
       DEF Good, Keeps, NamesFree, AccountAgrees, ProjectAgrees, RowAgrees, HomeAgrees
<1> DEFINE y == [x EXCEPT !.pc = "users"]
<1>5. run' = [run EXCEPT ![r] = y]
  BY <1>x, <1>a DEF SetStatus
<1>6. y.pc = "users" /\ y.todo = x.todo /\ y.got = x.got
  BY <1>a DEF RunOK, Run
<1> HIDE DEF y
<1>7. PICK z : z = y
  OBVIOUS
<1>8. InOrder(x)' => InOrder(z)'
  BY <1>a, <1>3, <1>6, <1>7
     DEF InOrder, Current, TablesDone, AccountsDealt, MembersDealt, ProjectPCs, UserPCs,
         MemberPCs, Working, UsersOf
<1> QED
  BY <1>5, <1>7, <1>8, <1>x, <1>k, MovesGood DEF Moves

-----------------------------------------------------------------------------
(* The memberships.                                                        *)

\* Every run goes by the exclusion rules, or they exclude nothing.
RulesBind == Unruled = {} \/ \A p \in Projects : ~Excluded(p)

\* The rows the exclusion rules are evaluated with are there.
LEMMA FilterWants ==
  ASSUME TypeOK, Good, RulesBind, NEW r \in Runners, NEW u \in Users,
         FilterProjects(r, u), nemo.user[u] # "absent"
  PROVE  {p \in Reported(run[r].got, u) : r \in Unruled \/ ~IdRecognised(p, {})}
           = Wanted(u)
<1>x. PICK x : x = run[r]
  OBVIOUS
<1>a. /\ InOrder(x) /\ x.pc = "members" /\ x.got.user = nemo.user
      /\ x.got.member = nemo.member /\ nemo \in World
  BY <1>x, RunType DEF Good, TypeOK, FilterProjects, InOrder, Current, Working, MemberPCs
<1>1. Reported(x.got, u) = Reported(nemo, u)
  BY <1>a DEF Reported
<1>2. ASSUME NEW p \in Reported(nemo, u)
      PROVE  (r \in Unruled \/ ~IdRecognised(p, {})) <=> ~Excluded(p)
  <2>1. p \in nemo.member[u] /\ p \in Projects
    BY <1>a, <1>2 DEF Reported, World
  <2>2. nemo.project[p] # "absent" /\ nemo.account[AccountOf[p]] # "absent"
    BY <2>1 DEF Good, Coherent
  <2>3. ProjectAgrees(p) /\ AccountAgrees(AccountOf[p])
    BY <1>a, <2>1, SyncAssumption DEF InOrder, TablesDone, MemberPCs
  <2>4. db.project[p] # "absent" /\ db.account[AccountOf[p]] # "absent"
    BY <2>2, <2>3 DEF ProjectAgrees, AccountAgrees
  <2> QED
    BY <2>1, <2>4 DEF IdRecognised, Recognised, Excluded, RulesBind
<1> QED
  BY <1>x, <1>1, <1>2 DEF Wanted

LEMMA FilterGood ==
  ASSUME TypeOK, AllTold, Good, RulesBind, NEW r \in Runners, NEW u \in Users,
         FilterProjects(r, u)
  PROVE  Advances
<1>x. PICK x : x = run[r]
  OBVIOUS
<1>a. /\ RunOK(x) /\ InOrder(x) /\ run \in [Runners -> Run] /\ x.pc = "members"
      /\ u \in x.todo
  BY <1>x, RunType DEF Good, TypeOK, FilterProjects
<1>k. Keeps
  BY NothingWritten DEF FilterProjects, os
<1> DEFINE new == {p \in Reported(x.got, u) : r \in Unruled \/ ~IdRecognised(p, {})}
           y == [x EXCEPT !.pc = "compare", !.user = u, !.todo = @ \ {u}, !.new = new]
<1>1. nemo.user[u] # "absent" => new = Wanted(u)
  BY <1>x, FilterWants
<1>2. run' = [run EXCEPT ![r] = y]
  <2>1. run' = [run EXCEPT ![r].pc = "compare", ![r].user = u, ![r].todo = @ \ {u},
                           ![r].new = new]
    <3>1. PICK missed \in Misses :
            run' = [run EXCEPT ![r].pc = "compare", ![r].user = u, ![r].todo = @ \ {u},
                      ![r].new = {p \in Reported(run[r].got, u) :
                                    r \in Unruled \/ ~IdRecognised(p, missed)}]
      BY DEF FilterProjects
    <3>2. missed = {}
      BY <3>1, NoFailure
    <3> QED
      BY <3>1, <3>2, <1>x
  <2> HIDE DEF new
  <2> QED
    BY <2>1, <1>x, <1>a
<1> HIDE DEF new
<1>3. /\ y.pc = "compare" /\ y.todo = x.todo \ {u} /\ y.got = x.got
      /\ y.user = u /\ y.new = new
  BY <1>a DEF RunOK, Run
<1> HIDE DEF y
<1>4. PICK z : z = y
  OBVIOUS
<1>5. nemo'.user[z.user] # "absent" => z.new = Wanted(z.user)'
  BY <1>1, <1>3, <1>4, <1>k, WantedStays DEF Keeps
<1>6. InOrder(x)' => InOrder(z)'
  BY <1>a, <1>3, <1>4, <1>5
     DEF InOrder, Current, TablesDone, AccountsDealt, MembersDealt, ProjectPCs, UserPCs,
         MemberPCs, Working, MembersOf
<1> QED
  BY <1>2, <1>4, <1>6, <1>x, <1>k, MovesGood DEF Moves

LEMMA CompareGood ==
  ASSUME TypeOK, Good, NEW r \in Runners, CompareProjects(r)
  PROVE  Advances
<1>x. PICK x : x = run[r]
  OBVIOUS
<1>a. /\ RunOK(x) /\ InOrder(x) /\ run \in [Runners -> Run] /\ x.pc = "compare"
  BY <1>x, RunType DEF Good, TypeOK, CompareProjects
<1>k. Keeps
  BY NothingWritten DEF CompareProjects, os
<1> DEFINE y == [x EXCEPT !.pc = "apply", !.add = x.new \ db.member[x.user],
                          !.del = db.member[x.user] \ x.new]
<1>2. run' = [run EXCEPT ![r] = y]
  <2>1. run' = [run EXCEPT ![r].pc = "apply", ![r].add = x.new \ db.member[x.user],
                           ![r].del = db.member[x.user] \ x.new]
    BY <1>x DEF CompareProjects, Outcome, Failing, Good
  <2> QED
    BY <2>1, <1>x, <1>a
<1>3. /\ y.pc = "apply" /\ y.todo = x.todo /\ y.got = x.got
      /\ y.user = x.user /\ y.new = x.new
      /\ y.add = x.new \ db.member[x.user] /\ y.del = db.member[x.user] \ x.new
  BY <1>a DEF RunOK, Run
<1> HIDE DEF y
<1>4. PICK z : z = y
  OBVIOUS
<1>d. UNCHANGED <<nemo, db>>
  BY DEF CompareProjects
<1>5. Mends(z)'
  <2>1. nemo.user[x.user] # "absent" => x.new = Wanted(x.user)
    BY <1>a DEF InOrder, MembersDealt, MemberPCs
  <2> QED
    BY <2>1, <1>3, <1>4, <1>d DEF Mends, Wanted, Reported, Excluded
<1>6. InOrder(x)' => InOrder(z)'
  BY <1>a, <1>3, <1>4, <1>5
     DEF InOrder, Current, TablesDone, AccountsDealt, MembersDealt, ProjectPCs, UserPCs,
         MemberPCs, Working, MembersOf
<1> QED
  BY <1>2, <1>4, <1>6, <1>x, <1>k, MovesGood DEF Moves

\* A membership added is wanted, one removed is not.
LEMMA ApplyGood ==
  ASSUME TypeOK, Good, NEW r \in Runners, NEW p \in Projects,
         AddMembership(r, p) \/ RemoveMembership(r, p)
  PROVE  Advances
<1>x. PICK x : x = run[r]
  OBVIOUS
<1>a. /\ RunOK(x) /\ InOrder(x) /\ run \in [Runners -> Run] /\ x.pc = "apply"
      /\ x.user \in Users /\ db \in World /\ nemo \in World
      /\ x.add \subseteq x.new /\ x.del \cap x.new = {}
  BY <1>x, RunType DEF Good, TypeOK, AddMembership, RemoveMembership, RunOK, Run
<1>n. nemo.user[x.user] # "absent" => x.new = Wanted(x.user)
  BY <1>a DEF InOrder, MembersDealt, MemberPCs
<1>3. UNCHANGED <<nemo, calm, linux, homes, memberOf, locked>>
  BY DEF AddMembership, RemoveMembership, os
<1>w. \A v \in Users : Wanted(v)' = Wanted(v)
  BY <1>3, WantedStays
<1>1. CASE AddMembership(r, p)
  <2>1. p \in x.add
    BY <1>1, <1>x DEF AddMembership
  <2>2. nemo.user[x.user] # "absent" =>
          db.user[x.user] # "absent" /\ db.project[p] # "absent"
    <3> SUFFICES ASSUME nemo.user[x.user] # "absent"
                 PROVE  db.user[x.user] # "absent" /\ db.project[p] # "absent"
      OBVIOUS
    <3>1. RowAgrees(x.user) /\ ProjectAgrees(p)
      BY <1>a DEF InOrder, TablesDone, AccountsDealt, MemberPCs
    <3>2. p \in nemo.member[x.user]
      BY <1>n, <1>a, <2>1 DEF Wanted, Reported
    <3> QED
      BY <3>1, <3>2, <1>a DEF RowAgrees, ProjectAgrees, Good, Coherent, World, Status
  <2>3. \/ db' = [db EXCEPT !.member[x.user] = @ \cup {p}]
        \/ db' = db /\ nemo.user[x.user] = "absent"
    BY <1>1, <1>x, <2>2, NoFailure DEF AddMembership, Commit
  <2>4. /\ db'.account = db.account /\ db'.project = db.project /\ db'.user = db.user
        /\ db'.name = db.name
        /\ \A v \in Users \ {x.user} : db'.member[v] = db.member[v]
        /\ nemo.user[x.user] # "absent" => db'.member[x.user] = db.member[x.user] \cup {p}
    BY <2>3, <1>a DEF World
  <2>5. \A v \in Users : Nearer(v)
    <3>1. nemo.user[x.user] # "absent" => p \in Wanted(x.user)
      BY <1>n, <1>a, <2>1
    <3> QED
      BY <2>4, <3>1 DEF Nearer
  <2>k. Keeps
    BY <1>3, <2>4, <2>5
       DEF Good, Keeps, NamesFree, AccountAgrees, ProjectAgrees, RowAgrees, HomeAgrees,
           LockAgrees, GroupsAgree, Wanted, Reported, Excluded
  <2> DEFINE y == [x EXCEPT !.add = @ \ {p}]
  <2>6. run' = [run EXCEPT ![r] = y]
    BY <1>1, <1>x, <1>a DEF AddMembership
  <2>7. /\ y.pc = "apply" /\ y.todo = x.todo /\ y.got = x.got /\ y.user = x.user
        /\ y.new = x.new /\ y.add = x.add \ {p} /\ y.del = x.del
    BY <1>a DEF RunOK, Run
  <2> HIDE DEF y
  <2>8. PICK z : z = y
    OBVIOUS
  <2>9. Mends(x)' => Mends(z)'
    BY <2>4, <2>7, <2>8, <1>3 DEF Mends
  <2>10. InOrder(x)' => InOrder(z)'
    BY <1>a, <2>7, <2>8, <2>9
       DEF InOrder, Current, TablesDone, AccountsDealt, MembersDealt, ProjectPCs, UserPCs,
           MemberPCs, Working, MembersOf
  <2> QED
    BY <2>6, <2>8, <2>10, <1>x, <2>k, MovesGood DEF Moves
<1>2. CASE RemoveMembership(r, p)
  <2>1. p \in x.del
    BY <1>2, <1>x DEF RemoveMembership
  <2>3. db' = [db EXCEPT !.member[x.user] = @ \ {p}]
    BY <1>2, <1>x, NoFailure DEF RemoveMembership, Commit
  <2>4. /\ db'.account = db.account /\ db'.project = db.project /\ db'.user = db.user
        /\ db'.name = db.name
        /\ \A v \in Users \ {x.user} : db'.member[v] = db.member[v]
        /\ db'.member[x.user] = db.member[x.user] \ {p}
    BY <2>3, <1>a DEF World
  <2>5. \A v \in Users : Nearer(v)
    <3>1. nemo.user[x.user] # "absent" => p \notin Wanted(x.user)
      BY <1>n, <1>a, <2>1
    <3> QED
      BY <2>4, <3>1 DEF Nearer
  <2>k. Keeps
    BY <1>3, <2>4, <2>5
       DEF Good, Keeps, NamesFree, AccountAgrees, ProjectAgrees, RowAgrees, HomeAgrees,
           LockAgrees, GroupsAgree, Wanted, Reported, Excluded
  <2> DEFINE y == [x EXCEPT !.del = @ \ {p}]
  <2>6. run' = [run EXCEPT ![r] = y]
    BY <1>2, <1>x, <1>a DEF RemoveMembership
  <2>7. /\ y.pc = "apply" /\ y.todo = x.todo /\ y.got = x.got /\ y.user = x.user
        /\ y.new = x.new /\ y.add = x.add /\ y.del = x.del \ {p}
    BY <1>a DEF RunOK, Run
  <2> HIDE DEF y
  <2>8. PICK z : z = y
    OBVIOUS
  <2>9. Mends(x)' => Mends(z)'
    BY <2>4, <2>7, <2>8, <1>3 DEF Mends
  <2>10. InOrder(x)' => InOrder(z)'
    BY <1>a, <2>7, <2>8, <2>9
       DEF InOrder, Current, TablesDone, AccountsDealt, MembersDealt, ProjectPCs, UserPCs,
           MemberPCs, Working, MembersOf
  <2> QED
    BY <2>6, <2>8, <2>10, <1>x, <2>k, MovesGood DEF Moves
<1> QED
  BY <1>1, <1>2

LEMMA GroupsGood ==
  ASSUME TypeOK, Good, NEW r \in Runners, SetGroups(r)
  PROVE  Advances
<1>x. PICK x : x = run[r]
  OBVIOUS
<1>a. /\ RunOK(x) /\ InOrder(x) /\ run \in [Runners -> Run] /\ x.pc = "apply"
      /\ x.add = {} /\ x.del = {} /\ x.user \in Users
      /\ memberOf \in [Users -> SUBSET Projects]
  BY <1>x, RunType DEF Good, TypeOK, SetGroups, RunOK, Run
<1>1. UNCHANGED <<nemo, calm, db, linux, homes, locked>>
  BY DEF SetGroups
<1>w. \A v \in Users : Wanted(v)' = Wanted(v)
  BY <1>1, WantedStays
<1>2. /\ \A v \in Users \ {x.user} : memberOf'[v] = memberOf[v]
      /\ x.user \in linux => memberOf'[x.user] = x.new
  <2>1. groups' = groups \cup (IF x.user \in linux THEN x.new ELSE {})
    BY <1>x DEF SetGroups, Good
  <2> QED
    BY <2>1, <1>x, <1>a DEF SetGroups, Result, Good
<1>3. MembersAgree(x.user)' /\ GroupsAgree(x.user)'
  <2>1. SUFFICES ASSUME nemo.user[x.user] # "absent"
                 PROVE  /\ db.member[x.user] = Wanted(x.user)
                        /\ memberOf'[x.user] = Wanted(x.user)
    BY <1>1, <1>w, <1>a DEF MembersAgree, GroupsAgree
  <2>2. x.new = Wanted(x.user) /\ Mends(x) /\ HomeAgrees(x.user)
    BY <1>a, <2>1 DEF InOrder, AccountsDealt, MembersDealt, MemberPCs
  <2> QED
    BY <2>1, <2>2, <1>2, <1>a DEF Mends, HomeAgrees
<1>k. Keeps
  <2>1. \A v \in Users : Nearer(v)
    BY <1>1 DEF Nearer
  <2>2. \A v \in Users : GroupsAgree(v) => GroupsAgree(v)'
    BY <1>1, <1>2, <1>3, <1>w DEF GroupsAgree
  <2> QED
    BY <1>1, <2>1, <2>2
       DEF Good, Keeps, NamesFree, AccountAgrees, ProjectAgrees, RowAgrees, HomeAgrees,
           LockAgrees
<1> DEFINE y == [x EXCEPT !.pc = "members", !.new = {}]
<1>4. run' = [run EXCEPT ![r] = y]
  BY <1>x, <1>a DEF SetGroups
<1>5. y.pc = "members" /\ y.todo = x.todo /\ y.got = x.got
  BY <1>a DEF RunOK, Run
<1> HIDE DEF y
<1>6. PICK z : z = y
  OBVIOUS
<1>7. InOrder(x)' => InOrder(z)'
  BY <1>a, <1>3, <1>5, <1>6
     DEF InOrder, Current, TablesDone, AccountsDealt, MembersDealt, ProjectPCs, UserPCs,
         MemberPCs, Working, MembersOf
<1> QED
  BY <1>4, <1>6, <1>7, <1>x, <1>k, MovesGood DEF Moves

-----------------------------------------------------------------------------
(* All steps.                                                              *)

\* A step that belongs to no run.
LEMMA OutsideGood ==
  ASSUME TypeOK, Good, Keeps, run' = run PROVE Advances
<1>1. \A r \in Runners : InOrder(run[r])'
  <2> SUFFICES ASSUME NEW r \in Runners PROVE InOrder(run[r])'
    OBVIOUS
  <2>1. PICK x : x = run[r]
    OBVIOUS
  <2>2. x.user \in Users /\ InOrder(x)
    BY <2>1 DEF TypeOK, Run, Good
  <2>3. InOrder(x)'
    BY <2>2, OrderKept
  <2>4. run'[r] = x
    BY <2>1
  <2> QED
    BY <2>3, <2>4
<1> QED
  BY <1>1, AgreesKept DEF Advances, Good, Keeps, Coherent

LEMMA NextGood ==
  ASSUME TypeOK, AllTold, Good, RulesBind, [Next]_vars PROVE Advances
<1>1. CASE Change \/ Settle \/ \E r \in Runners : Abort(r)
  BY <1>1, NoFailure DEF Good, Change, Settle, Abort
<1>2. CASE UNCHANGED vars
  BY <1>2, NothingWritten, OutsideGood DEF vars, os
<1>3. ASSUME NEW u \in Users, InitUser(u) PROVE Advances
  BY <1>3, ProvisionKeepsAll, OutsideGood DEF InitUser
<1>4. ASSUME NEW r \in Runners, FetchAccounts(r) \/ Proceed(r) PROVE Advances
  BY <1>4, FetchGood, PhaseGood, AccountGood, ProjectGood, UserGood, CreateGood, StatusGood,
     FilterGood, CompareGood, ApplyGood, GroupsGood DEF Proceed
<1> QED
  BY <1>1, <1>2, <1>3, <1>4 DEF Next

\* Whatever failed, was interrupted or overlapped before: once NEMO is at rest
\* and a run has begun, the first run that comes to its end leaves database and
\* operating system in agreement with NEMO, and no later step of any run
\* disturbs that (run_once).  The runs of the daemon all go by the exclusion
\* rules; those of the script are covered when there are no rules.
THEOREM RunsAgree ==
  ASSUME RulesBind PROVE Spec => RunsReconcile
<1>1. Init => TypeOK /\ AllTold
  BY InitType, InitTold
<1>2. TypeOK /\ AllTold /\ [Next]_vars => (TypeOK /\ AllTold)'
  BY NextType, NextTold
<1>3. Rested => Good
  BY RestedIsGood
<1>4. TypeOK /\ Good /\ Ended => Agrees
  BY EndedAgrees
<1>5. TypeOK /\ AllTold /\ Good /\ [Next]_vars => Good'
  BY NextGood DEF Advances
<1>6. TypeOK /\ AllTold /\ Good /\ Agrees /\ [Next]_vars => Agrees'
  BY NextGood DEF Advances
<1> QED
  BY <1>1, <1>2, <1>3, <1>4, <1>5, <1>6, PTL DEF Spec, RunsReconcile
=============================================================================
