--------------------------- MODULE LabDaemonProofs ---------------------------
(* Theorems about LabDaemon for every value of its constants: types, and   *)
(* what follows when the requests for a tool come in turn (Thorough and    *)
(* NoStacking).                                                            *)
EXTENDS LabDaemon, SequenceTheorems, TLAPS

USE DEF Files, Public, PublicRW, PublicRO, UserFiles, ProjectFiles, UserBase,
        AccountDir

-----------------------------------------------------------------------------
(* The operators the actions are built from.                               *)

Mounts == [Tools -> [Slots -> Seq(Sources)]]

LEMMA Constants ==
  /\ MonIdle.sid \in Sids
  /\ (CHOOSE p \in Projects : TRUE) \in Projects
  /\ Files \in Slots /\ Public \in Slots /\ \A p \in Projects : Group(p) \in Slots
  /\ PublicRW \in Sources /\ PublicRO \in Sources
  /\ \A u \in Users : UserFiles(u) \in Sources
  /\ \A p \in Projects : ProjectFiles(p) \in Sources
<1>1. \E s \in Sids : TRUE
  <2>1. PICK u \in Users, t \in Tools : TRUE
    BY NamesAssumption DEF NamesAssumption
  <2>2. <<u, t>> \in Sids
    BY <2>1 DEF Sids
  <2> QED
    BY <2>2
<1>2. MonIdle.sid \in Sids
  BY <1>1 DEF MonIdle
<1>3. (CHOOSE p \in Projects : TRUE) \in Projects
  BY NamesAssumption DEF NamesAssumption
<1> QED
  BY <1>2, <1>3 DEF Slots, Sources

\* Pushing a source on a stack, popping a stack and replacing its top keep
\* the mount table well formed and change the one stack.
LEMMA PushTable ==
  ASSUME mounts \in Mounts, NEW t \in Tools, NEW k \in Slots, NEW src \in Sources,
         Push(t, k, src)
  PROVE  /\ mounts' \in Mounts
         /\ mounts'[t][k] = <<src>> \o mounts[t][k]
         /\ \A e \in Tools, l \in Slots :
              <<e, l>> # <<t, k>> => mounts'[e][l] = mounts[e][l]
<1>1. <<src>> \o mounts[t][k] \in Seq(Sources)
  BY DEF Mounts
<1> QED
  BY <1>1 DEF Mounts, Push

LEMMA PopTable ==
  ASSUME mounts \in Mounts, NEW t \in Tools, NEW k \in Slots,
         mounts[t][k] # <<>>, Pop(t, k)
  PROVE  /\ mounts' \in Mounts
         /\ mounts'[t][k] = Tail(mounts[t][k])
         /\ \A e \in Tools, l \in Slots :
              <<e, l>> # <<t, k>> => mounts'[e][l] = mounts[e][l]
<1>1. Tail(mounts[t][k]) \in Seq(Sources)
  BY DEF Mounts
<1> QED
  BY <1>1 DEF Mounts, Pop

LEMMA RemountTable ==
  ASSUME mounts \in Mounts, NEW t \in Tools, mounts[t][Public] # <<>>,
         mounts' = [mounts EXCEPT ![t][Public] = <<PublicRO>> \o Tail(@)]
  PROVE  /\ mounts' \in Mounts
         /\ mounts'[t][Public] = <<PublicRO>> \o Tail(mounts[t][Public])
         /\ \A e \in Tools, l \in Slots :
              <<e, l>> # <<t, Public>> => mounts'[e][l] = mounts[e][l]
<1>1. Public \in Slots /\ PublicRO \in Sources
  BY Constants
<1>2. <<PublicRO>> \o Tail(mounts[t][Public]) \in Seq(Sources)
  BY <1>1 DEF Mounts
<1> QED
  BY <1>1, <1>2 DEF Mounts

LEMMA GracefulTable ==
  ASSUME mounts \in Mounts, NEW t \in Tools, NEW k \in Slots, NEW success,
         GracefulUnmount(t, k, success)
  PROVE  /\ mounts' \in Mounts
         /\ \/ mounts' = mounts /\ (success => mounts[t][k] = <<>> \/ ReadCanFail)
            \/ /\ mounts[t][k] # <<>>
               /\ mounts'[t][k] = Tail(mounts[t][k])
               /\ \A e \in Tools, l \in Slots :
                    <<e, l>> # <<t, k>> => mounts'[e][l] = mounts[e][l]
         /\ ~UmountCanFail /\ mounts[t][k] # <<>> => success
BY PopTable DEF GracefulUnmount

-----------------------------------------------------------------------------
(* Type correctness.                                                       *)

LEMMA InitType == Init => TypeOK
<1> SUFFICES ASSUME Init PROVE TypeOK
  OBVIOUS
<1>1. mounts \in [Tools -> [Slots -> Seq(Sources)]]
  BY DEF Init
<1>2. mon \in [pc: {"sleep", "check", "read", "detach", "remove"},
              snap: [Sids -> SUBSET Slots], sid: Sids, points: SUBSET Slots]
  BY Constants DEF Init, MonIdle, NoSnap
<1> QED
  BY <1>1, <1>2 DEF Init, TypeOK

LEMMA NewJobType ==
  ASSUME NEW u \in Users, NEW t \in Tools, NEW p \in Projects,
         NEW known \in BOOLEAN
  PROVE  NewJob(u, t, p, known) \in Job
BY DEF NewJob, Job, NoListing, Listing

LEMMA SyncedType == Synced \subseteq NemoStates
BY DEF Synced

LEMMA MembershipsType ==
  ASSUME NEW n \in NemoStates, NEW u \in Users
  PROVE  Memberships(n, u) \subseteq Projects
BY NemoAssumption DEF NemoAssumption, NemoState, Memberships

LEMMA RequestType ==
  ASSUME TypeOK, NEW w \in Workers, NEW u \in Users, NEW t \in Tools
  PROVE  /\ \A p \in Projects : SendMount(w, u, t, p) => TypeOK'
         /\ \A named \in BOOLEAN : SendUnmount(w, u, t, named) => TypeOK'
<1>1. ASSUME NEW p \in Projects, SendMount(w, u, t, p) PROVE TypeOK'
  <2>1. NewJob(u, t, p, FALSE) \in Job
    BY NewJobType
  <2> QED
    BY <1>1, <2>1 DEF TypeOK, SendMount, Start, store, MountPCs
<1>2. ASSUME NEW named \in BOOLEAN, SendUnmount(w, u, t, named) PROVE TypeOK'
  <2>1. NewJob(u, t, CHOOSE p \in Projects : TRUE, named) \in Job
    BY NewJobType, Constants
  <2> QED
    BY <1>2, <2>1 DEF TypeOK, SendUnmount, Start, store, UnmountPCs
<1> QED
  BY <1>1, <1>2

LEMMA MissType ==
  ASSUME TypeOK, NEW u \in Users, NEW t \in Tools, MissRequest(u, t)
  PROVE  TypeOK'
BY DEF TypeOK, MissRequest, store

\* What TypeOK says of the request threads, and how it survives a step.
ThreadsOK ==
  /\ pc \in [Workers -> {"idle"} \cup MountPCs \cup UnmountPCs]
  /\ job \in [Workers -> Job \cup {NoJob}]
  /\ \A w \in Workers : pc[w] # "idle" => job[w] \in Job

LEMMA DoneType ==
  ASSUME ThreadsOK, NEW w \in Workers, Done(w)
  PROVE  ThreadsOK'
BY DEF ThreadsOK, Done, Goto

LEMMA StepType ==
  ASSUME ThreadsOK, NEW w \in Workers, NEW j \in Job,
         NEW l \in MountPCs \cup UnmountPCs,
         job' = [job EXCEPT ![w] = j], Goto(w, l)
  PROVE  ThreadsOK'
BY DEF ThreadsOK, Goto

LEMMA MoveType ==
  ASSUME ThreadsOK, NEW w \in Workers, job[w] \in Job,
         NEW l \in MountPCs \cup UnmountPCs, Goto(w, l), UNCHANGED job
  PROVE  ThreadsOK'
BY DEF ThreadsOK, Goto

LEMMA JobUpdates ==
  ASSUME NEW j \in Job
  PROVE  /\ \A b \in BOOLEAN : [j EXCEPT !.active = b] \in Job
         /\ \A b \in BOOLEAN : [j EXCEPT !.known = b] \in Job
         /\ \A S \in SUBSET Projects : [j EXCEPT !.todo = S] \in Job
         /\ \A L \in Listing : [j EXCEPT !.live = L] \in Job
         /\ \A L \in Listing, c \in BOOLEAN :
              [j EXCEPT !.live = L, !.blind = c] \in Job
         /\ \A L \in Listing, b \in BOOLEAN, c \in BOOLEAN :
              [j EXCEPT !.live = L, !.ok = b, !.blind = c] \in Job
BY DEF Job

LEMMA ListedType ==
  ASSUME mounts \in Mounts, NEW t \in Tools, NEW S
  PROVE  Listed(t, S) \in Listing
BY DEF Listed, Listing, Mounts

\* What a listing of /proc/mounts and an unmount write into a job.
LEMMA ScanJob ==
  ASSUME TypeOK, NEW w \in Workers, UnmountScan(w)
  PROVE  \E S \in SUBSET (Tools \X Slots), c \in BOOLEAN :
           /\ job' = [job EXCEPT ![w] = [job[w] EXCEPT
                        !.live = Listed(job[w].tool, S), !.blind = c]]
           /\ S = Tools \X Slots \/ (ReadCanFail /\ c)
<1>0. job[w] \in Job
  BY DEF TypeOK, UnmountScan
<1>1. CASE job' = [job EXCEPT ![w].live = Listed(job[w].tool, Tools \X Slots)]
  <2> DEFINE L == Listed(job[w].tool, Tools \X Slots)
  <2> HIDE DEF L
  <2>1. job' = [job EXCEPT ![w] = [job[w] EXCEPT !.live = L]]
    BY <1>1 DEF L
  <2>2. [job[w] EXCEPT !.live = L] = [job[w] EXCEPT !.live = L, !.blind = job[w].blind]
    BY <1>0 DEF Job
  <2>3. job[w].blind \in BOOLEAN
    BY <1>0 DEF Job
  <2> QED
    BY <2>1, <2>2, <2>3 DEF L
<1>2. ASSUME ReadCanFail, NEW S \in SUBSET (Tools \X Slots),
             job' = [job EXCEPT ![w].live = Listed(job[w].tool, S), ![w].blind = TRUE]
      PROVE  job' = [job EXCEPT ![w] = [job[w] EXCEPT
                        !.live = Listed(job[w].tool, S), !.blind = TRUE]]
  <2> DEFINE L == Listed(job[w].tool, S)
  <2> HIDE DEF L
  <2>1. job' = [job EXCEPT ![w].live = L, ![w].blind = TRUE]
    BY <1>2 DEF L
  <2>2. job' = [job EXCEPT ![w] = [job[w] EXCEPT !.live = L, !.blind = TRUE]]
    BY <2>1, <1>0 DEF TypeOK, Job
  <2> QED
    BY <2>2 DEF L
<1> QED
  BY <1>1, <1>2 DEF UnmountScan

Detached(w, e, k, success, L, b, c) ==
  /\ GracefulUnmount(e, k, success)
  /\ job' = [job EXCEPT ![w] = [job[w] EXCEPT !.live = L, !.ok = b, !.blind = c]]
  /\ L = [job[w].live EXCEPT ![e][k] = @ - 1]
  /\ b <=> job[w].ok /\ success
  /\ c <=> \/ job[w].blind
           \/ success /\ mounts[e][k] # <<>> /\ mounts' = mounts

LEMMA DetachJob ==
  ASSUME TypeOK, NEW w \in Workers, NEW e \in Tools, NEW k \in Slots,
         UnmountDetach(w, e, k)
  PROVE  \E success \in BOOLEAN, L \in Listing, b \in BOOLEAN, c \in BOOLEAN :
           Detached(w, e, k, success, L, b, c)
<1>0. job[w] \in Job
  BY DEF TypeOK, UnmountDetach
<1>1. PICK success \in BOOLEAN :
        /\ GracefulUnmount(e, k, success)
        /\ job' = [job EXCEPT
                     ![w].live[e][k] = @ - 1,
                     ![w].ok = @ /\ success,
                     ![w].blind = @ \/ (success /\ mounts[e][k] # <<>> /\ mounts' = mounts)]
  BY DEF UnmountDetach
<1> DEFINE L == [job[w].live EXCEPT ![e][k] = @ - 1]
           b == (job[w].ok /\ success)
           c == \/ job[w].blind
                \/ success /\ mounts[e][k] # <<>> /\ mounts' = mounts
<1>2. L \in Listing
  BY <1>0 DEF UnmountDetach, Job, Listing
<1>3. b \in BOOLEAN /\ c \in BOOLEAN
  OBVIOUS
<1>4. job' = [job EXCEPT ![w] = [job[w] EXCEPT !.live = L, !.ok = b, !.blind = c]]
  BY <1>0, <1>1 DEF TypeOK, Job
<1> HIDE DEF L
<1>5. L = [job[w].live EXCEPT ![e][k] = @ - 1]
  BY DEF L
<1> QED
  BY <1>1, <1>2, <1>3, <1>4, <1>5 DEF Detached

LEMMA MountType ==
  ASSUME TypeOK, NEW w \in Workers, MountStep(w)
  PROVE  TypeOK'
<1> USE DEF MountPCs
<1>0. pc[w] # "idle" /\ job[w] \in Job
  BY DEF TypeOK, MountStep, MountUser, MountAdmit, MountFiles, MountBindFiles,
         MountGroup, MountBindGroup, MountPublic, MountBindPublic,
         MountRemount, MountSave
<1> DEFINE t == job[w].tool
           u == job[w].user
<1>t. t \in Tools /\ u \in Users /\ job[w].project \in Projects
  BY <1>0 DEF Job
<1>m. mounts \in Mounts
  BY DEF TypeOK, Mounts
<1>j. ThreadsOK
  BY DEF TypeOK, ThreadsOK
<1>1. CASE MountUser(w)
  <2>1. db' \in NemoStates
    BY <1>1, SyncedType DEF MountUser, TypeOK
  <2>2. ASSUME db'.users[u] = "absent" PROVE ThreadsOK'
    BY <1>1, <1>j, <2>2, DoneType DEF MountUser
  <2>3. ASSUME db'.users[u] # "absent" PROVE ThreadsOK'
    <3> DEFINE b == (db'.users[u] = "active")
    <3>1. b \in BOOLEAN
      OBVIOUS
    <3>2. job' = [job EXCEPT ![w] = [job[w] EXCEPT !.active = b]]
      BY <1>1, <2>3 DEF MountUser
    <3>3. Goto(w, "m_admit")
      BY <1>1, <2>3 DEF MountUser
    <3> HIDE DEF b
    <3>4. [job[w] EXCEPT !.active = b] \in Job
      BY <1>0, <3>1, JobUpdates
    <3> QED
      BY <1>j, <3>2, <3>3, <3>4, StepType
  <2>4. ThreadsOK'
    BY <2>2, <2>3
  <2> QED
    BY <1>1, <2>1, <2>4 DEF MountUser, TypeOK, ThreadsOK, clients
<1>2. CASE MountAdmit(w)
  <2>1. db' \in NemoStates
    BY <1>2, SyncedType DEF MountAdmit, TypeOK
  <2>2. Memberships(db', u) \subseteq Projects
    BY <2>1, <1>t, MembershipsType
  <2>3. ASSUME ~job[w].active \/ db'.groups[job[w].project] = "inactive"
        PROVE  ThreadsOK'
    BY <1>2, <1>j, <2>3, DoneType DEF MountAdmit
  <2>4. ASSUME ~(~job[w].active \/ db'.groups[job[w].project] = "inactive")
        PROVE  ThreadsOK'
    <3> DEFINE S == IF BindGroups THEN Memberships(db', u) \ Excluded ELSE {}
    <3>1. S \in SUBSET Projects
      BY <2>2
    <3>2. job' = [job EXCEPT ![w] = [job[w] EXCEPT !.todo = S]]
      BY <1>2, <2>4 DEF MountAdmit
    <3>3. Goto(w, "m_files")
      BY <1>2, <2>4 DEF MountAdmit
    <3> HIDE DEF S
    <3>4. [job[w] EXCEPT !.todo = S] \in Job
      BY <1>0, <3>1, JobUpdates
    <3> QED
      BY <1>j, <3>2, <3>3, <3>4, StepType
  <2>5. ThreadsOK'
    BY <2>3, <2>4
  <2> QED
    BY <1>2, <2>1, <2>5 DEF MountAdmit, TypeOK, ThreadsOK, clients
<1>3. CASE MountFiles(w)
  <2>1. ThreadsOK'
    BY <1>3, <1>0, <1>j, MoveType DEF MountFiles
  <2> QED
    BY <1>3, <1>t, <2>1 DEF MountFiles, TypeOK, ThreadsOK, clients, AclPaths
<1>4. CASE MountBindFiles(w)
  <2>1. mounts' \in Mounts
    BY <1>4, <1>t, <1>m, PushTable, Constants DEF MountBindFiles
  <2> QED
    BY <1>4, <2>1 DEF MountBindFiles, TypeOK, Mounts, Goto, Done, clients
<1>5. ASSUME NEW p \in Projects, MountGroup(w, p) PROVE TypeOK'
  <2>1. acl' \subseteq Tools \X AclPaths
    BY <1>5, <1>t, NamesAssumption
    DEF MountGroup, TypeOK, GroupPaths, AclPaths, NamesAssumption
  <2>2. [job[w] EXCEPT !.todo = @ \ {p}, !.project = p] \in Job
    BY <1>0 DEF Job
  <2>3. job' = [job EXCEPT ![w] = [job[w] EXCEPT !.todo = @ \ {p}, !.project = p]]
    BY <1>5 DEF MountGroup
  <2>4. Goto(w, "m_bind_group") \/ Goto(w, "m_groups")
    BY <1>5 DEF MountGroup
  <2>5. ThreadsOK'
    BY <1>j, <2>2, <2>3, <2>4, StepType
  <2> QED
    BY <1>5, <2>1, <2>5 DEF MountGroup, TypeOK, ThreadsOK, clients
<1>6. CASE MountBindGroup(w)
  <2>1. mounts' \in Mounts
    BY <1>6, <1>t, <1>m, PushTable, Constants DEF MountBindGroup
  <2>2. [job[w] EXCEPT !.bound = @ \cup {Group(job[w].project)}] \in Job
    BY <1>0, <1>t, Constants DEF Job
  <2> QED
    BY <1>6, <2>1, <2>2 DEF MountBindGroup, TypeOK, Mounts, Goto, clients
<1>7. CASE MountPublic(w)
  <2>1. ThreadsOK'
    BY <1>7, <1>0, <1>j, MoveType DEF MountPublic
  <2> QED
    BY <1>7, <1>t, <2>1 DEF MountPublic, TypeOK, ThreadsOK, clients, AclPaths
<1>8. CASE MountBindPublic(w)
  <2>1. mounts' \in Mounts
    BY <1>8, <1>t, <1>m, PushTable, Constants DEF MountBindPublic
  <2> QED
    BY <1>8, <2>1 DEF MountBindPublic, TypeOK, Mounts, Goto, clients
<1>9. CASE MountRemount(w)
  <2>1. mounts' \in Mounts
    BY <1>9, <1>t, <1>m, RemountTable DEF MountRemount
  <2> QED
    BY <1>9, <2>1 DEF MountRemount, TypeOK, Mounts, Goto, clients
<1>10. CASE MountSave(w)
  <2>1. <<u, t>> \in Sids
    BY <1>t DEF Sids
  <2>2. Saved(rows[<<u, t>>], {Files, Public} \cup job[w].bound) \in Row
    BY <2>1, <1>0, Constants DEF TypeOK, Saved, Row, Job
  <2>3. rows' \in [Sids -> Row \cup {NoRow}]
    BY <1>10, <2>1, <2>2 DEF MountSave, TypeOK
  <2> QED
    BY <1>10, <2>3 DEF MountSave, TypeOK, Goto, Done, clients
<1> QED
  BY <1>1, <1>2, <1>3, <1>4, <1>5, <1>6, <1>7, <1>8, <1>9, <1>10 DEF MountStep

LEMMA UnmountType ==
  ASSUME TypeOK, NEW w \in Workers, UnmountStep(w)
  PROVE  TypeOK'
<1> USE DEF UnmountPCs
<1>0. pc[w] # "idle" /\ job[w] \in Job
  BY DEF TypeOK, UnmountStep, UnmountFind, UnmountScan, UnmountDetach,
         UnmountDetached, UnmountRevoke, UnmountRemove
<1> DEFINE t == job[w].tool
           u == job[w].user
<1>t. t \in Tools /\ u \in Users
  BY <1>0 DEF Job
<1>m. mounts \in Mounts
  BY DEF TypeOK, Mounts
<1>j. ThreadsOK
  BY DEF TypeOK, ThreadsOK
<1>1. CASE UnmountFind(w)
  <2>1. ThreadsOK'
    <3> DEFINE b == (job[w].known \/ rows[<<u, t>>] # NoRow)
    <3>1. b \in BOOLEAN
      OBVIOUS
    <3>2. job' = [job EXCEPT ![w] = [job[w] EXCEPT !.known = b]] \/ job' = job
      BY <1>1 DEF UnmountFind
    <3> HIDE DEF b
    <3>3. [job[w] EXCEPT !.known = b] \in Job
      BY <1>0, <3>1, JobUpdates
    <3>4. Goto(w, "u_scan")
      BY <1>1 DEF UnmountFind
    <3>5. CASE job' = [job EXCEPT ![w] = [job[w] EXCEPT !.known = b]]
      BY <1>j, <3>3, <3>4, <3>5, StepType
    <3>6. CASE job' = job
      BY <1>j, <1>0, <3>4, <3>6 DEF ThreadsOK, Goto
    <3> QED
      BY <3>2, <3>5, <3>6
  <2> QED
    BY <1>1, <2>1 DEF UnmountFind, TypeOK, ThreadsOK, store, clients
<1>2. CASE UnmountScan(w)
  <2>1. PICK S \in SUBSET (Tools \X Slots), c \in BOOLEAN :
          /\ job' = [job EXCEPT ![w] = [job[w] EXCEPT
                       !.live = Listed(job[w].tool, S), !.blind = c]]
          /\ S = Tools \X Slots \/ (ReadCanFail /\ c)
    BY <1>2, ScanJob
  <2>2. Listed(t, S) \in Listing
    BY <1>m, <1>t, ListedType
  <2>3. ThreadsOK'
    <3> DEFINE L == Listed(t, S)
    <3>1. L \in Listing /\ job' = [job EXCEPT ![w] = [job[w] EXCEPT !.live = L, !.blind = c]]
      BY <2>1, <2>2
    <3> HIDE DEF L
    <3> QED
      BY <1>2, <1>0, <1>j, <3>1, JobUpdates, StepType DEF UnmountScan
  <2> QED
    BY <1>2, <2>3 DEF UnmountScan, TypeOK, ThreadsOK, store, clients
<1>3. ASSUME NEW e \in Tools, NEW k \in Slots, UnmountDetach(w, e, k)
      PROVE  TypeOK'
  <2>1. PICK success \in BOOLEAN, L \in Listing, b \in BOOLEAN, c \in BOOLEAN :
          Detached(w, e, k, success, L, b, c)
    BY <1>3, DetachJob
  <2>2. mounts' \in Mounts
    BY <1>m, <2>1, GracefulTable DEF Detached
  <2>3. [job[w] EXCEPT !.live = L, !.ok = b, !.blind = c] \in Job
    BY <1>0, <2>1, JobUpdates
  <2>4. ThreadsOK'
    BY <1>3, <1>0, <1>j, <2>1, <2>3 DEF UnmountDetach, Detached, ThreadsOK
  <2> QED
    BY <1>3, <2>2, <2>4 DEF UnmountDetach, TypeOK, ThreadsOK, Mounts, clients
<1>4. CASE UnmountDetached(w)
  BY <1>4, <1>0 DEF UnmountDetached, TypeOK, Goto, store, clients
<1>5. CASE UnmountRevoke(w)
  BY <1>5, <1>0 DEF UnmountRevoke, TypeOK, Goto, clients
<1>6. CASE UnmountRemove(w)
  <2>1. rows' \in [Sids -> Row \cup {NoRow}]
    BY <1>6 DEF UnmountRemove, TypeOK
  <2>2. ThreadsOK'
    BY <1>6, <1>j, DoneType DEF UnmountRemove
  <2> QED
    BY <1>6, <2>1, <2>2 DEF UnmountRemove, TypeOK, ThreadsOK, clients
<1> QED
  BY <1>1, <1>2, <1>3, <1>4, <1>5, <1>6 DEF UnmountStep

LEMMA MonitorType ==
  ASSUME TypeOK, Monitor
  PROVE  TypeOK'
<1>m. mounts \in Mounts
  BY DEF TypeOK, Mounts
<1>i. MonIdle.sid \in Sids
  BY Constants
<1> DEFINE MonOK == [pc: {"sleep", "check", "read", "detach", "remove"},
                     snap: [Sids -> SUBSET Slots], sid: Sids,
                     points: SUBSET Slots]
<1>r. mon \in MonOK
  BY DEF TypeOK
<1>1. CASE MonWake
  <2>1. rows' \in [Sids -> Row \cup {NoRow}]
    BY <1>1 DEF MonWake, TypeOK, Row
  <2>2. [s \in Sids |-> IF rows'[s] # NoRow /\ ~rows'[s].mounted
                          THEN rows'[s].points ELSE {}] \in [Sids -> SUBSET Slots]
    BY <2>1 DEF Row
  <2>3. mon' \in MonOK
    BY <1>1, <1>r, <2>2 DEF MonWake
  <2>4. fresh' \subseteq StorageDirs
    BY <1>1 DEF MonWake, TypeOK
  <2> QED
    BY <1>1, <2>1, <2>3, <2>4 DEF MonWake, TypeOK, clients
<1>2. ASSUME NEW s \in Sids, MonCheck(s) PROVE TypeOK'
  <2>1. mon' \in MonOK
    BY <1>2, <1>r DEF MonCheck
  <2> QED
    BY <1>2, <2>1 DEF MonCheck, TypeOK, store, clients
<1>3. CASE MonRead
  <2>1. mon' \in MonOK
    BY <1>3, <1>r, <1>i DEF MonRead, TypeOK, Row
  <2> QED
    BY <1>3, <2>1 DEF MonRead, TypeOK, store, clients
<1>4. ASSUME NEW k \in Slots, MonDetach(k) PROVE TypeOK'
  <2>1. mon.sid[2] \in Tools
    BY <1>r DEF Sids
  <2>2. mounts' \in Mounts
    BY <1>4, <1>m, <2>1, GracefulTable DEF MonDetach
  <2>3. mon' \in MonOK
    BY <1>4, <1>r DEF MonDetach
  <2> QED
    BY <1>4, <2>2, <2>3 DEF MonDetach, TypeOK, Mounts, clients
<1>5. CASE MonRevoke
  BY <1>5 DEF MonRevoke, TypeOK, clients
<1>6. CASE MonRemove
  <2>1. mon' \in MonOK
    BY <1>6, <1>r, <1>i DEF MonRemove
  <2> QED
    BY <1>6, <2>1 DEF MonRemove, TypeOK, clients
<1>7. CASE MonSleep
  <2>1. mon' \in MonOK
    BY <1>7, <1>i DEF MonSleep, MonIdle, NoSnap
  <2> QED
    BY <1>7, <2>1 DEF MonSleep, TypeOK, store, clients
<1> QED
  BY <1>1, <1>2, <1>3, <1>4, <1>5, <1>6, <1>7 DEF Monitor

LEMMA StartupType ==
  ASSUME TypeOK, Startup \/ Crash
  PROVE  TypeOK'
<1>1. CASE StartupUnmount
  <2>1. \/ \E stuck \in SUBSET (Tools \X Slots) :
             mounts' = [t \in Tools |-> [k \in Slots |->
                          IF <<t, k>> \in stuck THEN mounts[t][k] ELSE <<>>]]
        \/ mounts' = mounts
    BY <1>1 DEF StartupUnmount
  <2>2. mounts' \in Mounts
    <3>1. ASSUME NEW stuck,
                 mounts' = [t \in Tools |-> [k \in Slots |->
                             IF <<t, k>> \in stuck THEN mounts[t][k] ELSE <<>>]]
          PROVE  mounts' \in Mounts
      BY <3>1 DEF TypeOK, Mounts
    <3> QED
      BY <2>1, <3>1 DEF TypeOK, Mounts
  <2> QED
    BY <1>1, <2>2 DEF StartupUnmount, TypeOK, Mounts, clients
<1>2. CASE StartupWipe
  BY <1>2 DEF StartupWipe, TypeOK, StorageDirs, clients
<1>3. CASE StartupClear
  BY <1>3 DEF StartupClear, TypeOK, clients
<1>4. CASE Crash
  <2>1. mon' \in [pc: {"sleep", "check", "read", "detach", "remove"},
                  snap: [Sids -> SUBSET Slots], sid: Sids, points: SUBSET Slots]
    BY <1>4, Constants DEF Crash, MonIdle, NoSnap
  <2> QED
    BY <1>4, <2>1 DEF Crash, TypeOK, store, clients
<1> QED
  BY <1>1, <1>2, <1>3, <1>4 DEF Startup

LEMMA ClientType ==
  ASSUME TypeOK, NEW t \in Tools
  PROVE  /\ \A k \in Slots : ClientWrite(t, k) => TypeOK'
         /\ ClientOpen(t) \/ ClientClose(t) => TypeOK'
<1>1. ASSUME NEW k \in Slots, ClientWrite(t, k) PROVE TypeOK'
  <2>1. Head(mounts[t][k]) \in Sources
    BY <1>1 DEF ClientWrite, TypeOK
  <2> QED
    BY <1>1, <2>1 DEF ClientWrite, TypeOK, StorageDirs, clients
<1>2. ASSUME ClientOpen(t) \/ ClientClose(t) PROVE TypeOK'
  BY <1>2 DEF ClientOpen, ClientClose, TypeOK, store
<1> QED
  BY <1>1, <1>2

LEMMA NextType == TypeOK /\ [Next]_vars => TypeOK'
<1> SUFFICES ASSUME TypeOK, [Next]_vars PROVE TypeOK'
  OBVIOUS
<1>1. CASE Environment
  BY <1>1, RequestType, MissType, ClientType DEF Environment
<1>2. CASE Sync
  BY <1>2, SyncedType DEF Sync, TypeOK, clients
<1>3. ASSUME NEW w \in Workers, MountStep(w) \/ UnmountStep(w) PROVE TypeOK'
  BY <1>3, MountType, UnmountType
<1>4. CASE Monitor
  BY <1>4, MonitorType
<1>5. CASE Crash \/ Startup
  BY <1>5, StartupType
<1>6. CASE UNCHANGED vars
  BY <1>6 DEF vars, store, clients, TypeOK
<1> QED
  BY <1>1, <1>2, <1>3, <1>4, <1>5, <1>6 DEF Next

\* The variables stay in their domains and a busy request thread always has a
\* job, for any users, tools, projects and threads.
THEOREM TypeCorrect == Spec => []TypeOK
<1>1. Init => TypeOK
  BY InitType
<1>2. TypeOK /\ [Next]_vars => TypeOK'
  BY NextType
<1> QED
  BY <1>1, <1>2, PTL DEF Spec

-----------------------------------------------------------------------------
(* Turns.                                                                  *)

\* A thread that serves a tool serves it alone.
Exclusive ==
  \A v, w \in Workers :
    pc[v] # "idle" /\ pc[w] # "idle" /\ job[v].tool = job[w].tool => v = w

\* No thread survives the daemon.
Halted == mode # "up" => \A w \in Workers : pc[w] = "idle"

Bare(t) == \A k \in Slots : mounts[t][k] = <<>>

\* Nothing keeps the thread from knowing what is mounted: no unmount of its
\* own has failed, or none but of what another thread had unmounted, and no
\* read of the mount table.
Sound(w) ==
  /\ job[w].ok \/ ~UmountCanFail
  /\ ~job[w].blind \/ ~ReadCanFail

\* What a thread found out about its tool still holds: a target probed before
\* a bind is free, and every mount of the tool is still to be unmounted.
Informed(w) ==
  LET t == job[w].tool
  IN /\ ~ReadCanFail =>
          /\ pc[w] = "m_bind_files" => mounts[t][Files] = <<>>
          /\ pc[w] = "m_bind_group" => mounts[t][Group(job[w].project)] = <<>>
          /\ pc[w] = "m_bind_public" => mounts[t][Public] = <<>>
     /\ pc[w] = "u_detach" /\ Sound(w) =>
          \A k \in Slots : Len(mounts[t][k]) <= job[w].live[t][k]
     /\ pc[w] \in {"u_revoke", "u_remove"} /\ Sound(w) => Bare(t)

Turns ==
  /\ Exclusive
  /\ Halted
  /\ ~ReadCanFail => NoStacking
  /\ \A w \in Workers : Informed(w)

\* The mounts of tool t only go away, all of a target at once or one by one.
Shrinks(t) ==
  \A k \in Slots : mounts'[t][k] = mounts[t][k] \/ mounts'[t][k] = <<>>
Lessens(t) ==
  \A k \in Slots : Len(mounts'[t][k]) <= Len(mounts[t][k])

-----------------------------------------------------------------------------

LEMMA Lengths ==
  ASSUME mounts \in Mounts, NEW t \in Tools, NEW k \in Slots
  PROVE  /\ Len(mounts[t][k]) \in Nat
         /\ mounts[t][k] = <<>> <=> Len(mounts[t][k]) = 0
BY EmptySeq DEF Mounts

LEMMA ShrinksLessens ==
  ASSUME mounts \in Mounts, mounts' \in Mounts, NEW t \in Tools, Shrinks(t)
  PROVE  Lessens(t)
<1> SUFFICES ASSUME NEW k \in Slots PROVE Len(mounts'[t][k]) <= Len(mounts[t][k])
  BY DEF Lessens
<1>1. Len(mounts[t][k]) \in Nat
  BY Lengths
<1>2. mounts'[t][k] = <<>> => Len(mounts'[t][k]) = 0
  OBVIOUS
<1> QED
  BY <1>1, <1>2 DEF Shrinks

\* Where mounts only go away, what is free stays free.
LEMMA LessensFree ==
  ASSUME mounts \in Mounts, mounts' \in Mounts, NEW t \in Tools, Lessens(t)
  PROVE  \A k \in Slots : mounts[t][k] = <<>> => mounts'[t][k] = <<>>
<1> SUFFICES ASSUME NEW k \in Slots, mounts[t][k] = <<>> PROVE mounts'[t][k] = <<>>
  OBVIOUS
<1>1. Len(mounts[t][k]) = 0 /\ Len(mounts'[t][k]) \in Nat
  BY EmptySeq DEF Mounts
<1>2. Len(mounts'[t][k]) = 0
  BY <1>1 DEF Lessens
<1> QED
  BY <1>2, EmptySeq DEF Mounts

LEMMA ShortStack ==
  ASSUME NEW s \in Seq(Sources), Len(s) <= 1
  PROVE  s # <<>> => Tail(s) = <<>>
<1> SUFFICES ASSUME s # <<>> PROVE Tail(s) = <<>>
  OBVIOUS
<1>1. Tail(s) \in Seq(Sources) /\ Len(Tail(s)) = Len(s) - 1
  BY HeadTailProperties
<1>2. Len(s) \in Nat \ {0}
  BY EmptySeq
<1> QED
  BY <1>1, <1>2, EmptySeq

LEMMA OneSource ==
  ASSUME NEW src \in Sources
  PROVE  /\ <<src>> \o <<>> = <<src>>
         /\ Len(<<src>>) = 1 /\ DOMAIN <<src>> = {1} /\ <<src>>[1] = src
<1>1. <<src>> \in Seq(Sources)
  OBVIOUS
<1> QED
  BY <1>1, ConcatEmptySeq

LEMMA GracefulShrinks ==
  ASSUME ~ReadCanFail, TypeOK, NoStacking, NEW t \in Tools, NEW k \in Slots,
         NEW success, GracefulUnmount(t, k, success)
  PROVE  /\ \A e \in Tools : Shrinks(e)
         /\ success => mounts'[t][k] = <<>>
         /\ \A e \in Tools, l \in Slots :
              <<e, l>> # <<t, k>> => mounts'[e][l] = mounts[e][l]
<1>m. mounts \in Mounts
  BY DEF TypeOK, Mounts
<1>1. mounts[t][k] \in Seq(Sources) /\ Len(mounts[t][k]) <= 1
  BY <1>m DEF Mounts, NoStacking
<1>2. mounts[t][k] # <<>> => Tail(mounts[t][k]) = <<>>
  BY <1>1, ShortStack
<1> QED
  <2>1. \/ mounts' = mounts /\ (success => mounts[t][k] = <<>>)
        \/ /\ mounts'[t][k] = <<>>
           /\ \A e \in Tools, l \in Slots :
                <<e, l>> # <<t, k>> => mounts'[e][l] = mounts[e][l]
    BY <1>m, <1>2, GracefulTable
  <2> QED
    BY <2>1 DEF Shrinks

\* An unmount takes at most one mount away, and one if it tells the truth.
LEMMA GracefulLessens ==
  ASSUME TypeOK, NEW t \in Tools, NEW k \in Slots, NEW success,
         GracefulUnmount(t, k, success)
  PROVE  /\ mounts' \in Mounts
         /\ \A e \in Tools : Lessens(e)
         /\ success /\ mounts[t][k] # <<>> =>
              \/ Len(mounts'[t][k]) = Len(mounts[t][k]) - 1
              \/ ReadCanFail /\ mounts' = mounts
<1>m. mounts \in Mounts
  BY DEF TypeOK, Mounts
<1>1. mounts' \in Mounts
  BY <1>m, GracefulTable
<1>2. CASE mounts' = mounts /\ (success => mounts[t][k] = <<>> \/ ReadCanFail)
  BY <1>m, <1>1, <1>2, Lengths DEF Lessens
<1>3. CASE /\ mounts[t][k] # <<>>
           /\ mounts'[t][k] = Tail(mounts[t][k])
           /\ \A e \in Tools, l \in Slots :
                <<e, l>> # <<t, k>> => mounts'[e][l] = mounts[e][l]
  <2>1. mounts[t][k] \in Seq(Sources)
    BY <1>m DEF Mounts
  <2>2. Len(mounts'[t][k]) = Len(mounts[t][k]) - 1
    BY <1>3, <2>1, HeadTailProperties
  <2>3. ASSUME NEW e \in Tools, NEW l \in Slots
        PROVE  Len(mounts'[e][l]) <= Len(mounts[e][l])
    <3>1. Len(mounts[e][l]) \in Nat
      BY <1>m, Lengths
    <3>2. CASE <<e, l>> = <<t, k>>
      BY <2>2, <3>1, <3>2
    <3>3. CASE <<e, l>> # <<t, k>>
      <4>1. mounts'[e][l] = mounts[e][l]
        BY <1>3, <3>3
      <4> QED
        BY <3>1, <4>1
    <3> QED
      BY <3>2, <3>3
  <2> QED
    BY <1>1, <2>2, <2>3 DEF Lessens
<1> QED
  BY <1>m, <1>2, <1>3, GracefulTable

\* What a thread knows of its tool survives the steps that leave its place and
\* its job alone and only take mounts away.
LEMMA StillInformed ==
  ASSUME TypeOK, mounts' \in Mounts, NEW w \in Workers, Informed(w), pc[w] # "idle",
         pc'[w] = pc[w], job'[w] = job[w], Lessens(job[w].tool)
  PROVE  Informed(w)'
<1>m. mounts \in Mounts
  BY DEF TypeOK, Mounts
<1>0. job[w] \in Job
  BY DEF TypeOK
<1> DEFINE t == job[w].tool
<1>1. t \in Tools /\ job[w].project \in Projects
  BY <1>0 DEF Job
<1>2. \A k \in Slots : mounts[t][k] = <<>> => mounts'[t][k] = <<>>
  BY <1>m, <1>1, LessensFree
<1>3. ASSUME NEW k \in Slots, Len(mounts[t][k]) <= job[w].live[t][k]
      PROVE  Len(mounts'[t][k]) <= job[w].live[t][k]
  <2>1. /\ Len(mounts'[t][k]) <= Len(mounts[t][k])
        /\ Len(mounts[t][k]) \in Nat /\ Len(mounts'[t][k]) \in Nat
    BY <1>m, <1>1, Lengths DEF Lessens, Mounts
  <2>2. job[w].live[t][k] \in Nat
    BY <1>0, <1>1 DEF Job, Listing
  <2> QED
    BY <1>3, <2>1, <2>2
<1>4. Sound(w)' <=> Sound(w)
  BY DEF Sound
<1>5. /\ ~ReadCanFail =>
           /\ pc'[w] = "m_bind_files" => mounts'[t][Files] = <<>>
           /\ pc'[w] = "m_bind_group" => mounts'[t][Group(job[w].project)] = <<>>
           /\ pc'[w] = "m_bind_public" => mounts'[t][Public] = <<>>
  BY <1>1, <1>2, Constants DEF Informed
<1>6. pc'[w] = "u_detach" /\ Sound(w) =>
        \A k \in Slots : Len(mounts'[t][k]) <= job[w].live[t][k]
  BY <1>3 DEF Informed
<1>7. pc'[w] \in {"u_revoke", "u_remove"} /\ Sound(w) =>
        \A k \in Slots : mounts'[t][k] = <<>>
  BY <1>2 DEF Informed, Bare
<1> QED
  BY <1>4, <1>5, <1>6, <1>7 DEF Informed, Bare

LEMMA IdleInformed ==
  ASSUME NEW w \in Workers, pc'[w] = "idle"
  PROVE  Informed(w)'
BY DEF Informed

LEMMA LessensStacking ==
  ASSUME TypeOK, mounts' \in Mounts, ~ReadCanFail => NoStacking,
         \A t \in Tools : Lessens(t)
  PROVE  ~ReadCanFail => NoStacking'
<1> SUFFICES ASSUME NoStacking, NEW t \in Tools, NEW k \in Slots
             PROVE  Len(mounts'[t][k]) <= 1
  BY DEF NoStacking
<1>1. Len(mounts[t][k]) \in Nat /\ Len(mounts'[t][k]) \in Nat
  BY Lengths DEF TypeOK, Mounts
<1> QED
  BY <1>1 DEF NoStacking, Lessens

\* A step that mounts nothing and moves no thread disturbs no thread.
LEMMA StillTurns ==
  ASSUME TypeOK, mounts' \in Mounts, Turns, Halted', UNCHANGED <<pc, job>>,
         \A t \in Tools : Lessens(t)
  PROVE  Turns'
<1>1. Exclusive'
  BY DEF Turns, Exclusive
<1>2. ~ReadCanFail => NoStacking'
  BY LessensStacking DEF Turns
<1>3. ASSUME NEW w \in Workers PROVE Informed(w)'
  <2>1. CASE pc[w] = "idle"
    BY <2>1, IdleInformed
  <2>2. CASE pc[w] # "idle"
    <3>1. job[w].tool \in Tools
      BY <2>2 DEF TypeOK, Job
    <3> QED
      BY <2>2, <3>1, StillInformed DEF Turns
  <2> QED
    BY <2>1, <2>2
<1> QED
  BY <1>1, <1>2, <1>3 DEF Turns

\* A step of thread w that leaves the mounts of other tools, or makes them
\* fewer, disturbs only what w itself knows.
LEMMA OthersTurns ==
  ASSUME TypeOK, mounts' \in Mounts, Turns, NEW w \in Workers, pc[w] # "idle",
         \A v \in Workers \ {w} : pc'[v] = pc[v] /\ job'[v] = job[v],
         pc'[w] # "idle" => job'[w].tool = job[w].tool,
         UNCHANGED mode,
         \A t \in Tools : t # job[w].tool => Lessens(t),
         ~ReadCanFail => NoStacking', Informed(w)'
  PROVE  Turns'
<1>1. Exclusive'
  BY DEF Turns, Exclusive
<1>2. Halted'
  BY DEF Turns, Halted
<1>3. ASSUME NEW v \in Workers \ {w} PROVE Informed(v)'
  <2>1. CASE pc[v] = "idle"
    BY <2>1, IdleInformed
  <2>2. CASE pc[v] # "idle"
    <3>1. job[v].tool \in Tools
      BY <2>2 DEF TypeOK, Job
    <3>2. job[v].tool # job[w].tool
      BY <2>2 DEF Turns, Exclusive
    <3> QED
      BY <2>2, <3>1, <3>2, StillInformed DEF Turns
  <2> QED
    BY <2>1, <2>2
<1> QED
  BY <1>1, <1>2, <1>3 DEF Turns

\* Binding on a free target leaves one mount there.
LEMMA PushFree ==
  ASSUME TypeOK, NoStacking, NEW t \in Tools, NEW k \in Slots,
         NEW src \in Sources, mounts[t][k] = <<>>, Push(t, k, src)
  PROVE  /\ mounts'[t][k] = <<src>>
         /\ \A e \in Tools, l \in Slots :
              <<e, l>> # <<t, k>> => mounts'[e][l] = mounts[e][l]
         /\ \A e \in Tools : e # t => Shrinks(e)
         /\ NoStacking'
<1>m. mounts \in Mounts
  BY DEF TypeOK, Mounts
<1>1. mounts'[t][k] = <<src>> \o <<>>
  <2>1. mounts'[t][k] = <<src>> \o mounts[t][k]
    BY <1>m, PushTable
  <2> QED
    BY <2>1
<1>2. mounts'[t][k] = <<src>> /\ Len(<<src>>) = 1
  BY <1>1, OneSource
<1>3. \A e \in Tools, l \in Slots :
        <<e, l>> # <<t, k>> => mounts'[e][l] = mounts[e][l]
  BY <1>m, PushTable
<1>4. NoStacking'
  <2> SUFFICES ASSUME NEW e \in Tools, NEW l \in Slots
               PROVE  Len(mounts'[e][l]) <= 1
    BY DEF NoStacking
  <2>1. CASE <<e, l>> = <<t, k>>
    BY <2>1, <1>2
  <2>2. CASE <<e, l>> # <<t, k>>
    BY <2>2, <1>3 DEF NoStacking
  <2> QED
    BY <2>1, <2>2
<1> QED
  BY <1>2, <1>3, <1>4 DEF Shrinks

\* Pushing on one target and remounting leave the mounts of other tools alone.
LEMMA PushLessens ==
  ASSUME TypeOK, NEW t \in Tools, NEW k \in Slots, NEW src \in Sources,
         Push(t, k, src)
  PROVE  mounts' \in Mounts /\ \A e \in Tools : e # t => Lessens(e)
<1>m. mounts \in Mounts
  BY DEF TypeOK, Mounts
<1>1. /\ mounts' \in Mounts
      /\ \A e \in Tools, l \in Slots :
           <<e, l>> # <<t, k>> => mounts'[e][l] = mounts[e][l]
  BY <1>m, PushTable
<1> QED
  BY <1>m, <1>1, Lengths DEF Lessens

LEMMA RemountLessens ==
  ASSUME TypeOK, NEW t \in Tools, mounts[t][Public] # <<>>,
         mounts' = [mounts EXCEPT ![t][Public] = <<PublicRO>> \o Tail(@)]
  PROVE  mounts' \in Mounts /\ \A e \in Tools : Lessens(e)
<1>m. mounts \in Mounts
  BY DEF TypeOK, Mounts
<1>1. /\ mounts' \in Mounts
      /\ mounts'[t][Public] = <<PublicRO>> \o Tail(mounts[t][Public])
      /\ \A e \in Tools, l \in Slots :
           <<e, l>> # <<t, Public>> => mounts'[e][l] = mounts[e][l]
  BY <1>m, RemountTable
<1>2. mounts[t][Public] \in Seq(Sources) /\ <<PublicRO>> \in Seq(Sources)
  BY <1>m, Constants DEF Mounts
<1>3. /\ Tail(mounts[t][Public]) \in Seq(Sources)
      /\ Len(Tail(mounts[t][Public])) = Len(mounts[t][Public]) - 1
  BY <1>2, HeadTailProperties
<1>4. Len(mounts'[t][Public]) = 1 + Len(Tail(mounts[t][Public]))
  <2>1. Len(<<PublicRO>> \o Tail(mounts[t][Public]))
          = Len(<<PublicRO>>) + Len(Tail(mounts[t][Public]))
    BY <1>2, <1>3, ConcatProperties
  <2> QED
    BY <1>1, <2>1, OneSource, Constants
<1>5. Len(mounts'[t][Public]) = Len(mounts[t][Public])
  BY <1>m, <1>3, <1>4, Lengths, Constants
<1>6. ASSUME NEW e \in Tools, NEW l \in Slots
      PROVE  Len(mounts'[e][l]) <= Len(mounts[e][l])
  <2>1. Len(mounts[e][l]) \in Nat
    BY <1>m, Lengths
  <2>2. CASE <<e, l>> = <<t, Public>>
    BY <1>5, <2>1, <2>2
  <2>3. CASE <<e, l>> # <<t, Public>>
    <3>1. mounts'[e][l] = mounts[e][l]
      BY <1>1, <2>3
    <3> QED
      BY <2>1, <3>1
  <2> QED
    BY <2>2, <2>3
<1> QED
  BY <1>1, <1>6 DEF Lessens

\* What startup_cleanup leaves mounted when it can read /proc/mounts.
LEMMA StartupTable ==
  ASSUME ~ReadCanFail, StartupUnmount
  PROVE  \E stuck \in (IF UmountCanFail THEN SUBSET (Tools \X Slots) ELSE {{}}) :
           mounts' = [t \in Tools |-> [k \in Slots |->
                        IF <<t, k>> \in stuck THEN mounts[t][k] ELSE <<>>]]
BY DEF StartupUnmount

LEMMA SameLessens ==
  ASSUME TypeOK, UNCHANGED mounts
  PROVE  mounts' \in Mounts /\ \A t \in Tools : Lessens(t)
<1>m. mounts \in Mounts
  BY DEF TypeOK, Mounts
<1> QED
  BY <1>m, Lengths DEF Lessens

LEMMA MountTurns ==
  ASSUME TypeOK, Turns, NEW w \in Workers, MountStep(w)
  PROVE  Turns'
<1> USE DEF Goto, Done
<1>0. pc[w] # "idle" /\ job[w] \in Job /\ pc \in [Workers -> {"idle"} \cup MountPCs \cup UnmountPCs]
      /\ job \in [Workers -> Job \cup {NoJob}]
  BY DEF TypeOK, MountStep, MountUser, MountAdmit, MountFiles, MountBindFiles,
         MountGroup, MountBindGroup, MountPublic, MountBindPublic,
         MountRemount, MountSave
<1> DEFINE t == job[w].tool
<1>t. t \in Tools /\ job[w].user \in Users /\ job[w].project \in Projects
  BY <1>0 DEF Job
<1>n. (~ReadCanFail => NoStacking) /\ Informed(w)
  BY DEF Turns
<1>s. ASSUME UNCHANGED mounts
      PROVE  /\ mounts' \in Mounts
             /\ ~ReadCanFail => NoStacking'
             /\ \A e \in Tools : Lessens(e)
  BY <1>n, <1>s, SameLessens DEF NoStacking
<1>1. CASE MountUser(w)
  <2>1. pc'[w] \in {"idle", "m_admit"} /\ (pc'[w] # "idle" => job'[w].tool = t)
    <3>1. CASE db'.users[job[w].user] = "absent"
      BY <1>0, <1>1, <3>1 DEF MountUser
    <3>2. CASE db'.users[job[w].user] # "absent"
      <4> DEFINE b == (db'.users[job[w].user] = "active")
      <4>1. job' = [job EXCEPT ![w] = [job[w] EXCEPT !.active = b]]
            /\ pc' = [pc EXCEPT ![w] = "m_admit"]
        BY <1>1, <3>2 DEF MountUser
      <4> HIDE DEF b
      <4> QED
        BY <1>0, <4>1 DEF Job
    <3> QED
      BY <3>1, <3>2
  <2>2. /\ UNCHANGED <<mode, mounts>>
        /\ \A v \in Workers \ {w} : pc'[v] = pc[v] /\ job'[v] = job[v]
    BY <1>0, <1>1 DEF MountUser
  <2> QED
    BY <1>0, <2>1, <2>2, <1>s, OthersTurns DEF Informed, Sound
<1>2. CASE MountAdmit(w)
  <2>1. pc'[w] \in {"idle", "m_files"} /\ (pc'[w] # "idle" => job'[w].tool = t)
    BY <1>0, <1>2 DEF MountAdmit, Job
  <2>2. /\ UNCHANGED <<mode, mounts>>
        /\ \A v \in Workers \ {w} : pc'[v] = pc[v] /\ job'[v] = job[v]
    BY <1>0, <1>2 DEF MountAdmit
  <2> QED
    BY <1>0, <2>1, <2>2, <1>s, OthersTurns DEF Informed, Sound
<1>3. CASE MountFiles(w)
  BY <1>0, <1>3, <1>s, OthersTurns DEF MountFiles, SeemsFree, Informed
<1>4. CASE MountBindFiles(w)
  <2>1. CASE Push(t, Files, UserFiles(job[w].user)) /\ Goto(w, "m_groups")
             /\ UNCHANGED job
    <3>1. mounts' \in Mounts /\ \A e \in Tools : e # t => Lessens(e)
      BY <1>t, <2>1, Constants, PushLessens
    <3>2. ~ReadCanFail => NoStacking'
      BY <1>t, <1>n, <1>4, <2>1, Constants, PushFree DEF MountBindFiles, Informed
    <3> QED
      BY <1>0, <1>4, <2>1, <3>1, <3>2, OthersTurns DEF MountBindFiles, Informed
  <2>2. CASE Done(w) /\ UNCHANGED mounts
    BY <1>0, <1>4, <2>2, <1>s, OthersTurns DEF MountBindFiles, Informed
  <2> QED
    BY <1>4, <2>1, <2>2 DEF MountBindFiles
<1>5. ASSUME NEW p \in Projects, MountGroup(w, p) PROVE Turns'
  <2>1. job'[w].tool = t /\ job'[w].project = p
    BY <1>0, <1>5 DEF MountGroup, Job
  <2> QED
    BY <1>0, <1>5, <2>1, <1>s, OthersTurns DEF MountGroup, SeemsFree, Informed
<1>6. CASE MountBindGroup(w)
  <2>1. job'[w].tool = t
    BY <1>0, <1>6 DEF MountBindGroup, Job
  <2>2. /\ mounts' \in Mounts
        /\ ~ReadCanFail => NoStacking'
        /\ \A e \in Tools : e # t => Lessens(e)
    <3>1. CASE UNCHANGED mounts
      BY <3>1, <1>s
    <3>2. CASE Push(t, Group(job[w].project), ProjectFiles(job[w].project))
      <4>1. mounts' \in Mounts /\ \A e \in Tools : e # t => Lessens(e)
        BY <1>t, <3>2, Constants, PushLessens
      <4>2. ~ReadCanFail => NoStacking'
        BY <1>t, <1>n, <1>6, <3>2, Constants, PushFree DEF MountBindGroup, Informed
      <4> QED
        BY <4>1, <4>2
    <3> QED
      BY <1>6, <3>1, <3>2 DEF MountBindGroup
  <2>3. /\ pc'[w] = "m_groups" /\ UNCHANGED mode
        /\ \A v \in Workers \ {w} : pc'[v] = pc[v] /\ job'[v] = job[v]
    BY <1>0, <1>6 DEF MountBindGroup
  <2>4. Informed(w)'
    BY <2>3 DEF Informed
  <2> QED
    BY <1>0, <2>1, <2>2, <2>3, <2>4, OthersTurns
<1>7. CASE MountPublic(w)
  BY <1>0, <1>7, <1>s, OthersTurns DEF MountPublic, SeemsFree, Informed
<1>8. CASE MountBindPublic(w)
  <2>1. /\ mounts' \in Mounts
        /\ ~ReadCanFail => NoStacking'
        /\ \A e \in Tools : e # t => Lessens(e)
    <3>1. CASE UNCHANGED mounts
      BY <3>1, <1>s
    <3>2. CASE Push(t, Public, PublicRW)
      <4>1. mounts' \in Mounts /\ \A e \in Tools : e # t => Lessens(e)
        BY <1>t, <3>2, Constants, PushLessens
      <4>2. ~ReadCanFail => NoStacking'
        BY <1>t, <1>n, <1>8, <3>2, Constants, PushFree DEF MountBindPublic, Informed
      <4> QED
        BY <4>1, <4>2
    <3> QED
      BY <1>8, <3>1, <3>2 DEF MountBindPublic
  <2>2. /\ pc'[w] \in {"m_remount", "m_save"} /\ UNCHANGED mode
        /\ job' = job
        /\ \A v \in Workers \ {w} : pc'[v] = pc[v] /\ job'[v] = job[v]
    BY <1>0, <1>8 DEF MountBindPublic
  <2>3. Informed(w)'
    BY <2>2 DEF Informed
  <2> QED
    BY <1>0, <2>1, <2>2, <2>3, OthersTurns
<1>9. CASE MountRemount(w)
  <2>1. /\ mounts' \in Mounts
        /\ ~ReadCanFail => NoStacking'
        /\ \A e \in Tools : e # t => Lessens(e)
    <3>1. CASE UNCHANGED mounts
      BY <3>1, <1>s
    <3>2. CASE /\ mounts[t][Public] # <<>>
               /\ mounts' = [mounts EXCEPT ![t][Public] = <<PublicRO>> \o Tail(@)]
      BY <1>t, <1>n, <3>2, RemountLessens, LessensStacking
    <3> QED
      BY <1>9, <3>1, <3>2 DEF MountRemount
  <2>2. /\ pc'[w] = "m_save" /\ UNCHANGED mode
        /\ job' = job
        /\ \A v \in Workers \ {w} : pc'[v] = pc[v] /\ job'[v] = job[v]
    BY <1>0, <1>9 DEF MountRemount
  <2>3. Informed(w)'
    BY <2>2 DEF Informed
  <2> QED
    BY <1>0, <2>1, <2>2, <2>3, OthersTurns
<1>10. CASE MountSave(w)
  BY <1>0, <1>10, <1>s, OthersTurns DEF MountSave, Informed
<1> QED
  BY <1>1, <1>2, <1>3, <1>4, <1>5, <1>6, <1>7, <1>8, <1>9, <1>10 DEF MountStep

LEMMA UnmountTurns ==
  ASSUME TypeOK, Turns, NEW w \in Workers, UnmountStep(w)
  PROVE  Turns'
<1> USE DEF Goto, Done
<1>0. pc[w] # "idle" /\ job[w] \in Job /\ pc \in [Workers -> {"idle"} \cup MountPCs \cup UnmountPCs]
      /\ job \in [Workers -> Job \cup {NoJob}]
  BY DEF TypeOK, UnmountStep, UnmountFind, UnmountScan, UnmountDetach,
         UnmountDetached, UnmountRevoke, UnmountRemove
<1> DEFINE t == job[w].tool
<1>t. t \in Tools
  BY <1>0 DEF Job
<1>m. mounts \in Mounts
  BY DEF TypeOK, Mounts
<1>n. (~ReadCanFail => NoStacking) /\ Informed(w)
  BY DEF Turns
<1>s. ASSUME UNCHANGED mounts
      PROVE  /\ mounts' \in Mounts
             /\ ~ReadCanFail => NoStacking'
             /\ \A e \in Tools : Lessens(e)
  BY <1>n, <1>s, SameLessens DEF NoStacking
<1>1. CASE UnmountFind(w)
  <2>1. /\ UNCHANGED <<mode, mounts>> /\ pc'[w] = "u_scan"
        /\ \A v \in Workers \ {w} : pc'[v] = pc[v] /\ job'[v] = job[v]
    BY <1>0, <1>1 DEF UnmountFind, store
  <2>2. job'[w].tool = t
    <3> DEFINE b == (job[w].known \/ rows[<<job[w].user, job[w].tool>>] # NoRow)
    <3>1. job' = [job EXCEPT ![w] = [job[w] EXCEPT !.known = b]] \/ job' = job
      BY <1>1 DEF UnmountFind
    <3> HIDE DEF b
    <3> QED
      BY <1>0, <3>1 DEF Job
  <2> QED
    BY <1>0, <2>1, <2>2, <1>s, OthersTurns DEF Informed, Sound
<1>2. CASE UnmountScan(w)
  <2>1. PICK S \in SUBSET (Tools \X Slots), c \in BOOLEAN :
          /\ job' = [job EXCEPT ![w] = [job[w] EXCEPT
                       !.live = Listed(job[w].tool, S), !.blind = c]]
          /\ S = Tools \X Slots \/ (ReadCanFail /\ c)
    BY <1>2, ScanJob
  <2>2. S = Tools \X Slots => \A k \in Slots : Listed(t, S)[t][k] = Len(mounts[t][k])
    BY <1>t, ReflexiveAssumption DEF ReflexiveAssumption, Listed
  <2>3. /\ job'[w].tool = t /\ job'[w].live = Listed(t, S) /\ job'[w].blind = c
        /\ \A v \in Workers \ {w} : job'[v] = job[v]
    <3> DEFINE L == Listed(t, S)
    <3>1. job' = [job EXCEPT ![w] = [job[w] EXCEPT !.live = L, !.blind = c]]
      BY <2>1
    <3> HIDE DEF L
    <3>2. job'[w].tool = t /\ job'[w].live = L /\ job'[w].blind = c
      BY <1>0, <3>1 DEF Job
    <3> QED
      BY <1>0, <3>1, <3>2 DEF L
  <2>4. /\ UNCHANGED <<mode, mounts>> /\ pc'[w] = "u_detach"
        /\ \A v \in Workers \ {w} : pc'[v] = pc[v]
    BY <1>0, <1>2 DEF UnmountScan, store
  <2>5. ASSUME Sound(w)', NEW k \in Slots PROVE Len(mounts'[t][k]) <= job'[w].live[t][k]
    <3>1. S = Tools \X Slots
      BY <2>1, <2>3, <2>5 DEF Sound
    <3> QED
      <4>1. Len(mounts'[t][k]) = Len(mounts[t][k]) /\ Len(mounts[t][k]) \in Nat
        BY <1>m, <1>t, <2>4, Lengths
      <4>2. job'[w].live[t][k] = Len(mounts[t][k])
        BY <2>2, <2>3, <3>1
      <4> QED
        BY <4>1, <4>2
  <2>6. Informed(w)'
    BY <2>3, <2>4, <2>5 DEF Informed
  <2> QED
    BY <1>0, <2>3, <2>4, <2>6, <1>s, OthersTurns
<1>3. ASSUME NEW e \in Tools, NEW k \in Slots, UnmountDetach(w, e, k)
      PROVE  Turns'
  <2>1. PICK success \in BOOLEAN, L \in Listing, b \in BOOLEAN, c \in BOOLEAN :
          Detached(w, e, k, success, L, b, c)
    BY <1>3, DetachJob
  <2>2. /\ mounts' \in Mounts /\ \A f \in Tools : Lessens(f)
        /\ success /\ mounts[e][k] # <<>> =>
             \/ Len(mounts'[e][k]) = Len(mounts[e][k]) - 1
             \/ ReadCanFail /\ mounts' = mounts
    BY <2>1, GracefulLessens DEF Detached
  <2>3. ~ReadCanFail => NoStacking'
    BY <1>n, <2>2, LessensStacking
  <2>4. /\ job'[w].tool = t /\ job'[w].live = L /\ job'[w].ok = b /\ job'[w].blind = c
        /\ \A v \in Workers \ {w} : job'[v] = job[v]
    BY <1>0, <2>1 DEF Detached, Job
  <2>5. /\ UNCHANGED mode /\ pc[w] = "u_detach" /\ pc'[w] = "u_detach"
        /\ \A v \in Workers \ {w} : pc'[v] = pc[v]
        /\ job[w].live[e][k] > 0
    BY <1>0, <1>3 DEF UnmountDetach
  <2>6. Sound(w)' => Sound(w) /\ (success \/ mounts[e][k] = <<>>)
    <3>1. ~UmountCanFail /\ mounts[e][k] # <<>> => success
      BY <1>m, <2>1, GracefulTable DEF Detached
    <3> QED
      BY <2>1, <2>4, <3>1 DEF Sound, Detached
  <2>7. Sound(w)' /\ mounts[e][k] # <<>> =>
          Len(mounts'[e][k]) = Len(mounts[e][k]) - 1
    BY <2>1, <2>2, <2>4, <2>6 DEF Sound, Detached
  <2>8. job[w].live \in [Tools -> [Slots -> Nat]]
    BY <1>0 DEF Job, Listing
  <2>9. ASSUME Sound(w)', NEW l \in Slots
        PROVE  Len(mounts'[t][l]) <= L[t][l]
    <3>1. /\ Len(mounts[t][l]) <= job[w].live[t][l] /\ job[w].live[t][l] \in Nat
          /\ Len(mounts[t][l]) \in Nat /\ Len(mounts'[t][l]) \in Nat
          /\ Len(mounts'[t][l]) <= Len(mounts[t][l])
          /\ mounts[t][l] = <<>> => Len(mounts[t][l]) = 0
      <4>1. Len(mounts[t][l]) <= job[w].live[t][l]
        BY <1>n, <2>5, <2>6, <2>9 DEF Informed
      <4>2. job[w].live[t][l] \in Nat
        BY <1>t, <2>8
      <4>3. /\ Len(mounts[t][l]) \in Nat
            /\ mounts[t][l] = <<>> => Len(mounts[t][l]) = 0
        BY <1>m, <1>t, Lengths
      <4>4. Len(mounts'[t][l]) \in Nat
        BY <1>t, <2>2 DEF Mounts
      <4>5. Len(mounts'[t][l]) <= Len(mounts[t][l])
        BY <1>t, <2>2 DEF Lessens
      <4> QED
        BY <4>1, <4>2, <4>3, <4>4, <4>5
    <3>2. CASE <<t, l>> = <<e, k>>
      <4>1. L[t][l] = job[w].live[t][l] - 1
        BY <1>t, <2>1, <2>8, <3>2 DEF Detached
      <4>2. job[w].live[t][l] > 0
        BY <2>5, <3>2
      <4>3. mounts[t][l] # <<>> => Len(mounts'[t][l]) = Len(mounts[t][l]) - 1
        BY <2>7, <2>9, <3>2
      <4> QED
        BY <3>1, <4>1, <4>2, <4>3
    <3>3. CASE <<t, l>> # <<e, k>>
      <4>1. L[t][l] = job[w].live[t][l]
        BY <1>t, <2>1, <2>8, <3>3 DEF Detached
      <4> QED
        BY <3>1, <4>1
    <3> QED
      BY <3>2, <3>3
  <2>10. Informed(w)'
    BY <2>4, <2>5, <2>9 DEF Informed
  <2> QED
    BY <1>0, <2>2, <2>3, <2>4, <2>5, <2>10, OthersTurns
<1>4. CASE UnmountDetached(w)
  <2>1. /\ UNCHANGED <<mode, mounts, job>> /\ pc[w] = "u_detach" /\ pc'[w] = "u_revoke"
        /\ \A v \in Workers \ {w} : pc'[v] = pc[v] /\ job'[v] = job[v]
    BY <1>0, <1>4 DEF UnmountDetached, store
  <2>2. \A k \in Slots : job[w].live[t][k] = 0
    BY <1>4, <1>t DEF UnmountDetached, NoListing
  <2>3. Sound(w) => \A k \in Slots : mounts[t][k] = <<>>
    <3> SUFFICES ASSUME Sound(w), NEW k \in Slots PROVE mounts[t][k] = <<>>
      OBVIOUS
    <3>1. Len(mounts[t][k]) <= 0 /\ Len(mounts[t][k]) \in Nat
      BY <1>m, <1>t, <1>n, <2>1, <2>2, Lengths DEF Informed
    <3> QED
      BY <1>m, <1>t, <3>1, Lengths
  <2>4. Informed(w)'
    BY <2>1, <2>3 DEF Informed, Bare, Sound
  <2> QED
    BY <1>0, <2>1, <2>4, <1>s, OthersTurns
<1>5. CASE UnmountRevoke(w)
  BY <1>0, <1>5, <1>n, <1>s, OthersTurns DEF UnmountRevoke, Informed, Bare, Sound
<1>6. CASE UnmountRemove(w)
  BY <1>0, <1>6, <1>s, OthersTurns DEF UnmountRemove, Informed, Sound
<1> QED
  BY <1>1, <1>2, <1>3, <1>4, <1>5, <1>6 DEF UnmountStep

LEMMA RequestTurns ==
  ASSUME Orderly, TypeOK, Turns, NEW w \in Workers, NEW u \in Users, NEW t \in Tools,
         (\E p \in Projects : SendMount(w, u, t, p))
           \/ \E named \in BOOLEAN : SendUnmount(w, u, t, named)
  PROVE  Turns'
<1>1. /\ UNCHANGED <<mode, mounts>> /\ mode = "up"
      /\ pc'[w] \in {"m_user", "u_find"} /\ job'[w].tool = t
      /\ \A v \in Workers \ {w} : pc'[v] = pc[v] /\ job'[v] = job[v]
  BY DEF TypeOK, SendMount, SendUnmount, Start, NewJob, store
<1>2. \A v \in Workers : pc[v] # "idle" => job[v].tool # t
  BY DEF SendMount, SendUnmount, Turn, Busy
<1>3. Exclusive'
  BY <1>1, <1>2 DEF Turns, Exclusive
<1>4. Halted' /\ (~ReadCanFail => NoStacking')
  BY <1>1 DEF Turns, Halted, NoStacking
<1>5. ASSUME NEW v \in Workers PROVE Informed(v)'
  BY <1>1 DEF Turns, Informed, Sound, Bare
<1> QED
  BY <1>3, <1>4, <1>5 DEF Turns

LEMMA NextTurns ==
  ASSUME Orderly, TypeOK, Turns, [Next]_vars
  PROVE  Turns'
<1>s. ASSUME UNCHANGED mounts
      PROVE  mounts' \in Mounts /\ \A t \in Tools : Lessens(t)
  BY <1>s, SameLessens
<1>1. CASE Environment
  <2>1. ASSUME NEW u \in Users, NEW t \in Tools, MissRequest(u, t) PROVE Turns'
    BY <2>1, <1>s, StillTurns DEF MissRequest, store, Turns, Halted
  <2>2. ASSUME NEW t \in Tools,
               \/ ClientOpen(t) \/ ClientClose(t) \/ \E k \in Slots : ClientWrite(t, k)
        PROVE  Turns'
    BY <2>2, <1>s, StillTurns
    DEF ClientOpen, ClientClose, ClientWrite, store, Turns, Halted
  <2> QED
    BY <1>1, <2>1, <2>2, RequestTurns DEF Environment
<1>2. CASE Sync
  BY <1>2, <1>s, StillTurns DEF Sync, Turns, Halted
<1>3. ASSUME NEW w \in Workers, MountStep(w) \/ UnmountStep(w) PROVE Turns'
  BY <1>3, MountTurns, UnmountTurns
<1>4. CASE Monitor
  <2>1. UNCHANGED <<mode, pc, job>>
    BY <1>4 DEF Monitor, MonWake, MonCheck, MonRead, MonDetach, MonRevoke,
                MonRemove, MonSleep
  <2>2. mounts' \in Mounts /\ \A t \in Tools : Lessens(t)
    <3>1. ASSUME NEW k \in Slots, MonDetach(k)
          PROVE  mounts' \in Mounts /\ \A t \in Tools : Lessens(t)
      <4>1. mon.sid[2] \in Tools
        BY DEF TypeOK, Sids
      <4> QED
        BY <3>1, <4>1, GracefulLessens DEF MonDetach
    <3>2. CASE ~\E k \in Slots : MonDetach(k)
      BY <1>4, <3>2, <1>s DEF Monitor, MonWake, MonCheck, MonRead, MonRevoke,
                              MonRemove, MonSleep, store
    <3> QED
      BY <3>1, <3>2
  <2> QED
    BY <2>1, <2>2, StillTurns DEF Turns, Halted
<1>5. CASE Crash
  <2>1. \A w \in Workers : pc'[w] = "idle"
    BY <1>5 DEF Crash
  <2> QED
    BY <1>5, <2>1 DEF Crash, store, Turns, Exclusive, Halted, NoStacking, Informed
<1>6. CASE StartupUnmount
  <2>1. TypeOK'
    BY <1>6, StartupType DEF Startup
  <2>2. mounts \in Mounts /\ mounts' \in Mounts
    BY <2>1 DEF TypeOK, Mounts
  <2>3. \A t \in Tools : Shrinks(t)
    <3>1. CASE UNCHANGED mounts
      BY <3>1 DEF Shrinks
    <3>2. CASE \E stuck \in (IF UmountCanFail THEN SUBSET (Tools \X Slots) ELSE {{}}) :
                 mounts' = [t \in Tools |-> [k \in Slots |->
                              IF <<t, k>> \in stuck THEN mounts[t][k] ELSE <<>>]]
      <4>1. PICK stuck \in SUBSET (Tools \X Slots) :
              mounts' = [t \in Tools |-> [k \in Slots |->
                           IF <<t, k>> \in stuck THEN mounts[t][k] ELSE <<>>]]
        BY <3>2
      <4> QED
        BY <4>1 DEF Shrinks
    <3> QED
      BY <1>6, <3>1, <3>2 DEF StartupUnmount
  <2>4. \A t \in Tools : Lessens(t)
    BY <2>2, <2>3, ShrinksLessens
  <2> QED
    BY <1>6, <2>2, <2>4, StillTurns DEF StartupUnmount, Turns, Halted
<1>7. CASE StartupWipe \/ StartupClear
  BY <1>7, <1>s, StillTurns DEF StartupWipe, StartupClear, Turns, Halted
<1>8. CASE UNCHANGED vars
  BY <1>8, <1>s, StillTurns DEF vars, store, Turns, Halted
<1> QED
  BY <1>1, <1>2, <1>3, <1>4, <1>5, <1>6, <1>7, <1>8 DEF Next, Startup

LEMMA InitTurns == Init => Turns
<1> SUFFICES ASSUME Init PROVE Turns
  OBVIOUS
<1>1. NoStacking
  BY DEF Init, NoStacking
<1> QED
  BY <1>1 DEF Init, Turns, Exclusive, Halted, Informed

\* The inductive invariant: one thread serves a tool, and what it found out
\* about the tool is still so.
THEOREM TurnsInvariant == ASSUME Orderly PROVE Spec => [](TypeOK /\ Turns)
<1>1. Init => TypeOK /\ Turns
  BY InitType, InitTurns
<1>2. TypeOK /\ Turns /\ [Next]_vars => (TypeOK /\ Turns)'
  BY NextType, NextTurns
<1> QED
  BY <1>1, <1>2, PTL DEF Spec

\* handle_unmount reports success only if it left the tool bare or could not
\* read the mount table itself, whatever else fails (unmounts, mounts, the
\* database, the reads of earlier requests), whatever the idle monitor does and
\* crashes interrupt.
THEOREM UnmountIsThorough == ASSUME Orderly PROVE Spec => []Thorough
<1>1. TypeOK /\ Turns => Thorough
  BY DEF Turns, Informed, Sound, Bare, Thorough
<1> QED
  BY <1>1, TurnsInvariant, PTL

\* No target is bound twice, however often requests are repeated, as long as
\* the mount table can be read.
THEOREM TargetsBoundOnce ==
  ASSUME Orderly, ~ReadCanFail PROVE Spec => []NoStacking
<1>1. TypeOK /\ Turns => NoStacking
  BY DEF Turns
<1> QED
  BY <1>1, TurnsInvariant, PTL

-----------------------------------------------------------------------------
(* Reconciliation as the daemon sees it.                                   *)

Tables == INSTANCE NemoTables WITH users <- db.users, groups <- db.groups,
                                   member <- db.member,
                                   Reportable <- Users \X Projects

\* Sync allows every change of the tables that NemoTables allows, so what holds
\* of the daemon holds between the transactions of a reconciliation, too.
LEMMA TablesAreSync ==
  ASSUME TypeOK, mode = "up", Tables!Next, db' \in NemoStates,
         UNCHANGED <<mode, rows, mounts, acl, erased, fresh, clients, pc, job, mon>>
  PROVE  Sync
<1>0. db \in NemoState /\ db' \in NemoState
  BY NemoAssumption DEF TypeOK
<1>1. ASSUME NEW row \in Tables!Row, NEW u \in Users, Tables!SetUser(u, row)
      PROVE  db' \in Synced
  BY <1>0, <1>1 DEF Tables!SetUser, Tables!Row, Synced, NemoState
<1>2. ASSUME NEW row \in Tables!Row, NEW p \in Projects, Tables!SetProject(p, row)
      PROVE  db' \in Synced
  BY <1>0, <1>2 DEF Tables!SetProject, Tables!Row, Synced, NemoState
<1>3. ASSUME NEW row \in Tables!Row, NEW P \in SUBSET Projects, Tables!SetProjects(P, row)
      PROVE  db' \in Synced
  BY <1>0, <1>3 DEF Tables!SetProjects, Tables!Row, Synced, NemoState
<1>4. ASSUME NEW u \in Users, NEW p \in Projects, Tables!Join(u, p) \/ Tables!Leave(u, p)
      PROVE  db' \in Synced
  BY <1>0, <1>4 DEF Tables!Join, Tables!Leave, Synced, NemoState
<1>5. db' \in Synced
  BY <1>1, <1>2, <1>3, <1>4 DEF Tables!Next
<1> QED
  BY <1>5 DEF Sync
==============================================================================
