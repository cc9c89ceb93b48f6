--------------------------- MODULE LabDaemonStorage ---------------------------
(* Proofs about the storage of LabDaemon: project folders that are visible  *)
(* are backed by ACL entries, startup erases nothing, and the public        *)
(* directory is read-only.                                                  *)
EXTENDS LabDaemonProofs

Entries(t, p) == {t} \X GroupPaths({p}) \subseteq acl

Shows(t, p) == \E k \in Slots : \E i \in DOMAIN mounts[t][k] :
                 mounts[t][k][i] = ProjectFiles(p)

\* A project about to be bound has its entries.
Prepared(w) ==
  pc[w] = "m_bind_group" => Entries(job[w].tool, job[w].project)

Backed == Granted /\ \A w \in Workers : Prepared(w)

LEMMA PathsApart ==
  ASSUME NEW p \in Projects, NEW u \in Users
  PROVE  GroupPaths({p}) \cap {UserBase(u), Public} = {}
<1>1. AccountOf[p] \in Accounts
  BY NamesAssumption DEF NamesAssumption
<1>2. \A a \in Accounts : AccountDir(a) # UserBase(u) /\ AccountDir(a) # Public
  BY DEF AccountDir, UserBase, Public
<1>3. ProjectFiles(p) # UserBase(u) /\ ProjectFiles(p) # Public
  BY DEF ProjectFiles, UserBase, Public
<1> QED
  BY <1>1, <1>2, <1>3 DEF GroupPaths

LEMMA ShrinkShows ==
  ASSUME NEW t \in Tools, NEW p \in Projects, Shrinks(t), Shows(t, p)'
  PROVE  Shows(t, p)
<1>1. PICK k \in Slots : \E i \in DOMAIN mounts'[t][k] :
        mounts'[t][k][i] = ProjectFiles(p)
  BY DEF Shows, ProjectFiles
<1>2. DOMAIN <<>> = {}
  OBVIOUS
<1>3. mounts'[t][k] = mounts[t][k]
  BY <1>1, <1>2 DEF Shrinks
<1> QED
  BY <1>1, <1>3 DEF Shows

LEMMA GrantedEntries ==
  Granted <=> \A t \in Tools, p \in Projects : Shows(t, p) => Entries(t, p)
BY DEF Granted, Shows, Entries

\* What shows after a step showed before or has its entries, and a project
\* that shows keeps its entries.
LEMMA Backs ==
  ASSUME Backed,
         \A t \in Tools, p \in Projects :
           Shows(t, p)' => Entries(t, p)' \/ (Shows(t, p) /\ (Entries(t, p) => Entries(t, p)')),
         \A w \in Workers : Prepared(w)'
  PROVE  Backed'
<1>1. \A t \in Tools, p \in Projects : Shows(t, p)' => Entries(t, p)'
  BY GrantedEntries DEF Backed
<1>2. Granted'
  BY <1>1 DEF Granted, Shows, Entries, GroupPaths, ProjectFiles, AccountDir
<1> QED
  BY <1>2 DEF Backed

\* Steps that mount nothing and revoke no entry of a project.
LEMMA StillBacked ==
  ASSUME TypeOK, Backed, UNCHANGED <<pc, job>>,
         \A t \in Tools : Shrinks(t),
         \A t \in Tools, p \in Projects : Entries(t, p) => Entries(t, p)'
  PROVE  Backed'
<1>1. ASSUME NEW w \in Workers PROVE Prepared(w)'
  <2>1. CASE pc[w] = "m_bind_group"
    <3>1. PICK t \in Tools, p \in Projects :
            job[w].tool = t /\ job[w].project = p
      BY <2>1 DEF TypeOK, Job
    <3>2. Entries(t, p)'
      BY <2>1, <3>1 DEF Backed, Prepared
    <3> QED
      BY <2>1, <3>1, <3>2 DEF Prepared, UnmountPCs, Entries, GroupPaths
  <2>2. CASE pc[w] # "m_bind_group"
    BY <2>2 DEF Backed, Prepared
  <2> QED
    BY <2>1, <2>2
<1> QED
  BY <1>1, ShrinkShows, Backs

\* Granting keeps what the other threads rely on.
LEMMA OthersPrepared ==
  ASSUME TypeOK, Backed, NEW w \in Workers, acl \subseteq acl',
         \A v \in Workers \ {w} : pc'[v] = pc[v] /\ job'[v] = job[v]
  PROVE  /\ \A v \in Workers \ {w} : Prepared(v)'
         /\ \A t \in Tools, p \in Projects : Entries(t, p) => Entries(t, p)'
BY DEF Backed, Prepared, Entries, GroupPaths

\* A bind shows one source more.
LEMMA PushShows ==
  ASSUME TypeOK, NoStacking, NEW t \in Tools, NEW k \in Slots,
         NEW src \in Sources, mounts[t][k] = <<>>, Push(t, k, src),
         NEW e \in Tools, NEW p \in Projects, Shows(e, p)'
  PROVE  Shows(e, p) \/ (e = t /\ src = ProjectFiles(p))
<1>1. mounts'[t][k] = <<src>>
  BY PushFree
<1>2. \A f \in Tools, l \in Slots : <<f, l>> # <<t, k>> => mounts'[f][l] = mounts[f][l]
  BY PushFree
<1>3. DOMAIN <<src>> = {1} /\ <<src>>[1] = src
  BY OneSource
<1>4. PICK l \in Slots : \E i \in DOMAIN mounts'[e][l] :
        mounts'[e][l][i] = ProjectFiles(p)
  BY DEF Shows, ProjectFiles
<1>5. CASE <<e, l>> = <<t, k>>
  BY <1>1, <1>3, <1>4, <1>5
<1>6. CASE <<e, l>> # <<t, k>>
  BY <1>2, <1>4, <1>6 DEF Shows
<1> QED
  BY <1>5, <1>6

LEMMA RemountShows ==
  ASSUME TypeOK, NoStacking, NEW t \in Tools, mounts[t][Public] # <<>>,
         mounts' = [mounts EXCEPT ![t][Public] = <<PublicRO>> \o Tail(@)],
         NEW e \in Tools, NEW p \in Projects, Shows(e, p)'
  PROVE  Shows(e, p)
<1>m. mounts \in Mounts /\ Public \in Slots /\ PublicRO \in Sources
  BY Constants DEF TypeOK, Mounts
<1>1. Tail(mounts[t][Public]) = <<>>
  BY <1>m, ShortStack DEF Mounts, NoStacking
<1>2. mounts'[t][Public] = <<PublicRO>> \o Tail(mounts[t][Public])
  BY <1>m, RemountTable
<1>3. mounts'[t][Public] = <<PublicRO>> \o <<>>
  BY <1>1, <1>2
<1>4. /\ mounts'[t][Public] = <<PublicRO>>
      /\ DOMAIN <<PublicRO>> = {1} /\ <<PublicRO>>[1] = PublicRO
  BY <1>m, <1>3, OneSource
<1>5. \A f \in Tools, l \in Slots :
        <<f, l>> # <<t, Public>> => mounts'[f][l] = mounts[f][l]
  BY <1>m, RemountTable
<1>6. PublicRO # ProjectFiles(p)
  BY DEF PublicRO, ProjectFiles
<1>7. PICK l \in Slots : \E i \in DOMAIN mounts'[e][l] :
        mounts'[e][l][i] = ProjectFiles(p)
  BY DEF Shows, ProjectFiles
<1>8. <<e, l>> # <<t, Public>>
  BY <1>4, <1>6, <1>7
<1> QED
  BY <1>5, <1>7, <1>8 DEF Shows

LEMMA MountBacked ==
  ASSUME ~ReadCanFail, TypeOK, Turns, Backed, NEW w \in Workers, MountStep(w)
  PROVE  Backed'
<1> USE DEF Goto, Done
<1>0. /\ pc[w] \in MountPCs /\ pc[w] # "idle" /\ job[w] \in Job
      /\ pc \in [Workers -> {"idle"} \cup MountPCs \cup UnmountPCs]
      /\ job \in [Workers -> Job \cup {NoJob}]
  BY DEF TypeOK, MountStep, MountUser, MountAdmit, MountFiles, MountBindFiles,
         MountGroup, MountBindGroup, MountPublic, MountBindPublic,
         MountRemount, MountSave, MountPCs
<1>t. PICK t \in Tools : job[w].tool = t
  BY <1>0 DEF Job
<1>u. PICK u \in Users : job[w].user = u
  BY <1>0 DEF Job
<1>n. NoStacking /\ Informed(w)
  BY DEF Turns
<1>v. \A v \in Workers \ {w} : pc'[v] = pc[v] /\ job'[v] = job[v]
  BY <1>0 DEF MountStep, MountUser, MountAdmit, MountFiles, MountBindFiles,
              MountGroup, MountBindGroup, MountPublic, MountBindPublic,
              MountRemount, MountSave
<1>a. acl \subseteq acl'
  BY DEF MountStep, MountUser, MountAdmit, MountFiles, MountBindFiles,
         MountGroup, MountBindGroup, MountPublic, MountBindPublic,
         MountRemount, MountSave
<1>o. /\ \A v \in Workers \ {w} : Prepared(v)'
      /\ \A e \in Tools, p \in Projects : Entries(e, p) => Entries(e, p)'
  BY <1>v, <1>a, OthersPrepared
\* Enough: the thread is prepared and what shows showed before or has its
\* entries.
<1>k. ASSUME pc'[w] \in {"idle", "m_admit", "m_files", "m_bind_files", "m_groups",
                         "m_bind_public", "m_remount", "m_save"},
             \A e \in Tools, p \in Projects :
               Shows(e, p)' => Shows(e, p) \/ Entries(e, p)
      PROVE  Backed'
  <2>1. Prepared(w)'
    BY <1>k DEF Prepared, UnmountPCs
  <2> QED
    BY <1>k, <1>o, <2>1, Backs
<1>s. ASSUME UNCHANGED mounts
      PROVE  \A e \in Tools, p \in Projects : Shows(e, p)' => Shows(e, p)
  BY <1>s DEF Shows, ProjectFiles
<1>1. CASE MountUser(w) \/ MountAdmit(w) \/ MountFiles(w) \/ MountPublic(w)
           \/ MountSave(w)
  <2>1. UNCHANGED mounts
    BY <1>1 DEF MountUser, MountAdmit, MountFiles, MountPublic, MountSave
  <2>2. pc'[w] \in {"idle", "m_admit", "m_files", "m_bind_files", "m_groups",
                    "m_bind_public", "m_save"}
    BY <1>0, <1>1 DEF MountUser, MountAdmit, MountFiles, MountPublic, MountSave
  <2> QED
    BY <1>k, <1>s, <2>1, <2>2
<1>2. CASE MountBindFiles(w)
  <2>1. pc'[w] \in {"idle", "m_groups"}
    BY <1>0, <1>2 DEF MountBindFiles
  <2>2. CASE UNCHANGED mounts
    BY <1>k, <1>s, <2>1, <2>2
  <2>3. CASE Push(t, Files, UserFiles(u))
    <3>1. mounts[t][Files] = <<>>
      BY <1>2, <1>n, <1>t DEF MountBindFiles, Informed
    <3>2. \A p \in Projects : UserFiles(u) # ProjectFiles(p)
      BY DEF UserFiles, ProjectFiles
    <3>3. \A e \in Tools, p \in Projects : Shows(e, p)' => Shows(e, p)
      BY <1>n, <2>3, <3>1, <3>2, Constants, PushShows
    <3> QED
      BY <1>k, <2>1, <3>3
  <2> QED
    BY <1>2, <1>t, <1>u, <2>2, <2>3 DEF MountBindFiles
<1>3. ASSUME NEW p \in Projects, MountGroup(w, p) PROVE Backed'
  <2>1. job'[w].tool = t /\ job'[w].project = p
    BY <1>0, <1>3, <1>t DEF MountGroup, Job
  <2>2. UNCHANGED mounts /\ pc'[w] \in {"m_bind_group", "m_groups"}
    BY <1>0, <1>3 DEF MountGroup
  <2>3. acl' = acl \cup ({t} \X GroupPaths({p}))
    BY <1>3, <1>t DEF MountGroup
  <2>4. Prepared(w)'
    BY <2>1, <2>2, <2>3 DEF Prepared, Entries, UnmountPCs, GroupPaths
  <2> QED
    BY <1>o, <1>s, <2>2, <2>4, Backs
<1>4. CASE MountBindGroup(w)
  <2>1. pc'[w] = "m_groups"
    BY <1>0, <1>4 DEF MountBindGroup
  <2>2. CASE UNCHANGED mounts
    BY <1>k, <1>s, <2>1, <2>2
  <2>3. ASSUME NEW q \in Projects, job[w].project = q,
               Push(t, Group(q), ProjectFiles(q))
        PROVE  Backed'
    <3>1. mounts[t][Group(q)] = <<>>
      BY <1>4, <1>n, <1>t, <2>3 DEF MountBindGroup, Informed
    <3>2. Entries(t, q)
      BY <1>4, <1>t, <2>3 DEF MountBindGroup, Backed, Prepared
    <3>3. \A p \in Projects : ProjectFiles(p) = ProjectFiles(q) => p = q
      BY DEF ProjectFiles
    <3>4. \A e \in Tools, p \in Projects : Shows(e, p)' => Shows(e, p) \/ Entries(e, p)
      <4> SUFFICES ASSUME NEW e \in Tools, NEW p \in Projects, Shows(e, p)'
                   PROVE  Shows(e, p) \/ Entries(e, p)
        OBVIOUS
      <4>1. Shows(e, p) \/ (e = t /\ ProjectFiles(q) = ProjectFiles(p))
        BY <1>n, <2>3, <3>1, Constants, PushShows
      <4> QED
        BY <3>2, <3>3, <4>1
    <3> QED
      BY <1>k, <2>1, <3>4
  <2> QED
    BY <1>0, <1>4, <1>t, <2>2, <2>3 DEF MountBindGroup, Job
<1>5. CASE MountBindPublic(w)
  <2>1. pc'[w] \in {"m_remount", "m_save"}
    BY <1>0, <1>5 DEF MountBindPublic
  <2>2. CASE UNCHANGED mounts
    BY <1>k, <1>s, <2>1, <2>2
  <2>3. CASE Push(t, Public, PublicRW)
    <3>1. mounts[t][Public] = <<>>
      BY <1>5, <1>n, <1>t DEF MountBindPublic, Informed
    <3>2. \A p \in Projects : PublicRW # ProjectFiles(p)
      BY DEF PublicRW, ProjectFiles
    <3>3. \A e \in Tools, p \in Projects : Shows(e, p)' => Shows(e, p)
      BY <1>n, <2>3, <3>1, <3>2, Constants, PushShows
    <3> QED
      BY <1>k, <2>1, <3>3
  <2> QED
    BY <1>5, <1>t, <2>2, <2>3 DEF MountBindPublic
<1>6. CASE MountRemount(w)
  <2>1. pc'[w] = "m_save"
    BY <1>0, <1>6 DEF MountRemount
  <2>2. CASE UNCHANGED mounts
    BY <1>k, <1>s, <2>1, <2>2
  <2>3. CASE /\ mounts[t][Public] # <<>>
             /\ mounts' = [mounts EXCEPT ![t][Public] = <<PublicRO>> \o Tail(@)]
    BY <1>k, <1>n, <2>1, <2>3, RemountShows
  <2> QED
    BY <1>6, <1>t, <2>2, <2>3 DEF MountRemount
<1> QED
  BY <1>1, <1>2, <1>3, <1>4, <1>5, <1>6 DEF MountStep

LEMMA UnmountBacked ==
  ASSUME ~UmountCanFail, ~ReadCanFail, TypeOK, Turns, Backed, NEW w \in Workers,
         UnmountStep(w)
  PROVE  Backed'
<1> USE DEF Goto, Done
<1>0. /\ pc[w] \in UnmountPCs /\ pc[w] # "idle" /\ job[w] \in Job
      /\ pc \in [Workers -> {"idle"} \cup MountPCs \cup UnmountPCs]
      /\ job \in [Workers -> Job \cup {NoJob}]
  BY DEF TypeOK, UnmountStep, UnmountFind, UnmountScan, UnmountDetach,
         UnmountDetached, UnmountRevoke, UnmountRemove, UnmountPCs
<1>t. PICK t \in Tools : job[w].tool = t
  BY <1>0 DEF Job
<1>u. PICK u \in Users : job[w].user = u
  BY <1>0 DEF Job
<1>n. NoStacking /\ Informed(w)
  BY DEF Turns
<1>v. \A v \in Workers \ {w} : pc'[v] = pc[v] /\ job'[v] = job[v]
  BY <1>0 DEF UnmountStep, UnmountFind, UnmountScan, UnmountDetach,
              UnmountDetached, UnmountRevoke, UnmountRemove
<1>s. ASSUME UNCHANGED mounts PROVE \A e \in Tools : Shrinks(e)
  BY <1>s DEF Shrinks
<1>k. ASSUME UNCHANGED acl, pc'[w] # "m_bind_group", \A e \in Tools : Shrinks(e)
      PROVE  Backed'
  <2>1. Prepared(w)'
    BY <1>k DEF Prepared
  <2> QED
    BY <1>v, <1>k, <2>1, OthersPrepared, ShrinkShows, Backs
<1>1. CASE UnmountFind(w)
  <2>1. UNCHANGED <<mounts, acl>> /\ pc'[w] = "u_scan"
    BY <1>0, <1>1 DEF UnmountFind, store
  <2> QED
    BY <1>k, <1>s, <2>1
<1>2. CASE UnmountScan(w)
  <2>1. UNCHANGED <<mounts, acl>> /\ pc'[w] = "u_detach"
    BY <1>0, <1>2 DEF UnmountScan, store
  <2> QED
    BY <1>k, <1>s, <2>1
<1>3. ASSUME NEW e \in Tools, NEW k \in Slots, UnmountDetach(w, e, k)
      PROVE  Backed'
  <2>1. PICK success \in BOOLEAN : GracefulUnmount(e, k, success)
    BY <1>3 DEF UnmountDetach
  <2>2. \A f \in Tools : Shrinks(f)
    <3>1. mounts \in Mounts
      BY DEF TypeOK, Mounts
    <3> QED
      BY <1>n, <2>1, <3>1, GracefulShrinks
  <2>3. pc'[w] = "u_detach" /\ UNCHANGED acl
    BY <1>3 DEF UnmountDetach
  <2> QED
    BY <1>k, <2>2, <2>3
<1>4. CASE UnmountDetached(w) \/ UnmountRemove(w)
  <2>1. UNCHANGED <<mounts, acl>>
    BY <1>4 DEF UnmountDetached, UnmountRemove, store
  <2>2. \/ pc'[w] = "u_revoke" /\ job'[w] = job[w]
        \/ pc'[w] = "idle"
    BY <1>0, <1>4 DEF UnmountDetached, UnmountRemove
  <2> QED
    BY <1>k, <1>s, <2>1, <2>2
\* The entries revoked are those of a tool that is bare and that no other
\* thread serves.
<1>5. CASE UnmountRevoke(w)
  <2>1. UNCHANGED <<mounts, job>> /\ pc'[w] = "u_remove" /\ Bare(t)
    BY <1>0, <1>5, <1>n, <1>t DEF UnmountRevoke, Informed, Sound
  <2>2. \A e \in Tools \ {t}, p \in Projects : Entries(e, p) => Entries(e, p)'
    BY <1>5, <1>t DEF UnmountRevoke, Entries, GroupPaths
  <2>3. Prepared(w)'
    BY <2>1 DEF Prepared
  <2>4. ASSUME NEW v \in Workers \ {w} PROVE Prepared(v)'
    <3>1. ASSUME pc[v] = "m_bind_group"
          PROVE  Entries(job[v].tool, job[v].project)'
      <4>1. PICK e \in Tools, p \in Projects :
              job[v].tool = e /\ job[v].project = p
        BY <3>1 DEF TypeOK, Job
      <4>2. e # t
        BY <1>0, <1>t, <3>1, <4>1 DEF Turns, Exclusive
      <4>3. Entries(e, p)
        BY <3>1, <4>1 DEF Backed, Prepared
      <4>4. Entries(e, p)'
        BY <2>2, <4>2, <4>3
      <4> QED
        BY <1>v, <4>1, <4>4 DEF Entries, GroupPaths
    <3> QED
      BY <1>v, <3>1 DEF Backed, Prepared
  <2>5. ASSUME NEW e \in Tools, NEW p \in Projects, Shows(e, p)'
        PROVE  Shows(e, p) /\ (Entries(e, p) => Entries(e, p)')
    <3>1. Shows(e, p)
      BY <1>s, <2>1, <2>5, ShrinkShows
    <3>2. e # t
      <4>1. DOMAIN <<>> = {}
        OBVIOUS
      <4> QED
        BY <2>1, <3>1, <4>1 DEF Bare, Shows
    <3> QED
      BY <2>2, <3>1, <3>2
  <2> QED
    BY <2>3, <2>4, <2>5, Backs
<1> QED
  BY <1>1, <1>2, <1>3, <1>4, <1>5 DEF UnmountStep

LEMMA RequestBacked ==
  ASSUME TypeOK, Backed, NEW w \in Workers, NEW u \in Users, NEW t \in Tools,
         (\E p \in Projects : SendMount(w, u, t, p))
           \/ \E named \in BOOLEAN : SendUnmount(w, u, t, named)
  PROVE  Backed'
<1>1. /\ UNCHANGED <<mounts, acl>>
      /\ \A v \in Workers \ {w} : pc'[v] = pc[v] /\ job'[v] = job[v]
      /\ pc'[w] # "m_bind_group"
  BY DEF TypeOK, SendMount, SendUnmount, Start, NewJob, store
<1>2. Prepared(w)'
  BY <1>1 DEF Prepared
<1>3. \A e \in Tools : Shrinks(e)
  BY <1>1 DEF Shrinks
<1> QED
  BY <1>1, <1>2, <1>3, OthersPrepared, ShrinkShows, Backs

LEMMA NextBacked ==
  ASSUME ~UmountCanFail, ~ReadCanFail, TypeOK, Turns, Backed, [Next]_vars
  PROVE  Backed'
<1>s. ASSUME UNCHANGED mounts PROVE \A t \in Tools : Shrinks(t)
  BY <1>s DEF Shrinks
<1>a. ASSUME UNCHANGED acl
      PROVE  \A t \in Tools, p \in Projects : Entries(t, p) => Entries(t, p)'
  BY <1>a DEF Entries, GroupPaths
<1>1. CASE Environment
  <2>1. ASSUME \/ \E u \in Users, t \in Tools : MissRequest(u, t)
               \/ \E t \in Tools : \/ ClientOpen(t) \/ ClientClose(t)
                                   \/ \E k \in Slots : ClientWrite(t, k)
        PROVE  Backed'
    BY <2>1, <1>s, <1>a, StillBacked
    DEF MissRequest, ClientOpen, ClientClose, ClientWrite, store
  <2> QED
    BY <1>1, <2>1, RequestBacked DEF Environment
<1>2. CASE Sync
  BY <1>2, <1>s, <1>a, StillBacked DEF Sync
<1>3. ASSUME NEW w \in Workers, MountStep(w) \/ UnmountStep(w) PROVE Backed'
  BY <1>3, MountBacked, UnmountBacked
<1>4. CASE Monitor
  <2>1. UNCHANGED <<pc, job>>
    BY <1>4 DEF Monitor, MonWake, MonCheck, MonRead, MonDetach, MonRevoke,
                MonRemove, MonSleep
  <2>2. CASE \E k \in Slots : MonDetach(k)
    <3>1. mon.sid[2] \in Tools
      BY DEF TypeOK, Sids
    <3> QED
      BY <2>1, <2>2, <3>1, <1>a, GracefulShrinks, StillBacked DEF MonDetach, Turns
  <2>3. CASE MonRevoke
    <3>1. acl' = acl \ ({mon.sid[2]} \X {UserBase(mon.sid[1]), Public})
      BY <2>3 DEF MonRevoke
    <3>2. \A t \in Tools, p \in Projects : Entries(t, p) => Entries(t, p)'
      <4>1. mon.sid[1] \in Users
        BY DEF TypeOK, Sids
      <4> QED
        BY <3>1, <4>1, PathsApart DEF Entries, GroupPaths
    <3> QED
      BY <2>1, <2>3, <3>2, <1>s, StillBacked DEF MonRevoke
  <2>4. CASE ~(\E k \in Slots : MonDetach(k)) /\ ~MonRevoke
    BY <1>4, <2>1, <2>4, <1>s, <1>a, StillBacked
    DEF Monitor, MonWake, MonCheck, MonRead, MonRemove, MonSleep, store
  <2> QED
    BY <2>2, <2>3, <2>4
<1>5. CASE Crash
  <2>1. UNCHANGED <<mounts, acl>> /\ \A w \in Workers : pc'[w] = "idle"
    BY <1>5 DEF Crash, store
  <2>2. \A w \in Workers : Prepared(w)'
    BY <2>1 DEF Prepared, UnmountPCs
  <2> QED
    BY <2>1, <2>2, <1>s, <1>a, ShrinkShows, Backs
<1>6. CASE Startup
  <2>1. \A t \in Tools : Shrinks(t)
    <3>1. CASE StartupUnmount
      <4>1. PICK stuck : mounts' = [t \in Tools |-> [k \in Slots |->
                          IF <<t, k>> \in stuck THEN mounts[t][k] ELSE <<>>]]
        BY <3>1, StartupTable
      <4> QED
        BY <4>1 DEF Shrinks
    <3> QED
      BY <1>6, <3>1, <1>s DEF Startup, StartupWipe, StartupClear
  <2> QED
    BY <1>6, <2>1, <1>a, StillBacked
    DEF Startup, StartupUnmount, StartupWipe, StartupClear
<1>7. CASE UNCHANGED vars
  BY <1>7, <1>s, <1>a, StillBacked DEF vars, store
<1> QED
  BY <1>1, <1>2, <1>3, <1>4, <1>5, <1>6, <1>7 DEF Next

LEMMA InitBacked == Init => Backed
<1> SUFFICES ASSUME Init PROVE Backed
  OBVIOUS
<1>1. Granted
  BY DEF Init, Granted
<1> QED
  BY <1>1 DEF Init, Backed, Prepared, UnmountPCs

\* A project folder visible in a session is backed by the ACL entries of its
\* project and account, if requests come in turn, umount works and the mount
\* table can be read: the memberships an unmount revokes may be those of any
\* reconciliation, and other tools keep theirs.
THEOREM FoldersAreGranted ==
  ASSUME Orderly, ~UmountCanFail, ~ReadCanFail PROVE Spec => []Granted
<1>1. Init => TypeOK /\ Turns /\ Backed
  BY InitType, InitTurns, InitBacked
<1>2. TypeOK /\ Turns /\ Backed /\ [Next]_vars => (TypeOK /\ Turns /\ Backed)'
  BY NextType, NextTurns, NextBacked
<1>3. TypeOK /\ Turns /\ Backed => Granted
  BY DEF Backed
<1> QED
  BY <1>1, <1>2, <1>3, PTL DEF Spec

-----------------------------------------------------------------------------
(* Startup.                                                                *)

\* No thread works while the daemon is down, and once startup_cleanup has
\* unmounted, nothing is mounted until it serves.
Cleaned ==
  /\ Halted
  /\ mode \in {"clean", "wiped"} => \A t \in Tools : Bare(t)
  /\ StartupErasesNothing

LEMMA NextCleaned ==
  ASSUME ~UmountCanFail, ~ReadCanFail, TypeOK, Cleaned, [Next]_vars
  PROVE  Cleaned'
<1> USE DEF Cleaned
<1>1. CASE Environment
  <2>1. CASE mode = "up"
    BY <1>1, <2>1 DEF Environment, SendMount, SendUnmount, Start, MissRequest,
       ClientOpen, ClientClose, ClientWrite, store, Halted, StartupErasesNothing
  <2>2. CASE mode # "up"
    <3>1. UNCHANGED <<mode, mounts, erased, pc>>
      BY <1>1, <2>2 DEF Environment, SendMount, SendUnmount, Start, MissRequest,
         ClientOpen, ClientClose, ClientWrite, store
    <3> QED
      BY <3>1 DEF Halted, Bare, StartupErasesNothing
  <2> QED
    BY <2>1, <2>2
<1>2. CASE Sync
  BY <1>2 DEF Sync, Halted, Bare, StartupErasesNothing
<1>3. ASSUME NEW w \in Workers, MountStep(w) \/ UnmountStep(w) PROVE Cleaned'
  <2>1. pc[w] # "idle"
    BY <1>3 DEF MountStep, MountUser, MountAdmit, MountFiles, MountBindFiles,
                MountGroup, MountBindGroup, MountPublic, MountBindPublic,
                MountRemount, MountSave, UnmountStep, UnmountFind, UnmountScan,
                UnmountDetach, UnmountDetached, UnmountRevoke, UnmountRemove
  <2>2. mode = "up"
    BY <2>1 DEF Halted
  <2>3. UNCHANGED <<mode, erased>>
    BY <1>3 DEF MountStep, MountUser, MountAdmit, MountFiles, MountBindFiles,
                MountGroup, MountBindGroup, MountPublic, MountBindPublic,
                MountRemount, MountSave, UnmountStep, UnmountFind, UnmountScan,
                UnmountDetach, UnmountDetached, UnmountRevoke, UnmountRemove,
                store
  <2> QED
    BY <2>2, <2>3 DEF Halted, StartupErasesNothing
<1>4. CASE Monitor
  <2>1. UNCHANGED <<mode, erased, pc>>
    BY <1>4 DEF Monitor, MonWake, MonCheck, MonRead, MonDetach, MonRevoke,
                MonRemove, MonSleep, store
  <2>2. ASSUME NEW t \in Tools, Bare(t) PROVE Bare(t)'
    <3>1. ASSUME NEW k \in Slots, MonDetach(k) PROVE Bare(t)'
      <4>1. mon.sid[2] \in Tools /\ mounts \in Mounts
        BY DEF TypeOK, Sids, Mounts
      <4> QED
        BY <2>2, <3>1, <4>1, GracefulTable DEF MonDetach, Bare
    <3>2. CASE ~\E k \in Slots : MonDetach(k)
      BY <1>4, <2>2, <3>2 DEF Monitor, MonWake, MonCheck, MonRead, MonRevoke,
                              MonRemove, MonSleep, store, Bare
    <3> QED
      BY <3>1, <3>2
  <2> QED
    BY <2>1, <2>2 DEF Halted, StartupErasesNothing
<1>5. CASE Crash
  BY <1>5 DEF Crash, store, Halted, StartupErasesNothing
<1>6. CASE StartupUnmount
  <2>1. \A t \in Tools : Bare(t)'
    <3>1. mounts' = [t \in Tools |-> [k \in Slots |->
                      IF <<t, k>> \in {} THEN mounts[t][k] ELSE <<>>]]
      BY <1>6, StartupTable
    <3> QED
      BY <3>1 DEF Bare
  <2> QED
    BY <1>6, <2>1 DEF StartupUnmount, Halted, StartupErasesNothing
<1>7. CASE StartupWipe
  <2>1. \A t \in Tools, k \in Slots : mounts[t][k] = <<>>
    BY <1>7 DEF StartupWipe, Bare
  <2>2. erased' = erased
    BY <1>7, <2>1 DEF StartupWipe
  <2> QED
    BY <1>7, <2>2 DEF StartupWipe, Halted, Bare, StartupErasesNothing
<1>8. CASE StartupClear
  BY <1>8 DEF StartupClear, Halted, StartupErasesNothing
<1>9. CASE UNCHANGED vars
  BY <1>9 DEF vars, store, Halted, Bare, StartupErasesNothing
<1> QED
  BY <1>1, <1>2, <1>3, <1>4, <1>5, <1>6, <1>7, <1>8, <1>9 DEF Next, Startup

\* rmtree at startup deletes nothing of the storage if umount works and the
\* mount table can be read, however many mounts racing requests stacked on a
\* target before the crash.
THEOREM StartupIsSafe ==
  ASSUME ~UmountCanFail, ~ReadCanFail PROVE Spec => []StartupErasesNothing
<1>1. Init => TypeOK /\ Cleaned
  BY InitType DEF Init, Cleaned, Halted, StartupErasesNothing
<1>2. TypeOK /\ Cleaned /\ [Next]_vars => (TypeOK /\ Cleaned)'
  BY NextType, NextCleaned
<1>3. Cleaned => StartupErasesNothing
  BY DEF Cleaned
<1> QED
  BY <1>1, <1>2, <1>3, PTL DEF Spec
-----------------------------------------------------------------------------
(* The public directory.                                                   *)

LEMMA PublicApart ==
  Files # Public /\ \A p \in Projects : Group(p) # Public
BY DEF Files, Public, Group

\* Nothing but the public directory is mounted on public.
Published ==
  \A t \in Tools : \A i \in DOMAIN mounts[t][Public] :
    mounts[t][Public][i] \in {PublicRW, PublicRO}

LEMMA RemountFree ==
  ASSUME TypeOK, NoStacking, NEW t \in Tools, mounts[t][Public] # <<>>,
         mounts' = [mounts EXCEPT ![t][Public] = <<PublicRO>> \o Tail(@)]
  PROVE  /\ mounts'[t][Public] = <<PublicRO>>
         /\ \A e \in Tools, l \in Slots :
              <<e, l>> # <<t, Public>> => mounts'[e][l] = mounts[e][l]
<1>m. mounts \in Mounts
  BY DEF TypeOK, Mounts
<1>1. Tail(mounts[t][Public]) = <<>>
  BY <1>m, Constants, ShortStack DEF Mounts, NoStacking
<1>2. mounts'[t][Public] = <<PublicRO>> \o Tail(mounts[t][Public])
  BY <1>m, RemountTable
<1>3. mounts'[t][Public] = <<PublicRO>> \o <<>>
  BY <1>1, <1>2
<1> QED
  BY <1>m, <1>3, RemountTable, OneSource, Constants

\* What a step may leave on the public target of a tool.
LEMMA PublicStep ==
  ASSUME ~ReadCanFail, TypeOK, Turns, [Next]_vars, NEW t \in Tools
  PROVE  \/ mounts'[t][Public] \in {mounts[t][Public], <<>>, <<PublicRO>>}
         \/ /\ mounts'[t][Public] = <<PublicRW>>
            /\ \E w \in Workers : pc'[w] = "m_remount" /\ job'[w].tool = t
<1>n. NoStacking
  BY DEF Turns
<1>1. CASE UNCHANGED mounts
  BY <1>1
<1>2. ASSUME NEW w \in Workers, MountStep(w), mounts' # mounts
      PROVE  \/ mounts'[t][Public] \in {mounts[t][Public], <<PublicRO>>}
             \/ /\ mounts'[t][Public] = <<PublicRW>>
                /\ pc'[w] = "m_remount" /\ job'[w].tool = t
  <2>0. \/ MountBindFiles(w) \/ MountBindGroup(w) \/ MountBindPublic(w)
        \/ MountRemount(w)
    BY <1>2 DEF MountStep, MountUser, MountAdmit, MountFiles, MountGroup,
                MountPublic, MountSave
  <2>1. job[w] \in Job /\ Informed(w)
    BY <2>0 DEF TypeOK, MountBindFiles, MountBindGroup, MountBindPublic,
                MountRemount, Turns
  <2>2. job[w].tool \in Tools /\ job[w].user \in Users /\ job[w].project \in Projects
    BY <2>1 DEF Job
  <2>3. CASE MountBindFiles(w)
    BY <1>2, <1>n, <2>1, <2>2, <2>3, PublicApart, Constants, PushFree
    DEF MountBindFiles, Informed
  <2>4. CASE MountBindGroup(w)
    BY <1>2, <1>n, <2>1, <2>2, <2>4, PublicApart, Constants, PushFree
    DEF MountBindGroup, Informed
  <2>5. CASE MountBindPublic(w)
    <3>1. Push(job[w].tool, Public, PublicRW) /\ Goto(w, "m_remount")
          /\ job' = job /\ mounts[job[w].tool][Public] = <<>>
      BY <1>2, <2>1, <2>5 DEF MountBindPublic, Informed
    <3>2. /\ mounts'[job[w].tool][Public] = <<PublicRW>>
          /\ job[w].tool # t => mounts'[t][Public] = mounts[t][Public]
      BY <1>n, <2>2, <3>1, Constants, PushFree
    <3>3. pc'[w] = "m_remount"
      BY <3>1 DEF Goto, TypeOK
    <3> QED
      BY <3>1, <3>2, <3>3
  <2>6. CASE MountRemount(w)
    BY <1>2, <1>n, <2>2, <2>6, Constants, RemountFree DEF MountRemount
  <2> QED
    BY <2>0, <2>3, <2>4, <2>5, <2>6
<1>3. ASSUME NEW w \in Workers, UnmountStep(w), mounts' # mounts
      PROVE  mounts'[t][Public] \in {mounts[t][Public], <<>>}
  <2>1. PICK e \in Tools, k \in Slots : UnmountDetach(w, e, k)
    BY <1>3 DEF UnmountStep, UnmountFind, UnmountScan, UnmountDetached,
                UnmountRevoke, UnmountRemove, store
  <2> QED
    BY <1>n, <2>1, Constants, GracefulShrinks DEF UnmountDetach, Shrinks
<1>4. ASSUME Monitor, mounts' # mounts
      PROVE  mounts'[t][Public] \in {mounts[t][Public], <<>>}
  <2>1. PICK k \in Slots : MonDetach(k)
    BY <1>4 DEF Monitor, MonWake, MonCheck, MonRead, MonRevoke, MonRemove,
                MonSleep, store
  <2>2. mon.sid[2] \in Tools
    BY DEF TypeOK, Sids
  <2> QED
    BY <1>n, <2>1, <2>2, Constants, GracefulShrinks DEF MonDetach, Shrinks
<1>5. ASSUME Startup, mounts' # mounts
      PROVE  mounts'[t][Public] \in {mounts[t][Public], <<>>}
  <2>1. PICK stuck : mounts' = [e \in Tools |-> [k \in Slots |->
                      IF <<e, k>> \in stuck THEN mounts[e][k] ELSE <<>>]]
    BY <1>5, StartupTable DEF Startup, StartupWipe, StartupClear
  <2> QED
    BY <2>1, Constants
<1>6. ASSUME Environment \/ Sync \/ Crash \/ UNCHANGED vars PROVE UNCHANGED mounts
  BY <1>6 DEF Environment, SendMount, SendUnmount, MissRequest, ClientOpen,
     ClientClose, ClientWrite, Sync, Crash, vars, store
<1> SUFFICES ASSUME mounts' # mounts
             PROVE  \/ mounts'[t][Public] \in {mounts[t][Public], <<>>, <<PublicRO>>}
                    \/ /\ mounts'[t][Public] = <<PublicRW>>
                       /\ \E w \in Workers : pc'[w] = "m_remount" /\ job'[w].tool = t
  BY <1>1
<1>7. CASE \E w \in Workers : MountStep(w)
  BY <1>2, <1>7
<1>8. CASE \E w \in Workers : UnmountStep(w)
  BY <1>3, <1>8
<1> QED
  BY <1>4, <1>5, <1>6, <1>7, <1>8 DEF Next

LEMMA NextPublished ==
  ASSUME ~ReadCanFail, TypeOK, Turns, Published, [Next]_vars
  PROVE  Published'
<1> SUFFICES ASSUME NEW t \in Tools, NEW i \in DOMAIN mounts'[t][Public]
             PROVE  mounts'[t][Public][i] \in {PublicRW, PublicRO}
  BY DEF Published, PublicRW, PublicRO
<1>1. /\ DOMAIN <<PublicRO>> = {1} /\ <<PublicRO>>[1] = PublicRO
      /\ DOMAIN <<PublicRW>> = {1} /\ <<PublicRW>>[1] = PublicRW
  BY OneSource, Constants
<1>2. DOMAIN <<>> = {}
  OBVIOUS
<1>3. CASE mounts'[t][Public] = mounts[t][Public]
  BY <1>3 DEF Published
<1>4. CASE mounts'[t][Public] \in {<<>>, <<PublicRO>>, <<PublicRW>>}
  BY <1>1, <1>2, <1>4
<1> QED
  BY <1>3, <1>4, PublicStep

\* A thread that has bound the public directory waits to remount it.
LEMMA RemountPending ==
  ASSUME ~ReadCanFail, ~MountCanFail, TypeOK, Turns, [Next]_vars, NEW w \in Workers,
         pc[w] = "m_remount"
  PROVE  \/ mode' # "up"
         \/ pc'[w] = "m_remount" /\ job'[w] = job[w]
         \/ mounts'[job[w].tool][Public] \in {<<>>, <<PublicRO>>}
<1>1. job[w] \in Job /\ job[w].tool \in Tools /\ NoStacking
  BY DEF TypeOK, Job, Turns
<1>2. CASE MountRemount(w)
  BY <1>1, <1>2, RemountFree DEF MountRemount
<1>3. ASSUME NEW v \in Workers, MountStep(v) \/ UnmountStep(v), ~MountRemount(w)
      PROVE  pc'[w] = "m_remount" /\ job'[w] = job[w]
  BY <1>3 DEF TypeOK, Goto, Done,
     MountStep, MountUser, MountAdmit, MountFiles, MountBindFiles,
     MountGroup, MountBindGroup, MountPublic, MountBindPublic, MountRemount,
     MountSave, UnmountStep, UnmountFind, UnmountScan, UnmountDetach,
     UnmountDetached, UnmountRevoke, UnmountRemove
<1>4. ASSUME Environment PROVE pc'[w] = "m_remount" /\ job'[w] = job[w]
  BY <1>4 DEF TypeOK, Environment, SendMount, SendUnmount, Start, MissRequest,
     ClientOpen, ClientClose, ClientWrite
<1>5. ASSUME Sync \/ Monitor \/ Startup \/ UNCHANGED vars
      PROVE  pc'[w] = "m_remount" /\ job'[w] = job[w]
  BY <1>5 DEF Sync, Monitor, MonWake, MonCheck, MonRead, MonDetach, MonRevoke,
     MonRemove, MonSleep, Startup, StartupUnmount, StartupWipe, StartupClear, vars
<1>6. ASSUME Crash PROVE mode' # "up"
  BY <1>6 DEF Crash
<1> QED
  BY <1>2, <1>3, <1>4, <1>5, <1>6 DEF Next

LEMMA NextReadOnly ==
  ASSUME ~UmountCanFail, ~ReadCanFail, ~MountCanFail, TypeOK, Turns, Cleaned,
         PublicReadOnly, [Next]_vars
  PROVE  PublicReadOnly'
<1> SUFFICES ASSUME mode' = "up", NEW t \in Tools,
                    \A w \in Busy(t)' : pc'[w] # "m_remount",
                    NEW i \in DOMAIN mounts'[t][Public],
                    mounts'[t][Public][i] = PublicRW
             PROVE  FALSE
  BY DEF PublicReadOnly, PublicRW
<1>1. DOMAIN <<PublicRO>> = {1} /\ <<PublicRO>>[1] = PublicRO
  BY OneSource, Constants
<1>2. DOMAIN <<>> = {} /\ PublicRO # PublicRW
  BY DEF PublicRO, PublicRW
<1>3. mounts'[t][Public] \notin {<<>>, <<PublicRO>>}
  BY <1>1, <1>2
<1>4. \A w \in Workers : ~(pc'[w] = "m_remount" /\ job'[w].tool = t)
  BY DEF Busy
<1>5. mounts'[t][Public] = mounts[t][Public]
  BY <1>3, <1>4, PublicStep
<1>6. mode = "up"
  <2>1. ASSUME mode # "up", ~StartupClear PROVE FALSE
    <3>1. ASSUME NEW w \in Workers, MountStep(w) \/ UnmountStep(w) PROVE FALSE
      <4>1. pc[w] # "idle"
        BY <3>1 DEF MountStep, MountUser, MountAdmit, MountFiles, MountBindFiles,
           MountGroup, MountBindGroup, MountPublic, MountBindPublic,
           MountRemount, MountSave, UnmountStep, UnmountFind, UnmountScan,
           UnmountDetach, UnmountDetached, UnmountRevoke, UnmountRemove
      <4> QED
        BY <2>1, <4>1 DEF Turns, Halted
    <3>2. /\ ~Environment /\ ~Sync /\ ~UNCHANGED vars /\ ~Monitor
      BY <2>1 DEF Environment, SendMount, SendUnmount, Start, MissRequest,
         ClientOpen, ClientClose, ClientWrite, Sync, Monitor, MonWake, MonCheck,
         MonRead, MonDetach, MonRevoke, MonRemove, MonSleep, vars
    <3>3. ~(Crash \/ StartupUnmount \/ StartupWipe)
      BY DEF Crash, StartupUnmount, StartupWipe
    <3> QED
      BY <2>1, <3>1, <3>2, <3>3 DEF Next, Startup
  <2>2. ASSUME StartupClear PROVE FALSE
    BY <1>3, <1>5, <2>2, Constants DEF StartupClear, Cleaned, Bare
  <2> QED
    BY <2>1, <2>2
<1>7. PICK w \in Busy(t) : pc[w] = "m_remount"
  BY <1>5, <1>6 DEF PublicReadOnly
<1>8. w \in Workers /\ job[w].tool = t
  BY <1>7 DEF Busy
<1> QED
  BY <1>3, <1>4, <1>7, <1>8, RemountPending

\* The public directory is writable through a session only until the request
\* that bound it has remounted it, if mount, umount and the reads of the mount
\* table do not fail.
THEOREM PublicIsReadOnly ==
  ASSUME Orderly, ~UmountCanFail, ~ReadCanFail, ~MountCanFail
  PROVE  Spec => []PublicReadOnly
<1>1. Init => TypeOK /\ Turns /\ Cleaned /\ PublicReadOnly
  BY InitType, InitTurns
  DEF Init, Cleaned, Halted, StartupErasesNothing, PublicReadOnly
<1>2. TypeOK /\ Turns /\ Cleaned /\ PublicReadOnly /\ [Next]_vars
        => (TypeOK /\ Turns /\ Cleaned /\ PublicReadOnly)'
  BY NextType, NextTurns, NextCleaned, NextReadOnly
<1> QED
  BY <1>1, <1>2, PTL DEF Spec
==============================================================================
