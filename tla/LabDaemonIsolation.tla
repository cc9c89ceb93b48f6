-------------------------- MODULE LabDaemonIsolation --------------------------
(* Proofs that users who take turns at a tool are isolated from each other,  *)
(* and that the daemon then implements ToolAccess: every step of a thread,   *)
(* of the monitor or of startup is a step of the abstract specification or   *)
(* changes nothing of it.                                                    *)
EXTENDS LabDaemonStorage

\* The environment of the theorems on isolation: requests arrive in turn and
\* are not lost while the daemon is up, umount works and the mount table can be
\* read.
Benign == Orderly /\ ~LossyLink /\ ~UmountCanFail /\ ~ReadCanFail

\* A mount request serves the user who holds the tool, and the projects it
\* still has to bind are projects of that user; an unmount request serves a
\* tool nobody holds.
Serves(w) ==
  LET j == job[w]
  IN /\ pc[w] \in MountPCs =>
          /\ using[j.tool] = j.user
          /\ \A p \in j.todo : Entitled(j.user, p)
     /\ pc[w] = "m_bind_group" => Entitled(j.user, j.project)
     /\ pc[w] \in UnmountPCs => using[j.tool] = NoUser

Shown(t) ==
  using[t] # NoUser =>
    \A k \in Slots : \A i \in DOMAIN mounts[t][k] :
      MayHold(using[t], mounts[t][k][i])

\* A tool nobody holds or serves is bare; a tool somebody holds shows what
\* that user may see.
Separate ==
  mode = "up" => \A t \in Tools :
    /\ using[t] = NoUser /\ Busy(t) = {} => Bare(t)
    /\ Shown(t)

Swept == mode \in {"clean", "wiped"} => \A t \in Tools : Bare(t)

Apartness == (\A w \in Workers : Serves(w)) /\ Separate /\ Swept

-----------------------------------------------------------------------------

LEMMA BareShows == ASSUME NEW t \in Tools, Bare(t) PROVE Shown(t)
BY DEF Bare, Shown

LEMMA ShrinkKeeps ==
  ASSUME NEW t \in Tools, Shrinks(t), UNCHANGED using
  PROVE  /\ Bare(t) => Bare(t)'
         /\ Shown(t) => Shown(t)'
BY DEF Shrinks, Bare, Shown

\* Steps that mount nothing, move no thread and no user.
LEMMA StillApart ==
  ASSUME TypeOK, Apartness, UNCHANGED <<mode, using, pc, job>>,
         \A t \in Tools : Shrinks(t)
  PROVE  Apartness'
<1>1. \A w \in Workers : Serves(w)'
  BY DEF Apartness, Serves
<1>2. Separate'
  BY ShrinkKeeps DEF Apartness, Separate, Busy
<1>3. Swept'
  BY ShrinkKeeps DEF Apartness, Swept
<1> QED
  BY <1>1, <1>2, <1>3 DEF Apartness

\* Steps of a thread that keeps serving its tool, or leaves it to its user or
\* bare.
LEMMA ThreadApart ==
  ASSUME TypeOK, Turns, Apartness, NEW w \in Workers, pc[w] # "idle",
         NEW t \in Tools, job[w].tool = t,
         UNCHANGED <<mode, using>>,
         \A v \in Workers \ {w} : pc'[v] = pc[v] /\ job'[v] = job[v],
         \A e \in Tools : e # t => Shrinks(e),
         Shown(t)', Serves(w)',
         \/ pc'[w] # "idle" /\ job'[w].tool = t
         \/ using[t] # NoUser
         \/ Bare(t)'
  PROVE  Apartness'
<1>0. mode = "up"
  BY DEF Turns, Halted
<1>1. ASSUME NEW v \in Workers PROVE Serves(v)'
  BY <1>1 DEF Apartness, Serves
<1>2. ASSUME NEW e \in Tools, using'[e] = NoUser, Busy(e)' = {} PROVE Bare(e)'
  <2>1. ASSUME e = t PROVE Bare(t)'
    BY <1>2, <2>1 DEF Busy
  <2>2. ASSUME e # t PROVE Bare(e)'
    <3>1. Busy(e) = {}
      BY <1>2, <2>2 DEF Busy
    <3> QED
      BY <1>0, <1>2, <2>2, <3>1, ShrinkKeeps DEF Apartness, Separate
  <2> QED
    BY <2>1, <2>2
<1>3. ASSUME NEW e \in Tools PROVE Shown(e)'
  <2>1. ASSUME e # t PROVE Shown(e)'
    BY <1>0, <2>1, ShrinkKeeps DEF Apartness, Separate
  <2> QED
    BY <2>1
<1>4. Separate'
  BY <1>2, <1>3 DEF Separate
<1>5. Swept'
  BY <1>0 DEF Swept
<1> QED
  BY <1>1, <1>4, <1>5 DEF Apartness

\* Binding on a free target what the user may see.
LEMMA PushShown ==
  ASSUME TypeOK, NoStacking, NEW t \in Tools, NEW k \in Slots,
         NEW src \in Sources, mounts[t][k] = <<>>, Push(t, k, src),
         Shown(t), UNCHANGED using, MayHold(using[t], src)
  PROVE  Shown(t)'
<1>1. mounts'[t][k] = <<src>>
  BY PushFree
<1>2. \A l \in Slots : l # k => mounts'[t][l] = mounts[t][l]
  BY PushFree
<1>3. DOMAIN <<src>> = {1} /\ <<src>>[1] = src
  BY OneSource
<1> SUFFICES ASSUME using[t] # NoUser, NEW l \in Slots,
                    NEW i \in DOMAIN mounts'[t][l]
             PROVE  MayHold(using[t], mounts'[t][l][i])
  BY DEF Shown, MayHold, Entitled, Memberships
<1>4. CASE l = k
  BY <1>1, <1>3, <1>4
<1>5. CASE l # k
  BY <1>2, <1>5 DEF Shown
<1> QED
  BY <1>4, <1>5

\* Remounting read-only shows the same directory.
LEMMA RemountShown ==
  ASSUME TypeOK, NoStacking, NEW t \in Tools, mounts[t][Public] # <<>>,
         mounts' = [mounts EXCEPT ![t][Public] = <<PublicRO>> \o Tail(@)],
         Shown(t), UNCHANGED using
  PROVE  Shown(t)' /\ \A e \in Tools : e # t => Shrinks(e)
<1>m. mounts \in Mounts
  BY DEF TypeOK, Mounts
<1>1. Tail(mounts[t][Public]) = <<>>
  BY <1>m, Constants, ShortStack DEF Mounts, NoStacking
<1>2. mounts'[t][Public] = <<PublicRO>> \o Tail(mounts[t][Public])
  BY <1>m, RemountTable
<1>3. mounts'[t][Public] = <<PublicRO>> \o <<>>
  BY <1>1, <1>2
<1>4. /\ mounts'[t][Public] = <<PublicRO>>
      /\ DOMAIN <<PublicRO>> = {1} /\ <<PublicRO>>[1] = PublicRO
  BY <1>3, OneSource, Constants
<1>5. \A e \in Tools, l \in Slots :
        <<e, l>> # <<t, Public>> => mounts'[e][l] = mounts[e][l]
  BY <1>m, RemountTable
<1>6. \A e \in Tools : e # t => Shrinks(e)
  BY <1>5 DEF Shrinks
<1>7. ASSUME using[t] # NoUser, NEW l \in Slots, NEW i \in DOMAIN mounts'[t][l]
      PROVE  MayHold(using[t], mounts'[t][l][i])
  <2>1. CASE l = Public
    BY <1>4, <1>7, <2>1 DEF MayHold
  <2>2. CASE l # Public
    BY <1>5, <1>7, <2>2 DEF Shown
  <2> QED
    BY <2>1, <2>2
<1> QED
  BY <1>6, <1>7 DEF Shown, MayHold, Entitled, Memberships

LEMMA MountApart ==
  ASSUME ~ReadCanFail, TypeOK, Turns, Apartness, NEW w \in Workers, MountStep(w)
  PROVE  Apartness'
<1> USE DEF Goto, Done
<1>0. /\ pc[w] \in MountPCs /\ pc[w] # "idle" /\ job[w] \in Job
      /\ pc \in [Workers -> {"idle"} \cup MountPCs \cup UnmountPCs]
      /\ job \in [Workers -> Job \cup {NoJob}]
  BY DEF TypeOK, MountStep, MountUser, MountAdmit, MountFiles, MountBindFiles,
         MountGroup, MountBindGroup, MountPublic, MountBindPublic,
         MountRemount, MountSave, MountPCs
<1>t. PICK t \in Tools : job[w].tool = t
  BY <1>0 DEF Job
<1>u. PICK u \in Users : job[w].user = u
  BY <1>0 DEF Job
<1>p. PICK p \in Projects : job[w].project = p
  BY <1>0 DEF Job
<1>n. NoStacking /\ Informed(w)
  BY DEF Turns
<1>h. mode = "up" /\ Shown(t)
  BY <1>0 DEF Turns, Halted, Apartness, Separate
<1>a. /\ using[t] = u /\ u # NoUser
      /\ \A q \in job[w].todo : Entitled(u, q)
      /\ pc[w] = "m_bind_group" => Entitled(u, p)
  BY <1>0, <1>t, <1>u, <1>p, NamesAssumption DEF Apartness, Serves, NamesAssumption
<1>s. ASSUME UNCHANGED <<mounts, using>>
      PROVE  Shown(t)' /\ \A e \in Tools : Shrinks(e)
  BY <1>h, <1>s DEF Shown, Shrinks
<1>1. CASE MountUser(w)
  <2>1. /\ UNCHANGED <<mode, mounts, using>>
        /\ \A v \in Workers \ {w} : pc'[v] = pc[v] /\ job'[v] = job[v]
    BY <1>0, <1>1 DEF MountUser, clients
  <2>2. Serves(w)'
    <3>1. CASE db'.users[u] = "absent"
      BY <1>0, <1>1, <1>u, <3>1 DEF MountUser, Serves, MountPCs, UnmountPCs
    <3>2. CASE db'.users[u] # "absent"
      <4> DEFINE b == (db'.users[u] = "active")
      <4>1. /\ job' = [job EXCEPT ![w] = [job[w] EXCEPT !.active = b]]
            /\ pc' = [pc EXCEPT ![w] = "m_admit"]
        BY <1>1, <1>u, <3>2 DEF MountUser
      <4> HIDE DEF b
      <4>2. /\ job'[w].tool = t /\ job'[w].user = u
            /\ job'[w].todo = job[w].todo
        BY <1>0, <1>t, <1>u, <4>1 DEF Job
      <4> QED
        BY <1>0, <1>a, <2>1, <4>1, <4>2 DEF Serves, UnmountPCs, Entitled, Memberships
    <3> QED
      BY <3>1, <3>2
  <2> QED
    BY <1>0, <1>t, <1>a, <1>s, <2>1, <2>2, ThreadApart
<1>2. CASE MountAdmit(w)
  <2>1. /\ UNCHANGED <<mode, mounts, using>>
        /\ \A v \in Workers \ {w} : pc'[v] = pc[v] /\ job'[v] = job[v]
    BY <1>0, <1>2 DEF MountAdmit, clients
  <2>2. Serves(w)'
    <3>1. CASE pc' = [pc EXCEPT ![w] = "idle"]
      BY <1>0, <3>1 DEF Serves, MountPCs, UnmountPCs
    <3>2. CASE pc' # [pc EXCEPT ![w] = "idle"]
      <4> DEFINE S == IF BindGroups THEN Memberships(db', u) \ Excluded ELSE {}
      <4>1. /\ job' = [job EXCEPT ![w] = [job[w] EXCEPT !.todo = S]]
            /\ pc' = [pc EXCEPT ![w] = "m_files"]
        BY <1>2, <1>u, <3>2 DEF MountAdmit
      <4>2. \A q \in S : Entitled(u, q)
        <5>1. db' \in NemoStates
          BY <1>2, SyncedType DEF MountAdmit, TypeOK
        <5> QED
          BY <5>1 DEF Entitled, Memberships
      <4> HIDE DEF S
      <4>3. job'[w].tool = t /\ job'[w].user = u /\ job'[w].todo = S
        BY <1>0, <1>t, <1>u, <4>1 DEF Job
      <4> QED
        BY <1>0, <1>a, <2>1, <4>1, <4>2, <4>3
        DEF Serves, UnmountPCs, Entitled, Memberships
    <3> QED
      BY <3>1, <3>2
  <2> QED
    BY <1>0, <1>t, <1>a, <1>s, <2>1, <2>2, ThreadApart
<1>3. CASE MountFiles(w)
  <2>1. /\ UNCHANGED <<mode, mounts, using, job>>
        /\ pc'[w] \in {"m_bind_files", "m_groups"}
        /\ \A v \in Workers \ {w} : pc'[v] = pc[v]
    BY <1>0, <1>3 DEF MountFiles, clients
  <2> QED
    BY <1>0, <1>t, <1>u, <1>a, <1>s, <2>1, ThreadApart
    DEF Serves, UnmountPCs, Entitled, Memberships
<1>4. CASE MountBindFiles(w)
  <2>1. CASE Push(t, Files, UserFiles(u)) /\ Goto(w, "m_groups") /\ UNCHANGED job
    <3>1. UNCHANGED <<mode, using>>
      BY <1>4 DEF MountBindFiles, clients
    <3>2. mounts[t][Files] = <<>>
      BY <1>4, <1>n, <1>t DEF MountBindFiles, Informed
    <3>3. MayHold(u, UserFiles(u))
      BY DEF MayHold
    <3>4. Shown(t)' /\ \A e \in Tools : e # t => Shrinks(e)
      BY <1>n, <1>h, <1>a, <2>1, <3>1, <3>2, <3>3, Constants, PushShown, PushFree
    <3> QED
      BY <1>0, <1>t, <1>u, <1>a, <2>1, <3>1, <3>4, ThreadApart
      DEF Serves, UnmountPCs, Entitled, Memberships
  <2>2. CASE Done(w) /\ UNCHANGED mounts
    BY <1>0, <1>4, <1>t, <1>a, <1>s, <2>2, ThreadApart
    DEF MountBindFiles, clients, Serves, MountPCs, UnmountPCs
  <2> QED
    BY <1>4, <1>t, <1>u, <2>1, <2>2 DEF MountBindFiles
<1>5. ASSUME NEW q \in Projects, MountGroup(w, q) PROVE Apartness'
  <2>1. /\ UNCHANGED <<mode, mounts, using>>
        /\ pc'[w] \in {"m_bind_group", "m_groups"}
        /\ \A v \in Workers \ {w} : pc'[v] = pc[v] /\ job'[v] = job[v]
    BY <1>0, <1>5 DEF MountGroup, clients
  <2>2. /\ job'[w].tool = t /\ job'[w].user = u /\ job'[w].project = q
        /\ job'[w].todo = job[w].todo \ {q} /\ q \in job[w].todo
    BY <1>0, <1>5, <1>t, <1>u DEF MountGroup, Job
  <2> QED
    BY <1>0, <1>t, <1>a, <1>s, <2>1, <2>2, ThreadApart
    DEF Serves, UnmountPCs, Entitled, Memberships
<1>6. CASE MountBindGroup(w)
  <2>1. /\ UNCHANGED <<mode, using>> /\ pc'[w] = "m_groups"
        /\ \A v \in Workers \ {w} : pc'[v] = pc[v] /\ job'[v] = job[v]
    BY <1>0, <1>6 DEF MountBindGroup, clients
  <2>2. /\ job'[w].tool = t /\ job'[w].user = u
        /\ job'[w].todo = job[w].todo
    BY <1>0, <1>6, <1>t, <1>u DEF MountBindGroup, Job
  <2>3. Shown(t)' /\ \A e \in Tools : e # t => Shrinks(e)
    <3>1. CASE UNCHANGED mounts
      BY <2>1, <3>1, <1>s
    <3>2. CASE Push(t, Group(p), ProjectFiles(p))
      <4>1. mounts[t][Group(p)] = <<>>
        BY <1>6, <1>n, <1>t, <1>p DEF MountBindGroup, Informed
      <4>2. MayHold(u, ProjectFiles(p))
        BY <1>6, <1>a DEF MountBindGroup, MayHold
      <4> QED
        BY <1>n, <1>h, <1>a, <2>1, <3>2, <4>1, <4>2, Constants, PushShown, PushFree
    <3> QED
      BY <1>6, <1>t, <1>p, <3>1, <3>2 DEF MountBindGroup
  <2> QED
    BY <1>0, <1>t, <1>a, <2>1, <2>2, <2>3, ThreadApart
    DEF Serves, UnmountPCs, Entitled, Memberships
<1>7. CASE MountPublic(w)
  <2>1. /\ UNCHANGED <<mode, mounts, using, job>>
        /\ pc'[w] \in {"m_bind_public", "m_save"}
        /\ \A v \in Workers \ {w} : pc'[v] = pc[v]
    BY <1>0, <1>7 DEF MountPublic, clients
  <2> QED
    BY <1>0, <1>t, <1>u, <1>a, <1>s, <2>1, ThreadApart
    DEF Serves, UnmountPCs, Entitled, Memberships
<1>8. CASE MountBindPublic(w)
  <2>1. /\ UNCHANGED <<mode, using, job>> /\ pc'[w] \in {"m_remount", "m_save"}
        /\ \A v \in Workers \ {w} : pc'[v] = pc[v]
    BY <1>0, <1>8 DEF MountBindPublic, clients
  <2>2. Shown(t)' /\ \A e \in Tools : e # t => Shrinks(e)
    <3>1. CASE UNCHANGED mounts
      BY <2>1, <3>1, <1>s
    <3>2. CASE Push(t, Public, PublicRW)
      <4>1. mounts[t][Public] = <<>>
        BY <1>8, <1>n, <1>t DEF MountBindPublic, Informed
      <4>2. MayHold(u, PublicRW)
        BY DEF MayHold
      <4> QED
        BY <1>n, <1>h, <1>a, <2>1, <3>2, <4>1, <4>2, Constants, PushShown, PushFree
    <3> QED
      BY <1>8, <1>t, <3>1, <3>2 DEF MountBindPublic
  <2> QED
    BY <1>0, <1>t, <1>u, <1>a, <2>1, <2>2, ThreadApart
    DEF Serves, UnmountPCs, Entitled, Memberships
<1>9. CASE MountRemount(w)
  <2>1. /\ UNCHANGED <<mode, using, job>> /\ pc'[w] = "m_save"
        /\ \A v \in Workers \ {w} : pc'[v] = pc[v]
    BY <1>0, <1>9 DEF MountRemount, clients
  <2>2. Shown(t)' /\ \A e \in Tools : e # t => Shrinks(e)
    <3>1. CASE UNCHANGED mounts
      BY <2>1, <3>1, <1>s
    <3>2. CASE /\ mounts[t][Public] # <<>>
               /\ mounts' = [mounts EXCEPT ![t][Public] = <<PublicRO>> \o Tail(@)]
      BY <1>n, <1>h, <2>1, <3>2, RemountShown
    <3> QED
      BY <1>9, <1>t, <3>1, <3>2 DEF MountRemount
  <2> QED
    BY <1>0, <1>t, <1>u, <1>a, <2>1, <2>2, ThreadApart
    DEF Serves, UnmountPCs, Entitled, Memberships
<1>10. CASE MountSave(w)
  BY <1>0, <1>10, <1>t, <1>a, <1>s, ThreadApart
  DEF MountSave, clients, Serves, MountPCs, UnmountPCs
<1> QED
  BY <1>1, <1>2, <1>3, <1>4, <1>5, <1>6, <1>7, <1>8, <1>9, <1>10 DEF MountStep

LEMMA UnmountApart ==
  ASSUME ~UmountCanFail, ~ReadCanFail, TypeOK, Turns, Apartness, NEW w \in Workers,
         UnmountStep(w)
  PROVE  Apartness'
<1> USE DEF Goto, Done
<1>0. /\ pc[w] \in UnmountPCs /\ pc[w] # "idle" /\ job[w] \in Job
      /\ pc \in [Workers -> {"idle"} \cup MountPCs \cup UnmountPCs]
      /\ job \in [Workers -> Job \cup {NoJob}]
  BY DEF TypeOK, UnmountStep, UnmountFind, UnmountScan, UnmountDetach,
         UnmountDetached, UnmountRevoke, UnmountRemove, UnmountPCs
<1>t. PICK t \in Tools : job[w].tool = t
  BY <1>0 DEF Job
<1>n. NoStacking /\ Informed(w)
  BY DEF Turns
<1>a. using[t] = NoUser
  BY <1>0, <1>t DEF Apartness, Serves
<1>s. ASSUME UNCHANGED mounts PROVE \A e \in Tools : Shrinks(e)
  BY <1>s DEF Shrinks
<1>u. UNCHANGED <<mode, using>>
  BY DEF UnmountStep, UnmountFind, UnmountScan, UnmountDetach, UnmountDetached,
         UnmountRevoke, UnmountRemove, clients
<1>d. Shown(t)'
  BY <1>a, <1>u DEF Shown
<1>v. \A v \in Workers \ {w} : pc'[v] = pc[v] /\ job'[v] = job[v]
  BY <1>0 DEF UnmountStep, UnmountFind, UnmountScan, UnmountDetach,
              UnmountDetached, UnmountRevoke, UnmountRemove
\* All steps but the last keep the thread at its tool.
<1>k. ASSUME pc'[w] \in UnmountPCs, job'[w].tool = t,
             \A e \in Tools : Shrinks(e)
      PROVE  Apartness'
  <2>1. Serves(w)'
    BY <1>a, <1>u, <1>k DEF Serves, MountPCs, UnmountPCs
  <2>2. pc'[w] # "idle"
    BY <1>k DEF UnmountPCs
  <2> QED
    BY <1>0, <1>t, <1>u, <1>d, <1>v, <1>k, <2>1, <2>2, ThreadApart
<1>1. CASE UnmountFind(w)
  <2>1. UNCHANGED mounts /\ pc'[w] = "u_scan"
    BY <1>0, <1>1 DEF UnmountFind, store
  <2>2. job'[w].tool = t
    <3> DEFINE b == (job[w].known \/ rows[<<job[w].user, job[w].tool>>] # NoRow)
    <3>1. job' = [job EXCEPT ![w] = [job[w] EXCEPT !.known = b]] \/ job' = job
      BY <1>1 DEF UnmountFind
    <3> HIDE DEF b
    <3> QED
      BY <1>0, <1>t, <1>a, <3>1 DEF Job
  <2> QED
    BY <1>k, <1>s, <2>1, <2>2 DEF UnmountPCs
<1>2. CASE UnmountScan(w)
  <2>1. PICK L, c : job' = [job EXCEPT ![w] = [job[w] EXCEPT !.live = L, !.blind = c]]
    BY <1>2, ScanJob
  <2>2. UNCHANGED mounts /\ pc'[w] = "u_detach"
    BY <1>0, <1>2 DEF UnmountScan, store
  <2>3. job'[w].tool = t
    BY <1>0, <1>t, <1>a, <2>1 DEF Job
  <2> QED
    BY <1>k, <1>s, <2>2, <2>3 DEF UnmountPCs
<1>3. ASSUME NEW e \in Tools, NEW k \in Slots, UnmountDetach(w, e, k)
      PROVE  Apartness'
  <2>1. PICK success, L, b, c : Detached(w, e, k, success, L, b, c)
    BY <1>3, DetachJob
  <2>2. \A f \in Tools : Shrinks(f)
    BY <1>n, <2>1, GracefulShrinks DEF Detached
  <2>5. job'[w].tool = t
    BY <1>0, <1>t, <2>1 DEF Job, Detached
  <2>6. pc'[w] = "u_detach"
    BY <1>3 DEF UnmountDetach
  <2> QED
    BY <1>k, <2>2, <2>5, <2>6 DEF UnmountPCs
<1>4. CASE UnmountDetached(w) \/ UnmountRevoke(w)
  <2>1. UNCHANGED <<mounts, job>> /\ pc'[w] \in {"u_revoke", "u_remove"}
    BY <1>0, <1>4 DEF UnmountDetached, UnmountRevoke, store
  <2> QED
    BY <1>k, <1>s, <1>t, <1>a, <2>1 DEF UnmountPCs
<1>5. CASE UnmountRemove(w)
  <2>1. UNCHANGED mounts /\ pc'[w] = "idle" /\ Bare(t)
    BY <1>0, <1>5, <1>n, <1>t, <1>a DEF UnmountRemove, Informed, Sound
  <2>2. Bare(t)' /\ Serves(w)'
    BY <2>1 DEF Bare, Serves, MountPCs, UnmountPCs
  <2> QED
    BY <1>0, <1>t, <1>u, <1>d, <1>v, <1>s, <2>1, <2>2, ThreadApart
<1> QED
  BY <1>1, <1>2, <1>3, <1>4, <1>5 DEF UnmountStep

\* A request that arrives, in its turn.
LEMMA RequestApart ==
  ASSUME Orderly, TypeOK, Turns, Apartness, NEW w \in Workers, NEW u \in Users,
         NEW t \in Tools,
         (\E p \in Projects : SendMount(w, u, t, p))
           \/ \E named \in BOOLEAN : SendUnmount(w, u, t, named)
  PROVE  Apartness'
<1>1. /\ UNCHANGED <<mode, mounts>> /\ mode = "up"
      /\ pc[w] = "idle"
      /\ \A v \in Workers \ {w} : pc'[v] = pc[v] /\ job'[v] = job[v]
      /\ \A e \in Tools : e # t => using'[e] = using[e]
  BY DEF TypeOK, SendMount, SendUnmount, Start, store
<1>2. job'[w].tool = t /\ pc'[w] # "idle"
  BY DEF TypeOK, SendMount, SendUnmount, Start, NewJob
<1>3. using[t] \in {NoUser, u} /\ Busy(t) = {}
  BY DEF SendMount, SendUnmount, Turn
<1>4. Serves(w)' /\ using'[t] \in {NoUser, u}
  BY DEF TypeOK, SendMount, SendUnmount, Start, NewJob, Serves, MountPCs, UnmountPCs
<1>5. ASSUME NEW v \in Workers, v # w PROVE Serves(v)'
  <2>1. CASE pc[v] = "idle"
    BY <1>1, <1>5, <2>1 DEF Serves, MountPCs, UnmountPCs
  <2>2. CASE pc[v] # "idle"
    <3>1. job[v] \in Job /\ job[v].tool \in Tools /\ job[v].tool # t
      BY <1>3, <2>2 DEF TypeOK, Job, Busy
    <3> QED
      BY <1>1, <1>5, <3>1 DEF Apartness, Serves, Entitled, Memberships
  <2> QED
    BY <2>1, <2>2
<1>6. Shown(t)'
  <2>1. CASE using[t] = NoUser
    BY <1>1, <1>3, <2>1, BareShows DEF Apartness, Separate, Bare, Shown
  <2>2. CASE using[t] # NoUser
    BY <1>1, <1>3, <1>4, <2>2 DEF Apartness, Separate, Shown, MayHold, Entitled, Memberships
  <2> QED
    BY <2>1, <2>2
<1>7. ASSUME NEW e \in Tools, using'[e] = NoUser, Busy(e)' = {} PROVE Bare(e)'
  <2>1. e # t
    BY <1>2, <1>7 DEF Busy
  <2>2. using[e] = NoUser /\ Busy(e) = {}
    BY <1>1, <1>7, <2>1 DEF Busy
  <2> QED
    BY <1>1, <2>2 DEF Apartness, Separate, Bare
<1>8. ASSUME NEW e \in Tools, e # t PROVE Shown(e)'
  BY <1>1, <1>8 DEF Apartness, Separate, Shown, MayHold, Entitled, Memberships
<1>9. Separate'
  BY <1>6, <1>7, <1>8 DEF Separate
<1> QED
  BY <1>1, <1>4, <1>5, <1>9 DEF Apartness, Swept

LEMMA NextApart ==
  ASSUME Benign, TypeOK, Turns, Apartness, [Next]_vars
  PROVE  Apartness'
<1> USE DEF Benign
<1>s. ASSUME UNCHANGED mounts PROVE \A t \in Tools : Shrinks(t)
  BY <1>s DEF Shrinks
<1>1. CASE Environment
  <2>1. ASSUME NEW u \in Users, NEW t \in Tools, MissRequest(u, t)
        PROVE  Apartness'
    <3>1. mode # "up" /\ UNCHANGED <<mode, mounts, pc, job>>
      BY <2>1 DEF MissRequest, store
    <3>2. \A w \in Workers : pc[w] = "idle"
      BY <3>1 DEF Turns, Halted
    <3> QED
      BY <3>1, <3>2
      DEF Apartness, Serves, Separate, Swept, Bare, MountPCs, UnmountPCs
  <2>2. ASSUME NEW t \in Tools,
               \/ ClientOpen(t) \/ ClientClose(t) \/ \E k \in Slots : ClientWrite(t, k)
        PROVE  Apartness'
    BY <2>2, <1>s, StillApart
    DEF ClientOpen, ClientClose, ClientWrite, store, clients
  <2> QED
    BY <1>1, <2>1, <2>2, RequestApart DEF Environment
<1>2. CASE Sync
  BY <1>2, <1>s, StillApart DEF Sync, clients
<1>3. ASSUME NEW w \in Workers, MountStep(w) \/ UnmountStep(w) PROVE Apartness'
  BY <1>3, MountApart, UnmountApart
<1>4. CASE Monitor
  <2>1. UNCHANGED <<mode, using, pc, job>>
    BY <1>4 DEF Monitor, MonWake, MonCheck, MonRead, MonDetach, MonRevoke,
                MonRemove, MonSleep, clients
  <2>2. \A t \in Tools : Shrinks(t)
    <3>1. ASSUME NEW k \in Slots, MonDetach(k) PROVE \A t \in Tools : Shrinks(t)
      <4>1. mon.sid[2] \in Tools
        BY DEF TypeOK, Sids
      <4> QED
        BY <3>1, <4>1, GracefulShrinks DEF MonDetach, Turns
    <3>2. CASE ~\E k \in Slots : MonDetach(k)
      BY <1>4, <3>2, <1>s DEF Monitor, MonWake, MonCheck, MonRead, MonRevoke,
                              MonRemove, MonSleep, store
    <3> QED
      BY <3>1, <3>2
  <2> QED
    BY <2>1, <2>2, StillApart
<1>5. CASE Crash
  <2>1. mode' = "down" /\ \A w \in Workers : pc'[w] = "idle"
    BY <1>5 DEF Crash
  <2> QED
    BY <2>1 DEF Apartness, Serves, Separate, Swept, MountPCs, UnmountPCs
<1>6. CASE Startup
  <2>1. UNCHANGED <<pc, job, using>> /\ \A w \in Workers : pc[w] = "idle"
    BY <1>6 DEF Startup, StartupUnmount, StartupWipe, StartupClear, clients,
                Turns, Halted
  <2>2. \A w \in Workers : Serves(w)'
    BY <2>1 DEF Serves, MountPCs, UnmountPCs
  <2>3. CASE StartupUnmount
    <3>1. \A t \in Tools : Bare(t)'
      <4>1. mounts' = [t \in Tools |-> [k \in Slots |->
                        IF <<t, k>> \in {} THEN mounts[t][k] ELSE <<>>]]
        BY <2>3, StartupTable
      <4> QED
        BY <4>1 DEF Bare
    <3> QED
      BY <2>2, <2>3, <3>1 DEF StartupUnmount, Apartness, Separate, Swept
  <2>4. CASE StartupWipe
    BY <2>2, <2>4 DEF StartupWipe, Apartness, Separate, Swept, Bare
  <2>5. CASE StartupClear
    <3>1. mode' = "up" /\ \A t \in Tools : Bare(t)'
      BY <2>5 DEF StartupClear, Apartness, Swept, Bare
    <3>2. \A t \in Tools : Shown(t)'
      BY <3>1 DEF Bare, Shown
    <3> QED
      BY <2>2, <3>1, <3>2 DEF Apartness, Separate, Swept
  <2> QED
    BY <1>6, <2>3, <2>4, <2>5 DEF Startup
<1>7. CASE UNCHANGED vars
  BY <1>7, <1>s, StillApart DEF vars, store, clients
<1> QED
  BY <1>1, <1>2, <1>3, <1>4, <1>5, <1>6, <1>7 DEF Next

LEMMA InitApart == Init => Apartness
<1> SUFFICES ASSUME Init PROVE Apartness
  OBVIOUS
<1> QED
  BY DEF Init, Apartness, Serves, Separate, Swept, MountPCs, UnmountPCs

\* The inductive invariant of the isolation argument.
THEOREM ApartnessInvariant ==
  ASSUME Benign PROVE Spec => [](TypeOK /\ Turns /\ Apartness)
<1>1. Init => TypeOK /\ Turns /\ Apartness
  BY InitType, InitTurns, InitApart
<1>2. TypeOK /\ Turns /\ Apartness /\ [Next]_vars => (TypeOK /\ Turns /\ Apartness)'
  BY NextType, NextTurns, NextApart DEF Benign
<1> QED
  BY <1>1, <1>2, PTL DEF Spec

\* Users who take turns at a tool never see each other's files, nor a project
\* they were never entitled to, although handle_mount takes whatever is
\* mounted for its own: if umount works, the mount table can be read and no
\* request is lost while the daemon is up, through crashes, restarts, failing
\* mounts and a failing database.
THEOREM SessionsAreIsolated == ASSUME Benign PROVE Spec => []Isolated
<1>1. TypeOK /\ Turns /\ Apartness => Isolated
  BY DEF Apartness, Separate, Shown, Isolated
<1> QED
  BY <1>1, ApartnessInvariant, PTL

-----------------------------------------------------------------------------
(* ToolAccess.                                                             *)

\* What can be reached through one tool.
View(t) ==
  UNION {{DirOf(mounts[t][k][i]) : i \in DOMAIN mounts[t][k]} : k \in Slots}

LEMMA VisibleView ==
  /\ Visible = [t \in Tools |-> View(t)]
  /\ Visible' = [t \in Tools |-> View(t)']
BY DEF Visible, View, DirOf, PublicRW, PublicRO, Public

LEMMA BareView == ASSUME NEW t \in Tools, Bare(t) PROVE View(t) = {}
BY DEF Bare, View

LEMMA SameView ==
  ASSUME NEW t \in Tools, \A k \in Slots : mounts'[t][k] = mounts[t][k]
  PROVE  View(t)' = View(t)
BY DEF View, DirOf, PublicRW, PublicRO, Public

LEMMA ShrinkView ==
  ASSUME NEW t \in Tools, Shrinks(t)
  PROVE  View(t)' \subseteq View(t)
<1>1. ASSUME NEW k \in Slots, NEW i \in DOMAIN mounts'[t][k]
      PROVE  i \in DOMAIN mounts[t][k] /\ mounts'[t][k][i] = mounts[t][k][i]
  BY <1>1 DEF Shrinks
<1> QED
  BY <1>1 DEF View, DirOf, PublicRW, PublicRO, Public

LEMMA PushView ==
  ASSUME TypeOK, NoStacking, NEW t \in Tools, NEW k \in Slots,
         NEW src \in Sources, mounts[t][k] = <<>>, Push(t, k, src)
  PROVE  /\ View(t)' = View(t) \cup {DirOf(src)}
         /\ \A e \in Tools : e # t => View(e)' = View(e)
<1>1. /\ mounts'[t][k] = <<src>>
      /\ \A e \in Tools, l \in Slots :
           <<e, l>> # <<t, k>> => mounts'[e][l] = mounts[e][l]
  BY PushFree
<1>2. /\ DOMAIN <<src>> = {1} /\ <<src>>[1] = src
      /\ DOMAIN <<>> = {}
  BY OneSource
<1> DEFINE At(l) == {DirOf(mounts[t][l][i]) : i \in DOMAIN mounts[t][l]}
           Now(l) == {DirOf(mounts'[t][l][i]) : i \in DOMAIN mounts'[t][l]}
<1>3. Now(k) = {DirOf(src)} /\ At(k) = {}
  BY <1>1, <1>2
<1>4. \A l \in Slots : l # k => Now(l) = At(l)
  BY <1>1
<1>5. View(t) = UNION {At(l) : l \in Slots}
  BY DEF View
<1>6. View(t)' = UNION {Now(l) : l \in Slots}
  BY DEF View, DirOf, PublicRW, PublicRO, Public
<1> HIDE DEF At, Now
<1>7. View(t)' = View(t) \cup {DirOf(src)}
  BY <1>3, <1>4, <1>5, <1>6
<1>8. \A e \in Tools : e # t => View(e)' = View(e)
  BY <1>1, SameView
<1> QED
  BY <1>7, <1>8

\* The remount shows the same directory.
LEMMA RemountView ==
  ASSUME TypeOK, NoStacking, Published, NEW t \in Tools,
         mounts[t][Public] # <<>>,
         mounts' = [mounts EXCEPT ![t][Public] = <<PublicRO>> \o Tail(@)]
  PROVE  \A e \in Tools : View(e)' = View(e)
<1>1. /\ mounts'[t][Public] = <<PublicRO>>
      /\ \A e \in Tools, l \in Slots :
           <<e, l>> # <<t, Public>> => mounts'[e][l] = mounts[e][l]
  BY RemountFree
<1>2. /\ DOMAIN <<PublicRO>> = {1} /\ <<PublicRO>>[1] = PublicRO
      /\ DirOf(PublicRO) = Public /\ DirOf(PublicRW) = Public
  BY OneSource, Constants DEF DirOf
<1>3. mounts[t][Public] \in Seq(Sources) /\ Len(mounts[t][Public]) = 1
  <2>1. mounts[t][Public] \in Seq(Sources) /\ Len(mounts[t][Public]) <= 1
    BY Constants DEF TypeOK, NoStacking
  <2>2. Len(mounts[t][Public]) \in Nat \ {0}
    BY <2>1, EmptySeq
  <2> QED
    BY <2>1, <2>2
<1>4. DOMAIN mounts[t][Public] = {1}
  BY <1>3, LenProperties
<1> DEFINE At(l) == {DirOf(mounts[t][l][i]) : i \in DOMAIN mounts[t][l]}
           Now(l) == {DirOf(mounts'[t][l][i]) : i \in DOMAIN mounts'[t][l]}
<1>5. Now(Public) = {Public} /\ At(Public) = {Public}
  BY <1>1, <1>2, <1>4 DEF Published
<1>6. \A l \in Slots : Now(l) = At(l)
  BY <1>1, <1>5
<1>7. View(t) = UNION {At(l) : l \in Slots}
  BY DEF View
<1>8. View(t)' = UNION {Now(l) : l \in Slots}
  BY DEF View, DirOf, PublicRW, PublicRO, Public
<1> HIDE DEF At, Now
<1>9. View(t)' = View(t)
  BY <1>6, <1>7, <1>8
<1>10. \A e \in Tools : e # t => View(e)' = View(e)
  BY <1>1, SameView
<1> QED
  BY <1>9, <1>10

-----------------------------------------------------------------------------
(* Steps of the abstract specification.                                    *)

AccessStep == Access!Next \/ UNCHANGED <<mode = "up", using, Visible>>

LEMMA Stutters ==
  ASSUME UNCHANGED using, (mode' = "up") = (mode = "up"),
         \A t \in Tools : View(t)' = View(t)
  PROVE  AccessStep
<1>1. Visible' = Visible
  BY VisibleView
<1> QED
  BY <1>1 DEF AccessStep

LEMMA Withdraws ==
  ASSUME mode = "up", UNCHANGED <<mode, using>>, NEW t \in Tools, Shrinks(t),
         \A e \in Tools : e # t => View(e)' = View(e)
  PROVE  AccessStep
<1>1. View(t)' \in SUBSET View(t)
  BY ShrinkView
<1>2. Visible' = [Visible EXCEPT ![t] = View(t)'] /\ Visible[t] = View(t)
  BY VisibleView
<1>3. Access!Withdraw(t)
  BY <1>1, <1>2 DEF Access!Withdraw
<1> QED
  BY <1>3 DEF AccessStep, Access!Next

LEMMA ShowsMore ==
  ASSUME TypeOK, NoStacking, mode = "up", UNCHANGED <<mode, using>>,
         NEW t \in Tools, NEW k \in Slots, NEW src \in Sources,
         mounts[t][k] = <<>>, Push(t, k, src),
         using[t] \in Users, MayHold(using[t], src)
  PROVE  AccessStep
<1>1. Visible' = [Visible EXCEPT ![t] = Visible[t] \cup {DirOf(src)}]
  BY PushView, VisibleView
<1>2. DirOf(src) \in StorageDirs /\ <<using[t], DirOf(src)>> \in MaySee
  BY DEF StorageDirs, MaySee
<1>3. Access!Show(t, DirOf(src))
  BY <1>1, <1>2 DEF Access!Show
<1> QED
  BY <1>2, <1>3 DEF AccessStep, Access!Next

LEMMA RequestAccess ==
  ASSUME Orderly, TypeOK, Apartness, NEW w \in Workers, NEW u \in Users,
         NEW t \in Tools,
         (\E p \in Projects : SendMount(w, u, t, p))
           \/ \E named \in BOOLEAN : SendUnmount(w, u, t, named)
  PROVE  AccessStep
<1>1. mode = "up" /\ UNCHANGED <<mode, mounts>>
  BY DEF SendMount, SendUnmount, Start, store
<1>2. Visible' = Visible
  BY <1>1, SameView, VisibleView
<1>3. CASE \E named \in BOOLEAN : SendUnmount(w, u, t, named)
  <2>1. Access!CheckOut(t)
    BY <1>1, <1>2, <1>3 DEF SendUnmount, Access!CheckOut
  <2> QED
    BY <2>1 DEF AccessStep, Access!Next
<1>4. CASE \E p \in Projects : SendMount(w, u, t, p)
  <2>1. using[t] \in {NoUser, u} /\ Busy(t) = {}
        /\ using' = [using EXCEPT ![t] = u]
    BY <1>4 DEF SendMount, Turn
  <2>2. CASE using[t] = u
    <3>1. using' = using
      BY <2>1, <2>2 DEF TypeOK
    <3> QED
      BY <1>1, <3>1, SameView, Stutters
  <2>3. CASE using[t] = NoUser
    <3>1. Visible[t] = {}
      BY <1>1, <2>1, <2>3, BareView, VisibleView DEF Apartness, Separate
    <3>2. Access!CheckIn(t, u)
      BY <1>1, <1>2, <2>1, <2>3, <3>1 DEF Access!CheckIn
    <3> QED
      BY <3>2 DEF AccessStep, Access!Next
  <2> QED
    BY <2>1, <2>2, <2>3
<1> QED
  BY <1>3, <1>4

LEMMA MountAccess ==
  ASSUME ~ReadCanFail, TypeOK, Turns, Apartness, Published, NEW w \in Workers,
         MountStep(w)
  PROVE  AccessStep
<1>0. /\ pc[w] \in MountPCs /\ pc[w] # "idle" /\ job[w] \in Job
      /\ UNCHANGED <<mode, using>>
  BY DEF TypeOK, MountStep, MountUser, MountAdmit, MountFiles, MountBindFiles,
         MountGroup, MountBindGroup, MountPublic, MountBindPublic,
         MountRemount, MountSave, MountPCs, clients
<1>1. mode = "up" /\ NoStacking /\ Informed(w)
  BY <1>0 DEF Turns, Halted
<1> DEFINE t == job[w].tool
           u == job[w].user
           p == job[w].project
<1>t. t \in Tools /\ u \in Users /\ p \in Projects
  BY <1>0 DEF Job
<1>2. using[t] = u /\ (pc[w] = "m_bind_group" => Entitled(u, p))
  BY <1>0 DEF Apartness, Serves
<1>3. ASSUME UNCHANGED mounts PROVE AccessStep
  BY <1>0, <1>3, SameView, Stutters
<1>4. CASE MountBindFiles(w)
  <2>1. Push(t, Files, UserFiles(u)) \/ UNCHANGED mounts
    BY <1>4 DEF MountBindFiles
  <2>2. mounts[t][Files] = <<>> /\ MayHold(u, UserFiles(u))
    BY <1>1, <1>4 DEF MountBindFiles, Informed, MayHold
  <2> QED
    BY <1>0, <1>1, <1>t, <1>2, <1>3, <2>1, <2>2, Constants, ShowsMore
<1>5. CASE MountBindGroup(w)
  <2>1. Push(t, Group(p), ProjectFiles(p)) \/ UNCHANGED mounts
    BY <1>5 DEF MountBindGroup
  <2>2. mounts[t][Group(p)] = <<>> /\ MayHold(u, ProjectFiles(p))
    BY <1>1, <1>t, <1>2, <1>5 DEF MountBindGroup, Informed, MayHold
  <2> QED
    BY <1>0, <1>1, <1>t, <1>2, <1>3, <2>1, <2>2, Constants, ShowsMore
<1>6. CASE MountBindPublic(w)
  <2>1. Push(t, Public, PublicRW) \/ UNCHANGED mounts
    BY <1>6 DEF MountBindPublic
  <2>2. mounts[t][Public] = <<>> /\ MayHold(u, PublicRW)
    BY <1>1, <1>6 DEF MountBindPublic, Informed, MayHold
  <2> QED
    BY <1>0, <1>1, <1>t, <1>2, <1>3, <2>1, <2>2, Constants, ShowsMore
<1>7. CASE MountRemount(w)
  <2>1. \/ UNCHANGED mounts
        \/ /\ mounts[t][Public] # <<>>
           /\ mounts' = [mounts EXCEPT ![t][Public] = <<PublicRO>> \o Tail(@)]
    BY <1>7 DEF MountRemount
  <2> QED
    BY <1>0, <1>1, <1>t, <1>3, <2>1, RemountView, Stutters
<1>8. CASE ~(\/ MountBindFiles(w) \/ MountBindGroup(w) \/ MountBindPublic(w)
             \/ MountRemount(w))
  <2>1. UNCHANGED mounts
    BY <1>8 DEF MountStep, MountUser, MountAdmit, MountFiles, MountGroup,
                MountPublic, MountSave
  <2> QED
    BY <1>3, <2>1
<1> QED
  BY <1>4, <1>5, <1>6, <1>7, <1>8

LEMMA GracefulAccess ==
  ASSUME ~ReadCanFail, TypeOK, NoStacking, mode = "up", UNCHANGED <<mode, using>>,
         NEW t \in Tools, NEW k \in Slots, NEW success,
         GracefulUnmount(t, k, success)
  PROVE  AccessStep
<1>1. /\ Shrinks(t)
      /\ \A e \in Tools, l \in Slots :
           <<e, l>> # <<t, k>> => mounts'[e][l] = mounts[e][l]
  BY GracefulShrinks
<1>2. \A e \in Tools : e # t => View(e)' = View(e)
  BY <1>1, SameView
<1> QED
  BY <1>1, <1>2, Withdraws

LEMMA UnmountAccess ==
  ASSUME ~ReadCanFail, TypeOK, Turns, NEW w \in Workers, UnmountStep(w)
  PROVE  AccessStep
<1>1. pc[w] # "idle" /\ UNCHANGED <<mode, using>>
  BY DEF UnmountStep, UnmountFind, UnmountScan, UnmountDetach, UnmountDetached,
         UnmountRevoke, UnmountRemove, clients
<1>2. mode = "up" /\ NoStacking
  BY <1>1 DEF Turns, Halted
<1>3. ASSUME NEW t \in Tools, NEW k \in Slots, UnmountDetach(w, t, k)
      PROVE  AccessStep
  BY <1>1, <1>2, <1>3, GracefulAccess DEF UnmountDetach
<1>4. CASE ~\E t \in Tools, k \in Slots : UnmountDetach(w, t, k)
  <2>1. UNCHANGED mounts
    BY <1>4 DEF UnmountStep, UnmountFind, UnmountScan, UnmountDetached,
                UnmountRevoke, UnmountRemove, store
  <2> QED
    BY <1>1, <2>1, SameView, Stutters
<1> QED
  BY <1>3, <1>4

\* The monitor works only while the daemon is up.
MonitorHalted == mode # "up" => mon.pc = "sleep"

LEMMA NextMonitorHalted ==
  ASSUME TypeOK, MonitorHalted, [Next]_vars
  PROVE  MonitorHalted'
<1>1. ASSUME NEW w \in Workers, MountStep(w) \/ UnmountStep(w)
      PROVE  UNCHANGED <<mode, mon>>
  BY <1>1 DEF MountStep, MountUser, MountAdmit, MountFiles, MountBindFiles,
     MountGroup, MountBindGroup, MountPublic, MountBindPublic, MountRemount,
     MountSave, UnmountStep, UnmountFind, UnmountScan, UnmountDetach,
     UnmountDetached, UnmountRevoke, UnmountRemove
<1>2. ASSUME Environment \/ Sync \/ UNCHANGED vars PROVE UNCHANGED <<mode, mon>>
  BY <1>2 DEF Environment, SendMount, SendUnmount, Start, MissRequest,
     ClientOpen, ClientClose, ClientWrite, Sync, vars
<1>3. ASSUME Monitor PROVE mode' = mode /\ mode = "up"
  BY <1>3 DEF MonitorHalted, Monitor, MonWake, MonCheck, MonRead, MonDetach,
     MonRevoke, MonRemove, MonSleep
<1>4. ASSUME Crash PROVE MonitorHalted'
  BY <1>4 DEF Crash, MonIdle, MonitorHalted
<1>5. ASSUME Startup PROVE mode # "up" /\ UNCHANGED mon
  BY <1>5 DEF Startup, StartupUnmount, StartupWipe, StartupClear
<1> QED
  BY <1>1, <1>2, <1>3, <1>4, <1>5 DEF Next, MonitorHalted

LEMMA MonitorAccess ==
  ASSUME ~ReadCanFail, TypeOK, Turns, MonitorHalted, Monitor
  PROVE  AccessStep
<1>1. UNCHANGED <<mode, using>> /\ NoStacking
  BY DEF Monitor, MonWake, MonCheck, MonRead, MonDetach, MonRevoke, MonRemove,
         MonSleep, clients, Turns
<1>2. ASSUME NEW k \in Slots, MonDetach(k) PROVE AccessStep
  <2>1. mon.sid[2] \in Tools
    BY DEF TypeOK, Sids
  <2>2. mode = "up"
    BY <1>2 DEF MonDetach, MonitorHalted
  <2> QED
    BY <1>1, <1>2, <2>1, <2>2, GracefulAccess DEF MonDetach
<1>3. CASE ~\E k \in Slots : MonDetach(k)
  <2>1. UNCHANGED mounts
    BY <1>3 DEF Monitor, MonWake, MonCheck, MonRead, MonRevoke, MonRemove,
                MonSleep, store
  <2> QED
    BY <1>1, <2>1, SameView, Stutters
<1> QED
  BY <1>2, <1>3

LEMMA DownAccess ==
  ASSUME ~UmountCanFail, ~ReadCanFail, TypeOK, Apartness, Crash \/ Startup
  PROVE  AccessStep
<1>1. UNCHANGED using
  BY DEF Crash, Startup, StartupUnmount, StartupWipe, StartupClear, clients
<1>2. CASE Crash
  <2>1. UNCHANGED mounts /\ mode' # "up"
    BY <1>2 DEF Crash, store
  <2>2. Visible' = Visible
    BY <2>1, SameView, VisibleView
  <2>3. CASE mode = "up"
    <3>1. Access!Close
      BY <1>1, <2>1, <2>2, <2>3 DEF Access!Close
    <3> QED
      BY <3>1 DEF AccessStep, Access!Next
  <2>4. CASE mode # "up"
    BY <1>1, <2>1, <2>4, SameView, Stutters
  <2> QED
    BY <2>3, <2>4
<1>3. CASE StartupUnmount
  <2>1. \A t \in Tools : Bare(t)'
    <3>1. mounts' = [t \in Tools |-> [k \in Slots |->
                       IF <<t, k>> \in {} THEN mounts[t][k] ELSE <<>>]]
      BY <1>3, StartupTable
    <3> QED
      BY <3>1 DEF Bare
  <2>2. \A t \in Tools : View(t)' = {}
    BY <2>1 DEF Bare, View
  <2>3. Visible' = [t \in Tools |-> {}]
    BY <2>2, VisibleView
  <2>4. Access!Sweep
    BY <1>1, <1>3, <2>3 DEF StartupUnmount, Access!Sweep
  <2> QED
    BY <2>4 DEF AccessStep, Access!Next
<1>4. CASE StartupWipe
  BY <1>1, <1>4, SameView, Stutters DEF StartupWipe
<1>5. CASE StartupClear
  <2>1. UNCHANGED mounts /\ mode = "wiped" /\ mode' = "up"
    BY <1>5 DEF StartupClear
  <2>2. Visible' = Visible
    BY <2>1, SameView, VisibleView
  <2>3. \A t \in Tools : Visible[t] = {}
    BY <2>1, BareView, VisibleView DEF Apartness, Swept
  <2>4. Access!Open
    BY <1>1, <2>1, <2>2, <2>3 DEF Access!Open
  <2> QED
    BY <2>4 DEF AccessStep, Access!Next
<1> QED
  BY <1>2, <1>3, <1>4, <1>5 DEF Startup

LEMMA NextAccess ==
  ASSUME Benign, TypeOK, Turns, Apartness, Published, MonitorHalted, [Next]_vars
  PROVE  AccessStep
<1> USE DEF Benign
<1>1. CASE Environment
  <2>1. ASSUME NEW u \in Users, NEW t \in Tools, MissRequest(u, t)
        PROVE  AccessStep
    <3>1. mode # "up" /\ UNCHANGED <<mode, mounts>>
      BY <2>1 DEF MissRequest, store
    <3>2. Visible' = Visible
      BY <3>1, SameView, VisibleView
    <3>3. PICK v \in {NoUser, u} : using' = [using EXCEPT ![t] = v]
      BY <2>1 DEF MissRequest
    <3>4. Access!HandOver(t, v)
      BY <3>1, <3>2, <3>3 DEF Access!HandOver
    <3> QED
      BY <3>4 DEF AccessStep, Access!Next
  <2>2. ASSUME NEW t \in Tools,
               \/ ClientOpen(t) \/ ClientClose(t) \/ \E k \in Slots : ClientWrite(t, k)
        PROVE  AccessStep
    BY <2>2, SameView, Stutters
    DEF ClientOpen, ClientClose, ClientWrite, store, clients
  <2> QED
    BY <1>1, <2>1, <2>2, RequestAccess DEF Environment
<1>2. CASE Sync
  BY <1>2, SameView, Stutters DEF Sync, clients
<1>3. ASSUME NEW w \in Workers, MountStep(w) \/ UnmountStep(w) PROVE AccessStep
  BY <1>3, MountAccess, UnmountAccess
<1>4. CASE UNCHANGED vars
  BY <1>4, SameView, Stutters DEF vars, store, clients
<1> QED
  BY <1>1, <1>2, <1>3, <1>4, MonitorAccess, DownAccess DEF Next

LEMMA InitAccess == Init => Access!Init
<1> SUFFICES ASSUME Init PROVE Access!Init
  OBVIOUS
<1>1. \A t \in Tools : Bare(t)
  BY DEF Init, Bare
<1>2. Visible = [t \in Tools |-> {}]
  BY <1>1, BareView, VisibleView
<1> QED
  BY <1>2 DEF Init, Access!Init

\* The daemon, for any users, tools, projects and threads, gives no more
\* access than ToolAccess: if umount works, the mount table can be read and
\* requests come in turn and are not lost, through crashes, restarts, failing
\* mounts and a failing database.
THEOREM DaemonImplementsToolAccess ==
  ASSUME Benign PROVE Spec => ImplementsToolAccess
<1>1. Init => Published /\ MonitorHalted
  <2> SUFFICES ASSUME Init PROVE Published /\ MonitorHalted
    OBVIOUS
  <2>1. MonitorHalted
    BY DEF Init, MonIdle, MonitorHalted
  <2>2. Published
    BY Constants DEF Init, Published
  <2> QED
    BY <2>1, <2>2
<1>2. TypeOK /\ Turns /\ Apartness /\ Published /\ MonitorHalted /\ [Next]_vars
        => (Published /\ MonitorHalted)'
  BY NextPublished, NextMonitorHalted DEF Benign
<1>3. TypeOK /\ Turns /\ Apartness /\ Published /\ MonitorHalted /\ [Next]_vars
        => [Access!Next]_<<mode = "up", using, Visible>>
  BY NextAccess DEF AccessStep
<1> QED
  BY <1>1, <1>2, <1>3, InitAccess, ApartnessInvariant, PTL
  DEF Spec, ImplementsToolAccess, Access!Spec, Access!vars
==============================================================================
