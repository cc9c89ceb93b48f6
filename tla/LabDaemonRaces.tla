---------------------------- MODULE LabDaemonRaces ----------------------------
(* Proofs about requests that race each other: stacks of mounts stay         *)
(* bounded, and a mount goes away only through work on its own tool.         *)
EXTENDS LabDaemonProofs, FiniteSetTheorems

BindPCs == {"m_bind_files", "m_bind_group", "m_bind_public"}

\* A target that has got no more mounts and no more threads about to bind it.
Relieved(t, k) ==
  /\ Len(mounts'[t][k]) <= Len(mounts[t][k])
  /\ Binding(t, k)' \subseteq Binding(t, k)

Bounded(t, k) ==
  Len(mounts[t][k]) + Cardinality(Binding(t, k)) <= Cardinality(Workers)

LEMMA BindingFinite ==
  ASSUME NEW t \in Tools, NEW k \in Slots
  PROVE  /\ IsFiniteSet(Binding(t, k)) /\ IsFiniteSet(Binding(t, k)')
         /\ Cardinality(Binding(t, k)) \in Nat
         /\ Cardinality(Binding(t, k)') \in Nat
         /\ Cardinality(Binding(t, k)') <= Cardinality(Workers)
         /\ Cardinality(Workers) \in Nat
<1>1. IsFiniteSet(Workers)
  BY WorkersAssumption DEF WorkersAssumption
<1>2. Binding(t, k) \in SUBSET Workers /\ Binding(t, k)' \in SUBSET Workers
  BY DEF Binding, Busy
<1> QED
  BY <1>1, <1>2, FS_Subset, FS_CardinalityType

LEMMA StackLengths ==
  ASSUME TypeOK, NEW t \in Tools, NEW k \in Slots
  PROVE  Len(mounts[t][k]) \in Nat
<1>1. mounts[t][k] \in Seq(Sources)
  BY DEF TypeOK
<1> QED
  BY <1>1, LenProperties

LEMMA RelievedBounded ==
  ASSUME TypeOK, TypeOK', NEW t \in Tools, NEW k \in Slots, Bounded(t, k),
         Relieved(t, k)
  PROVE  Bounded(t, k)'
<1>1. Cardinality(Binding(t, k)') <= Cardinality(Binding(t, k))
  BY BindingFinite, FS_Subset DEF Relieved
<1>2. Len(mounts[t][k]) \in Nat /\ Len(mounts'[t][k]) \in Nat
  <2>1. mounts[t][k] \in Seq(Sources) /\ mounts'[t][k] \in Seq(Sources)
    BY DEF TypeOK
  <2> QED
    BY <2>1, LenProperties
<1> QED
  BY <1>1, <1>2, BindingFinite DEF Relieved, Bounded

LEMMA AllRelieved ==
  ASSUME TypeOK, TypeOK', StackBounded,
         \A t \in Tools, k \in Slots : Relieved(t, k)
  PROVE  StackBounded'
<1>1. ASSUME NEW t \in Tools, NEW k \in Slots PROVE Bounded(t, k)'
  BY <1>1, RelievedBounded DEF StackBounded, Bounded
<1> QED
  BY <1>1 DEF StackBounded, Bounded

\* What a step of one thread does to the sets of threads about to bind.
LEMMA OthersBind ==
  ASSUME NEW w \in Workers, NEW t \in Tools, NEW k \in Slots,
         \A v \in Workers \ {w} : pc'[v] = pc[v] /\ job'[v] = job[v]
  PROVE  /\ Binding(t, k)' \subseteq Binding(t, k) \cup {w}
         /\ pc'[w] \notin BindPCs => Binding(t, k)' \subseteq Binding(t, k) \ {w}
BY DEF Binding, Busy, BindPCs, Group

LEMMA LeavesBounded ==
  ASSUME TypeOK, TypeOK', StackBounded, NEW w \in Workers,
         \A v \in Workers \ {w} : pc'[v] = pc[v] /\ job'[v] = job[v],
         pc'[w] \notin BindPCs,
         \A t \in Tools, k \in Slots : Len(mounts'[t][k]) <= Len(mounts[t][k])
  PROVE  StackBounded'
<1>1. \A t \in Tools, k \in Slots : Relieved(t, k)
  BY OthersBind DEF Relieved
<1> QED
  BY <1>1, AllRelieved

\* A probe that finds the target free.
LEMMA ProbeBounded ==
  ASSUME TypeOK, TypeOK', StackBounded, NEW w \in Workers,
         \A v \in Workers \ {w} : pc'[v] = pc[v] /\ job'[v] = job[v],
         UNCHANGED mounts, NEW t \in Tools, NEW k \in Slots, mounts[t][k] = <<>>,
         \A e \in Tools, l \in Slots :
           w \in Binding(e, l)' => e = t /\ l = k
  PROVE  StackBounded'
<1>1. ASSUME NEW e \in Tools, NEW l \in Slots PROVE Bounded(e, l)'
  <2>1. ASSUME e = t, l = k PROVE Bounded(t, k)'
    <3>1. Len(mounts'[t][k]) = 0
      BY EmptySeq
    <3> QED
      BY <3>1, BindingFinite DEF Bounded
  <2>2. ASSUME ~(e = t /\ l = k) PROVE Bounded(e, l)'
    <3>1. Binding(e, l)' \subseteq Binding(e, l)
      BY <2>2, OthersBind
    <3>2. Len(mounts'[e][l]) = Len(mounts[e][l])
      OBVIOUS
    <3>3. Relieved(e, l)
      BY <3>1, <3>2, StackLengths DEF Relieved
    <3> QED
      BY <3>3, RelievedBounded DEF StackBounded, Bounded
  <2> QED
    BY <2>1, <2>2
<1> QED
  BY <1>1 DEF StackBounded, Bounded

\* A bind trades a thread about to bind for a mount.
LEMMA BindBounded ==
  ASSUME TypeOK, TypeOK', StackBounded, NEW w \in Workers,
         \A v \in Workers \ {w} : pc'[v] = pc[v] /\ job'[v] = job[v],
         pc'[w] \notin BindPCs,
         NEW t \in Tools, NEW k \in Slots, NEW src \in Sources,
         w \in Binding(t, k), Push(t, k, src)
  PROVE  StackBounded'
<1>m. mounts \in Mounts
  BY DEF TypeOK, Mounts
<1>1. Len(mounts'[t][k]) = Len(mounts[t][k]) + 1
  <2>1. <<src>> \in Seq(Sources) /\ Len(<<src>>) = 1
    OBVIOUS
  <2>2. mounts'[t][k] = <<src>> \o mounts[t][k] /\ mounts[t][k] \in Seq(Sources)
    BY <1>m, PushTable DEF Mounts
  <2>3. Len(<<src>> \o mounts[t][k]) = Len(<<src>>) + Len(mounts[t][k])
    BY <2>1, <2>2, ConcatProperties
  <2> QED
    BY <2>1, <2>2, <2>3, StackLengths
<1>2. ASSUME NEW e \in Tools, NEW l \in Slots PROVE Bounded(e, l)'
  <2>1. Binding(e, l)' \subseteq Binding(e, l) \ {w}
    BY OthersBind
  <2>2. ASSUME e = t, l = k PROVE Bounded(t, k)'
    <3>1. /\ IsFiniteSet(Binding(t, k) \ {w})
          /\ Cardinality(Binding(t, k) \ {w}) = Cardinality(Binding(t, k)) - 1
      BY BindingFinite, FS_RemoveElement
    <3>2. Cardinality(Binding(t, k)') <= Cardinality(Binding(t, k) \ {w})
      BY <2>1, <2>2, <3>1, FS_Subset
    <3>3. /\ Len(mounts[t][k]) + Cardinality(Binding(t, k)) <= Cardinality(Workers)
          /\ Len(mounts[t][k]) \in Nat
      BY StackLengths DEF StackBounded
    <3>4. /\ Cardinality(Binding(t, k)) \in Nat
          /\ Cardinality(Binding(t, k)') \in Nat
          /\ Cardinality(Workers) \in Nat
      BY BindingFinite
    <3> QED
      BY <1>1, <3>1, <3>2, <3>3, <3>4 DEF Bounded
  <2>3. ASSUME ~(e = t /\ l = k) PROVE Bounded(e, l)'
    <3>1. mounts'[e][l] = mounts[e][l]
      BY <1>m, <2>3, PushTable
    <3>2. Relieved(e, l)
      BY <2>1, <3>1, StackLengths DEF Relieved
    <3> QED
      BY <3>2, RelievedBounded DEF StackBounded, Bounded
  <2> QED
    BY <2>2, <2>3
<1> QED
  BY <1>2 DEF StackBounded, Bounded

LEMMA DetachShortens ==
  ASSUME TypeOK, NEW t \in Tools, NEW k \in Slots, NEW success,
         GracefulUnmount(t, k, success)
  PROVE  \A e \in Tools, l \in Slots : Len(mounts'[e][l]) <= Len(mounts[e][l])
BY GracefulLessens DEF Lessens

LEMMA RemountKeeps ==
  ASSUME TypeOK, NEW t \in Tools, mounts[t][Public] # <<>>,
         mounts' = [mounts EXCEPT ![t][Public] = <<PublicRO>> \o Tail(@)]
  PROVE  \A e \in Tools, l \in Slots : Len(mounts'[e][l]) = Len(mounts[e][l])
<1>m. mounts \in Mounts /\ Public \in Slots /\ PublicRO \in Sources
  BY Constants DEF TypeOK, Mounts
<1>1. mounts[t][Public] \in Seq(Sources)
  BY <1>m DEF Mounts
<1>2. /\ Tail(mounts[t][Public]) \in Seq(Sources)
      /\ Len(Tail(mounts[t][Public])) = Len(mounts[t][Public]) - 1
      /\ Len(mounts[t][Public]) \in Nat
  BY <1>m, <1>1, HeadTailProperties, StackLengths
<1>3. <<PublicRO>> \in Seq(Sources) /\ Len(<<PublicRO>>) = 1
  BY <1>m
<1>4. Len(<<PublicRO>> \o Tail(mounts[t][Public])) = Len(mounts[t][Public])
  BY <1>2, <1>3, ConcatProperties
<1>5. /\ mounts'[t][Public] = <<PublicRO>> \o Tail(mounts[t][Public])
      /\ \A e \in Tools, l \in Slots :
           <<e, l>> # <<t, Public>> => mounts'[e][l] = mounts[e][l]
  BY <1>m, RemountTable
<1> SUFFICES ASSUME NEW e \in Tools, NEW l \in Slots
             PROVE  Len(mounts'[e][l]) = Len(mounts[e][l])
  OBVIOUS
<1>6. ASSUME e = t, l = Public PROVE Len(mounts'[t][Public]) = Len(mounts[t][Public])
  BY <1>2, <1>4, <1>5
<1>7. ASSUME ~(e = t /\ l = Public) PROVE Len(mounts'[e][l]) = Len(mounts[e][l])
  BY <1>5, <1>7, <1>m, StackLengths
<1> QED
  BY <1>6, <1>7

LEMMA MountBounded ==
  ASSUME ~ReadCanFail, TypeOK, TypeOK', StackBounded, NEW w \in Workers,
         MountStep(w)
  PROVE  StackBounded'
<1> USE DEF Goto, Done
<1>0. /\ pc[w] # "idle" /\ job[w] \in Job
      /\ pc \in [Workers -> {"idle"} \cup MountPCs \cup UnmountPCs]
      /\ job \in [Workers -> Job \cup {NoJob}]
  BY DEF TypeOK, MountStep, MountUser, MountAdmit, MountFiles, MountBindFiles,
         MountGroup, MountBindGroup, MountPublic, MountBindPublic,
         MountRemount, MountSave
<1>t. PICK t \in Tools : job[w].tool = t
  BY <1>0 DEF Job
<1>u. job[w].user \in Users /\ job[w].project \in Projects
  BY <1>0 DEF Job
<1>v. \A v \in Workers \ {w} : pc'[v] = pc[v] /\ job'[v] = job[v]
  BY <1>0 DEF MountStep, MountUser, MountAdmit, MountFiles, MountBindFiles,
              MountGroup, MountBindGroup, MountPublic, MountBindPublic,
              MountRemount, MountSave
<1>k. ASSUME UNCHANGED mounts, pc'[w] \notin BindPCs PROVE StackBounded'
  <2>1. \A e \in Tools, l \in Slots : Len(mounts'[e][l]) <= Len(mounts[e][l])
    BY <1>k, StackLengths
  <2> QED
    BY <1>v, <1>k, <2>1, LeavesBounded
<1>1. CASE MountUser(w) \/ MountAdmit(w) \/ MountSave(w)
  <2>1. UNCHANGED mounts /\ pc'[w] \in {"idle", "m_admit", "m_files"}
    BY <1>0, <1>1 DEF MountUser, MountAdmit, MountSave
  <2> QED
    BY <1>k, <2>1 DEF BindPCs
<1>2. CASE MountFiles(w)
  <2>1. UNCHANGED <<mounts, job>>
    BY <1>2 DEF MountFiles, SeemsFree
  <2>2. CASE mounts[t][Files] = <<>>
    <3>1. pc'[w] = "m_bind_files"
      BY <1>0, <1>2, <1>t, <2>2 DEF MountFiles, SeemsFree
    <3>2. \A e \in Tools, l \in Slots : w \in Binding(e, l)' => e = t /\ l = Files
      BY <1>t, <2>1, <3>1 DEF Binding, Busy
    <3> QED
      BY <1>v, <2>1, <2>2, <3>2, Constants, ProbeBounded
  <2>3. CASE mounts[t][Files] # <<>>
    BY <1>0, <1>2, <1>t, <1>k, <2>1, <2>3 DEF MountFiles, SeemsFree, BindPCs
  <2> QED
    BY <2>2, <2>3
<1>3. CASE MountBindFiles(w)
  <2>1. pc[w] = "m_bind_files" /\ pc'[w] \notin BindPCs
    BY <1>0, <1>3 DEF MountBindFiles, BindPCs
  <2>2. w \in Binding(t, Files)
    BY <1>t, <1>0, <2>1 DEF Binding, Busy
  <2>3. CASE Push(t, Files, UserFiles(job[w].user))
    BY <1>v, <1>u, <2>1, <2>2, <2>3, Constants, BindBounded
  <2> QED
    BY <1>3, <1>t, <1>k, <2>1, <2>3 DEF MountBindFiles
<1>4. ASSUME NEW p \in Projects, MountGroup(w, p) PROVE StackBounded'
  <2>1. UNCHANGED mounts /\ job'[w].tool = t /\ job'[w].project = p
    BY <1>0, <1>4, <1>t DEF MountGroup, Job
  <2>2. CASE mounts[t][Group(p)] = <<>>
    <3>1. pc'[w] = "m_bind_group"
      BY <1>0, <1>4, <1>t, <2>2 DEF MountGroup, SeemsFree
    <3>2. \A e \in Tools, l \in Slots : w \in Binding(e, l)' => e = t /\ l = Group(p)
      BY <2>1, <3>1 DEF Binding, Busy, Group
    <3> QED
      BY <1>v, <2>1, <2>2, <3>2, Constants, ProbeBounded
  <2>3. CASE mounts[t][Group(p)] # <<>>
    BY <1>0, <1>4, <1>t, <1>k, <2>1, <2>3 DEF MountGroup, SeemsFree, BindPCs
  <2> QED
    BY <2>2, <2>3
<1>5. CASE MountBindGroup(w)
  <2>1. pc[w] = "m_bind_group" /\ pc'[w] \notin BindPCs
    BY <1>0, <1>5 DEF MountBindGroup, BindPCs
  <2>2. ASSUME NEW p \in Projects, job[w].project = p,
               Push(t, Group(p), ProjectFiles(p))
        PROVE  StackBounded'
    <3>1. w \in Binding(t, Group(p))
      BY <1>t, <1>0, <2>1, <2>2 DEF Binding, Busy
    <3> QED
      BY <1>v, <2>1, <2>2, <3>1, Constants, BindBounded
  <2> QED
    BY <1>5, <1>t, <1>u, <1>k, <2>1, <2>2 DEF MountBindGroup
<1>6. CASE MountPublic(w)
  <2>1. UNCHANGED <<mounts, job>>
    BY <1>6 DEF MountPublic, SeemsFree
  <2>2. CASE mounts[t][Public] = <<>>
    <3>1. pc'[w] = "m_bind_public"
      BY <1>0, <1>6, <1>t, <2>2 DEF MountPublic, SeemsFree
    <3>2. \A e \in Tools, l \in Slots : w \in Binding(e, l)' => e = t /\ l = Public
      BY <1>t, <2>1, <3>1 DEF Binding, Busy
    <3> QED
      BY <1>v, <2>1, <2>2, <3>2, Constants, ProbeBounded
  <2>3. CASE mounts[t][Public] # <<>>
    BY <1>0, <1>6, <1>t, <1>k, <2>1, <2>3 DEF MountPublic, SeemsFree, BindPCs
  <2> QED
    BY <2>2, <2>3
<1>7. CASE MountBindPublic(w)
  <2>1. pc[w] = "m_bind_public" /\ pc'[w] \notin BindPCs
    BY <1>0, <1>7 DEF MountBindPublic, BindPCs
  <2>2. w \in Binding(t, Public)
    BY <1>t, <1>0, <2>1 DEF Binding, Busy
  <2>3. CASE Push(t, Public, PublicRW)
    BY <1>v, <2>1, <2>2, <2>3, Constants, BindBounded
  <2> QED
    BY <1>7, <1>t, <1>k, <2>1, <2>3 DEF MountBindPublic
<1>8. CASE MountRemount(w)
  <2>1. pc'[w] \notin BindPCs
    BY <1>0, <1>8 DEF MountRemount, BindPCs
  <2>2. CASE /\ mounts[t][Public] # <<>>
             /\ mounts' = [mounts EXCEPT ![t][Public] = <<PublicRO>> \o Tail(@)]
    BY <1>v, <2>1, <2>2, RemountKeeps, LeavesBounded
  <2> QED
    BY <1>8, <1>t, <1>k, <2>1, <2>2 DEF MountRemount
<1> QED
  BY <1>1, <1>2, <1>3, <1>4, <1>5, <1>6, <1>7, <1>8 DEF MountStep

LEMMA UnmountBounded ==
  ASSUME TypeOK, TypeOK', StackBounded, NEW w \in Workers, UnmountStep(w)
  PROVE  StackBounded'
<1> USE DEF Goto, Done
<1>0. /\ pc \in [Workers -> {"idle"} \cup MountPCs \cup UnmountPCs]
      /\ job \in [Workers -> Job \cup {NoJob}]
  BY DEF TypeOK
<1>v. /\ \A v \in Workers \ {w} : pc'[v] = pc[v] /\ job'[v] = job[v]
      /\ pc'[w] \notin BindPCs
  BY <1>0 DEF UnmountStep, UnmountFind, UnmountScan, UnmountDetach,
              UnmountDetached, UnmountRevoke, UnmountRemove, BindPCs
<1>1. \A e \in Tools, l \in Slots : Len(mounts'[e][l]) <= Len(mounts[e][l])
  <2>1. CASE \E t \in Tools, k \in Slots : UnmountDetach(w, t, k)
    BY <2>1, DetachShortens DEF UnmountDetach
  <2>2. CASE ~\E t \in Tools, k \in Slots : UnmountDetach(w, t, k)
    <3>1. UNCHANGED mounts
      BY <2>2 DEF UnmountStep, UnmountFind, UnmountScan, UnmountDetached,
                  UnmountRevoke, UnmountRemove, store
    <3> QED
      BY <3>1, StackLengths
  <2> QED
    BY <2>1, <2>2
<1> QED
  BY <1>v, <1>1, LeavesBounded

LEMMA NextBounded ==
  ASSUME ~ReadCanFail, TypeOK, TypeOK', StackBounded, [Next]_vars
  PROVE  StackBounded'
\* Steps that move no thread and mount nothing.
<1>k. ASSUME UNCHANGED <<pc, job>>,
             \A e \in Tools, l \in Slots : Len(mounts'[e][l]) <= Len(mounts[e][l])
      PROVE  StackBounded'
  BY <1>k, AllRelieved DEF Relieved, Binding, Busy, Group
<1>s. ASSUME UNCHANGED <<pc, job, mounts>> PROVE StackBounded'
  BY <1>s, <1>k, StackLengths
<1>1. CASE Environment
  <2>1. ASSUME NEW w \in Workers, NEW u \in Users, NEW t \in Tools,
               (\E p \in Projects : SendMount(w, u, t, p))
                 \/ \E named \in BOOLEAN : SendUnmount(w, u, t, named)
        PROVE  StackBounded'
    <3>1. /\ UNCHANGED mounts /\ pc'[w] \notin BindPCs
          /\ \A v \in Workers \ {w} : pc'[v] = pc[v] /\ job'[v] = job[v]
      BY <2>1 DEF TypeOK, SendMount, SendUnmount, Start, store, BindPCs
    <3>2. \A e \in Tools, l \in Slots : Len(mounts'[e][l]) <= Len(mounts[e][l])
      BY <3>1, StackLengths
    <3> QED
      BY <3>1, <3>2, LeavesBounded
  <2>2. ASSUME \/ \E u \in Users, t \in Tools : MissRequest(u, t)
               \/ \E t \in Tools : \/ ClientOpen(t) \/ ClientClose(t)
                                   \/ \E k \in Slots : ClientWrite(t, k)
        PROVE  StackBounded'
    BY <2>2, <1>s DEF MissRequest, ClientOpen, ClientClose, ClientWrite, store
  <2> QED
    BY <1>1, <2>1, <2>2 DEF Environment
<1>2. CASE Sync
  BY <1>2, <1>s DEF Sync
<1>3. ASSUME NEW w \in Workers, MountStep(w) \/ UnmountStep(w) PROVE StackBounded'
  BY <1>3, MountBounded, UnmountBounded
<1>4. CASE Monitor
  <2>1. UNCHANGED <<pc, job>>
    BY <1>4 DEF Monitor, MonWake, MonCheck, MonRead, MonDetach, MonRevoke,
                MonRemove, MonSleep
  <2>2. CASE \E k \in Slots : MonDetach(k)
    <3>1. mon.sid[2] \in Tools
      BY DEF TypeOK, Sids
    <3> QED
      BY <1>k, <2>1, <2>2, <3>1, DetachShortens DEF MonDetach
  <2>3. CASE ~\E k \in Slots : MonDetach(k)
    BY <1>4, <1>s, <2>1, <2>3 DEF Monitor, MonWake, MonCheck, MonRead,
                                  MonRevoke, MonRemove, MonSleep, store
  <2> QED
    BY <2>2, <2>3
<1>5. CASE Crash
  <2>1. \A w \in Workers : pc'[w] = "idle"
    BY <1>5 DEF Crash
  <2>2. \A t \in Tools, k \in Slots : Relieved(t, k)
    BY <1>5, <2>1, StackLengths DEF Crash, store, Relieved, Binding, Busy
  <2> QED
    BY <2>2, AllRelieved
<1>6. CASE Startup
  <2>1. \A e \in Tools, l \in Slots : mounts'[e][l] \in {mounts[e][l], <<>>}
    <3>1. CASE StartupUnmount
      <4>1. PICK stuck : mounts' = [t \in Tools |-> [k \in Slots |->
                          IF <<t, k>> \in stuck THEN mounts[t][k] ELSE <<>>]]
        BY <3>1, StartupTable
      <4> QED
        BY <4>1
    <3> QED
      BY <1>6, <3>1 DEF Startup, StartupWipe, StartupClear
  <2>2. \A e \in Tools, l \in Slots : Len(mounts'[e][l]) <= Len(mounts[e][l])
    BY <2>1, StackLengths, EmptySeq
  <2> QED
    BY <1>6, <1>k, <2>2 DEF Startup, StartupUnmount, StartupWipe, StartupClear
<1>7. CASE UNCHANGED vars
  BY <1>7, <1>s DEF vars, store
<1> QED
  BY <1>1, <1>2, <1>3, <1>4, <1>5, <1>6, <1>7 DEF Next

LEMMA InitBounded == Init => StackBounded
<1> SUFFICES ASSUME Init, NEW t \in Tools, NEW k \in Slots
             PROVE  Bounded(t, k)
  BY DEF StackBounded, Bounded
<1>1. Binding(t, k) = {}
  BY DEF Init, Binding, Busy
<1>2. Len(mounts[t][k]) = 0
  BY EmptySeq DEF Init
<1> QED
  BY <1>1, <1>2, BindingFinite, FS_EmptySet DEF Bounded

\* However requests for a tool race each other, the monitor and crashes, a
\* target never carries more mounts than there are request threads, as long as
\* the mount table can be read.
THEOREM StacksAreBounded == ASSUME ~ReadCanFail PROVE Spec => []StackBounded
<1>1. TypeOK /\ TypeOK' /\ StackBounded /\ [Next]_vars => StackBounded'
  BY NextBounded
<1> QED
  BY <1>1, InitBounded, TypeCorrect, PTL DEF Spec
-----------------------------------------------------------------------------
(* Whose mounts a step takes away.                                         *)

\* An unmount request has listed only mounts whose path contains its tool's.
Aimed ==
  \A w \in Workers : pc[w] = "u_detach" =>
    \A e \in Tools, k \in Slots :
      job[w].live[e][k] > 0 => <<job[w].tool, e>> \in Contains

LEMMA NextAimed ==
  ASSUME TypeOK, Aimed, [Next]_vars
  PROVE  Aimed'
<1> USE DEF Goto, Done
<1>0. /\ pc \in [Workers -> {"idle"} \cup MountPCs \cup UnmountPCs]
      /\ job \in [Workers -> Job \cup {NoJob}]
  BY DEF TypeOK
<1> SUFFICES ASSUME NEW w \in Workers, pc'[w] = "u_detach",
                    NEW e \in Tools, NEW k \in Slots, job'[w].live[e][k] > 0
             PROVE  <<job'[w].tool, e>> \in Contains
  BY DEF Aimed
<1>1. CASE pc[w] = "u_detach" /\ job'[w] = job[w]
  BY <1>1 DEF Aimed
<1>2. CASE UnmountScan(w)
  <2>1. PICK S, c :
          job' = [job EXCEPT ![w] = [job[w] EXCEPT
                    !.live = Listed(job[w].tool, S), !.blind = c]]
    BY <1>2, ScanJob
  <2>2. job[w] \in Job
    BY <1>2 DEF UnmountScan, TypeOK
  <2>3. job'[w].tool = job[w].tool /\ job'[w].live = Listed(job[w].tool, S)
    <3> DEFINE L == Listed(job[w].tool, S)
    <3>1. job' = [job EXCEPT ![w] = [job[w] EXCEPT !.live = L, !.blind = c]]
      BY <2>1
    <3> HIDE DEF L
    <3>2. job'[w].tool = job[w].tool /\ job'[w].live = L
      BY <1>0, <2>2, <3>1 DEF Job
    <3> QED
      BY <3>2 DEF L
  <2> QED
    BY <2>3 DEF Listed
<1>3. ASSUME NEW d \in Tools, NEW l \in Slots, UnmountDetach(w, d, l)
      PROVE  <<job'[w].tool, e>> \in Contains
  <2>1. PICK success, L, b, c : Detached(w, d, l, success, L, b, c)
    BY <1>3, DetachJob
  <2>2. pc[w] = "u_detach" /\ job[w] \in Job /\ job[w].live[d][l] > 0
    BY <1>3 DEF UnmountDetach, TypeOK
  <2>3. job[w].live \in Listing
    BY <2>2 DEF Job
  <2>4. job' = [job EXCEPT ![w] = [job[w] EXCEPT !.live = L, !.ok = b, !.blind = c]]
    BY <2>1 DEF Detached
  <2>5. L[e][k] > 0 => job[w].live[e][k] > 0
    BY <2>1, <2>2, <2>3 DEF Listing, Detached
  <2>6. job'[w].tool = job[w].tool /\ job'[w].live = L
    BY <1>0, <2>2, <2>4 DEF Job
  <2> QED
    BY <2>2, <2>5, <2>6 DEF Aimed
<1>4. CASE Environment
  <2>1. pc[w] = "u_detach" /\ job'[w] = job[w]
    BY <1>0, <1>4 DEF Environment, SendMount, SendUnmount, Start, MissRequest,
       ClientOpen, ClientClose, ClientWrite
  <2> QED
    BY <1>1, <2>1
<1>5. ASSUME NEW v \in Workers, MountStep(v)
      PROVE  <<job'[w].tool, e>> \in Contains
  <2>0. v # w
    BY <1>0, <1>5 DEF MountStep, MountUser, MountAdmit, MountFiles,
       MountBindFiles, MountGroup, MountBindGroup, MountPublic, MountBindPublic,
       MountRemount, MountSave
  <2>1. pc[w] = "u_detach" /\ job'[w] = job[w]
    BY <1>0, <1>5, <2>0 DEF MountStep, MountUser, MountAdmit, MountFiles,
       MountBindFiles, MountGroup, MountBindGroup, MountPublic, MountBindPublic,
       MountRemount, MountSave
  <2> QED
    BY <1>1, <2>1
<1>6. ASSUME NEW v \in Workers, UnmountStep(v)
      PROVE  <<job'[w].tool, e>> \in Contains
  <2>1. CASE v = w
    <3>1. UnmountScan(w) \/ \E d \in Tools, l \in Slots : UnmountDetach(w, d, l)
      BY <1>0, <1>6, <2>1 DEF UnmountStep, UnmountFind, UnmountDetached,
         UnmountRevoke, UnmountRemove
    <3> QED
      BY <1>2, <1>3, <3>1
  <2>2. CASE v # w
    <3>1. pc[w] = "u_detach" /\ job'[w] = job[w]
      BY <1>0, <1>6, <2>2 DEF UnmountStep, UnmountFind, UnmountScan,
         UnmountDetach, UnmountDetached, UnmountRevoke, UnmountRemove
    <3> QED
      BY <1>1, <3>1
  <2> QED
    BY <2>1, <2>2
<1>7. CASE Sync \/ Monitor \/ Startup \/ UNCHANGED vars
  <2>1. UNCHANGED <<pc, job>>
    BY <1>7 DEF Sync, Monitor, MonWake, MonCheck, MonRead, MonDetach, MonRevoke,
       MonRemove, MonSleep, Startup, StartupUnmount, StartupWipe, StartupClear, vars
  <2> QED
    BY <1>1, <2>1
<1>8. CASE Crash
  BY <1>8 DEF Crash
<1> QED
  BY <1>4, <1>5, <1>6, <1>7, <1>8 DEF Next

LEMMA DetachTakesOne ==
  ASSUME TypeOK, NEW t \in Tools, NEW k \in Slots, NEW success,
         GracefulUnmount(t, k, success), NEW e \in Tools, NEW l \in Slots,
         Len(mounts'[e][l]) < Len(mounts[e][l])
  PROVE  e = t
<1>m. mounts \in Mounts
  BY DEF TypeOK, Mounts
<1>1. mounts'[e][l] # mounts[e][l]
  BY StackLengths
<1> QED
  BY <1>m, <1>1, GracefulTable

Detacher(t) ==
  \/ mode # "up"
  \/ \E w \in Busy(t) : pc[w] = "u_detach"
  \/ mon.pc = "detach" /\ mon.sid[2] = t

LEMMA OwnDetach ==
  ASSUME \A m \in Contains : m[1] = m[2], TypeOK, Aimed, [Next]_vars,
         NEW t \in Tools, NEW k \in Slots,
         Len(mounts'[t][k]) < Len(mounts[t][k])
  PROVE  Detacher(t)
<1>m. mounts \in Mounts
  BY DEF TypeOK, Mounts
<1>1. mounts'[t][k] # mounts[t][k]
  BY StackLengths
<1>2. ASSUME NEW w \in Workers, MountStep(w) PROVE FALSE
  <2>1. \/ MountBindFiles(w) \/ MountBindGroup(w) \/ MountBindPublic(w)
        \/ MountRemount(w)
    BY <1>1, <1>2 DEF MountStep, MountUser, MountAdmit, MountFiles, MountGroup,
                      MountPublic, MountSave
  <2>2. job[w] \in Job
    BY <2>1 DEF TypeOK, MountBindFiles, MountBindGroup, MountBindPublic, MountRemount
  <2>3. job[w].tool \in Tools /\ job[w].user \in Users /\ job[w].project \in Projects
    BY <2>2 DEF Job
  <2>4. ASSUME NEW l \in Slots, NEW src \in Sources, Push(job[w].tool, l, src)
        PROVE  FALSE
    <3>1. mounts'[t][k] = <<src>> \o mounts[t][k] /\ mounts[t][k] \in Seq(Sources)
      BY <1>m, <1>1, <2>3, <2>4, PushTable DEF Mounts
    <3>2. <<src>> \in Seq(Sources) /\ Len(<<src>>) = 1
      OBVIOUS
    <3>3. Len(mounts'[t][k]) = 1 + Len(mounts[t][k])
      BY <3>1, <3>2, ConcatProperties
    <3> QED
      BY <3>3, StackLengths
  <2>5. CASE MountRemount(w)
    BY <1>1, <2>3, <2>5, RemountKeeps, StackLengths DEF MountRemount
  <2>6. CASE MountBindFiles(w)
    BY <1>1, <2>3, <2>4, <2>6, Constants DEF MountBindFiles
  <2>7. CASE MountBindGroup(w)
    BY <1>1, <2>3, <2>4, <2>7, Constants DEF MountBindGroup
  <2>8. CASE MountBindPublic(w)
    BY <1>1, <2>3, <2>4, <2>8, Constants DEF MountBindPublic
  <2> QED
    BY <2>1, <2>5, <2>6, <2>7, <2>8
<1>3. ASSUME NEW w \in Workers, UnmountStep(w) PROVE Detacher(t)
  <2>1. PICK d \in Tools, l \in Slots : UnmountDetach(w, d, l)
    BY <1>1, <1>3 DEF UnmountStep, UnmountFind, UnmountScan, UnmountDetached,
                      UnmountRevoke, UnmountRemove, store
  <2>2. t = d
    BY <2>1, DetachTakesOne DEF UnmountDetach
  <2>3. job[w].tool = t
    BY <2>1, <2>2 DEF UnmountDetach, Aimed
  <2> QED
    BY <2>1, <2>3 DEF UnmountDetach, Busy, Detacher
<1>4. ASSUME Monitor PROVE Detacher(t)
  <2>1. PICK l \in Slots : MonDetach(l)
    BY <1>1, <1>4 DEF Monitor, MonWake, MonCheck, MonRead, MonRevoke, MonRemove,
                      MonSleep, store
  <2>2. mon.sid[2] \in Tools
    BY DEF TypeOK, Sids
  <2> QED
    BY <2>1, <2>2, DetachTakesOne DEF MonDetach, Detacher
<1>5. ASSUME Startup PROVE Detacher(t)
  BY <1>5 DEF Startup, StartupUnmount, StartupWipe, StartupClear, Detacher
<1>6. ASSUME Environment \/ Sync \/ Crash \/ UNCHANGED vars PROVE FALSE
  BY <1>1, <1>6 DEF Environment, SendMount, SendUnmount, MissRequest, ClientOpen,
     ClientClose, ClientWrite, Sync, Crash, vars, store
<1> QED
  BY <1>2, <1>3, <1>4, <1>5, <1>6 DEF Next

\* As long as no tool's path contains another's, a mount goes away only
\* through an unmount of its own tool, the monitor's work on it, or startup,
\* whatever requests race each other and whatever fails.
THEOREM MountsGoByTheirOwnTool ==
  ASSUME \A m \in Contains : m[1] = m[2] PROVE Spec => DetachesOwnTool
<1>1. Init => Aimed
  BY DEF Init, Aimed
<1>2. TypeOK /\ Aimed /\ [Next]_vars => Aimed'
  BY NextAimed
<1>3. TypeOK /\ Aimed /\ [Next]_vars =>
        [\A t \in Tools, k \in Slots :
           Len(mounts'[t][k]) < Len(mounts[t][k]) =>
             \/ mode # "up"
             \/ \E w \in Busy(t) : pc[w] = "u_detach"
             \/ mon.pc = "detach" /\ mon.sid[2] = t]_vars
  BY OwnDetach DEF Detacher
<1> QED
  BY <1>1, <1>2, <1>3, TypeCorrect, PTL DEF Spec, DetachesOwnTool
==============================================================================
