-------------------------- MODULE LabDaemonSessions --------------------------
(* Proofs about the sessions table: whose sessions it lists when requests    *)
(* for a tool come in turn, and what the monitor, which goes by it, leaves   *)
(* mounted.                                                                  *)
EXTENDS LabDaemonProofs

\* The environment of the theorem on sessions: requests arrive in turn and are
\* not lost while the daemon is up, and the database works.
Recorded == Orderly /\ ~LossyLink /\ ~DbCanFail

\* Past the look-up.
ExitPCs == UnmountPCs \ {"u_find"}

\* A mount request serves the user who holds the tool, an unmount request a
\* tool nobody holds, and the session it is to remove has been found.
Attends(w) ==
  LET j == job[w]
  IN /\ pc[w] \in MountPCs => using[j.tool] = j.user
     /\ pc[w] \in UnmountPCs => using[j.tool] = NoUser
     /\ pc[w] \in ExitPCs /\ rows[<<j.user, j.tool>>] # NoRow => j.known

\* my_files and public are mount points of every session.
PointsRecorded == \A s \in Sids : rows[s] # NoRow => {Files, Public} \subseteq rows[s].points

Attended == (\A w \in Workers : Attends(w)) /\ SessionsOfHolder /\ PointsRecorded

\* Rows only go away, or age.
RowsFade ==
  \A s \in Sids : rows'[s] = NoRow \/ (rows[s] # NoRow /\ rows'[s].points = rows[s].points)

-----------------------------------------------------------------------------
(* What a step of a thread does to threads and rows.                       *)

SameElsewhere(w) == \A v \in Workers \ {w} : pc'[v] = pc[v] /\ job'[v] = job[v]

SavesRow(w) ==
  rows' = [rows EXCEPT ![<<job[w].user, job[w].tool>>] =
             Saved(@, {Files, Public} \cup job[w].bound)]

LEMMA MountMoves ==
  ASSUME TypeOK, NEW w \in Workers, MountStep(w)
  PROVE  /\ pc[w] \in MountPCs /\ pc'[w] \in MountPCs \cup {"idle"}
         /\ job[w] \in Job /\ job[w].user \in Users /\ job[w].tool \in Tools
         /\ pc'[w] # "idle" => job'[w].user = job[w].user /\ job'[w].tool = job[w].tool
         /\ SameElsewhere(w)
         /\ UNCHANGED <<mode, using, mon>>
         /\ IF pc[w] = "m_save" THEN SavesRow(w) \/ (DbCanFail /\ rows' = rows)
                                ELSE rows' = rows
<1> USE DEF Goto, Done, SameElsewhere
<1>0. /\ pc[w] # "idle" /\ job[w] \in Job /\ job \in [Workers -> Job \cup {NoJob}]
      /\ pc \in [Workers -> {"idle"} \cup MountPCs \cup UnmountPCs]
  BY DEF TypeOK, MountStep, MountUser, MountAdmit, MountFiles, MountBindFiles,
         MountGroup, MountBindGroup, MountPublic, MountBindPublic,
         MountRemount, MountSave
<1>t. job[w].user \in Users /\ job[w].tool \in Tools
  BY <1>0 DEF Job
<1>1. CASE MountUser(w)
  <2> DEFINE b == (db'.users[job[w].user] = "active")
  <2>1. \/ Done(w)
        \/ Goto(w, "m_admit") /\ job' = [job EXCEPT ![w] = [job[w] EXCEPT !.active = b]]
    BY <1>1 DEF MountUser
  <2> HIDE DEF b
  <2> QED
    BY <1>0, <1>t, <1>1, <2>1 DEF MountUser, MountPCs, Job, clients
<1>2. CASE MountAdmit(w)
  <2> DEFINE T == IF BindGroups THEN Memberships(db', job[w].user) \ Excluded ELSE {}
  <2>1. \/ Done(w)
        \/ Goto(w, "m_files") /\ job' = [job EXCEPT ![w] = [job[w] EXCEPT !.todo = T]]
    BY <1>2 DEF MountAdmit
  <2> HIDE DEF T
  <2> QED
    BY <1>0, <1>t, <1>2, <2>1 DEF MountAdmit, MountPCs, Job, clients
<1>3. CASE MountFiles(w)
  BY <1>0, <1>t, <1>3 DEF MountFiles, MountPCs, clients
<1>4. CASE MountBindFiles(w)
  BY <1>0, <1>t, <1>4 DEF MountBindFiles, MountPCs, clients
<1>5. ASSUME NEW p \in Projects, MountGroup(w, p)
      PROVE  /\ pc[w] = "m_groups" /\ pc'[w] \in MountPCs
             /\ job'[w].user = job[w].user /\ job'[w].tool = job[w].tool
             /\ SameElsewhere(w) /\ UNCHANGED <<mode, using, mon, rows>>
  BY <1>0, <1>5 DEF MountGroup, MountPCs, Job, clients
<1>6. CASE MountBindGroup(w)
  BY <1>0, <1>t, <1>6 DEF MountBindGroup, MountPCs, Job, clients
<1>7. CASE MountPublic(w)
  BY <1>0, <1>t, <1>7 DEF MountPublic, MountPCs, clients
<1>8. CASE MountBindPublic(w)
  BY <1>0, <1>t, <1>8 DEF MountBindPublic, MountPCs, clients
<1>9. CASE MountRemount(w)
  BY <1>0, <1>t, <1>9 DEF MountRemount, MountPCs, clients
<1>10. CASE MountSave(w)
  <2>1. SavesRow(w) \/ (DbCanFail /\ rows' = rows)
    BY <1>10 DEF MountSave, SavesRow
  <2>2. pc[w] = "m_save" /\ Done(w) /\ UNCHANGED <<mode, using, mon>>
    BY <1>10 DEF MountSave, clients
  <2> QED
    BY <1>0, <1>t, <2>1, <2>2 DEF MountPCs
<1>11. CASE \E p \in Projects : MountGroup(w, p)
  BY <1>0, <1>t, <1>5, <1>11 DEF MountPCs
<1> QED
  BY <1>1, <1>2, <1>3, <1>4, <1>6, <1>7, <1>8, <1>9, <1>10, <1>11 DEF MountStep

LEMMA UnmountMoves ==
  ASSUME TypeOK, NEW w \in Workers, UnmountStep(w), ~DbCanFail
  PROVE  /\ pc[w] \in UnmountPCs /\ pc'[w] \in ExitPCs \cup {"idle"}
         /\ job[w] \in Job /\ job[w].user \in Users /\ job[w].tool \in Tools
         /\ pc'[w] # "idle" =>
              /\ job'[w].user = job[w].user /\ job'[w].tool = job[w].tool
              /\ rows' = rows
              /\ job'[w].known <=>
                   \/ job[w].known
                   \/ /\ pc[w] = "u_find"
                      /\ rows[<<job[w].user, job[w].tool>>] # NoRow
         /\ pc'[w] = "idle" =>
              /\ pc[w] \in ExitPCs
              /\ rows' = IF job[w].known THEN [rows EXCEPT ![<<job[w].user, job[w].tool>>] = NoRow]
                                         ELSE rows
         /\ SameElsewhere(w)
         /\ UNCHANGED <<mode, using, mon>>
<1> USE DEF Goto, Done, SameElsewhere, ExitPCs
<1>0. /\ pc[w] # "idle" /\ job[w] \in Job /\ job \in [Workers -> Job \cup {NoJob}]
      /\ pc \in [Workers -> {"idle"} \cup MountPCs \cup UnmountPCs]
  BY DEF TypeOK, UnmountStep, UnmountFind, UnmountScan, UnmountDetach,
         UnmountDetached, UnmountRevoke, UnmountRemove
<1>t. job[w].user \in Users /\ job[w].tool \in Tools /\ job[w].known \in BOOLEAN
  BY <1>0 DEF Job
<1>1. CASE UnmountFind(w)
  <2> DEFINE b == (job[w].known \/ rows[<<job[w].user, job[w].tool>>] # NoRow)
  <2>1. job' = [job EXCEPT ![w] = [job[w] EXCEPT !.known = b]]
    BY <1>1 DEF UnmountFind
  <2>2. b \in BOOLEAN /\ (b <=> job[w].known \/ rows[<<job[w].user, job[w].tool>>] # NoRow)
    OBVIOUS
  <2> HIDE DEF b
  <2>3. /\ job'[w].user = job[w].user /\ job'[w].tool = job[w].tool /\ job'[w].known = b
        /\ SameElsewhere(w)
    BY <1>0, <1>1, <2>1 DEF Job, UnmountFind
  <2> QED
    BY <1>0, <1>t, <1>1, <2>2, <2>3 DEF UnmountFind, UnmountPCs, clients, store
<1>2. CASE UnmountScan(w)
  <2>1. PICK L, c : job' = [job EXCEPT ![w] = [job[w] EXCEPT !.live = L, !.blind = c]]
    BY <1>2, ScanJob
  <2> QED
    BY <1>0, <1>t, <1>2, <2>1 DEF UnmountScan, UnmountPCs, Job, clients, store
<1>3. ASSUME NEW e \in Tools, NEW k \in Slots, UnmountDetach(w, e, k)
      PROVE  /\ pc[w] = "u_detach" /\ pc'[w] = "u_detach"
             /\ job'[w].user = job[w].user /\ job'[w].tool = job[w].tool
             /\ job'[w].known = job[w].known
             /\ SameElsewhere(w) /\ UNCHANGED <<mode, using, mon, rows>>
  <2>1. PICK success, L, b, c : Detached(w, e, k, success, L, b, c)
    BY <1>3, DetachJob
  <2>2. job' = [job EXCEPT ![w] = [job[w] EXCEPT !.live = L, !.ok = b, !.blind = c]]
    BY <2>1 DEF Detached
  <2> QED
    BY <1>0, <1>3, <2>2 DEF UnmountDetach, Job, clients
<1>4. CASE UnmountDetached(w) \/ UnmountRevoke(w)
  BY <1>0, <1>t, <1>4 DEF UnmountDetached, UnmountRevoke, UnmountPCs, clients, store
<1>5. CASE UnmountRemove(w)
  BY <1>0, <1>t, <1>5 DEF UnmountRemove, UnmountPCs, clients
<1>6. CASE \E e \in Tools, k \in Slots : UnmountDetach(w, e, k)
  BY <1>0, <1>t, <1>3, <1>6 DEF UnmountPCs
<1> QED
  BY <1>1, <1>2, <1>4, <1>5, <1>6 DEF UnmountStep

-----------------------------------------------------------------------------
(* Whose sessions the table lists.                                         *)

Closing(u, t) == \E w \in Workers : pc[w] \in UnmountPCs /\ job[w].tool = t /\ job[w].user = u

LEMMA Holders ==
  SessionsOfHolder <=>
    (mode = "up" => \A u \in Users, t \in Tools :
                      rows[<<u, t>>] # NoRow => using[t] = u \/ Closing(u, t))
BY DEF SessionsOfHolder, Closing, Busy, UnmountPCs

LEMMA HoldersNext ==
  SessionsOfHolder' <=>
    (mode' = "up" => \A u \in Users, t \in Tools :
                      rows'[<<u, t>>] # NoRow => using'[t] = u \/ Closing(u, t)')
BY DEF SessionsOfHolder, Closing, Busy, UnmountPCs

\* Steps of the environment, the monitor and startup that move no thread and no
\* user.
LEMMA StillAttended ==
  ASSUME TypeOK, Attended, UNCHANGED <<mode, using, pc, job>>, RowsFade
  PROVE  Attended'
<1>0. \A u \in Users, t \in Tools : <<u, t>> \in Sids
  BY DEF Sids
<1>1. ASSUME NEW w \in Workers PROVE Attends(w)'
  <2>1. CASE pc[w] \in ExitPCs
    <3>1. job[w] \in Job
      BY <2>1 DEF TypeOK, ExitPCs, UnmountPCs
    <3>2. <<job[w].user, job[w].tool>> \in Sids
      BY <1>0, <3>1 DEF Job
    <3> QED
      BY <3>2 DEF Attended, Attends, RowsFade
  <2>2. CASE pc[w] \notin ExitPCs
    BY <2>2 DEF Attended, Attends
  <2> QED
    BY <2>1, <2>2
<1>2. SessionsOfHolder'
  BY <1>0, Holders, HoldersNext DEF Attended, RowsFade, Closing
<1>3. PointsRecorded'
  BY DEF Attended, PointsRecorded, RowsFade
<1> QED
  BY <1>1, <1>2, <1>3 DEF Attended

LEMMA MountAttended ==
  ASSUME TypeOK, Turns, Attended, NEW w \in Workers, MountStep(w)
  PROVE  Attended'
<1> DEFINE u == job[w].user
           t == job[w].tool
<1>a. /\ pc[w] \in MountPCs /\ pc'[w] \in MountPCs \cup {"idle"}
      /\ job[w] \in Job /\ u \in Users /\ t \in Tools
      /\ pc'[w] # "idle" => job'[w].user = u /\ job'[w].tool = t
      /\ SameElsewhere(w)
      /\ UNCHANGED <<mode, using, mon>>
      /\ SavesRow(w) \/ rows' = rows
  BY MountMoves
<1>b. using[t] = u
  BY <1>a DEF Attended, Attends
<1>c. /\ rows \in [Sids -> Row \cup {NoRow}] /\ <<u, t>> \in Sids
      /\ \A s \in Sids \ {<<u, t>>} : rows'[s] = rows[s]
      /\ \/ rows'[<<u, t>>] = rows[<<u, t>>]
         \/ rows'[<<u, t>>].points = {Files, Public} \cup job[w].bound
  <2>1. rows \in [Sids -> Row \cup {NoRow}]
    BY DEF TypeOK
  <2>2. PICK s : s = <<u, t>>
    OBVIOUS
  <2>3. s \in Sids
    BY <2>2, <1>a DEF Sids
  <2>4. PICK row : row = Saved(rows[s], {Files, Public} \cup job[w].bound)
    OBVIOUS
  <2>5. row.points = {Files, Public} \cup job[w].bound
    BY <2>4 DEF Saved
  <2>6. rows' = [rows EXCEPT ![s] = row] \/ rows' = rows
    BY <1>a, <2>2, <2>4 DEF SavesRow
  <2> QED
    BY <2>1, <2>2, <2>3, <2>5, <2>6
<1>e. /\ \A v \in Workers : pc[v] # "idle" /\ job[v].tool = t => v = w
      /\ "idle" \notin MountPCs \cup UnmountPCs /\ MountPCs \cap UnmountPCs = {}
  BY <1>a DEF Turns, Exclusive, MountPCs, UnmountPCs
<1>1. ASSUME NEW v \in Workers PROVE Attends(v)'
  <2>1. CASE v = w
    BY <1>a, <1>b, <1>e, <2>1 DEF Attends, ExitPCs
  <2>2. CASE v # w /\ pc[v] \in MountPCs \cup UnmountPCs
    <3>1. job[v] \in Job /\ job[v].tool # t
      BY <2>2, <1>e DEF TypeOK
    <3>2. <<job[v].user, job[v].tool>> \in Sids \ {<<u, t>>}
      BY <3>1 DEF Sids, Job
    <3> QED
      BY <1>a, <1>c, <2>2, <3>2 DEF Attended, Attends, SameElsewhere
  <2>3. CASE v # w /\ pc[v] \notin MountPCs \cup UnmountPCs
    BY <1>a, <2>3 DEF Attends, SameElsewhere, ExitPCs
  <2> QED
    BY <2>1, <2>2, <2>3
<1>2. SessionsOfHolder'
  <2> SUFFICES ASSUME mode = "up", NEW x \in Users, NEW e \in Tools,
                      rows'[<<x, e>>] # NoRow
               PROVE  using[e] = x \/ Closing(x, e)'
    BY <1>a, HoldersNext
  <2>1. CASE <<x, e>> = <<u, t>>
    BY <2>1, <1>b
  <2>2. CASE <<x, e>> # <<u, t>>
    <3>1. rows[<<x, e>>] # NoRow
      BY <1>c, <2>2 DEF Sids
    <3>2. using[e] = x \/ Closing(x, e)
      BY <3>1, Holders DEF Attended
    <3> QED
      BY <3>2, <1>a, <1>e DEF Closing, SameElsewhere
  <2> QED
    BY <2>1, <2>2
<1>3. PointsRecorded'
  BY <1>c DEF Attended, PointsRecorded
<1> QED
  BY <1>1, <1>2, <1>3 DEF Attended

LEMMA UnmountAttended ==
  ASSUME ~DbCanFail, TypeOK, Turns, Attended, NEW w \in Workers, UnmountStep(w)
  PROVE  Attended'
<1> DEFINE u == job[w].user
           t == job[w].tool
           s == <<u, t>>
<1>a. /\ pc[w] \in UnmountPCs /\ pc'[w] \in ExitPCs \cup {"idle"}
      /\ job[w] \in Job /\ u \in Users /\ t \in Tools
      /\ pc'[w] # "idle" =>
           /\ job'[w].user = u /\ job'[w].tool = t
           /\ rows' = rows
           /\ job'[w].known <=> job[w].known \/ (pc[w] = "u_find" /\ rows[s] # NoRow)
      /\ pc'[w] = "idle" =>
           /\ pc[w] \in ExitPCs
           /\ rows' = IF job[w].known THEN [rows EXCEPT ![s] = NoRow] ELSE rows
      /\ SameElsewhere(w)
      /\ UNCHANGED <<mode, using, mon>>
  BY UnmountMoves
<1>b. /\ using[t] = NoUser
      /\ pc[w] \in ExitPCs /\ rows[s] # NoRow => job[w].known
  BY <1>a DEF Attended, Attends
<1>c. /\ rows \in [Sids -> Row \cup {NoRow}] /\ s \in Sids
      /\ \A r \in Sids : rows'[r] = rows[r] \/ rows'[r] = NoRow
      /\ pc'[w] = "idle" => rows'[s] = NoRow
  <2>1. rows \in [Sids -> Row \cup {NoRow}] /\ s \in Sids
    BY <1>a DEF TypeOK, Sids
  <2> HIDE DEF s
  <2> QED
    BY <2>1, <1>a, <1>b
<1>e. /\ \A v \in Workers : pc[v] # "idle" /\ job[v].tool = t => v = w
      /\ "idle" \notin MountPCs \cup UnmountPCs /\ MountPCs \cap UnmountPCs = {}
      /\ ExitPCs \subseteq UnmountPCs /\ \A l \in UnmountPCs : l # "u_find" => l \in ExitPCs
  BY <1>a DEF Turns, Exclusive, MountPCs, UnmountPCs, ExitPCs
<1>1. ASSUME NEW v \in Workers PROVE Attends(v)'
  <2>1. CASE v = w
    <3>1. CASE pc'[w] = "idle"
      BY <1>e, <2>1, <3>1 DEF Attends
    <3>2. CASE pc'[w] # "idle"
      BY <1>a, <1>b, <1>e, <2>1, <3>2 DEF Attends
    <3> QED
      BY <3>1, <3>2
  <2>2. CASE v # w /\ pc[v] \in MountPCs \cup UnmountPCs
    <3>1. job[v] \in Job
      BY <2>2, <1>e DEF TypeOK
    <3>2. <<job[v].user, job[v].tool>> \in Sids
      BY <3>1 DEF Sids, Job
    <3> QED
      BY <1>a, <1>c, <2>2, <3>2 DEF Attended, Attends, SameElsewhere
  <2>3. CASE v # w /\ pc[v] \notin MountPCs \cup UnmountPCs
    BY <1>a, <2>3 DEF Attends, SameElsewhere, ExitPCs
  <2> QED
    BY <2>1, <2>2, <2>3
<1>2. SessionsOfHolder'
  <2> SUFFICES ASSUME mode = "up", NEW x \in Users, NEW e \in Tools,
                      rows'[<<x, e>>] # NoRow
               PROVE  using[e] = x \/ Closing(x, e)'
    BY <1>a, HoldersNext
  <2>1. rows[<<x, e>>] # NoRow
    BY <1>c DEF Sids
  <2>2. using[e] = x \/ Closing(x, e)
    BY <2>1, Holders DEF Attended
  <2>3. ASSUME NEW v \in Workers, pc[v] \in UnmountPCs, job[v].tool = e, job[v].user = x
        PROVE  Closing(x, e)'
    <3>1. CASE v # w
      BY <1>a, <2>3, <3>1 DEF Closing, SameElsewhere
    <3>2. CASE v = w
      <4>1. pc'[w] # "idle"
        BY <1>c, <2>3, <3>2
      <4> QED
        BY <1>a, <1>e, <2>3, <3>2, <4>1 DEF Closing
    <3> QED
      BY <3>1, <3>2
  <2> QED
    BY <2>2, <2>3 DEF Closing
<1>3. PointsRecorded'
  BY <1>c DEF Attended, PointsRecorded
<1> QED
  BY <1>1, <1>2, <1>3 DEF Attended

LEMMA RequestAttended ==
  ASSUME Orderly, TypeOK, Turns, Attended, NEW w \in Workers, NEW u \in Users,
         NEW t \in Tools,
         (\E p \in Projects : SendMount(w, u, t, p))
           \/ \E named \in BOOLEAN : SendUnmount(w, u, t, named)
  PROVE  Attended'
<1>1. /\ UNCHANGED <<mode, rows>> /\ mode = "up" /\ pc[w] = "idle"
      /\ SameElsewhere(w)
      /\ \A e \in Tools : e # t => using'[e] = using[e]
  BY DEF TypeOK, SendMount, SendUnmount, Start, store, SameElsewhere
<1>2. /\ job'[w].tool = t /\ job'[w].user = u
      /\ \/ pc'[w] = "m_user" /\ using'[t] = u
         \/ pc'[w] = "u_find" /\ using'[t] = NoUser
  BY DEF TypeOK, SendMount, SendUnmount, Start, NewJob
<1>3. using[t] \in {NoUser, u} /\ Busy(t) = {}
  BY DEF SendMount, SendUnmount, Turn
<1>4. ASSUME NEW v \in Workers PROVE Attends(v)'
  <2>1. CASE v = w
    BY <1>2, <2>1 DEF Attends, MountPCs, UnmountPCs, ExitPCs
  <2>2. CASE v # w /\ pc[v] = "idle"
    BY <1>1, <2>2 DEF Attends, SameElsewhere, MountPCs, UnmountPCs, ExitPCs
  <2>3. CASE v # w /\ pc[v] # "idle"
    <3>1. job[v] \in Job /\ job[v].tool \in Tools /\ job[v].tool # t
      BY <1>3, <2>3 DEF TypeOK, Job, Busy
    <3> QED
      BY <1>1, <2>3, <3>1 DEF Attended, Attends, SameElsewhere
  <2> QED
    BY <2>1, <2>2, <2>3
<1>5. SessionsOfHolder'
  <2> SUFFICES ASSUME NEW x \in Users, NEW e \in Tools, rows[<<x, e>>] # NoRow
               PROVE  using'[e] = x \/ Closing(x, e)'
    BY <1>1, HoldersNext
  <2>1. using[e] = x \/ Closing(x, e)
    BY <1>1, Holders DEF Attended
  <2>2. Closing(x, e) => Closing(x, e)'
    BY <1>1 DEF Closing, SameElsewhere, UnmountPCs
  <2>3. CASE e # t
    BY <1>1, <2>1, <2>2, <2>3
  <2>4. CASE e = t
    <3>1. ~Closing(x, t)
      BY <1>3 DEF Closing, Busy, UnmountPCs
    <3>2. x = u
      BY <1>3, <2>1, <2>4, <3>1, NamesAssumption
    <3> QED
      BY <1>2, <2>4, <3>2 DEF Closing, UnmountPCs
  <2> QED
    BY <2>3, <2>4
<1> QED
  BY <1>1, <1>4, <1>5 DEF Attended, PointsRecorded

LEMMA NextAttended ==
  ASSUME Recorded, TypeOK, Turns, Attended, [Next]_vars
  PROVE  Attended'
<1> USE DEF Recorded
<1>s. ASSUME UNCHANGED rows PROVE RowsFade
  BY <1>s DEF RowsFade
<1>1. CASE Environment
  <2>1. ASSUME NEW u \in Users, NEW t \in Tools, MissRequest(u, t)
        PROVE  Attended'
    <3>1. mode # "up" /\ UNCHANGED <<mode, rows, pc, job>>
      BY <2>1 DEF MissRequest, store
    <3>2. \A w \in Workers : pc[w] = "idle"
      BY <3>1 DEF Turns, Halted
    <3> QED
      BY <3>1, <3>2
         DEF Attended, Attends, SessionsOfHolder, PointsRecorded, MountPCs, UnmountPCs, ExitPCs
  <2>2. ASSUME NEW t \in Tools,
               \/ ClientOpen(t) \/ ClientClose(t) \/ \E k \in Slots : ClientWrite(t, k)
        PROVE  Attended'
    BY <2>2, <1>s, StillAttended DEF ClientOpen, ClientClose, ClientWrite, store, clients
  <2> QED
    BY <1>1, <2>1, <2>2, RequestAttended DEF Environment
<1>2. CASE Sync
  BY <1>2, <1>s, StillAttended DEF Sync, clients
<1>3. ASSUME NEW w \in Workers, MountStep(w) \/ UnmountStep(w) PROVE Attended'
  BY <1>3, MountAttended, UnmountAttended
<1>4. CASE Monitor
  <2>1. UNCHANGED <<mode, using, pc, job>>
    BY <1>4 DEF Monitor, MonWake, MonCheck, MonRead, MonDetach, MonRevoke,
                MonRemove, MonSleep, clients
  <2>2. RowsFade
    <3>1. CASE MonWake
      <4>1. PICK A, B : rows' = [s \in Sids |->
              IF rows[s] = NoRow THEN NoRow
              ELSE [points |-> rows[s].points, mounted |-> rows[s].mounted /\ s \notin A,
                    beat |-> rows[s].beat /\ s \notin B]]
        BY <3>1 DEF MonWake
      <4> SUFFICES ASSUME NEW s \in Sids, rows[s] # NoRow
                   PROVE  rows'[s].points = rows[s].points
        BY <4>1 DEF RowsFade
      <4>2. rows'[s] = [points |-> rows[s].points, mounted |-> rows[s].mounted /\ s \notin A,
                        beat |-> rows[s].beat /\ s \notin B]
        BY <4>1
      <4> QED
        BY <4>2
    <3>2. CASE MonRemove
      BY <3>2 DEF MonRemove, RowsFade, TypeOK
    <3>3. CASE ~MonWake /\ ~MonRemove
      BY <1>4, <3>3, <1>s DEF Monitor, MonCheck, MonRead, MonDetach, MonRevoke, MonSleep, store
    <3> QED
      BY <3>1, <3>2, <3>3
  <2> QED
    BY <2>1, <2>2, StillAttended
<1>5. CASE Crash
  <2>1. mode' = "down" /\ rows' = rows /\ \A w \in Workers : pc'[w] = "idle"
    BY <1>5 DEF Crash, store
  <2> QED
    BY <2>1 DEF Attended, Attends, SessionsOfHolder, PointsRecorded, MountPCs, UnmountPCs, ExitPCs
<1>6. CASE Startup
  <2>1. UNCHANGED <<pc, job, using>> /\ \A w \in Workers : pc[w] = "idle"
    BY <1>6 DEF Startup, StartupUnmount, StartupWipe, StartupClear, clients, Turns, Halted
  <2>2. \A w \in Workers : Attends(w)'
    BY <2>1 DEF Attends, MountPCs, UnmountPCs, ExitPCs
  <2>3. CASE StartupUnmount \/ StartupWipe
    BY <2>2, <2>3 DEF StartupUnmount, StartupWipe, Attended, SessionsOfHolder, PointsRecorded
  <2>4. CASE StartupClear
    <3>1. \A s \in Sids : rows'[s] = NoRow
      BY <2>4 DEF StartupClear
    <3> QED
      BY <2>2, <3>1, HoldersNext DEF Attended, PointsRecorded, Sids
  <2> QED
    BY <1>6, <2>3, <2>4 DEF Startup
<1>7. CASE UNCHANGED vars
  BY <1>7, <1>s, StillAttended DEF vars, store, clients
<1> QED
  BY <1>1, <1>2, <1>3, <1>4, <1>5, <1>6, <1>7 DEF Next

LEMMA InitAttended == Init => Attended
BY DEF Init, Attended, Attends, SessionsOfHolder, PointsRecorded, MountPCs, UnmountPCs, ExitPCs

\* While the daemon serves, a session in the table belongs to the user who holds
\* the tool or to one whose check-out is being served (save_session,
\* remove_session and clear_all_sessions as the handlers, the monitor and
\* startup call them): if requests come in turn, none is lost while the daemon is
\* up and the database works, whatever umount and mount do.
THEOREM SessionsFollowHolders == ASSUME Recorded PROVE Spec => []SessionsOfHolder
<1>1. Init => TypeOK /\ Turns /\ Attended
  BY InitType, InitTurns, InitAttended
<1>2. TypeOK /\ Turns /\ Attended /\ [Next]_vars => (TypeOK /\ Turns /\ Attended)'
  BY NextType, NextTurns, NextAttended DEF Recorded
<1>3. Attended => SessionsOfHolder
  BY DEF Attended
<1> QED
  BY <1>1, <1>2, <1>3, PTL DEF Spec

-----------------------------------------------------------------------------
(* What the monitor leaves mounted.                                        *)

\* A mount request that has made its first mount and will save the session.
SavingPCs == {"m_groups", "m_bind_group", "m_bind_public", "m_remount", "m_save"}

\* A thread is about to renew or to remove the row of the session.
Late(s) ==
  \E w \in Workers : /\ pc[w] \in SavingPCs \cup UnmountPCs
                     /\ job[w].tool = s[2] /\ job[w].user = s[1]

\* Target k of the session is unmounted, or the session is over or renewed.
Gone(s, k) ==
  mounts[s[2]][k] = <<>> \/ rows[s] = NoRow \/ rows[s].beat \/ Late(s)

\* What the monitor is through with is gone.
Torn ==
  \A k \in {Files, Public} :
    mon.pc = "remove" \/ (mon.pc = "detach" /\ k \notin mon.points) => Gone(mon.sid, k)

LEMMA TornOwn == TypeOK /\ Torn => OwnTornDown
<1> SUFFICES ASSUME TypeOK, Torn, mon.pc = "remove", Busy(mon.sid[2]) = {}
             PROVE  \/ rows[mon.sid] = NoRow \/ rows[mon.sid].beat
                    \/ mounts[mon.sid[2]][Files] = <<>> /\ mounts[mon.sid[2]][Public] = <<>>
  BY DEF OwnTornDown
<1>1. ~Late(mon.sid)
  BY DEF Late, Busy, SavingPCs, UnmountPCs
<1> QED
  BY <1>1 DEF Torn, Gone

\* A mount step binds on its own tool only, and then the row will be saved.
LEMMA MountSaves ==
  ASSUME TypeOK, NEW w \in Workers, MountStep(w)
  PROVE  /\ \A e \in Tools, k \in Slots : e # job[w].tool => mounts'[e][k] = mounts[e][k]
         /\ pc'[w] \in SavingPCs \/ mounts' = mounts
         /\ pc[w] \in SavingPCs =>
              pc'[w] \in SavingPCs \/ (pc[w] = "m_save" /\ pc'[w] = "idle")
<1> USE DEF Goto, Done
<1>0. /\ mounts \in Mounts /\ pc \in [Workers -> {"idle"} \cup MountPCs \cup UnmountPCs]
      /\ job[w] \in Job
  BY MountMoves DEF TypeOK, Mounts
<1>t. job[w].tool \in Tools /\ job[w].user \in Users /\ job[w].project \in Projects
  BY <1>0 DEF Job
<1>p. ASSUME NEW k \in Slots, NEW src \in Sources, Push(job[w].tool, k, src)
      PROVE  \A e \in Tools, l \in Slots : e # job[w].tool => mounts'[e][l] = mounts[e][l]
  <2> SUFFICES ASSUME NEW e \in Tools, NEW l \in Slots, e # job[w].tool
               PROVE  mounts'[e][l] = mounts[e][l]
    OBVIOUS
  <2>1. <<e, l>> # <<job[w].tool, k>>
    OBVIOUS
  <2> QED
    BY <1>0, <1>t, <1>p, <2>1, PushTable
<1>1. CASE MountUser(w) \/ MountAdmit(w) \/ MountFiles(w)
  BY <1>0, <1>1 DEF MountUser, MountAdmit, MountFiles, SavingPCs
<1>2. CASE MountBindFiles(w)
  BY <1>0, <1>t, <1>2, <1>p, Constants DEF MountBindFiles, SavingPCs
<1>3. CASE \E p \in Projects : MountGroup(w, p)
  BY <1>0, <1>3 DEF MountGroup, SavingPCs
<1>4. CASE MountBindGroup(w)
  BY <1>0, <1>t, <1>4, <1>p, Constants DEF MountBindGroup, SavingPCs
<1>5. CASE MountPublic(w)
  BY <1>0, <1>5 DEF MountPublic, SavingPCs
<1>6. CASE MountBindPublic(w)
  BY <1>0, <1>t, <1>6, <1>p, Constants DEF MountBindPublic, SavingPCs
<1>7. CASE MountRemount(w)
  BY <1>0, <1>t, <1>7, Constants, RemountTable DEF MountRemount, SavingPCs
<1>8. CASE MountSave(w)
  BY <1>0, <1>8 DEF MountSave, SavingPCs
<1> QED
  BY <1>1, <1>2, <1>3, <1>4, <1>5, <1>6, <1>7, <1>8 DEF MountStep

LEMMA UnmountShrinks ==
  ASSUME ~ReadCanFail, TypeOK, Turns, NEW w \in Workers, UnmountStep(w)
  PROVE  \A t \in Tools : Shrinks(t)
<1>1. ASSUME NEW e \in Tools, NEW k \in Slots, UnmountDetach(w, e, k)
      PROVE  \A t \in Tools : Shrinks(t)
  BY <1>1, GracefulShrinks DEF UnmountDetach, Turns
<1>2. CASE ~\E e \in Tools, k \in Slots : UnmountDetach(w, e, k)
  <2>1. UNCHANGED mounts
    BY <1>2 DEF UnmountStep, UnmountFind, UnmountScan, UnmountDetached, UnmountRevoke,
                UnmountRemove, store
  <2> QED
    BY <2>1 DEF Shrinks
<1> QED
  BY <1>1, <1>2

LEMMA MountGone ==
  ASSUME Recorded, TypeOK, Turns, Attended, NEW w \in Workers, MountStep(w),
         NEW s \in Sids, NEW k \in {Files, Public}, Gone(s, k)
  PROVE  Gone(s, k)'
<1> DEFINE u == job[w].user
           t == job[w].tool
<1>a. /\ pc[w] \in MountPCs /\ pc'[w] \in MountPCs \cup {"idle"} /\ u \in Users /\ t \in Tools
      /\ pc'[w] # "idle" => job'[w].user = u /\ job'[w].tool = t
      /\ SameElsewhere(w)
      /\ IF pc[w] = "m_save" THEN SavesRow(w) ELSE rows' = rows
  BY MountMoves DEF Recorded
<1>b. /\ \A e \in Tools, l \in Slots : e # t => mounts'[e][l] = mounts[e][l]
      /\ pc'[w] \in SavingPCs \/ mounts' = mounts
      /\ pc[w] \in SavingPCs =>
           pc'[w] \in SavingPCs \/ (pc[w] = "m_save" /\ pc'[w] = "idle")
  BY MountSaves
<1>c. s[1] \in Users /\ s[2] \in Tools /\ s = <<s[1], s[2]>> /\ k \in Slots
  BY Constants DEF Sids
<1>d. s # <<u, t>> => rows'[s] = rows[s]
  BY <1>a DEF SavesRow, TypeOK
<1>e. /\ \A v \in Workers : pc[v] # "idle" /\ job[v].tool = t => v = w
      /\ MountPCs \cap UnmountPCs = {} /\ "idle" \notin SavingPCs \cup UnmountPCs
      /\ "m_save" \in SavingPCs
  BY <1>a DEF Turns, Exclusive, MountPCs, UnmountPCs, SavingPCs
<1>l. ASSUME NEW v \in Workers, v # w, pc[v] \in SavingPCs \cup UnmountPCs,
             job[v].tool = s[2], job[v].user = s[1]
      PROVE  Late(s)'
  BY <1>a, <1>l DEF SameElsewhere, Late
<1>1. CASE s[2] # t
  <2>1. Late(s) => Late(s)'
    BY <1>1, <1>l DEF Late
  <2> QED
    BY <2>1, <1>1, <1>b, <1>c, <1>d DEF Gone
<1>2. CASE s[2] = t /\ s[1] # u
  <2>1. mode = "up" /\ using[t] = u
    BY <1>a DEF Turns, Halted, Attended, Attends, MountPCs
  <2>2. ~Closing(s[1], t)
    BY <1>a, <1>e, <1>2 DEF Closing
  <2>3. rows[s] = NoRow
    BY <1>2, <1>c, <2>1, <2>2, Holders DEF Attended
  <2> QED
    BY <2>3, <1>2, <1>c, <1>d DEF Gone
<1>3. CASE s = <<u, t>>
  <2>1. CASE pc'[w] \in SavingPCs
    BY <1>3, <1>a, <1>e, <2>1 DEF Gone, Late
  <2>2. CASE pc[w] = "m_save"
    <3>1. PICK row : row = Saved(rows[s], {Files, Public} \cup job[w].bound)
      OBVIOUS
    <3>2. row.beat
      BY <3>1 DEF Saved
    <3>3. rows' = [rows EXCEPT ![s] = row] /\ rows \in [Sids -> Row \cup {NoRow}]
      BY <1>a, <1>3, <2>2, <3>1 DEF SavesRow, TypeOK
    <3>4. rows'[s] = row
      BY <3>3
    <3> QED
      BY <3>2, <3>4 DEF Gone
  <2>3. CASE pc[w] \notin SavingPCs /\ pc'[w] \notin SavingPCs
    <3>1. ~Late(s)
      BY <1>3, <1>a, <1>e, <2>3 DEF Late
    <3> QED
      BY <3>1, <1>a, <1>b, <1>e, <2>3 DEF Gone
  <2> QED
    BY <1>b, <2>1, <2>2, <2>3
<1> QED
  BY <1>1, <1>2, <1>3, <1>c

LEMMA UnmountGone ==
  ASSUME Recorded, ~ReadCanFail, TypeOK, Turns, Attended, NEW w \in Workers,
         UnmountStep(w), NEW s \in Sids, NEW k \in {Files, Public}, Gone(s, k)
  PROVE  Gone(s, k)'
<1> DEFINE u == job[w].user
           t == job[w].tool
<1>a. /\ pc[w] \in UnmountPCs /\ pc'[w] \in ExitPCs \cup {"idle"} /\ u \in Users /\ t \in Tools
      /\ pc'[w] # "idle" => job'[w].user = u /\ job'[w].tool = t /\ rows' = rows
      /\ pc'[w] = "idle" =>
           /\ pc[w] \in ExitPCs
           /\ rows' = IF job[w].known THEN [rows EXCEPT ![<<u, t>>] = NoRow] ELSE rows
      /\ SameElsewhere(w)
  BY UnmountMoves DEF Recorded
<1>b. pc[w] \in ExitPCs /\ rows[<<u, t>>] # NoRow => job[w].known
  BY DEF Attended, Attends
<1>c. s[2] \in Tools /\ s = <<s[1], s[2]>> /\ k \in Slots
  BY Constants DEF Sids
<1>d. /\ rows \in [Sids -> Row \cup {NoRow}]
      /\ s # <<u, t>> => rows'[s] = rows[s]
      /\ s = <<u, t>> /\ pc'[w] = "idle" => rows'[s] = NoRow
  <2>1. rows \in [Sids -> Row \cup {NoRow}]
    BY DEF TypeOK
  <2>2. PICK r : r = <<u, t>>
    OBVIOUS
  <2> QED
    BY <2>1, <2>2, <1>a, <1>b
<1>m. mounts'[s[2]][k] = mounts[s[2]][k] \/ mounts'[s[2]][k] = <<>>
  BY <1>c, UnmountShrinks DEF Shrinks
<1>1. CASE s = <<u, t>>
  <2>1. CASE pc'[w] = "idle"
    BY <1>1, <1>d, <2>1 DEF Gone
  <2>2. CASE pc'[w] # "idle"
    <3>1. pc'[w] \in UnmountPCs
      BY <1>a, <2>2 DEF ExitPCs
    <3> QED
      BY <1>1, <1>a, <2>2, <3>1 DEF Gone, Late
  <2> QED
    BY <2>1, <2>2
<1>2. CASE s # <<u, t>>
  <2>1. Late(s) => Late(s)'
    BY <1>2, <1>a, <1>c DEF Late, SameElsewhere
  <2> QED
    BY <2>1, <1>2, <1>d, <1>m DEF Gone
<1> QED
  BY <1>1, <1>2

\* Steps of no thread: threads that are busy stay so.
LEMMA FadeGone ==
  ASSUME TypeOK, NEW s \in Sids, NEW k \in {Files, Public}, Gone(s, k),
         rows'[s] = NoRow \/ rows'[s] = rows[s], Shrinks(s[2]),
         \A w \in Workers : pc[w] # "idle" => pc'[w] = pc[w] /\ job'[w] = job[w]
  PROVE  Gone(s, k)'
<1>1. Late(s) => Late(s)'
  BY DEF Late, SavingPCs, UnmountPCs
<1>2. k \in Slots
  BY Constants
<1> QED
  BY <1>1, <1>2 DEF Gone, Shrinks

LEMMA MonitorTorn ==
  ASSUME ~UmountCanFail, ~ReadCanFail, TypeOK, Turns, Attended, Torn, Monitor
  PROVE  Torn'
<1>0. /\ UNCHANGED <<pc, job>> /\ mon.sid \in Sids /\ mon.sid[2] \in Tools
      /\ mounts \in Mounts /\ Files \in Slots /\ Public \in Slots
      /\ mon \in [pc: {"sleep", "check", "read", "detach", "remove"},
                  snap: [Sids -> SUBSET Slots], sid: Sids, points: SUBSET Slots]
  BY Constants DEF Monitor, MonWake, MonCheck, MonRead, MonDetach, MonRevoke,
                   MonRemove, MonSleep, TypeOK, Sids, Mounts
<1>1. CASE MonWake \/ (\E s \in Sids : MonCheck(s)) \/ MonRemove \/ MonSleep
  <2>1. CASE MonWake \/ MonRemove \/ MonSleep
    <3>1. mon'.pc \in {"sleep", "check"}
      <4>1. (\E N : mon' = [mon EXCEPT !.pc = "check", !.snap = N]) \/ MonRemove \/ MonSleep
        BY <2>1 DEF MonWake
      <4> QED
        <5>1. ASSUME NEW N, mon' = [mon EXCEPT !.pc = "check", !.snap = N]
              PROVE  mon'.pc = "check"
          BY <1>0, <5>1
        <5>2. CASE MonRemove
          <6>1. \E x : mon' = [mon EXCEPT !.pc = "check", !.sid = x]
            BY <5>2 DEF MonRemove
          <6> QED
            BY <1>0, <6>1
        <5>3. CASE MonSleep
          BY <5>3 DEF MonSleep, MonIdle
        <5> QED
          BY <4>1, <5>1, <5>2, <5>3
    <3> QED
      BY <3>1 DEF Torn
  <2>2. ASSUME NEW s \in Sids, MonCheck(s) PROVE Torn'
    <3> DEFINE N == [mon.snap EXCEPT ![s] = {}]
    <3>1. mon'.pc \in {"check", "read"}
      <4>1. /\ mon.pc = "check"
            /\ \/ mon' = [mon EXCEPT !.snap = N]
               \/ mon' = [mon EXCEPT !.snap = N, !.pc = "read", !.sid = s]
        BY <2>2 DEF MonCheck
      <4> HIDE DEF N
      <4> QED
        BY <1>0, <4>1
    <3> QED
      BY <3>1 DEF Torn
  <2> QED
    BY <1>1, <2>1, <2>2
<1>2. CASE MonRead
  <2>1. CASE /\ rows[mon.sid] # NoRow
             /\ mon' = [mon EXCEPT !.pc = "detach", !.points = rows[mon.sid].points]
    <3>1. mon'.pc = "detach" /\ mon'.points = rows[mon.sid].points
      BY <1>0, <2>1
    <3>2. {Files, Public} \subseteq rows[mon.sid].points
      BY <1>0, <2>1 DEF Attended, PointsRecorded
    <3> QED
      BY <3>1, <3>2 DEF Torn
  <2>2. CASE mon' = [mon EXCEPT !.pc = "check", !.sid = MonIdle.sid]
    <3>1. mon'.pc = "check"
      BY <1>0, <2>2
    <3> QED
      BY <3>1 DEF Torn
  <2> QED
    BY <1>2, <2>1, <2>2 DEF MonRead
<1>3. ASSUME NEW l \in Slots, MonDetach(l) PROVE Torn'
  <2>1. PICK success \in BOOLEAN : GracefulUnmount(mon.sid[2], l, success)
    BY <1>3 DEF MonDetach
  <2>2. \A e \in Tools : Shrinks(e)
    BY <1>0, <2>1, GracefulShrinks DEF Turns
  <2>3. mounts'[mon.sid[2]][l] = <<>>
    <3>1. success => mounts'[mon.sid[2]][l] = <<>>
      BY <1>0, <2>1, GracefulShrinks DEF Turns
    <3>2. mounts[mon.sid[2]][l] # <<>> => success
      BY <1>0, <2>1, GracefulTable
    <3> QED
      BY <1>0, <2>2, <3>1, <3>2 DEF Shrinks
  <2>4. /\ mon.pc = "detach" /\ mon'.pc = "detach" /\ mon'.sid = mon.sid
        /\ mon'.points = mon.points \ {l} /\ UNCHANGED rows
    BY <1>0, <1>3 DEF MonDetach
  <2>5. ASSUME NEW k \in {Files, Public}, k \notin mon'.points PROVE Gone(mon.sid, k)'
    <3>1. CASE k = l
      BY <2>3, <2>4, <3>1 DEF Gone
    <3>2. CASE k # l
      <4>1. Gone(mon.sid, k)
        BY <2>4, <2>5, <3>2 DEF Torn
      <4>2. PICK s : s = mon.sid
        OBVIOUS
      <4>3. Gone(s, k)'
        BY <1>0, <2>2, <2>4, <4>1, <4>2, FadeGone
      <4> QED
        BY <2>4, <4>2, <4>3
    <3> QED
      BY <3>1, <3>2
  <2> QED
    BY <2>4, <2>5 DEF Torn
<1>4. CASE MonRevoke
  <2>1. /\ mon.pc = "detach" /\ mon.points = {} /\ mon'.sid = mon.sid
        /\ UNCHANGED <<rows, mounts>>
    BY <1>0, <1>4 DEF MonRevoke
  <2>2. ASSUME NEW k \in {Files, Public} PROVE Gone(mon.sid, k)'
    BY <1>0, <2>1 DEF Torn, Gone, Late
  <2> QED
    BY <2>2 DEF Torn
<1> QED
  BY <1>1, <1>2, <1>3, <1>4 DEF Monitor

LEMMA NextTorn ==
  ASSUME Recorded, ~UmountCanFail, ~ReadCanFail, TypeOK, Turns, Attended, Torn,
         [Next]_vars
  PROVE  Torn'
<1>s. mon.sid \in Sids /\ mon.sid[2] \in Tools
  BY DEF TypeOK, Sids
\* Steps that are not the monitor's.
<1>a. ASSUME mon' = mon,
             \A s \in Sids, k \in {Files, Public} : Gone(s, k) => Gone(s, k)'
      PROVE  Torn'
  <2>1. PICK s : s = mon.sid
    OBVIOUS
  <2> QED
    BY <1>a, <1>s, <2>1 DEF Torn
<1>b. ASSUME mon' = mon, \A s \in Sids : rows'[s] = NoRow \/ rows'[s] = rows[s],
             \A t \in Tools : Shrinks(t),
             \A w \in Workers : pc[w] # "idle" => pc'[w] = pc[w] /\ job'[w] = job[w]
      PROVE  Torn'
  <2>1. \A s \in Sids : s[2] \in Tools
    BY DEF Sids
  <2> QED
    BY <1>a, <1>b, <2>1, FadeGone
<1>u. ASSUME UNCHANGED mounts PROVE \A t \in Tools : Shrinks(t)
  BY <1>u DEF Shrinks
<1>1. CASE Environment
  <2>1. ASSUME NEW w \in Workers, NEW u \in Users, NEW t \in Tools,
               (\E p \in Projects : SendMount(w, u, t, p))
                 \/ \E named \in BOOLEAN : SendUnmount(w, u, t, named)
        PROVE  Torn'
    BY <2>1, <1>b, <1>u DEF SendMount, SendUnmount, Start, store, TypeOK
  <2>2. ASSUME NEW u \in Users, NEW t \in Tools,
               \/ MissRequest(u, t) \/ ClientOpen(t) \/ ClientClose(t)
               \/ \E k \in Slots : ClientWrite(t, k)
        PROVE  Torn'
    BY <2>2, <1>b, <1>u DEF MissRequest, ClientOpen, ClientClose, ClientWrite, store
  <2>3. \E u \in Users : TRUE
    BY NamesAssumption
  <2> QED
    BY <1>1, <2>1, <2>2, <2>3 DEF Environment
<1>2. CASE Sync
  BY <1>2, <1>b, <1>u DEF Sync
<1>3. ASSUME NEW w \in Workers, MountStep(w) PROVE Torn'
  BY <1>3, <1>a, MountMoves, MountGone
<1>4. ASSUME NEW w \in Workers, UnmountStep(w) PROVE Torn'
  BY <1>4, <1>a, UnmountMoves, UnmountGone DEF Recorded
<1>5. CASE Monitor
  BY <1>5, MonitorTorn
<1>6. CASE Crash
  <2>1. mon'.pc = "sleep"
    BY <1>6 DEF Crash, MonIdle
  <2> QED
    BY <2>1 DEF Torn
<1>7. CASE StartupUnmount
  <2>1. PICK stuck : mounts' = [t \in Tools |-> [k \in Slots |->
                      IF <<t, k>> \in stuck THEN mounts[t][k] ELSE <<>>]]
    BY <1>7, StartupTable
  <2>2. \A t \in Tools : Shrinks(t)
    BY <2>1 DEF Shrinks
  <2> QED
    BY <1>7, <1>b, <2>2 DEF StartupUnmount
<1>8. CASE StartupWipe \/ StartupClear
  BY <1>8, <1>b, <1>u DEF StartupWipe, StartupClear
<1>9. CASE UNCHANGED vars
  BY <1>9, <1>b, <1>u DEF vars, store
<1> QED
  BY <1>1, <1>2, <1>3, <1>4, <1>5, <1>6, <1>7, <1>8, <1>9 DEF Next, Startup

LEMMA InitTorn == Init => Torn
BY DEF Init, Torn, MonIdle

\* What the idle monitor is through with is unmounted as far as it is the user's
\* own or public, unless the session was ended or renewed meanwhile
\* (auto_unmount_session against handle_mount, handle_unmount and restarts): if
\* moreover umount works and the mount table can be read.
THEOREM MonitorUnmountsOwn ==
  ASSUME Recorded, ~UmountCanFail, ~ReadCanFail PROVE Spec => []OwnTornDown
<1>1. Init => TypeOK /\ Turns /\ Attended /\ Torn
  BY InitType, InitTurns, InitAttended, InitTorn
<1>2. TypeOK /\ Turns /\ Attended /\ Torn /\ [Next]_vars
        => (TypeOK /\ Turns /\ Attended /\ Torn)'
  BY NextType, NextTurns, NextAttended, NextTorn DEF Recorded
<1>3. TypeOK /\ Torn => OwnTornDown
  BY TornOwn
<1> QED
  BY <1>1, <1>2, <1>3, PTL DEF Spec

-----------------------------------------------------------------------------
(* Without group folders.                                                  *)

NoGroups ==
  /\ \A t \in Tools, k \in Slots \ {Files, Public} : mounts[t][k] = <<>>
  /\ \A w \in Workers : /\ pc[w] # "m_bind_group"
                        /\ pc[w] \in MountPCs => job[w].todo = {}

\* Steps that move no thread and mount nothing.
LEMMA StillNoGroups ==
  ASSUME NoGroups, \A t \in Tools : Shrinks(t),
         \A w \in Workers : pc'[w] \notin MountPCs \/ (pc'[w] = pc[w] /\ job'[w] = job[w])
  PROVE  NoGroups'
BY DEF NoGroups, Shrinks, MountPCs

LEMMA MountNoGroups ==
  ASSUME ~BindGroups, TypeOK, NoGroups, NEW w \in Workers, MountStep(w)
  PROVE  NoGroups'
<1> USE DEF Goto, Done
<1>0. /\ mounts \in Mounts /\ pc[w] \in MountPCs /\ job[w] \in Job
      /\ job \in [Workers -> Job \cup {NoJob}]
      /\ pc \in [Workers -> {"idle"} \cup MountPCs \cup UnmountPCs]
      /\ job[w].tool \in Tools /\ job[w].user \in Users /\ job[w].todo = {}
      /\ SameElsewhere(w)
  BY MountMoves DEF TypeOK, Mounts, NoGroups
<1>t. mounts \in Mounts /\ job[w].tool \in Tools
  BY <1>0
<1>p. ASSUME NEW k \in Slots, NEW src \in Sources, Push(job[w].tool, k, src)
      PROVE  \A e \in Tools, l \in Slots : l # k => mounts'[e][l] = mounts[e][l]
  <2>1. \A e \in Tools, l \in Slots :
          <<e, l>> # <<job[w].tool, k>> => mounts'[e][l] = mounts[e][l]
    BY <1>t, <1>p, PushTable
  <2> QED
    BY <2>1
<1>1. /\ \A t \in Tools, k \in Slots \ {Files, Public} : mounts'[t][k] = mounts[t][k]
      /\ pc'[w] # "m_bind_group"
      /\ pc'[w] # "idle" => job'[w].todo = {}
  <2>1. CASE MountUser(w)
    <3> DEFINE b == (db'.users[job[w].user] = "active")
    <3>1. \/ Done(w)
          \/ Goto(w, "m_admit") /\ job' = [job EXCEPT ![w] = [job[w] EXCEPT !.active = b]]
      BY <2>1 DEF MountUser
    <3> HIDE DEF b
    <3> QED
      BY <1>0, <2>1, <3>1 DEF MountUser, Job
  <2>2. CASE MountAdmit(w)
    BY <1>0, <2>2 DEF MountAdmit, Job
  <2>3. CASE MountFiles(w) \/ MountPublic(w) \/ MountSave(w)
    BY <1>0, <2>3 DEF MountFiles, MountPublic, MountSave
  <2>4. CASE MountBindFiles(w)
    <3>1. CASE mounts' = mounts
      BY <1>0, <2>4, <3>1 DEF MountBindFiles
    <3>2. CASE Push(job[w].tool, Files, UserFiles(job[w].user)) /\ Goto(w, "m_groups")
               /\ UNCHANGED job
      BY <1>0, <1>p, <3>2, Constants
    <3> QED
      BY <2>4, <3>1, <3>2 DEF MountBindFiles
  <2>5. CASE MountBindPublic(w)
    <3>1. CASE mounts' = mounts
      BY <1>0, <2>5, <3>1 DEF MountBindPublic
    <3>2. CASE Push(job[w].tool, Public, PublicRW)
      BY <1>0, <1>p, <2>5, <3>2, Constants DEF MountBindPublic
    <3> QED
      BY <2>5, <3>1, <3>2 DEF MountBindPublic
  <2>6. CASE MountRemount(w)
    <3>1. CASE mounts' = mounts
      BY <1>0, <2>6, <3>1 DEF MountRemount
    <3>2. CASE mounts' # mounts
      BY <1>0, <2>6, <3>2, RemountTable DEF MountRemount
    <3> QED
      BY <3>1, <3>2
  <2>7. ~(\E p \in Projects : MountGroup(w, p)) /\ ~MountBindGroup(w)
    BY <1>0 DEF MountGroup, MountBindGroup, NoGroups
  <2> QED
    BY <2>1, <2>2, <2>3, <2>4, <2>5, <2>6, <2>7 DEF MountStep
<1> QED
  BY <1>0, <1>1 DEF NoGroups, SameElsewhere, MountPCs

LEMMA NextNoGroups ==
  ASSUME ~ReadCanFail, ~BindGroups, ~DbCanFail, TypeOK, Turns, NoGroups, [Next]_vars
  PROVE  NoGroups'
<1>u. ASSUME UNCHANGED mounts PROVE \A t \in Tools : Shrinks(t)
  BY <1>u DEF Shrinks
<1>1. CASE Environment
  <2>1. ASSUME NEW w \in Workers, NEW u \in Users, NEW t \in Tools,
               (\E p \in Projects : SendMount(w, u, t, p))
                 \/ \E named \in BOOLEAN : SendUnmount(w, u, t, named)
        PROVE  NoGroups'
    <3>1. /\ UNCHANGED mounts /\ SameElsewhere(w)
          /\ pc'[w] \in {"m_user", "u_find"} /\ job'[w].todo = {}
      BY <2>1 DEF SendMount, SendUnmount, Start, store, TypeOK, SameElsewhere, NewJob
    <3> QED
      BY <3>1 DEF NoGroups, SameElsewhere
  <2>2. ASSUME NEW u \in Users, NEW t \in Tools,
               \/ MissRequest(u, t) \/ ClientOpen(t) \/ ClientClose(t)
               \/ \E k \in Slots : ClientWrite(t, k)
        PROVE  NoGroups'
    BY <2>2, <1>u, StillNoGroups DEF MissRequest, ClientOpen, ClientClose, ClientWrite, store
  <2>3. \E u \in Users : TRUE
    BY NamesAssumption
  <2> QED
    BY <1>1, <2>1, <2>2, <2>3 DEF Environment
<1>2. CASE Sync
  BY <1>2, <1>u, StillNoGroups DEF Sync
<1>3. ASSUME NEW w \in Workers, MountStep(w) PROVE NoGroups'
  BY <1>3, MountNoGroups
<1>4. ASSUME NEW w \in Workers, UnmountStep(w) PROVE NoGroups'
  BY <1>4, UnmountMoves, UnmountShrinks, StillNoGroups
     DEF SameElsewhere, ExitPCs, UnmountPCs, MountPCs
<1>5. CASE Monitor
  <2>1. UNCHANGED <<pc, job>>
    BY <1>5 DEF Monitor, MonWake, MonCheck, MonRead, MonDetach, MonRevoke, MonRemove, MonSleep
  <2>2. \A t \in Tools : Shrinks(t)
    <3>1. ASSUME NEW k \in Slots, MonDetach(k) PROVE \A t \in Tools : Shrinks(t)
      <4>1. mon.sid[2] \in Tools
        BY DEF TypeOK, Sids
      <4> QED
        BY <3>1, <4>1, GracefulShrinks DEF MonDetach, Turns
    <3>2. CASE ~\E k \in Slots : MonDetach(k)
      BY <1>5, <3>2, <1>u DEF Monitor, MonWake, MonCheck, MonRead, MonRevoke, MonRemove,
                              MonSleep, store
    <3> QED
      BY <3>1, <3>2
  <2> QED
    BY <2>1, <2>2, StillNoGroups
<1>6. CASE Crash
  <2>1. UNCHANGED mounts /\ \A w \in Workers : pc'[w] = "idle"
    BY <1>6 DEF Crash, store
  <2> QED
    BY <2>1, <1>u, StillNoGroups DEF MountPCs
<1>7. CASE StartupUnmount
  <2>1. PICK stuck : mounts' = [t \in Tools |-> [k \in Slots |->
                      IF <<t, k>> \in stuck THEN mounts[t][k] ELSE <<>>]]
    BY <1>7, StartupTable
  <2>2. \A t \in Tools : Shrinks(t)
    BY <2>1 DEF Shrinks
  <2> QED
    BY <1>7, <2>2, StillNoGroups DEF StartupUnmount
<1>8. CASE StartupWipe \/ StartupClear \/ UNCHANGED vars
  BY <1>8, <1>u, StillNoGroups DEF StartupWipe, StartupClear, vars, store
<1> QED
  BY <1>1, <1>2, <1>3, <1>4, <1>5, <1>6, <1>7, <1>8 DEF Next, Startup

\* So what a repeated mount request can make the monitor leave behind are group
\* folders and nothing else: where none are mounted (group_folder_type is
\* "account"), the tool is bare when the monitor removes the session.
THEOREM MonitorUnmountsAll ==
  ASSUME Recorded, ~UmountCanFail, ~ReadCanFail, ~BindGroups
  PROVE  Spec => []TeardownComplete
<1>1. Init => TypeOK /\ Turns /\ Attended /\ Torn /\ NoGroups
  <2>1. Init => NoGroups
    BY DEF Init, NoGroups, MountPCs
  <2> QED
    BY <2>1, InitType, InitTurns, InitAttended, InitTorn
<1>2. TypeOK /\ Turns /\ Attended /\ Torn /\ NoGroups /\ [Next]_vars
        => (TypeOK /\ Turns /\ Attended /\ Torn /\ NoGroups)'
  BY NextType, NextTurns, NextAttended, NextTorn, NextNoGroups DEF Recorded
<1>3. TypeOK /\ Torn /\ NoGroups => TeardownComplete
  <2> SUFFICES ASSUME TypeOK, OwnTornDown, NoGroups PROVE TeardownComplete
    BY TornOwn
  <2>1. mon.sid[2] \in Tools
    BY DEF TypeOK, Sids
  <2> QED
    BY <2>1 DEF OwnTornDown, NoGroups, TeardownComplete
<1> QED
  BY <1>1, <1>2, <1>3, PTL DEF Spec
=============================================================================
