------------------------------ MODULE LabDaemon ------------------------------
(***************************************************************************)
(* The session life cycle of the mount daemon (daemon.py).  Flask runs     *)
(* handle_mount and handle_unmount on request threads (Workers), the idle  *)
(* monitor (idle_monitor.py) tears sessions down on a thread of its own,   *)
(* and startup_cleanup wipes what a previous run of the daemon left.  They *)
(* share, with no lock between them, the kernel's mount table, the POSIX   *)
(* ACLs of the storage and the sessions table of the state database.       *)
(*                                                                         *)
(* A tool is identified with its lower-cased name, hence with its          *)
(* directory SESSIONS_DIR/tool and its machine account; a session          *)
(* identifier with the pair of its user and its tool.                      *)
(***************************************************************************)
EXTENDS Integers, Sequences, FiniteSets

CONSTANTS
  Users,          \* user ids
  Tools,          \* tools, one session directory and machine account each
  Contains,       \* <<t, e>>: the path of t is a substring of the path of e
  Projects,       \* projects (a request names one, a user belongs to some)
  Accounts,
  AccountOf,      \* the account of a project
  Folders,
  FolderOf,       \* the folder of a project below my_groups (_safe_name)
  BindGroups,     \* group_folder_type is not "account"
  Excluded,       \* projects hidden by an exclusion rule of the config
  NemoStates,     \* the contents a reconciliation may leave in the database
  Workers,        \* request threads that can run at once
  ActiveTools,    \* bound: tools under which Samba clients write files
  OpenTools,      \* bound: tools under which Samba clients keep files open
  Orderly,        \* NEMO sends a tool one request at a time, users take turns
  LossyLink,      \* a request may get lost although the daemon is up
  UmountCanFail,  \* umount may report an error
  MountCanFail,   \* mount, or the read-only remount, may report an error
  ReadCanFail,    \* a read of the mount table may fail (error swallowed)
  MaxStack,       \* bound: a failed read leads to no more mounts on a target
  DbCanFail,      \* a call on the sessions table may fail (error swallowed)
  NoUser, NoJob, NoRow

Status == {"absent", "active", "inactive"}

\* A user row, a project row (with its account) and the memberships.
NemoState == [users: [Users -> Status], groups: [Projects -> Status],
              member: [Users -> SUBSET Projects]]

ASSUME NamesAssumption ==
  /\ NoUser \notin Users
  /\ Users # {} /\ Tools # {} /\ Projects # {}
  /\ AccountOf \in [Projects -> Accounts]
  /\ FolderOf \in [Projects -> Folders]
  /\ Excluded \subseteq Projects
  /\ Contains \subseteq Tools \X Tools
ASSUME ReflexiveAssumption ==
  \A t \in Tools : <<t, t>> \in Contains
ASSUME NemoAssumption == NemoStates \subseteq NemoState
ASSUME WorkersAssumption == IsFiniteSet(Workers)
ASSUME BoundAssumption == MaxStack \in Nat
ASSUME SwitchAssumption ==
  {BindGroups, Orderly, LossyLink, UmountCanFail, MountCanFail, ReadCanFail,
   DbCanFail} \subseteq BOOLEAN

-----------------------------------------------------------------------------
(* Paths.  A slot is a mount target below a tool's session directory, a    *)
(* source is a directory bound there, an ACL entry is held by the machine  *)
(* account of a tool on a path of the storage.                             *)

Files == <<"my_files">>
Public == <<"public">>
Group(p) == <<"my_groups", FolderOf[p]>>
Slots == {Files, Public} \cup {Group(p) : p \in Projects}

UserFiles(u) == <<"files", u>>
ProjectFiles(p) == <<"project", p>>
PublicRW == <<"public", "rw">>
PublicRO == <<"public", "ro">>
Sources == {UserFiles(u) : u \in Users} \cup {ProjectFiles(p) : p \in Projects}
             \cup {PublicRW, PublicRO}

\* The directory of the storage a source exposes.
DirOf(src) == IF src \in {PublicRW, PublicRO} THEN Public ELSE src
StorageDirs == {DirOf(src) : src \in Sources}

UserBase(u) == <<"base", u>>
AccountDir(a) == <<"account", a>>
AclPaths == {UserFiles(u) : u \in Users} \cup {UserBase(u) : u \in Users}
              \cup {ProjectFiles(p) : p \in Projects}
              \cup {AccountDir(a) : a \in Accounts} \cup {Public}

Sids == Users \X Tools

\* A row of the sessions table.  Times are compared with one value only, the
\* time one timeout ago, so a time is recent or not; mounted is mount_time,
\* beat is last_heartbeat.
Row == [points: SUBSET Slots, mounted: BOOLEAN, beat: BOOLEAN]

\* How often a target is listed in the mount points read from /proc/mounts.
Listing == [Tools -> [Slots -> Nat]]

\* ok is unmount_success.  blind is kept for the properties only: a read of the
\* mount table failed while the request was unmounting.
Job == [user: Users, tool: Tools, project: Projects, active: BOOLEAN,
        todo: SUBSET Projects, bound: SUBSET Slots,
        known: BOOLEAN, live: Listing, ok: BOOLEAN, blind: BOOLEAN]

MountPCs == {"m_user", "m_admit", "m_files", "m_bind_files", "m_groups",
             "m_bind_group", "m_bind_public", "m_remount", "m_save"}
UnmountPCs == {"u_find", "u_scan", "u_detach", "u_revoke", "u_remove"}

VARIABLES
  mode,     \* "up", or where startup_cleanup stands: "down", "clean", "wiped"
  db,       \* users, projects and memberships of the state database
  rows,     \* the sessions table
  mounts,   \* the mount table: for each target the stack of sources, top first
  acl,      \* ACL entries, pairs of a tool and a path
  erased,   \* storage directories whose data rmtree has deleted
  fresh,    \* storage directories modified within one timeout
  handles,  \* tools under whose directory a Samba client has a file open
  using,    \* the user NEMO has checked in to a tool
  pc, job,  \* the request threads
  mon       \* the idle monitor

store == <<db, rows, mounts, acl, erased, fresh>>
clients == <<handles, using>>
vars == <<mode, store, clients, pc, job, mon>>

Busy(t) == {w \in Workers : pc[w] # "idle" /\ job[w].tool = t}

NoSnap == [s \in Sids |-> {}]
MonIdle == [pc |-> "sleep", snap |-> NoSnap, sid |-> CHOOSE s \in Sids : TRUE,
            points |-> {}]

Init ==
  /\ mode = "down"
  /\ db \in NemoStates
  /\ rows = [s \in Sids |-> NoRow]
  /\ mounts = [t \in Tools |-> [k \in Slots |-> <<>>]]
  /\ acl = {}
  /\ erased = {}
  /\ fresh = {}
  /\ handles = {}
  /\ using = [t \in Tools |-> NoUser]
  /\ pc = [w \in Workers |-> "idle"]
  /\ job = [w \in Workers |-> NoJob]
  /\ mon = MonIdle

-----------------------------------------------------------------------------
(* Requests.  Which user holds a tool is decided by NEMO: a check-in sends *)
(* a mount request, a check-out an unmount request, and either may be sent *)
(* again.                                                                  *)

NoListing == [t \in Tools |-> [k \in Slots |-> 0]]

NewJob(u, t, p, known) ==
  [user |-> u, tool |-> t, project |-> p, active |-> FALSE, todo |-> {},
   bound |-> {}, known |-> known, live |-> NoListing, ok |-> TRUE,
   blind |-> FALSE]

\* NEMO may act on tool t for user u.
Turn(u, t) == Orderly => using[t] \in {NoUser, u} /\ Busy(t) = {}

Start(w, l, j) ==
  /\ mode = "up"
  /\ pc[w] = "idle"
  /\ pc' = [pc EXCEPT ![w] = l]
  /\ job' = [job EXCEPT ![w] = j]

SendMount(w, u, t, p) ==
  /\ Turn(u, t)
  /\ using' = [using EXCEPT ![t] = u]
  /\ Start(w, "m_user", NewJob(u, t, p, FALSE))
  /\ UNCHANGED <<mode, store, handles, mon>>

\* The project of an unmount request only directs a chown; a session_id in
\* the payload makes the session known without a look-up.
SendUnmount(w, u, t, named) ==
  /\ Turn(u, t)
  /\ using' = [using EXCEPT ![t] = NoUser]
  /\ Start(w, "u_find", NewJob(u, t, CHOOSE p \in Projects : TRUE, named))
  /\ UNCHANGED <<mode, store, handles, mon>>

\* A check-in or a check-out whose request does not reach the daemon.
MissRequest(u, t) ==
  /\ mode # "up" \/ LossyLink
  /\ Turn(u, t)
  /\ \E v \in {NoUser, u} : using' = [using EXCEPT ![t] = v]
  /\ UNCHANGED <<mode, store, handles, pc, job, mon>>

-----------------------------------------------------------------------------
(* Reconciliation with NEMO, from the sync thread or from a request.       *)

\* What run_once may make of the database: rows are never deleted.
Synced ==
  {n \in NemoStates :
     /\ \A u \in Users : db.users[u] # "absent" => n.users[u] # "absent"
     /\ \A p \in Projects : db.groups[p] # "absent" => n.groups[p] # "absent"}

Sync ==
  /\ mode = "up"
  /\ db' \in Synced
  /\ UNCHANGED <<mode, rows, mounts, acl, erased, fresh, clients, pc, job, mon>>

\* get_user_projects_with_accounts
Memberships(n, u) == {p \in n.member[u] : n.groups[p] = "active"}

-----------------------------------------------------------------------------
(* handle_mount.                                                           *)

Goto(w, l) == pc' = [pc EXCEPT ![w] = l]
\* Faulty variant: the thread keeps its place although its request is over.
DoneWithoutReturn(w) == UNCHANGED pc /\ job' = [job EXCEPT ![w] = NoJob]

Done(w) == Goto(w, "idle") /\ job' = [job EXCEPT ![w] = NoJob]

\* _is_mountpoint answers "no" for a target that is not mounted, and for every
\* target when mountinfo cannot be read.
SeemsFree(t, k) ==
  mounts[t][k] = <<>> \/ (ReadCanFail /\ Len(mounts[t][k]) < MaxStack)

Push(t, k, src) == mounts' = [mounts EXCEPT ![t][k] = <<src>> \o @]
Pop(t, k) == mounts' = [mounts EXCEPT ![t][k] = Tail(@)]

MountUser(w) ==
  LET u == job[w].user
  IN /\ pc[w] = "m_user"
     /\ db' \in (IF db.users[u] = "absent" THEN Synced ELSE {db})
     /\ IF db'.users[u] = "absent"
          THEN Done(w)
          ELSE /\ Goto(w, "m_admit")
               /\ job' = [job EXCEPT ![w].active = (db'.users[u] = "active")]
     /\ UNCHANGED <<mode, rows, mounts, acl, erased, fresh, clients, mon>>

\* The user's activity is the one read before the second reconciliation.
MountAdmit(w) ==
  LET p == job[w].project
  IN /\ pc[w] = "m_admit"
     /\ db' \in (IF db.groups[p] = "absent" THEN Synced ELSE {db})
     /\ IF ~job[w].active \/ db'.groups[p] = "inactive"
          THEN Done(w)
          ELSE /\ Goto(w, "m_files")
               /\ job' = [job EXCEPT ![w].todo =
                            IF BindGroups
                              THEN Memberships(db', job[w].user) \ Excluded
                              ELSE {}]
     /\ UNCHANGED <<mode, rows, mounts, acl, erased, fresh, clients, mon>>

\* Faulty variant: binds without looking whether the target is mounted.
MountFilesUnprobed(w) ==
  /\ pc[w] = "m_files"
  /\ acl' = acl \cup {<<job[w].tool, UserFiles(job[w].user)>>}
  /\ Goto(w, "m_bind_files")
  /\ UNCHANGED <<mode, db, rows, mounts, erased, fresh, clients, job, mon>>

MountFiles(w) ==
  LET t == job[w].tool
  IN /\ pc[w] = "m_files"
     /\ acl' = acl \cup {<<t, UserFiles(job[w].user)>>}
     /\ \/ SeemsFree(t, Files) /\ Goto(w, "m_bind_files")
        \/ mounts[t][Files] # <<>> /\ Goto(w, "m_groups")
     /\ UNCHANGED <<mode, db, rows, mounts, erased, fresh, clients, job, mon>>

MountBindFiles(w) ==
  /\ pc[w] = "m_bind_files"
  /\ \/ /\ Push(job[w].tool, Files, UserFiles(job[w].user))
        /\ Goto(w, "m_groups")
        /\ UNCHANGED job
     \/ MountCanFail /\ Done(w) /\ UNCHANGED mounts
  /\ UNCHANGED <<mode, db, rows, acl, erased, fresh, clients, mon>>

GroupPaths(S) == {AccountDir(AccountOf[p]) : p \in S} \cup {ProjectFiles(p) : p \in S}

MountGroup(w, p) ==
  LET t == job[w].tool
  IN /\ pc[w] = "m_groups"
     /\ p \in job[w].todo
     /\ acl' = acl \cup ({t} \X GroupPaths({p}))
     /\ job' = [job EXCEPT ![w].todo = @ \ {p}, ![w].project = p]
     /\ \/ SeemsFree(t, Group(p)) /\ Goto(w, "m_bind_group")
        \/ mounts[t][Group(p)] # <<>> /\ Goto(w, "m_groups")
     /\ UNCHANGED <<mode, db, rows, mounts, erased, fresh, clients, mon>>

\* Only a folder bound by this request enters its mount points.
MountBindGroup(w) ==
  LET p == job[w].project
  IN /\ pc[w] = "m_bind_group"
     /\ \/ /\ Push(job[w].tool, Group(p), ProjectFiles(p))
           /\ job' = [job EXCEPT ![w].bound = @ \cup {Group(p)}]
        \/ MountCanFail /\ UNCHANGED <<mounts, job>>
     /\ Goto(w, "m_groups")
     /\ UNCHANGED <<mode, db, rows, acl, erased, fresh, clients, mon>>

MountPublic(w) ==
  LET t == job[w].tool
  IN /\ pc[w] = "m_groups"
     /\ job[w].todo = {}
     /\ acl' = acl \cup {<<t, Public>>}
     /\ \/ SeemsFree(t, Public) /\ Goto(w, "m_bind_public")
        \/ mounts[t][Public] # <<>> /\ Goto(w, "m_save")
     /\ UNCHANGED <<mode, db, rows, mounts, erased, fresh, clients, job, mon>>

MountBindPublic(w) ==
  /\ pc[w] = "m_bind_public"
  /\ \/ Push(job[w].tool, Public, PublicRW) /\ Goto(w, "m_remount")
     \/ MountCanFail /\ Goto(w, "m_save") /\ UNCHANGED mounts
  /\ UNCHANGED <<mode, db, rows, acl, erased, fresh, clients, job, mon>>

\* Faulty variant: one "mount --bind -o ro", whose option the kernel ignores.
MountRemountNever(w) ==
  /\ pc[w] = "m_remount"
  /\ Goto(w, "m_save")
  /\ UNCHANGED <<mode, store, clients, job, mon>>

\* The remount fails if the target is not mounted any more.
MountRemount(w) ==
  LET stack == mounts[job[w].tool][Public]
  IN /\ pc[w] = "m_remount"
     /\ \/ /\ stack # <<>>
           /\ mounts' = [mounts EXCEPT ![job[w].tool][Public] =
                           <<PublicRO>> \o Tail(@)]
        \/ (stack = <<>> \/ MountCanFail) /\ UNCHANGED mounts
     /\ Goto(w, "m_save")
     /\ UNCHANGED <<mode, db, rows, acl, erased, fresh, clients, job, mon>>

\* save_session keeps the mount_time of a row that is there already.
Saved(row, points) ==
  [points |-> points, mounted |-> IF row = NoRow THEN TRUE ELSE row.mounted,
   beat |-> TRUE]

\* Faulty variant: only what this request bound enters its mount points.
MountSaveBound(w) ==
  /\ pc[w] = "m_save"
  /\ rows' = [rows EXCEPT ![<<job[w].user, job[w].tool>>] = Saved(@, job[w].bound)]
  /\ Done(w)
  /\ UNCHANGED <<mode, db, mounts, acl, erased, fresh, clients, mon>>

MountSave(w) ==
  LET sid == <<job[w].user, job[w].tool>>
  IN /\ pc[w] = "m_save"
     /\ \/ rows' = [rows EXCEPT ![sid] =
                      Saved(@, {Files, Public} \cup job[w].bound)]
        \/ DbCanFail /\ UNCHANGED rows
     /\ Done(w)
     /\ UNCHANGED <<mode, db, mounts, acl, erased, fresh, clients, mon>>

-----------------------------------------------------------------------------
(* handle_unmount.                                                         *)

\* Faulty variant: the entries are revoked before the unmount.
UnmountFindRevokes(w) ==
  /\ pc[w] = "u_find"
  /\ acl' = acl \ ({job[w].tool} \X
               ({Public} \cup GroupPaths(Memberships(db, job[w].user))))
  /\ Goto(w, "u_scan")
  /\ UNCHANGED <<mode, db, rows, mounts, erased, fresh, clients, job, mon>>

\* Faulty variant: a session is known by the session_id of the payload only.
UnmountFindNot(w) ==
  /\ pc[w] = "u_find"
  /\ Goto(w, "u_scan")
  /\ UNCHANGED <<mode, store, clients, job, mon>>

UnmountFind(w) ==
  /\ pc[w] = "u_find"
  /\ \/ job' = [job EXCEPT ![w].known =
                  @ \/ rows[<<job[w].user, job[w].tool>>] # NoRow]
     \/ DbCanFail /\ UNCHANGED job
  /\ Goto(w, "u_scan")
  /\ UNCHANGED <<mode, store, clients, mon>>

\* Faulty variant: only my_files and public are unmounted.
UnmountScanNoGroups(w) ==
  /\ pc[w] = "u_scan"
  /\ job' = [job EXCEPT ![w].live =
               [e \in Tools |-> [k \in Slots |->
                  IF e = job[w].tool /\ k \in {Files, Public}
                    THEN Len(mounts[e][k]) ELSE 0]]]
  /\ Goto(w, "u_detach")
  /\ UNCHANGED <<mode, store, clients, mon>>

\* The lines of /proc/mounts below the targets of S whose path contains the
\* path of t's directory.
Listed(t, S) ==
  [e \in Tools |-> [k \in Slots |->
     IF <<t, e>> \in Contains /\ <<e, k>> \in S THEN Len(mounts[e][k]) ELSE 0]]

\* What has been read when a read fails counts as all there is.
UnmountScan(w) ==
  /\ pc[w] = "u_scan"
  /\ \/ job' = [job EXCEPT ![w].live = Listed(job[w].tool, Tools \X Slots)]
     \/ /\ ReadCanFail
        /\ \E S \in SUBSET (Tools \X Slots) :
             job' = [job EXCEPT ![w].live = Listed(job[w].tool, S),
                                ![w].blind = TRUE]
  /\ Goto(w, "u_detach")
  /\ UNCHANGED <<mode, store, clients, mon>>

\* graceful_unmount: what is not mounted counts as unmounted, unless another
\* thread has unmounted it between the probe and the umount, which then fails;
\* when mountinfo cannot be read, a mounted target counts as unmounted, too.
GracefulUnmount(t, k, success) ==
  \/ /\ mounts[t][k] = <<>>
     /\ UNCHANGED mounts
  \/ /\ mounts[t][k] # <<>>
     /\ success
     /\ Pop(t, k) \/ (ReadCanFail /\ UNCHANGED mounts)
  \/ /\ mounts[t][k] # <<>>
     /\ UmountCanFail
     /\ ~success
     /\ UNCHANGED mounts

\* Faulty variant: the result of graceful_unmount is dropped.
UnmountDetachUnchecked(w, e, k) ==
  /\ pc[w] = "u_detach"
  /\ job[w].live[e][k] > 0
  /\ \E success \in BOOLEAN : GracefulUnmount(e, k, success)
  /\ job' = [job EXCEPT ![w].live[e][k] = @ - 1]
  /\ UNCHANGED <<mode, db, rows, acl, erased, fresh, clients, pc, mon>>

UnmountDetach(w, e, k) ==
  /\ pc[w] = "u_detach"
  /\ job[w].live[e][k] > 0
  /\ \E success \in BOOLEAN :
       /\ GracefulUnmount(e, k, success)
       /\ job' = [job EXCEPT
                    ![w].live[e][k] = @ - 1,
                    ![w].ok = @ /\ success,
                    ![w].blind = @ \/ (success /\ mounts[e][k] # <<>> /\ mounts' = mounts)]
  /\ UNCHANGED <<mode, db, rows, acl, erased, fresh, clients, pc, mon>>

UnmountDetached(w) ==
  /\ pc[w] = "u_detach"
  /\ job[w].live = NoListing
  /\ Goto(w, "u_revoke")
  /\ UNCHANGED <<mode, store, clients, job, mon>>

\* The entries of the projects the user belongs to now.
UnmountRevoke(w) ==
  LET u == job[w].user
  IN /\ pc[w] = "u_revoke"
     /\ acl' = acl \ ({job[w].tool} \X
                        ({UserBase(u), Public} \cup GroupPaths(Memberships(db, u))))
     /\ Goto(w, "u_remove")
     /\ UNCHANGED <<mode, db, rows, mounts, erased, fresh, clients, job, mon>>

UnmountRemove(w) ==
  LET sid == <<job[w].user, job[w].tool>>
  IN /\ pc[w] = "u_remove"
     /\ \/ rows' = IF job[w].known THEN [rows EXCEPT ![sid] = NoRow] ELSE rows
        \/ DbCanFail /\ UNCHANGED rows
     /\ Done(w)
     /\ UNCHANGED <<mode, db, mounts, acl, erased, fresh, clients, mon>>

-----------------------------------------------------------------------------
(* The idle monitor and its callback auto_unmount_session.                 *)

\* A cycle starts: the sessions are read and the time is sampled.  What was
\* recent at the last sample may have become old since; a last_heartbeat is
\* never older than its mount_time.  A session whose mount_time is recent
\* cannot be found idle in this cycle, so the snapshot leaves it out.
MonWake ==
  /\ mode = "up"
  /\ mon.pc = "sleep"
  /\ \E agedMounts \in SUBSET Sids : \E agedBeats \in SUBSET agedMounts :
       rows' = [s \in Sids |->
         IF rows[s] = NoRow THEN NoRow
         ELSE [points |-> rows[s].points,
               mounted |-> rows[s].mounted /\ s \notin agedMounts,
               beat |-> rows[s].beat /\ s \notin agedBeats]]
  /\ fresh' \in SUBSET fresh
  /\ mon' = [mon EXCEPT !.pc = "check",
               !.snap = [s \in Sids |->
                  IF rows'[s] # NoRow /\ ~rows'[s].mounted
                    THEN rows'[s].points ELSE {}]]
  /\ UNCHANGED <<mode, db, mounts, acl, erased, clients, pc, job>>

\* The newest modification below the target folders is recent.
Touched(t, points) ==
  \E k \in points : mounts[t][k] # <<>> /\ DirOf(Head(mounts[t][k])) \in fresh

\* get_open_handles, whatever is in handles: the module does not import os, so
\* os.path.join raises NameError for every row that matches, swallowed there.
OpenHandles(t) == {}

MonCheck(s) ==
  /\ mon.pc = "check"
  /\ mon.snap[s] # {}
  /\ mon' = IF OpenHandles(s[2]) # {} \/ Touched(s[2], mon.snap[s])
              THEN [mon EXCEPT !.snap[s] = {}]
              ELSE [mon EXCEPT !.snap[s] = {}, !.pc = "read", !.sid = s]
  /\ UNCHANGED <<mode, store, clients, pc, job>>

MonRead ==
  /\ mon.pc = "read"
  /\ \/ /\ rows[mon.sid] # NoRow
        /\ mon' = [mon EXCEPT !.pc = "detach", !.points = rows[mon.sid].points]
     \/ /\ rows[mon.sid] = NoRow \/ DbCanFail
        /\ mon' = [mon EXCEPT !.pc = "check", !.sid = MonIdle.sid]
  /\ UNCHANGED <<mode, store, clients, pc, job>>

MonDetach(k) ==
  /\ mon.pc = "detach"
  /\ k \in mon.points
  /\ \E success \in BOOLEAN : GracefulUnmount(mon.sid[2], k, success)
  /\ mon' = [mon EXCEPT !.points = @ \ {k}]
  /\ UNCHANGED <<mode, db, rows, acl, erased, fresh, clients, pc, job>>

MonRevoke ==
  /\ mon.pc = "detach"
  /\ mon.points = {}
  /\ acl' = acl \ ({mon.sid[2]} \X {UserBase(mon.sid[1]), Public})
  /\ mon' = [mon EXCEPT !.pc = "remove"]
  /\ UNCHANGED <<mode, db, rows, mounts, erased, fresh, clients, pc, job>>

\* Faulty variant: the row stays as long as a target is still mounted.
MonRemoveIfBare ==
  /\ mon.pc = "remove"
  /\ rows' = IF \A k \in Slots : mounts[mon.sid[2]][k] = <<>>
               THEN [rows EXCEPT ![mon.sid] = NoRow] ELSE rows
  /\ mon' = [mon EXCEPT !.pc = "check", !.sid = MonIdle.sid]
  /\ UNCHANGED <<mode, db, mounts, acl, erased, fresh, clients, pc, job>>

MonRemove ==
  /\ mon.pc = "remove"
  /\ \/ rows' = [rows EXCEPT ![mon.sid] = NoRow]
     \/ DbCanFail /\ UNCHANGED rows
  /\ mon' = [mon EXCEPT !.pc = "check", !.sid = MonIdle.sid]
  /\ UNCHANGED <<mode, db, mounts, acl, erased, fresh, clients, pc, job>>

MonSleep ==
  /\ mon.pc = "check"
  /\ mon.snap = NoSnap
  /\ mon' = MonIdle
  /\ UNCHANGED <<mode, store, clients, pc, job>>

-----------------------------------------------------------------------------
(* The daemon dies; startup_cleanup before the next one serves requests.   *)

Crash ==
  /\ mode # "down"
  /\ mode' = "down"
  /\ pc' = [w \in Workers |-> "idle"]
  /\ job' = [w \in Workers |-> NoJob]
  /\ mon' = MonIdle
  /\ UNCHANGED <<store, clients>>

\* Faulty variant: umount -l once for every target, however often bound.
StartupUnmountOnce ==
  /\ mode = "down"
  /\ mode' = "clean"
  /\ mounts' = [t \in Tools |-> [k \in Slots |->
                  IF mounts[t][k] = <<>> THEN <<>> ELSE Tail(mounts[t][k])]]
  /\ UNCHANGED <<db, rows, acl, erased, fresh, clients, pc, job, mon>>

\* Faulty variant: umount -l for the mount points of recorded sessions only.
StartupUnmountRecorded ==
  /\ mode = "down"
  /\ mode' = "clean"
  /\ mounts' = [t \in Tools |-> [k \in Slots |->
                  IF \E u \in Users : rows[<<u, t>>] # NoRow /\ k \in rows[<<u, t>>].points
                    THEN <<>> ELSE mounts[t][k]]]
  /\ UNCHANGED <<db, rows, acl, erased, fresh, clients, pc, job, mon>>

\* umount -l once for every line of /proc/mounts, results ignored; no umount at
\* all when a read fails.
StartupUnmount ==
  /\ mode = "down"
  /\ mode' = "clean"
  /\ \/ \E stuck \in (IF UmountCanFail THEN SUBSET (Tools \X Slots) ELSE {{}}) :
          mounts' = [t \in Tools |-> [k \in Slots |->
                       IF <<t, k>> \in stuck THEN mounts[t][k] ELSE <<>>]]
     \/ ReadCanFail /\ UNCHANGED mounts
  /\ UNCHANGED <<db, rows, acl, erased, fresh, clients, pc, job, mon>>

\* rmtree of the session directory goes through every mount still visible.
StartupWipe ==
  /\ mode = "clean"
  /\ mode' = "wiped"
  /\ erased' = erased \cup
       {DirOf(src) : src \in {s \in Sources \ {PublicRO} :
          \E t \in Tools, k \in Slots : mounts[t][k] # <<>> /\ Head(mounts[t][k]) = s}}
  /\ UNCHANGED <<db, rows, mounts, acl, fresh, clients, pc, job, mon>>

StartupClear ==
  /\ mode = "wiped"
  /\ mode' = "up"
  /\ \/ rows' = [s \in Sids |-> NoRow]
     \/ DbCanFail /\ UNCHANGED rows
  /\ UNCHANGED <<db, mounts, acl, erased, fresh, clients, pc, job, mon>>

-----------------------------------------------------------------------------
(* Samba clients, which reach the storage without the daemon.              *)

ClientWrite(t, k) ==
  /\ t \in ActiveTools
  /\ mounts[t][k] # <<>>
  /\ Head(mounts[t][k]) # PublicRO
  /\ fresh' = fresh \cup {DirOf(Head(mounts[t][k]))}
  /\ UNCHANGED <<mode, db, rows, mounts, acl, erased, clients, pc, job, mon>>

ClientOpen(t) ==
  /\ t \in OpenTools \ handles
  /\ \E k \in Slots : mounts[t][k] # <<>>
  /\ handles' = handles \cup {t}
  /\ UNCHANGED <<mode, store, using, pc, job, mon>>

ClientClose(t) ==
  /\ t \in handles
  /\ handles' = handles \ {t}
  /\ UNCHANGED <<mode, store, using, pc, job, mon>>

-----------------------------------------------------------------------------

MountStep(w) ==
  \/ MountUser(w) \/ MountAdmit(w) \/ MountFiles(w) \/ MountBindFiles(w)
  \/ \E p \in Projects : MountGroup(w, p)
  \/ MountBindGroup(w) \/ MountPublic(w) \/ MountBindPublic(w)
  \/ MountRemount(w) \/ MountSave(w)

UnmountStep(w) ==
  \/ UnmountFind(w) \/ UnmountScan(w)
  \/ \E t \in Tools, k \in Slots : UnmountDetach(w, t, k)
  \/ UnmountDetached(w) \/ UnmountRevoke(w) \/ UnmountRemove(w)

Monitor ==
  \/ MonWake \/ (\E s \in Sids : MonCheck(s)) \/ MonRead
  \/ (\E k \in Slots : MonDetach(k)) \/ MonRevoke \/ MonRemove \/ MonSleep

Startup == StartupUnmount \/ StartupWipe \/ StartupClear

Environment ==
  \/ \E w \in Workers, u \in Users, t \in Tools :
       \/ \E p \in Projects : SendMount(w, u, t, p)
       \/ \E named \in BOOLEAN : SendUnmount(w, u, t, named)
  \/ \E u \in Users, t \in Tools : MissRequest(u, t)
  \/ \E t \in Tools : \/ ClientOpen(t) \/ ClientClose(t)
                      \/ \E k \in Slots : ClientWrite(t, k)

Next ==
  \/ Environment
  \/ Sync
  \/ \E w \in Workers : MountStep(w) \/ UnmountStep(w)
  \/ Monitor
  \/ Crash
  \/ Startup

Spec == Init /\ [][Next]_vars

\* The threads of a running daemon are scheduled, and the service manager
\* starts a daemon that died.
Fairness ==
  /\ \A w \in Workers : WF_vars(MountStep(w) \/ UnmountStep(w))
  /\ WF_vars(Monitor)
  /\ WF_vars(Startup)

FairSpec == Spec /\ Fairness

-----------------------------------------------------------------------------
(* Properties.                                                             *)

\* The variables stay in their domains; a busy thread has a job.
TypeOK ==
  /\ mode \in {"down", "clean", "wiped", "up"}
  /\ db \in NemoStates
  /\ rows \in [Sids -> Row \cup {NoRow}]
  /\ mounts \in [Tools -> [Slots -> Seq(Sources)]]
  /\ acl \subseteq Tools \X AclPaths
  /\ erased \subseteq StorageDirs
  /\ fresh \subseteq StorageDirs
  /\ handles \subseteq Tools
  /\ using \in [Tools -> Users \cup {NoUser}]
  /\ pc \in [Workers -> {"idle"} \cup MountPCs \cup UnmountPCs]
  /\ job \in [Workers -> Job \cup {NoJob}]
  /\ \A w \in Workers : pc[w] # "idle" => job[w] \in Job
  /\ mon \in [pc: {"sleep", "check", "read", "detach", "remove"},
              snap: [Sids -> SUBSET Slots], sid: Sids, points: SUBSET Slots]

\* Some reconciliation made u a member of the active project p, and no
\* exclusion rule hides it.
Entitled(u, p) ==
  p \notin Excluded /\ \E n \in NemoStates : p \in Memberships(n, u)

MayHold(u, src) ==
  \/ src \in {UserFiles(u), PublicRW, PublicRO}
  \/ \E p \in Projects : Entitled(u, p) /\ src = ProjectFiles(p)

\* While a user holds a tool, nothing in its session directory shows another
\* user's files or a project the user was never entitled to: handle_mount
\* takes a target that is mounted already for its own, so all depends on the
\* previous user's unmount (README: users only see their directories during
\* active sessions).
Isolated ==
  mode = "up" =>
    \A t \in Tools, k \in Slots : using[t] # NoUser =>
      \A i \in DOMAIN mounts[t][k] : MayHold(using[t], mounts[t][k][i])

\* The directories that can be reached through a tool, whatever they are
\* mounted on and whichever of them a later mount hides.
Visible ==
  [t \in Tools |-> UNION {{DirOf(mounts[t][k][i]) : i \in DOMAIN mounts[t][k]} :
                            k \in Slots}]

MaySee == {m \in Users \X StorageDirs :
             \E src \in Sources : m[2] = DirOf(src) /\ MayHold(m[1], src)}

Access == INSTANCE ToolAccess
  WITH Dirs <- StorageDirs, May <- MaySee, open <- mode = "up", shown <- Visible

\* Threads, mounts and rows come down to the access that ToolAccess promises:
\* a tool changes hands only when bare, shows only what its user may see, and
\* a restart serves again only when nothing is shown, although handle_mount,
\* handle_unmount, the monitor and startup_cleanup do all of it target by
\* target with no lock between them.
ImplementsToolAccess == Access!Spec

\* handle_unmount answers "unmounted" only when the session directory of its
\* tool is bare, unless it could not read the mount table itself: it works from
\* one listing, the idle monitor detaches the same targets at the same time,
\* and failed reads of earlier requests have mounted targets several times.
Thorough ==
  \A w \in Workers :
    pc[w] \in {"u_revoke", "u_remove"} /\ job[w].ok /\ ~job[w].blind =>
      \A k \in Slots : mounts[job[w].tool][k] = <<>>

\* No target is bound twice: the probe that precedes a bind is still right
\* when the bind is made.
NoStacking == \A t \in Tools, k \in Slots : Len(mounts[t][k]) <= 1

\* Requests that race for a tool stack mounts on one target, never more of
\* them than there are request threads.
Binding(t, k) ==
  {w \in Busy(t) : \/ pc[w] = "m_bind_files" /\ k = Files
                   \/ pc[w] = "m_bind_group" /\ k = Group(job[w].project)
                   \/ pc[w] = "m_bind_public" /\ k = Public}
StackBounded ==
  \A t \in Tools, k \in Slots :
    Len(mounts[t][k]) + Cardinality(Binding(t, k)) <= Cardinality(Workers)

\* A project folder visible in a session is backed by the ACL entries Samba
\* needs on the project and on its account: grants precede the bind and no
\* revocation overtakes the unmount.
Granted ==
  \A t \in Tools, p \in Projects :
    (\E k \in Slots : \E i \in DOMAIN mounts[t][k] :
       mounts[t][k][i] = ProjectFiles(p))
      => {t} \X GroupPaths({p}) \subseteq acl

\* The public directory is writable through a session only between the bind
\* and the remount of the request that mounts it.
PublicReadOnly ==
  mode = "up" =>
    \A t \in Tools :
      (\A w \in Busy(t) : pc[w] # "m_remount") =>
        \A i \in DOMAIN mounts[t][Public] : mounts[t][Public][i] # PublicRW

\* Wiping the session directory at startup deletes nothing of the storage.
StartupErasesNothing == erased = {}

\* A mount below a tool's directory goes away only by an unmount of that
\* tool, by the idle monitor working on it, or at startup.
DetachesOwnTool ==
  [][\A t \in Tools, k \in Slots :
       Len(mounts'[t][k]) < Len(mounts[t][k]) =>
         \/ mode # "up"
         \/ \E w \in Busy(t) : pc[w] = "u_detach"
         \/ mon.pc = "detach" /\ mon.sid[2] = t]_vars

\* While the daemon serves, the row of a session belongs to the user who holds
\* the tool, or to one whose check-out is being served: the monitor, which goes
\* by the rows, is not sent after a session of the past, although check-ins and
\* check-outs go on while the daemon is down and the monitor and the requests
\* remove the same rows.
SessionsOfHolder ==
  mode = "up" =>
    \A u \in Users, t \in Tools : rows[<<u, t>>] # NoRow =>
      \/ using[t] = u
      \/ \E w \in Busy(t) : pc[w] \in UnmountPCs /\ job[w].user = u

\* When the monitor is done with the mount points of a session nobody remounted
\* meanwhile, the user's own directory and the public one are unmounted,
\* whatever a repeated mount request has made of the recorded mount points
\* and whoever held the tool while the monitor was at work.
OwnTornDown ==
  mon.pc = "remove" =>
    \/ rows[mon.sid] = NoRow \/ rows[mon.sid].beat \/ Busy(mon.sid[2]) # {}
    \/ mounts[mon.sid[2]][Files] = <<>> /\ mounts[mon.sid[2]][Public] = <<>>

\* A session the code takes for idle: its mount_time is old and nothing below
\* its tool was modified for a timeout.  Neither reading a file, nor keeping one
\* open, nor a heartbeat makes a difference to idle_monitor.py, against
\* README.md:93, README.md:95 and the monitor's own docstring.
Overdue(s) ==
  /\ rows[s] # NoRow /\ ~rows[s].mounted
  /\ ~Touched(s[2], Slots)

\* While the daemon serves, no session stays overdue for ever: the monitor
\* removes it, whatever fails while it unmounts and whatever clients do.
OverdueSessionsEnd == \A s \in Sids : []<>~(mode = "up" /\ Overdue(s))

-----------------------------------------------------------------------------
(* What the documentation, the comments and the tests say, and the code    *)
(* does not do; each is the subject of a run of its own.                   *)

\* The monitor "unmounts inactive sessions" (README.md:95): once it is done
\* with the mount points of a session nobody remounted meanwhile, nothing is
\* left below the tool.
TeardownComplete ==
  mon.pc = "remove" =>
    \/ rows[mon.sid] = NoRow \/ rows[mon.sid].beat \/ Busy(mon.sid[2]) # {}
    \/ \A k \in Slots : mounts[mon.sid[2]][k] = <<>>

\* The monitor never unmounts a session whose mount_time is recent
\* (idle_monitor.py: "Ensure max_activity is at least the mount_time").
FreshSessionSpared ==
  mon.pc = "detach" => rows[mon.sid] = NoRow \/ ~rows[mon.sid].mounted

\* The monitor ends a session only if it "has no open Samba handles"
\* (idle_monitor.py:14).
OpenSessionSpared ==
  [][mon.pc = "check" /\ mon'.pc = "read" => mon'.sid[2] \notin handles]_vars
==============================================================================
