# Verification of the lab mount daemon

The daemon gives the user of a lab instrument ("tool") access to that user's
files while the user holds the tool: NEMO, the reservation system, tells the
daemon about a check-in, and the daemon binds the user's directories below the
tool's session directory, which Samba exports; at check-out it takes them away
again.  This directory holds TLA+ specifications of the daemon, the TLC
configurations that check them on small instances, and theorems proved with
TLAPS for every instance.

To run a configuration: `tlc -config isolation.cfg MCLabDaemon`; those whose name
begins with `sync` belong to `MCNemoSync`, with `session` to `MCMigration`.
To check the proofs of a module: `tlapm LabDaemonIsolation.tla`.

## 1. The system

| Component | State | Operations | Shares state with |
|---|---|---|---|
| Mount handlers, `daemon.py` (`handle_mount`, `handle_unmount`, `graceful_unmount`) | none of its own; works on the kernel's mount table, the ACLs and the state database from Flask request threads | mount, unmount | everything below |
| Idle monitor, `idle_monitor.py`, with the callback `auto_unmount_session` of `daemon.py` | a snapshot of the sessions per cycle | check every session, tear down an idle one | mount table, ACLs, sessions |
| Startup, `startup_cleanup` and the SIGTERM handler | none | unmount everything below the session directory, delete the directory, clear the sessions | mount table, storage, sessions |
| State database, `modules/state_db.py` (SQLite) | accounts, projects, users, memberships, sessions | upserts, memberships, save, remove and clear sessions; errors are logged and swallowed | all threads and one external script |
| Reconciliation, `modules/nemo_sync.py` | a running flag and a thread | `run_once` (accounts, projects, users, memberships), start, stop | the database, operating system users and groups |
| NEMO API client, `modules/nemo_api_client.py` | none | fetch lists; a failure yields an empty list | reconciliation |
| Provisioner, `modules/user_provisioner.py` | operating system users, groups, directories | idempotent commands, each of which may fail | reconciliation, mount, `handle_init_user` |
| ACLs, `acl_manager.py` | POSIX ACL entries of a tool's machine account | grant, revoke | mount, unmount, monitor |
| Quotas, `quota_manager.py` | kernel quotas | set, query | mount, provisioner |
| Samba view, `modules/samba_controller.py` | none | list the open files that count for a tool | idle monitor |
| Legacy session file, `session_state.py` | a JSON file under `flock` | save, remove, heartbeat | the migration script; the daemon does not import it any more |
| Migration, `scripts/migrate_json_to_sqlite.py` | the map it has read, the users it has identified | take the sessions of the file into the database | the file, the users and sessions tables |
| Other scripts, `scripts/`, `run_wsl_tests.py` | - | certificates, one reconciliation | the database |

No lock is shared by the threads.  Every database call is a transaction of its
own, every mount or umount one system call; whatever a handler found out may
have changed by its next statement.  What makes the daemon hard to test:

* requests for one tool, the monitor's teardown and reconciliation interleave;
* a target that is mounted is never mounted again, whoever's files it shows, so
  isolation depends on all earlier unmounts, on restarts and on lost requests;
* mounts, ACL entries and the session row are three records of one session,
  changed at different times by different threads, and each step may fail;
* a crash may come between any two steps, after which the next start deletes
  the session directory *recursively*;
* the monitor acts on a snapshot that is old by the time it reaches its end;
* a command of the operating system that fails is logged, and the commands that
  rest on it are skipped without a word;
* the session file is cut off before it is written, and written after its lock
  is given back.

What makes each component correct:

* handlers: a user never sees another user's files; a folder that is visible is
  backed by its ACL entries; the public directory is read-only; an unmount that
  reports success left nothing; a target is bound once; what was granted is
  revoked; another tool's session is left alone;
* monitor: an idle session ends; an active or new one does not; a teardown
  leaves nothing; a mounted session stays recorded;
* startup: nothing of the persistent storage is deleted;
* reconciliation: the database and the operating system converge to what NEMO
  reports, whatever order its runs write in; an excluded project gets neither
  members, in the tables or in Linux, nor a Linux group;
* tables: nothing refers to a row that is not there, whichever upsert failed;
* session file: a saved session stays until it is removed;
* migration: the loss of one session costs no other.

## 2. The modules

| Module | Contents |
|---|---|
| `LabDaemon` | the session life cycle: handlers, monitor, startup, crashes, lost requests, Samba clients, reconciliation as an environment; its properties |
| `ToolAccess` | abstract: who holds a tool, and what can be reached through it; implemented by `LabDaemon` |
| `NemoSync` | a reconciliation phase by phase, several at once, provisioning, with what may fail in it; its properties |
| `NemoTables` | abstract: how the tables may change that the mount handlers read; implemented by `NemoSync` |
| `SessionFile` | the JSON file, call by call and step by step; its properties |
| `SessionMap` | abstract: a map from identifiers to sessions; implemented by `SessionFile` |
| `Migration` | extends `SessionFile` by the migration script, the two tables it fills and the reconciliation beside it |
| `MCLabDaemon`, `MCNemoSync`, `MCMigration` | the constants of the small instances |
| `LabDaemonProofs` | type correctness; requests in turn: `Thorough`, `NoStacking` |
| `LabDaemonIsolation` | `Isolated`, `LabDaemon` implements `ToolAccess` |
| `LabDaemonStorage` | `Granted`, `StartupErasesNothing`, `PublicReadOnly` |
| `LabDaemonRaces` | without turns: `StackBounded`, `DetachesOwnTool` |
| `LabDaemonSessions` | what the sessions table says and what the monitor leaves: `SessionsOfHolder`, `OwnTornDown` |
| `NemoSyncProofs` | type correctness of `NemoSync`, `ExcludedStayOut`, `NemoSync` implements `NemoTables` |
| `NemoSyncAgreement` | the safety part of convergence: `RunsReconcile` |
| `SessionFileProofs` | type correctness of `Migration`, `NoLostSession`, `SessionFile` implements `SessionMap`, `MigratedUnlessTaken` |

The models meet in two places.  `NemoTables` is what `LabDaemon` needs of
reconciliation: no row goes away, a member has a row and the project it belongs to
has one.  Its variables are the parts of `LabDaemon`'s `db`, so with all contents
that `NemoTables` can reach for `NemoStates`, every step of it is a `Sync` of
`LabDaemon` (lemma `TablesAreSync`); that is how the intermediate states of a reconciliation enter the
theorems about isolation, which hold for any `NemoStates`.  And `Migration` runs the
script on the variables of `SessionFile` themselves.

### State of `LabDaemon`

| Variable | In the code |
|---|---|
| `mode` | where `main` stands: dead, after the unmounts of `startup_cleanup`, after its `rmtree`, serving |
| `db` | the users, projects and memberships tables.  The status of a project folds the `active` flags of the project and of its account, because only `get_user_projects_with_accounts` and the admission test of `handle_mount` read them |
| `rows` | the sessions table |
| `mounts` | the mount table below the session directory: for each target the *stack* of what is mounted there, since a second bind hides the first and one umount removes one layer |
| `acl` | pairs of a tool and a path on which its machine account has an entry |
| `erased` | directories of the storage that `rmtree` reached through a mount |
| `fresh` | directories modified within the last timeout |
| `handles` | tools below whose directory a Samba client has a file open |
| `using` | for each tool the user NEMO has checked in: a variable of the environment |
| `pc`, `job` | program counter and locals of each request thread |
| `mon` | program counter and locals of the monitor |

### Actions of `LabDaemon`

`MountUser` ... `MountSave` and `UnmountFind` ... `UnmountRemove` are the
handlers, cut where a system call or a transaction may be overtaken: a probe of
the mount table and the bind that follows are two actions, so two requests may
both probe before either binds.  `MonWake` ... `MonSleep` are the monitor and
`auto_unmount_session`.  `StartupUnmount`, `StartupWipe`, `StartupClear` are
`startup_cleanup`.  `Crash` takes every thread's locals; the mount table, the
ACLs and the database survive.  `MissRequest` is a check-in or check-out that
does not arrive: always possible while the daemon is down, and while it is up if
`LossyLink`.  `Sync` is a reconciliation, `ClientWrite`, `ClientOpen` and
`ClientClose` are Samba clients.

### Abstractions of `LabDaemon`

* A tool stands for its lower-cased name, its directory and its machine account;
  a session identifier for its user and its tool.
* `Contains` says which tool's path is a substring of which other's: the daemon
  matches mount points by substring.
* Open files count for nothing in the monitor, as in the code: `get_open_handles`
  fails with a swallowed `NameError` on every line it should return (section 4), so
  `OpenHandles` is empty whatever is in `handles`.  Reads of a file and heartbeats
  do not count either: the monitor looks at modification times.
* Times are compared with one value only, the time one timeout ago, so
  `mount_time` and `last_heartbeat` are recent or not.  They age when the
  monitor samples the clock (`MonWake`).  A session with a recent `mount_time`
  cannot be idle in that cycle, so the snapshot keeps the others only.
* An umount works or, if `UmountCanFail`, reports an error and leaves the mount:
  this covers the `lsof` loop, the grace period and the lazy umount of
  `graceful_unmount`.  A target that is not mounted counts as unmounted, or as a
  failure, when another thread unmounts it between the probe and the umount; the
  model allows both answers without asking which thread it was.  The
  code unmounts by falling path length; the model takes any order.
* If `ReadCanFail`, a read of the mount table may fail wherever the code makes one
  and swallows the exception.  A probe then answers that a mounted target is free, so
  a mount request binds it again (`SeemsFree`) and `graceful_unmount` reports success
  without an umount.  The scan of `/proc/mounts` goes on with what it has read, which
  is nothing or some of it (`UnmountScan`); a failed read lists the lines of a target
  together or not at all.  The scan at startup then unmounts nothing
  (`StartupUnmount`).  `job.blind` remembers, for `Thorough` only, that a read failed
  while the request was itself unmounting.
* At startup a target is unmounted completely or not at all.
* A database call is one transaction; if `DbCanFail` a call on the sessions
  table may be lost, as the code swallows its exceptions.  Opening the database
  (`_get_connection`) is outside their `try`; a request that ends there with an
  exception is not modelled.
* Setting and removing ACL entries succeeds; permission bits are left out.
  The public directory exists, and the monitor can read the times of files.
* The look-up of a session at an unmount compares the user and the tool of the
  payload as they come (`daemon.py:438`); the model takes NEMO to send both with the
  same spelling at check-in and check-out.
* Reconciliation replaces the contents of `db` by any of `NemoStates` that keeps
  the rows there are: `run_once` never deletes users or projects.  It may happen
  at any moment, and inside a mount request for an unknown user or project.
* Left out: reply codes, signatures, quota warnings, ownership, the creation and
  removal of empty directories.

### `ToolAccess` and the mapping

`ToolAccess` knows whether the daemon serves (`open`), who holds each tool
(`using`) and which directories of the storage can be reached through it (`shown`).
A tool is taken over only when nothing is shown through it, shows only what its user
may see, and a closed daemon opens only when nothing is shown anywhere.  The mapping
takes `mode = "up"` for `open` and, for `shown`, the directories of all sources on
all stacks below a tool (`Visible`), the hidden ones too: one umount may uncover them.
A mount request is many steps of `LabDaemon` and shows one directory after the other;
most steps of the handlers are stuttering.

### Switches and bounds of `LabDaemon`

`Orderly`: NEMO sends a tool one request at a time, and a user checks in only
when the previous one has been checked out.  `LossyLink`, `UmountCanFail`,
`MountCanFail`, `ReadCanFail`, `DbCanFail`: the failures named above.  `BindGroups`:
the configuration option `group_folder_type`.  Bounds: `Workers` (threads that can
serve at once), `ActiveTools` and `OpenTools` (tools under which clients write, and
keep files open), `NemoStates` (what reconciliation may find), `MaxStack` (a failed
probe leads to no more than that many mounts on one target).

### State and actions of `NemoSync`

| Variable | In the code |
|---|---|
| `nemo` | NEMO itself: the environment |
| `calm` | from now on NEMO does not change and nothing fails: the environment |
| `db` | accounts, projects, users and memberships tables; `"absent"` means no row |
| `groups` | projects that have a Linux group and a directory |
| `linux`, `homes` | users with a Linux account, and those whose directory belongs to them and has its quota |
| `memberOf`, `locked` | the Linux groups of each user, the locked users |
| `run` | for each runner, where `run_once` stands, the lists it fetched (`got`), what its loop has still to visit (`todo`) and the locals of the innermost iteration |

`FetchAccounts`, `FetchProjects` and `FetchUsers` are the three requests, each of
which sees NEMO at another moment.  `SyncAccount`, `SyncProject` and `SyncUser` are
the upserts, `ProvisionProject`, `CreateUser` and `SetStatus` what follows in the
same iteration, `FilterProjects` to `SetGroups` an iteration of `_sync_memberships`, cut
between reading the rows and every single insert and delete.  `AccountsDone`,
`ProjectsDone`, `UsersDone` and `RunDone` end a loop.  `Abort` is an exception that
leaves `run_once`, or a crash.  `InitUser` is `handle_init_user`, which creates an
account from a request thread (the reconciliation it may start is one of the runs).
`Change` and `Settle` are NEMO.

`Runners` bounds how many runs overlap: the background loop (`Loop`), requests for
unknown users and projects, and `scripts/sync_nemo.py`, which is built without
exclusion rules (`Unruled`).  `CanFail` lets a request yield an empty or shortened
list, and a transaction have no effect, both of which the code logs and passes over;
`CommandsFail` does the same to a command of the operating system, on which others
rest: `set_user_active_status` and `sync_user_groups` do nothing to a user without an
account, `usermod -G` sets no group if one of them does not exist, a directory
cannot be given to a user that does not exist.  `ReadsFail` lets a read miss a row.  `Worlds` bounds what NEMO contains.

Abstractions: the lists and sets of the code are visited in any order.  A project
has an account, stays with it, and keeps its name, as accounts keep theirs; users do
change names.  The rows of the projects of one user are read in one step.  The
commands that give a user a directory (`mkdir`, `chown`, `setfacl`, `setquota`) work
or fail together.  Modes and default ACLs, machine accounts, `dry_run` and the
symlinks whose call is commented out are left out.  `LabDaemon` sees a whole
reconciliation as one change of its `db` (`Sync`), which
overwrites nothing but what reconciliation writes.

`NemoTables` sees the users, the projects and the memberships; the mapping folds
the row of an account into those of its projects (`GroupRows`), so an upsert of an
account is a step of several projects at once.

### State and actions of `SessionFile` and `Migration`

| Variable | In the code |
|---|---|
| `file` | the contents of the JSON file: the text of a map, no text, or text that cannot be parsed |
| `lock` | the thread that holds the `flock` |
| `op` | for each thread where its call stands, the map it has read (`data`) and the map it is going to write (`new`) |
| `kept` | the sessions whose saving was answered and that nobody removed since: a variable of the environment |
| `userRow`, `sessionRow` | the user name in the row of an identifier; the user in the row of a session |
| `script` | where the script stands, the map it has read (`legacy`), the identifiers it uses (`known`), the sessions it has still to migrate, and those for which the database refused a statement (`refused`, for the property only) |

A call opens the file (`Begin`), takes the lock, reads (`Load`), cuts the file off
(`Truncate`), writes into the buffer of its file object and gives the lock back
(`Unlock`); the text reaches the file when the `with` statement closes the object
(`Close`).  `json.dump` of a few sessions stays below the 8 KB of the buffer, so
nothing reaches the file earlier; longer texts would in part.  A call that has
nothing to change gives the lock back at once and writes nothing.  When another text
has reached the file meanwhile, the texts overlay each other: the model lets the
later one win or leaves text that cannot be parsed, which every reader takes for no
sessions (`session_state.py:88`).  `CloseFails` is a full disk, `Kill` the end of the
process: the kernel drops its locks, its buffers are lost.  Whether `flock` succeeds
is not modelled (the code goes on without the lock if it does not).

The script reads the file without a lock and ends if it cannot parse it
(`ReadLegacy`), asks NEMO for the users, of which it may get none or some
(`LoadUsers`), and takes session by session: an upsert of the user (`MigrateUser`),
an insert of the session (`MigrateSession`).  Both are refused if they break a unique
name or a foreign key, and, if `DbFails`, at any time: `upsert_user` and
`save_session` swallow every exception (`state_db.py:198`, `:367`).  `Interrupt` ends the script anywhere; it may be run
again at any time.  `Reconcile` is the upsert of a user by the daemon of today.  One
assumption, `RowsAgree`, limits the rows there are at first: the row of an identifier
carries the name for which NEMO and the script use it, so nobody was renamed.
Times and the tool of a session are left out.

`Overlap` lets calls of several threads overlap, `Accidents` allows full disks and
crashes, `NemoFails` a shortened list of users, `DbFails` a database that refuses
statements.  Bounds: `Threads`, `Rows`.

## 3. What is checked

The first three runs use `MCLabDaemon`.  Request threads are interchangeable, and the runs
with two of them and no liveness property use that symmetry; so are the runs of
reconciliation in `sync`, which has no fairness.

| Run | Instance | Properties | What it shows |
|---|---|---|---|
| `isolation` | 2 users, 1 tool, 2 projects, 1 thread, database changing between three states (a user unknown at first, a project closed, a membership moved), crashes | `TypeOK`, `Isolated`, `Granted`, `PublicReadOnly`, `NoStacking`, `SessionsOfHolder`, `OwnTornDown`, `ImplementsToolAccess` | users who take turns are shown their own files only, the recorded sessions are those of the users who hold the tools, a teardown by the monitor unmounts the user's own directory whatever a repeated request recorded, project folders have their ACL entries, the public directory is writable only inside the mount request, a retry binds nothing twice; all of it together is a tool that changes hands only when bare, across crashes and restarts |
| `races` | 1 user, 1 tool, 2 threads, requests in any order, lost check-outs while the daemon is down, clients that keep files open, a failing database | `StackBounded`, `StartupErasesNothing` | racing requests do stack mounts (stacks of two are reached), never more than there are threads, and startup clears the stacks before it deletes anything |
| `failures` | 1 user, 1 tool, 1 thread, no group folders; mount, umount and every read of the mount table may fail (`MaxStack` 2), clients that write, fairness | `Thorough`, `OverdueSessionsEnd` | an unmount that answers "unmounted" left the tool bare unless it could not read the mount table itself, although the monitor unmounts the same targets meanwhile and failed reads of earlier requests left mounts behind or stacked them; the monitor ends every session that stays idle, whatever fails while it unmounts |
| `sync` | 1 account, excluded by name as in `config.yaml`, and its project, 1 user; 2 overlapping runs and requests that initialise users, all failures but of reads | `TypeOK`, `ExcludedStayOut`, `ImplementsTables` | once the rules can judge an excluded project that has no group and no members, none of the overlapping runs gives it any, in the tables or in Linux, whatever older lists it holds and whatever failed; whatever fails, the tables change only as the mount handlers may rely on |
| `sync_converges` | 1 project, 2 users, 3 names, the loop and a request at once, fairness | `Converges`, `RunsReconcile` | runs that hold old lists may set users, names, memberships and locks back, but once NEMO rests everything agrees with it in the end and for good, even when a user takes over the name of another that has still to give it up; when NEMO is at rest and no older run is under way, everything agrees as soon as the first of the next runs has ended, and a run that overlaps it undoes nothing |
| `session_file` | 2 sessions of two users, one of whom has left NEMO; calls one at a time, full disks, crashes; a new database and one that remembers the user; lists of users cut short, statements that the database refuses | `TypeOK`, `NoLostSession`, `ImplementsSessionMap`, `MigratedUnlessTaken` | one call at a time makes the file a map that an accident may empty; the script, interrupted and repeated at will, leaves behind only sessions of users whose name another row has and those for which the database refused a statement of the script |

The bounds are enough for what can go wrong here.  Isolation needs the files of
one user to meet the next one, hence two users and one tool; one thread is all
that requests in turn use, and the theorems of section 5 drop the bound.  A
second project lets a membership move while the first folder is mounted.  Races
for a target need two threads.  One tool detaching another's mounts needs two tools
(`prefix_tools`); that this does not happen among tools whose names do not contain
each other is proved.
Failures are chosen at each call, so every combination of failing steps occurs;
`failures` mounts two targets, of which one may be left while the other goes, and the
theorem about `Thorough` covers any number and group folders.  For the exclusion rules
it matters whether the excluded account and its project are known to NEMO, to each
run's lists and to the tables, which one of each and two runs show; that an excluded
project next to others changes nothing is part of the theorem.  Two runs
are enough for one to undo the other, two users and a third name for a name to be
handed on.  `sync_converges` has no failures, to keep two runs in reach of TLC; with
one run, and `CanFail` and `ReadsFail` true, TLC confirms `Converges` as well, and
theorem `RunsAgree` proves `RunsReconcile` for all failures, those of commands included.
In `session_file` calls do not overlap, so a second thread would add nothing; two
sessions let one call destroy what another saved, and two users, one known to NEMO
and one not, with and without a row, are the cases the script tells apart.

Fairness (`FairSpec`) is weak: a request thread, the monitor and the startup
sequence that can go on do go on.  The operating system schedules the threads
of a running process, and the service manager restarts a daemon that died.
Nothing is assumed of users, NEMO, Samba clients or reconciliation.  In `NemoSync`,
a run that has begun goes on, by the same argument, and the loop begins again, as
`_run_loop` does after each interval; requests need never reconcile.  `Converges`
assumes in its premise that NEMO comes to rest.  It speaks of users whose names form
chains: two users who exchange their names in NEMO would never arrive, because each
upsert meets the other's row (`state_db.py:98`) and the error is only logged.

## 4. Where the code does not do what is said

Each of these runs checks one property that a comment, a test or the
documentation states, and TLC finds a behaviour of the code that violates it.

| Run | Property | What happens |
|---|---|---|
| `prefix_tools` | `DetachesOwnTool` | `handle_unmount` takes every mount point that *contains* the tool's path: the unmount of `microscope1` detaches the session of `microscope10` (`daemon.py:470`) |
| `retry_then_idle` | `TeardownComplete` | a repeated mount request records only the folders it bound itself; the monitor later unmounts the recorded ones, deletes the row and leaves the project folders mounted |
| `stale_snapshot` | `FreshSessionSpared` | the monitor judges the `mount_time` of its snapshot and tears down whatever session has the same identifier by then, even one that has just begun |
| `open_handles` | `OpenSessionSpared` | `samba_controller.py` does not import `os`: `os.path.join` (lines 67 and 101) raises `NameError` for every line that should count, the excepts (72, 108) swallow it, and a user whose file is open through Samba loses the session when nothing was written for a timeout, although the monitor's docstring asks for "no open Samba handles" (`idle_monitor.py:14`) |
| `sync_exclusion` | `NoExcludedGroup` | an account is recognised by its name only if it has a row: if the accounts could not be fetched and the projects could, the run creates the Linux group and the directory of an excluded project, and no later run removes them (`nemo_sync.py:46`); the project passes the filter of the memberships as well, so its users enter the Linux group (`user_provisioner.py:129`) although no table makes them members |
| `session_overlap` | `NoLostSession` | a save gives the lock back before its text reaches the file (`session_state.py:106`): another call reads the truncated file, takes it for no sessions, and one of the two sessions is lost, although README.md:115 calls the store thread-safe |

The models show more that no document speaks of, or that needs no run to be seen.
Mount grants the tool's machine account an entry on `u<id>/files` (`daemon.py:330`),
unmount and the monitor revoke one on `u<id>` (`daemon.py:502`, `daemon.py:617`), which
nobody granted; the granted one stays for ever, while daemon.py:499 speaks of revoking
the "permissions for user and public directories".  Unmount revokes the project
entries of *today's* memberships, so what was granted for a membership that ended
meanwhile stays (`daemon.py:506`).  A mount request that completes between the
monitor's umounts and its `remove_session` keeps its mounts and loses its row, so
its idleness is never noticed (`daemon.py:620`).  README.md:95 and
idle_monitor.py:13 say that the monitor goes by access times, and README.md:93 that
heartbeats prevent idle timeouts; the code goes by modification times (on purpose,
idle_monitor.py:105), and nothing calls `update_heartbeat`, so a user who only reads
is idle.  Users that vanish from NEMO keep their rows,
memberships and unlocked accounts (`nemo_sync.py:130`).  Two runs with different lists
may leave a mixture of memberships until the next run; if the projects of one of
them were cut short, the mixture may even contain an excluded project for a while (the one run has
filtered the project while it had no row, the other writes the row before the first
writes the membership), and so may the tables after `scripts/sync_nemo.py` or after a
read that failed.  `ExcludedStayOut` therefore speaks of projects the rules can
judge: those excluded by their own id, and those with a row.

An accident that meets a call between `truncate` and the close of the file takes
all sessions with it, not only the session of the call (`session_state.py:103`).  The migration
script makes up an identifier for a user it does not find; if the user has a row
under another one, because it has left NEMO or because NEMO did not answer, the unique
name refuses the upsert, the foreign key refuses the session, and the script counts
it as migrated (`migrate_json_to_sqlite.py:86`, `:110`, `:112`).  So it does with a
session for which the database refused a statement because it was locked or the disk
full (`state_db.py:198`, `:367`).  It marks every user it
takes over as active (`:90`, `:101`), and reads the times of a session without using
them (`:73`).

Three more assumptions are needed and are easy to see in the model.  With
`UmountCanFail`, `Isolated` and `StartupErasesNothing` do not hold: a failed
umount is forgotten with the session row (`daemon.py:519`), at startup it is
ignored (`daemon.py:839`), the next check-in takes the target for its own
(`daemon.py:341`) and `rmtree` descends into it (`daemon.py:845`).  With
`MountCanFail`, `PublicReadOnly` does not hold: if the read-only remount fails
the writable bind stays (`daemon.py:173`).  With `ReadCanFail`, all that rests on
umount breaks in the same way, because a failed read is swallowed: an unmount that
could not read `/proc/mounts` (`daemon.py:473`), or mountinfo (`daemon.py:198`, then
220), unmounts nothing and answers "unmounted", a startup that could not
(`daemon.py:840`) goes on to `rmtree` with everything mounted, and a mount request
binds a target again.  `Thorough` is what remains: it exempts the request whose own
read failed and no other.

## 5. What is proved

The theorems hold for any finite set of threads and any users, tools, projects,
accounts, relations and database contents that satisfy the assumptions of the
modules, with all switches arbitrary unless named.  In `LabDaemon`, "reads succeed"
is `~ReadCanFail`: the mount table can be read.

| Theorem | Assumes | Says |
|---|---|---|
| `TypeCorrect` | - | `[]TypeOK` |
| `UnmountIsThorough` | `Orderly` | `[]Thorough`, however mounts, umounts, the database and the reads of other requests fail; a request whose own read of the mount table fails is exempt |
| `TargetsBoundOnce` | `Orderly`, reads succeed | `[]NoStacking` |
| `SessionsAreIsolated` | `Benign`: `Orderly`, no lost request while up, umount works, reads succeed | `[]Isolated`, although mounts and the database may fail and the daemon may crash |
| `FoldersAreGranted` | `Orderly`, umount works, reads succeed | `[]Granted` |
| `StartupIsSafe` | umount works, reads succeed | `[]StartupErasesNothing`, without turns |
| `StacksAreBounded` | reads succeed | `[]StackBounded`, without turns and whatever else fails |
| `MountsGoByTheirOwnTool` | no tool's path contains another's | `DetachesOwnTool`, without turns and whatever fails |
| `PublicIsReadOnly` | `Orderly`, mount and umount work, reads succeed | `[]PublicReadOnly` |
| `SessionsFollowHolders` | `Recorded`: `Orderly`, no lost request while up, the database works | `[]SessionsOfHolder`, although mounts, umounts and reads may fail and the daemon may crash |
| `MonitorUnmountsOwn` | `Recorded`, umount works, reads succeed | `[]OwnTornDown` |
| `MonitorUnmountsAll` | `Recorded`, umount works, reads succeed, no group folders are mounted | `[]TeardownComplete`: what its violation (section 4) leaves behind are group folders and nothing else |
| `DaemonImplementsToolAccess` | `Benign` | `LabDaemon` implements `ToolAccess` |
| `NemoSyncProofs!TypeCorrect` | - | `[]TypeOK` of `NemoSync` |
| `ExclusionLasts` | every run has the rules, reads of the database succeed | `ExcludedStayOut`, for any rules, any number of overlapping runs and whatever fetches, writes, commands and runs fail |
| `ExcludedByIdNever` | every run has the rules | a project excluded by its own id never has a Linux group or a member, in the tables or in Linux, even if reads fail |
| `SyncImplementsTables` | - | `NemoSync` implements `NemoTables`, however many runs overlap and whatever fails |
| `RunsAgree` | every run goes by the exclusion rules, or they exclude nothing | `RunsReconcile`, for any number of runs and whatever failed before |
| `StoreTypeCorrect` | - | `[]TypeOK` of `Migration`: nobody reads or rewrites the file without the lock |
| `NothingIsLost` | calls do not overlap | `[]NoLostSession`, whatever accidents happen |
| `StoreImplementsMap` | calls do not overlap | `SessionFile` implements `SessionMap` |
| `MigrationLosesOnlyTaken` | - | `[]MigratedUnlessTaken`: only sessions of users whose name is taken, and those with a refused statement of their own, are lost, however often the script is interrupted and run again |

The invariants behind them:

* *Turns.*  `Thorough` and `NoStacking` are not inductive: what the thread of a
  tool found out earlier must still be so.  The strengthening says that one
  thread serves a tool at a time (`Exclusive`), that none is active while the
  daemon is not up (`Halted`), that a target about to be bound is bare and any
  other is bound at most once (`NoStacking`, if reads succeed), and that an unmount
  still lists whatever is mounted, each target as often as it is (`Informed`), unless
  it had a failure that left a mount or a read of its own that failed: with umounts
  that work, a failure only means that the monitor was faster (`Sound`).  The monitor
  only removes mounts, which keeps all four.
* *Apartness.*  Isolation spans requests of different users, so the
  invariant speaks of a tool at every moment: a mount request works for the user
  who holds the tool (`Serves`), a tool nobody holds or serves is bare and one
  that is held shows only what its user may see (`Separate`), and a restart passes
  through a bare mount table before anything is served again (`Swept`).  It
  rests on `Turns`: the request that frees a tool leaves it bare.
* *Storage.*  `Granted` needs that a folder about to be bound has its entries
  (`Prepared`) and that a thread that revokes has a bare tool (from `Thorough`,
  as umount works); `StartupErasesNothing` needs that nothing is mounted once
  startup has unmounted (`Cleaned`).
* *Access.*  The refinement uses `Apartness`: the steps that show a directory are
  the binds, and `Serves` says that the directory belongs to the user who holds the
  tool; a user checks in when nobody holds or serves the tool, and then it is bare.
  A crash closes the daemon and leaves what is shown; `Swept` lets it open again.
* *Races.*  A thread that is about to bind counts towards the height of the
  stack it is going to extend.  A probe admits a thread only when the
  target is bare, when at most all the threads can be about to bind it: that is
  a counting argument over the finite set of threads, and the only
  proof here that uses cardinalities.
* *Aim.*  An unmount works on the mounts it has listed; when no path contains
  another's, what it lists belongs to its own tool at every later step.
* *Attended.*  A row belongs to the user who holds the tool, because the request
  that saves it serves that user (`Attends`) and the request that ends the turn has
  found the row it is to remove, if there is one: only one thread serves a tool, the
  monitor can but remove the row, and a database that refused the removal would break
  it.  Rows always list the user's directory and the public one (`PointsRecorded`).
* *Torn.*  What the monitor has unmounted stays unmounted, unless the session was
  ended or renewed meanwhile: the mount point is bare, or the row is gone, or a
  request is about to save it again, with a fresh heartbeat, or to end it (`Late`).  Between a bind
  and `save_session` neither is visible in the row, which is why the invariant has to
  follow the request.
* *Good.*  `RunsReconcile` is about three moments, so the proof needs an invariant
  of the time after the first: NEMO rests, nothing fails, and whatever a run has
  already dealt with agrees with NEMO (`InOrder`): each phase in the rows and
  commands of the iterations that are behind it, the innermost iteration in what it is
  going to write (`Mends`).  It is inductive because no step of a run disturbs what
  agrees, its own work or another's (`Keeps`): no run under way holds older lists
  (`Rested`), so each writes only what NEMO says.  A run that ends has dealt with everything, which is
  agreement; and agreement is kept by the same argument.  `NamesFree` in `Rested`
  leaves out the names that have still to be handed on, which can take several runs
  and are left to `Converges`.
* *Told.*  What a run has fetched NEMO has said at some time, so whatever it has
  still to insert is among what NEMO may report (`Reportable`).  It is an invariant
  of each run alone, and that is why overlapping does no harm to the refinement.
* *Kept out.*  A membership is filtered by what the tables say, and written later,
  to the tables and to Linux.  The rules recognise an excluded account by its row, so
  the invariant says that a project with a row has an account with a row
  (`Referenced`, the foreign key), and every step keeps the rows there are
  (`RowsStay`): an excluded project that can be judged is judged alike by every run
  at every later time (`JudgedByRules`).  `KeptOut` then carries itself through a
  step (`KeptOutStep`), because it says of all overlapping runs at once that none has
  the project among what it is going to write: without that part, a run that filtered
  before the project had a row could still write its membership.
* *One call.*  With one call at a time (`Single`), what a thread has read is in the
  file until it cuts it off, and then the file is empty until it writes (`Intact`);
  what was kept is in the map that stands for the file meanwhile (`Safe`).
* *Settled.*  A row that has a name keeps it, since an upsert names only rows
  without a name (`UpsertAdds`, from `Named`: NEMO and the script use an identifier
  for one name); so a session that has been dealt with stays so, and what the script
  found out when it upserted a user is still true when it saves the session.  A
  refused statement leaves the tables as they were and marks its own session, so it
  disturbs none of the others.

Only model-checked: `OverdueSessionsEnd` and `Converges`, because liveness under
fairness is out of the prover's reach, and the violations.  Of `Converges` the part
that is safety is `RunsReconcile`, which is proved; that a run ends, and that names
are handed on at last, is left to TLC.  Every other property of a passing run is a
theorem.

## 6. What is not modelled

* Request validation and signatures: they reject a request or let it pass, and keep
  no state.
* The parsing of `/proc/mounts`, `smbstatus`, `quota` and of NEMO's answers, the two
  transports of the API client: input and output.
* The `lsof` loop of `graceful_unmount`: it delays the umount and chooses between two
  kinds of it; what the model keeps is that other threads act in between.
* Machine accounts, modes and default ACLs, and the failure of `setfacl`: nothing reads
  them back.
* Times of files that cannot be read by the monitor, and exceptions from opening the
  database (`_get_connection`), which end a request (in `Migration` they end the
  script, which `Interrupt` covers).
* `dry_run`, the symlinks whose call is commented out, certificates and set-up
  scripts.

What could follow: users who change their names in `Migration` (then an identifier
may carry another name, and a session may come to stand under it), projects that move between
accounts in `NemoSync`, and texts longer than the buffer in `SessionFile`.
