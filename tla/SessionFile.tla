------------------------------ MODULE SessionFile ------------------------------
(***************************************************************************)
(* The JSON file that held the sessions before the database did            *)
(* (session_state.py).  A call opens the file, takes the lock, reads,      *)
(* truncates, writes into the buffer of its file object and gives the lock *)
(* back; what it wrote reaches the file when the object is closed.         *)
(***************************************************************************)
EXTENDS Naturals

CONSTANTS
  Sids,
  Threads,
  NoThread,
  Overlap,     \* calls of several threads may overlap
  Accidents    \* crashes, and disks that are full

ASSUME FileAssumption ==
  /\ Sids # {}
  /\ NoThread \notin Threads
  /\ Overlap \in BOOLEAN /\ Accidents \in BOOLEAN

Map == [Sids -> {"none", "saved", "alive"}]

NoSessions == [s \in Sids |-> "none"]

\* The text of a map, no text, or text that cannot be parsed.
Content == [kind: {"map", "empty", "garbage"}, map: Map]

Text(map) == [kind |-> "map", map |-> map]
Without(kind) == [kind |-> kind, map |-> NoSessions]

Calls == {"get", "save", "remove", "heartbeat"}

Call == [pc: {"idle", "open", "locked", "loaded", "written", "close"},
         call: Calls, sid: Sids, data: Map, new: Map]

VARIABLES
  file,      \* its contents
  lock,      \* the thread that holds the lock
  op,        \* what each thread does
  kept       \* sessions whose saving was answered and that nobody removed

fileVars == <<file, lock, op, kept>>

Resting == [pc |-> "idle", call |-> "get", sid |-> CHOOSE s \in Sids : TRUE,
            data |-> NoSessions, new |-> NoSessions]

FileInit ==
  /\ file = Text(NoSessions)
  /\ lock = NoThread
  /\ op = [t \in Threads |-> Resting]
  /\ kept = {}

\* What cannot be parsed counts as no sessions.
Parsed(content) == content.map

\* The text a call leaves at the beginning of the file covers that of a call
\* that was closed meanwhile, and the end of the longer one stays.
Overlaid(content, map) ==
  IF content.kind = "empty" \/ content = Text(map)
    THEN {Text(map)} ELSE {Text(map), Without("garbage")}

Begin(t, call, s) ==
  /\ op[t].pc = "idle"
  /\ Overlap \/ \A u \in Threads : op[u].pc = "idle"
  /\ op' = [op EXCEPT ![t] = [Resting EXCEPT !.pc = "open", !.call = call, !.sid = s]]
  /\ kept' = IF call = "remove" THEN kept \ {s} ELSE kept
  /\ UNCHANGED <<file, lock>>

Lock(t) ==
  /\ op[t].pc = "open"
  /\ lock = NoThread
  /\ lock' = t
  /\ op' = [op EXCEPT ![t].pc = "locked"]
  /\ UNCHANGED <<file, kept>>

\* Faulty variant: a heartbeat brings a removed session back.
IdlesButBeats(c, map) ==
  \/ c.call = "get"
  \/ c.call = "remove" /\ map[c.sid] = "none"

\* A call c with nothing to change goes on to give the lock back.
Idles(c, map) ==
  \/ c.call = "get"
  \/ c.call \in {"remove", "heartbeat"} /\ map[c.sid] = "none"

Changed(c, map) ==
  [map EXCEPT ![c.sid] = CASE c.call = "save" -> "saved"
                               [] c.call = "remove" -> "none"
                               [] OTHER -> "alive"]

\* Faulty variant: the lock is given back when the file has been read.
LoadUnlocks(t) ==
  /\ op[t].pc = "locked"
  /\ op' = [op EXCEPT ![t].pc = IF Idles(op[t], Parsed(file)) THEN "close" ELSE "loaded",
                      ![t].data = Parsed(file), ![t].new = Changed(op[t], Parsed(file))]
  /\ lock' = NoThread
  /\ UNCHANGED <<file, kept>>

Load(t) ==
  LET map == Parsed(file)
  IN /\ op[t].pc = "locked"
     /\ op' = [op EXCEPT ![t].pc = IF Idles(op[t], map) THEN "close" ELSE "loaded",
                         ![t].data = map, ![t].new = Changed(op[t], map)]
     /\ lock' = IF Idles(op[t], map) THEN NoThread ELSE lock
     /\ UNCHANGED <<file, kept>>

\* Faulty variant: the text that is there stays below the new one.
TruncateNot(t) ==
  /\ op[t].pc = "loaded"
  /\ op' = [op EXCEPT ![t].pc = "written"]
  /\ UNCHANGED <<file, lock, kept>>

Truncate(t) ==
  /\ op[t].pc = "loaded"
  /\ file' = Without("empty")
  /\ op' = [op EXCEPT ![t].pc = "written"]
  /\ UNCHANGED <<lock, kept>>

Unlock(t) ==
  /\ op[t].pc = "written"
  /\ lock' = NoThread
  /\ op' = [op EXCEPT ![t].pc = "close"]
  /\ UNCHANGED <<file, kept>>

Removing(s) == \E t \in Threads :
  op[t].pc # "idle" /\ op[t].call = "remove" /\ op[t].sid = s

\* A call that reads, or finds nothing to change, has nothing to write.
Close(t) ==
  /\ op[t].pc = "close"
  /\ op' = [op EXCEPT ![t] = Resting]
  /\ IF Idles(op[t], op[t].data)
       THEN UNCHANGED <<file, kept>>
       ELSE /\ file' \in Overlaid(file, op[t].new)
            /\ kept' = IF op[t].call = "save" /\ ~Removing(op[t].sid)
                         THEN kept \cup {op[t].sid} ELSE kept
  /\ UNCHANGED lock

Unwritten(t) == op[t].pc \in {"written", "close"} /\ ~Idles(op[t], op[t].data)

\* The disk is full: the call logs an error.
CloseFails(t) ==
  /\ Accidents
  /\ op[t].pc = "close" /\ ~Idles(op[t], op[t].data)
  /\ op' = [op EXCEPT ![t] = Resting]
  /\ kept' = {}
  /\ UNCHANGED <<file, lock>>

\* The process ends; the kernel drops its locks, its buffers are lost.
Kill ==
  /\ Accidents
  /\ op' = [t \in Threads |-> Resting]
  /\ lock' = NoThread
  /\ kept' = IF \E t \in Threads : Unwritten(t) THEN {} ELSE kept
  /\ UNCHANGED file

FileNext ==
  \/ \E t \in Threads :
       \/ \E call \in Calls, s \in Sids : Begin(t, call, s)
       \/ Lock(t) \/ Load(t) \/ Truncate(t) \/ Unlock(t) \/ Close(t) \/ CloseFails(t)
  \/ Kill

FileSpec == FileInit /\ [][FileNext]_fileVars

-----------------------------------------------------------------------------
(* Properties.                                                             *)

\* The variables stay in their domains, and a thread that reads or rewrites
\* the file holds the lock.
FileTypeOK ==
  /\ file \in Content
  /\ file.kind # "map" => file.map = NoSessions
  /\ lock \in Threads \cup {NoThread}
  /\ op \in [Threads -> Call]
  /\ kept \subseteq Sids
  /\ \A t \in Threads : op[t].pc \in {"locked", "loaded", "written"} => lock = t

\* When no call is under way, the file has every session whose saving was
\* answered and that nobody removed since (README.md:115: "Thread-safe state
\* manager using file locks").  An accident while the file is cut off takes
\* all sessions with it, any other takes none.
NoLostSession ==
  (\A t \in Threads : op[t].pc = "idle") =>
    \A s \in kept : Parsed(file)[s] # "none"

\* While a call has cut the file off, its sessions are those the call read.
Stored ==
  IF \E t \in Threads : Unwritten(t)
    THEN op[CHOOSE t \in Threads : Unwritten(t)].data ELSE Parsed(file)

Store == INSTANCE SessionMap WITH sessions <- Stored

\* One call at a time changes the file as a call changes a map, or loses all
\* of it.
ImplementsSessionMap == Store!Spec
=============================================================================
