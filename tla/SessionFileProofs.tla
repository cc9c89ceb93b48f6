--------------------------- MODULE SessionFileProofs ---------------------------
(* The session file as long as calls do not overlap, and what the          *)
(* migration script takes from it.                                         *)
EXTENDS Migration, TLAPS

-----------------------------------------------------------------------------
(* Types.                                                                  *)

LEMMA RestingType == Resting \in Call /\ Resting.pc = "idle" /\ NoSessions \in Map
BY FileAssumption DEF Resting, Call, Calls, NoSessions, Map

LEMMA ChangedType ==
  ASSUME NEW c, NEW map \in Map PROVE Changed(c, map) \in Map
BY DEF Changed, Map

LEMMA ContentType ==
  /\ \A map \in Map : /\ Text(map) \in Content /\ Text(map).kind = "map"
                      /\ Text(map).map = map
  /\ \A kind \in {"empty", "garbage"} : /\ Without(kind) \in Content
                                        /\ Without(kind).kind = kind
                                        /\ Without(kind).map = NoSessions
BY RestingType DEF Content, Text, Without

\* A thread takes, keeps or gives back the lock and goes on.
LEMMA CallStep ==
  ASSUME FileTypeOK, NEW t \in Threads, NEW x \in Call, op' = [op EXCEPT ![t] = x],
         file' \in Content, file'.kind # "map" => file'.map = NoSessions,
         kept' \subseteq Sids,
         \/ lock' = lock
         \/ lock = NoThread /\ lock' = t
         \/ lock = t /\ lock' = NoThread,
         x.pc \in {"locked", "loaded", "written"} => lock' = t
  PROVE  FileTypeOK'
<1>1. op' \in [Threads -> Call]
  BY DEF FileTypeOK
<1>2. \A u \in Threads : op'[u].pc \in {"locked", "loaded", "written"} => lock' = u
  BY FileAssumption DEF FileTypeOK
<1> QED
  BY <1>1, <1>2 DEF FileTypeOK

LEMMA FileInitType == FileInit => FileTypeOK
<1> SUFFICES ASSUME FileInit PROVE FileTypeOK
  OBVIOUS
<1>1. \A t \in Threads : op[t] \in Call /\ op[t].pc = "idle"
  BY RestingType DEF FileInit
<1>2. file \in Content /\ file.kind = "map"
  BY RestingType, ContentType DEF FileInit
<1> QED
  BY <1>1, <1>2 DEF FileInit, FileTypeOK

LEMMA FileNextType == FileTypeOK /\ [FileNext]_fileVars => FileTypeOK'
<1> SUFFICES ASSUME FileTypeOK, [FileNext]_fileVars PROVE FileTypeOK'
  OBVIOUS
<1>a. \A t \in Threads : op[t] \in Call /\ op[t].sid \in Sids
  BY DEF FileTypeOK, Call
<1>b. file \in Content /\ Parsed(file) \in Map
  BY DEF FileTypeOK, Parsed, Content
<1>1. ASSUME NEW t \in Threads, NEW call \in Calls, NEW s \in Sids, Begin(t, call, s)
      PROVE  FileTypeOK'
  <2> DEFINE x == [Resting EXCEPT !.pc = "open", !.call = call, !.sid = s]
  <2>1. x \in Call /\ x.pc = "open"
    BY RestingType DEF Call
  <2>2. op' = [op EXCEPT ![t] = x] /\ kept' \subseteq Sids /\ file' = file /\ lock' = lock
    BY <1>1 DEF Begin, FileTypeOK
  <2> HIDE DEF x
  <2> QED
    BY <2>1, <2>2, CallStep DEF FileTypeOK
<1>2. ASSUME NEW t \in Threads, Lock(t) PROVE FileTypeOK'
  <2> DEFINE x == [op[t] EXCEPT !.pc = "locked"]
  <2>1. x \in Call
    BY <1>a DEF Call
  <2>2. op' = [op EXCEPT ![t] = x] /\ lock = NoThread /\ lock' = t
    BY <1>2 DEF Lock, FileTypeOK
  <2> HIDE DEF x
  <2> QED
    BY <1>2, <2>1, <2>2, CallStep DEF FileTypeOK, Lock
<1>3. ASSUME NEW t \in Threads, Load(t) PROVE FileTypeOK'
  <2> DEFINE map == Parsed(file)
             pc == IF Idles(op[t], map) THEN "close" ELSE "loaded"
             new == Changed(op[t], map)
             x == [op[t] EXCEPT !.pc = pc, !.data = map, !.new = new]
  <2>1. new \in Map
    BY <1>b, ChangedType
  <2>2. /\ op' = [op EXCEPT ![t] = x]
        /\ lock' = IF pc = "close" THEN NoThread ELSE lock
        /\ op[t].pc = "locked" /\ UNCHANGED <<file, kept>>
    BY <1>3 DEF Load, FileTypeOK
  <2>3. pc \in {"close", "loaded"}
    OBVIOUS
  <2> HIDE DEF new, pc, map
  <2>4. x \in Call /\ x.pc = pc
    BY <1>a, <1>b, <2>1, <2>3 DEF Call, map
  <2> HIDE DEF x
  <2>5. lock = t
    BY <2>2 DEF FileTypeOK
  <2> QED
    BY <2>2, <2>3, <2>4, <2>5, CallStep DEF FileTypeOK
<1>4. ASSUME NEW t \in Threads, Truncate(t) PROVE FileTypeOK'
  <2> DEFINE x == [op[t] EXCEPT !.pc = "written"]
  <2>1. x \in Call
    BY <1>a DEF Call
  <2>2. op' = [op EXCEPT ![t] = x] /\ lock = t /\ lock' = lock
    BY <1>4 DEF Truncate, FileTypeOK
  <2>3. file' \in Content /\ file'.map = NoSessions
    BY <1>4, ContentType DEF Truncate
  <2> HIDE DEF x
  <2> QED
    BY <1>4, <2>1, <2>2, <2>3, CallStep DEF FileTypeOK, Truncate
<1>5. ASSUME NEW t \in Threads, Unlock(t) PROVE FileTypeOK'
  <2> DEFINE x == [op[t] EXCEPT !.pc = "close"]
  <2>1. x \in Call /\ x.pc = "close"
    BY <1>a DEF Call
  <2>2. op' = [op EXCEPT ![t] = x] /\ lock = t /\ lock' = NoThread
    BY <1>5 DEF Unlock, FileTypeOK
  <2> HIDE DEF x
  <2> QED
    BY <1>5, <2>1, <2>2, CallStep DEF FileTypeOK, Unlock
<1>6. ASSUME NEW t \in Threads, Close(t) \/ CloseFails(t) PROVE FileTypeOK'
  <2>1. op' = [op EXCEPT ![t] = Resting] /\ lock' = lock
    BY <1>6 DEF Close, CloseFails
  <2>2. kept' \subseteq Sids
    BY <1>6, <1>a DEF Close, CloseFails, FileTypeOK
  <2>3. file' \in Content /\ (file'.kind # "map" => file'.map = NoSessions)
    <3>1. op[t].new \in Map
      BY <1>a DEF Call
    <3>2. file' = file \/ file' \in Overlaid(file, op[t].new)
      BY <1>6 DEF Close, CloseFails
    <3>3. file' \in {file, Text(op[t].new), Without("garbage")}
      BY <3>2 DEF Overlaid
    <3> QED
      BY <3>1, <3>3, ContentType DEF FileTypeOK
  <2> QED
    BY <2>1, <2>2, <2>3, RestingType, CallStep
<1>7. CASE Kill
  <2>1. op' \in [Threads -> Call] /\ \A t \in Threads : op'[t].pc = "idle"
    BY <1>7, RestingType DEF Kill
  <2> QED
    BY <1>7, <2>1 DEF Kill, FileTypeOK
<1>8. CASE UNCHANGED fileVars
  BY <1>8 DEF fileVars, FileTypeOK
<1> QED
  BY <1>1, <1>2, <1>3, <1>4, <1>5, <1>6, <1>7, <1>8 DEF FileNext

-----------------------------------------------------------------------------
(* One call at a time.                                                      *)

Turns == ~Overlap

\* At most one thread is in a call.
Single == \A t, u \in Threads : op[t].pc # "idle" /\ op[u].pc # "idle" => t = u

\* What a thread has loaded is in the file until it truncates it, and nothing
\* is once it has.
Intact(t) ==
  /\ op[t].pc \in {"loaded", "written"} => ~Idles(op[t], op[t].data)
  /\ op[t].pc \in {"loaded", "written", "close"} => op[t].new = Changed(op[t], op[t].data)
  /\ op[t].pc = "loaded" => Parsed(file) = op[t].data
  /\ Unwritten(t) => file = Without("empty")

\* What was kept is in the file, or in what a thread has loaded and is going to
\* write, and nobody is removing it.
Safe == \A s \in kept : Stored[s] # "none" /\ ~Removing(s)

FileInv ==
  /\ FileTypeOK
  /\ Single
  /\ \A t \in Threads : Intact(t)
  /\ Safe

LEMMA InitFileInv == FileInit => FileInv
<1> SUFFICES ASSUME FileInit PROVE FileInv
  OBVIOUS
<1>1. \A t \in Threads : op[t].pc = "idle"
  BY RestingType DEF FileInit
<1>2. Single /\ \A t \in Threads : Intact(t)
  BY <1>1 DEF Single, Intact, Unwritten
<1>3. Safe
  BY DEF Safe, FileInit
<1> QED
  BY <1>2, <1>3, FileInitType DEF FileInv

\* While a thread is in a call, no other is.
LEMMA Alone ==
  ASSUME Single, NEW t \in Threads, op[t].pc # "idle"
  PROVE  \A u \in Threads \ {t} : op[u].pc = "idle" /\ ~Unwritten(u)
BY DEF Single, Unwritten

LEMMA StoredByThread ==
  ASSUME Single, NEW t \in Threads, Unwritten(t) PROVE Stored = op[t].data
<1>1. \A u \in Threads : Unwritten(u) => u = t
  BY DEF Single, Unwritten
<1>2. (CHOOSE u \in Threads : Unwritten(u)) = t
  BY <1>1
<1> QED
  BY <1>2 DEF Stored

LEMMA StoredInFile ==
  ASSUME \A t \in Threads : ~Unwritten(t) PROVE Stored = Parsed(file)
BY DEF Stored

LEMMA StoredByThreadNext ==
  ASSUME Single', NEW t \in Threads, Unwritten(t)' PROVE Stored' = op'[t].data
<1>1. \A u \in Threads : Unwritten(u)' => u = t
  BY DEF Single, Unwritten
<1>2. (CHOOSE u \in Threads : Unwritten(u)') = t
  BY <1>1
<1> QED
  BY <1>2 DEF Stored

LEMMA StoredInFileNext ==
  ASSUME \A t \in Threads : ~Unwritten(t)' PROVE Stored' = Parsed(file)'
BY DEF Stored

\* What a step is that thread t takes: nobody else is in a call, before or
\* after it.
LEMMA Moves ==
  ASSUME FileInv, NEW t \in Threads, NEW x \in Call, op' = [op EXCEPT ![t] = x],
         \A u \in Threads \ {t} : op[u].pc = "idle",
         \/ x.pc \in {"idle", "open", "locked"}
         \/ /\ x.pc = "close" /\ Idles(x, x.data)
            /\ x.new = Changed(x, x.data)
         \/ /\ x.pc \in {"loaded", "written", "close"}
            /\ ~Idles(x, x.data) /\ x.new = Changed(x, x.data)
            /\ x.pc = "loaded" => Parsed(file)' = x.data
            /\ x.pc # "loaded" => file' = Without("empty")
  PROVE  /\ Single' /\ \A u \in Threads : Intact(u)'
         /\ op'[t] = x /\ \A u \in Threads \ {t} : op'[u] = op[u] /\ ~Unwritten(u)'
<1>1. op'[t] = x /\ \A u \in Threads \ {t} : op'[u] = op[u]
  BY DEF FileInv, FileTypeOK
<1>2. Single'
  BY <1>1 DEF Single
<1>3. \A u \in Threads \ {t} : Intact(u)' /\ ~Unwritten(u)'
  BY <1>1 DEF Intact, Unwritten
<1>4. Intact(t)'
  BY <1>1 DEF Intact, Unwritten
<1> QED
  BY <1>1, <1>2, <1>3, <1>4

\* What a step of the file is for the map, and for what was kept.
Orderly == /\ Single' /\ \A u \in Threads : Intact(u)'
           /\ Safe'
           /\ Store!Next \/ Stored' = Stored

LEMMA CallFacts ==
  ASSUME FileInv, NEW t \in Threads
  PROVE  /\ op[t] \in Call /\ op[t].sid \in Sids /\ op[t].call \in Calls
         /\ op[t].data \in Map /\ op[t].new \in Map
         /\ op \in [Threads -> Call] /\ Intact(t) /\ Single
         /\ Parsed(file) \in Map
BY DEF FileInv, FileTypeOK, Call, Content, Parsed

LEMMA BeginOrderly ==
  ASSUME FileInv, Turns, NEW t \in Threads, NEW call \in Calls, NEW s \in Sids,
         Begin(t, call, s)
  PROVE  Orderly
<1> DEFINE x == [Resting EXCEPT !.pc = "open", !.call = call, !.sid = s]
<1>1. x \in Call /\ x.pc = "open" /\ x.call = call /\ x.sid = s
  BY RestingType DEF Call
<1>2. /\ op' = [op EXCEPT ![t] = x] /\ \A u \in Threads : op[u].pc = "idle"
      /\ file' = file /\ kept' = IF call = "remove" THEN kept \ {s} ELSE kept
  BY DEF Begin, Turns
<1> HIDE DEF x
<1>3. /\ Single' /\ \A u \in Threads : Intact(u)'
      /\ op'[t] = x /\ \A u \in Threads \ {t} : op'[u] = op[u] /\ ~Unwritten(u)'
  BY <1>1, <1>2, Moves
<1>4. Stored' = Stored
  <2>1. \A u \in Threads : ~Unwritten(u) /\ ~Unwritten(u)'
    BY <1>1, <1>2, <1>3 DEF Unwritten
  <2> QED
    BY <2>1, <1>2, StoredInFile, StoredInFileNext DEF Parsed
<1>5. Safe'
  BY <1>1, <1>2, <1>3, <1>4 DEF FileInv, Safe, Removing
<1> QED
  BY <1>3, <1>4, <1>5 DEF Orderly

\* A thread goes on, and reading the file gives what it gave.
LEMMA PassOrderly ==
  ASSUME FileInv, NEW t \in Threads, Lock(t) \/ Load(t) \/ Truncate(t) \/ Unlock(t)
  PROVE  Orderly
<1>a. /\ op[t] \in Call /\ Intact(t) /\ Single /\ Parsed(file) \in Map
      /\ op[t].sid \in Sids /\ op[t].data \in Map
  BY CallFacts
<1>b. op[t].pc # "idle" /\ kept' = kept
  BY DEF Lock, Load, Truncate, Unlock
<1>c. \A u \in Threads \ {t} : op[u].pc = "idle" /\ ~Unwritten(u)
  BY <1>a, <1>b, Alone
<1> DEFINE Goes(x) == /\ Single' /\ \A u \in Threads : Intact(u)'
                      /\ op'[t] = x /\ \A u \in Threads \ {t} : op'[u] = op[u] /\ ~Unwritten(u)'
<1>d. ASSUME NEW x, Goes(x), Stored' = Stored, x.call = op[t].call, x.sid = op[t].sid
      PROVE  Orderly
  <2>1. Safe'
    BY <1>d, <1>b DEF FileInv, Safe, Removing
  <2> QED
    BY <1>d, <2>1 DEF Orderly
<1>1. CASE Lock(t)
  <2> DEFINE x == [op[t] EXCEPT !.pc = "locked"]
  <2>1. /\ x \in Call /\ x.pc = "locked" /\ x.call = op[t].call /\ x.sid = op[t].sid
        /\ op' = [op EXCEPT ![t] = x] /\ file' = file /\ op[t].pc = "open"
    BY <1>1, <1>a DEF Lock, Call, FileInv, FileTypeOK
  <2> HIDE DEF x
  <2>2. Goes(x)
    BY <2>1, <1>c, Moves
  <2>3. \A u \in Threads : ~Unwritten(u) /\ ~Unwritten(u)'
    BY <2>1, <2>2, <1>c DEF Unwritten
  <2>4. Stored' = Stored
    BY <2>1, <2>3, StoredInFile, StoredInFileNext DEF Parsed
  <2> QED
    BY <2>1, <2>2, <2>4, <1>d
<1>2. CASE Load(t)
  <2> DEFINE map == Parsed(file)
             idle == Idles(op[t], map)
             new == Changed(op[t], map)
             x == [op[t] EXCEPT !.pc = IF idle THEN "close" ELSE "loaded",
                                !.data = map, !.new = new]
  <2>1. op' = [op EXCEPT ![t] = x] /\ file' = file /\ op[t].pc = "locked"
    BY <1>2 DEF Load, FileInv, FileTypeOK
  <2>2. new \in Map
    BY <1>a, ChangedType
  <2>3. /\ x \in Call /\ x.call = op[t].call /\ x.sid = op[t].sid
        /\ x.data = map /\ x.new = new /\ x.pc = IF idle THEN "close" ELSE "loaded"
    <3> HIDE DEF new, map, idle
    <3> QED
      BY <1>a, <2>2 DEF Call, map
  <2>4. op'[t] = x
    BY <2>1, CallFacts
  <2> HIDE DEF x
  <2>5. (Idles(x, x.data) <=> idle) /\ Changed(x, x.data) = new
    BY <2>3, <2>4 DEF Idles, Changed
  <2>6. Parsed(file)' = x.data
    BY <2>1, <2>3 DEF Parsed
  <2>7. Goes(x)
    <3>1. CASE idle
      BY <3>1, <2>1, <2>3, <2>5, <1>c, Moves
    <3>2. CASE ~idle
      BY <3>2, <2>1, <2>3, <2>5, <2>6, <1>c, Moves
    <3> QED
      BY <3>1, <3>2
  <2>8. \A u \in Threads : ~Unwritten(u) /\ ~Unwritten(u)'
    <3>1. ~Unwritten(t)
      BY <2>1 DEF Unwritten
    <3>2. ~Unwritten(t)'
      BY <2>3, <2>4, <2>5 DEF Unwritten
    <3> QED
      BY <3>1, <3>2, <2>7, <1>c
  <2>9. Stored' = Stored
    BY <2>1, <2>8, StoredInFile, StoredInFileNext DEF Parsed
  <2> QED
    BY <2>3, <2>7, <2>9, <1>d
<1>3. CASE Truncate(t) \/ Unlock(t)
  <2> DEFINE pc == IF op[t].pc = "loaded" THEN "written" ELSE "close"
             x == [op[t] EXCEPT !.pc = pc]
  <2>1. /\ op' = [op EXCEPT ![t] = x] /\ op[t].pc \in {"loaded", "written"}
        /\ op[t].pc = "loaded" => file' = Without("empty")
        /\ op[t].pc = "written" => file' = file
    BY <1>3 DEF Truncate, Unlock, FileInv, FileTypeOK
  <2>2. /\ x \in Call /\ x.call = op[t].call /\ x.sid = op[t].sid
        /\ x.data = op[t].data /\ x.new = op[t].new /\ x.pc = pc
        /\ pc \in {"written", "close"}
    <3>1. pc \in {"written", "close"}
      OBVIOUS
    <3> HIDE DEF pc
    <3> QED
      BY <3>1, <1>a DEF Call
  <2>3. op'[t] = x
    BY <2>1, CallFacts
  <2> HIDE DEF x, pc
  <2>4. /\ ~Idles(op[t], op[t].data) /\ op[t].new = Changed(op[t], op[t].data)
        /\ op[t].pc = "loaded" => Parsed(file) = op[t].data
        /\ op[t].pc = "written" => file = Without("empty")
    BY <2>1, <1>a DEF Intact, Unwritten
  <2>5. ~Idles(x, x.data) /\ x.new = Changed(x, x.data) /\ file' = Without("empty")
    BY <2>1, <2>2, <2>3, <2>4 DEF Idles, Changed
  <2>6. Goes(x)
    BY <2>1, <2>2, <2>5, <1>c, Moves
  <2>7. Stored' = x.data
    <3>1. Unwritten(t)'
      BY <2>2, <2>3, <2>5 DEF Unwritten
    <3> QED
      BY <3>1, <2>3, <2>6, StoredByThreadNext
  <2>8. Stored = x.data
    <3>1. CASE op[t].pc = "loaded"
      <4>1. \A u \in Threads : ~Unwritten(u)
        BY <3>1, <1>c DEF Unwritten
      <4> QED
        BY <3>1, <4>1, <2>2, <2>4, StoredInFile
    <3>2. CASE op[t].pc = "written"
      <4>1. Unwritten(t)
        BY <3>2, <2>4 DEF Unwritten
      <4> QED
        BY <4>1, <1>a, <2>2, StoredByThread
    <3> QED
      BY <3>1, <3>2, <2>1
  <2> QED
    BY <2>2, <2>6, <2>7, <2>8, <1>d
<1> QED
  BY <1>1, <1>2, <1>3

\* A call ends: what it has written is in the file, or lost.
LEMMA CloseOrderly ==
  ASSUME FileInv, NEW t \in Threads, Close(t) \/ CloseFails(t)
  PROVE  Orderly
<1> DEFINE c == op[t]
<1>a. /\ c \in Call /\ Intact(t) /\ Single /\ Safe /\ c.sid \in Sids /\ c.call \in Calls
      /\ c.data \in Map
  BY CallFacts DEF FileInv
<1>b. c.pc = "close" /\ op' = [op EXCEPT ![t] = Resting]
  BY DEF Close, CloseFails
<1>c. \A u \in Threads \ {t} : op[u].pc = "idle" /\ ~Unwritten(u)
  BY <1>a, <1>b, Alone
<1>d. /\ Single' /\ \A u \in Threads : Intact(u)'
      /\ op'[t] = Resting /\ \A u \in Threads \ {t} : op'[u] = op[u] /\ ~Unwritten(u)'
  BY <1>b, <1>c, RestingType, Moves
<1>e. \A s \in Sids : ~Removing(s)'
  BY <1>c, <1>d, RestingType DEF Removing
<1>f. Stored' = Parsed(file)'
  <2>1. ~Unwritten(t)'
    BY <1>d, RestingType DEF Unwritten
  <2> QED
    BY <2>1, <1>d, StoredInFileNext
<1>g. kept \subseteq Sids
  BY DEF FileInv, FileTypeOK
<1>1. CASE Idles(c, c.data)
  <2>1. file' = file /\ kept' = kept
    BY <1>1 DEF Close, CloseFails
  <2>2. Stored' = Stored
    <3>1. \A u \in Threads : ~Unwritten(u)
      BY <1>1, <1>c DEF Unwritten
    <3> QED
      BY <3>1, <2>1, <1>f, StoredInFile DEF Parsed
  <2>3. Safe'
    BY <2>1, <2>2, <1>a, <1>e, <1>g DEF Safe
  <2> QED
    BY <2>2, <2>3, <1>d DEF Orderly
<1>2. CASE ~Idles(c, c.data)
  <2>1. file = Without("empty") /\ c.new = Changed(c, c.data) /\ Stored = c.data
    <3>1. Unwritten(t)
      BY <1>2, <1>b DEF Unwritten
    <3> QED
      BY <3>1, <1>a, <1>b, StoredByThread DEF Intact
  <2>2. CASE CloseFails(t)
    <3>1. kept' = {} /\ file' = file
      BY <2>2 DEF CloseFails
    <3>2. Stored' = NoSessions
      BY <3>1, <2>1, <1>f, ContentType DEF Parsed
    <3>3. Store!Lose
      BY <3>2 DEF Store!Lose, NoSessions
    <3>4. Safe'
      BY <3>1 DEF Safe
    <3> QED
      BY <3>3, <3>4, <1>d DEF Orderly, Store!Next
  <2>3. CASE Close(t)
    <3>1. file' = Text(c.new)
      <4>1. file.kind = "empty"
        BY <2>1, ContentType
      <4> QED
        BY <4>1, <1>2, <2>3 DEF Close, Overlaid
    <3>2. Stored' = Changed(c, c.data)
      <4>1. c.new \in Map
        BY CallFacts
      <4> QED
        BY <4>1, <3>1, <2>1, <1>f, ContentType DEF Parsed
    <3>3. Store!Next
      <4>1. CASE c.call = "save"
        <5>1. Store!Save(c.sid)
          BY <4>1, <2>1, <3>2 DEF Store!Save, Changed
        <5> QED
          BY <5>1, <1>a DEF Store!Next
      <4>2. CASE c.call = "remove"
        <5>1. Store!Remove(c.sid)
          BY <4>2, <1>2, <2>1, <3>2 DEF Store!Remove, Changed, Idles
        <5> QED
          BY <5>1, <1>a DEF Store!Next
      <4>3. CASE c.call = "heartbeat"
        <5>1. Store!Heartbeat(c.sid)
          BY <4>3, <1>2, <2>1, <3>2 DEF Store!Heartbeat, Changed, Idles
        <5> QED
          BY <5>1, <1>a DEF Store!Next
      <4> QED
        BY <4>1, <4>2, <4>3, <1>a, <1>2 DEF Calls, Idles
    <3>4. kept' \subseteq kept \cup {c.sid} /\ (c.call # "save" => kept' = kept)
      BY <1>2, <2>3 DEF Close
    <3>5. \A s \in Sids : Stored'[s] = IF s # c.sid THEN c.data[s]
                                       ELSE IF c.call = "save" THEN "saved"
                                       ELSE IF c.call = "remove" THEN "none" ELSE "alive"
      BY <3>2, <1>a DEF Changed, Map
    <3>6. Safe'
      <4>1. c.call = "remove" => c.sid \notin kept
        <5>1. c.call = "remove" => Removing(c.sid)
          BY <1>b DEF Removing
        <5> QED
          BY <5>1, <1>a DEF Safe
      <4>2. \A s \in kept : c.data[s] # "none"
        BY <2>1, <1>a DEF Safe
      <4>3. \A s \in kept' : Stored'[s] # "none"
        BY <3>4, <3>5, <4>1, <4>2, <1>a, <1>g
      <4> QED
        BY <4>3, <3>4, <1>a, <1>e, <1>g DEF Safe
    <3> QED
      BY <3>3, <3>6, <1>d DEF Orderly
  <2> QED
    BY <2>2, <2>3
<1> QED
  BY <1>1, <1>2

LEMMA KillOrderly == FileInv /\ Kill => Orderly
<1> SUFFICES ASSUME FileInv, Kill PROVE Orderly
  OBVIOUS
<1>1. \A t \in Threads : op'[t].pc = "idle"
  BY RestingType DEF Kill
<1>2. /\ Single' /\ \A s \in Sids : ~Removing(s)'
      /\ \A t \in Threads : Intact(t)' /\ ~Unwritten(t)'
  BY <1>1 DEF Single, Intact, Unwritten, Removing
<1>3. Stored' = Parsed(file)' /\ file' = file
  BY <1>2, StoredInFileNext DEF Kill
<1>4. CASE \E t \in Threads : Unwritten(t)
  <2>1. file = Without("empty") /\ kept' = {}
    BY <1>4 DEF FileInv, Intact, Kill
  <2>2. Stored' = NoSessions
    BY <2>1, <1>3, ContentType DEF Parsed
  <2>3. Store!Lose
    BY <2>2 DEF Store!Lose, NoSessions
  <2> QED
    BY <2>1, <2>3, <1>2 DEF Orderly, Safe, Store!Next
<1>5. CASE \A t \in Threads : ~Unwritten(t)
  <2>1. Stored' = Stored
    BY <1>3, <1>5, StoredInFile DEF Parsed
  <2>2. kept' = kept /\ kept \subseteq Sids
    BY <1>5 DEF Kill, FileInv, FileTypeOK
  <2>3. Safe'
    BY <2>1, <2>2, <1>2 DEF FileInv, Safe
  <2> QED
    BY <2>1, <2>3, <1>2 DEF Orderly
<1> QED
  BY <1>4, <1>5

LEMMA FileNextInv ==
  FileInv /\ Turns /\ [FileNext]_fileVars => FileInv' /\ [Store!Next]_Stored
<1> SUFFICES ASSUME FileInv, Turns, [FileNext]_fileVars
             PROVE  FileInv' /\ (Store!Next \/ Stored' = Stored)
  OBVIOUS
<1>1. FileTypeOK'
  BY FileNextType DEF FileInv
<1>2. CASE UNCHANGED fileVars
  BY <1>1, <1>2 DEF fileVars, FileInv, Single, Intact, Unwritten, Safe, Removing, Stored, Parsed
<1>3. CASE FileNext
  <2>1. Orderly
    BY <1>3, BeginOrderly, PassOrderly, CloseOrderly, KillOrderly DEF FileNext
  <2> QED
    BY <2>1, <1>1 DEF Orderly, FileInv
<1> QED
  BY <1>2, <1>3

-----------------------------------------------------------------------------
(* The script.                                                             *)

\* The name of a session's user is in the row of another identifier than the
\* one the script uses.
Taken(s) == \E i \in Ids \ {UserId(UserOf[s])} : userRow[i] = UserOf[s]

Settled(s) ==
  \/ sessionRow[s] # NoId /\ userRow[sessionRow[s]] = UserOf[s]
  \/ Taken(s)

\* A row has the name for which the script and NEMO use its identifier.
Named == \A i \in Ids : userRow[i] # NoName =>
           \A n \in Names : i \in {IdOf[n], MockOf[n]} => userRow[i] = n

Working == script.pc \in {"upsert", "save", "done"}

MigrationInv ==
  /\ TypeOK
  /\ Named
  /\ Working => \A n \in Names : script.known[n] \in {NoId, IdOf[n], MockOf[n]}
  /\ script.pc = "save" =>
       \/ userRow[UserId(UserOf[script.sid])] = UserOf[script.sid]
       \/ Taken(script.sid)
       \/ script.sid \in script.refused
  /\ Working =>
       \A s \in Sids : \/ script.legacy[s] = "none" \/ s \in script.todo
                       \/ script.pc = "save" /\ s = script.sid
                       \/ Settled(s) \/ s \in script.refused
  /\ script.pc = "done" => script.todo = {}

LEMMA NotRunType == NotRun \in Script /\ NotRun.pc = "idle"
BY RestingType, FileAssumption, MigrationAssumption DEF NotRun, Script, Map, NoSessions

LEMMA InitMigration == Init => MigrationInv
<1> SUFFICES ASSUME Init PROVE MigrationInv
  OBVIOUS
<1>1. TypeOK
  BY FileInitType, NotRunType, MigrationAssumption DEF Init, TypeOK
<1>2. Named
  BY MigrationAssumption DEF Init, Named, RowsAgree
<1> QED
  BY <1>1, <1>2, NotRunType DEF Init, MigrationInv, Working

\* An upsert names a row that has no name yet, or changes nothing.
LEMMA UpsertAdds ==
  ASSUME TypeOK, Named, NEW n \in Names, NEW i \in Ids, i \in {IdOf[n], MockOf[n]}
  PROVE  /\ Upserted(i, n) \in [Ids -> Names \cup {NoName}]
         /\ \A j \in Ids : userRow[j] # NoName => Upserted(i, n)[j] = userRow[j]
         /\ \A j \in Ids : Upserted(i, n)[j] # NoName =>
              \A m \in Names : j \in {IdOf[m], MockOf[m]} => Upserted(i, n)[j] = m
         /\ \/ Upserted(i, n)[i] = n
            \/ \E j \in Ids \ {i} : Upserted(i, n)[j] = n
<1>1. userRow \in [Ids -> Names \cup {NoName}]
  BY DEF TypeOK
<1>2. CASE \E j \in Ids \ {i} : userRow[j] = n
  BY <1>1, <1>2 DEF Upserted, Named
<1>3. CASE ~\E j \in Ids \ {i} : userRow[j] = n
  <2>1. Upserted(i, n) = [userRow EXCEPT ![i] = n]
    BY <1>3 DEF Upserted
  <2>2. userRow[i] # NoName => userRow[i] = n
    BY DEF Named
  <2>3. \A m \in Names : i \in {IdOf[m], MockOf[m]} => m = n
    BY MigrationAssumption
  <2> QED
    BY <1>1, <2>1, <2>2, <2>3 DEF Named
<1> QED
  BY <1>2, <1>3

LEMMA UsersNamed ==
  ASSUME TypeOK, MigrationInv, Working, NEW n \in Names
  PROVE  UserId(n) \in Ids /\ UserId(n) \in {IdOf[n], MockOf[n]}
<1>1. script.known \in [Names -> Ids \cup {NoId}]
  BY DEF TypeOK, Script
<1>2. script.known[n] \in {NoId, IdOf[n], MockOf[n]}
  BY DEF MigrationInv
<1> QED
  BY <1>1, <1>2, MigrationAssumption DEF UserId

\* What is settled stays so while rows keep their names and the script its
\* identifiers.
LEMMA SettledStays ==
  ASSUME TypeOK, NEW s \in Sids,
         \A j \in Ids : userRow[j] # NoName => userRow'[j] = userRow[j],
         sessionRow'[s] = sessionRow[s], UserId(UserOf[s])' = UserId(UserOf[s])
  PROVE  (Taken(s) => Taken(s)') /\ (Settled(s) => Settled(s)')
<1>1. UserOf[s] \in Names /\ UserOf[s] # NoName /\ UserOf' = UserOf
  BY MigrationAssumption
<1>2. ASSUME Taken(s) PROVE Taken(s)'
  <2>1. PICK i \in Ids \ {UserId(UserOf[s])} : userRow[i] = UserOf[s]
    BY <1>2 DEF Taken
  <2>2. userRow'[i] = UserOf[s]
    BY <2>1, <1>1
  <2> QED
    BY <2>1, <2>2 DEF Taken
<1>3. ASSUME sessionRow[s] # NoId, userRow[sessionRow[s]] = UserOf[s]
      PROVE  Settled(s)'
  <2>1. sessionRow[s] \in Ids
    BY <1>3 DEF TypeOK
  <2>2. userRow'[sessionRow[s]] = UserOf[s]
    BY <2>1, <1>3, <1>1
  <2> QED
    BY <2>2, <1>3 DEF Settled
<1> QED
  BY <1>2, <1>3 DEF Settled

\* A step that leaves the script where it stands.
LEMMA ScriptRests ==
  ASSUME MigrationInv, TypeOK', Named', script' = script, sessionRow' = sessionRow,
         \A j \in Ids : userRow[j] # NoName => userRow'[j] = userRow[j]
  PROVE  MigrationInv'
<1>1. TypeOK /\ Working' = Working
  BY DEF MigrationInv, Working
<1>2. \A n \in Names : UserId(n)' = UserId(n)
  BY DEF UserId
<1>3. \A s \in Sids : (Taken(s) => Taken(s)') /\ (Settled(s) => Settled(s)')
  BY <1>1, <1>2, SettledStays, MigrationAssumption
<1>4. ASSUME script.pc = "save"
      PROVE  \/ userRow'[UserId(UserOf[script.sid])] = UserOf[script.sid]
             \/ Taken(script.sid)'
             \/ script.sid \in script.refused
  <2>1. Working /\ script.sid \in Sids /\ UserOf[script.sid] \in Names
    BY <1>1, <1>4, MigrationAssumption DEF Working, TypeOK, Script
  <2>2. UserId(UserOf[script.sid]) \in Ids
    BY <2>1, <1>1, UsersNamed
  <2>3. UserOf[script.sid] # NoName
    BY <2>1, MigrationAssumption
  <2>4. CASE userRow[UserId(UserOf[script.sid])] = UserOf[script.sid]
    BY <2>2, <2>3, <2>4
  <2>5. CASE Taken(script.sid)
    BY <2>5, <2>1, <1>3
  <2> QED
    BY <2>4, <2>5, <1>4 DEF MigrationInv
<1>5. ASSUME Working, NEW s \in Sids
      PROVE  \/ script.legacy[s] = "none" \/ s \in script.todo
             \/ script.pc = "save" /\ s = script.sid
             \/ Settled(s)' \/ s \in script.refused
  <2>1. \/ script.legacy[s] = "none" \/ s \in script.todo
        \/ script.pc = "save" /\ s = script.sid
        \/ Settled(s) \/ s \in script.refused
    BY <1>5 DEF MigrationInv
  <2> QED
    BY <2>1, <1>3
<1>6. script.pc = "save" => UserId(UserOf[script.sid])' = UserId(UserOf[script.sid])
  <2>1. script.pc = "save" => UserOf[script.sid] \in Names
    BY <1>1, MigrationAssumption DEF TypeOK, Script
  <2> QED
    BY <2>1 DEF UserId
<1> QED
  BY <1>1, <1>4, <1>5, <1>6 DEF MigrationInv

\* A step that leaves the script nothing to answer for.
LEMMA ScriptStartsAnew ==
  ASSUME MigrationInv, TypeOK', ~Working', UNCHANGED tables
  PROVE  MigrationInv'
BY DEF MigrationInv, Working, Named, tables

LEMMA FileStepOnly ==
  ASSUME MigrationInv, FileTypeOK', UNCHANGED <<tables, script>>
  PROVE  MigrationInv'
<1>1. TypeOK' /\ Named'
  BY DEF MigrationInv, TypeOK, Named, tables
<1> QED
  BY <1>1, ScriptRests DEF tables

LEMMA MigrateUserInv ==
  ASSUME MigrationInv, NEW s \in Sids, MigrateUser(s)
  PROVE  MigrationInv'
<1> DEFINE n == UserOf[s]
           i == UserId(n)
<1>1. TypeOK /\ Named /\ Working /\ script.pc = "upsert" /\ n \in Names
  BY MigrationAssumption DEF MigrationInv, MigrateUser, Working
<1>2. i \in Ids /\ i \in {IdOf[n], MockOf[n]}
  BY <1>1, UsersNamed
<1>3. /\ UNCHANGED <<fileVars, sessionRow>>
      /\ \E refused \in {{}, {s}} :
           /\ userRow' = IF refused = {} THEN Upserted(i, n) ELSE userRow
           /\ script' = [script EXCEPT !.pc = "save", !.sid = s, !.known[n] = i,
                                       !.todo = @ \ {s}, !.refused = @ \cup refused]
  BY DEF MigrateUser, Refusals
<1>a. PICK refused \in {{}, {s}} :
           /\ userRow' = IF refused = {} THEN Upserted(i, n) ELSE userRow
           /\ script' = [script EXCEPT !.pc = "save", !.sid = s, !.known[n] = i,
                                       !.todo = @ \ {s}, !.refused = @ \cup refused]
  BY <1>3
<1> HIDE DEF i
<1>4. /\ userRow' \in [Ids -> Names \cup {NoName}]
      /\ \A j \in Ids : userRow[j] # NoName => userRow'[j] = userRow[j]
      /\ Named'
      /\ userRow'[i] = n \/ (\E j \in Ids \ {i} : userRow'[j] = n) \/ s \in refused
  <2>1. CASE refused = {}
    BY <1>1, <1>2, <1>a, <2>1, UpsertAdds DEF Named
  <2>2. CASE refused # {}
    BY <1>1, <1>a, <2>2 DEF Named, TypeOK
  <2> QED
    BY <2>1, <2>2
<1>5. /\ script' \in Script /\ script'.pc = "save" /\ script'.sid = s
      /\ script'.todo = script.todo \ {s} /\ script'.legacy = script.legacy
      /\ \A m \in Names : script'.known[m] = IF m = n THEN i ELSE script.known[m]
      /\ script'.refused = script.refused \cup refused
  <2>1. script \in Script
    BY <1>1 DEF TypeOK
  <2> HIDE DEF n
  <2> QED
    BY <2>1, <1>1, <1>2, <1>a DEF Script
<1>6. TypeOK'
  BY <1>1, <1>3, <1>4, <1>5 DEF TypeOK, FileTypeOK, fileVars, Call, Removing
<1>7. \A m \in Names : UserId(m)' = UserId(m)
  <2>1. i # NoId
    BY <1>2, MigrationAssumption
  <2> QED
    BY <2>1, <1>5 DEF UserId, i
<1>8. \A r \in Sids : Settled(r) => Settled(r)'
  BY <1>1, <1>3, <1>4, <1>7, SettledStays, MigrationAssumption
<1>9. userRow'[UserId(UserOf[s])'] = UserOf[s] \/ Taken(s)' \/ s \in script'.refused
  BY <1>1, <1>4, <1>5, <1>7 DEF Taken, i
<1>10. \A m \in Names : script'.known[m] \in {NoId, IdOf[m], MockOf[m]}
  BY <1>1, <1>2, <1>5 DEF MigrationInv
<1>11. \A r \in Sids : \/ script'.legacy[r] = "none" \/ r \in script'.todo
                       \/ r = script'.sid \/ Settled(r)' \/ r \in script'.refused
  BY <1>1, <1>5, <1>8 DEF MigrationInv
<1> QED
  BY <1>4, <1>5, <1>6, <1>9, <1>10, <1>11 DEF MigrationInv

LEMMA MigrateSessionInv ==
  ASSUME MigrationInv, MigrateSession
  PROVE  MigrationInv'
<1> DEFINE s == script.sid
           n == UserOf[s]
           i == UserId(n)
<1>1. TypeOK /\ Working /\ script.pc = "save" /\ s \in Sids /\ n \in Names /\ n # NoName
  BY MigrationAssumption DEF MigrationInv, MigrateSession, Working, TypeOK, Script
<1>2. i \in Ids
  BY <1>1, UsersNamed
<1>3. /\ UNCHANGED <<fileVars, userRow>>
      /\ \E refused \in {{}, {s}} :
           /\ sessionRow' = IF refused = {} /\ userRow[i] # NoName
                              THEN [sessionRow EXCEPT ![s] = i] ELSE sessionRow
           /\ script' = [script EXCEPT !.pc = "upsert", !.refused = @ \cup refused]
  BY DEF MigrateSession, Refusals
<1>a. PICK refused \in {{}, {s}} :
           /\ sessionRow' = IF refused = {} /\ userRow[i] # NoName
                              THEN [sessionRow EXCEPT ![s] = i] ELSE sessionRow
           /\ script' = [script EXCEPT !.pc = "upsert", !.refused = @ \cup refused]
  BY <1>3
<1>4. userRow[i] = n \/ Taken(s) \/ s \in script.refused
  BY <1>1 DEF MigrationInv
<1> HIDE DEF i, n, s
<1>5. /\ script' \in Script /\ script'.pc = "upsert"
      /\ script'.todo = script.todo /\ script'.legacy = script.legacy
      /\ script'.known = script.known /\ script'.sid = s
      /\ script'.refused = script.refused \cup refused
  BY <1>1, <1>a DEF TypeOK, Script, s
<1>6. /\ sessionRow' \in [Sids -> Ids \cup {NoId}]
      /\ \A r \in Sids \ {s} : sessionRow'[r] = sessionRow[r]
      /\ refused = {} /\ userRow[i] # NoName => sessionRow'[s] = i
  BY <1>1, <1>2, <1>a DEF TypeOK
<1>7. TypeOK' /\ Named'
  BY <1>1, <1>3, <1>5, <1>6
     DEF MigrationInv, TypeOK, FileTypeOK, fileVars, Named
<1>8. \A m \in Names : UserId(m)' = UserId(m)
  BY <1>5 DEF UserId
<1>9. \A r \in Sids \ {s} : Settled(r) => Settled(r)'
  BY <1>1, <1>3, <1>6, <1>8, SettledStays, MigrationAssumption
<1>10. Settled(s)' \/ s \in script'.refused
  <2>0. CASE refused # {} \/ s \in script.refused
    BY <2>0, <1>5
  <2>1. CASE userRow[i] = n /\ refused = {}
    <3>1. sessionRow'[s] = i /\ i # NoId
      BY <1>1, <1>2, <1>6, <2>1, MigrationAssumption
    <3>2. userRow'[sessionRow'[s]] = UserOf[s]
      BY <3>1, <2>1, <1>3 DEF n
    <3>3. /\ sessionRow'[script'.sid] # NoId
          /\ userRow'[sessionRow'[script'.sid]] = UserOf[script'.sid]
      BY <3>1, <3>2, <1>5
    <3> QED
      BY <3>3 DEF Settled, s
  <2>2. CASE Taken(s)
    <3>1. PICK j \in Ids \ {UserId(UserOf[s])} : userRow[j] = UserOf[s]
      BY <2>2 DEF Taken, s
    <3>2. UserId(UserOf[s])' = UserId(UserOf[s])
      BY <1>1, <1>5 DEF UserId, s
    <3> QED
      BY <3>1, <3>2, <1>3, <1>5 DEF Settled, Taken, s
  <2> QED
    BY <2>0, <2>1, <2>2, <1>4
<1>11. \A r \in Sids : \/ script'.legacy[r] = "none" \/ r \in script'.todo
                       \/ Settled(r)' \/ r \in script'.refused
  <2>1. \A r \in Sids : \/ script.legacy[r] = "none" \/ r \in script.todo
                        \/ r = s \/ Settled(r) \/ r \in script.refused
    BY <1>1 DEF MigrationInv, s
  <2>2. \A r \in Sids : r = s => Settled(r)' \/ r \in script'.refused
    BY <1>5, <1>10 DEF Settled, Taken, s
  <2> QED
    BY <2>1, <2>2, <1>5, <1>9
<1> QED
  BY <1>1, <1>5, <1>7, <1>11 DEF MigrationInv

LEMMA NextMigration == MigrationInv /\ [Next]_vars => MigrationInv'
<1> SUFFICES ASSUME MigrationInv, [Next]_vars PROVE MigrationInv'
  OBVIOUS
<1>1. TypeOK /\ FileTypeOK
  BY DEF MigrationInv, TypeOK
<1>2. CASE FileNext /\ UNCHANGED <<tables, script>>
  BY <1>1, <1>2, FileNextType, FileStepOnly
<1>3. CASE UNCHANGED vars
  BY <1>1, <1>3, FileNextType, FileStepOnly DEF vars
<1>4. ASSUME UNCHANGED fileVars PROVE FileTypeOK'
  BY <1>1, <1>4, FileNextType
<1>5. CASE ReadLegacy
  <2>1. script' \in Script /\ script'.pc \in {"idle", "users"}
    <3>1. file.map \in Map
      BY <1>1 DEF FileTypeOK, Content
    <3>2. [NotRun EXCEPT !.pc = "users", !.legacy = file.map] \in Script
      BY <3>1, NotRunType DEF Script
    <3>3. [NotRun EXCEPT !.pc = "users", !.legacy = file.map].pc = "users"
      BY NotRunType DEF Script
    <3> QED
      BY <3>2, <3>3, <1>5, NotRunType DEF ReadLegacy
  <2>2. TypeOK' /\ ~Working'
    BY <2>1, <1>1, <1>4, <1>5 DEF ReadLegacy, TypeOK, tables, Working
  <2> QED
    BY <2>2, <1>5, ScriptStartsAnew DEF ReadLegacy
<1>6. CASE LoadUsers
  <2>1. PICK seen \in SUBSET Names : script' = [script EXCEPT
         !.pc = "upsert",
         !.known = [n \in Names |-> IF n \in seen THEN IdOf[n] ELSE NoId],
         !.todo = {s \in Sids : script.legacy[s] # "none"}]
    BY <1>6 DEF LoadUsers
  <2>2. /\ script' \in Script /\ script'.pc = "upsert" /\ script'.legacy = script.legacy
        /\ script'.known = [n \in Names |-> IF n \in seen THEN IdOf[n] ELSE NoId]
        /\ script'.todo = {s \in Sids : script.legacy[s] # "none"}
    BY <2>1, <1>1, MigrationAssumption DEF TypeOK, Script
  <2>3. TypeOK' /\ Named'
    BY <2>2, <1>1, <1>4, <1>6 DEF LoadUsers, MigrationInv, TypeOK, Named, tables
  <2> QED
    BY <2>2, <2>3 DEF MigrationInv
<1>7. CASE \E s \in Sids : MigrateUser(s)
  BY <1>7, MigrateUserInv
<1>8. CASE MigrateSession
  BY <1>8, MigrateSessionInv
<1>9. CASE Migrated
  <2>1. /\ script' \in Script /\ script'.pc = "done" /\ script'.legacy = script.legacy
        /\ script'.known = script.known /\ script'.todo = {} /\ script.todo = {}
        /\ script'.refused = script.refused
    BY <1>9, <1>1 DEF Migrated, TypeOK, Script
  <2>2. TypeOK' /\ Named'
    BY <2>1, <1>1, <1>4, <1>9 DEF Migrated, MigrationInv, TypeOK, Named, tables
  <2>3. \A s \in Sids : Settled(s) => Settled(s)'
    BY <2>1, <1>9 DEF Migrated, tables, Settled, Taken, UserId
  <2>4. \A s \in Sids : \/ script'.legacy[s] = "none" \/ Settled(s)'
                        \/ s \in script'.refused
    BY <2>1, <2>3, <1>9 DEF Migrated, MigrationInv, Working
  <2>5. \A n \in Names : script'.known[n] \in {NoId, IdOf[n], MockOf[n]}
    BY <2>1, <1>9 DEF Migrated, MigrationInv, Working
  <2> QED
    BY <2>1, <2>2, <2>4, <2>5 DEF MigrationInv
<1>10. CASE Interrupt
  <2>1. TypeOK' /\ ~Working'
    BY <1>1, <1>4, <1>10, NotRunType DEF Interrupt, TypeOK, tables, Working
  <2> QED
    BY <2>1, <1>10, ScriptStartsAnew DEF Interrupt
<1>11. CASE \E n \in Names : Reconcile(n)
  <2>1. PICK n \in Names : Reconcile(n)
    BY <1>11
  <2>2. IdOf[n] \in Ids
    BY <2>1, MigrationAssumption DEF Reconcile
  <2>3. /\ userRow' \in [Ids -> Names \cup {NoName}]
        /\ \A j \in Ids : userRow[j] # NoName => userRow'[j] = userRow[j]
        /\ Named'
    BY <2>1, <2>2, <1>1, UpsertAdds DEF MigrationInv, Reconcile, Named
  <2>4. TypeOK'
    BY <2>1, <2>3, <1>1, <1>4 DEF Reconcile, TypeOK
  <2> QED
    BY <2>1, <2>3, <2>4, ScriptRests DEF Reconcile
<1> QED
  BY <1>2, <1>3, <1>5, <1>6, <1>7, <1>8, <1>9, <1>10, <1>11 DEF Next

-----------------------------------------------------------------------------
(* The theorems.                                                           *)

\* The file, the lock, the calls, the tables and the script stay in their
\* domains, and no call reads or rewrites the file without the lock
\* (session_state.py:37-49), whatever overlaps and whatever fails.
THEOREM StoreTypeCorrect == Spec => []TypeOK
<1>1. MigrationInv => TypeOK
  BY DEF MigrationInv
<1> QED
  BY <1>1, InitMigration, NextMigration, PTL DEF Spec

\* When the script says that it is done, no session it found is missing but
\* those of users whose names are in the rows of other identifiers, and those
\* for which the database refused a statement (migrate_json_to_sqlite.py:85-110,
\* state_db.py:198-199 and 367-368), however often it was interrupted and run
\* again, whatever reconciles users meanwhile.
THEOREM MigrationLosesOnlyTaken == Spec => []MigratedUnlessTaken
<1>1. MigrationInv => MigratedUnlessTaken
  BY DEF MigrationInv, MigratedUnlessTaken, Working, Settled, Taken
<1> QED
  BY <1>1, InitMigration, NextMigration, PTL DEF Spec

LEMMA FileStep ==
  ASSUME Turns
  PROVE  FileInv /\ [Next]_vars => FileInv' /\ [Store!Next]_Stored
<1>1. [Next]_vars => [FileNext]_fileVars
  BY DEF Next, vars, ReadLegacy, LoadUsers, MigrateUser, MigrateSession, Migrated, Interrupt,
         Reconcile
<1> QED
  BY <1>1, FileNextInv

LEMMA SpecFileInv == ASSUME Turns PROVE Spec => []FileInv
<1>1. Init => FileInv
  BY InitFileInv DEF Init
<1> QED
  BY <1>1, FileStep, PTL DEF Spec

\* With one call at a time, a session whose saving was answered is in the file
\* whenever no call is under way (session_state.py:73-109), unless it was
\* removed, or an accident met a call that had cut the file off.
THEOREM NothingIsLost == ASSUME Turns PROVE Spec => []NoLostSession
<1>1. FileInv => NoLostSession
  <2>1. (\A t \in Threads : op[t].pc = "idle") => \A t \in Threads : ~Unwritten(t)
    BY DEF Unwritten
  <2> QED
    BY <2>1, StoredInFile DEF FileInv, Safe, NoLostSession, Parsed
<1> QED
  BY <1>1, SpecFileInv, PTL

\* With one call at a time, the file behaves as a map from which an accident
\* may take everything: no call shows another half of its work.
THEOREM StoreImplementsMap == ASSUME Turns PROVE Spec => ImplementsSessionMap
<1>1. Init => Store!Init
  <2>1. FileInit => \A t \in Threads : ~Unwritten(t)
    BY RestingType DEF FileInit, Unwritten
  <2> QED
    <3>1. FileInit => Stored = NoSessions
      BY <2>1, StoredInFile DEF FileInit, Parsed, Text
    <3> QED
      BY <3>1 DEF Init, Store!Init, NoSessions
<1> QED
  BY <1>1, FileStep, SpecFileInv, PTL DEF Spec, ImplementsSessionMap, Store!Spec
=============================================================================
