------------------------------ MODULE ToolAccess ------------------------------
(***************************************************************************)
(* What the daemon promises to the users of the tools, with no request,    *)
(* thread, mount table or database: which user holds a tool, and which     *)
(* directories of the storage can be reached through it (README.md: users  *)
(* only see their directories during active sessions).                     *)
(***************************************************************************)
CONSTANTS
  Users, Tools,
  Dirs,      \* the directories of the storage
  May,       \* <<u, d>>: u may be shown d
  NoUser

VARIABLES
  open,      \* the daemon serves requests
  using,     \* the user who holds a tool
  shown      \* the directories that can be reached through a tool

vars == <<open, using, shown>>

Init ==
  /\ open = FALSE
  /\ using = [t \in Tools |-> NoUser]
  /\ shown = [t \in Tools |-> {}]

\* A tool changes hands only when nothing of its last user is left.
CheckIn(t, u) ==
  /\ open
  /\ using[t] = NoUser /\ shown[t] = {}
  /\ using' = [using EXCEPT ![t] = u]
  /\ UNCHANGED <<open, shown>>

CheckOut(t) ==
  /\ open
  /\ using' = [using EXCEPT ![t] = NoUser]
  /\ UNCHANGED <<open, shown>>

Show(t, d) ==
  /\ open
  /\ <<using[t], d>> \in May
  /\ shown' = [shown EXCEPT ![t] = @ \cup {d}]
  /\ UNCHANGED <<open, using>>

Withdraw(t) ==
  /\ open
  /\ \E rest \in SUBSET shown[t] : shown' = [shown EXCEPT ![t] = rest]
  /\ UNCHANGED <<open, using>>

\* While the daemon is down its last mounts stay, and tools change hands
\* without it.
Close ==
  /\ open
  /\ open' = FALSE
  /\ UNCHANGED <<using, shown>>

HandOver(t, u) ==
  /\ ~open
  /\ using' = [using EXCEPT ![t] = u]
  /\ UNCHANGED <<open, shown>>

Sweep ==
  /\ ~open
  /\ shown' = [t \in Tools |-> {}]
  /\ UNCHANGED <<open, using>>

\* It serves again when nothing is shown any more.
Open ==
  /\ ~open
  /\ \A t \in Tools : shown[t] = {}
  /\ open' = TRUE
  /\ UNCHANGED <<using, shown>>

Next ==
  \/ \E t \in Tools :
       \/ CheckOut(t) \/ Withdraw(t)
       \/ \E u \in Users : CheckIn(t, u)
       \/ \E u \in Users \cup {NoUser} : HandOver(t, u)
       \/ \E d \in Dirs : Show(t, d)
  \/ Close \/ Sweep \/ Open

Spec == Init /\ [][Next]_vars
===============================================================================
