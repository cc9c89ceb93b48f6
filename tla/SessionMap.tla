------------------------------ MODULE SessionMap ------------------------------
(***************************************************************************)
(* What the session store promises: a map from session identifiers to      *)
(* sessions, changed by one call at a time, which an accident may empty.   *)
(***************************************************************************)
CONSTANTS Sids

VARIABLES sessions     \* "none": there is no such session

Init == sessions = [s \in Sids |-> "none"]

Save(s) == sessions' = [sessions EXCEPT ![s] = "saved"]

Remove(s) == sessions[s] # "none" /\ sessions' = [sessions EXCEPT ![s] = "none"]

Heartbeat(s) == sessions[s] # "none" /\ sessions' = [sessions EXCEPT ![s] = "alive"]

\* Not the session of one call: all of them.
Lose == sessions' = [s \in Sids |-> "none"]

Next == Lose \/ \E s \in Sids : Save(s) \/ Remove(s) \/ Heartbeat(s)

Spec == Init /\ [][Next]_sessions
===============================================================================
