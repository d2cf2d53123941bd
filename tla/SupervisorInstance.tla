-------------------------- MODULE SupervisorInstance --------------------------
(***************************************************************************)
(* What the instance lock promises of one supervisor target: at most one   *)
(* supervisor is at work, and another one takes over only after it ended.  *)
(***************************************************************************)
CONSTANTS Pids, None

VARIABLE holder  \* the supervisor at work, or None

Init == holder = None

Up == holder = None /\ holder' \in Pids

Down == holder # None /\ holder' = None

Next == Up \/ Down

Spec == Init /\ [][Next]_holder
=============================================================================
