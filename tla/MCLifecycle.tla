---------------------------- MODULE MCLifecycle ----------------------------
(***************************************************************************)
(* Instances of Lifecycle for TLC.  A behaviour is about one target and    *)
(* the verbs that reach it.  For each reset under way it remembers which   *)
(* supervisors have been at work ever since reset last looked.             *)
(***************************************************************************)
EXTENDS Lifecycle, TLC

CONSTANT Targets  \* the verbs that reach each target

VARIABLES
  target,  \* the verbs in use
  elders   \* supervisors at work since the operator's reset last looked

watchVars == <<vars, target, elders>>

\* reset has looked and is about to remove what it found dead.
Removing == {"unlink", "rmtree", "purge_status", "purge_lock"}

Elders(o) ==
  IF cmd'[o].pc \notin Removing THEN {}
  ELSE IF cmd[o].pc \in {"discover", "check"} THEN Active
  ELSE {p \in elders[o] : proc'[p] \in Holding}

MCInit ==
  /\ Init
  /\ target \in Targets
  /\ elders = [o \in Operators |-> {}]

MCNext ==
  /\ Next
  /\ \A o \in Operators : cmd'[o].verb \in target \union {"none"}
  /\ elders' = [o \in Operators |-> Elders(o)]
  /\ UNCHANGED target

MCSpec == MCInit /\ [][MCNext]_watchVars

MCFairSpec == MCSpec /\ Fairness

\* INV-005, "removing an alive lock while the supervisor is running lets a second
\* supervisor acquire the instance lock": whatever verbs and processes interleave,
\* reset takes the lock from no supervisor that was at work when reset last looked
\* and has been since.  One that came up in between may lose it.
SparesTheSettled ==
  [][\A o \in Operators :
       cmd[o].pc \in Removing /\ cmd'[o] # cmd[o] /\ lock' # lock
         => lock \notin elders[o]]_watchVars

-----------------------------------------------------------------------------
StartStopRestart ==
  {"start", "start_durable", "stop", "stop_force", "restart", "restart_durable"}
Resets     == {"reset", "reset_purge", "reset_kill"}
Cycle      == {"cycle_stop", "cycle_restart"}
Concurrent == StartStopRestart \union {"install", "uninstall"}
Returning  == {"start", "stop_force", "restart", "reset", "reset_purge"}
OneByOne   == StartStopRestart \union Resets \union Cycle
ResetRace  == {"start", "reset"}

\* The CLI's target and the cycle script's.
BothTargets       == {StartStopRestart \union Resets, Cycle \union Resets}
ConcurrentTarget  == {StartStopRestart}
ReturningTarget   == {Returning}
ResetRaceTarget   == {ResetRace}

\* InstanceSpec chooses among Pids, so only the operators are interchangeable.
Symmetry == Permutations(Operators)
=============================================================================
