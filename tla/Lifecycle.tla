------------------------------ MODULE Lifecycle ------------------------------
(***************************************************************************)
(* The verbs around one supervisor target: a configuration, its state      *)
(* directory, its lock.  The research CLI's verbs have theirs, the cycle   *)
(* script has its own, and reset scans the state directories of both.      *)
(*                                                                         *)
(* Nothing serialises the verbs: each is a short script of probes, signals *)
(* and file operations, and the only mutual exclusion is supervisor.lock,  *)
(* which pi-monitor takes when it boots.  Every probe, signal and unlink   *)
(* is a step, so operators, launchd and the supervisor processes           *)
(* interleave at each of them.                                             *)
(*                                                                         *)
(* A process id may be reused once no file names it and no command is      *)
(* about to signal it; restart's wait for research-stop is long enough.    *)
(***************************************************************************)
EXTENDS FiniteSets

CONSTANTS
  Operators,  \* terminals that issue verbs
  Pids,       \* process ids
  None,       \* no pid, or no lock file
  Garbage,    \* a lock file that names no pid
  Verbs,      \* the verbs in use
  Serial,     \* operators let one verb, and the boot it causes, finish before the next
  Flaky,      \* pi-monitor status may fail or time out
  GateCloses  \* start may be refused by the gate or for missing credentials

AllVerbs ==
  {"start", "start_durable", "stop", "stop_force", "restart", "restart_durable",
   "reset", "reset_purge", "reset_kill", "install", "uninstall",
   "cycle_stop", "cycle_restart"}

ASSUME NamesAssumption == None \notin Pids /\ Garbage \notin Pids /\ None # Garbage
ASSUME VerbsAssumption == Verbs \subseteq AllVerbs
ASSUME SwitchesAssumption == {Serial, Flaky, GateCloses} \subseteq BOOLEAN

VARIABLES
  proc,    \* what each pid is running
  lock,    \* supervisor.lock
  status,  \* the pid pi-monitor status reports
  agent,   \* the LaunchAgent: out, loaded, or due to respawn its supervisor
  kept,    \* pids launchd spawned
  cmd      \* the verb each operator has under way

processVars == <<proc, lock, status>>
agentVars   == <<agent, kept>>
vars == <<processVars, agentVars, cmd>>

\* gone: no such process.  booting: no lock yet.  wedged: holds the lock but
\* answers nothing.  stopping: got SIGTERM.  killed: got SIGKILL, not yet reaped.
States == {"gone", "booting", "running", "wedged", "stopping", "killed"}

\* A supervisor at work on the target.
Holding == {"running", "wedged", "stopping"}
Active  == {p \in Pids : proc[p] \in Holding}

\* os.kill(pid, 0): what _pid_alive sees.
Alive(p) == p \in Pids /\ proc[p] # "gone"

Steps ==
  {"idle", "persist", "target", "term", "poll", "kill",
   "probe", "gate", "recheck", "spawn", "live_run", "attached",
   "discover", "unlink", "processes", "check", "rmtree", "purge_status", "purge_lock",
   "rm_lock", "pkill", "pkill9", "launch"}

\* Steps at which a verb signals a pid next, or waits for its end.
PidSteps == {"term", "poll", "kill", "attached"}

Idle == [verb |-> "none", pc |-> "idle", pid |-> None]
Commands == [verb : Verbs \union {"none"}, pc : Steps, pid : Pids \union {None}]

StartVerbs   == {"start", "start_durable"}
StopVerbs    == {"stop", "stop_force"}
RestartVerbs == {"restart", "restart_durable"}
ResetVerbs   == {"reset", "reset_purge", "reset_kill"}
CycleVerbs   == {"cycle_stop", "cycle_restart"}

At(o, pc) == cmd[o].pc = pc
Goto(o, pc) == cmd' = [cmd EXCEPT ![o].pc = pc]
GotoWith(o, pc, p) == cmd' = [cmd EXCEPT ![o].pc = pc, ![o].pid = p]
Done(o) == cmd' = [cmd EXCEPT ![o] = Idle]

-----------------------------------------------------------------------------
(* Processes. *)

\* Pids no file names, no command is about to signal and no parent has to reap.
Fresh ==
  {p \in Pids :
     /\ proc[p] = "gone" /\ p \notin {lock, status}
     /\ \A o \in Operators : cmd[o].pc \in PidSteps => cmd[o].pid # p}

\* SIGTERM: a supervisor that has its lock shuts down, one that boots dies.
Termed(state) ==
  CASE state = "running" -> "stopping"
    [] state = "booting" -> "killed"
    [] OTHER -> state

Killed(state) == IF state = "gone" THEN "gone" ELSE "killed"

Term(p) == proc' = [proc EXCEPT ![p] = Termed(proc[p])]

\* launchd restarts what it spawned when it ends other than by a clean exit.
Ends(p, clean) ==
  /\ proc' = [proc EXCEPT ![p] = "gone"]
  /\ kept' = kept \ {p}
  /\ agent' = IF p \in kept /\ ~clean /\ agent = "loaded" THEN "due" ELSE agent

Acquirable == lock \in {None, Garbage} \/ (lock \in Pids /\ ~Alive(lock))

\* The instance lock of pi-monitor: taken over when its pid is dead.
Acquire(p) ==
  /\ proc[p] = "booting" /\ Acquirable
  /\ proc' = [proc EXCEPT ![p] = "running"]
  /\ lock' = p /\ status' = p
  /\ UNCHANGED <<agentVars, cmd>>

\* Somebody else has the lock, or it names no pid.
Refused(p) ==
  /\ proc[p] = "booting" /\ (lock = Garbage \/ ~Acquirable)
  /\ Ends(p, FALSE)
  /\ UNCHANGED <<lock, status, cmd>>

Wedge(p) ==
  /\ proc[p] = "running"
  /\ proc' = [proc EXCEPT ![p] = "wedged"]
  /\ UNCHANGED <<lock, status, agentVars, cmd>>

\* A clean shutdown, on SIGTERM or of its own accord, removes its own lock.
Exit(p) ==
  /\ proc[p] \in {"running", "stopping"}
  /\ Ends(p, TRUE)
  /\ lock' = IF lock = p THEN None ELSE lock
  /\ UNCHANGED <<status, cmd>>

\* A crash, or the end of a killed process, leaves lock and state files behind.
Die(p) ==
  /\ proc[p] # "gone"
  /\ Ends(p, FALSE)
  /\ UNCHANGED <<lock, status, cmd>>

Process(p) == Acquire(p) \/ Refused(p) \/ Wedge(p) \/ Exit(p) \/ Die(p)

\* subprocess.call: the verb waits for its child, without a timeout.
Spawn(o, p) ==
  /\ proc' = [proc EXCEPT ![p] = "booting"]
  /\ GotoWith(o, "attached", p)
  /\ UNCHANGED <<lock, status, agentVars>>

\* A terminal that waits for its supervisor is in nobody's way.
Busy(o) == cmd[o].pc \notin {"idle", "attached"}

Quiet ==
  /\ \A o \in Operators : ~Busy(o)
  /\ \A p \in Pids : proc[p] \notin {"booting", "stopping", "killed"}
  /\ agent # "due"

MayBegin(o) == At(o, "idle") /\ (Serial => Quiet)

Unchanged == UNCHANGED <<processVars, agentVars>>

-----------------------------------------------------------------------------
(* probe_supervisor: the pid of pi-monitor status if it is alive. *)

Probe ==
  (IF Alive(status) THEN {status} ELSE {None})
    \union (IF Flaky THEN {None} ELSE {})

-----------------------------------------------------------------------------
(* start, and the second half of restart. *)

StartProbe_BlindMutant(o) ==
  /\ At(o, "probe")
  /\ Goto(o, "gate")
  /\ Unchanged

StartProbe(o) ==
  /\ At(o, "probe")
  /\ \E found \in Probe :
       IF found = None THEN Goto(o, "gate") ELSE Done(o)
  /\ Unchanged

\* The architecture-review gate and the credentials, unless skipped.
StartGate(o) ==
  /\ At(o, "gate")
  /\ \/ Goto(o, IF cmd[o].verb \in {"start_durable", "restart_durable"}
                THEN "live_run" ELSE "recheck")
     \/ GateCloses /\ Done(o)
  /\ Unchanged

StartRecheck(o) ==
  /\ At(o, "recheck")
  /\ \E found \in Probe :
       IF found = None THEN Goto(o, "spawn") ELSE Done(o)
  /\ Unchanged

StartSpawn(o) ==
  /\ At(o, "spawn")
  /\ \E p \in Fresh : Spawn(o, p)

\* mathlint live-run launches a supervisor or refuses; it looks for none itself.
LiveRun(o) ==
  /\ At(o, "live_run")
  /\ \/ \E p \in Fresh : Spawn(o, p)
     \/ GateCloses /\ Done(o) /\ Unchanged

\* The call returns when the child has ended.
StartEnds(o) ==
  /\ At(o, "attached") /\ ~Alive(cmd[o].pid)
  /\ Done(o)
  /\ Unchanged

-----------------------------------------------------------------------------
(* stop, and the first half of restart. *)

\* The stop is over: restart goes on to start.
Stopped(o) ==
  IF cmd[o].verb \in RestartVerbs THEN Goto(o, "probe") ELSE Done(o)

\* mathlint research-stop, without a timeout: stop asks first and probes then,
\* restart has probed before.
StopPersist(o) ==
  /\ At(o, "persist")
  /\ Goto(o, IF cmd[o].verb \in RestartVerbs THEN "term" ELSE "target")
  /\ Unchanged

\* What stop and restart do with the supervisor they found.
Found(o, p) ==
  GotoWith(o, IF cmd[o].verb \in RestartVerbs THEN "persist" ELSE "term", p)

StopTarget_UncheckedMutant(o) ==
  /\ At(o, "target")
  /\ \E found \in Probe : Found(o, found)
  /\ Unchanged

StopTarget(o) ==
  /\ At(o, "target")
  /\ \E found \in Probe :
       IF found = None THEN Stopped(o) ELSE Found(o, found)
  /\ Unchanged

StopTerm_UnlinkMutant(o) ==
  /\ At(o, "term")
  /\ Term(cmd[o].pid)
  /\ lock' = None
  /\ IF Alive(cmd[o].pid) THEN Goto(o, "poll") ELSE Stopped(o)
  /\ UNCHANGED <<status, agentVars>>

StopTerm(o) ==
  /\ At(o, "term")
  /\ Term(cmd[o].pid)
  /\ IF Alive(cmd[o].pid) THEN Goto(o, "poll") ELSE Stopped(o)
  /\ UNCHANGED <<lock, status, agentVars>>

StopPoll_NoTimeoutMutant(o) ==
  /\ At(o, "poll")
  /\ ~Alive(cmd[o].pid) /\ Stopped(o)
  /\ Unchanged

\* Five seconds of polling, then SIGKILL for restart and stop --force.
StopPoll(o) ==
  /\ At(o, "poll")
  /\ IF ~Alive(cmd[o].pid) THEN Stopped(o)
     ELSE IF cmd[o].verb = "stop" THEN Done(o) ELSE Goto(o, "kill")
  /\ Unchanged

StopKill(o) ==
  /\ At(o, "kill")
  /\ proc' = [proc EXCEPT ![cmd[o].pid] = Killed(proc[cmd[o].pid])]
  /\ Stopped(o)
  /\ UNCHANGED <<lock, status, agentVars>>

-----------------------------------------------------------------------------
(* reset --apply. *)

\* discover_stale_locks: a lock is stale if its pid is dead or it names none.
StaleLock == lock = Garbage \/ (lock \in Pids /\ ~Alive(lock))

AfterUnlink(verb) ==
  CASE verb = "reset_purge" -> "check"
    [] verb = "reset_kill"  -> "processes"
    [] OTHER -> "idle"

Onward(o) ==
  IF AfterUnlink(cmd[o].verb) = "idle" THEN Done(o)
  ELSE Goto(o, AfterUnlink(cmd[o].verb))

ResetDiscover(o) ==
  /\ At(o, "discover")
  /\ IF StaleLock THEN Goto(o, "unlink") ELSE Onward(o)
  /\ Unchanged

\* remove_stale_locks unlinks by path and does not look again.  An error is
\* suppressed, and the lock is reported as removed all the same.
ResetUnlink(o) ==
  /\ At(o, "unlink")
  /\ lock' \in {None, lock}
  /\ Onward(o)
  /\ UNCHANGED <<proc, status, agentVars>>

\* discover_stale_processes calls load_catalog without its argument: reset raises.
ResetProcesses(o) ==
  /\ At(o, "processes")
  /\ Done(o)
  /\ Unchanged

ResetCheck_NoneMutant(o) ==
  /\ At(o, "check")
  /\ Goto(o, "rmtree")
  /\ Unchanged

ResetCheck(o) ==
  /\ At(o, "check")
  /\ IF Alive(lock) THEN Done(o) ELSE Goto(o, "rmtree")
  /\ Unchanged

\* shutil.rmtree: the lock and state.json go one after the other, in the order in
\* which the directory lists them.  An error ends it, and reset goes on.
ResetPurge(o) ==
  /\ At(o, "rmtree")
  /\ \/ lock' = None /\ Goto(o, "purge_status") /\ UNCHANGED status
     \/ status' = None /\ Goto(o, "purge_lock") /\ UNCHANGED lock
     \/ Done(o) /\ UNCHANGED <<lock, status>>
  /\ UNCHANGED <<proc, agentVars>>

ResetPurgeRest(o) ==
  /\ \/ At(o, "purge_status") /\ status' \in {None, status} /\ UNCHANGED lock
     \/ At(o, "purge_lock") /\ lock' \in {None, lock} /\ UNCHANGED status
  /\ Done(o)
  /\ UNCHANGED <<proc, agentVars>>

-----------------------------------------------------------------------------
(* The LaunchAgent: install, uninstall and launchd itself. *)

\* bootstrap with RunAtLoad; nobody looks for a running supervisor.
Install(o) ==
  /\ MayBegin(o) /\ "install" \in Verbs /\ agent = "out"
  /\ \E p \in Fresh :
       /\ proc' = [proc EXCEPT ![p] = "booting"]
       /\ kept' = kept \union {p}
  /\ agent' = "loaded"
  /\ UNCHANGED <<lock, status, cmd>>

\* bootout: launchd stops the supervisor it spawned.
Uninstall(o) ==
  /\ MayBegin(o) /\ "uninstall" \in Verbs /\ agent # "out"
  /\ agent' = "out"
  /\ proc' = [p \in Pids |-> IF p \in kept THEN Termed(proc[p]) ELSE proc[p]]
  /\ UNCHANGED <<lock, status, kept, cmd>>

Respawn ==
  /\ agent = "due"
  /\ \E p \in Fresh :
       /\ proc' = [proc EXCEPT ![p] = "booting"]
       /\ kept' = kept \union {p}
  /\ agent' = "loaded"
  /\ UNCHANGED <<lock, status, cmd>>

-----------------------------------------------------------------------------
(* start-pi-monitor-research-institution.sh: --stop and --restart, on the    *)
(* script's own target.                                                      *)

CycleRemoveLock(o) ==
  /\ At(o, "rm_lock")
  /\ lock' = None
  /\ Goto(o, "pkill")
  /\ UNCHANGED <<proc, status, agentVars>>

CycleTerm(o) ==
  /\ At(o, "pkill")
  /\ proc' = [p \in Pids |-> Termed(proc[p])]
  /\ Goto(o, "pkill9")
  /\ UNCHANGED <<lock, status, agentVars>>

CycleKill_PoliteMutant(o) ==
  /\ At(o, "pkill9")
  /\ proc' = [p \in Pids |-> Termed(proc[p])]
  /\ IF cmd[o].verb = "cycle_restart" THEN Goto(o, "launch") ELSE Done(o)
  /\ UNCHANGED <<lock, status, agentVars>>

CycleKill(o) ==
  /\ At(o, "pkill9")
  /\ proc' = [p \in Pids |-> Killed(proc[p])]
  /\ IF cmd[o].verb = "cycle_restart" THEN Goto(o, "launch") ELSE Done(o)
  /\ UNCHANGED <<lock, status, agentVars>>

\* spec-kit-cycle.sh, in the background, execs pi-monitor run if its preflight passes.
CycleLaunch(o) ==
  /\ At(o, "launch")
  /\ Done(o)
  /\ \/ \E p \in Fresh : proc' = [proc EXCEPT ![p] = "booting"]
     \/ GateCloses /\ UNCHANGED proc
  /\ UNCHANGED <<lock, status, agentVars>>

-----------------------------------------------------------------------------
FirstStep(verb) ==
  CASE verb \in StartVerbs -> "probe"
    [] verb \in StopVerbs -> "persist"
    [] verb \in RestartVerbs -> "target"
    [] verb \in ResetVerbs -> "discover"
    [] verb \in CycleVerbs -> "rm_lock"

Begin(o) ==
  /\ MayBegin(o)
  /\ \E verb \in Verbs \ {"install", "uninstall"} :
       cmd' = [cmd EXCEPT ![o] = [verb |-> verb, pc |-> FirstStep(verb), pid |-> None]]
  /\ Unchanged

Continue(o) ==
  \/ StartProbe(o) \/ StartGate(o) \/ StartRecheck(o) \/ StartSpawn(o) \/ LiveRun(o)
  \/ StartEnds(o)
  \/ StopTarget(o) \/ StopTerm(o) \/ StopPoll(o) \/ StopKill(o)
  \/ ResetDiscover(o) \/ ResetUnlink(o) \/ ResetProcesses(o)
  \/ ResetCheck(o) \/ ResetPurge(o) \/ ResetPurgeRest(o)
  \/ CycleRemoveLock(o) \/ CycleTerm(o) \/ CycleKill(o) \/ CycleLaunch(o)

Init ==
  /\ proc = [p \in Pids |-> "gone"]
  /\ lock \in {None, Garbage} /\ status = None
  /\ agent = "out" /\ kept = {}
  /\ cmd = [o \in Operators |-> Idle]

Next ==
  \/ \E p \in Pids : Process(p)
  \/ \E o \in Operators :
       Begin(o) \/ Continue(o) \/ StopPersist(o) \/ Install(o) \/ Uninstall(o)
  \/ Respawn

Spec == Init /\ [][Next]_vars

\* A verb goes on by itself: its probes and polls are bounded in time, and a wait
\* for a child ends with the child.  Nothing is assumed of research-stop, which
\* has no timeout.  It is strong only because the bounded Pids may keep a spawn
\* waiting for a pid.  The kernel ends killed processes and a booting one gets its
\* lock or fails.
Fairness ==
  /\ \A o \in Operators : SF_vars(Continue(o))
  /\ \A p \in Pids : WF_vars(Acquire(p) \/ Refused(p)) /\ WF_vars(proc[p] = "killed" /\ Die(p))

FairSpec == Spec /\ Fairness

-----------------------------------------------------------------------------
(* Properties. *)

\* The steps a verb goes through.
StartRoute == {"probe", "gate", "recheck", "live_run", "spawn", "attached"}
StopRoute  == {"persist", "target", "term", "poll", "kill"}

Route(verb) ==
  CASE verb \in StartVerbs   -> StartRoute
    [] verb \in StopVerbs    -> StopRoute
    [] verb \in RestartVerbs -> StopRoute \union StartRoute
    [] verb \in ResetVerbs   -> {"discover", "unlink", "processes", "check", "rmtree",
                                "purge_status", "purge_lock"}
    [] verb \in CycleVerbs   -> {"rm_lock", "pkill", "pkill9", "launch"}
    [] OTHER -> {"idle"}

ProcessOK ==
  /\ proc \in [Pids -> States]
  /\ lock \in Pids \union {None, Garbage}
  /\ status \in Pids \union {None}
  /\ agent \in {"out", "loaded", "due"}
  /\ kept \subseteq Pids

CommandOK ==
  /\ cmd \in [Operators -> Commands]
  /\ \A o \in Operators :
       /\ cmd[o].pc \in Route(cmd[o].verb)
       /\ cmd[o].pc \in PidSteps => cmd[o].pid # None
       /\ At(o, "persist") /\ cmd[o].verb \in RestartVerbs => cmd[o].pid # None

\* Every variable has its type, a command is on the route of its verb, and no
\* signal is ever sent without a pid to send it to.
TypeOK == ProcessOK /\ CommandOK

\* INV-005, one supervisor per target: the verbs, launchd and crashes together
\* never have two supervisors at work.
OneSupervisor == \A p, q \in Active : p = q

\* A supervisor comes up only where there is none, and nothing else changes
\* which one is at work than its own end: the contract of the instance lock.
supervisor == IF Active = {} THEN None ELSE CHOOSE p \in Active : TRUE

Instance == INSTANCE SupervisorInstance WITH holder <- supervisor

InstanceSpec == Instance!Spec

\* A verb at work comes back or waits for a child that the code sets no limit to,
\* also when the supervisor is wedged or somebody else's verb interferes; and start
\* comes back once its supervisor was killed or has ended.
VerbsReturn ==
  \A o \in Operators :
    /\ Busy(o) /\ ~At(o, "persist") ~> ~Busy(o) \/ At(o, "persist")
    /\ At(o, "attached") /\ proc[cmd[o].pid] \in {"killed", "gone"} ~> At(o, "idle")

Spawns(o) ==
  /\ cmd[o].verb \in StartVerbs \union RestartVerbs /\ cmd'[o] # cmd[o]
  /\ \E p \in Pids : proc[p] = "gone" /\ proc'[p] = "booting"

\* "Both modes refuse to spawn a duplicate": start and restart never spawn a
\* supervisor while a process of an earlier one exists.
NoDuplicateSpawn ==
  [][\A o \in Operators : Spawns(o) => \A p \in Pids : ~Alive(p)]_vars
=============================================================================
