--------------------------- MODULE LifecycleProofs ---------------------------
(***************************************************************************)
(* Proofs about Lifecycle, for every set of operators and pids.            *)
(*                                                                         *)
(* OneSupervisor holds when no verb in use touches supervisor.lock, that   *)
(* is without reset and without the cycle script.  The invariant behind it *)
(* is that a supervisor at work holds the lock: then the lock, being one   *)
(* file, names the only one.  With those verbs it holds when verbs run one *)
(* by one and launchd is not involved (SerialInv), and then start spawns   *)
(* no duplicate (CalmInv).  That reset takes the lock from no supervisor   *)
(* it could have seen at work needs no such condition (WatchInv).          *)
(***************************************************************************)
EXTENDS MCLifecycle, TLAPS

\* The verbs that remove supervisor.lock themselves.
LockBreaking == ResetVerbs \union CycleVerbs

LockHeld == \A p \in Active : lock = p

IInv == TypeOK /\ LockHeld

-----------------------------------------------------------------------------
\* What Route says of each kind of verb, the kinds being disjoint.
LEMMA RouteOf ==
  ASSUME NEW verb \in AllVerbs \union {"none"}
  PROVE  \/ verb \in StartVerbs
            /\ Route(verb) = {"probe", "gate", "recheck", "live_run", "spawn", "attached"}
         \/ verb \in StopVerbs
            /\ Route(verb) = {"persist", "target", "term", "poll", "kill"}
         \/ verb \in RestartVerbs
            /\ Route(verb) = {"persist", "target", "term", "poll", "kill", "probe",
                              "gate", "recheck", "live_run", "spawn", "attached"}
         \/ verb \in ResetVerbs
            /\ Route(verb) = {"discover", "unlink", "processes", "check", "rmtree",
                              "purge_status", "purge_lock"}
         \/ verb \in CycleVerbs
            /\ Route(verb) = {"rm_lock", "pkill", "pkill9", "launch"}
         \/ verb \in {"install", "uninstall", "none"} /\ Route(verb) = {"idle"}
BY DEF Route, StartRoute, StopRoute, AllVerbs, StartVerbs, StopVerbs, RestartVerbs, ResetVerbs, CycleVerbs

StopSteps  == {"term", "poll", "kill"}
StartSteps == {"gate", "recheck", "live_run", "spawn"}
ResetSteps == {"unlink", "processes", "check", "rmtree", "purge_status", "purge_lock"}
CycleSteps == {"pkill", "pkill9", "launch"}

\* A verb that is on one of its steps goes on to steps of its own route.
LEMMA RouteClosed ==
  ASSUME NEW verb \in AllVerbs \union {"none"}, NEW pc \in Route(verb)
  PROVE  /\ pc \in Steps
         /\ pc \in StopSteps \union {"target", "persist"}
              => StopSteps \union {"target", "persist"} \subseteq Route(verb)
         /\ pc \in StartSteps \union {"probe"}
              => StartSteps \union {"attached"} \subseteq Route(verb)
         /\ pc \in ResetSteps \union {"discover"} => ResetSteps \subseteq Route(verb)
         /\ pc \in CycleSteps \union {"rm_lock"} => CycleSteps \subseteq Route(verb)
         /\ verb \in RestartVerbs => "probe" \in Route(verb)
<1> USE DEF StopSteps, StartSteps, ResetSteps, CycleSteps
<1>1. verb \in RestartVerbs => "probe" \in Route(verb)
  BY RouteOf DEF RestartVerbs, StartVerbs, StopVerbs, ResetVerbs, CycleVerbs
<1>2. pc \in Steps
  BY RouteOf DEF Steps
<1>3. pc \in StopSteps \union {"target", "persist"}
        => StopSteps \union {"target", "persist"} \subseteq Route(verb)
  BY RouteOf
<1>4. pc \in StartSteps \union {"probe"}
        => StartSteps \union {"attached"} \subseteq Route(verb)
  BY RouteOf
<1>5. pc \in ResetSteps \union {"discover"} => ResetSteps \subseteq Route(verb)
  BY RouteOf
<1>6. pc \in CycleSteps \union {"rm_lock"} => CycleSteps \subseteq Route(verb)
  BY RouteOf
<1> QED  BY <1>1, <1>2, <1>3, <1>4, <1>5, <1>6

\* A verb begins on its route, and not where it needs a pid.
LEMMA RouteBegins ==
  ASSUME NEW verb \in AllVerbs \ {"install", "uninstall"}
  PROVE  /\ FirstStep(verb) \in (Route(verb) \intersect Steps) \ PidSteps
         /\ FirstStep(verb) = "persist" => verb \notin RestartVerbs
<1>1. \/ verb \in StartVerbs /\ FirstStep(verb) = "probe"
      \/ verb \in StopVerbs /\ FirstStep(verb) = "persist"
      \/ verb \in RestartVerbs /\ FirstStep(verb) = "target"
      \/ verb \in ResetVerbs /\ FirstStep(verb) = "discover"
      \/ verb \in CycleVerbs /\ FirstStep(verb) = "rm_lock"
  BY DEF AllVerbs, FirstStep, StartVerbs, StopVerbs, RestartVerbs, ResetVerbs, CycleVerbs
<1>2. FirstStep(verb) \in Route(verb)
  BY <1>1, RouteOf DEF StartVerbs, StopVerbs, RestartVerbs, ResetVerbs, CycleVerbs
<1> QED  BY <1>1, <1>2 DEF Steps, PidSteps, StopVerbs, RestartVerbs

\* Only a verb that breaks locks is ever about to remove one.
LEMMA NoLockBreaking ==
  ASSUME CommandOK, Verbs \intersect LockBreaking = {}, NEW o \in Operators
  PROVE  cmd[o].pc \notin {"unlink", "rmtree", "purge_lock", "rm_lock"}
<1>1. cmd[o].verb \in Verbs \union {"none"} /\ cmd[o].pc \in Route(cmd[o].verb)
  BY DEF CommandOK, Commands
<1>2. cmd[o].verb \notin ResetVerbs \union CycleVerbs
  BY <1>1 DEF LockBreaking, ResetVerbs, CycleVerbs
<1> QED
  BY <1>1, <1>2 DEF Route, StartRoute, StopRoute, StartVerbs, StopVerbs, RestartVerbs

-----------------------------------------------------------------------------
(* Moves of a command keep it well formed. *)

LEMMA DoneOK ==
  ASSUME CommandOK, NEW o \in Operators, Done(o)
  PROVE  CommandOK'
<1>1. Idle \in Commands /\ Idle.pc \in Route(Idle.verb)
  BY RouteOf DEF Idle, Commands, Steps, StartVerbs, StopVerbs, RestartVerbs,
               ResetVerbs, CycleVerbs
<1> QED  BY <1>1 DEF CommandOK, Done, Idle, At, PidSteps

LEMMA GotoOK ==
  ASSUME CommandOK, NEW o \in Operators,
         NEW pc \in Steps, pc \in Route(cmd[o].verb),
         pc \in PidSteps => cmd[o].pid # None, pc # "persist",
         Goto(o, pc)
  PROVE  CommandOK'
BY DEF CommandOK, Goto, Commands, At

LEMMA GotoWithOK ==
  ASSUME CommandOK, NEW o \in Operators,
         NEW pc \in Steps, pc \in Route(cmd[o].verb),
         NEW p \in Pids, GotoWith(o, pc, p)
  PROVE  CommandOK'
BY NamesAssumption DEF CommandOK, GotoWith, Commands, At

LEMMA StoppedOK ==
  ASSUME CommandOK, NEW o \in Operators, Stopped(o)
  PROVE  CommandOK'
<1>1. CASE cmd[o].verb \in RestartVerbs
  <2>1. cmd[o].verb \in AllVerbs \union {"none"}
    BY VerbsAssumption DEF CommandOK, Commands
  <2>2. "probe" \in Route(cmd[o].verb)
    BY <1>1, <2>1, RouteOf DEF StartVerbs, StopVerbs, RestartVerbs, ResetVerbs, CycleVerbs
  <2> QED  BY <1>1, <2>2, GotoOK DEF Stopped, Steps, PidSteps
<1>2. CASE cmd[o].verb \notin RestartVerbs
  BY <1>2, DoneOK DEF Stopped
<1> QED  BY <1>1, <1>2

LEMMA OnwardOK ==
  ASSUME CommandOK, NEW o \in Operators, Onward(o),
         cmd[o].pc \in {"discover", "unlink"}
  PROVE  CommandOK'
<1>1. CASE AfterUnlink(cmd[o].verb) = "idle"
  BY <1>1, DoneOK DEF Onward
<1>2. CASE AfterUnlink(cmd[o].verb) # "idle"
  <2>1. cmd[o].verb \in AllVerbs \union {"none"} /\ cmd[o].pc \in Route(cmd[o].verb)
    BY VerbsAssumption DEF CommandOK, Commands
  <2>2. {"processes", "check"} \subseteq Route(cmd[o].verb)
    BY <2>1, RouteClosed DEF ResetSteps
  <2>3. AfterUnlink(cmd[o].verb) \in {"processes", "check"}
    BY <1>2 DEF AfterUnlink
  <2> QED  BY <1>2, <2>2, <2>3, GotoOK DEF Onward, Steps, PidSteps
<1> QED  BY <1>1, <1>2

-----------------------------------------------------------------------------
(* Type correctness. *)

LEMMA SignalType ==
  ASSUME NEW state \in States
  PROVE  /\ Termed(state) \in States /\ Killed(state) \in States
         /\ Termed(state) \in Holding => state \in Holding
         /\ Killed(state) \notin Holding
BY DEF States, Termed, Killed, Holding

LEMMA EndsType ==
  ASSUME ProcessOK, NEW p \in Pids, NEW clean, Ends(p, clean)
  PROVE  /\ proc' \in [Pids -> States]
         /\ agent' \in {"out", "loaded", "due"}
         /\ kept' \subseteq Pids
BY DEF ProcessOK, Ends, States

LEMMA UnchangedOK ==
  ASSUME ProcessOK, Unchanged
  PROVE  ProcessOK'
BY DEF ProcessOK, Unchanged, processVars, agentVars

LEMMA CmdUnchangedOK ==
  ASSUME CommandOK, UNCHANGED cmd
  PROVE  CommandOK'
BY DEF CommandOK, At

LEMMA SpawnOK ==
  ASSUME TypeOK, NEW o \in Operators, NEW p \in Pids, Spawn(o, p),
         "attached" \in Route(cmd[o].verb)
  PROVE  TypeOK'
<1>1. ProcessOK'
  BY DEF TypeOK, ProcessOK, Spawn, agentVars, States
<1>2. CommandOK'
  BY GotoWithOK DEF TypeOK, Spawn, Steps
<1> QED  BY <1>1, <1>2 DEF TypeOK

LEMMA ProcessTypeStep ==
  ASSUME TypeOK, NEW p \in Pids, Process(p)
  PROVE  TypeOK'
<1> USE DEF TypeOK
<1>1. CASE Acquire(p)
  <2>1. ProcessOK'
    BY <1>1 DEF Acquire, ProcessOK, States, agentVars
  <2> QED  BY <1>1, <2>1, CmdUnchangedOK DEF Acquire
<1>2. CASE Refused(p)
  <2>1. ProcessOK'
    BY <1>2, EndsType DEF Refused, ProcessOK
  <2> QED  BY <1>2, <2>1, CmdUnchangedOK DEF Refused
<1>3. CASE Wedge(p)
  <2>1. ProcessOK'
    BY <1>3 DEF Wedge, ProcessOK, States, agentVars
  <2> QED  BY <1>3, <2>1, CmdUnchangedOK DEF Wedge
<1>4. CASE Exit(p)
  <2>1. ProcessOK'
    BY <1>4, EndsType DEF Exit, ProcessOK
  <2> QED  BY <1>4, <2>1, CmdUnchangedOK DEF Exit
<1>5. CASE Die(p)
  <2>1. ProcessOK'
    BY <1>5, EndsType DEF Die, ProcessOK
  <2> QED  BY <1>5, <2>1, CmdUnchangedOK DEF Die
<1> QED  BY <1>1, <1>2, <1>3, <1>4, <1>5 DEF Process

LEMMA BeginTypeStep ==
  ASSUME TypeOK, NEW o \in Operators, Begin(o)
  PROVE  TypeOK'
<1>1. ProcessOK'
  BY UnchangedOK DEF TypeOK, Begin
<1>2. PICK verb \in Verbs \ {"install", "uninstall"} :
        cmd' = [cmd EXCEPT ![o] = [verb |-> verb, pc |-> FirstStep(verb), pid |-> None]]
  BY DEF Begin
<1>3. /\ FirstStep(verb) \in (Route(verb) \intersect Steps) \ PidSteps
      /\ FirstStep(verb) = "persist" => verb \notin RestartVerbs
  BY VerbsAssumption, RouteBegins
<1>4. CommandOK'
  BY <1>2, <1>3 DEF TypeOK, CommandOK, Commands, At
<1> QED  BY <1>1, <1>4 DEF TypeOK

LEMMA AgentTypeStep ==
  ASSUME TypeOK, Respawn \/ \E o \in Operators : Install(o) \/ Uninstall(o)
  PROVE  TypeOK'
<1>1. CommandOK'
  BY CmdUnchangedOK DEF TypeOK, Respawn, Install, Uninstall
<1>2. CASE Respawn
  BY <1>1, <1>2 DEF TypeOK, ProcessOK, Respawn, Fresh, States
<1>3. CASE \E o \in Operators : Install(o)
  BY <1>1, <1>3 DEF TypeOK, ProcessOK, Install, Fresh, States
<1>4. CASE \E o \in Operators : Uninstall(o)
  <2>1. proc' = [p \in Pids |-> IF p \in kept THEN Termed(proc[p]) ELSE proc[p]]
    BY <1>4 DEF Uninstall
  <2>2. \A p \in Pids : Termed(proc[p]) \in States /\ proc[p] \in States
    BY SignalType DEF TypeOK, ProcessOK
  <2>3. proc' \in [Pids -> States]
    BY <2>1, <2>2
  <2> QED  BY <1>1, <1>4, <2>3 DEF TypeOK, ProcessOK, Uninstall
<1> QED  BY <1>2, <1>3, <1>4

\* What a command at pc knows about its verb and pid.
LEMMA CommandAt ==
  ASSUME CommandOK, NEW o \in Operators
  PROVE  /\ cmd[o].verb \in AllVerbs \union {"none"}
         /\ cmd[o].pc \in Route(cmd[o].verb)
         /\ cmd[o].pid \in Pids \union {None}
         /\ cmd[o].pc \in StopSteps => cmd[o].pid \in Pids
BY VerbsAssumption DEF CommandOK, Commands, StopSteps, PidSteps

LEMMA StartTypeStep ==
  ASSUME TypeOK, NEW o \in Operators,
         \/ StartProbe(o) \/ StartGate(o) \/ StartRecheck(o) \/ StartSpawn(o)
         \/ LiveRun(o) \/ StartEnds(o)
  PROVE  TypeOK'
<1> USE DEF TypeOK
<1>1. At(o, "probe") \/ cmd[o].pc \in StartSteps
        => StartSteps \union {"attached"} \subseteq Route(cmd[o].verb)
  BY CommandAt, RouteClosed DEF At, StartSteps
<1>2. CASE StartProbe(o)
  <2>1. Goto(o, "gate") \/ Done(o)
    BY <1>2 DEF StartProbe
  <2>2. CommandOK'
    BY <1>1, <1>2, <2>1, GotoOK, DoneOK DEF StartProbe, StartSteps, Steps, PidSteps
  <2> QED  BY <1>2, <2>2, UnchangedOK DEF StartProbe
<1>3. CASE StartGate(o)
  <2>1. Goto(o, "live_run") \/ Goto(o, "recheck") \/ Done(o)
    BY <1>3 DEF StartGate
  <2>2. CommandOK'
    BY <1>1, <1>3, <2>1, GotoOK, DoneOK DEF StartGate, At, StartSteps, Steps,
                                                   PidSteps
  <2> QED  BY <1>3, <2>2, UnchangedOK DEF StartGate
<1>4. CASE StartRecheck(o)
  <2>1. Goto(o, "spawn") \/ Done(o)
    BY <1>4 DEF StartRecheck
  <2>2. CommandOK'
    BY <1>1, <1>4, <2>1, GotoOK, DoneOK DEF StartRecheck, At, StartSteps, Steps,
                                                   PidSteps
  <2> QED  BY <1>4, <2>2, UnchangedOK DEF StartRecheck
<1>5. CASE StartSpawn(o)
  BY <1>1, <1>5, SpawnOK DEF StartSpawn, Fresh, At, StartSteps
<1>6. CASE LiveRun(o)
  BY <1>1, <1>6, SpawnOK, DoneOK, UnchangedOK DEF LiveRun, Fresh, At, StartSteps
<1>7. CASE StartEnds(o)
  BY <1>7, DoneOK, UnchangedOK DEF StartEnds
<1> QED  BY <1>2, <1>3, <1>4, <1>5, <1>6, <1>7

LEMMA StopTypeStep ==
  ASSUME TypeOK, NEW o \in Operators,
         StopTarget(o) \/ StopPersist(o) \/ StopTerm(o) \/ StopPoll(o) \/ StopKill(o)
  PROVE  TypeOK'
<1> USE DEF TypeOK
<1>1. /\ At(o, "target") \/ At(o, "persist") \/ cmd[o].pc \in StopSteps
           => StopSteps \union {"target", "persist"} \subseteq Route(cmd[o].verb)
      /\ cmd[o].pc \in StopSteps => cmd[o].pid \in Pids /\ cmd[o].pid # None
  BY CommandAt, RouteClosed, NamesAssumption DEF At, StopSteps
<1>2. CASE StopTarget(o)
  <2>1. PICK found \in Probe :
          IF found = None THEN Stopped(o) ELSE Found(o, found)
    BY <1>2 DEF StopTarget
  <2>2. found # None => found \in Pids
    BY DEF Probe, Alive
  <2>3. CommandOK'
    BY <1>1, <1>2, <2>1, <2>2, StoppedOK, GotoWithOK
       DEF StopTarget, Found, StopSteps, Steps
  <2> QED  BY <1>2, <2>3, UnchangedOK DEF StopTarget
<1>3. CASE StopTerm(o)
  <2>1. CommandOK'
    BY <1>1, <1>3, StoppedOK, GotoOK DEF StopTerm, At, StopSteps, Steps, PidSteps
  <2>2. proc' \in [Pids -> States]
    <3>1. cmd[o].pid \in Pids /\ proc[cmd[o].pid] \in States
      BY <1>1, <1>3 DEF StopTerm, At, StopSteps, ProcessOK
    <3> QED  BY <1>3, <3>1, SignalType DEF StopTerm, Term, ProcessOK
  <2> QED  BY <1>3, <2>1, <2>2 DEF StopTerm, ProcessOK, agentVars
<1>4. CASE StopPoll(o)
  <2>1. Stopped(o) \/ Done(o) \/ Goto(o, "kill")
    BY <1>4 DEF StopPoll
  <2>2. CommandOK'
    BY <1>1, <1>4, <2>1, StoppedOK, DoneOK, GotoOK
       DEF StopPoll, At, StopSteps, Steps, PidSteps
  <2> QED  BY <1>4, <2>2, UnchangedOK DEF StopPoll
<1>5. CASE StopKill(o)
  <2>1. CommandOK'
    BY <1>5, StoppedOK DEF StopKill
  <2>2. proc' \in [Pids -> States]
    <3>1. cmd[o].pid \in Pids /\ proc[cmd[o].pid] \in States
      BY <1>1, <1>5 DEF StopKill, At, StopSteps, ProcessOK
    <3> QED  BY <1>5, <3>1, SignalType DEF StopKill, ProcessOK
  <2> QED  BY <1>5, <2>1, <2>2 DEF StopKill, ProcessOK, agentVars
<1>6. CASE StopPersist(o)
  <2>1. CASE cmd[o].verb \in RestartVerbs
    <3>1. cmd[o].pid # None
      BY <1>6, <2>1 DEF StopPersist, CommandOK
    <3> QED  BY <1>1, <1>6, <2>1, <3>1, GotoOK, UnchangedOK
             DEF StopPersist, StopSteps, Steps, PidSteps
  <2>2. CASE cmd[o].verb \notin RestartVerbs
    BY <1>1, <1>6, <2>2, GotoOK, UnchangedOK DEF StopPersist, Steps, PidSteps
  <2> QED  BY <2>1, <2>2
<1> QED  BY <1>2, <1>3, <1>4, <1>5, <1>6

LEMMA ResetTypeStep ==
  ASSUME TypeOK, NEW o \in Operators,
         \/ ResetDiscover(o) \/ ResetUnlink(o) \/ ResetProcesses(o)
         \/ ResetCheck(o) \/ ResetPurge(o) \/ ResetPurgeRest(o)
  PROVE  TypeOK'
<1> USE DEF TypeOK
<1>1. At(o, "discover") \/ At(o, "check") \/ At(o, "rmtree")
        => ResetSteps \subseteq Route(cmd[o].verb)
  BY CommandAt, RouteClosed DEF At, ResetSteps
<1>2. CASE ResetDiscover(o)
  <2>1. CommandOK'
    BY <1>1, <1>2, OnwardOK, GotoOK DEF ResetDiscover, At, ResetSteps, Steps,
                                                   PidSteps
  <2> QED  BY <1>2, <2>1, UnchangedOK DEF ResetDiscover
<1>3. CASE ResetUnlink(o)
  <2>1. CommandOK'
    BY <1>3, OnwardOK DEF ResetUnlink, At
  <2> QED  BY <1>3, <2>1 DEF ResetUnlink, ProcessOK, agentVars
<1>4. CASE ResetProcesses(o)
  BY <1>4, DoneOK, UnchangedOK DEF ResetProcesses
<1>5. CASE ResetCheck(o)
  <2>1. CommandOK'
    BY <1>1, <1>5, DoneOK, GotoOK DEF ResetCheck, ResetSteps, Steps, PidSteps
  <2> QED  BY <1>5, <2>1, UnchangedOK DEF ResetCheck
<1>6. CASE ResetPurge(o)
  <2>1. Goto(o, "purge_status") \/ Goto(o, "purge_lock") \/ Done(o)
    BY <1>6 DEF ResetPurge
  <2>2. CommandOK'
    BY <1>1, <1>6, <2>1, DoneOK, GotoOK DEF ResetPurge, ResetSteps, Steps, PidSteps
  <2> QED  BY <1>6, <2>2 DEF ResetPurge, ProcessOK, agentVars
<1>7. CASE ResetPurgeRest(o)
  BY <1>7, DoneOK DEF ResetPurgeRest, ProcessOK, agentVars
<1> QED  BY <1>2, <1>3, <1>4, <1>5, <1>6, <1>7

LEMMA CycleTypeStep ==
  ASSUME TypeOK, NEW o \in Operators,
         CycleRemoveLock(o) \/ CycleTerm(o) \/ CycleKill(o) \/ CycleLaunch(o)
  PROVE  TypeOK'
<1> USE DEF TypeOK
<1>1. At(o, "rm_lock") \/ At(o, "pkill") \/ At(o, "pkill9")
        => CycleSteps \subseteq Route(cmd[o].verb)
  BY CommandAt, RouteClosed DEF At, CycleSteps
<1>2. CASE CycleRemoveLock(o)
  <2>1. CommandOK'
    BY <1>1, <1>2, GotoOK DEF CycleRemoveLock, CycleSteps, Steps, PidSteps
  <2> QED  BY <1>2, <2>1 DEF CycleRemoveLock, ProcessOK, agentVars
<1>3. CASE CycleTerm(o)
  <2>1. CommandOK'
    BY <1>1, <1>3, GotoOK DEF CycleTerm, CycleSteps, Steps, PidSteps
  <2>2. proc' \in [Pids -> States]
    BY <1>3, SignalType DEF CycleTerm, ProcessOK
  <2> QED  BY <1>3, <2>1, <2>2 DEF CycleTerm, ProcessOK, agentVars
<1>4. CASE CycleKill(o)
  <2>1. CommandOK'
    BY <1>1, <1>4, GotoOK, DoneOK DEF CycleKill, CycleSteps, Steps, PidSteps
  <2>2. proc' \in [Pids -> States]
    BY <1>4, SignalType DEF CycleKill, ProcessOK
  <2> QED  BY <1>4, <2>1, <2>2 DEF CycleKill, ProcessOK, agentVars
<1>5. CASE CycleLaunch(o)
  BY <1>5, DoneOK DEF CycleLaunch, ProcessOK, agentVars, Fresh, States
<1> QED  BY <1>2, <1>3, <1>4, <1>5

LEMMA StutterTypeStep ==
  ASSUME TypeOK, UNCHANGED vars
  PROVE  TypeOK'
BY DEF TypeOK, ProcessOK, CommandOK, At, vars, processVars, agentVars

LEMMA TypeInit == Init => TypeOK
<1>1. Idle \in Commands /\ Idle.pc \in Route(Idle.verb) /\ Idle.pc = "idle"
  BY RouteOf DEF Idle, Commands, Steps, StartVerbs, StopVerbs, RestartVerbs,
               ResetVerbs, CycleVerbs
<1> QED  BY <1>1 DEF Init, TypeOK, ProcessOK, CommandOK, At, PidSteps, States

LEMMA TypeStep == TypeOK /\ [Next]_vars => TypeOK'
<1> SUFFICES ASSUME TypeOK, [Next]_vars PROVE TypeOK'
  OBVIOUS
<1>1. CASE \E p \in Pids : Process(p)
  BY <1>1, ProcessTypeStep
<1>2. CASE \E o \in Operators : Begin(o)
  BY <1>2, BeginTypeStep
<1>3. CASE \E o \in Operators : Continue(o) \/ StopPersist(o)
  BY <1>3, StartTypeStep, StopTypeStep, ResetTypeStep, CycleTypeStep DEF Continue
<1>4. CASE Respawn \/ \E o \in Operators : Install(o) \/ Uninstall(o)
  BY <1>4, AgentTypeStep
<1>5. CASE UNCHANGED vars
  BY <1>5, StutterTypeStep
<1> QED  BY <1>1, <1>2, <1>3, <1>4, <1>5 DEF Next

\* The types of Lifecycle, whatever verbs are in use.
THEOREM TypeCorrect == Spec => []TypeOK
BY TypeInit, TypeStep, PTL DEF Spec

-----------------------------------------------------------------------------
(* One supervisor. *)

\* Without a verb that removes the lock, only the processes themselves move it.
LEMMA LockSteps ==
  ASSUME TypeOK, Verbs \intersect LockBreaking = {}, [Next]_vars,
         \A p \in Pids : ~Process(p)
  PROVE  /\ UNCHANGED lock
         /\ \A p \in Pids : proc'[p] \in Holding => proc[p] \in Holding
<1> DEFINE P == /\ UNCHANGED lock
                /\ \A p \in Pids : proc'[p] \in Holding => proc[p] \in Holding
<1> USE DEF TypeOK
<1>1. /\ proc \in [Pids -> States]
      /\ \A p \in Pids : proc[p] \in States
  BY DEF ProcessOK
<1>2. ASSUME NEW o \in Operators, NEW p \in Pids, Spawn(o, p) PROVE P
  BY <1>1, <1>2 DEF Spawn, Holding
<1>3. ASSUME Unchanged PROVE P
  BY <1>3 DEF Unchanged, processVars
<1>4. CASE \E o \in Operators : Begin(o)
  BY <1>3, <1>4 DEF Begin
<1>5. ASSUME NEW o \in Operators, Continue(o) \/ StopPersist(o) PROVE P
  <2>1. ~At(o, "unlink") /\ ~At(o, "rmtree") /\ ~At(o, "purge_lock") /\ ~At(o, "rm_lock")
    BY NoLockBreaking DEF At
  <2>2. CASE StartProbe(o) \/ StartGate(o) \/ StartRecheck(o) \/ StopTarget(o)
             \/ StartEnds(o) \/ StopPersist(o) \/ StopPoll(o)
             \/ ResetDiscover(o) \/ ResetProcesses(o) \/ ResetCheck(o)
    BY <1>3, <2>2 DEF StartProbe, StartGate, StartRecheck, StartEnds, StopTarget,
                      StopPersist, StopPoll, ResetDiscover, ResetProcesses, ResetCheck
  <2>3. CASE StartSpawn(o) \/ LiveRun(o)
    BY <1>2, <1>3, <2>3 DEF StartSpawn, LiveRun, Fresh
  <2>4. CASE StopTerm(o)
    BY <1>1, <2>4, SignalType DEF StopTerm, Term
  <2>5. CASE StopKill(o)
    BY <1>1, <2>5, SignalType DEF StopKill
  <2>6. CASE CycleTerm(o) \/ CycleKill(o)
    BY <1>1, <2>6, SignalType DEF CycleTerm, CycleKill
  <2>7. CASE ResetUnlink(o) \/ ResetPurge(o) \/ ResetPurgeRest(o) \/ CycleRemoveLock(o)
    BY <2>1, <2>7 DEF ResetUnlink, ResetPurge, ResetPurgeRest, CycleRemoveLock, At
  <2>8. CASE CycleLaunch(o)
    BY <1>1, <2>8 DEF CycleLaunch, Holding
  <2> QED  BY <1>5, <2>2, <2>3, <2>4, <2>5, <2>6, <2>7, <2>8 DEF Continue
<1>6. CASE Respawn \/ \E o \in Operators : Install(o)
  BY <1>1, <1>6 DEF Respawn, Install, Fresh, Holding
<1>7. CASE \E o \in Operators : Uninstall(o)
  BY <1>1, <1>7, SignalType DEF Uninstall
<1>8. CASE UNCHANGED vars
  BY <1>8 DEF vars, processVars
<1> QED  BY <1>4, <1>5, <1>6, <1>7, <1>8 DEF Next

\* The processes keep the lock and its holder together: a lock is taken over
\* only from a dead pid, and a clean exit removes only its own.
LEMMA ProcessKeepsLock ==
  ASSUME TypeOK, LockHeld, NEW p \in Pids, Process(p)
  PROVE  LockHeld'
<1> USE DEF TypeOK, ProcessOK
<1>1. CASE Acquire(p)
  <2>1. \A q \in Active : lock = q /\ Alive(q)
    BY DEF LockHeld, Active, Alive, Holding
  <2>2. Active = {}
    BY <1>1, <2>1, NamesAssumption DEF Acquire, Acquirable, Active
  <2> QED  BY <1>1, <2>2 DEF Acquire, LockHeld, Active
<1>2. CASE Refused(p) \/ Wedge(p) \/ Die(p)
  <2>1. /\ UNCHANGED lock
        /\ \A q \in Pids : proc'[q] \in Holding => proc[q] \in Holding
    BY <1>2 DEF Refused, Wedge, Die, Ends, Holding
  <2> QED  BY <2>1 DEF LockHeld, Active
<1>3. CASE Exit(p)
  <2>1. /\ proc' = [proc EXCEPT ![p] = "gone"]
        /\ lock' = IF lock = p THEN None ELSE lock
    BY <1>3 DEF Exit, Ends
  <2>2. \A q \in Active' : q \in Active /\ q # p
    BY <2>1 DEF Active, Holding
  <2> QED  BY <2>1, <2>2 DEF LockHeld
<1> QED  BY <1>1, <1>2, <1>3 DEF Process

LEMMA LockHeldStep ==
  ASSUME IInv, Verbs \intersect LockBreaking = {}, [Next]_vars
  PROVE  LockHeld'
<1>1. CASE \E p \in Pids : Process(p)
  BY <1>1, ProcessKeepsLock DEF IInv
<1>2. CASE \A p \in Pids : ~Process(p)
  <2>1. /\ UNCHANGED lock
        /\ \A p \in Pids : proc'[p] \in Holding => proc[p] \in Holding
    BY <1>2, LockSteps DEF IInv
  <2> QED  BY <2>1 DEF IInv, LockHeld, Active
<1> QED  BY <1>1, <1>2

LEMMA InvInit == Init => IInv
BY TypeInit DEF Init, IInv, LockHeld, Active, Holding

\* Without reset and the cycle script, a supervisor at work holds the lock.
THEOREM LockInvariance ==
  ASSUME Verbs \intersect LockBreaking = {}
  PROVE  Spec => []IInv
<1>1. IInv /\ [Next]_vars => IInv'
  BY TypeStep, LockHeldStep DEF IInv
<1> QED  BY <1>1, InvInit, PTL DEF Spec

\* INV-005 for start, stop, restart, install and uninstall: however many
\* operators, launchd and crashes interleave, one supervisor is at work at most.
THEOREM AtMostOneSupervisor ==
  ASSUME Verbs \intersect LockBreaking = {}
  PROVE  Spec => []OneSupervisor
<1>1. IInv => OneSupervisor
  BY DEF IInv, LockHeld, OneSupervisor
<1> QED  BY <1>1, LockInvariance, PTL

-----------------------------------------------------------------------------
(* The verbs implement the contract of the instance lock. *)

LEMMA ActiveSupervisor ==
  ASSUME IInv
  PROVE  /\ supervisor = None <=> Active = {}
         /\ \A p \in Active : supervisor = p
<1>1. \A p, q \in Active : p = q
  BY DEF IInv, LockHeld
<1>2. Active # {} => (CHOOSE p \in Active : TRUE) \in Active
  OBVIOUS
<1>3. None \notin Active
  BY NamesAssumption DEF Active
<1> QED  BY <1>1, <1>2, <1>3 DEF supervisor

LEMMA InstanceStep ==
  ASSUME IInv, IInv', [Next]_vars, Verbs \intersect LockBreaking = {}
  PROVE  [Instance!Next]_supervisor
<1>1. /\ supervisor = None <=> Active = {}
      /\ \A p \in Active : supervisor = p
  BY ActiveSupervisor
<1>2. /\ supervisor' = None <=> Active' = {}
      /\ \A p \in Active' : supervisor' = p
  <2>1. \A p, q \in Active' : p = q
    BY DEF IInv, LockHeld
  <2>2. Active' # {} => (CHOOSE p \in Active' : TRUE) \in Active'
    OBVIOUS
  <2>3. None \notin Active'
    BY NamesAssumption DEF Active
  <2> QED  BY <2>1, <2>2, <2>3 DEF supervisor
<1>3. Active' \subseteq Active \/ Active = {}
  <2>1. CASE \E p \in Pids : Acquire(p)
    <3>1. \A q \in Active : lock = q /\ Alive(q)
      BY DEF IInv, LockHeld, Active, Alive, Holding
    <3> QED  BY <2>1, <3>1, NamesAssumption DEF Acquire, Acquirable, Active
  <2>2. CASE \E p \in Pids : Refused(p) \/ Wedge(p) \/ Exit(p) \/ Die(p)
    BY <2>2 DEF IInv, TypeOK, ProcessOK, Refused, Wedge, Exit, Die, Ends, Active, Holding
  <2>3. CASE \A p \in Pids : ~Process(p)
    BY <2>3, LockSteps DEF IInv, Active
  <2> QED  BY <2>1, <2>2, <2>3 DEF Process
<1>4. Active' \subseteq Pids
  BY DEF Active
<1>5. CASE Active = {}
  BY <1>1, <1>2, <1>4, <1>5 DEF Instance!Next, Instance!Up
<1>6. CASE Active # {} /\ Active' \subseteq Active
  <2>1. CASE Active' = {}
    BY <1>1, <1>2, <1>6, <2>1 DEF Instance!Next, Instance!Down
  <2>2. CASE Active' # {}
    BY <1>1, <1>2, <1>6, <2>2
  <2> QED  BY <2>1, <2>2
<1> QED  BY <1>3, <1>5, <1>6

\* The lifecycle verbs implement SupervisorInstance: no supervisor comes up
\* beside another one, and none takes over before the other has ended.
THEOREM ImplementsInstance ==
  ASSUME Verbs \intersect LockBreaking = {}
  PROVE  Spec => InstanceSpec
<1>1. Init => Instance!Init
  BY DEF Init, Instance!Init, supervisor, Active, Holding
<1>2. IInv /\ IInv' /\ [Next]_vars => [Instance!Next]_supervisor
  BY InstanceStep
<1> QED  BY <1>1, <1>2, LockInvariance, PTL DEF Spec, InstanceSpec, Instance!Spec

-----------------------------------------------------------------------------
(* What a verb does to its command. *)

\* What a step of o's verb may write in o's command.
Writes(o, c) == cmd' = [cmd EXCEPT ![o] = c]

\* A step of a verb moves only its own command.
LEMMA OwnCommand ==
  ASSUME CommandOK, NEW o \in Operators, NEW c, Writes(o, c)
  PROVE  /\ cmd'[o] = c
         /\ \A q \in Operators : q # o => cmd'[q] = cmd[q]
BY DEF CommandOK, Writes

\* Where the commands of the verbs go.
LEMMA MovesWrite ==
  ASSUME CommandOK, NEW o \in Operators
  PROVE  /\ Done(o) => Writes(o, Idle)
         /\ \A pc : Goto(o, pc) =>
              \E c : /\ Writes(o, c)
                     /\ c.pc = pc /\ c.verb = cmd[o].verb /\ c.pid = cmd[o].pid
         /\ \A pc, p : GotoWith(o, pc, p) =>
              \E c : /\ Writes(o, c)
                     /\ c.pc = pc /\ c.verb = cmd[o].verb
<1>1. cmd \in [Operators -> Commands] /\ cmd[o] \in Commands
  BY DEF CommandOK
<1>2. Done(o) => Writes(o, Idle)
  BY DEF Done, Writes
<1>3. ASSUME NEW pc, Goto(o, pc)
      PROVE  \E c : /\ Writes(o, c)
                    /\ c.pc = pc /\ c.verb = cmd[o].verb /\ c.pid = cmd[o].pid
  <2>1. Writes(o, [cmd[o] EXCEPT !.pc = pc])
    BY <1>1, <1>3 DEF Goto, Writes
  <2>2. /\ [cmd[o] EXCEPT !.pc = pc].pc = pc
        /\ [cmd[o] EXCEPT !.pc = pc].verb = cmd[o].verb
        /\ [cmd[o] EXCEPT !.pc = pc].pid = cmd[o].pid
    BY <1>1 DEF Commands
  <2> QED  BY <2>1, <2>2
<1>4. ASSUME NEW pc, NEW p, GotoWith(o, pc, p)
      PROVE  \E c : Writes(o, c) /\ c.pc = pc /\ c.verb = cmd[o].verb
  <2>1. Writes(o, [cmd[o] EXCEPT !.pc = pc, !.pid = p])
    BY <1>1, <1>4 DEF GotoWith, Writes
  <2>2. /\ [cmd[o] EXCEPT !.pc = pc, !.pid = p].pc = pc
        /\ [cmd[o] EXCEPT !.pc = pc, !.pid = p].verb = cmd[o].verb
    BY <1>1 DEF Commands
  <2> QED  BY <2>1, <2>2
<1> QED  BY <1>2, <1>3, <1>4

-----------------------------------------------------------------------------
(* The steps of a verb are of four kinds.  c is what the step leaves in the *)
(* operator's command.                                                      *)

SweepSteps == {"pkill", "pkill9"}

\* The first half of the state directory is gone.
PurgeSteps == {"purge_status", "purge_lock"}

\* Nothing but the command changes.
LookStep(o, c) ==
  /\ Unchanged
  /\ cmd[o].pc \notin SweepSteps \union PurgeSteps
  /\ c.pc \notin SweepSteps \union PurgeSteps
  /\ c.pc \in {"unlink", "rmtree"} => ~Alive(lock)
  /\ c.pc \in StartSteps => cmd[o].pc \in StartSteps \/ Flaky \/ ~Alive(status)

\* A process is spawned, and the verb is over or waits for it.
SpawnStep(o, c) ==
  /\ c.pc \in {"idle", "attached"}
  /\ cmd[o].pc \in {"spawn", "live_run", "launch"}
  /\ \E p \in Fresh : proc' = [proc EXCEPT ![p] = "booting"]
  /\ UNCHANGED <<lock, status, agentVars>>

\* Processes get signals: none comes up by that.
Sooner ==
  \A p \in Pids :
    /\ proc'[p] \in Holding => proc[p] \in Holding
    /\ proc'[p] = "booting" => proc[p] = "booting"
    /\ proc'[p] # "gone" => proc[p] # "gone"

SignalStep(o, c) ==
  /\ Sooner
  /\ UNCHANGED <<lock, status, agentVars>>
  /\ cmd[o].pc \notin PurgeSteps
  /\ c.pc \in {"idle", "poll", "probe", "pkill9", "launch"}
  /\ c.pc = "pkill9" => cmd[o].pc = "pkill"
  /\ cmd[o].pc = "pkill" => c.pc = "pkill9"
  /\ cmd[o].pc = "pkill9" => Active' = {}

\* The lock or state.json goes, or the attempt fails.
UnlinkStep(o, c) ==
  /\ UNCHANGED <<proc, agentVars>> /\ lock' \in {None, lock}
  /\ \/ cmd[o].pc = "unlink" /\ c.pc \in {"idle", "processes", "check"}
     \/ cmd[o].pc \in {"rmtree"} \union PurgeSteps /\ c.pc \in {"idle"} \union PurgeSteps
     \/ cmd[o].pc = "rm_lock" /\ c.pc = "pkill"
  /\ UNCHANGED status \/ cmd[o].pc \in {"rmtree"} \union PurgeSteps

VerbStep(o, c) ==
  /\ Writes(o, c) /\ (c = Idle \/ c.verb = cmd[o].verb)
  /\ LookStep(o, c) \/ SpawnStep(o, c) \/ SignalStep(o, c) \/ UnlinkStep(o, c)

LEMMA StartKinds ==
  ASSUME TypeOK, NEW o \in Operators,
         StartProbe(o) \/ StartGate(o) \/ StartRecheck(o) \/ StartSpawn(o) \/ LiveRun(o)
  PROVE  \E c : VerbStep(o, c)
<1> USE DEF TypeOK
<1>1. ASSUME Done(o), Unchanged, cmd[o].pc \notin SweepSteps \union PurgeSteps
      PROVE  \E c : VerbStep(o, c)
  <2>1. Writes(o, Idle)
    BY <1>1, MovesWrite
  <2>2. LookStep(o, Idle)
    BY <1>1 DEF LookStep, Idle, SweepSteps, PurgeSteps, StartSteps
  <2> QED  BY <2>1, <2>2 DEF VerbStep
<1>2. ASSUME NEW pc \in StartSteps, Goto(o, pc), Unchanged,
             cmd[o].pc \notin SweepSteps \union PurgeSteps,
             cmd[o].pc \in StartSteps \/ Flaky \/ ~Alive(status)
      PROVE  \E c : VerbStep(o, c)
  <2>1. PICK c : Writes(o, c) /\ c.pc = pc /\ c.verb = cmd[o].verb
    BY <1>2, MovesWrite
  <2>2. LookStep(o, c)
    BY <1>2, <2>1 DEF LookStep, SweepSteps, PurgeSteps, StartSteps
  <2> QED  BY <2>1, <2>2 DEF VerbStep
<1>3. ASSUME NEW p \in Fresh, Spawn(o, p), cmd[o].pc \in {"spawn", "live_run"}
      PROVE  \E c : VerbStep(o, c)
  <2>1. PICK c : Writes(o, c) /\ c.pc = "attached" /\ c.verb = cmd[o].verb
    BY <1>3, MovesWrite DEF Spawn
  <2>2. SpawnStep(o, c)
    BY <1>3, <2>1 DEF SpawnStep, Spawn
  <2> QED  BY <2>1, <2>2 DEF VerbStep
<1>4. CASE StartProbe(o)
  <2>1. PICK found \in Probe : IF found = None THEN Goto(o, "gate") ELSE Done(o)
    BY <1>4 DEF StartProbe
  <2>2. found = None => Flaky \/ ~Alive(status)
    BY NamesAssumption DEF Probe, Alive
  <2> QED  BY <1>1, <1>2, <1>4, <2>1, <2>2 DEF StartProbe, At, SweepSteps,
                                                PurgeSteps, StartSteps
<1>5. CASE StartGate(o)
  BY <1>1, <1>2, <1>5 DEF StartGate, At, SweepSteps, PurgeSteps, StartSteps
<1>6. CASE StartRecheck(o)
  BY <1>1, <1>2, <1>6 DEF StartRecheck, At, SweepSteps, PurgeSteps, StartSteps
<1>7. CASE StartSpawn(o)
  BY <1>3, <1>7 DEF StartSpawn, At
<1>8. CASE LiveRun(o)
  BY <1>1, <1>3, <1>8 DEF LiveRun, At, SweepSteps, PurgeSteps
<1> QED  BY <1>4, <1>5, <1>6, <1>7, <1>8

LEMMA StoppedWrites ==
  ASSUME CommandOK, NEW o \in Operators, Stopped(o)
  PROVE  \E c : /\ Writes(o, c) /\ (c = Idle \/ c.verb = cmd[o].verb)
                /\ c.pc \in {"probe", "idle"}
BY MovesWrite DEF Stopped, Idle

LEMMA StopKinds ==
  ASSUME TypeOK, NEW o \in Operators,
         StopTarget(o) \/ StopPersist(o) \/ StopTerm(o) \/ StopPoll(o) \/ StopKill(o)
  PROVE  \E c : VerbStep(o, c)
<1> USE DEF TypeOK
<1>1. ASSUME NEW c, Writes(o, c), c = Idle \/ c.verb = cmd[o].verb, Unchanged,
             c.pc \in {"idle", "probe", "persist", "target", "term", "poll", "kill"},
             cmd[o].pc \in {"persist", "target", "term", "poll", "kill"}
      PROVE  VerbStep(o, c)
  BY <1>1 DEF VerbStep, LookStep, SweepSteps, PurgeSteps, StartSteps
<1>2. ASSUME NEW c, Writes(o, c), c = Idle \/ c.verb = cmd[o].verb, Sooner,
             UNCHANGED <<lock, status, agentVars>>,
             c.pc \in {"idle", "probe", "poll"},
             cmd[o].pc \in {"term", "kill"}
      PROVE  VerbStep(o, c)
  BY <1>2 DEF VerbStep, SignalStep, PurgeSteps
<1>3. proc \in [Pids -> States]
  BY DEF ProcessOK
<1>4. ASSUME NEW p \in Pids, NEW state \in States,
             state = Termed(proc[p]) \/ state = Killed(proc[p]),
             proc' = [proc EXCEPT ![p] = state]
      PROVE  Sooner
  <2>1. proc[p] \in States
    BY <1>3
  <2>2. /\ state \in Holding => proc[p] \in Holding
        /\ state # "booting"
        /\ state # "gone" => proc[p] # "gone"
    BY <1>4, <2>1 DEF Termed, Killed, Holding, States
  <2> QED  BY <1>3, <1>4, <2>2 DEF Sooner
<1>5. cmd[o].pc \in StopSteps =>
        /\ cmd[o].pid \in Pids
        /\ Termed(proc[cmd[o].pid]) \in States /\ Killed(proc[cmd[o].pid]) \in States
  BY <1>3, CommandAt, SignalType
<1>6. CASE StopTarget(o)
  <2>1. PICK found \in Probe :
          IF found = None THEN Stopped(o) ELSE Found(o, found)
    BY <1>6 DEF StopTarget
  <2>2. CASE Stopped(o)
    BY <1>1, <1>6, <2>2, StoppedWrites DEF StopTarget, At
  <2>3. CASE Found(o, found)
    BY <1>1, <1>6, <2>3, MovesWrite DEF StopTarget, Found, At
  <2> QED  BY <2>1, <2>2, <2>3
<1>7. CASE StopTerm(o)
  <2>1. Sooner
    BY <1>4, <1>5, <1>7 DEF StopTerm, Term, At, StopSteps
  <2>2. CASE Goto(o, "poll")
    BY <1>2, <1>7, <2>1, <2>2, MovesWrite DEF StopTerm, At
  <2>3. CASE Stopped(o)
    BY <1>2, <1>7, <2>1, <2>3, StoppedWrites DEF StopTerm, At
  <2> QED  BY <1>7, <2>2, <2>3 DEF StopTerm
<1>8. CASE StopPoll(o)
  <2>1. CASE Stopped(o)
    BY <1>1, <1>8, <2>1, StoppedWrites DEF StopPoll, At
  <2>2. CASE Done(o)
    BY <1>1, <1>8, <2>2, MovesWrite DEF StopPoll, At, Idle
  <2>3. CASE Goto(o, "kill")
    BY <1>1, <1>8, <2>3, MovesWrite DEF StopPoll, At
  <2> QED  BY <1>8, <2>1, <2>2, <2>3 DEF StopPoll
<1>9. CASE StopKill(o)
  <2>1. Sooner
    BY <1>4, <1>5, <1>9 DEF StopKill, At, StopSteps
  <2> QED  BY <1>2, <1>9, <2>1, StoppedWrites DEF StopKill, At
<1>10. CASE StopPersist(o)
  BY <1>1, <1>10, MovesWrite DEF StopPersist, At
<1> QED  BY <1>6, <1>7, <1>8, <1>9, <1>10

LEMMA OnwardWrites ==
  ASSUME CommandOK, NEW o \in Operators, Onward(o)
  PROVE  \E c : /\ Writes(o, c) /\ (c = Idle \/ c.verb = cmd[o].verb)
                /\ c.pc \in {"idle", "processes", "check"}
<1>1. CASE AfterUnlink(cmd[o].verb) = "idle"
  BY <1>1, MovesWrite DEF Onward, Idle
<1>2. CASE AfterUnlink(cmd[o].verb) # "idle"
  <2>1. AfterUnlink(cmd[o].verb) \in {"processes", "check"}
    BY <1>2 DEF AfterUnlink
  <2> QED  BY <1>2, <2>1, MovesWrite DEF Onward
<1> QED  BY <1>1, <1>2

LEMMA ResetKinds ==
  ASSUME TypeOK, NEW o \in Operators,
         \/ ResetDiscover(o) \/ ResetUnlink(o) \/ ResetProcesses(o)
         \/ ResetCheck(o) \/ ResetPurge(o) \/ ResetPurgeRest(o)
  PROVE  \E c : VerbStep(o, c)
<1> USE DEF TypeOK
<1>1. ASSUME NEW c, Writes(o, c), c = Idle \/ c.verb = cmd[o].verb, Unchanged,
             c.pc \in {"idle", "processes", "check", "unlink", "rmtree"},
             c.pc \in {"unlink", "rmtree"} => ~Alive(lock),
             cmd[o].pc \in {"discover", "processes", "check"}
      PROVE  VerbStep(o, c)
  BY <1>1 DEF VerbStep, LookStep, SweepSteps, PurgeSteps, StartSteps
<1>2. CASE ResetDiscover(o)
  <2>1. CASE StaleLock /\ Goto(o, "unlink")
    <3>1. ~Alive(lock)
      BY <2>1, NamesAssumption DEF StaleLock, Alive
    <3> QED  BY <1>1, <1>2, <2>1, <3>1, MovesWrite DEF ResetDiscover, At
  <2>2. CASE Onward(o)
    <3>1. PICK c : /\ Writes(o, c) /\ (c = Idle \/ c.verb = cmd[o].verb)
                   /\ c.pc \in {"idle", "processes", "check"}
      BY <2>2, OnwardWrites
    <3> QED  BY <1>1, <1>2, <3>1 DEF ResetDiscover, At
  <2> QED  BY <1>2, <2>1, <2>2 DEF ResetDiscover
<1>3. CASE ResetUnlink(o)
  <2>1. PICK c : /\ Writes(o, c) /\ (c = Idle \/ c.verb = cmd[o].verb)
                 /\ c.pc \in {"idle", "processes", "check"}
    BY <1>3, OnwardWrites DEF ResetUnlink
  <2>2. UnlinkStep(o, c)
    BY <1>3, <2>1 DEF ResetUnlink, At, UnlinkStep
  <2> QED  BY <2>1, <2>2 DEF VerbStep
<1>4. CASE ResetProcesses(o)
  <2>1. Writes(o, Idle)
    BY <1>4, MovesWrite DEF ResetProcesses
  <2> QED  BY <1>1, <1>4, <2>1 DEF ResetProcesses, At, Idle
<1>5. CASE ResetCheck(o)
  <2>1. CASE Done(o)
    <3>1. Writes(o, Idle)
      BY <2>1, MovesWrite
    <3> QED  BY <1>1, <1>5, <3>1 DEF ResetCheck, At, Idle
  <2>2. CASE ~Alive(lock) /\ Goto(o, "rmtree")
    <3>1. PICK c : Writes(o, c) /\ c.pc = "rmtree" /\ c.verb = cmd[o].verb
      BY <2>2, MovesWrite
    <3> QED  BY <1>1, <1>5, <2>2, <3>1 DEF ResetCheck, At
  <2> QED  BY <1>5, <2>1, <2>2 DEF ResetCheck
<1>6. CASE ResetPurge(o)
  <2>1. PICK c : /\ Writes(o, c) /\ (c = Idle \/ c.verb = cmd[o].verb)
                 /\ c.pc \in {"idle", "purge_status", "purge_lock"}
    BY <1>6, MovesWrite DEF ResetPurge, Idle
  <2>2. UnlinkStep(o, c)
    BY <1>6, <2>1 DEF ResetPurge, At, UnlinkStep, PurgeSteps
  <2> QED  BY <2>1, <2>2 DEF VerbStep
<1>7. CASE ResetPurgeRest(o)
  <2>1. Writes(o, Idle)
    BY <1>7, MovesWrite DEF ResetPurgeRest
  <2>2. UnlinkStep(o, Idle)
    BY <1>7 DEF ResetPurgeRest, At, UnlinkStep, PurgeSteps, Idle
  <2> QED  BY <2>1, <2>2 DEF VerbStep
<1> QED  BY <1>2, <1>3, <1>4, <1>5, <1>6, <1>7

LEMMA CycleKinds ==
  ASSUME TypeOK, NEW o \in Operators,
         CycleRemoveLock(o) \/ CycleTerm(o) \/ CycleKill(o) \/ CycleLaunch(o)
  PROVE  \E c : VerbStep(o, c)
<1> USE DEF TypeOK
<1>1. proc \in [Pids -> States]
  BY DEF ProcessOK
<1>2. \A p \in Pids : LET now == proc[p]
                      IN  /\ Termed(now) \in Holding => now \in Holding
                          /\ Termed(now) # "booting" /\ Killed(now) # "booting"
                          /\ Killed(now) \notin Holding
                          /\ Termed(now) # "gone" => now # "gone"
                          /\ Killed(now) # "gone" => now # "gone"
  BY <1>1 DEF Termed, Killed, Holding, States
<1>3. CASE CycleRemoveLock(o)
  <2>1. PICK c : Writes(o, c) /\ c.pc = "pkill" /\ c.verb = cmd[o].verb
    BY <1>3, MovesWrite DEF CycleRemoveLock
  <2>2. UnlinkStep(o, c)
    BY <1>3, <2>1 DEF CycleRemoveLock, At, UnlinkStep
  <2> QED  BY <2>1, <2>2 DEF VerbStep
<1>4. CASE CycleTerm(o)
  <2>1. PICK c : Writes(o, c) /\ c.pc = "pkill9" /\ c.verb = cmd[o].verb
    BY <1>4, MovesWrite DEF CycleTerm
  <2>2. Sooner
    BY <1>2, <1>4 DEF CycleTerm, Sooner
  <2>3. SignalStep(o, c)
    BY <1>4, <2>1, <2>2 DEF CycleTerm, At, SignalStep, PurgeSteps
  <2> QED  BY <2>1, <2>3 DEF VerbStep
<1>5. CASE CycleKill(o)
  <2>1. PICK c : Writes(o, c) /\ c.pc \in {"launch", "idle"}
                   /\ (c = Idle \/ c.verb = cmd[o].verb)
    BY <1>5, MovesWrite DEF CycleKill, Idle
  <2>2. Sooner /\ Active' = {}
    BY <1>2, <1>5 DEF CycleKill, Sooner, Active
  <2>3. SignalStep(o, c)
    BY <1>5, <2>1, <2>2 DEF CycleKill, At, SignalStep, PurgeSteps
  <2> QED  BY <2>1, <2>3 DEF VerbStep
<1>6. CASE CycleLaunch(o)
  <2>1. Writes(o, Idle)
    BY <1>6, MovesWrite DEF CycleLaunch
  <2>2. CASE \E p \in Fresh : proc' = [proc EXCEPT ![p] = "booting"]
    <3>1. SpawnStep(o, Idle)
      BY <1>6, <2>2 DEF CycleLaunch, At, SpawnStep, Idle
    <3> QED  BY <2>1, <3>1 DEF VerbStep
  <2>3. CASE UNCHANGED proc
    <3>1. LookStep(o, Idle)
      BY <1>6, <2>3 DEF CycleLaunch, At, LookStep, SweepSteps, PurgeSteps, StartSteps, Idle,
                        Unchanged, processVars
    <3> QED  BY <2>1, <3>1 DEF VerbStep
  <2> QED  BY <1>6, <2>2, <2>3 DEF CycleLaunch
<1> QED  BY <1>3, <1>4, <1>5, <1>6

\* All but the end of a wait, which is nobody's business.
LEMMA ContinueKinds ==
  ASSUME TypeOK, NEW o \in Operators, Continue(o) \/ StopPersist(o), ~StartEnds(o)
  PROVE  \E c : VerbStep(o, c)
BY StartKinds, StopKinds, ResetKinds, CycleKinds DEF Continue

FirstSteps == {"probe", "persist", "target", "discover", "rm_lock"}

LEMMA BeginWrites ==
  ASSUME CommandOK, NEW o \in Operators, Begin(o)
  PROVE  \E c : /\ Writes(o, c) /\ c.verb \in AllVerbs
                /\ c.pc \in FirstSteps
<1>1. PICK verb \in Verbs \ {"install", "uninstall"} :
        cmd' = [cmd EXCEPT ![o] = [verb |-> verb, pc |-> FirstStep(verb), pid |-> None]]
  BY DEF Begin
<1>2. FirstStep(verb) \in FirstSteps
  BY VerbsAssumption DEF FirstSteps, AllVerbs, FirstStep, StartVerbs, StopVerbs, RestartVerbs,
                         ResetVerbs, CycleVerbs
<1>3. Writes(o, [verb |-> verb, pc |-> FirstStep(verb), pid |-> None])
  BY <1>1 DEF Writes
<1> QED  BY <1>2, <1>3, VerbsAssumption

-----------------------------------------------------------------------------
(* Verbs one by one.                                                       *)
(*                                                                         *)
(* With reset and the cycle script, which remove supervisor.lock           *)
(* themselves, one supervisor is not kept by the lock alone.  It is kept   *)
(* if every verb, and the boot it causes, finishes before the next begins  *)
(* and launchd, which waits for nobody, is not involved.                   *)

Sequential == Serial /\ Verbs \intersect {"install", "uninstall"} = {}

\* One verb at a time, and none while a supervisor boots.
Alone   == \A o, q \in Operators : Busy(o) /\ Busy(q) => o = q
Settled == \A o \in Operators : Busy(o) => \A p \in Pids : proc[p] # "booting"

\* launchd has nothing to do with it.
NoAgent == agent = "out" /\ kept = {}

\* Between its rm of the lock and its pkill -9 the cycle script leaves a
\* supervisor without its lock.
Sweeping == \E o \in Operators : cmd[o].pc \in SweepSteps

\* What reset saw of the lock is still so when it unlinks.
Looked == \A o \in Operators : cmd[o].pc \in Removing => ~Alive(lock)

SerialInv ==
  /\ TypeOK
  /\ Alone /\ Settled /\ NoAgent
  /\ OneSupervisor
  /\ Sweeping \/ LockHeld
  /\ Looked

\* A step of a verb that is alone: afterwards it is still alone.
LEMMA AloneGoesOn ==
  ASSUME TypeOK, NEW o \in Operators, NEW c, Writes(o, c),
         \A q \in Operators : q # o => ~Busy(q)
  PROVE  /\ Alone'
         /\ Sweeping' <=> c.pc \in SweepSteps
         /\ \A q \in Operators : Busy(q)' <=> q = o /\ c.pc \notin {"idle", "attached"}
         /\ \A q \in Operators : Busy(q)' => cmd'[q] = c
<1>1. cmd'[o] = c /\ \A q \in Operators : q # o => cmd'[q] = cmd[q]
  BY OwnCommand DEF TypeOK
<1>2. \A q \in Operators : q # o => cmd'[q].pc \in {"idle", "attached"}
  BY <1>1 DEF Busy
<1> QED  BY <1>1, <1>2 DEF Alone, Sweeping, SweepSteps, Busy

LEMMA SerialInit == Init => SerialInv
BY TypeInit DEF Init, SerialInv, Alone, Settled, NoAgent, OneSupervisor, LockHeld,
                Looked, Removing, Busy, Idle, Active, Holding

LEMMA SerialProcess ==
  ASSUME SerialInv, NEW p \in Pids, Process(p), TypeOK'
  PROVE  SerialInv'
<1> USE DEF SerialInv
<1>1. UNCHANGED cmd
  BY DEF Process, Acquire, Refused, Wedge, Exit, Die
<1>2. NoAgent'
  BY DEF NoAgent, Process, Acquire, Refused, Wedge, Exit, Die, Ends, agentVars
<1>3. Alone' /\ (Sweeping' <=> Sweeping)
  BY <1>1 DEF Alone, Sweeping, Busy
<1>4. CASE Acquire(p)
  <2>1. \A o \in Operators : ~Busy(o)
    BY <1>4 DEF Settled, Acquire
  <2>2. ~Sweeping
    BY <2>1 DEF Sweeping, SweepSteps, Busy
  <2>3. LockHeld'
    BY <1>4, <2>2, ProcessKeepsLock
  <2>4. OneSupervisor'
    BY <2>3 DEF LockHeld, OneSupervisor
  <2>5. Settled' /\ Looked'
    BY <1>1, <2>1 DEF Settled, Looked, Removing, Busy
  <2> QED  BY <1>2, <1>3, <2>3, <2>4, <2>5
<1>5. CASE Refused(p) \/ Wedge(p) \/ Exit(p) \/ Die(p)
  <2>1. /\ \A q \in Pids : /\ proc'[q] \in Holding => proc[q] \in Holding
                           /\ proc'[q] = "booting" => proc[q] = "booting"
                           /\ proc'[q] # "gone" => proc[q] # "gone"
        /\ lock' \in {lock, None}
    BY <1>5 DEF TypeOK, ProcessOK, Refused, Wedge, Exit, Die, Ends, Holding
  <2>2. Settled'
    BY <1>1, <2>1 DEF Settled, Busy
  <2>3. Active' \subseteq Active
    BY <2>1 DEF Active
  <2>4. OneSupervisor'
    BY <2>3 DEF OneSupervisor
  <2>5. ~Sweeping => LockHeld'
    BY ProcessKeepsLock
  <2>6. Looked'
    BY <1>1, <2>1, NamesAssumption DEF Looked, Alive
  <2> QED  BY <1>2, <1>3, <2>2, <2>4, <2>5, <2>6
<1> QED  BY <1>4, <1>5 DEF Process

LEMMA SerialBegin ==
  ASSUME Sequential, SerialInv, NEW o \in Operators, Begin(o), TypeOK'
  PROVE  SerialInv'
<1> USE DEF SerialInv
<1>1. /\ UNCHANGED <<proc, lock, agent, kept>>
      /\ \A q \in Operators : ~Busy(q)
      /\ \A p \in Pids : proc[p] # "booting"
  BY DEF Begin, Unchanged, processVars, agentVars, MayBegin, Quiet, Sequential
<1>2. PICK c : /\ Writes(o, c)
               /\ c.pc \in FirstSteps
  BY BeginWrites DEF TypeOK
<1>3. /\ Alone' /\ ~Sweeping'
      /\ \A q \in Operators : Busy(q)' => cmd'[q] = c
  BY <1>1, <1>2, AloneGoesOn DEF FirstSteps, SweepSteps
<1>4. Looked'
  BY <1>2, <1>3 DEF Looked, Removing, FirstSteps, Busy
<1>5. Settled'
  BY <1>1 DEF Settled
<1>6. LockHeld' /\ OneSupervisor'
  <2>1. ~Sweeping
    BY <1>1 DEF Sweeping, Busy, SweepSteps
  <2> QED  BY <1>1, <2>1 DEF LockHeld, OneSupervisor, Active
<1>7. NoAgent'
  BY <1>1 DEF NoAgent
<1> QED  BY <1>3, <1>4, <1>5, <1>6, <1>7

LEMMA SerialContinue ==
  ASSUME SerialInv, NEW o \in Operators, NEW c, VerbStep(o, c), Busy(o), TypeOK'
  PROVE  SerialInv'
<1> USE DEF SerialInv
<1>1. \A q \in Operators : q # o => ~Busy(q)
  BY DEF Alone
<1>2. /\ Alone'
      /\ Sweeping' <=> c.pc \in SweepSteps
      /\ \A q \in Operators : Busy(q)' <=> q = o /\ c.pc \notin {"idle", "attached"}
      /\ \A q \in Operators : Busy(q)' => cmd'[q] = c
  BY <1>1, AloneGoesOn DEF VerbStep
<1>3. Sweeping <=> cmd[o].pc \in SweepSteps
  BY <1>1 DEF Sweeping, SweepSteps, Busy
<1>4. \A p \in Pids : proc[p] # "booting"
  BY DEF Settled
<1>5. CASE LookStep(o, c)
  <2>1. UNCHANGED <<proc, lock, agent, kept>>
    BY <1>5 DEF LookStep, Unchanged, processVars, agentVars
  <2>2. Settled' /\ NoAgent'
    BY <1>4, <2>1 DEF Settled, NoAgent
  <2>3. OneSupervisor' /\ LockHeld'
    BY <1>3, <1>5, <2>1 DEF LookStep, OneSupervisor, LockHeld, Active
  <2>4. Looked'
    BY <1>2, <1>5, <2>1 DEF LookStep, Looked, Removing, PurgeSteps, Busy, Alive
  <2> QED  BY <1>2, <2>2, <2>3, <2>4
<1>6. CASE SpawnStep(o, c)
  <2>2. PICK p \in Fresh : /\ proc' = [proc EXCEPT ![p] = "booting"]
                           /\ UNCHANGED <<lock, agent, kept>>
    BY <1>6 DEF SpawnStep, agentVars
  <2>3. c.pc \in {"idle", "attached"}
    BY <1>6 DEF SpawnStep
  <2>4. Settled' /\ Looked' /\ NoAgent'
    BY <1>2, <2>2, <2>3 DEF Settled, Looked, Removing, NoAgent, Busy
  <2>5. Active' \subseteq Active
    BY <2>2 DEF Active, Holding, TypeOK, ProcessOK
  <2>6. LockHeld
    BY <1>3, <1>6 DEF SpawnStep, SweepSteps
  <2>7. OneSupervisor' /\ LockHeld'
    BY <2>2, <2>5, <2>6 DEF OneSupervisor, LockHeld
  <2> QED  BY <1>2, <2>4, <2>7
<1>7. CASE SignalStep(o, c)
  <2>1. UNCHANGED <<lock, agent, kept>> /\ Sooner
    BY <1>7 DEF SignalStep, agentVars
  <2>2. Active' \subseteq Active
    BY <2>1 DEF Sooner, Active
  <2>3. Settled' /\ NoAgent'
    BY <1>4, <2>1 DEF Settled, NoAgent, Sooner
  <2>4. Looked'
    BY <1>2, <1>7 DEF SignalStep, Looked, Removing, Busy
  <2>5. OneSupervisor'
    BY <2>2 DEF OneSupervisor
  <2>6. Sweeping' \/ LockHeld'
    <3>1. CASE cmd[o].pc = "pkill"
      BY <1>2, <1>7, <3>1 DEF SignalStep, SweepSteps
    <3>2. CASE cmd[o].pc = "pkill9"
      BY <1>7, <3>2 DEF SignalStep, LockHeld
    <3>3. CASE ~Sweeping
      BY <2>1, <2>2, <3>3 DEF LockHeld
    <3> QED  BY <1>3, <3>1, <3>2, <3>3 DEF SweepSteps
  <2> QED  BY <1>2, <2>3, <2>4, <2>5, <2>6
<1>8. CASE UnlinkStep(o, c)
  <2>1. UNCHANGED <<proc, agent, kept>> /\ lock' \in {None, lock}
    BY <1>8 DEF UnlinkStep, agentVars
  <2>2. Settled' /\ NoAgent'
    BY <1>4, <2>1 DEF Settled, NoAgent
  <2>4. OneSupervisor'
    BY <2>1 DEF OneSupervisor, Active
  <2>5. CASE cmd[o].pc \in Removing
    <3>1. ~Alive(lock) /\ LockHeld
      BY <1>3, <2>5 DEF Looked, Removing, SweepSteps
    <3>2. Active = {}
      BY <3>1 DEF LockHeld, Active, Alive, Holding
    <3>3. Looked'
      BY <2>1, <3>1, NamesAssumption DEF Looked, Alive
    <3> QED  BY <1>2, <2>1, <2>2, <2>4, <3>2, <3>3 DEF LockHeld, Active
  <2>6. CASE c.pc = "pkill"
    <3>1. Looked'
      BY <1>2, <2>6 DEF Looked, Removing, Busy
    <3> QED  BY <1>2, <2>2, <2>4, <2>6, <3>1 DEF SweepSteps
  <2> QED  BY <1>8, <2>5, <2>6 DEF UnlinkStep, Removing, PurgeSteps
<1> QED  BY <1>5, <1>6, <1>7, <1>8 DEF VerbStep

\* A terminal that waited for its supervisor comes back.
LEMMA SerialEnds ==
  ASSUME SerialInv, NEW o \in Operators, StartEnds(o), TypeOK'
  PROVE  SerialInv'
<1> USE DEF SerialInv
<1>1. /\ UNCHANGED <<proc, lock, agent, kept>>
      /\ ~Busy(o) /\ Writes(o, Idle)
  BY MovesWrite DEF StartEnds, At, Busy, Unchanged, processVars, agentVars, TypeOK
<1>2. /\ cmd'[o] = Idle
      /\ \A q \in Operators : q # o => cmd'[q] = cmd[q]
  BY <1>1, OwnCommand DEF TypeOK
<1>3. \A q \in Operators : Busy(q)' => Busy(q) /\ cmd'[q] = cmd[q]
  BY <1>2 DEF Busy, Idle
<1>4. Alone' /\ Settled' /\ NoAgent' /\ OneSupervisor'
  BY <1>1, <1>3 DEF Alone, Settled, NoAgent, OneSupervisor, Active
<1>5. Sweeping => Sweeping'
  BY <1>1, <1>2 DEF Sweeping, SweepSteps, Busy
<1>6. LockHeld => LockHeld'
  BY <1>1 DEF LockHeld, Active
<1>7. Looked'
  BY <1>1, <1>3 DEF Looked, Removing, Busy, Alive
<1> QED  BY <1>4, <1>5, <1>6, <1>7

\* A verb that goes on is one that has begun.
LEMMA ContinueBusy ==
  ASSUME NEW o \in Operators, Continue(o) \/ StopPersist(o), ~StartEnds(o)
  PROVE  Busy(o)
BY DEF Continue, Busy, At, StartProbe, StartGate, StartRecheck, StartSpawn, LiveRun,
       StopTarget, StopPersist, StopTerm, StopPoll, StopKill, ResetDiscover, ResetUnlink,
       ResetProcesses, ResetCheck, ResetPurge, ResetPurgeRest,
       CycleRemoveLock, CycleTerm, CycleKill, CycleLaunch

\* The steps there are when launchd is not involved.
LEMMA SequentialSteps ==
  ASSUME Sequential, SerialInv, [Next]_vars
  PROVE  \/ \E p \in Pids : Process(p)
         \/ \E o \in Operators : Begin(o) \/ StartEnds(o)
         \/ \E o \in Operators : \E c : VerbStep(o, c) /\ Busy(o)
         \/ UNCHANGED vars
<1>1. ~Respawn
  BY DEF SerialInv, NoAgent, Respawn
<1>2. \A o \in Operators : ~Install(o) /\ ~Uninstall(o)
  BY DEF Sequential, Install, Uninstall
<1>3. \A o \in Operators : Continue(o) \/ StopPersist(o)
        => StartEnds(o) \/ \E c : VerbStep(o, c) /\ Busy(o)
  BY ContinueKinds, ContinueBusy DEF SerialInv
<1> QED  BY <1>1, <1>2, <1>3 DEF Next

LEMMA SerialStep ==
  ASSUME Sequential, SerialInv, [Next]_vars
  PROVE  SerialInv'
<1>1. TypeOK'
  BY TypeStep DEF SerialInv
<1>2. CASE UNCHANGED vars
  BY <1>1, <1>2 DEF vars, processVars, agentVars, SerialInv, Alone, Settled, NoAgent,
                    OneSupervisor, Sweeping, LockHeld, Looked, Busy, Active, Alive
<1> QED  BY <1>1, <1>2, SequentialSteps, SerialProcess, SerialBegin, SerialEnds,
            SerialContinue

THEOREM SerialInvariance == ASSUME Sequential PROVE Spec => []SerialInv
<1>1. SerialInv /\ [Next]_vars => SerialInv'
  BY SerialStep
<1> QED  BY <1>1, SerialInit, PTL DEF Spec

\* INV-005 for every verb but install and uninstall, when operators let each
\* finish before the next, flaky status or not: at most one supervisor is at
\* work, although reset and the cycle script take the lock away.
THEOREM OneSupervisorInTurn == ASSUME Sequential PROVE Spec => []OneSupervisor
BY SerialInvariance, PTL DEF SerialInv

-----------------------------------------------------------------------------
(* No duplicate spawn: start and restart look with pi-monitor status, which *)
(* must answer, and know a supervisor only by the pid it reports.           *)

\* The supervisor at work is the one pi-monitor status reports.
Known == \A p \in Active : status = p

\* While a verb other than the cycle script runs, every process there is, also
\* one already killed, is the one pi-monitor status reports, until reset --purge
\* has begun to delete.
Watched ==
  \A o \in Operators :
    Busy(o) /\ cmd[o].verb \notin CycleVerbs /\ cmd[o].pc \notin PurgeSteps
      => \A p \in Pids : Alive(p) => status = p

\* Past its first probe start knows that no process is left.
Clear == \A o \in Operators : cmd[o].pc \in StartSteps => \A p \in Pids : ~Alive(p)

CalmInv == SerialInv /\ Known /\ Watched /\ Clear

LEMMA CalmInit == Init => CalmInv
BY SerialInit DEF Init, CalmInv, Known, Watched, Clear, Busy, Idle, StartSteps,
                  Active, Holding

LEMMA CalmProcess ==
  ASSUME CalmInv, NEW p \in Pids, Process(p), SerialInv'
  PROVE  CalmInv'
<1> USE DEF CalmInv
<1>1. UNCHANGED cmd
  BY DEF Process, Acquire, Refused, Wedge, Exit, Die
<1>2. CASE Acquire(p)
  <2>1. \A o \in Operators : ~Busy(o)
    BY <1>2 DEF SerialInv, Settled, Acquire
  <2>2. LockHeld'
    BY <1>2, <2>1, ProcessKeepsLock DEF SerialInv, Sweeping, SweepSteps, Busy
  <2>3. Known'
    BY <1>2, <2>2 DEF Known, LockHeld, Acquire
  <2>4. Watched' /\ Clear'
    BY <1>1, <2>1 DEF Watched, Clear, StartSteps, Busy
  <2> QED  BY <2>3, <2>4
<1>3. CASE Refused(p) \/ Wedge(p) \/ Exit(p) \/ Die(p)
  <2>1. /\ \A q \in Pids : /\ proc'[q] \in Holding => proc[q] \in Holding
                           /\ proc'[q] # "gone" => proc[q] # "gone"
        /\ UNCHANGED status
    BY <1>3 DEF SerialInv, TypeOK, ProcessOK, Refused, Wedge, Exit, Die, Ends, Holding
  <2> QED  BY <1>1, <2>1 DEF Known, Watched, Clear, Busy, Alive, Active
<1> QED  BY <1>2, <1>3 DEF Process

LEMMA CalmBegin ==
  ASSUME CalmInv, NEW o \in Operators, Begin(o), Sequential, SerialInv'
  PROVE  CalmInv'
<1> USE DEF CalmInv
<1>1. /\ UNCHANGED <<proc, status>>
      /\ \A q \in Operators : ~Busy(q)
      /\ \A p \in Pids : proc[p] \notin {"booting", "stopping", "killed"}
  BY DEF Begin, Unchanged, processVars, MayBegin, Quiet, Sequential
<1>2. \A p \in Pids : Alive(p) => status = p
  BY <1>1 DEF Known, Active, Alive, Holding, SerialInv, TypeOK, ProcessOK, States
<1>3. Known' /\ Watched'
  BY <1>1, <1>2 DEF Known, Watched, Active, Alive
<1>4. PICK c : /\ Writes(o, c)
               /\ c.pc \in FirstSteps
  BY BeginWrites DEF SerialInv, TypeOK
<1>5. \A q \in Operators : Busy(q)' => cmd'[q] = c
  BY <1>1, <1>4, AloneGoesOn DEF SerialInv
<1>6. Clear'
  BY <1>4, <1>5 DEF Clear, StartSteps, FirstSteps, Busy
<1> QED  BY <1>3, <1>6

\* Only the cycle script is ever on one of its steps.
LEMMA CycleRoute ==
  ASSUME CommandOK, NEW o \in Operators,
         cmd[o].pc \in CycleSteps \union {"rm_lock"}
  PROVE  cmd[o].verb \in CycleVerbs
BY CommandAt, RouteOf DEF CycleSteps

LEMMA CalmContinue ==
  ASSUME CalmInv, NEW o \in Operators, NEW c, VerbStep(o, c), Busy(o),
         ~Flaky, SerialInv'
  PROVE  CalmInv'
<1> USE DEF CalmInv
<1>1. \A q \in Operators : q # o => ~Busy(q)
  BY DEF SerialInv, Alone
<1>2. /\ \A q \in Operators : Busy(q)' <=> q = o /\ c.pc \notin {"idle", "attached"}
      /\ \A q \in Operators : Busy(q)' => cmd'[q] = c
  BY <1>1, AloneGoesOn DEF VerbStep, SerialInv
<1>3. \A q \in Operators : Busy(q)' => q = o /\ cmd'[q] = c /\ c.pc # "idle"
  BY <1>2
<1>4. c = Idle \/ c.verb = cmd[o].verb
  BY DEF VerbStep
<1>5. c.pc # "idle" => c.verb = cmd[o].verb
  BY <1>4 DEF Idle
<1>6. CASE LookStep(o, c)
  <2>1. UNCHANGED <<proc, status>>
    BY <1>6 DEF LookStep, Unchanged, processVars
  <2>2. Known' /\ Watched'
    BY <1>3, <1>5, <1>6, <2>1 DEF LookStep, Known, Watched, Active, Alive
  <2>3. ASSUME c.pc \in StartSteps PROVE \A p \in Pids : ~Alive(p)
    <3>1. CASE cmd[o].pc \in StartSteps
      BY <3>1 DEF Clear
    <3>2. CASE ~Alive(status)
      <4>1. cmd[o].verb \notin CycleVerbs
        <5>1. c.verb = cmd[o].verb /\ cmd'[o] = c
          BY <1>5, <2>3, OwnCommand DEF VerbStep, SerialInv, TypeOK, StartSteps
        <5>2. c.verb \in AllVerbs \union {"none"} /\ c.pc \in Route(c.verb)
          BY <5>1, VerbsAssumption DEF SerialInv, TypeOK, CommandOK, Commands
        <5>3. c.verb \in CycleVerbs => c.pc \in {"rm_lock", "pkill", "pkill9", "launch"}
          BY <5>2, RouteOf DEF CycleVerbs, StartVerbs, StopVerbs, RestartVerbs, ResetVerbs
        <5> QED  BY <2>3, <5>1, <5>3 DEF StartSteps
      <4> QED  BY <1>6, <3>2, <4>1 DEF LookStep, Watched
    <3> QED  BY <1>6, <2>3, <3>1, <3>2 DEF LookStep
  <2>4. Clear'
    BY <1>2, <2>1, <2>3 DEF Clear, StartSteps, Busy, Alive
  <2> QED  BY <2>2, <2>4
<1>7. CASE SpawnStep(o, c)
  <2>2. PICK p \in Fresh : proc' = [proc EXCEPT ![p] = "booting"] /\ UNCHANGED status
    BY <1>7 DEF SpawnStep
  <2>3. c.pc \in {"idle", "attached"}
    BY <1>7 DEF SpawnStep
  <2>4. Known'
    BY <2>2 DEF Known, Active, Holding, SerialInv, TypeOK, ProcessOK
  <2>5. Watched' /\ Clear'
    BY <1>2, <2>3 DEF Watched, Clear, StartSteps, Busy
  <2> QED  BY <2>4, <2>5
<1>8. CASE SignalStep(o, c)
  <2>1. UNCHANGED status /\ Sooner
    BY <1>8 DEF SignalStep
  <2>2. Known' /\ Watched'
    BY <1>3, <1>5, <1>8, <2>1 DEF SignalStep, Known, Watched, Sooner, Active, Alive
  <2>3. Clear'
    BY <1>2, <1>8 DEF SignalStep, Clear, StartSteps, Busy
  <2> QED  BY <2>2, <2>3
<1>9. CASE UnlinkStep(o, c)
  <2>1. UNCHANGED proc
    BY <1>9 DEF UnlinkStep
  <2>2. Clear'
    BY <1>2, <1>9 DEF UnlinkStep, Clear, StartSteps, PurgeSteps, Busy
  <2>3. CASE cmd[o].pc \notin {"rmtree"} \union PurgeSteps
    <3>1. UNCHANGED status
      BY <1>9, <2>3 DEF UnlinkStep
    <3> QED  BY <1>3, <1>5, <2>1, <2>2, <2>3, <3>1 DEF Known, Watched, Active, Alive
  <2>4. CASE cmd[o].pc \in {"rmtree"} \union PurgeSteps
    <3>1. ~Alive(lock) /\ LockHeld
      BY <1>1, <2>4 DEF SerialInv, Looked, Removing, Sweeping, SweepSteps, PurgeSteps, Busy
    <3>2. Known'
      BY <2>1, <3>1 DEF Known, LockHeld, Active, Alive, Holding
    <3>3. c.pc \in {"idle"} \union PurgeSteps
      BY <1>9, <2>4 DEF UnlinkStep, PurgeSteps
    <3>4. Watched'
      BY <1>3, <3>3 DEF Watched
    <3> QED  BY <2>2, <3>2, <3>4
  <2> QED  BY <2>3, <2>4
<1> QED  BY <1>6, <1>7, <1>8, <1>9 DEF VerbStep

LEMMA CalmEnds ==
  ASSUME CalmInv, NEW o \in Operators, StartEnds(o), SerialInv'
  PROVE  CalmInv'
<1> USE DEF CalmInv
<1>1. UNCHANGED <<proc, status>> /\ Writes(o, Idle)
  BY MovesWrite DEF StartEnds, Unchanged, processVars, SerialInv, TypeOK
<1>2. cmd'[o] = Idle /\ \A q \in Operators : q # o => cmd'[q] = cmd[q]
  BY <1>1, OwnCommand DEF SerialInv, TypeOK
<1> QED  BY <1>1, <1>2 DEF Known, Watched, Clear, StartSteps, Busy, Idle, Active, Alive

LEMMA CalmStep ==
  ASSUME Sequential, ~Flaky, CalmInv, [Next]_vars
  PROVE  CalmInv'
<1>1. SerialInv'
  BY SerialStep DEF CalmInv
<1>2. CASE UNCHANGED vars
  BY <1>1, <1>2 DEF vars, processVars, CalmInv, Known, Watched, Clear, Busy, Active, Alive
<1> QED  BY <1>1, <1>2, SequentialSteps, CalmProcess, CalmBegin, CalmEnds, CalmContinue
         DEF CalmInv

\* What a spawn of start or restart is: with the processes known to be gone.
LEMMA SpawnsAlone ==
  ASSUME Sequential, CalmInv, [Next]_vars, NEW o \in Operators, Spawns(o)
  PROVE  \A p \in Pids : ~Alive(p)
<1> USE DEF CalmInv
<1>1. PICK p \in Pids : proc[p] = "gone" /\ proc'[p] = "booting"
  BY DEF Spawns
<1>2. cmd'[o] # cmd[o] /\ cmd[o].verb \in StartVerbs \union RestartVerbs
  BY DEF Spawns
<1>3. PICK q \in Operators : (\E c : VerbStep(q, c)) \/ Begin(q) \/ StartEnds(q)
  <2>1. CASE \E r \in Pids : Process(r)
    BY <1>2, <2>1 DEF Process, Acquire, Refused, Wedge, Exit, Die
  <2>2. CASE UNCHANGED vars
    BY <1>2, <2>2 DEF vars
  <2> QED  BY <2>1, <2>2, SequentialSteps
<1>4. ~Begin(q) /\ ~StartEnds(q)
  BY <1>1 DEF Begin, StartEnds, Unchanged, processVars
<1>5. PICK c : VerbStep(q, c)
  BY <1>3, <1>4
<1>6. q = o
  BY <1>2, <1>5, OwnCommand DEF VerbStep, SerialInv, TypeOK
<1>7. SpawnStep(o, c)
  <2>1. ~LookStep(o, c) /\ ~UnlinkStep(o, c)
    BY <1>1 DEF LookStep, UnlinkStep, Unchanged, processVars
  <2>2. ~SignalStep(o, c)
    BY <1>1 DEF SignalStep, Sooner
  <2> QED  BY <1>5, <1>6, <2>1, <2>2 DEF VerbStep
<1>8. cmd[o].pc # "launch"
  BY <1>2, CycleRoute DEF SerialInv, TypeOK, CycleSteps, CycleVerbs, StartVerbs,
                          RestartVerbs
<1> QED  BY <1>7, <1>8 DEF SpawnStep, Clear, StartSteps

\* "Both modes refuse to spawn a duplicate": one verb at a time and with a
\* status that always answers, start and restart spawn a supervisor only when no
\* process of an earlier one is left, not even one killed and not yet reaped.
THEOREM NoDuplicate == ASSUME Sequential, ~Flaky PROVE Spec => NoDuplicateSpawn
<1>1. CalmInv /\ [Next]_vars => CalmInv'
  BY CalmStep
<1>2. CalmInv /\ [Next]_vars
        => [\A o \in Operators : Spawns(o) => \A p \in Pids : ~Alive(p)]_vars
  BY SpawnsAlone
<1> QED  BY <1>1, <1>2, CalmInit, PTL DEF Spec, NoDuplicateSpawn

-----------------------------------------------------------------------------
(* reset takes the lock from no supervisor it could have seen at work.  What *)
(* reset saw was stale, so no supervisor at work held it then, and one that  *)
(* was at work then takes no lock any more: only a booting one does.         *)

WatchInv ==
  /\ TypeOK
  /\ \A o \in Operators : elders[o] \subseteq Active /\ lock \notin elders[o]

\* The lock goes, stays or is taken by a supervisor that was booting.
LEMMA LockMoves ==
  ASSUME TypeOK, [Next]_vars
  PROVE  lock' \in {None, lock} \/ (lock' \in Pids /\ proc[lock'] = "booting")
<1>1. CASE \E p \in Pids : Process(p)
  BY <1>1 DEF Process, Acquire, Refused, Wedge, Exit, Die
<1>2. CASE \E o \in Operators : Begin(o) \/ StartEnds(o)
  BY <1>2 DEF Begin, StartEnds, Unchanged, processVars
<1>3. CASE \E o \in Operators : (Continue(o) \/ StopPersist(o)) /\ ~StartEnds(o)
  <2>1. PICK o \in Operators : \E c : VerbStep(o, c)
    BY <1>3, ContinueKinds
  <2> QED  BY <2>1 DEF VerbStep, LookStep, SpawnStep, SignalStep, UnlinkStep, Unchanged,
                       processVars
<1>4. CASE Respawn \/ \E o \in Operators : Install(o) \/ Uninstall(o)
  BY <1>4 DEF Respawn, Install, Uninstall
<1>5. CASE UNCHANGED vars
  BY <1>5 DEF vars, processVars
<1> QED  BY <1>1, <1>2, <1>3, <1>4, <1>5 DEF Next

\* Going on from a look to a removal, reset has seen a lock nobody at work holds.
LEMMA LooksFirst ==
  ASSUME TypeOK, [Next]_vars, NEW o \in Operators,
         cmd[o].pc \in {"discover", "check"}, cmd'[o].pc \in Removing
  PROVE  Unchanged /\ ~Alive(lock)
<1>1. \E q \in Operators : (Continue(q) \/ StopPersist(q)) /\ ~StartEnds(q)
  <2>1. cmd' # cmd
    BY DEF Removing
  <2>2. ASSUME NEW q \in Operators, NEW c, Writes(q, c), c.pc \notin Removing
        PROVE  FALSE
    BY <2>2, OwnCommand DEF TypeOK, Removing
  <2>3. \A q \in Operators : ~Begin(q)
    BY <2>2, BeginWrites DEF TypeOK, FirstSteps, Removing
  <2>4. \A q \in Operators : ~StartEnds(q)
    BY <2>2, MovesWrite DEF TypeOK, StartEnds, Idle, Removing
  <2>5. \A p \in Pids : ~Process(p)
    BY <2>1 DEF Process, Acquire, Refused, Wedge, Exit, Die
  <2>6. ~Respawn /\ \A q \in Operators : ~Install(q) /\ ~Uninstall(q)
    BY <2>1 DEF Respawn, Install, Uninstall
  <2> QED  BY <2>1, <2>3, <2>4, <2>5, <2>6 DEF Next, vars
<1>2. PICK q \in Operators : \E c : VerbStep(q, c)
  BY <1>1, ContinueKinds
<1>3. PICK c : VerbStep(q, c)
  BY <1>2
<1>4. q = o /\ c = cmd'[o]
  BY <1>3, OwnCommand DEF VerbStep, TypeOK, Removing
<1>5. ~SpawnStep(o, c) /\ ~SignalStep(o, c) /\ ~UnlinkStep(o, c)
  BY <1>4 DEF SpawnStep, SignalStep, UnlinkStep, Removing, PurgeSteps
<1> QED  BY <1>3, <1>4, <1>5 DEF VerbStep, LookStep, Removing, PurgeSteps

LEMMA WatchStep ==
  ASSUME WatchInv, [MCNext]_watchVars
  PROVE  WatchInv'
<1>1. [Next]_vars
  BY DEF MCNext, watchVars
<1>2. TypeOK'
  BY <1>1, TypeStep DEF WatchInv
<1>3. lock' \in {None, lock} \/ (lock' \in Pids /\ proc[lock'] = "booting")
  BY <1>1, LockMoves DEF WatchInv
<1>4. CASE UNCHANGED watchVars
  BY <1>2, <1>4 DEF WatchInv, watchVars, vars, processVars, Active
<1>5. ASSUME MCNext, NEW o \in Operators
      PROVE  elders'[o] \subseteq Active' /\ lock' \notin elders'[o]
  <2>1. elders'[o] = Elders(o)
    BY <1>5 DEF MCNext
  <2>2. CASE cmd'[o].pc \notin Removing
    BY <2>1, <2>2 DEF Elders
  <2>3. CASE cmd'[o].pc \in Removing /\ cmd[o].pc \in {"discover", "check"}
    <3>1. elders'[o] = Active
      BY <2>1, <2>3 DEF Elders
    <3>2. UNCHANGED <<proc, lock>> /\ ~Alive(lock)
      BY <1>1, <2>3, LooksFirst DEF WatchInv, Unchanged, processVars
    <3> QED  BY <3>1, <3>2 DEF Active, Alive, Holding
  <2>4. CASE cmd'[o].pc \in Removing /\ cmd[o].pc \notin {"discover", "check"}
    <3>1. elders'[o] = {p \in elders[o] : proc'[p] \in Holding}
      BY <2>1, <2>4 DEF Elders
    <3>2. elders'[o] \subseteq Active'
      BY <3>1 DEF WatchInv, Active
    <3>3. lock' \notin elders[o]
      BY <1>3, NamesAssumption DEF WatchInv, Active, Holding
    <3> QED  BY <3>1, <3>2, <3>3
  <2> QED  BY <2>2, <2>3, <2>4
<1> QED  BY <1>2, <1>4, <1>5 DEF WatchInv

\* INV-005 for reset, whatever operators, launchd and processes do meanwhile: it
\* takes the lock from no supervisor that was at work when it last looked and has
\* been ever since.
THEOREM ResetSparesTheSettled == MCSpec => SparesTheSettled
<1>1. MCInit => WatchInv
  BY TypeInit DEF MCInit, WatchInv
<1>2. WatchInv /\ [MCNext]_watchVars => WatchInv'
  BY WatchStep
<1>3. WatchInv => [\A o \in Operators :
                     cmd[o].pc \in Removing /\ cmd'[o] # cmd[o] /\ lock' # lock
                       => lock \notin elders[o]]_watchVars
  BY DEF WatchInv
<1> QED  BY <1>1, <1>2, <1>3, PTL DEF MCSpec, SparesTheSettled
=============================================================================
