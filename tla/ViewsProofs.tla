----------------------------- MODULE ViewsProofs -----------------------------
(***************************************************************************)
(* Proofs about what goes on beside the supervisor: LaunchAgent, Health,    *)
(* StatusHeadline and Registration, and their composition MCViews, for      *)
(* every value of their constants.                                          *)
(***************************************************************************)
EXTENDS MCViews, TLAPS

-----------------------------------------------------------------------------
(* LaunchAgent.  While no two commands were under way at once, a plist that  *)
(* is about to be written is not there yet, and an agent whose plist is      *)
(* about to be removed has gone.                                            *)

OneAtATime ==
  /\ \A o, q \in Operators : task[o].pc # "idle" /\ task[q].pc # "idle" => o = q
  /\ loaded # None => plist = loaded
  /\ \A o \in Operators :
       /\ At(o, "write") => plist = None
       /\ At(o, "unlink") => loaded = None

AgentInv == AgentTypeOK /\ (~overlapped => OneAtATime)

LEMMA AgentInitial == AgentInit => AgentInv
<1> SUFFICES ASSUME AgentInit PROVE AgentInv
  OBVIOUS
<1> USE DEF AgentInit
<1>1. Resting \in Task /\ Resting.pc = "idle"
  BY DEF Resting, Task, Steps, Exits
<1>2. \A o \in Operators : task[o].pc = "idle"
  BY <1>1
<1>3. 1 \in Editions /\ runs \in 0..MaxRuns
  BY AgentAssumption DEF Editions
<1>4. AgentTypeOK
  BY <1>1, <1>2, <1>3 DEF AgentTypeOK
<1> QED  BY <1>2, <1>4 DEF AgentInv, OneAtATime, At

\* What each step of a command does to the others' commands: nothing.
LEMMA TaskStep ==
  ASSUME NEW o \in Operators, NEW t \in Task, task \in [Operators -> Task],
         task' = [task EXCEPT ![o] = t]
  PROVE  /\ task' \in [Operators -> Task]
         /\ task'[o] = t
         /\ \A q \in Operators \ {o} : task'[q] = task[q]
  OBVIOUS

LEMMA ExitStep ==
  ASSUME NEW o \in Operators, NEW code \in Exits, task \in [Operators -> Task], Exit(o, code)
  PROVE  /\ task' \in [Operators -> Task]
         /\ task'[o].pc = "idle"
         /\ \A q \in Operators \ {o} : task'[q] = task[q]
<1>1. [Resting EXCEPT !.exit = code] \in Task
  BY DEF Resting, Task, Steps
<1>2. [Resting EXCEPT !.exit = code].pc = "idle"
  BY DEF Resting
<1> QED  BY <1>1, <1>2, TaskStep DEF Exit

LEMMA GoStep ==
  ASSUME NEW o \in Operators, NEW step \in Steps, task \in [Operators -> Task], Go(o, step)
  PROVE  /\ task' \in [Operators -> Task]
         /\ task'[o].pc = step /\ task'[o].rendered = task[o].rendered
         /\ \A q \in Operators \ {o} : task'[q] = task[q]
<1>1. [task[o] EXCEPT !.pc = step] \in Task
  BY DEF Task
<1>2. task' = [task EXCEPT ![o] = [task[o] EXCEPT !.pc = step]]
  BY DEF Go
<1>3. /\ [task[o] EXCEPT !.pc = step].pc = step
      /\ [task[o] EXCEPT !.pc = step].rendered = task[o].rendered
  BY DEF Task
<1> QED  BY <1>1, <1>2, <1>3, TaskStep

\* A command begins.
LEMMA AskedKeeps ==
  ASSUME AgentInv, NEW o \in Operators, Install(o) \/ Uninstall(o)
  PROVE  AgentInv'
<1> USE DEF AgentInv, AgentTypeOK
<1>1. \E t \in Task :
        /\ task' = [task EXCEPT ![o] = t]
        /\ t.pc \in {"idle", "compare", "look"}
        /\ t.pc = "compare" => t.rendered \in Editions
  <2>1. CASE Install(o) /\ ~ready
    <3>1. [Resting EXCEPT !.exit = "refused"] \in Task /\ [Resting EXCEPT !.exit = "refused"].pc = "idle"
      BY DEF Task, Steps, Exits, Resting
    <3> QED  BY <2>1, <3>1 DEF Install, Exit
  <2>2. CASE Install(o) /\ ready
    <3>1. PICK dry \in BOOLEAN :
            task' = [task EXCEPT ![o] = [pc |-> "compare", dry |-> dry, rendered |-> edition, exit |-> "none"]]
      BY <2>2 DEF Install
    <3>2. [pc |-> "compare", dry |-> dry, rendered |-> edition, exit |-> "none"] \in Task
      BY DEF Task, Steps, Exits
    <3> QED  BY <3>1, <3>2
  <2>3. CASE Uninstall(o)
    <3>1. PICK dry \in BOOLEAN : task' = [task EXCEPT ![o] = [Resting EXCEPT !.pc = "look", !.dry = dry]]
      BY <2>3 DEF Uninstall
    <3>2. /\ [Resting EXCEPT !.pc = "look", !.dry = dry] \in Task
          /\ [Resting EXCEPT !.pc = "look", !.dry = dry].pc = "look"
      BY DEF Task, Steps, Exits, Resting
    <3> QED  BY <3>1, <3>2
  <2> QED  BY <2>1, <2>2, <2>3
<1>2. PICK t \in Task :
        /\ task' = [task EXCEPT ![o] = t]
        /\ t.pc \in {"idle", "compare", "look"}
        /\ t.pc = "compare" => t.rendered \in Editions
  BY <1>1
<1>3. /\ task' \in [Operators -> Task] /\ task'[o] = t
      /\ \A q \in Operators \ {o} : task'[q] = task[q]
  BY <1>2, TaskStep
<1>4. /\ UNCHANGED <<machineVars, plist, loaded>>
      /\ runs' \in 0..MaxRuns /\ overlapped' = (overlapped \/ Busy # {})
  <2>1. UNCHANGED <<machineVars, plist, loaded>> /\ Asked
    BY DEF Install, Uninstall
  <2> QED  BY <2>1, AgentAssumption DEF Asked
<1>5. AgentTypeOK'
  BY <1>2, <1>3, <1>4 DEF machineVars, Busy
<1>6. ASSUME ~overlapped' PROVE OneAtATime'
  <2>1. ~overlapped /\ \A q \in Operators : task[q].pc = "idle"
    BY <1>6, <1>4 DEF Busy
  <2> QED  BY <2>1, <1>2, <1>3, <1>4 DEF OneAtATime, At, machineVars
<1> QED  BY <1>5, <1>6

\* A step of a command that is under way.
LEMMA CommandKeeps ==
  ASSUME AgentInv, NEW o \in Operators,
         Compare(o) \/ Write(o) \/ Bootstrap(o) \/ Look(o) \/ Bootout(o) \/ Unlink(o)
  PROVE  AgentInv'
<1> USE DEF AgentInv, AgentTypeOK, machineVars
<1>0. /\ UNCHANGED <<launchctl, edition, ready, runs, overlapped>>
      /\ task[o].pc # "idle"
  BY DEF Compare, Write, Bootstrap, Look, Bootout, Unlink, At
<1>1. /\ task' \in [Operators -> Task]
      /\ \A q \in Operators \ {o} : task'[q] = task[q]
      /\ task'[o].pc \in {"compare", "write", "bootstrap"} => task'[o].rendered \in Editions
      /\ task'[o].pc \in {"bootstrap", "bootout"} => launchctl
  <2>1. \/ \E c \in Exits : Exit(o, c)
        \/ \E s \in Steps :
             /\ Go(o, s)
             /\ s \in {"compare", "write", "bootstrap"} => task[o].rendered \in Editions
             /\ s \in {"bootstrap", "bootout"} => launchctl
    <3>1. CASE Compare(o)  BY <3>1 DEF Compare, Exits, Steps, At
    <3>2. CASE Write(o)  BY <3>2 DEF Write, Exits, Steps, At
    <3>3. CASE Bootstrap(o)  BY <3>3 DEF Bootstrap, Exits
    <3>4. CASE Look(o)  BY <3>4 DEF Look, Exits, Steps
    <3>5. CASE Bootout(o)  BY <3>5 DEF Bootout, Exits, Steps
    <3>6. CASE Unlink(o)  BY <3>6 DEF Unlink, Exits
    <3> QED  BY <3>1, <3>2, <3>3, <3>4, <3>5, <3>6
  <2>2. CASE \E c \in Exits : Exit(o, c)
    BY <2>2, ExitStep
  <2>3. CASE \E s \in Steps :
               /\ Go(o, s)
               /\ s \in {"compare", "write", "bootstrap"} => task[o].rendered \in Editions
               /\ s \in {"bootstrap", "bootout"} => launchctl
    BY <2>3, GoStep
  <2> QED  BY <2>1, <2>2, <2>3
<1>2. AgentTypeOK'
  <2>1. plist' \in Editions \union {None, Half}
    BY DEF Compare, Write, Bootstrap, Look, Bootout, Unlink, At
  <2>2. loaded' \in Editions \union {None} /\ (~launchctl => loaded' = None)
    BY DEF Compare, Write, Bootstrap, Look, Bootout, Unlink, At
  <2> QED  BY <1>0, <1>1, <2>1, <2>2
<1>3. ASSUME ~overlapped' PROVE OneAtATime'
  <2>1. OneAtATime
    BY <1>0, <1>3
  <2>2. \A q \in Operators \ {o} : task'[q].pc = "idle"
    BY <2>1, <1>0, <1>1 DEF OneAtATime
  <2>3. loaded' # None => plist' = loaded'
    <3>1. CASE Write(o)
      BY <3>1, <2>1 DEF Write, OneAtATime
    <3>2. CASE Unlink(o)
      BY <3>2, <2>1 DEF Unlink, OneAtATime
    <3> QED  BY <3>1, <3>2, <2>1 DEF Compare, Bootstrap, Look, Bootout, OneAtATime
  <2>4. task'[o].pc = "write" => plist' = None
    <3>1. CASE Compare(o)
      <4>1. CASE plist \notin {task[o].rendered, None} \/ plist = task[o].rendered \/ task[o].dry
        BY <4>1, <3>1, ExitStep DEF Compare, Exits
      <4>2. CASE plist = None
        BY <4>2, <3>1 DEF Compare
      <4> QED  BY <4>1, <4>2
    <3>2. CASE Write(o)
      BY <3>2, ExitStep, GoStep DEF Write, Exits, Steps
    <3>3. CASE Bootstrap(o)
      BY <3>3, ExitStep DEF Bootstrap, Exits
    <3>4. CASE Look(o)
      BY <3>4, ExitStep, GoStep DEF Look, Exits, Steps
    <3>5. CASE Bootout(o)
      BY <3>5, ExitStep, GoStep DEF Bootout, Exits, Steps
    <3>6. CASE Unlink(o)
      BY <3>6, ExitStep DEF Unlink, Exits
    <3> QED  BY <3>1, <3>2, <3>3, <3>4, <3>5, <3>6
  <2>5. task'[o].pc = "unlink" => loaded' = None
    <3>1. CASE Compare(o)
      BY <3>1, ExitStep, GoStep DEF Compare, Exits, Steps
    <3>2. CASE Write(o)
      BY <3>2, ExitStep, GoStep DEF Write, Exits, Steps
    <3>3. CASE Bootstrap(o)
      BY <3>3, ExitStep DEF Bootstrap, Exits
    <3>4. CASE Look(o)
      BY <3>4, ExitStep, GoStep DEF Look, Exits, Steps
    <3>5. CASE Bootout(o)
      BY <3>5, ExitStep, GoStep DEF Bootout, Exits, Steps
    <3>6. CASE Unlink(o)
      BY <3>6, ExitStep DEF Unlink, Exits
    <3> QED  BY <3>1, <3>2, <3>3, <3>4, <3>5, <3>6
  <2> QED  BY <2>2, <2>3, <2>4, <2>5 DEF OneAtATime, At
<1> QED  BY <1>2, <1>3

LEMMA KilledKeeps == ASSUME AgentInv, NEW o \in Operators, Killed(o) PROVE AgentInv'
<1> USE DEF AgentInv, AgentTypeOK, machineVars
<1>1. /\ task' \in [Operators -> Task] /\ task'[o].pc = "idle"
      /\ \A q \in Operators \ {o} : task'[q] = task[q]
  BY ExitStep DEF Killed, Exits
<1>2. /\ UNCHANGED <<machineVars, loaded, overlapped>> /\ runs' \in 0..MaxRuns
      /\ plist' = plist \/ (At(o, "write") /\ plist' = Half)
  <2>1. UNCHANGED <<machineVars, loaded>> /\ Accident
    BY DEF Killed
  <2>2. plist' = plist \/ (At(o, "write") /\ plist' = Half)
    BY DEF Killed
  <2> QED  BY <2>1, <2>2, AgentAssumption DEF Accident
<1>3. AgentTypeOK'
  BY <1>1, <1>2
<1>4. ASSUME ~overlapped' PROVE OneAtATime'
  <2>1. OneAtATime /\ task[o].pc # "idle"
    BY <1>4, <1>2 DEF Killed, Busy
  <2> QED  BY <2>1, <1>1, <1>2 DEF OneAtATime, At
<1> QED  BY <1>3, <1>4

LEMMA AgentWorldKeeps == ASSUME AgentInv, Edit \/ LogOutAndIn PROVE AgentInv'
<1> USE DEF AgentInv, AgentTypeOK, machineVars
<1>1. /\ UNCHANGED <<launchctl, plist, task, overlapped>> /\ runs' \in 0..MaxRuns
      /\ edition' \in Editions /\ ready' \in BOOLEAN
  <2>1. Accident /\ UNCHANGED <<launchctl, plist, task>> /\ edition' \in Editions /\ ready' \in BOOLEAN
    <3>1. CASE Edit
      <4>1. edition < MaxEdition => edition + 1 \in Editions
        BY AgentAssumption DEF Editions
      <4> QED  BY <3>1, <4>1 DEF Edit
    <3>2. CASE LogOutAndIn
      BY <3>2 DEF LogOutAndIn
    <3> QED  BY <3>1, <3>2
  <2> QED  BY <2>1, AgentAssumption DEF Accident
<1>2. \/ loaded' = loaded
      \/ /\ launchctl /\ Busy = {}
         /\ loaded' = IF plist \in Editions THEN plist ELSE None
  BY DEF Edit, LogOutAndIn
<1>3. AgentTypeOK'
  BY <1>1, <1>2
<1>4. ASSUME ~overlapped' PROVE OneAtATime'
  <2>1. OneAtATime
    BY <1>4, <1>1
  <2> QED  BY <2>1, <1>1, <1>2 DEF OneAtATime, At, Busy
<1> QED  BY <1>3, <1>4

LEMMA AgentStep == AgentInv /\ [AgentNext]_agentVars => AgentInv'
<1> SUFFICES ASSUME AgentInv, [AgentNext]_agentVars PROVE AgentInv'
  OBVIOUS
<1>1. CASE AgentNext
  BY <1>1, AskedKeeps, CommandKeeps, KilledKeeps, AgentWorldKeeps DEF AgentNext
<1>2. CASE UNCHANGED agentVars
  BY <1>2 DEF AgentInv, AgentTypeOK, OneAtATime, agentVars, machineVars, At
<1> QED  BY <1>1, <1>2

LEMMA AgentInvariant == AgentSpec => []AgentInv
  BY AgentInitial, AgentStep, PTL DEF AgentSpec

\* For any number of operators, editions, kills and failures of launchctl: while
\* no two commands overlapped, what launchd has loaded is the plist on disk.
THEOREM AgentIsOnDisk == AgentSpec => []NoOrphanAgent
<1>1. AgentInv => NoOrphanAgent
  BY DEF AgentInv, OneAtATime, NoOrphanAgent
<1> QED  BY <1>1, AgentInvariant, PTL

-----------------------------------------------------------------------------
(* Health.  No receipt names a commit that is later than HEAD, and the one    *)
(* on disk, unless it was damaged, none that is earlier than the one read.   *)

ReceiptsLag ==
  /\ receipt.commit <= head /\ recorded <= head
  /\ at = 5 /\ receipt.commit # 0 => recorded <= receipt.commit

HealthInv == HealthTypeOK /\ ReceiptsLag

LEMMA HealthInitial == HealthInit => HealthInv
<1> SUFFICES ASSUME HealthInit PROVE HealthInv
  OBVIOUS
<1>1. Naming(0) \in Receipts /\ Naming(0).commit = 0
  BY DEF Naming, Receipts
<1> QED  BY <1>1, HealthBoundsAssumption
         DEF HealthInit, HealthInv, HealthTypeOK, ReceiptsLag, Gates, Programs, Roadmaps, Gits

LEMMA HostKeeps == ASSUME HealthInv, Upset \/ Commit \/ FirstRun PROVE HealthInv'
<1> USE DEF HealthInv, HealthTypeOK, ReceiptsLag
<1>1. UNCHANGED runVars
  BY DEF Upset, Commit, FirstRun
<1>2. /\ gate' \in Gates /\ tool' \in Tools /\ program' \in Programs /\ roadmap' \in Roadmaps
      /\ git' \in Gits /\ alive' \in BOOLEAN
  <2>1. CASE Upset  BY <2>1, Zenon DEF Upset
  <2>2. CASE Commit  BY <2>2 DEF Commit
  <2>3. CASE FirstRun  BY <2>3 DEF FirstRun
  <2> QED  BY <2>1, <2>2, <2>3
<1>3. upsets' \in 0..MaxUpsets
  BY HealthBoundsAssumption DEF Upset, Commit, FirstRun
<1>4. /\ head' \in 0..MaxHead /\ head <= head'
      /\ receipt' \in Receipts /\ receipt'.commit <= head'
      /\ receipt'.commit = 0 \/ receipt'.commit = receipt.commit \/ receipt'.commit = head
  <2>1. \A r \in BadReceipts \union {Naming(0)} : r \in Receipts /\ r.commit = 0
    BY DEF BadReceipts, Naming, Receipts
  <2>2. Naming(head) \in Receipts /\ Naming(head).commit = head
    BY HealthBoundsAssumption DEF Naming, Receipts
  <2>3. CASE Upset
    <3>1. head' = head /\ (receipt' = receipt \/ receipt' \in BadReceipts \union {Naming(0)})
      BY <2>3 DEF Upset
    <3> QED  BY <2>1, <3>1, HealthBoundsAssumption
  <2>4. CASE Commit
    <3>1. receipt.commit \in Nat
      BY DEF Receipts
    <3> QED  BY <2>4, <3>1, HealthBoundsAssumption DEF Commit
  <2>5. CASE FirstRun
    BY <2>2, <2>5, HealthBoundsAssumption DEF FirstRun
  <2> QED  BY <2>3, <2>4, <2>5
<1>5. HealthTypeOK'
  BY <1>1, <1>2, <1>3, <1>4 DEF runVars
<1>6. ReceiptsLag'
  BY <1>1, <1>4, HealthBoundsAssumption DEF runVars
<1> QED  BY <1>5, <1>6

LEMMA CheckKeeps ==
  ASSUME HealthInv, Begin \/ HermeticGate \/ LivePreflight \/ ReviewGate
                    \/ ReadReceipt \/ CompareHead \/ SupervisorAlive
  PROVE  HealthInv'
<1> USE DEF HealthInv, HealthTypeOK, ReceiptsLag
<1>1. UNCHANGED outsideVars
  BY DEF Begin, HermeticGate, LivePreflight, ReviewGate, ReadReceipt, CompareHead, SupervisorAlive,
         Report, Abort
<1>2. receipt.commit \in Nat /\ head \in Nat /\ recorded \in Nat
  BY HealthBoundsAssumption DEF Receipts
<1>3. \/ at \in {1, 2, 3, 5} /\ UNCHANGED recorded /\ (\E ok \in BOOLEAN : Report(ok))
      \/ Abort \/ Begin \/ ReadReceipt \/ SupervisorAlive
  <2>1. CASE HermeticGate  BY <2>1 DEF HermeticGate
  <2>2. CASE LivePreflight  BY <2>2 DEF LivePreflight
  <2>3. CASE ReviewGate  BY <2>3 DEF ReviewGate
  <2>4. CASE CompareHead  BY <2>4, Zenon DEF CompareHead
  <2> QED  BY <2>1, <2>2, <2>3, <2>4
<1>4. ASSUME NEW ok \in BOOLEAN, checks' = Append(checks, ok)
      PROVE  checks' \in Seq(BOOLEAN) /\ Len(checks') = Len(checks) + 1
  BY <1>4
<1> DEFINE Went ==
      /\ checks' \in Seq(BOOLEAN) /\ at' \in 0..6 /\ ending' \in {"none", "reported", "raised"}
      /\ at' > 0 => ending' = "none"
      /\ at' \in 1..4 => Len(checks') = at' - 1
      /\ at' = 5 => Len(checks') = 3
      /\ at' = 6 => Len(checks') = 4
      /\ recorded' \in {recorded, 0, receipt.commit}
      /\ at' = 5 => recorded' = receipt.commit
<1>10. ASSUME Went PROVE HealthInv'
  <2>1. recorded' \in 0..MaxHead /\ recorded' <= head
    <3>1. receipt.commit \in 0..MaxHead /\ 0 \in 0..MaxHead
      BY <1>2, HealthBoundsAssumption
    <3> QED  BY <1>10, <1>2, <3>1
  <2>2. HealthTypeOK'
    BY <1>1, <1>10, <2>1 DEF outsideVars
  <2>3. ReceiptsLag'
    <3>1. receipt' = receipt /\ head' = head
      BY <1>1 DEF outsideVars
    <3> QED  BY <1>2, <1>10, <2>1, <3>1
  <2> QED  BY <2>2, <2>3
<1>5. CASE at \in {1, 2, 3, 5} /\ UNCHANGED recorded /\ (\E ok \in BOOLEAN : Report(ok))
  <2>1. PICK ok \in BOOLEAN : Report(ok)
    BY <1>5
  <2>2. at' = at + 1 /\ checks' = Append(checks, ok) /\ ending' = ending
    BY <2>1 DEF Report
  <2>3. checks' \in Seq(BOOLEAN) /\ Len(checks') = Len(checks) + 1
    BY <1>4, <2>2
  <2>4. Went
    BY <1>5, <2>2, <2>3
  <2> QED  BY <1>10, <2>4
<1>6. CASE Abort
  BY <1>1, <1>2, <1>6 DEF Abort, outsideVars
<1>7. CASE Begin
  BY <1>1, <1>2, <1>7, HealthBoundsAssumption DEF Begin, outsideVars
<1>8. CASE ReadReceipt
  <2>1. CASE Abort
    BY <1>6, <2>1
  <2>2. CASE checks' = Append(checks, FALSE) /\ at' = 6 /\ UNCHANGED <<recorded, ending>>
    <3>1. checks' \in Seq(BOOLEAN) /\ Len(checks') = Len(checks) + 1
      BY <1>4, <2>2
    <3>2. at = 4 /\ Len(checks') = 4 /\ ending' = "none"
      <4>1. at = 4
        BY <1>8 DEF ReadReceipt
      <4>2. Len(checks) = 3 /\ ending = "none"
        BY <4>1
      <4> QED  BY <2>2, <3>1, <4>1, <4>2
    <3>3. Went
      BY <2>2, <3>1, <3>2
    <3> QED  BY <1>10, <3>3
  <2>3. CASE recorded' = receipt.commit /\ at' = 5 /\ UNCHANGED <<checks, ending>>
    <3>1. Went
      BY <1>8, <2>3 DEF ReadReceipt
    <3> QED  BY <1>10, <3>1
  <2> QED  BY <1>8, <2>1, <2>2, <2>3 DEF ReadReceipt
<1>9. CASE SupervisorAlive
  <2>1. at' = 0 /\ checks' = Append(checks, alive) /\ ending' = "reported" /\ recorded' = recorded
    BY <1>9 DEF SupervisorAlive
  <2>2. checks' \in Seq(BOOLEAN)
    BY <1>4, <2>1
  <2>3. Went
    BY <2>1, <2>2
  <2> QED  BY <1>10, <2>3
<1> QED  BY <1>3, <1>5, <1>6, <1>7, <1>8, <1>9

LEMMA HealthStep == HealthInv /\ [HealthNext]_healthVars => HealthInv'
<1> SUFFICES ASSUME HealthInv, [HealthNext]_healthVars PROVE HealthInv'
  OBVIOUS
<1>1. CASE HealthNext
  BY <1>1, HostKeeps, CheckKeeps DEF HealthNext
<1>2. CASE UNCHANGED healthVars
  BY <1>2 DEF healthVars, outsideVars, runVars, HealthInv, HealthTypeOK, ReceiptsLag
<1> QED  BY <1>1, <1>2

LEMMA HealthInvariant == HealthSpec => []HealthInv
  BY HealthInitial, HealthStep, PTL DEF HealthSpec

LEMMA LastAppended == ASSUME NEW S, NEW s \in Seq(S), NEW e \in S PROVE Append(s, e)[Len(s) + 1] = e
  OBVIOUS

\* For any number of commits, first runs and changes in between: a receipt that is
\* called fresh, if it names a commit at all, names the HEAD of that moment, and
\* so does the one then on disk unless it was damaged.
THEOREM FreshReceipts == HealthSpec => FreshIsFresh
<1>1. ASSUME HealthInv, [HealthNext]_healthVars, at = 5, at' = 6, Len(checks') = 4, checks'[4]
      PROVE  \/ recorded = 0
             \/ recorded = head /\ (receipt.commit # 0 => receipt.commit = head)
  <2>1. CompareHead /\ git # "hangs"
    BY <1>1 DEF healthVars, runVars, HealthNext, Upset, Commit, FirstRun, Begin, HermeticGate, LivePreflight,
       ReviewGate, ReadReceipt, SupervisorAlive, CompareHead, Abort
  <2>2. PICK ok \in BOOLEAN : /\ ok = (git # "absent" /\ recorded = HeadSeen)
                              /\ checks' = Append(checks, ok)
    BY <2>1, Zenon DEF CompareHead, Report
  <2>3. checks'[4] = ok
    <3>1. checks \in Seq(BOOLEAN) /\ Len(checks) = 3
      BY <1>1 DEF HealthInv, HealthTypeOK
    <3>2. Append(checks, ok)[Len(checks) + 1] = ok
      BY <3>1, LastAppended, Zenon
    <3> QED  BY <2>2, <3>1, <3>2
  <2>4. recorded = HeadSeen
    <3>1. ok
      BY <1>1, <2>3, Zenon
    <3> QED  BY <2>2, <3>1, Zenon
  <2>5. recorded = 0 \/ recorded = head
    BY <2>4 DEF HeadSeen
  <2>6. receipt.commit \in Nat /\ head \in Nat
    BY <1>1, HealthBoundsAssumption DEF HealthInv, HealthTypeOK, Receipts
  <2> QED  BY <1>1, <2>5, <2>6 DEF HealthInv, ReceiptsLag
<1>2. HealthInv /\ [HealthNext]_healthVars =>
        [at = 5 /\ at' = 6 /\ Len(checks') = 4 /\ checks'[4] =>
           \/ recorded = 0
           \/ recorded = head /\ (receipt.commit # 0 => receipt.commit = head)]_healthVars
  BY <1>1
<1> QED  BY <1>2, HealthInvariant, PTL DEF HealthSpec, FreshIsFresh

-----------------------------------------------------------------------------
(* StatusHeadline.  No file, document or sample that is held shows a moment  *)
(* after the last one at which a supervisor lived; what settled and silent   *)
(* look back on is tied to the document that was read.                      *)

NotAfter(doc) == doc # Unreadable => doc.is.outcome_unix <= lastAlive

NothingFromLater ==
  /\ Alive => lastAlive = clock
  /\ state.outcome_unix <= lastAlive
  /\ NotAfter(health) /\ NotAfter(docRead)
  /\ latest # Unreadable => latest <= lastAlive
  /\ obsRead # Unreadable => obsRead <= lastAlive

SettledOK ==
  /\ state.open => state.trips = 1
  /\ settled => Current
  /\ settled /\ pc # "idle" => \E p \in Pids : procs[p] = "supervisor" /\ docRead \in Documents(p)
  /\ settled /\ pc = "probed" => responds

SilentOK ==
  /\ silent => Silence
  /\ silent /\ pc = "probed" /\ Names(docRead) => ~responds

StatusInv == TypeOK /\ NothingFromLater /\ SettledOK /\ SilentOK

\* The names of the conditions, in the order of the classifier.
Name == << "circuit-open", "degraded", "gate-closed", "operator-paused", "terminal-stop",
           "rate-deferred", "source-wait" >>

LEMMA ShownIndexes ==
  ASSUME NEW is \in Runtime
  PROVE  /\ 1 \in Shown(is) <=> is.open \/ is.trips > 0
         /\ 2 \in Shown(is) <=> is.degraded
         /\ 3 \in Shown(is) <=> is.outcome = "blocked"
         /\ 4 \in Shown(is) <=> is.paused
         /\ 5 \in Shown(is) <=> is.stopped
         /\ 6 \in Shown(is) <=> is.eligible
         /\ 7 \in Shown(is) <=> is.kind = "wait"
         /\ Shown(is) \subseteq 1..7
<1>1. \A i \in 1..7 : i \in Shown(is) <=> Conditions(is)[i][1]
  BY DEF Shown
<1>2. 1 \in Shown(is) <=> is.open \/ is.trips > 0
  <2>1. Conditions(is)[1][1] = (is.open \/ is.trips > 0)
    BY DEF Conditions
  <2>2. 1 \in Shown(is) <=> Conditions(is)[1][1]
    BY <1>1
  <2> QED  BY <2>1, <2>2, Zenon
<1>3. 2 \in Shown(is) <=> is.degraded
  BY <1>1 DEF Conditions
<1>4. 3 \in Shown(is) <=> is.outcome = "blocked"
  <2>1. Conditions(is)[3][1] = (is.outcome = "blocked")
    BY DEF Conditions
  <2>2. 3 \in Shown(is) <=> Conditions(is)[3][1]
    BY <1>1
  <2> QED  BY <2>1, <2>2, Zenon
<1>5. 4 \in Shown(is) <=> is.paused
  BY <1>1 DEF Conditions
<1>6. 5 \in Shown(is) <=> is.stopped
  BY <1>1 DEF Conditions
<1>7. 6 \in Shown(is) <=> is.eligible
  BY <1>1 DEF Conditions
<1>8. 7 \in Shown(is) <=> is.kind = "wait"
  <2>1. Conditions(is)[7][1] = (is.kind = "wait")
    BY DEF Conditions
  <2>2. 7 \in Shown(is) <=> Conditions(is)[7][1]
    BY <1>1
  <2> QED  BY <2>1, <2>2, Zenon
<1> QED  BY <1>2, <1>3, <1>4, <1>5, <1>6, <1>7, <1>8 DEF Shown

\* The classifier takes the first of the conditions the document shows.
LEMMA FirstOfThem ==
  ASSUME NEW is \in Runtime, Shown(is) # {}
  PROVE  \E k \in Shown(is) : FirstShown(is) = Name[k] /\ \A j \in Shown(is) : k <= j
<1> DEFINE S == Shown(is)
           k == CHOOSE i \in S : \A j \in S : i <= j
<1>1. S \subseteq 1..7 /\ S # {}
  BY ShownIndexes
<1>2. \E i \in S : \A j \in S : i <= j
  <2> HIDE DEF S
  <2>1. \A j \in S : j \in {1, 2, 3, 4, 5, 6, 7}
    BY <1>1
  <2>2. \E n \in 1..7 : n \in S
    BY <1>1
  <2>3. CASE 1 \in S  BY <2>1, <2>3
  <2>4. CASE 1 \notin S /\ 2 \in S  BY <2>1, <2>4
  <2>5. CASE {1, 2} \cap S = {} /\ 3 \in S  BY <2>1, <2>5
  <2>6. CASE {1, 2, 3} \cap S = {} /\ 4 \in S  BY <2>1, <2>6
  <2>7. CASE {1, 2, 3, 4} \cap S = {} /\ 5 \in S  BY <2>1, <2>7
  <2>8. CASE {1, 2, 3, 4, 5} \cap S = {} /\ 6 \in S  BY <2>1, <2>8
  <2>9. CASE {1, 2, 3, 4, 5, 6} \cap S = {}  BY <2>1, <2>2, <2>9
  <2> QED  BY <2>3, <2>4, <2>5, <2>6, <2>7, <2>8, <2>9
<1>3. k \in S /\ \A j \in S : k <= j
  BY <1>2
<1>4. FirstShown(is) = Conditions(is)[k][2]
  BY DEF FirstShown
<1>5. \A i \in 1..7 : Conditions(is)[i][2] = Name[i]
  BY DEF Conditions, Name
<1> QED  BY <1>1, <1>3, <1>4, <1>5

LEMMA NamesAreStates == \A i \in 1..7 : Name[i] \in States \ {"running", "no-supervisor"}
  BY DEF Name, States

LEMMA ClassifyIsState ==
  ASSUME NEW doc \in HealthPayload \union {Unreadable}, NEW obs, NEW answered, NEW now
  PROVE  Classify(doc, obs, answered, now) \in States
<1>1. CASE doc # Unreadable /\ Shown(doc.is) # {}
  <2>1. FirstShown(doc.is) \in States
    <3>1. doc.is \in Runtime
      BY <1>1 DEF HealthPayload
    <3> QED  BY <3>1, <1>1, FirstOfThem, NamesAreStates, ShownIndexes
  <2> QED  BY <2>1 DEF Classify, BySample, States
<1>2. CASE ~(doc # Unreadable /\ Shown(doc.is) # {})
  BY <1>2 DEF Classify, BySample, States
<1> QED  BY <1>1, <1>2

LEMMA StatusInitial == Init => StatusInv
<1> SUFFICES ASSUME Init PROVE StatusInv
  OBVIOUS
<1> USE DEF Init
<1>1. Fresh \in Runtime /\ Fresh.outcome_unix = 0 /\ ~Fresh.open
  BY DEF Fresh, Runtime, Outcomes, Kinds
<1>2. \A p \in Pids : procs[p] = "nobody"
  OBVIOUS
<1>3. TypeOK
  <2>1. procs \in [Pids -> Holders] /\ NoHeadline.state = "none"
    BY DEF Holders, NoHeadline
  <2>2. headline.state = "none" /\ clock = 1 /\ lastAlive = 0
    BY <2>1
  <2>3. state \in Runtime
    BY <1>1
  <2>4. /\ clock \in Nat /\ clock >= 1 /\ events \in Nat /\ lastAlive \in Nat /\ lastAlive <= clock
    BY <2>2
  <2> QED  BY <1>2, <2>1, <2>2, <2>3, <2>4 DEF TypeOK
<1>4. ~Alive
  BY <1>2 DEF Alive
<1> QED  BY <1>1, <1>3, <1>4 DEF StatusInv, NothingFromLater, NotAfter, SettledOK, SilentOK

\* What a move does to the supervisor's state.
LEMMA Moved ==
  ASSUME StatusInv, NEW m \in Moves
  PROVE  /\ m \in Runtime
         /\ m.open => m.trips = 1
         /\ m.outcome_unix \in {state.outcome_unix, clock}
<1>0. state \in Runtime /\ clock \in Nat /\ (state.open => state.trips = 1)
  BY DEF StatusInv, TypeOK, SettledOK
<1> USE <1>0 DEF Runtime, Outcomes, Kinds
<1>1. CASE m = [state EXCEPT !.open = TRUE, !.trips = 1]
  <2>1. m = [open |-> TRUE, trips |-> 1, degraded |-> state.degraded, outcome |-> state.outcome,
             outcome_unix |-> state.outcome_unix, paused |-> state.paused, stopped |-> state.stopped,
             eligible |-> state.eligible, kind |-> state.kind, next_ask |-> state.next_ask]
    BY <1>1
  <2> QED  BY <2>1
<1>10. CASE m = [state EXCEPT !.open = FALSE]
  BY <1>10
<1>2. CASE \E b \in BOOLEAN : m = [state EXCEPT !.degraded = b]
  BY <1>2
<1>3. CASE \E o \in {"submitted", "blocked"} : m = [state EXCEPT !.outcome = o, !.outcome_unix = clock]
  BY <1>3
<1>4. CASE \E b \in BOOLEAN : m = [state EXCEPT !.paused = b]
  BY <1>4
<1>5. CASE m = [state EXCEPT !.stopped = TRUE]
  BY <1>5
<1>6. CASE \E b \in BOOLEAN : m = [state EXCEPT !.eligible = b]
  BY <1>6
<1>7. CASE m = [state EXCEPT !.kind = "wait", !.next_ask = TRUE]
  BY <1>7
<1>8. CASE m = [state EXCEPT !.kind = "dispatch", !.next_ask = FALSE]
  BY <1>8
<1>9. CASE m = [state EXCEPT !.kind = "dispatch"]
  BY <1>9
<1> QED  BY <1>1, <1>2, <1>3, <1>4, <1>5, <1>6, <1>7, <1>8, <1>9, <1>10 DEF Moves

\* Of a step of the supervisor, of a process or of the clock it is enough to
\* know what becomes of the files, the state and who is alive.
LEMMA WorldKeeps ==
  ASSUME StatusInv, UNCHANGED cmdVars, Observe, events' \in Nat,
         clock' \in {clock, clock + 1},
         procs' \in [Pids -> Holders],
         \A p, q \in Pids : procs'[p] = "supervisor" /\ procs'[q] = "supervisor" => p = q,
         state' \in Runtime, state'.open => state'.trips = 1,
         state'.outcome_unix \in {0, state.outcome_unix} \/ (Alive' /\ state'.outcome_unix = clock),
         \/ health' \in {health, Unreadable}
         \/ \E p \in Pids : procs'[p] = "supervisor" /\ health' \in Documents(p)',
         \/ latest' \in {latest, Unreadable}
         \/ latest' = clock /\ Alive',
         settled' /\ pc # "idle" =>
           state' = state /\ \A p \in Pids : procs[p] = "supervisor" => procs'[p] = "supervisor"
  PROVE  StatusInv'
<1> USE DEF StatusInv
<1>1. /\ UNCHANGED <<pc, docRead, obsRead, responds, headline>>
      /\ lastAlive' = IF Alive' THEN clock' ELSE lastAlive
      /\ settled' = (settled /\ Current') /\ silent' = (silent /\ Silence')
  BY DEF cmdVars, Observe
<1>2. /\ clock \in Nat /\ lastAlive \in Nat /\ lastAlive' \in Nat /\ lastAlive <= clock /\ clock <= clock'
      /\ lastAlive <= lastAlive' /\ lastAlive' <= clock' /\ (Alive' => lastAlive' = clock')
  BY <1>1 DEF TypeOK
<1>3. TypeOK'
  <2>1. health' \in HealthPayload \union {Unreadable}
    BY DEF TypeOK, HealthPayload, Documents
  <2>2. settled' \in BOOLEAN /\ silent' \in BOOLEAN
    <3>1. settled \in BOOLEAN /\ silent \in BOOLEAN
      BY DEF TypeOK
    <3> QED  BY <3>1, <1>1 DEF Current, Silence
  <2>3. latest' \in Nat \union {Unreadable} /\ clock' \in Nat /\ clock' >= 1 /\ lastAlive' \in Nat
    BY <1>2, <1>1 DEF TypeOK
  <2> QED  BY <1>1, <1>2, <2>1, <2>2, <2>3 DEF TypeOK
<1>4. state'.outcome_unix <= lastAlive'
  BY <1>2 DEF NothingFromLater, TypeOK, Runtime
<1>5. NotAfter(health)'
  <2>1. CASE health' \in {health, Unreadable}
    <3>1. health # Unreadable => health.is.outcome_unix \in Nat
      BY DEF TypeOK, HealthPayload, Runtime
    <3>2. health # Unreadable => health.is.outcome_unix <= lastAlive
      BY DEF NothingFromLater, NotAfter
    <3>3. health' = Unreadable \/ health' = health
      BY <2>1
    <3> QED  BY <3>1, <3>2, <3>3, <1>2 DEF NotAfter
  <2>2. CASE \E p \in Pids : health' \in Documents(p)'
    BY <2>2, <1>4 DEF NotAfter, Documents
  <2> QED  BY <2>1, <2>2
<1>6. NotAfter(docRead)'
  <2>1. docRead # Unreadable => docRead.is.outcome_unix \in Nat
    BY DEF TypeOK, HealthPayload, Runtime
  <2> QED  BY <2>1, <1>1, <1>2 DEF NothingFromLater, NotAfter
<1>7. NothingFromLater'
  BY <1>1, <1>2, <1>4, <1>5, <1>6 DEF NothingFromLater, TypeOK
<1>8. SettledOK'
  <2>1. settled' /\ pc' # "idle" =>
          \E p \in Pids : procs'[p] = "supervisor" /\ docRead' \in Documents(p)'
    BY <1>1 DEF SettledOK, Documents
  <2> QED  BY <1>1, <2>1 DEF SettledOK
<1>9. SilentOK'
  BY <1>1 DEF SilentOK
<1> QED  BY <1>3, <1>7, <1>8, <1>9

LEMMA BootKeeps == ASSUME StatusInv, NEW p \in Pids, Boot(p) PROVE StatusInv'
<1> USE DEF Boot, Event
<1>1. TypeOK
  BY DEF StatusInv
<1>2. Fresh \in Runtime /\ Fresh.outcome_unix = 0 /\ ~Fresh.open
  BY DEF Fresh, Runtime, Outcomes, Kinds
<1>3. /\ procs' \in [Pids -> Holders] /\ \A q \in Pids : procs'[q] = "supervisor" => q = p
  BY <1>1 DEF TypeOK, Alive, Holders
<1>4. /\ UNCHANGED <<clock, cmdVars, health, latest>> /\ Observe /\ events' \in Nat
      /\ state' \in {state, Fresh}
  BY <1>1 DEF TypeOK
<1>5. ~settled
  BY DEF StatusInv, SettledOK, Current, Alive
<1>6. ~settled'
  BY <1>4, <1>5 DEF Observe
<1> QED  BY <1>1, <1>2, <1>3, <1>4, <1>6, WorldKeeps DEF StatusInv, TypeOK, SettledOK

LEMMA DieKeeps == ASSUME StatusInv, NEW p \in Pids, Die(p) PROVE StatusInv'
<1> USE DEF Die, Event
<1>1. TypeOK
  BY DEF StatusInv
<1>2. procs' \in [Pids -> Holders] /\ \A q \in Pids : procs'[q] # "supervisor"
  BY <1>1 DEF TypeOK, Holders
<1>3. /\ UNCHANGED <<clock, cmdVars, state, latest>> /\ Observe /\ events' \in Nat
      /\ health' \in {health, Unreadable}
  BY <1>1 DEF TypeOK
<1>4. ~settled'
  BY <1>2, <1>3 DEF Observe, Current, Documents
<1> QED  BY <1>1, <1>2, <1>3, <1>4, WorldKeeps DEF StatusInv, TypeOK, SettledOK

LEMMA ReuseKeeps == ASSUME StatusInv, NEW p \in Pids, Reuse(p) PROVE StatusInv'
<1> USE DEF Reuse, Event
<1>1. TypeOK
  BY DEF StatusInv
<1>2. /\ procs' \in [Pids -> Holders]
      /\ \A q \in Pids : procs'[q] = "supervisor" => procs[q] = "supervisor"
  BY <1>1 DEF TypeOK, Holders
<1>3. UNCHANGED <<clock, cmdVars, state, health, latest>> /\ Observe /\ events' \in Nat
  BY <1>1 DEF TypeOK
<1> QED  BY <1>1, <1>2, <1>3, WorldKeeps DEF StatusInv, TypeOK, SettledOK

LEMMA MoveKeeps == ASSUME StatusInv, Move PROVE StatusInv'
<1> USE DEF Move, Event
<1>1. TypeOK
  BY DEF StatusInv
<1>2. UNCHANGED <<clock, cmdVars, procs, health, latest>> /\ Observe /\ events' \in Nat /\ Alive'
  BY <1>1 DEF TypeOK, Alive
<1>3. state' \in Runtime /\ (state'.open => state'.trips = 1) /\ state'.outcome_unix \in {state.outcome_unix, clock}
  BY Moved
<1>4. settled' => state' = state
  <2>1. settled' => settled /\ Current'
    BY <1>2 DEF Observe
  <2>2. settled => health.is = state
    BY DEF StatusInv, SettledOK, Current, Documents
  <2>3. Current' => health'.is = state'
    BY DEF Current, Documents
  <2> QED  BY <1>2, <2>1, <2>2, <2>3
<1> QED  BY <1>1, <1>2, <1>3, <1>4, WorldKeeps DEF StatusInv, TypeOK, SettledOK

\* The one supervisor shows what it is.
LEMMA WriteHealthKeeps == ASSUME StatusInv, WriteHealth PROVE StatusInv'
<1> USE DEF WriteHealth
<1>1. TypeOK
  BY DEF StatusInv
<1>2. UNCHANGED <<clock, events, procs, state, latest, cmdVars>> /\ Observe
  OBVIOUS
<1>3. \E p \in Pids : procs'[p] = "supervisor" /\ health' \in Documents(p)'
  BY <1>2 DEF Documents
<1> QED  BY <1>1, <1>2, <1>3, WorldKeeps DEF StatusInv, TypeOK, SettledOK, Observe

LEMMA WriteUnnamedKeeps == ASSUME StatusInv, WriteUnnamed PROVE StatusInv'
<1> USE DEF WriteUnnamed, Event
<1>1. TypeOK
  BY DEF StatusInv
<1>2. UNCHANGED <<clock, procs, state, latest, cmdVars>> /\ Observe /\ events' \in Nat
  BY <1>1 DEF TypeOK
<1>3. \E p \in Pids : procs'[p] = "supervisor" /\ health' \in Documents(p)'
  BY <1>2 DEF Documents, Alive
<1> QED  BY <1>1, <1>2, <1>3, WorldKeeps DEF StatusInv, TypeOK, SettledOK, Observe

LEMMA WriteLatestKeeps == ASSUME StatusInv, WriteLatest PROVE StatusInv'
<1>1. /\ UNCHANGED <<clock, events, procs, state, health, cmdVars>> /\ Observe
      /\ latest' = clock /\ Alive'
  BY DEF WriteLatest, Alive
<1> QED  BY <1>1, WorldKeeps DEF StatusInv, TypeOK, SettledOK

LEMMA TearKeeps == ASSUME StatusInv, Tear PROVE StatusInv'
<1>1. /\ UNCHANGED <<clock, procs, state, cmdVars>> /\ Observe /\ events' \in Nat
      /\ health' \in {health, Unreadable} /\ latest' \in {latest, Unreadable}
  BY DEF Tear, Event, StatusInv, TypeOK
<1> QED  BY <1>1, WorldKeeps DEF StatusInv, TypeOK, SettledOK

LEMMA PurgeKeeps == ASSUME StatusInv, Purge PROVE StatusInv'
<1>1. /\ UNCHANGED <<clock, procs, state, cmdVars>> /\ Observe /\ events' \in Nat
      /\ health' = Unreadable /\ latest' = Unreadable
  BY DEF Purge, Event, StatusInv, TypeOK
<1>2. ~settled'
  BY <1>1 DEF Purge, Observe, Current, Alive
<1> QED  BY <1>1, <1>2, WorldKeeps DEF StatusInv, TypeOK, SettledOK

LEMMA TickKeeps == ASSUME StatusInv, Tick PROVE StatusInv'
<1>1. /\ UNCHANGED <<events, procs, state, health, latest, cmdVars>> /\ Observe
      /\ clock' \in {clock, clock + 1}
  BY DEF Tick, supVars
<1> QED  BY <1>1, WorldKeeps DEF StatusInv, TypeOK, SettledOK

\* The steps of the command leave the files and the processes alone.
LEMMA CommandStill ==
  ASSUME StatusInv, UNCHANGED <<clock, supVars>>
  PROVE  /\ Alive' = Alive /\ Current' = Current /\ Silence' = Silence
         /\ state' = state /\ health' = health /\ latest' = latest
         /\ Observe => UNCHANGED seenVars
<1>1. Alive' = Alive /\ Current' = Current /\ Silence' = Silence
  BY DEF supVars, Alive, Current, Documents, Silence, Answers
<1>2. /\ Alive => lastAlive = clock
      /\ settled => Current
      /\ silent => Silence
      /\ settled \in BOOLEAN /\ silent \in BOOLEAN
  BY DEF StatusInv, NothingFromLater, SettledOK, SilentOK, TypeOK
<1>3. ASSUME Observe PROVE UNCHANGED lastAlive
  BY <1>1, <1>2, <1>3 DEF Observe
<1>4. ASSUME Observe PROVE UNCHANGED <<settled, silent>>
  BY <1>1, <1>2, <1>4 DEF Observe
<1> QED  BY <1>1, <1>3, <1>4 DEF supVars, seenVars

LEMMA ReadHealthKeeps == ASSUME StatusInv, ReadHealth PROVE StatusInv'
<1> USE DEF ReadHealth, StatusInv
<1>1. /\ UNCHANGED <<clock, supVars, obsRead, responds, lastAlive>>
      /\ docRead' = health /\ pc' = "health" /\ settled' = Current /\ silent' = Silence
      /\ headline'.state = "none"
  BY DEF NoHeadline
<1>2. /\ Alive' = Alive /\ Current' = Current /\ Silence' = Silence
      /\ state' = state /\ health' = health /\ latest' = latest
  BY CommandStill
<1>3. TypeOK'
  <2>1. settled' \in BOOLEAN /\ silent' \in BOOLEAN
    BY <1>1 DEF Current, Silence
  <2> QED  BY <1>1, <2>1 DEF TypeOK, supVars
<1>4. NothingFromLater'
  BY <1>1, <1>2 DEF NothingFromLater, NotAfter
<1>5. SettledOK' /\ SilentOK'
  BY <1>1, <1>2 DEF SettledOK, SilentOK, Current, Documents, supVars
<1> QED  BY <1>3, <1>4, <1>5

LEMMA ReadLatestKeeps == ASSUME StatusInv, ReadLatest PROVE StatusInv'
<1> USE DEF ReadLatest, StatusInv
<1>1. /\ UNCHANGED <<clock, supVars, docRead, responds, headline, seenVars>>
      /\ obsRead' = latest /\ pc' = "latest" /\ pc = "health"
  BY CommandStill
<1>2. /\ Alive' = Alive /\ Current' = Current /\ Silence' = Silence
      /\ state' = state /\ health' = health /\ latest' = latest
  BY CommandStill
<1>3. TypeOK'
  BY <1>1 DEF TypeOK, supVars, seenVars
<1>4. NothingFromLater'
  BY <1>1, <1>2 DEF NothingFromLater, NotAfter, seenVars
<1>5. SettledOK' /\ SilentOK'
  BY <1>1, <1>2 DEF SettledOK, SilentOK, seenVars, Documents, supVars
<1> QED  BY <1>3, <1>4, <1>5

\* A document of the supervisor that goes on names none, or one that answers;
\* while nobody answers no document names one that does.
LEMMA ProbeKeeps == ASSUME StatusInv, Probe PROVE StatusInv'
<1> USE DEF Probe, StatusInv
<1>1. /\ UNCHANGED <<clock, supVars, docRead, obsRead, headline, seenVars>>
      /\ responds' = (Names(docRead) => Answers(docRead.pid))
      /\ pc' = "probed" /\ pc = "latest"
  BY CommandStill
<1>2. /\ Alive' = Alive /\ Current' = Current /\ Silence' = Silence
      /\ state' = state /\ health' = health /\ latest' = latest
  BY CommandStill
<1>3. TypeOK'
  <2>1. responds' \in BOOLEAN
    BY <1>1 DEF Answers
  <2> QED  BY <1>1, <2>1 DEF TypeOK, supVars, seenVars
<1>4. NothingFromLater'
  BY <1>1, <1>2 DEF NothingFromLater, NotAfter, seenVars
<1>5. settled => responds'
  <2> SUFFICES ASSUME settled PROVE responds'
    OBVIOUS
  <2>1. PICK p \in Pids : procs[p] = "supervisor" /\ docRead \in Documents(p)
    BY <1>1 DEF SettledOK
  <2>2. docRead.pid \in {p, NoPid}
    BY <2>1 DEF Documents
  <2> QED  BY <1>1, <2>1, <2>2 DEF Answers, Names
<1>6. silent /\ Names(docRead) => ~responds'
  <2> SUFFICES ASSUME silent, Names(docRead) PROVE ~responds'
    OBVIOUS
  <2>1. docRead.pid \in Pids
    BY DEF TypeOK, HealthPayload, Names
  <2> QED  BY <1>1, <2>1 DEF SilentOK, Silence
<1>7. SettledOK' /\ SilentOK'
  BY <1>1, <1>2, <1>5, <1>6 DEF SettledOK, SilentOK, seenVars, Documents, supVars
<1> QED  BY <1>3, <1>4, <1>7

LEMMA ConcludeKeeps == ASSUME StatusInv, Conclude PROVE StatusInv'
<1> USE DEF Conclude, StatusInv
<1>1. /\ UNCHANGED <<clock, supVars, seenVars>>
      /\ docRead' = Unreadable /\ obsRead' = Unreadable /\ responds' = FALSE /\ pc' = "idle"
      /\ headline'.state = Classify(docRead, obsRead, responds, clock)
  BY CommandStill
<1>2. /\ Alive' = Alive /\ Current' = Current /\ Silence' = Silence
      /\ state' = state /\ health' = health /\ latest' = latest
  BY CommandStill
<1>3. TypeOK'
  <2>1. headline'.state \in States
    BY <1>1, ClassifyIsState DEF TypeOK
  <2> QED  BY <1>1, <2>1 DEF TypeOK, supVars, seenVars
<1>4. NothingFromLater'
  BY <1>1, <1>2 DEF NothingFromLater, NotAfter, seenVars
<1>5. SettledOK' /\ SilentOK'
  BY <1>1, <1>2 DEF SettledOK, SilentOK, seenVars, Documents, supVars
<1> QED  BY <1>3, <1>4, <1>5

LEMMA StatusStep == StatusInv /\ [Next]_vars => StatusInv'
<1> SUFFICES ASSUME StatusInv, [Next]_vars PROVE StatusInv'
  OBVIOUS
<1>1. CASE Next
  BY <1>1, BootKeeps, DieKeeps, ReuseKeeps, MoveKeeps, WriteHealthKeeps, WriteUnnamedKeeps,
     WriteLatestKeeps, TearKeeps, PurgeKeeps, TickKeeps, ReadHealthKeeps, ReadLatestKeeps, ProbeKeeps, ConcludeKeeps DEF Next
<1>2. CASE UNCHANGED vars
  BY <1>2 DEF vars, Documents, Names, supVars, cmdVars, seenVars, StatusInv, TypeOK, NothingFromLater, NotAfter,
              SettledOK, SilentOK, Alive, Current, Silence, Answers
<1> QED  BY <1>1, <1>2

LEMMA StatusInvariant == Spec => []StatusInv
  BY StatusInitial, StatusStep, PTL DEF Spec

\* The answer is given by Conclude alone.
LEMMA OnlyConclude == ASSUME Next, Answered PROVE Conclude
  BY DEF Answered, Next, Boot, Die, Reuse, Move, WriteHealth, WriteUnnamed, WriteLatest, Tear, Purge,
         Tick, Event, cmdVars, ReadHealth, ReadLatest, Probe

\* For any number of pids, any clock and any run of events: "running" is not said
\* of a program whose last supervisor has been gone for longer than Stale.
THEOREM GhostsAreNotRunning == Spec => NoGhostRuns
<1>1. ASSUME StatusInv, [Next]_vars, Answered, headline'.state = "running"
      PROVE  clock - lastAlive <= Stale
  <2>1. CASE Next
    <3>1. Conclude
      BY <1>1, <2>1, OnlyConclude
    <3>2. Classify(docRead, obsRead, responds, clock) = "running"
      BY <1>1, <3>1 DEF Conclude
    <3>3. ~(docRead # Unreadable /\ Shown(docRead.is) # {})
      <4> SUFFICES ASSUME docRead # Unreadable, Shown(docRead.is) # {} PROVE FALSE
        OBVIOUS
      <4>1. docRead.is \in Runtime
        BY <1>1 DEF StatusInv, TypeOK, HealthPayload
      <4>2. FirstShown(docRead.is) # "running"
        BY <4>1, FirstOfThem, ShownIndexes, NamesAreStates
      <4> QED  BY <3>2, <4>2 DEF Classify
    <3>4. BySample(docRead, obsRead, clock) = "running"
      BY <3>2, <3>3 DEF Classify
    <3>5. clock - Observed(docRead, obsRead) <= Stale /\ Observed(docRead, obsRead) # 0
      <4>1. clock \in Nat /\ Observed(docRead, obsRead) \in Nat /\ Stale \in Nat
        BY <1>1, BoundsAssumption DEF Observed, StatusInv, TypeOK, HealthPayload, Runtime
      <4> QED  BY <3>4, <4>1 DEF BySample
    <3>6. Observed(docRead, obsRead) <= lastAlive
      BY <1>1, <3>5 DEF Observed, StatusInv, NothingFromLater, NotAfter
    <3>7. {clock, lastAlive, Observed(docRead, obsRead), Stale} \subseteq Int
      BY <1>1, BoundsAssumption DEF Observed, StatusInv, TypeOK, HealthPayload, Runtime
    <3> QED  BY <3>5, <3>6, <3>7
  <2>2. CASE UNCHANGED vars
    BY <1>1, <2>2 DEF vars, cmdVars, Answered
  <2> QED  BY <1>1, <2>1, <2>2
<1>2. StatusInv /\ [Next]_vars => [Answered /\ headline'.state = "running" => clock - lastAlive <= Stale]_vars
  BY <1>1
<1> QED  BY <1>2, StatusInvariant, PTL DEF Spec, NoGhostRuns

\* When no supervisor was there from the read to the answer and no pid answered,
\* no pause, wait or fault a document that names its supervisor still shows is
\* reported.
THEOREM TheDeadAreToldDead == Spec => DeadIsToldDead
<1>1. ASSUME StatusInv, [Next]_vars, Answered, silent,
             ~(docRead # Unreadable /\ docRead.pid = NoPid)
      PROVE  \/ headline'.state \in {"terminal-stop", "no-supervisor"}
             \/ headline'.state = "running" /\ docRead = Unreadable
  <2>1. CASE Next
    <3>1. Conclude /\ pc = "probed"
      BY <1>1, <2>1, OnlyConclude DEF Conclude
    <3>2. headline'.state = Classify(docRead, obsRead, responds, clock)
      BY <3>1 DEF Conclude
    <3>3. docRead # Unreadable => ~responds
      BY <1>1, <3>1 DEF StatusInv, SilentOK, Names
    <3> QED  BY <3>2, <3>3 DEF Classify, BySample
  <2>2. CASE UNCHANGED vars
    BY <1>1, <2>2 DEF vars, cmdVars, Answered
  <2> QED  BY <1>1, <2>1, <2>2
<1>2. StatusInv /\ [Next]_vars =>
        [Answered /\ silent /\ ~(docRead # Unreadable /\ docRead.pid = NoPid) =>
           \/ headline'.state \in {"terminal-stop", "no-supervisor"}
           \/ headline'.state = "running" /\ docRead = Unreadable]_vars
  BY <1>1
<1> QED  BY <1>2, StatusInvariant, PTL DEF Spec, DeadIsToldDead

\* The rank of a condition that is shown is its place in the classifier, and
\* that of one that is not is 0.
LEMMA RankIsPlace ==
  ASSUME NEW is \in Runtime, is.open => is.trips = 1
  PROVE  /\ DOMAIN Rank(is) = {Name[i] : i \in 1..7}
         /\ \A i \in 1..7 : Rank(is)[Name[i]] = IF i \in Shown(is) THEN i ELSE 0
<1>1. DOMAIN Rank(is) = {Name[i] : i \in 1..7}
  <2>1. DOMAIN Rank(is) = {"circuit-open", "degraded", "gate-closed", "operator-paused",
                           "terminal-stop", "rate-deferred", "source-wait"}
    BY DEF Rank
  <2>2. \A i \in 1..7 : i \in {1, 2, 3, 4, 5, 6, 7}
    OBVIOUS
  <2> QED  BY <2>1, <2>2 DEF Name
<1>2. is.trips > 0 <=> is.open \/ is.trips > 0
  BY DEF Runtime
<1>3. Rank(is)[Name[1]] = IF 1 \in Shown(is) THEN 1 ELSE 0
  <2>1. Rank(is)[Name[1]] = IF is.trips > 0 THEN 1 ELSE 0
    BY DEF Rank, Name
  <2> QED  BY <2>1, <1>2, ShownIndexes
<1>4. Rank(is)[Name[2]] = IF 2 \in Shown(is) THEN 2 ELSE 0
  BY ShownIndexes DEF Rank, Name
<1>5. Rank(is)[Name[3]] = IF 3 \in Shown(is) THEN 3 ELSE 0
  BY ShownIndexes DEF Rank, Name
<1>6. Rank(is)[Name[4]] = IF 4 \in Shown(is) THEN 4 ELSE 0
  BY ShownIndexes DEF Rank, Name
<1>7. Rank(is)[Name[5]] = IF 5 \in Shown(is) THEN 5 ELSE 0
  BY ShownIndexes DEF Rank, Name
<1>8. Rank(is)[Name[6]] = IF 6 \in Shown(is) THEN 6 ELSE 0
  BY ShownIndexes DEF Rank, Name
<1>9. Rank(is)[Name[7]] = IF 7 \in Shown(is) THEN 7 ELSE 0
  BY ShownIndexes DEF Rank, Name
<1>10. \A i \in 1..7 : i \in {1, 2, 3, 4, 5, 6, 7}
  OBVIOUS
<1> QED  BY <1>1, <1>3, <1>4, <1>5, <1>6, <1>7, <1>8, <1>9, <1>10

\* What SettledIsExact asks of the headline of a state.
MostPressing(line, is) ==
  /\ line.last = is.outcome /\ line.cycle = is.outcome_unix
  /\ IF \E c \in DOMAIN Rank(is) : Rank(is)[c] > 0
     THEN /\ line.state \in DOMAIN Rank(is)
          /\ Rank(is)[line.state] > 0
          /\ \A c \in DOMAIN Rank(is) :
               Rank(is)[c] > 0 => Rank(is)[line.state] <= Rank(is)[c]
     ELSE line.state \in {"running", "terminal-stop", "no-supervisor"}
  /\ line.state = "rate-deferred" => line.wake = "next_eligible" /\ line.trigger = "rate_defer"
  /\ line.state = "source-wait" => line.trigger = "source_wait"

LEMMA HeadlineIsPressing ==
  ASSUME NEW doc \in HealthPayload, NEW obs, NEW now, NEW line,
         doc.is.open => doc.is.trips = 1,
         line.state = Classify(doc, obs, TRUE, now),
         line.wake = WakeUnix(doc), line.trigger = WakeTrigger(doc),
         line.last = LastAction(doc), line.cycle = LastCycle(doc)
  PROVE  MostPressing(line, doc.is)
<1> DEFINE is == doc.is
           S == Shown(is)
<1>1. is \in Runtime /\ doc # Unreadable
  BY UnreadableAssumption DEF HealthPayload
<1>2. /\ DOMAIN Rank(is) = {Name[i] : i \in 1..7} /\ S \subseteq 1..7
      /\ \A i \in 1..7 : Rank(is)[Name[i]] = IF i \in S THEN i ELSE 0
  BY <1>1, RankIsPlace, ShownIndexes
<1>3. line.last = is.outcome /\ line.cycle = is.outcome_unix
  BY <1>1 DEF LastAction, LastCycle
<1>4. CASE S = {}
  <2>1. line.state = BySample(doc, obs, now)
    BY <1>1, <1>4 DEF Classify
  <2>2. line.state \in {"running", "terminal-stop", "no-supervisor"}
    BY <2>1 DEF BySample
  <2>3. ~\E c \in DOMAIN Rank(is) : Rank(is)[c] > 0
    BY <1>2, <1>4
  <2> QED  BY <1>3, <2>2, <2>3 DEF MostPressing
<1>5. CASE S # {}
  <2>1. PICK k \in S : FirstShown(is) = Name[k] /\ \A j \in S : k <= j
    BY <1>1, <1>5, FirstOfThem
  <2>2. line.state = Name[k] /\ k \in 1..7
    BY <1>1, <1>2, <1>5, <2>1 DEF Classify
  <2>3. Rank(is)[Name[k]] = k /\ k > 0 /\ Name[k] \in DOMAIN Rank(is)
    BY <1>2, <2>1, <2>2
  <2>4. \A c \in DOMAIN Rank(is) : Rank(is)[c] > 0 => k <= Rank(is)[c]
    BY <1>2, <2>1
  <2>5. /\ Name[k] = "rate-deferred" => k = 6
        /\ Name[k] = "source-wait" => k = 7
    <3>1. k \in {1, 2, 3, 4, 5, 6, 7}
      BY <2>2
    <3> QED  BY <3>1 DEF Name
  <2>6. line.state = "rate-deferred" => line.wake = "next_eligible" /\ line.trigger = "rate_defer"
    BY <1>1, <2>1, <2>2, <2>5, ShownIndexes DEF WakeUnix, WakeTrigger
  <2>7. line.state = "source-wait" => line.trigger = "source_wait"
    <3> SUFFICES ASSUME k = 7 PROVE line.trigger = "source_wait"
      BY <2>2, <2>5
    <3>1. is.kind = "wait" /\ ~is.eligible
      BY <1>1, <2>1, ShownIndexes
    <3> QED  BY <1>1, <3>1 DEF WakeTrigger
  <2> QED  BY <1>3, <2>2, <2>3, <2>4, <2>6, <2>7 DEF MostPressing
<1> QED  BY <1>4, <1>5

\* While one supervisor lives and health.json shows what it is, the headline is
\* that supervisor's, its most pressing condition first.
THEOREM SettledHeadline == Spec => SettledIsExact
<1>1. ASSUME StatusInv, [Next]_vars, Answered, settled
      PROVE  MostPressing(headline', state)
  <2>1. CASE Next
    <3>1. Conclude /\ pc = "probed"
      BY <1>1, <2>1, OnlyConclude DEF Conclude
    <3>2. docRead \in HealthPayload /\ docRead.is = state /\ responds = TRUE
      <4>1. PICK p \in Pids : docRead \in Documents(p)
        BY <1>1, <3>1 DEF StatusInv, SettledOK
      <4>2. responds = TRUE
        BY <1>1, <3>1 DEF StatusInv, SettledOK, TypeOK
      <4>3. docRead.is = state /\ docRead \in HealthPayload
        BY <1>1, <4>1 DEF StatusInv, TypeOK, HealthPayload, Documents
      <4> QED  BY <4>2, <4>3
    <3>3. /\ headline'.state = Classify(docRead, obsRead, TRUE, clock)
          /\ headline'.wake = WakeUnix(docRead) /\ headline'.trigger = WakeTrigger(docRead)
          /\ headline'.last = LastAction(docRead) /\ headline'.cycle = LastCycle(docRead)
      BY <3>1, <3>2 DEF Conclude
    <3>4. docRead.is.open => docRead.is.trips = 1
      BY <1>1, <3>2 DEF StatusInv, SettledOK
    <3> QED  BY <3>2, <3>3, <3>4, HeadlineIsPressing
  <2>2. CASE UNCHANGED vars
    BY <1>1, <2>2 DEF vars, cmdVars, Answered
  <2> QED  BY <1>1, <2>1, <2>2
<1>2. StatusInv /\ [Next]_vars => [Answered /\ settled => MostPressing(headline', state)]_vars
  BY <1>1
<1>3. [][Answered /\ settled => MostPressing(headline', state)]_vars => SettledIsExact
  BY DEF SettledIsExact, MostPressing
<1> QED  BY <1>2, <1>3, StatusInvariant, PTL DEF Spec
-----------------------------------------------------------------------------
(* Registration.  The programs called so far are those of the catalog before *)
(* the ones still to be called; for each that was in order all the while,     *)
(* what is in place is its content or that of one called after it.           *)

LEMMA ElementsOf == ASSUME NEW S, NEW s \in Seq(S), NEW i \in 1..Len(s) PROVE s[i] \in S
  OBVIOUS

Called == Len(began) - Len(todo)

RegistrationInv ==
  /\ RegistrationTypeOK
  /\ \A p \in steady : conduct[p] = "registers"
  /\ outcome = "running" =>
       \A i \in 1..Called :
         began[i] \in steady => \E j \in i..Called : providers.content = began[j]
  /\ ComposedIsWhole

LEMMA RegistrationInitial == RegistrationInit => RegistrationInv
<1> SUFFICES ASSUME RegistrationInit PROVE RegistrationInv
  OBVIOUS
<1>1. Unset \in Providers
  BY DEF Unset, Providers
<1>2. RegistrationTypeOK
  BY <1>1, RegistrationAssumption DEF RegistrationInit, RegistrationTypeOK, Conducts
<1> QED  BY <1>2 DEF RegistrationInit, RegistrationInv, ComposedIsWhole

LEMMA OutsideKeeps ==
  ASSUME RegistrationInv, (\E p \in Research : ChangeProgram(p)) \/ EditListing
  PROVE  RegistrationInv'
<1> USE DEF RegistrationInv
<1>1. /\ UNCHANGED <<providers, todo, outcome, began>> /\ steady' \subseteq steady
      /\ changes' \in 0..MaxChanges
  BY RegistrationAssumption DEF ChangeProgram, EditListing, RegistrationTypeOK
<1>2. listing' \in Seq(Research)
  <2>1. CASE EditListing
    <3>1. PICK p \in Research, q \in Research : listing' \in {<<>>, <<p>>, <<p, q>>}
      BY <2>1 DEF EditListing
    <3>2. <<>> \in Seq(Research) /\ <<p>> \in Seq(Research) /\ <<p, q>> \in Seq(Research)
      OBVIOUS
    <3> QED  BY <3>1, <3>2
  <2>2. CASE \E p \in Research : ChangeProgram(p)
    BY <2>2 DEF ChangeProgram, RegistrationTypeOK
  <2> QED  BY <2>1, <2>2
<1>3. conduct' \in [Research -> Conducts] /\ \A p \in steady' : conduct'[p] = "registers"
  BY DEF ChangeProgram, EditListing, RegistrationTypeOK
<1>4. RegistrationTypeOK'
  BY <1>1, <1>2, <1>3 DEF RegistrationTypeOK
<1>5. ComposedIsWhole'
  BY <1>1 DEF ComposedIsWhole
<1> QED  BY <1>1, <1>3, <1>4, <1>5 DEF Called

LEMMA NewProcessKeeps == ASSUME RegistrationInv, NewProcess PROVE RegistrationInv'
<1> USE DEF RegistrationInv, NewProcess
<1>1. Unset \in Providers
  BY DEF Unset, Providers
<1>2. RegistrationTypeOK'
  BY <1>1 DEF RegistrationTypeOK
<1> QED  BY <1>2 DEF ComposedIsWhole

LEMMA RegisterKeeps == ASSUME RegistrationInv, Register PROVE RegistrationInv'
<1> USE DEF RegistrationInv, Register
<1>1. RegistrationTypeOK'
  <2>1. listing \in Seq(Research)
    BY DEF RegistrationTypeOK
  <2>2. \A i \in 1..Len(listing) : listing[i] = listing[Len(listing) - Len(listing) + i]
    BY <2>1
  <2> QED  BY <2>1, <2>2 DEF RegistrationTypeOK
<1>2. Called' = 0
  <2>1. Len(listing) \in Nat
    BY DEF RegistrationTypeOK
  <2> QED  BY <2>1 DEF Called
<1> QED  BY <1>1, <1>2 DEF ComposedIsWhole

LEMMA CallKeeps == ASSUME RegistrationInv, CallProgram PROVE RegistrationInv'
<1> USE DEF RegistrationInv, CallProgram
<1> DEFINE p == Head(todo)
           n == Called
<1>1. RegistrationTypeOK /\ outcome = "running" /\ todo # <<>>
  OBVIOUS
<1>2. /\ Len(todo) \in Nat \ {0} /\ Len(began) \in Nat /\ Len(todo) <= Len(began)
      /\ p = todo[1] /\ todo' = Tail(todo) /\ todo' \in Seq(Research) /\ Len(todo') = Len(todo) - 1
      /\ \A i \in 1..Len(todo') : todo'[i] = todo[i + 1]
  BY <1>1 DEF RegistrationTypeOK
<1>3. UNCHANGED <<listing, conduct, changes, outcome, began, steady>>
  OBVIOUS
<1>4. n \in Nat /\ Called' = n + 1 /\ n + 1 \in 1..Len(began) /\ p = began[n + 1] /\ p \in Research
  <2>1. n = Len(began) - Len(todo) /\ Called' = Len(began) - (Len(todo) - 1)
    BY <1>2, <1>3 DEF Called
  <2>2. p = began[Len(began) - Len(todo) + 1]
    BY <1>1, <1>2 DEF RegistrationTypeOK
  <2>3. p \in Research
    BY <1>1, <1>2, ElementsOf DEF RegistrationTypeOK
  <2> QED  BY <1>2, <2>1, <2>2, <2>3
<1>5. \/ providers' = [source |-> Nobody, content |-> p]
      \/ providers' = providers /\ conduct[p] # "registers"
  BY DEF Replaces
<1>6. RegistrationTypeOK'
  <2>1. providers' \in Providers
    BY <1>1, <1>4, <1>5 DEF RegistrationTypeOK, Providers
  <2>2. \A i \in 1..Len(todo') : todo'[i] = began[Len(began) - Len(todo') + i]
    <3> SUFFICES ASSUME NEW i \in 1..Len(todo') PROVE todo'[i] = began[Len(began) - Len(todo') + i]
      OBVIOUS
    <3>1. i + 1 \in 1..Len(todo) /\ todo'[i] = todo[i + 1]
      BY <1>2
    <3>2. todo[i + 1] = began[Len(began) - Len(todo) + (i + 1)]
      BY <1>1, <3>1 DEF RegistrationTypeOK
    <3>3. Len(began) - Len(todo) + (i + 1) = Len(began) - Len(todo') + i
      BY <1>2
    <3> QED  BY <3>1, <3>2, <3>3
  <2> QED  BY <1>1, <1>2, <1>3, <2>1, <2>2 DEF RegistrationTypeOK
<1>7. ASSUME NEW i \in 1..Called', began'[i] \in steady'
      PROVE  \E j \in i..Called' : providers'.content = began'[j]
  <2>1. CASE providers' = [source |-> Nobody, content |-> p]
    BY <1>3, <1>4, <1>7, <2>1
  <2>2. CASE providers' = providers /\ conduct[p] # "registers"
    <3>1. i # n + 1
      BY <1>3, <1>4, <1>7, <2>2
    <3>2. i \in 1..n
      BY <1>4, <3>1
    <3>3. PICK j \in i..n : providers.content = began[j]
      BY <1>1, <1>3, <1>7, <3>2
    <3> QED  BY <1>3, <1>4, <2>2, <3>3
  <2> QED  BY <1>5, <2>1, <2>2
<1>8. (\A q \in steady : conduct[q] = "registers")' /\ ComposedIsWhole'
  BY <1>1, <1>3 DEF ComposedIsWhole
<1> QED  BY <1>6, <1>7, <1>8

LEMMA ImportRaisesKeeps == ASSUME RegistrationInv, ImportRaises PROVE RegistrationInv'
<1> USE DEF RegistrationInv, ImportRaises
<1>1. RegistrationTypeOK'
  BY DEF RegistrationTypeOK
<1> QED  BY <1>1 DEF ComposedIsWhole

LEMMA MergeKeeps == ASSUME RegistrationInv, Merge PROVE RegistrationInv'
<1> USE DEF RegistrationInv, Merge
<1>1. RegistrationTypeOK /\ Called = Len(began)
  BY DEF RegistrationTypeOK, Called
<1>2. providers' \in Providers /\ providers'.source = "institution" /\ providers'.content = providers.content
  BY <1>1 DEF RegistrationTypeOK, Providers
<1>3. RegistrationTypeOK'
  BY <1>1, <1>2 DEF RegistrationTypeOK
<1>4. ComposedIsWhole'
  BY <1>1, <1>2 DEF ComposedIsWhole, RegistrationTypeOK
<1> QED  BY <1>3, <1>4

LEMMA RegistrationStep == RegistrationInv /\ [RegistrationNext]_registrationVars => RegistrationInv'
<1> SUFFICES ASSUME RegistrationInv, [RegistrationNext]_registrationVars PROVE RegistrationInv'
  OBVIOUS
<1>1. CASE RegistrationNext
  BY <1>1, OutsideKeeps, NewProcessKeeps, RegisterKeeps, CallKeeps, ImportRaisesKeeps, MergeKeeps
     DEF RegistrationNext
<1>2. CASE UNCHANGED registrationVars
  BY <1>2 DEF registrationVars, RegistrationInv, RegistrationTypeOK, ComposedIsWhole, Called
<1> QED  BY <1>1, <1>2

LEMMA RegistrationInvariant == RegistrationSpec => []RegistrationInv
  BY RegistrationInitial, RegistrationStep, PTL DEF RegistrationSpec

\* For any number of programs, a catalog of any length and any number of changes:
\* when register() returns the work source is the institution's, and no program
\* in order lost its contributions but to a later one of the catalog.
THEOREM NeitherSideClobbers == RegistrationSpec => []ComposedIsWhole
<1>1. RegistrationInv => ComposedIsWhole
  BY DEF RegistrationInv
<1> QED  BY <1>1, RegistrationInvariant, PTL

-----------------------------------------------------------------------------
(* MCViews: the four side by side, in each behaviour one of them at work.     *)

\* Each of the four does in the composition only what it does by itself, so what
\* is proved of status, health, install and uninstall or register() alone holds
\* in the composition that is model-checked.
THEOREM EachAsAlone == ViewsSpec => Spec /\ HealthSpec /\ AgentSpec /\ RegistrationSpec
<1>1. ViewsInit => Init /\ HealthInit /\ AgentInit /\ RegistrationInit
  BY DEF ViewsInit, HealthStill, AgentStill
<1>2. [ViewsNext]_viewVars =>
        /\ [Next]_vars /\ [HealthNext]_healthVars
        /\ [AgentNext]_agentVars /\ [RegistrationNext]_registrationVars
  BY DEF ViewsNext, viewVars
<1> QED  BY <1>1, <1>2, PTL DEF ViewsSpec, Spec, HealthSpec, AgentSpec, RegistrationSpec

\* The types of status, health, install and uninstall and register(), and what
\* their steps rely on: at most one supervisor, a document held only between its
\* read and the answer, a check next only after those before it, nothing booted
\* out without launchctl, and only the rest of the catalog still to be called.
THEOREM TypeCorrect == ViewsSpec => []Typed
<1>1. StatusInv /\ HealthInv /\ AgentInv /\ RegistrationInv => Typed
  BY DEF StatusInv, HealthInv, AgentInv, RegistrationInv, Typed
<1> QED
  BY <1>1, EachAsAlone, StatusInvariant, HealthInvariant, AgentInvariant,
     RegistrationInvariant, PTL
=============================================================================
