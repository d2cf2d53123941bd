----------------------------- MODULE LaunchAgent -----------------------------
(***************************************************************************)
(* `research install` and `research uninstall`, read by read: a plist is    *)
(* rendered, compared with the one on disk, written and handed to launchd,  *)
(* or booted out and removed.                                              *)
(*                                                                         *)
(* Lifecycle takes each of the two as one step.  Here they stop half way,   *)
(* launchctl fails, the operator edits what is rendered, logs out and in,   *)
(* and a second operator may be at it too.                                  *)
(***************************************************************************)
EXTENDS Naturals

CONSTANTS
  Operators,
  None,       \* no plist, nothing loaded
  Half,       \* a plist whose writing was cut short
  MaxEdition, \* bound: editions of what is rendered
  MaxRuns     \* bound: commands and accidents

ASSUME AgentAssumption ==
  /\ MaxEdition \in Nat \ {0} /\ MaxRuns \in Nat
  /\ None \notin Nat /\ Half \notin Nat /\ None # Half

VARIABLES
  launchctl,  \* launchctl is on the PATH
  edition,    \* what template, paths and configuration render to
  ready,      \* label, template, binary and configuration are there
  plist,      \* the plist on disk
  loaded,     \* what launchd has loaded
  task,       \* what each operator's command is at
  runs,       \* how many commands and accidents there were
  overlapped  \* two commands were under way at once

machineVars == <<launchctl, edition, ready>>
agentVars == <<machineVars, plist, loaded, task, runs, overlapped>>

Editions == 1..MaxEdition
Steps == {"idle", "compare", "write", "bootstrap", "look", "bootout", "unlink"}
Exits == {"none", "0", "refused", "failed", "raised"}

Task == [pc : Steps, dry : BOOLEAN, rendered : Editions \union {None}, exit : Exits]

\* No command yet.
Resting == [pc |-> "idle", dry |-> FALSE, rendered |-> None, exit |-> "none"]

Busy == {o \in Operators : task[o].pc # "idle"}

-----------------------------------------------------------------------------
At(o, step) == task[o].pc = step

Go(o, step) == task' = [task EXCEPT ![o].pc = step]

Exit(o, code) == task' = [task EXCEPT ![o] = [Resting EXCEPT !.exit = code]]

Asked ==
  /\ runs < MaxRuns
  /\ runs' = runs + 1
  /\ overlapped' = (overlapped \/ Busy # {})

\* _cmd_install: without a label, a template, the binary or the configuration
\* it exits 5 to 8; else the plist is rendered and shown.
Install(o) ==
  /\ At(o, "idle") /\ Asked
  /\ IF ~ready THEN Exit(o, "refused")
     ELSE \E dry \in BOOLEAN :
            task' = [task EXCEPT ![o] = [pc |-> "compare", dry |-> dry, rendered |-> edition, exit |-> "none"]]
  /\ UNCHANGED <<machineVars, plist, loaded>>

\* install_plist: another plist under the label is not overwritten.
Compare_OverwriteMutant(o) ==
  /\ At(o, "compare")
  /\ CASE plist = task[o].rendered -> Exit(o, "0")
       [] task[o].dry -> Exit(o, "0")
       [] OTHER -> Go(o, "write")
  /\ UNCHANGED <<machineVars, plist, loaded, runs, overlapped>>

Compare(o) ==
  /\ At(o, "compare")
  /\ CASE plist = task[o].rendered -> Exit(o, "0")
       [] plist \notin {task[o].rendered, None} -> Exit(o, "failed")
       [] plist = None /\ task[o].dry -> Exit(o, "0")
       [] OTHER -> Go(o, "write")
  /\ UNCHANGED <<machineVars, plist, loaded, runs, overlapped>>

Write(o) ==
  /\ At(o, "write")
  /\ plist' = task[o].rendered
  /\ IF launchctl THEN Go(o, "bootstrap") ELSE Exit(o, "0")
  /\ UNCHANGED <<machineVars, loaded, runs, overlapped>>

\* launchctl bootstrap loads the file that is there now, or fails; it fails
\* when something is loaded under the label.
Bootstrap(o) ==
  /\ At(o, "bootstrap")
  /\ \/ loaded = None /\ plist \in Editions /\ loaded' = plist /\ Exit(o, "0")
     \/ UNCHANGED loaded /\ Exit(o, "failed")
  /\ UNCHANGED <<machineVars, plist, runs, overlapped>>

Uninstall(o) ==
  /\ At(o, "idle") /\ Asked
  /\ \E dry \in BOOLEAN :
       task' = [task EXCEPT ![o] = [Resting EXCEPT !.pc = "look", !.dry = dry]]
  /\ UNCHANGED <<machineVars, plist, loaded>>

\* uninstall_plist: without a plist there is nothing to do; which supervisor
\* the plist is of is not looked at.
Look(o) ==
  /\ At(o, "look")
  /\ IF plist = None \/ task[o].dry THEN Exit(o, "0")
     ELSE Go(o, IF launchctl THEN "bootout" ELSE "unlink")
  /\ UNCHANGED <<machineVars, plist, loaded, runs, overlapped>>

\* Return codes 0 and 36, nothing loaded, go on; any other one ends it.
Bootout(o) ==
  /\ At(o, "bootout")
  /\ \/ loaded' = None /\ Go(o, "unlink")
     \/ UNCHANGED loaded /\ Exit(o, "failed")
  /\ UNCHANGED <<machineVars, plist, runs, overlapped>>

\* unlink raises when the plist has gone meanwhile.
Unlink(o) ==
  /\ At(o, "unlink")
  /\ plist' = None
  /\ Exit(o, IF plist = None THEN "raised" ELSE "0")
  /\ UNCHANGED <<machineVars, loaded, runs, overlapped>>

-----------------------------------------------------------------------------
(* Accidents and everything else. *)

Accident ==
  /\ runs < MaxRuns
  /\ runs' = runs + 1
  /\ UNCHANGED overlapped

\* A command is killed; one that writes leaves what it wrote so far.
Killed(o) ==
  /\ o \in Busy /\ Accident
  /\ plist' \in IF At(o, "write") THEN {plist, Half} ELSE {plist}
  /\ Exit(o, "raised")
  /\ UNCHANGED <<machineVars, loaded>>

\* The operator edits the template, moves a path or removes the configuration.
Edit ==
  /\ Accident
  /\ \/ edition < MaxEdition /\ edition' = edition + 1 /\ UNCHANGED ready
     \/ ready' = ~ready /\ UNCHANGED edition
  /\ UNCHANGED <<launchctl, plist, loaded, task>>

\* With the session launchd forgets the agent; at login it loads, RunAtLoad,
\* what is in LaunchAgents.  A command under way ends with the session.
LogOutAndIn ==
  /\ launchctl /\ Busy = {} /\ Accident
  /\ loaded' = IF plist \in Editions THEN plist ELSE None
  /\ UNCHANGED <<machineVars, plist, task>>

AgentInit ==
  /\ launchctl \in BOOLEAN /\ edition = 1 /\ ready = TRUE
  /\ plist = None /\ loaded = None
  /\ task = [o \in Operators |-> Resting]
  /\ runs = 0 /\ overlapped = FALSE

AgentNext ==
  \/ \E o \in Operators :
       \/ Install(o) \/ Compare(o) \/ Write(o) \/ Bootstrap(o)
       \/ Uninstall(o) \/ Look(o) \/ Bootout(o) \/ Unlink(o)
       \/ Killed(o)
  \/ Edit \/ LogOutAndIn

AgentSpec == AgentInit /\ [][AgentNext]_agentVars

-----------------------------------------------------------------------------
(* Properties. *)

\* Every variable has its type, a command that writes or loads has something
\* rendered, and without launchctl nothing is loaded or booted out.
AgentTypeOK ==
  /\ launchctl \in BOOLEAN /\ edition \in Editions /\ ready \in BOOLEAN
  /\ plist \in Editions \union {None, Half} /\ loaded \in Editions \union {None}
  /\ task \in [Operators -> Task] /\ runs \in 0..MaxRuns /\ overlapped \in BOOLEAN
  /\ \A o \in Operators : task[o].pc \in {"compare", "write", "bootstrap"} => task[o].rendered \in Editions
  /\ \A o \in Operators : task[o].pc \in {"bootstrap", "bootout"} => launchctl
  /\ ~launchctl => loaded = None

\* What launchd has loaded is what is on disk, so that uninstall finds it: an
\* edit, a command killed at any step or a launchctl that fails never leaves an
\* agent that no plist, or another one, stands for.  Two commands at once may.
NoOrphanAgent == loaded # None /\ ~overlapped => plist = loaded
=============================================================================
