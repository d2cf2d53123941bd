------------------------------- MODULE MCViews -------------------------------
(***************************************************************************)
(* What goes on beside the supervisor, for TLC: one behaviour uses status,   *)
(* health, install and uninstall, or registers the provider, and what the    *)
(* others look at stays as it is.                                           *)
(***************************************************************************)
EXTENDS StatusHeadline, Health, LaunchAgent, Registration, TLC

VARIABLE view

viewVars == <<view, vars, healthVars, agentVars, registrationVars>>

HealthStill == HealthInit /\ tool = "absent"
AgentStill  == AgentInit /\ launchctl

ViewsInit ==
  /\ Init /\ RegistrationInit
  /\ \/ view = "status" /\ HealthStill /\ AgentStill
     \/ view = "health" /\ HealthInit /\ AgentStill
     \/ view = "agent" /\ HealthStill /\ AgentInit
     \/ view = "register" /\ HealthStill /\ AgentStill

ViewsNext ==
  \/ view = "status" /\ Next /\ UNCHANGED <<view, healthVars, agentVars, registrationVars>>
  \/ view = "health" /\ HealthNext /\ UNCHANGED <<view, vars, agentVars, registrationVars>>
  \/ view = "agent" /\ AgentNext /\ UNCHANGED <<view, vars, healthVars, registrationVars>>
  \/ view = "register" /\ RegistrationNext /\ UNCHANGED <<view, vars, healthVars, agentVars>>

ViewsSpec == ViewsInit /\ [][ViewsNext]_viewVars

\* The types of the three.
Typed == TypeOK /\ HealthTypeOK /\ AgentTypeOK /\ RegistrationTypeOK

\* No property tells one pid or one operator from another.
Symmetry == Permutations(Pids) \union Permutations(Operators) \union Permutations(Research)
=============================================================================
