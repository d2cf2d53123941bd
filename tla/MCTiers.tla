------------------------------ MODULE MCTiers ------------------------------
(***************************************************************************)
(* The tiers of verify-simulation, for TLC: one behaviour runs the release  *)
(* tier or the others, and what the other looks at stays as it is.          *)
(***************************************************************************)
EXTENDS SimulationTiers, ReleaseGate

VARIABLE releasing

mcVars == <<releasing, tierVars, releaseVars>>

MCInit == TiersInit /\ ReleaseInit /\ releasing \in BOOLEAN /\ (releasing => roadmap = 0 /\ files = NoFiles)

MCNext ==
  \/ releasing /\ ReleaseNext /\ UNCHANGED <<releasing, tierVars>>
  \/ ~releasing /\ TiersNext /\ UNCHANGED <<releasing, releaseVars>>

\* The types of both.
TypeOK == TiersTypeOK /\ ReleaseTypeOK

MCSpec == MCInit /\ [][MCNext]_mcVars
=============================================================================
