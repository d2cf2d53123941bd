----------------------------- MODULE MCOracles -----------------------------
(* Instances of Oracles for TLC. *)
EXTENDS Oracles

\* The events of the built-in scenarios, and one of their required sequences in short.
Events == {"dispatch", "stop", "operator_required"}
NoOperator == {"operator_required"}
TwoCycles == <<"dispatch", "dispatch", "stop">>
=============================================================================
