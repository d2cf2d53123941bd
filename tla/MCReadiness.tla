---------------------------- MODULE MCReadiness ----------------------------
(* Instances of Readiness for TLC. *)
EXTENDS Readiness, TLC

CONSTANTS p1, p2, shell, venv

\* The second program has no check script.
Contents == (p1 :> {"package", "script", "roadmap"}) @@ (p2 :> {"package", "roadmap"})

\* All in the venv; python3 from PATH and pip from the venv; a venv without pip.
Ways ==
  {[interpreter |-> venv, pip |-> venv, start |-> venv],
   [interpreter |-> shell, pip |-> venv, start |-> venv],
   [interpreter |-> venv, pip |-> shell, start |-> venv]}

Before == {<<shell, p1>>, <<venv, p2>>}

OnPath == {<<venv, p2>>}

Named == {p1, p2}

Lists == {<<>>, <<p1, p2>>}

Skipping == {{}, {p1}}

Good == [t \in Tools |-> "good"]

\* All good; nothing there; a violation beside a missing check; a failing tier.
States ==
  {Good, [t \in Tools |-> "missing"],
   [Good EXCEPT !["bc1"] = "bad", !["bc4"] = "missing"],
   [Good EXCEPT !["simulation"] = "bad"]}
=============================================================================
