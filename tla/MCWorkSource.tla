---------------------------- MODULE MCWorkSource ----------------------------
(* Instances of WorkSource for TLC: what MathProject.load can do in each. *)
EXTENDS WorkSource

NeverLoads  == {FALSE}
AlwaysLoads == {TRUE}
=============================================================================
