------------------------------- MODULE Health -------------------------------
(***************************************************************************)
(* `research health`: five checks one after the other, while the things     *)
(* they look at change.                                                    *)
(*                                                                         *)
(* run_health calls the green gate, mathlint system-readiness, mathlint     *)
(* roadmap, the comparison of the paired-smoke receipt with math's HEAD and *)
(* the supervisor probe.  A check answers ok or FAIL, or raises, and then   *)
(* no report is printed at all.                                            *)
(***************************************************************************)
EXTENDS Naturals, Sequences

CONSTANTS
  MaxHead,     \* bound: commits of math
  MaxUpsets    \* bound: changes that are not commits

ASSUME HealthBoundsAssumption == {MaxHead, MaxUpsets} \subseteq Nat

VARIABLES
  gate,      \* the green gate's script and verdict
  tool,      \* what mathlint system-readiness does
  program,   \* the program in the catalog and on disk
  roadmap,   \* what mathlint roadmap does
  receipt,   \* the paired-smoke receipt: the commit it names, or what is wrong with it
  head,      \* math's HEAD; 0 when there is no commit to name
  git,       \* what git does
  alive,     \* whether the probe finds a supervisor
  upsets,    \* how much was changed
  at,        \* the check that is next
  recorded,  \* the commit that was read from the receipt
  checks,    \* the verdicts so far
  ending     \* how the command ended

outsideVars == <<gate, tool, program, roadmap, receipt, head, git, alive, upsets>>
runVars == <<at, recorded, checks, ending>>
healthVars == <<outsideVars, runVars>>

Gates    == {"missing", "hangs", "green", "red"}
Tools    == {"absent", "hangs", "silent", "garbage", "drifted", "answers"}
Programs == {"unknown", "no_checkout", "present", "bad_catalog"}
Roadmaps == {"hangs", "fails", "no_kind", "closed", "open"}
Gits     == {"absent", "hangs", "fails", "works"}
Receipts == [is : {"missing", "unreadable", "no_object", "names"}, commit : Nat]

\* A receipt damaged or written by hand names no commit.
Naming(c) == [is |-> "names", commit |-> c]
BadReceipts == {[is |-> b, commit |-> 0] : b \in {"missing", "unreadable", "no_object"}}

-----------------------------------------------------------------------------
(* What happens meanwhile. *)

Upset ==
  /\ upsets < MaxUpsets
  /\ upsets' = upsets + 1
  /\ \/ gate' \in Gates /\ UNCHANGED <<tool, program, roadmap, receipt, git, alive>>
     \/ tool' \in Tools /\ UNCHANGED <<gate, program, roadmap, receipt, git, alive>>
     \/ program' \in Programs /\ UNCHANGED <<gate, tool, roadmap, receipt, git, alive>>
     \/ roadmap' \in Roadmaps /\ UNCHANGED <<gate, tool, program, receipt, git, alive>>
     \/ receipt' \in BadReceipts \union {Naming(0)} /\ UNCHANGED <<gate, tool, program, roadmap, git, alive>>
     \/ git' \in Gits /\ UNCHANGED <<gate, tool, program, roadmap, receipt, alive>>
     \/ alive' = ~alive /\ UNCHANGED <<gate, tool, program, roadmap, receipt, git>>
  /\ UNCHANGED <<head, runVars>>

\* A commit in math: HEAD never comes back to an earlier one.
Commit ==
  /\ head < MaxHead
  /\ head' = head + 1
  /\ UNCHANGED <<gate, tool, program, roadmap, receipt, git, alive, upsets, runVars>>

\* mathlint first-run records the HEAD of the moment.
FirstRun ==
  /\ receipt' = Naming(head)
  /\ UNCHANGED <<gate, tool, program, roadmap, head, git, alive, upsets, runVars>>

-----------------------------------------------------------------------------
(* The command. *)

Report(ok) ==
  /\ checks' = Append(checks, ok)
  /\ at' = at + 1
  /\ UNCHANGED <<outsideVars, ending>>

Abort ==
  /\ ending' = "raised"
  /\ at' = 0
  /\ UNCHANGED <<outsideVars, recorded, checks>>

\* run_health begins.
Begin ==
  /\ at = 0
  /\ at' = 1 /\ checks' = <<>> /\ ending' = "none" /\ recorded' = 0
  /\ UNCHANGED outsideVars

HermeticGate ==
  /\ at = 1
  /\ Report(gate = "green")
  /\ UNCHANGED recorded

\* mathlint that answers with a JSON object is the one that makes it raise: the
\* parsed payload is asked for .get("checks"), which it lacks.
LivePreflight ==
  /\ at = 2
  /\ IF tool \in {"drifted", "answers"} THEN Abort ELSE Report(FALSE) /\ UNCHANGED recorded

\* A catalog of another shape or a roadmap that takes too long raises; mathlint
\* that is absent fails the roadmap too; a roadmap that fails or
\* names no kind leaves the gate open.
ReviewGate ==
  /\ at = 3
  /\ IF program = "bad_catalog" THEN Abort
     ELSE IF program # "present" \/ tool = "absent" THEN Report(FALSE) /\ UNCHANGED recorded
     ELSE IF roadmap = "hangs" THEN Abort
     ELSE Report(roadmap # "closed") /\ UNCHANGED recorded

\* _check_receipt_freshness, first part: the receipt is read.
ReadReceipt ==
  /\ at = 4
  /\ \/ receipt.is = "no_object" /\ Abort
     \/ /\ receipt.is \in {"missing", "unreadable"}
        /\ checks' = Append(checks, FALSE) /\ at' = 6
        /\ UNCHANGED <<outsideVars, recorded, ending>>
     \/ /\ receipt.is = "names"
        /\ recorded' = receipt.commit /\ at' = 5
        /\ UNCHANGED <<outsideVars, checks, ending>>

\* What git rev-parse prints: nothing when it fails.
HeadSeen == IF git = "works" THEN head ELSE 0

CompareHead_AncestorMutant ==
  /\ at = 5
  /\ IF git = "hangs" THEN Abort
     ELSE Report(git # "absent" /\ recorded <= HeadSeen) /\ UNCHANGED recorded

\* ... then HEAD.  A receipt that names no commit equals the HEAD of a
\* repository git cannot read.
CompareHead ==
  /\ at = 5
  /\ IF git = "hangs" THEN Abort
     ELSE Report(git # "absent" /\ recorded = HeadSeen) /\ UNCHANGED recorded

SupervisorAlive ==
  /\ at = 6
  /\ checks' = Append(checks, alive)
  /\ ending' = "reported" /\ at' = 0
  /\ UNCHANGED <<outsideVars, recorded>>

-----------------------------------------------------------------------------
HealthInit ==
  /\ gate = "green" /\ tool \in Tools /\ program = "present" /\ roadmap = "open"
  /\ receipt = Naming(0) /\ head = 0 /\ git = "works" /\ alive = TRUE /\ upsets = 0
  /\ at = 0 /\ recorded = 0 /\ checks = <<>> /\ ending = "none"

HealthNext ==
  \/ Upset \/ Commit \/ FirstRun
  \/ Begin \/ HermeticGate \/ LivePreflight \/ ReviewGate
  \/ ReadReceipt \/ CompareHead \/ SupervisorAlive

HealthSpec == HealthInit /\ [][HealthNext]_healthVars

-----------------------------------------------------------------------------
(* Properties. *)

\* Every variable has its type, and a check is next only while none has raised
\* and those before it have answered.
HealthTypeOK ==
  /\ gate \in Gates /\ tool \in Tools /\ program \in Programs /\ roadmap \in Roadmaps
  /\ receipt \in Receipts /\ head \in 0..MaxHead /\ git \in Gits /\ alive \in BOOLEAN
  /\ upsets \in 0..MaxUpsets /\ at \in 0..6 /\ recorded \in 0..MaxHead
  /\ checks \in Seq(BOOLEAN) /\ ending \in {"none", "reported", "raised"} 
  /\ at > 0 => ending = "none"
  /\ at \in 1..4 => Len(checks) = at - 1
  /\ at = 5 => Len(checks) = 3
  /\ at = 6 => Len(checks) = 4

\* The receipt is read before HEAD: while commits and first runs go on, a
\* receipt that is called fresh, if it names a commit at all, names the HEAD of
\* that moment, and so does the receipt then on disk unless it was damaged.
FreshIsFresh ==
  [][ at = 5 /\ at' = 6 /\ Len(checks') = 4 /\ checks'[4] =>
        \/ recorded = 0
        \/ recorded = head /\ (receipt.commit # 0 => receipt.commit = head) ]_healthVars
=============================================================================
