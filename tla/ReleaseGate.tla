---------------------------- MODULE ReleaseGate ----------------------------
(***************************************************************************)
(* `verify-simulation --tier release`: seven rows of evidence, one after    *)
(* the other, while the tree they are read from is edited.                  *)
(*                                                                         *)
(* Each row reads its own files when its turn comes; the report passes when *)
(* every row is PASS or NOT_APPLICABLE.  A row that raises leaves no report. *)
(***************************************************************************)
EXTENDS Naturals, Sequences

CONSTANT MaxChanges   \* bound: edits of the tree

ASSUME MaxChangesAssumption == MaxChanges \in Nat

VARIABLES
  markers,   \* tiers that tests are marked with
  claims,    \* the claim manifest
  mutants,   \* the list of critical mutants
  truth,     \* the durable documents
  script,    \* the prime-directive script
  changes,   \* how many edits there were
  row,       \* the row that is next; 0 when no command runs
  rows,      \* the statuses so far
  releaseExit,
  throughout,  \* the rows whose evidence was at fault all along
  everFaulty   \* the rows whose evidence was at fault at some moment

treeVars == <<markers, claims, mutants, truth, script>>
commandVars == <<row, rows, releaseExit>>
faultVars == <<throughout, everFaulty>>
releaseVars == <<treeVars, changes, commandVars, faultVars>>

\* "ghost" stands for a list that is not there: the file of the mutants, or any
\* mark of a tier before the tests were marked.  A forbidden mark may be in a
\* document that lasts or in one of .specify/specs.
Marks     == {"ghost", "some", "all"}
Claims    == {"missing", "malformed", "unsupported", "supported"}
Mutants   == {"ghost", "malformed", "unresolved", "resolved"}
Documents == {"clean", "marked", "marked_specs"}
Scripts   == {"missing", "hangs", "hits", "clean"}
Statuses  == {"PASS", "FAIL", "NOT_APPLICABLE"}

\* The rows whose evidence is at fault, as release.py understands it: tiers
\* nobody marked yet and a list of mutants that is missing are not at fault.
Faulty ==
  {i \in 1..7 :
     \/ i = 1 /\ markers = "some"
     \/ i = 2 /\ claims # "supported"
     \/ i = 4 /\ mutants \in {"unresolved", "malformed"}
     \/ i = 6 /\ truth # "clean"
     \/ i = 7 /\ script # "clean"}

-----------------------------------------------------------------------------
Change ==
  /\ changes < MaxChanges
  /\ changes' = changes + 1
  /\ \/ markers' \in Marks /\ UNCHANGED <<claims, mutants, truth, script>>
     \/ claims' \in Claims /\ UNCHANGED <<markers, mutants, truth, script>>
     \/ mutants' \in Mutants /\ UNCHANGED <<markers, claims, truth, script>>
     \/ truth' \in Documents /\ UNCHANGED <<markers, claims, mutants, script>>
     \/ script' \in Scripts /\ UNCHANGED <<markers, claims, mutants, truth>>
  /\ throughout' = throughout \intersect Faulty'
  /\ everFaulty' = everFaulty \union Faulty'
  /\ UNCHANGED commandVars

StartRelease ==
  /\ row = 0
  /\ row' = 1 /\ rows' = <<>> /\ releaseExit' = "none"
  /\ throughout' = Faulty /\ everFaulty' = Faulty
  /\ UNCHANGED <<treeVars, changes>>

Row(i, status) ==
  /\ row = i
  /\ rows' = Append(rows, status)
  /\ row' = i + 1
  /\ UNCHANGED <<treeVars, changes, releaseExit, faultVars>>

Verdict(ok) == IF ok THEN "PASS" ELSE "FAIL"

PrimaryTiers ==
  Row(1, IF markers = "ghost" THEN "NOT_APPLICABLE" ELSE Verdict(markers = "all"))

ClaimManifest == Row(2, Verdict(claims = "supported"))

\* Every registered scenario has every key: metadata_dict writes them all.
ScenarioMetadata == Row(3, "PASS")

MutationKilled_SurvivorMutant == Row(4, "PASS")

\* The list is parsed without a guard; a missing one has no mutants to survive.
MutationKilled ==
  \/ mutants # "malformed" /\ Row(4, Verdict(mutants # "unresolved"))
  \/ /\ row = 4 /\ mutants = "malformed"
     /\ row' = 0 /\ releaseExit' = "raised"
     /\ UNCHANGED <<treeVars, changes, rows, faultVars>>

\* The scenario is built in, and its hermetic run passes every time.
FlakeAudit == Row(5, "PASS")

\* .specify/specs is meant to be left out, but is compared with one part of the
\* path at a time, so its documents count.
DocumentationTruth == Row(6, Verdict(truth = "clean"))

\* Missing, over its 60 s or not clean: the row fails.
PrimeDirective == Row(7, Verdict(script = "clean"))

\* Seven rows make a report; main turns its verdict into the exit code.
ConcludeRelease_LastRowMutant ==
  /\ row = 8
  /\ releaseExit' = IF rows[7] = "PASS" THEN "0" ELSE "1"
  /\ row' = 0
  /\ UNCHANGED <<treeVars, changes, rows, faultVars>>

ConcludeRelease ==
  /\ row = 8
  /\ releaseExit' = IF \A i \in 1..7 : rows[i] \in {"PASS", "NOT_APPLICABLE"} THEN "0" ELSE "1"
  /\ row' = 0
  /\ UNCHANGED <<treeVars, changes, rows, faultVars>>

-----------------------------------------------------------------------------
ReleaseInit ==
  /\ markers = "ghost" /\ claims = "supported" /\ mutants = "resolved"
  /\ truth = "clean" /\ script = "clean" /\ changes = 0
  /\ row = 0 /\ rows = <<>> /\ releaseExit = "none"
  /\ throughout = {} /\ everFaulty = {}

ReleaseNext ==
  \/ Change \/ StartRelease
  \/ PrimaryTiers \/ ClaimManifest \/ ScenarioMetadata \/ MutationKilled
  \/ FlakeAudit \/ DocumentationTruth \/ PrimeDirective \/ ConcludeRelease

ReleaseSpec == ReleaseInit /\ [][ReleaseNext]_releaseVars

-----------------------------------------------------------------------------
(* Properties. *)

\* Every variable has its type, the rows so far are those before the next one,
\* and a fault that was there all along was there at some moment.
ReleaseTypeOK ==
  /\ markers \in Marks /\ claims \in Claims /\ mutants \in Mutants
  /\ truth \in Documents /\ script \in Scripts /\ changes \in Nat
  /\ row \in 0..8 /\ rows \in Seq(Statuses) /\ releaseExit \in {"none", "0", "1", "raised"}
  /\ row > 0 => Len(rows) = row - 1 /\ releaseExit = "none"
  /\ releaseExit \in {"0", "1"} => Len(rows) = 7
  /\ throughout \subseteq everFaulty /\ everFaulty \subseteq 1..7

\* While the tree is edited between the rows: a release that exits 0 has no
\* fault that was there all along, whichever row it belongs to and whatever the
\* other rows say; and one that exits 1 or raises met a fault that was there.
ReleaseIsExact ==
  [][ row # 0 /\ row' = 0 =>
        /\ releaseExit' = "0" => throughout = {}
        /\ releaseExit' = "1" => \E i \in everFaulty : rows[i] = "FAIL"
        /\ releaseExit' = "raised" => 4 \in everFaulty ]_releaseVars
=============================================================================
