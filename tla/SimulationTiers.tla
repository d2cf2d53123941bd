-------------------------- MODULE SimulationTiers --------------------------
(***************************************************************************)
(* `verify-simulation --tier T`, for the tiers that look at things which    *)
(* change under them: the provider canary, backup and restore, deployment,  *)
(* soak, and the compatibility matrix.                                      *)
(*                                                                         *)
(* One command runs at a time.  Each tier reads its subject in several      *)
(* steps and turns what it saw into a verdict, and main turns the verdict   *)
(* into an exit code.  A tier that raises leaves no verdict.                *)
(***************************************************************************)
EXTENDS Integers, FiniteSets, Sequences, SequencesExt

CONSTANTS
  Repos,        \* distributions of the compatibility matrix
  Logs,         \* state files that are only appended to, as positions in path order
  Docs,         \* state files that are rewritten, likewise
  Cwds,         \* number of directories the deployment tier starts doctor in
  HotWindow,    \* idle samples in a row that are a hot loop
  MaxSamples,   \* bound: samples of a soak
  MaxEdits,     \* bound: what changes while a command runs
  MaxCommands   \* bound: commands

Files == Logs \union Docs

ASSUME TierBoundsAssumption ==
  {Cwds, HotWindow, MaxSamples, MaxEdits, MaxCommands} \subseteq Nat /\ HotWindow > 0
ASSUME FilesAssumption ==
  IsFiniteSet(Files) /\ Files = 1..Cardinality(Files) /\ Logs \intersect Docs = {}

VARIABLES
  roadmap,   \* the roadmap: a version, or 0 when there is no such file
  auth,      \* auth.json is there
  files,     \* state directory: lines of a log, version of a document, 0 is empty or absent
  present,   \* the directories that exist
  edits,     \* how many things have changed
  homes,     \* temporary homes on disk
  archives,  \* soak archives: a length in seconds and a verdict
  asked,     \* how many commands there were
  tier,      \* the tier of the command
  at,        \* its step
  local,     \* its local variables
  exit,      \* how it ended
  been,      \* what the state directory was since the command began to look
  putBack    \* a state file was cut, removed or put back since

worldVars == <<roadmap, auth, files, present, edits>>
diskVars == <<homes, archives>>
seenVars == <<been, putBack>>
tierVars == <<worldVars, diskVars, asked, tier, at, local, exit, seenVars>>

Tiers == {"provider-canary", "backup-restore", "deployment", "soak", "compatibility-matrix",
          "scenarios", "rollback", "corruption", "disk-pressure"}
Steps == {"idle", "before", "before_read", "auth", "after", "after_read", "route",
          "hash_list", "hash", "copy_list", "copy", "restore",
          "cwd", "doctor", "sample", "archive", "cells", "hermetic"}
Exits == {"none", "0", "1", "2", "78", "raised"}
Samples == {"fine", "idle", "over"}

NoFiles == [f \in Files |-> 0]

\* Of these, always (the directories that were there all along) and homes (the
\* temporary homes before) are what the properties look back on.
Locals ==
  [before : Nat, creds : BOOLEAN, todo : SUBSET Files, hashed : [Files -> Nat],
   copied : [Files -> Nat], cwd : 1..(Cwds + 1), passed : SUBSET (1..Cwds), failed : SUBSET (1..Cwds),
   always : SUBSET (1..Cwds), homes : Nat, samples : Seq(Samples), paused : BOOLEAN,
   installed : SUBSET Repos, unsupported : BOOLEAN]

Idle ==
  [before |-> 0, creds |-> FALSE, todo |-> {}, hashed |-> NoFiles, copied |-> NoFiles,
   cwd |-> 1, passed |-> {}, failed |-> {}, always |-> {}, homes |-> 0, samples |-> <<>>,
   paused |-> FALSE, installed |-> {}, unsupported |-> FALSE]

-----------------------------------------------------------------------------
(* What changes meanwhile.  Only what the running tier looks at matters to   *)
(* it, so only that is changed.                                             *)

Edited ==
  /\ edits < MaxEdits
  /\ edits' = edits + 1
  /\ UNCHANGED <<diskVars, asked, tier, at, exit>>

\* The roadmap is edited, removed, or put back to what it was before.
EditRoadmap ==
  /\ tier = "provider-canary" /\ at # "idle"
  /\ roadmap' \in (0..(edits + 2)) \ {roadmap}
  /\ Edited
  /\ UNCHANGED <<auth, files, present, local, seenVars>>

ToggleAuth ==
  /\ tier = "provider-canary" /\ at # "idle"
  /\ auth' = ~auth
  /\ Edited
  /\ UNCHANGED <<roadmap, files, present, local, seenVars>>

\* The supervisor appends to a log or rewrites a document; or a log is cut, a
\* document put back to what it was before, a file removed.
WriteState(f) ==
  /\ tier = "backup-restore" /\ at # "idle"
  /\ \E n \in 0..(files[f] + 1) :
       /\ n # files[f]
       /\ files' = [files EXCEPT ![f] = n]
       /\ putBack' = (putBack \/ n < files[f])
  /\ been' = been \union {files'}
  /\ Edited
  /\ UNCHANGED <<roadmap, auth, present, local>>

MoveDirectory(d) ==
  /\ tier = "deployment" /\ at # "idle"
  /\ present' = IF d \in present THEN present \ {d} ELSE present \union {d}
  /\ local' = [local EXCEPT !.always = @ \intersect present']
  /\ Edited
  /\ UNCHANGED <<roadmap, auth, files, seenVars>>

-----------------------------------------------------------------------------
(* Verdicts and exit codes. *)

Zero(t) ==
  CASE t = "provider-canary" -> {"CANARY_PASS"}
    [] t \in {"deployment", "compatibility-matrix"} -> {"PASS", "BLOCKED"}
    [] OTHER -> {"PASS"}

ExitCode_BlockedMutant(t, verdict) ==
  IF verdict # "FAIL" THEN "0" ELSE "1"

ExitCode(t, verdict) ==
  IF verdict \in Zero(t) THEN "0"
  ELSE IF verdict = "CANARY_BLOCKED" THEN "78" ELSE "1"

Finish(verdict) ==
  /\ exit' = ExitCode(tier, verdict)
  /\ at' = "idle"
  /\ UNCHANGED <<worldVars, asked, tier, seenVars>>

Raise ==
  /\ exit' = "raised" /\ at' = "idle"
  /\ UNCHANGED <<worldVars, asked, tier, seenVars>>

Go(step) ==
  /\ at' = step
  /\ UNCHANGED <<worldVars, asked, tier, exit, seenVars>>

\* What main refuses before a runner is made: a canary without --live or of
\* another scenario, a soak without or with non-positive hours, an unknown
\* scenario.
Refusals(t) ==
  CASE t \in {"provider-canary", "soak"} -> {"2", "raised"}
    [] t = "scenarios" -> {"78"}
    [] OTHER -> {}

Entry(t) ==
  CASE t = "provider-canary" -> {"before"}
    [] t = "backup-restore" -> {"hash_list"}
    [] t = "deployment" -> {"cwd"}
    [] t = "soak" -> {"sample"}
    [] t = "compatibility-matrix" -> {"cells"}
    [] OTHER -> {"hermetic"}

\* main: the tier is chosen, and its runner made or refused.  The tier command
\* gives backup-restore no state directory, and then it is BLOCKED; only its
\* other callers name one.  deployment --dry-run only renders.
Main(t) ==
  /\ at = "idle" /\ asked < MaxCommands
  /\ asked' = asked + 1 /\ tier' = t
  /\ local' = [Idle EXCEPT !.always = present, !.homes = homes]
  /\ been' = {} /\ putBack' = FALSE
  /\ \/ exit' \in Refusals(t) /\ at' = "idle"
     \/ t = "backup-restore" /\ exit' = ExitCode(t, "BLOCKED") /\ at' = "idle"
     \/ t = "deployment" /\ exit' = ExitCode(t, "PASS") /\ at' = "idle"
     \/ exit' = "none" /\ at' \in Entry(t)
  /\ UNCHANGED <<worldVars, diskVars>>

-----------------------------------------------------------------------------
(* Provider canary: the roadmap before, the credentials, the roadmap after.  *)
(* _sha asks whether the file exists and then reads it.                     *)

CanaryBefore ==
  /\ at = "before"
  /\ IF roadmap = 0 THEN Go("route") ELSE Go("before_read")
  /\ UNCHANGED <<diskVars, local>>

CanaryBeforeRead ==
  /\ at = "before_read"
  /\ \/ roadmap = 0 /\ Raise /\ UNCHANGED local
     \/ roadmap # 0 /\ Go("route") /\ local' = [local EXCEPT !.before = roadmap]
  /\ UNCHANGED diskVars

\* MATHLINT_MODEL_ROUTE is of the command's environment; then auth.json is
\* looked for, and fingerprinted when it was found.
CanaryRoute ==
  /\ at = "route"
  /\ \E routed \in BOOLEAN : local' = [local EXCEPT !.creds = routed /\ auth]
  /\ Go(IF auth THEN "auth" ELSE "after")
  /\ UNCHANGED diskVars

\* The fingerprint reads a file that may be gone again.
CanaryFingerprint ==
  /\ at = "auth"
  /\ IF auth THEN Go("after") ELSE Go("after") \/ Raise
  /\ UNCHANGED <<diskVars, local>>

\* A roadmap that was there and is not, or the reverse, cannot be shown in the
\* detail of the report, which raises.
CanaryVerdict(after) ==
  IF ~local.creds THEN Finish("CANARY_BLOCKED")
  ELSE IF local.before = after THEN Finish("CANARY_PASS")
  ELSE IF local.before = 0 \/ after = 0 THEN Raise
  ELSE Finish("CANARY_BLOCKED")

CanaryAfter ==
  /\ at = "after"
  /\ IF roadmap = 0 THEN CanaryVerdict(0) ELSE Go("after_read")
  /\ UNCHANGED <<diskVars, local>>

CanaryAfterRead_ExistsMutant ==
  /\ at = "after_read"
  /\ CanaryVerdict(local.before)
  /\ UNCHANGED <<diskVars, local>>

CanaryAfterRead ==
  /\ at = "after_read"
  /\ IF roadmap = 0 THEN Raise ELSE CanaryVerdict(roadmap)
  /\ UNCHANGED <<diskVars, local>>

-----------------------------------------------------------------------------
(* Backup and restore: a hash of the live directory, a copy of it, a copy of *)
(* the copy and its hash.  Nobody else writes the copies.                   *)

\* _sha goes over the contents in path order, without names or lengths.
Bytes(f, n) == IF n = 0 THEN <<>> ELSE IF f \in Logs THEN [i \in 1..n |-> 0] ELSE <<n>>
Digest(c) == FlattenSeq([f \in 1..Cardinality(Files) |-> Bytes(f, c[f])])

First(s) == CHOOSE f \in s : \A g \in s : f <= g

List(here, next) ==
  /\ at = here
  /\ local' = [local EXCEPT !.todo = {f \in Files : files[f] # 0}]
  /\ at' = next
  /\ IF here = "hash_list" THEN been' = {files} /\ putBack' = FALSE ELSE UNCHANGED seenVars
  /\ UNCHANGED <<worldVars, diskVars, asked, tier, exit>>

HashList == List("hash_list", "hash")
CopyList == List("copy_list", "copy")

HashFile ==
  /\ at = "hash"
  /\ IF local.todo = {} THEN Go("copy_list") /\ UNCHANGED local
     ELSE LET f == First(local.todo) IN
          /\ local' = [local EXCEPT !.hashed[f] = files[f], !.todo = @ \ {f}]
          /\ Go("hash")
  /\ UNCHANGED diskVars

\* What the listing of the copy named may be gone: the temporary file of a
\* rewrite, which copytree then misses.
CopyRaises ==
  /\ at = "copy"
  /\ Raise
  /\ UNCHANGED <<diskVars, local>>

CopyFile ==
  /\ at = "copy"
  /\ IF local.todo = {} THEN Go("restore") /\ UNCHANGED local
     ELSE LET f == First(local.todo) IN
          /\ local' = [local EXCEPT !.copied[f] = files[f], !.todo = @ \ {f}]
          /\ Go("copy")
  /\ UNCHANGED diskVars

Restore_HashBackupMutant ==
  /\ at = "restore"
  /\ Finish(IF Digest(local.copied) = Digest(local.copied) THEN "PASS" ELSE "FAIL")
  /\ UNCHANGED <<diskVars, local>>

Restore ==
  /\ at = "restore"
  /\ Finish(IF Digest(local.hashed) = Digest(local.copied) THEN "PASS" ELSE "FAIL")
  /\ UNCHANGED <<diskVars, local>>

-----------------------------------------------------------------------------
(* Deployment: `research doctor` from each directory that exists, in a home  *)
(* of its own.                                                              *)

EnterHome ==
  /\ at = "cwd" /\ local.cwd <= Cwds
  /\ IF local.cwd \notin present
     THEN local' = [local EXCEPT !.cwd = @ + 1] /\ UNCHANGED <<at, homes>>
     ELSE at' = "doctor" /\ homes' = homes + 1 /\ UNCHANGED local
  /\ UNCHANGED <<worldVars, archives, asked, tier, exit, seenVars>>

\* isolated_env keeps the home when doctor could not be started, took longer
\* than 30 s or was interrupted ...
DoctorRaises ==
  /\ at = "doctor"
  /\ Raise
  /\ UNCHANGED <<diskVars, local>>

Doctor_KeepHomeMutant ==
  /\ at = "doctor" /\ local.cwd \in present
  /\ \/ local' = [local EXCEPT !.cwd = @ + 1, !.passed = @ \union {local.cwd}]
     \/ local' = [local EXCEPT !.cwd = @ + 1, !.failed = @ \union {local.cwd}]
  /\ Go("cwd")
  /\ UNCHANGED diskVars

\* ... and removes it on a clean exit, whatever doctor's return code.
Doctor ==
  /\ at = "doctor" /\ local.cwd \in present
  /\ homes' = homes - 1
  /\ \/ local' = [local EXCEPT !.cwd = @ + 1, !.passed = @ \union {local.cwd}]
     \/ local' = [local EXCEPT !.cwd = @ + 1, !.failed = @ \union {local.cwd}]
  /\ Go("cwd")
  /\ UNCHANGED archives

DeploymentVerdict ==
  /\ at = "cwd" /\ local.cwd > Cwds
  /\ Finish(IF local.failed = {} THEN "PASS" ELSE "FAIL")
  /\ UNCHANGED <<diskVars, local>>

-----------------------------------------------------------------------------
(* Soak: a sample each second until the time is over, a hot loop is seen or  *)
(* the operator interrupts; the report goes to an archive named by seconds. *)

HotLoop_AnyMutant(s) ==
  Len(s) >= HotWindow /\ \A i \in 1..Len(s) : s[i] = "idle"

HotLoop(s) ==
  Len(s) >= HotWindow /\ \A i \in (Len(s) - HotWindow + 1)..Len(s) : s[i] = "idle"

SoakVerdict(s) ==
  IF (\E i \in 1..Len(s) : s[i] = "over") \/ HotLoop(s) THEN "FAIL" ELSE "PASS"

Sample ==
  /\ at = "sample" /\ Len(local.samples) < MaxSamples
  /\ \E x \in Samples :
       LET s == Append(local.samples, x) IN
       /\ local' = [local EXCEPT !.samples = s]
       /\ Go(IF HotLoop(s) THEN "archive" ELSE "sample")
  /\ UNCHANGED diskVars

TimeIsOver ==
  /\ at = "sample"
  /\ Go("archive")
  /\ UNCHANGED <<diskVars, local>>

Interrupt ==
  /\ at = "sample"
  /\ local' = [local EXCEPT !.paused = TRUE]
  /\ Go("archive")
  /\ UNCHANGED diskVars

\* The whole seconds of the run are the name, so a run of the same length
\* overwrites the archive of an earlier one.
Archive ==
  /\ at = "archive"
  /\ LET verdict == IF local.paused THEN "FAIL" ELSE SoakVerdict(local.samples) IN
     /\ \E n \in {Len(local.samples), Len(local.samples) - 1} \intersect DOMAIN archives :
          archives' = [archives EXCEPT ![n] = verdict]
     /\ Finish(verdict)
  /\ UNCHANGED <<homes, local>>

-----------------------------------------------------------------------------
(* Compatibility matrix, and the tiers that look at nothing that changes. *)

CellVerdict(repo) ==
  IF local'.unsupported THEN "BLOCKED"
  ELSE IF repo \in local'.installed THEN "PASS" ELSE "FAIL"

\* One cell for each repository; a FAIL goes before a BLOCKED.  A version file
\* of another shape raises.
Cells ==
  /\ at = "cells"
  /\ \/ Raise /\ UNCHANGED local
     \/ /\ \E here \in SUBSET Repos, old \in BOOLEAN :
             local' = [local EXCEPT !.installed = here, !.unsupported = old]
        /\ Finish(IF \E r \in Repos : CellVerdict(r) = "FAIL" THEN "FAIL"
                  ELSE IF \E r \in Repos : CellVerdict(r) = "BLOCKED" THEN "BLOCKED" ELSE "PASS")
  /\ UNCHANGED diskVars

\* run_scenario_hermetic: without required or forbidden events the oracles pass
\* the empty streams of each scenario.
ScenariosVerdict == "PASS"

\* Any version that has a name is readable, and nothing is redispatched.
RollbackVerdict == "PASS"

\* Each of the three files counts as refused when corrupt, also when it is there.
CorruptionVerdict == "PASS"

\* Every simulated error counts as surfaced.
DiskPressureVerdict == "PASS"

Hermetic ==
  /\ at = "hermetic"
  /\ Finish(CASE tier = "scenarios"  -> ScenariosVerdict
              [] tier = "rollback"   -> RollbackVerdict
              [] tier = "corruption" -> CorruptionVerdict
              [] OTHER               -> DiskPressureVerdict)
  /\ UNCHANGED <<diskVars, local>>

-----------------------------------------------------------------------------
TiersInit ==
  /\ roadmap \in {0, 1} /\ auth = TRUE
  /\ files \in {NoFiles, [f \in Files |-> 1]} /\ present = 1..Cwds /\ edits = 0
  /\ homes = 0 /\ archives = [n \in 0..MaxSamples |-> "none"]
  /\ asked = 0 /\ tier = "scenarios" /\ at = "idle" /\ local = Idle /\ exit = "none" /\ been = {}
  /\ putBack = FALSE

TiersNext ==
  \/ EditRoadmap \/ ToggleAuth \/ (\E f \in Files : WriteState(f))
  \/ (\E d \in 1..Cwds : MoveDirectory(d))
  \/ (\E t \in Tiers : Main(t))
  \/ CanaryBefore \/ CanaryBeforeRead \/ CanaryRoute \/ CanaryFingerprint
  \/ CanaryAfter \/ CanaryAfterRead
  \/ HashList \/ HashFile \/ CopyList \/ CopyFile \/ CopyRaises \/ Restore
  \/ EnterHome \/ Doctor \/ DoctorRaises \/ DeploymentVerdict
  \/ Sample \/ TimeIsOver \/ Interrupt \/ Archive
  \/ Cells \/ Hermetic

TiersSpec == TiersInit /\ [][TiersNext]_tierVars

-----------------------------------------------------------------------------
(* Properties. *)

\* Every variable has its type, a command leaves at most one home behind, and
\* an exit code belongs to a command that is over.
TiersTypeOK ==
  /\ roadmap \in Nat /\ auth \in BOOLEAN /\ files \in [Files -> Nat]
  /\ present \in SUBSET (1..Cwds) /\ edits \in Nat
  /\ homes \in 0..asked /\ asked \in Nat
  /\ DOMAIN archives = 0..MaxSamples
  /\ \A n \in 0..MaxSamples : archives[n] \in {"none", "PASS", "FAIL"}
  /\ tier \in Tiers /\ at \in Steps /\ exit \in Exits
  /\ local \in Locals /\ putBack \in BOOLEAN
  /\ at # "idle" => exit = "none"

\* A backup that exits 0 restored a state the directory had as a whole at some
\* moment, however the supervisor wrote while it was hashed and copied file by
\* file.  Only when a file was cut, removed or put back meanwhile may hash and
\* copy agree on a state that never was.  And a canary that passes leaves the
\* roadmap as it read it at first: an edit that stands is told, one that was put
\* back in between is not.
SnapshotIsReal ==
  exit = "0" =>
    /\ tier = "backup-restore" => putBack \/ local.copied \in been
    /\ tier = "provider-canary" => roadmap = local.before

HotSomewhere(s) ==
  \E i \in HotWindow..Len(s) : \A j \in (i - HotWindow + 1)..i : s[j] = "idle"

\* Exit 0 is earned: in a deployment doctor passed in every directory that was
\* there all along and no home is left; no sample of a soak was over its budget
\* and no stretch of it idle, and nobody interrupted it; a canary had its
\* credentials; and every distribution is installed, unless the Python version is
\* one that is not supported.
PassIsEarned ==
  exit = "0" =>
    /\ tier = "deployment" =>
         /\ local.cwd > Cwds => local.always \subseteq local.passed
         /\ homes = local.homes
    /\ tier = "soak" =>
         /\ \A i \in 1..Len(local.samples) : local.samples[i] # "over"
         /\ ~HotSomewhere(local.samples) /\ ~local.paused
    /\ tier = "provider-canary" => local.creds
    /\ tier = "compatibility-matrix" => local.unsupported \/ Repos \subseteq local.installed
=============================================================================
