----------------------------- MODULE Readiness -----------------------------
(***************************************************************************)
(* From a catalog to a program that can be started: bootstrap clones and   *)
(* installs what the catalog lists, the green gate runs each program's     *)
(* check, and start asks the program's callable for work.                  *)
(*                                                                         *)
(* The three commands are processes of their own and meet in the catalog,  *)
(* the checkouts and the Python environments.  Bootstrap is killed or one  *)
(* of its commands fails, it is run again, and the operator edits the      *)
(* catalog and removes checkouts in between.                               *)
(***************************************************************************)
EXTENDS Integers, Sequences

CONSTANTS
  Programs,    \* names of catalog programs
  NoProgram,   \* none of them
  Envs,        \* Python environments
  Setups,      \* which environment each command works in
  Elsewhere,   \* pairs of environment and program importable from another place
  Bare,        \* those of them that may be on the path without being installed
  Registers,   \* programs whose package names an entry point as the catalog does
  Repository,  \* the files of each program's repository
  Catalogs,    \* what the catalog may list
  Skips,       \* what --skip-program may name
  Toolings,    \* states of the tools that the gate's fixed checks use
  MaxUpsets    \* bound: failed commands, kills and operator interventions

\* What a checkout may hold, as far as the commands tell: the Python package,
\* the check script, the roadmap and the transient directories.
Files == {"package", "script", "roadmap", "build"}

Tools == {"ruff", "bc1", "bc4", "bc5", "autonomy", "compose", "simulation",
          "engine", "pi-monitor"}

\* TRANSIENT_DIRS are not part of a repository: bootstrap would delete them.
ASSUME RepositoryAssumption == Repository \in [Programs -> SUBSET (Files \ {"build"})]
ASSUME NoProgramAssumption == NoProgram \notin Programs
ASSUME RegistersAssumption == Registers \subseteq Programs
ASSUME SetupsAssumption ==
  Setups \subseteq [interpreter : Envs, pip : Envs, start : Envs]
ASSUME CatalogsAssumption == Catalogs \subseteq Seq(Programs)
ASSUME SkipsAssumption == Skips \subseteq SUBSET Programs
ASSUME ToolingsAssumption == Toolings \subseteq [Tools -> {"missing", "good", "bad"}]
ASSUME BoundAssumption == MaxUpsets \in Nat

VARIABLES
  setup,     \* the environments in use
  catalog,   \* programs.toml; empty when it is missing, malformed or empty
  present,   \* programs whose local_path is a directory
  files,     \* what is in it
  origin,    \* where each environment imports each program from
  boot,      \* the bootstrap command
  gate,      \* the green gate
  probe,     \* the question start puts to the program
  covered,   \* programs of a complete bootstrap, untouched by the operator since
  torn,      \* programs whose directory was left behind by a failed clone
  upsets

machine == <<setup, catalog, present, files, origin>>
history == <<covered, torn>>
vars == <<machine, boot, gate, probe, history, upsets>>

Listed(c) == {c[i] : i \in DOMAIN c}

Calm == UNCHANGED upsets
Upset == upsets < MaxUpsets /\ upsets' = upsets + 1

\* find_spec of the package: an editable install is as good as the checkout it
\* points to, and a bare package is found without having been installed.
Importable(env, p) ==
  \/ origin[env][p] \in {"elsewhere", "bare"}
  \/ origin[env][p] = "checkout" /\ "package" \in files[p]

\* No entry point of mathlint.program_work_selection has the catalog's name.
Unnamed(env, p) ==
  \/ origin[env][p] = "bare"
  \/ origin[env][p] = "checkout" /\ p \notin Registers

Whole(p) == p \in present /\ Repository[p] \subseteq files[p]

Idle == [pc |-> "idle", todo |-> <<>>, listed |-> {}, disturbed |-> {}, ok |-> TRUE]

NoGate == [pc |-> "idle", todo |-> <<>>, skip |-> {}, checks |-> [p \in Programs |-> "none"],
           ok |-> TRUE, verdict |-> "none", vouched |-> {}]

NoProbe == [pc |-> "idle", prog |-> NoProgram, found |-> FALSE, unnamed |-> FALSE,
            kind |-> "none", vouched |-> FALSE]

-----------------------------------------------------------------------------
(* Bootstrap. *)

Program == Head(boot.todo)

Step(pc) == boot' = [boot EXCEPT !.pc = pc]
Failed(pc) == boot' = [boot EXCEPT !.pc = pc, !.ok = FALSE]

DevDeps ==
  /\ boot.pc = "idle"
  /\ \/ boot' = [Idle EXCEPT !.pc = "catalog"] /\ Calm
     \/ boot' = [Idle EXCEPT !.pc = "catalog", !.ok = FALSE] /\ Upset
  /\ UNCHANGED <<machine, gate, probe, history>>

\* An unreadable catalog is an empty one.
ReadCatalog ==
  /\ boot.pc = "catalog"
  /\ boot' = [boot EXCEPT !.pc = IF catalog = <<>> THEN "report" ELSE "clone",
                          !.todo = catalog, !.listed = Listed(catalog)]
  /\ UNCHANGED <<machine, gate, probe, history, upsets>>

AlreadyPresent_ImportableMutant ==
  /\ boot.pc = "clone" /\ (Program \in present \/ Importable(setup.interpreter, Program))
  /\ Step("install")
  /\ UNCHANGED <<machine, gate, probe, history, upsets>>

AlreadyPresent ==
  /\ boot.pc = "clone" /\ Program \in present
  /\ Step("install")
  /\ UNCHANGED <<machine, gate, probe, history, upsets>>

\* git makes the directory before it has anything to put into it.
CloneBegins ==
  /\ boot.pc = "clone" /\ Program \notin present
  /\ present' = present \union {Program}
  /\ Step("cloning")
  /\ UNCHANGED <<setup, catalog, files, origin, gate, probe, history, upsets>>

CloneEnds ==
  /\ boot.pc = "cloning"
  /\ files' = [files EXCEPT ![Program] = Repository[Program]]
  /\ Step("install")
  /\ UNCHANGED <<setup, catalog, present, origin, gate, probe, history, upsets>>

\* A clone that fails or is killed takes its directory away, or leaves it with
\* what was checked out so far.
CloneBreaks ==
  \/ /\ present' = present \ {Program}
     /\ UNCHANGED <<files, torn>>
  \/ \E some \in SUBSET Repository[Program] :
       /\ files' = [files EXCEPT ![Program] = some]
       /\ torn' = torn \union {Program}
       /\ UNCHANGED present

CloneFails ==
  /\ boot.pc = "cloning"
  /\ CloneBreaks
  /\ Failed("install")
  /\ Upset
  /\ UNCHANGED <<setup, catalog, origin, gate, probe, covered>>

AlreadyImportable_AnywhereMutant ==
  /\ boot.pc = "install" /\ \E env \in Envs : Importable(env, Program)
  /\ Step("purge")
  /\ UNCHANGED <<machine, gate, probe, history, upsets>>

AlreadyImportable ==
  /\ boot.pc = "install" /\ Importable(setup.interpreter, Program)
  /\ Step("purge")
  /\ UNCHANGED <<machine, gate, probe, history, upsets>>

NothingToInstall ==
  /\ boot.pc = "install" /\ ~Importable(setup.interpreter, Program)
  /\ Program \notin present
  /\ Failed("purge")
  /\ UNCHANGED <<machine, gate, probe, history, upsets>>

PipBegins ==
  /\ boot.pc = "install" /\ ~Importable(setup.interpreter, Program)
  /\ Program \in present
  /\ Step("pip")
  /\ UNCHANGED <<machine, gate, probe, history, upsets>>

\* pip is the one found first, which need not be that of the interpreter.
PipLinks ==
  /\ "package" \in files[Program]
  /\ origin' = [origin EXCEPT ![setup.pip][Program] = "checkout"]

PipEnds ==
  /\ boot.pc = "pip"
  /\ PipLinks
  /\ Step("purge")
  /\ UNCHANGED <<setup, catalog, present, files, gate, probe, history, upsets>>

PipFails ==
  /\ boot.pc = "pip"
  /\ Failed("purge")
  /\ ("package" \notin files[Program] /\ Calm) \/ Upset
  /\ UNCHANGED <<machine, gate, probe, history>>

Purge_OneMoreMutant ==
  /\ boot.pc = "purge"
  /\ \E gone \in SUBSET {"build"} : files' = [files EXCEPT ![Program] = @ \ gone]
  /\ boot' = [boot EXCEPT !.pc = "clone", !.todo = Tail(@)]
  /\ UNCHANGED <<setup, catalog, present, origin, gate, probe, history, upsets>>

\* Errors of rmtree and unlink are ignored.
Purge ==
  /\ boot.pc = "purge"
  /\ \E gone \in SUBSET {"build"} : files' = [files EXCEPT ![Program] = @ \ gone]
  /\ boot' = [boot EXCEPT !.pc = IF Len(boot.todo) = 1 THEN "report" ELSE "clone",
                          !.todo = Tail(@)]
  /\ UNCHANGED <<setup, catalog, present, origin, gate, probe, history, upsets>>

\* BOOTSTRAP COMPLETE, or INCOMPLETE.
Report ==
  /\ boot.pc = "report"
  /\ covered' = IF boot.ok THEN covered \union (boot.listed \ boot.disturbed) ELSE covered
  /\ boot' = Idle
  /\ UNCHANGED <<machine, gate, probe, torn, upsets>>

\* Killed, or ended by an exception: a command that is not found is not caught.
Kill ==
  /\ boot.pc # "idle"
  /\ \/ boot.pc = "cloning" /\ CloneBreaks /\ UNCHANGED origin
     \/ boot.pc = "pip" /\ PipLinks /\ UNCHANGED <<present, files, torn>>
     \/ boot.pc # "cloning" /\ UNCHANGED <<present, files, torn, origin>>
  /\ boot' = Idle
  /\ Upset
  /\ UNCHANGED <<setup, catalog, gate, probe, covered>>

Bootstrap ==
  \/ DevDeps \/ ReadCatalog \/ AlreadyPresent \/ CloneBegins \/ CloneEnds \/ CloneFails
  \/ AlreadyImportable \/ NothingToInstall \/ PipBegins \/ PipEnds \/ PipFails
  \/ Purge \/ Report \/ Kill

-----------------------------------------------------------------------------
(* The green gate. *)

Status(state) ==
  CASE state = "missing" -> "SKIP" [] state = "good" -> "PASS" [] OTHER -> "FAIL"

\* One boundary violation counts for more than a check that cannot run.
RepoBoundary(tools) ==
  LET states == {tools["bc1"], tools["bc4"], tools["bc5"]}
  IN  IF "bad" \in states THEN "FAIL" ELSE IF "missing" \in states THEN "SKIP" ELSE "PASS"

\* The simulation tier follows the composed tests, within the same 30 seconds.
VCompose(tools) ==
  IF tools["compose"] # "good" THEN Status(tools["compose"])
  ELSE IF tools["simulation"] = "good" THEN "PASS" ELSE "FAIL"

FixedChecks(tools) ==
  {Status(tools["ruff"]), RepoBoundary(tools), Status(tools["autonomy"]),
   VCompose(tools), Status(tools["engine"]), Status(tools["pi-monitor"])}

\* The second terminal runs one command at a time and shows its last result.
GateBegins ==
  /\ gate.pc = "idle" /\ probe.pc = "idle"
  /\ \E tools \in Toolings, skip \in Skips :
       gate' = [NoGate EXCEPT !.pc = "catalog", !.skip = skip,
                              !.ok = "FAIL" \notin FixedChecks(tools),
                              !.vouched = {p \in covered : Whole(p)}]
  /\ probe' = NoProbe
  /\ UNCHANGED <<machine, boot, history, upsets>>

GateReads ==
  /\ gate.pc = "catalog"
  /\ gate' = [gate EXCEPT !.pc = "programs", !.todo = catalog]
  /\ UNCHANGED <<machine, boot, probe, history, upsets>>

Outcomes_ImportableMutant(p) ==
  IF p \in gate.skip \/ ~Importable(setup.start, p) \/ "script" \notin files[p]
  THEN {"SKIP"} ELSE {"PASS", "FAIL"}

\* A program without a checkout or a script is skipped, not failed.
Outcomes(p) ==
  IF p \in gate.skip \/ p \notin present \/ "script" \notin files[p]
  THEN {"SKIP"} ELSE {"PASS", "FAIL"}

ProgramCheck ==
  LET p == Head(gate.todo)
  IN  /\ gate.pc = "programs" /\ gate.todo # <<>>
      /\ \E status \in Outcomes(p) :
           gate' = [gate EXCEPT !.todo = Tail(@), !.checks[p] = status,
                                !.ok = @ /\ status # "FAIL"]
      /\ UNCHANGED <<machine, boot, probe, history, upsets>>

GateEnds ==
  /\ gate.pc = "programs" /\ gate.todo = <<>>
  /\ gate' = [gate EXCEPT !.pc = "idle", !.verdict = IF gate.ok THEN "GREEN" ELSE "RED"]
  /\ UNCHANGED <<machine, boot, probe, history, upsets>>

Gate == GateBegins \/ GateReads \/ ProgramCheck \/ GateEnds

-----------------------------------------------------------------------------
(* start's question, in a fresh process. *)

\* Only a program of the catalog is asked.  The registry holds, under their names,
\* the entry points that discovery could load.
Discover(p) ==
  /\ gate.pc = "idle" /\ probe.pc = "idle" /\ p \in Listed(catalog)
  /\ probe' = [NoProbe EXCEPT !.pc = "ask", !.prog = p,
                               !.found = /\ Importable(setup.start, p)
                                         /\ ~Unnamed(setup.start, p),
                               !.unnamed = Unnamed(setup.start, p),
                               !.vouched = p \in covered /\ Whole(p)]
  /\ gate' = NoGate
  /\ UNCHANGED <<machine, boot, history, upsets>>

Answer(kind) ==
  /\ probe.pc = "ask"
  /\ probe' = [probe EXCEPT !.pc = "idle", !.kind = kind]
  /\ UNCHANGED <<machine, boot, gate, history, upsets>>

NoCallable == ~probe.found /\ Answer("no-work-selection-callable")

RoadmapMissing ==
  /\ probe.found /\ "roadmap" \notin files[probe.prog]
  /\ Answer("roadmap-missing")

Asked ==
  /\ probe.found /\ "roadmap" \in files[probe.prog]
  /\ \E kind \in {"open", "no-active-work"} : Answer(kind)

\* mathlint is not importable, or the callable raises or returns something else.
Unanswered == Answer("roadmap-failed")

ReadGate == (\E p \in Programs : Discover(p)) \/ NoCallable \/ RoadmapMissing \/ Asked
            \/ Unanswered

-----------------------------------------------------------------------------
(* The operator. *)

EditCatalog ==
  /\ catalog' \in Catalogs
  /\ Upset
  /\ UNCHANGED <<setup, present, files, origin, boot, gate, probe, history>>

\* What was established of the program holds no longer.
Disturbed(p) ==
  /\ covered' = covered \ {p}
  /\ boot' = [boot EXCEPT !.disturbed = @ \union {p}]
  /\ gate' = [gate EXCEPT !.vouched = @ \ {p}]
  /\ probe' = [probe EXCEPT !.vouched = @ /\ probe.prog # p]

\* Not while bootstrap has a clone of it under way.
RemoveCheckout(p) ==
  /\ p \in present /\ ~(boot.pc = "cloning" /\ Program = p)
  /\ present' = present \ {p}
  /\ files' = [files EXCEPT ![p] = {}]
  /\ torn' = torn \ {p}
  /\ Disturbed(p)
  /\ Upset
  /\ UNCHANGED <<setup, catalog, origin>>

Uninstall(env, p) ==
  /\ origin[env][p] # "none"
  /\ origin' = [origin EXCEPT ![env][p] = "none"]
  /\ Disturbed(p)
  /\ Upset
  /\ UNCHANGED <<setup, catalog, present, files, torn>>

Others ==
  \/ EditCatalog
  \/ \E p \in Programs :
       RemoveCheckout(p) \/ \E env \in Envs : Uninstall(env, p)

-----------------------------------------------------------------------------
\* Checkouts that are there are whole; some programs come from elsewhere, installed
\* there or merely on the path.
Init ==
  /\ setup \in Setups /\ catalog \in Catalogs
  /\ present \in SUBSET Programs
  /\ files = [p \in Programs |-> IF p \in present THEN Repository[p] \union {"build"} ELSE {}]
  /\ \E bare \in SUBSET Bare :
       origin = [env \in Envs |-> [p \in Programs |->
                   CASE <<env, p>> \in bare -> "bare"
                     [] <<env, p>> \in Elsewhere \ bare -> "elsewhere"
                     [] OTHER -> "none"]]
  /\ boot = Idle
  /\ gate = NoGate
  /\ probe = NoProbe
  /\ covered = {} /\ torn = {} /\ upsets = 0

Next == Bootstrap \/ Gate \/ ReadGate \/ Others

Spec == Init /\ [][Next]_vars

-----------------------------------------------------------------------------
(* Properties. *)

\* Every variable has its type; a directory that is not there holds nothing, and
\* each command is at work on programs only while it has some left.
TypeOK ==
  /\ setup \in Setups /\ catalog \in Seq(Programs)
  /\ present \subseteq Programs /\ files \in [Programs -> SUBSET Files]
  /\ \A p \in Programs \ present : files[p] = {}
  /\ origin \in [Envs -> [Programs -> {"none", "elsewhere", "bare", "checkout"}]]
  /\ boot \in [pc : {"idle", "catalog", "clone", "cloning", "install", "pip", "purge", "report"},
               todo : Seq(Programs), listed : SUBSET Programs,
               disturbed : SUBSET Programs, ok : BOOLEAN]
  /\ boot.pc \in {"clone", "cloning", "install", "pip", "purge"} <=> boot.todo # <<>>
  /\ gate \in [pc : {"idle", "catalog", "programs"}, todo : Seq(Programs),
               skip : SUBSET Programs, checks : [Programs -> {"none", "PASS", "FAIL", "SKIP"}],
               ok : BOOLEAN, verdict : {"none", "GREEN", "RED"}, vouched : SUBSET Programs]
  /\ probe \in [pc : {"idle", "ask"}, prog : Programs \union {NoProgram}, found : BOOLEAN,
                unnamed : BOOLEAN,
                kind : {"none", "no-work-selection-callable", "roadmap-missing", "open",
                        "no-active-work", "roadmap-failed"},
                vouched : BOOLEAN]
  /\ covered \subseteq Programs /\ torn \subseteq Programs /\ upsets \in Nat

\* A complete bootstrap has made every program it lists importable, where it
\* looked or where pip put it, however often it was killed or failed before, and
\* the only checkouts that are not whole then are those a clone left behind when
\* it failed, which later runs take for present.
CompleteMeansReady ==
  \A p \in covered :
    /\ Importable(setup.interpreter, p) \/ Importable(setup.pip, p)
    /\ Whole(p) \/ p \in torn

\* When a program was bootstrapped completely, and its checkout was whole, before
\* a gate began, GREEN means that its own check passed: the gate does not skip it
\* unless told to, or unless it has no check.
GreenAfterBootstrap ==
  gate.verdict = "GREEN" =>
    \A p \in gate.vouched \ gate.skip :
      "script" \in Repository[p] => gate.checks[p] \in {"PASS", "none"}

\* In an institution with one environment, start says of a program it was
\* bootstrapped with that it has no callable only if the package that bootstrap took
\* for installed, or installed, has no entry point under the catalog's name, and
\* never that its roadmap is not there.  Bootstrap looks for a module and start for
\* an entry point, so a bare package passes the one and not the other.
KnownAfterBootstrap ==
  (probe.vouched /\ setup.interpreter = setup.pip /\ setup.pip = setup.start) =>
    /\ probe.kind = "no-work-selection-callable" => probe.unnamed
    /\ probe.kind = "roadmap-missing" => "roadmap" \notin Repository[probe.prog]
=============================================================================
