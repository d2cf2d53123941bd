# research-institution: a TLA+ verification project

This directory holds TLA+ models of `research-institution`, the operating-system
layer around an autonomous research loop, the TLC configurations that check
them, and TLAPS proofs of their main properties for every value of the
constants. Paths below are relative to the repository's root; `P/` stands for
`research_institution/` and `V/` for `P/gates/verify_simulation/`.

Contents: [the system](#1-the-system), [the plan](#2-plan),
[the modules](#3-modules), [runs and what they show](#4-runs),
[fairness](#5-fairness), [proofs](#6-proofs), [findings](#7-findings),
[limits](#8-not-modelled).

## 1. The system

Three programs meet at run time. **pi-monitor**, an external supervisor process,
polls for work, runs workers and appends to log files. **mathlint**, an external
kernel, judges whether a line of research has stagnated. **A research program**
is a git repository with a roadmap, reached through a Python entry point.
research-institution sits between them: it is the *source* that pi-monitor
asks for work, it gives the operator the verbs that start, stop and reset the
supervisor, it reads what the supervisor wrote to say how it fares, and it holds
the gates and the harness that decide whether a release may run live.

| component | code | state it keeps | operations |
|---|---|---|---|
| Work source | `P/providers/research_institution_provider.py`, `P/contracts/source_decision.py` | none of its own: reads HEAD, the roadmap, the report ledger and math's stagnation tracker | `select_next_work_for_supervisor` |
| Lifecycle verbs | `P/cli.py`, `P/supervisor.py`, `P/reset.py`, two shell scripts | none of its own: pids, `supervisor.lock`, the state directory | `start`, `stop`, `restart`, `reset`, `install`, `uninstall`, the cycle script |
| LaunchAgent | `P/launchd.py`, the plist template | the plist, what launchd has loaded | `install`, `uninstall`; launchd respawns |
| verify-simulation | `V/oracle/*`, `V/runner.py`, `V/temp_root.py` | four recorded streams, a temp root | five oracles, `run_scenario` |
| Live acceptance | `P/live_acceptance.py` | none: reads two growing logs | `correlate_cycles`, `run_live_acceptance` |
| Status and health | `P/status.py`, `P/status_types.py`, `P/health.py` | none: reads `health.json`, `latest.json`, receipts | headline, five health checks |
| Green gate | `P/gates/aggregate.py`, `P/gates/runner.py` | the report in the making | six fixed checks, then one per program |
| Bootstrap | `P/gates/bootstrap.py` | checkouts, installed packages | dev dependencies, clone, install, purge |
| Dispatcher | `P/dispatcher.py`, `P/contracts/gate_verdict.py` | none: asks the program's callable | `read_gate`, subprocess wrappers |
| Catalog and paths | `P/catalog.py`, `P/paths.py` | a TOML file | parse, resolve |
| Program registration | `P/providers/research_institution_provider.py` (`register`) | mathlint's set of providers | call the programs, merge, register |
| Wire contracts | `P/contracts/*` | none | encode, decode |
| Release, canary, soak | `V/cli.py`, `V/release.py`, `V/canary.py`, `V/deployment.py`, `V/oracle/soak.py`, `V/scenarios.py` | temporary homes, soak archives | run a tier, turn its verdict into an exit code |
| Mutation, compatibility | `V/mutation.py`, `V/compat/*` | none | compare a restored copy, run a cell |
| Prime directive | `P/prime_directive/*` | none | hash and validate single files |
| Repository tooling | `P/tools`, `P/verification`, `scripts/` | none | rewrite, count |

**How they interact.** pi-monitor calls the work source in-process, one call at
a time, and is blocked meanwhile. Everything else is separate processes that
meet only in files and signals: the verbs probe with `pi-monitor status` and
`kill(pid, 0)`, signal, unlink and spawn; the LaunchAgent makes launchd spawn the
same supervisor; status, health and live acceptance read files that the
supervisor is writing. No verb takes a lock. The one mutual exclusion is
`supervisor.lock`, which pi-monitor itself takes when it has booted.

**What is hard.** The verbs race with each other, with launchd and with
supervisors that boot, wedge and die between any two of their steps. A work
decision is assembled from four reads while the operator commits. A report
ledger loses lines when its writer crashes. Oracles must neither pass a damaged
log nor fail a healthy one. A command that reads one log several times sees as
many different logs. What bootstrap reports was done by several runs, some of them killed, and
is relied on by commands that may run in another Python environment. The headline of
`status` is put together from two files of a supervisor that may be gone, and whose
pid may be somebody else's. install and uninstall stop half way between the disk and
launchd. Tiers take minutes over a tree and a state directory that go on changing.
`PROJECT.json` lists each such hazard at its line.

**What makes each component correct.** The work source never runs one operation into an
unbounded series of fruitless sessions, never sleeps through an edit and serves what it
can. The verbs never leave two supervisors at work, remove only what they found dead, and
come back unless a child keeps them that nothing bounds. A PASS of an oracle means what
its documentation says. OK of live acceptance is never inferred from less than was asked
for. COMPLETE, GREEN and what start is told are true of the programs they are said of. The
headline never says that a dead supervisor runs and names the most pressing condition of a
living one. No agent is loaded that no plist stands for. A decision means the same on both
sides of the wire. Registration loses nobody's contributions. Exit 0 of a tier was earned.

## 2. Plan

In order of importance; parts 1 to 9 are done.

1. `WorkSource`: the tick, in a closed loop with supervisor, worker, ledger and
   operator. *Proved.*
2. `Lifecycle` with the abstract `SupervisorInstance`: the verbs around one
   target. *Refinement and safety proved.*
3. `Oracles`: the verify-simulation streams and verdicts. *Proved.*
4. `LiveAcceptance`: correlating cycles against a live writer. *Proved.*
5. `Readiness`: bootstrap, the green gate and start's question to the program. *Proved.*
6. `StatusHeadline`, `Health` and `LaunchAgent`: the verbs beside the lifecycle ones,
   composed in `MCViews`. *Proved.*
7. `SimulationTiers` and `ReleaseGate`: the tiers of verify-simulation, composed in
   `MCTiers`. *Proved.*
8. `DecisionWire`: the envelope of a decision, composed with the decisions
   `WorkSource` returns in `MCDecisions`. *Proved.*
9. `Registration`: `register()` and the programs it calls. *Proved.*

The project keeps to a dozen runs and eight modules of proofs. Where a run must give
way, modules that do not interact share one, with the choice made in `Init`: each of
the behaviours then runs one of them while the others stand still.

Every safety property of a passing run but `NoThirdResearchDispatch` is a theorem. Still
to be done: weaker conditions for the theorems about turn-taking verbs (install and
uninstall, a concurrent start); the contract of live acceptance and of bootstrap as
abstract specifications of their own. Code still to be looked at: reset's dry run.

## 3. Modules

| module | models | proofs |
|---|---|---|
| `WorkSource` | the tick, its guard, the math consult, the loop around it | `WorkSourceProofs` |
| `Lifecycle` | all state-changing verbs, launchd, supervisor processes | `LifecycleProofs` |
| `MCLifecycle` | `Lifecycle` with its targets and what each reset has seen at work | `LifecycleProofs` |
| `SupervisorInstance` | abstract: one supervisor, up and down | |
| `Oracles` | the streams of a simulated run, five oracles, the scenario's verdict | `OraclesProofs` |
| `LiveAcceptance` | the reads of `correlate_cycles` against a writing supervisor | `LiveAcceptanceProofs` |
| `Readiness` | bootstrap, green gate, start's question, the operator between them | `ReadinessProofs` |
| `StatusHeadline` | the two files of a supervisor, the command that reads them | `ViewsProofs` |
| `Health` | five checks one after the other on a host that changes | `ViewsProofs` |
| `LaunchAgent` | install and uninstall read by read, with launchd | `ViewsProofs` |
| `SimulationTiers` | canary, backup, deployment, soak, matrix; main's exit codes | `TiersProofs` |
| `ReleaseGate` | the seven rows of the release tier | `TiersProofs` |
| `DecisionWire` | writing and parsing the envelope of a decision | `ProviderProofs` |
| `Registration` | `register()` against programs that fail each in its own way | `ViewsProofs` |
| `MCViews`, `MCTiers`, `MCDecisions` | compose the modules that share a run | `ViewsProofs`, `TiersProofs`, `ProviderProofs` |
| other `MC*` | for TLC: sets of verbs, scenarios, symmetry | |

Each definition's source lines are in `PROJECT.json` under `map`. Definitions named
`..._...Mutant` are plausible wrong versions of the definition after them: with
one of them in its place the named property fails, which shows that the
property depends on that code.

### WorkSource

One action for each read of a tick at which another actor can move. `ReadRevision` is
`_read_revision` (`git rev-parse`, zeros when it fails). `Asked` is the program's
callable, which reads the roadmap *after* HEAD: `NoCallable`, `ForeignAnswer` (no list of
work requests, which waits as a missing roadmap does), `ProgramRaises` (an exception of no
known family, raised on), `RoadmapMissing`, `RoadmapMalformed`, `NoActiveWork` and
`TakeWork` are its outcomes. A request has the role and the source revision that the
program gave it (`Answers`): the revision the tick handed over, or the HEAD it found
itself. `GuardHolds` is `_check_no_delta_loop`; `Fallback`, `ConsultStale`,
`ConsultRaises` and `ConsultVerdict` are `_consult_math_and_translate`. A Wait of the
guard carries the stamp of the first stuck request, a decision after a consult that of the
candidate; `Fallback` leaves the requests as they are, a verdict sets the role of all, and
an unknown verdict waits. Guard and consult are one step: the only writer of what they
read is the supervisor, which is blocked in the call. `WorkerReports` and
`SupervisorCrash` are the supervisor, its worker and math's intake; a crash loses the
outcome and may leave the ledger with a partial line that swallows the next report
(`Recorded`), as the reader skips malformed lines. `EditRoadmap`, `ChangeProgram` and
`AdmitHorizon` are the operator and the architect. External and modelled from their use
here: the program's callable, `consult`, the supervisor's loop.

The data is abstract: a roadmap is readable, missing or malformed, with a
sequence of operation ids; a revision is the number of commits; a report is an
operation and whether it was a no-delta. The ledger keeps its last `Window` reports,
more than the guard ever looks back.

### Lifecycle

`proc` gives the state of each pid, `lock` is `supervisor.lock`, `status` the pid
`pi-monitor status` reports, `agent` the LaunchAgent. A verb in progress is
`[verb, pc, pid]`, and each probe, signal, unlink and spawn is an action named
after its verb: `StartProbe`, `StartGate`, `StartRecheck`, `StartSpawn` or `LiveRun`,
`StartEnds`; `StopPersist`, `StopTarget`, `StopTerm`, `StopPoll`, `StopKill`;
`ResetDiscover` ... `ResetPurgeRest`; `CycleRemoveLock` ... `CycleLaunch`. `restart` is
stop's steps and then start's, as in the code. start and restart stay `attached` to the
supervisor they spawned until it has ended (`subprocess.call`); stop and restart wait, without
a limit, for `mathlint research-stop` (`StopPersist`). reset's unlink may fail, in silence;
its rmtree takes the lock and `state.json` away one after the other (`ResetPurge`,
`ResetPurgeRest`), and may fail before either of them or between the two. Processes boot
(holding no lock, invisible to probes), acquire the lock or are refused, wedge, exit
and die. A pid is reused only when no file and no command names it. pi-monitor's
lock discipline is external: taken at the end of boot, taken over from a dead
pid, removed on a clean exit.

Switches name the assumptions of an instance. `Serial`: operators wait for one verb and
its boot to finish, though not for a terminal that is attached to its supervisor. `Flaky`:
`pi-monitor status` may fail, which `probe_supervisor` reads as no supervisor.
`GateCloses`: start may be refused.

A behaviour is about one state directory. The cycle script has one of its own, which the
CLI's verbs do not reach: `MCLifecycle` chooses in `target` the verbs that reach the one at
hand (reset reaches both). `elders` holds, for a reset under way, the supervisors that have
been at work ever since it last looked; properties alone read it.

`SupervisorInstance` is the contract: somebody is at work, or nobody is. `Lifecycle`
implements it with the one active process as `holder`.

### Oracles

First the run writes streams (`Emit`, `Deliver`, `Redeliver`, `Leak`, `Finish` with
possibly a torn last line, `Damage`); then the oracles read them, one line per
step and in the order of `run_scenario`, with `Tick`, `ReadAudit`, `ReadReport` and
`ReadFrontier` as the bodies of their loops, and `Aggregate` as the scenario's verdict.
A hash is the number of the line it stands for, so that equal hashes mean equal
text; a changed line has the hash `Edited`. The transcript oracle is
`_fallback_oracle`, the one that runs outside pi-monitor's own test tree. `faults`
and `written` record what really happened and are read by properties only.

### LiveAcceptance

The supervisor appends to two logs (`Dispatch`, `Start`, `Terminate`, `Report`, `Decide`,
`Defer`), crashes, retries and redelivers. The command reads: `ReadAudit` builds the
index, `ReadReports` the reports, `Row` reads the audit log again for one operation's next
decision (the first that follows ends the search; one that says no kind, `bare_decision`,
leaves the row without an answer), and `Conclude` reads it a last time for the marker and
gives the verdict. As the logs only grow, what a read saw is a length. `carried` and
`settled` record what really happened and are read by properties only.

### Readiness

Three commands that meet in the catalog, the checkouts and the environments.
Bootstrap has one action per step and outcome: `DevDeps`, `ReadCatalog`, and for each program
`AlreadyPresent` or `CloneBegins` and how it goes on (`CloneEnds`, `CloneFails`),
`AlreadyImportable`, `NothingToInstall` or `PipBegins` and how it goes on (`PipEnds`,
`PipFails`), then `Purge`; `Report` says COMPLETE when no step failed. `Kill` ends it at any
point. git creates the directory before its contents, and a clone that breaks takes it
away or leaves it (`CloneBreaks`). An install is editable: a program is `Importable`
when its origin says so and the package is still there; that is all that bootstrap's
`find_spec` looks at. start looks for an entry point under the catalog's name, which a program
can be without (`Unnamed`): a package that is only on the path (`Bare`), or one that
registers no such name (not in `Registers`). `setup` says which environment
bootstrap's interpreter, the pip it finds and start work in, because
`runner.run` prefers the venv's pip whatever interpreter runs bootstrap.

The gate is `GateBegins` (the fixed checks, whose tools are missing, good or bad),
`GateReads` the catalog, `ProgramCheck` one program at a time, `GateEnds`. start's question
is `Discover`, when a fresh process finds its entry points, and the answers of
`Dispatcher.read_gate`. `EditCatalog`, `RemoveCheckout` and `Uninstall` are the operator. A
checkout is the set of those parts that a command looks at: package, check script,
roadmap and transient directories.

`covered`, `torn` and the fields `disturbed` and `vouched` record what really happened and
are read by properties only: a program is covered from the end of a complete run until
the operator disturbs it.

### StatusHeadline

The command is `ReadHealth`, `ReadLatest`, `Probe` and `Conclude`; `Classify` is `_classify`,
with `Conditions` in the order in which the code tests them. Around it a supervisor boots,
dies (perhaps in the middle of a write), moves from state to state and rewrites
`health.json` and `latest.json` one at a time, later than its state moved; a pid is given
to another process, which this user may signal or not; the operator purges. A file is
its content or `Unreadable`, which stands for missing, torn and malformed, as the code takes
them for the same. A document need not name its supervisor (`NoPid`); `Probe` is for those
that do (`Names`). Of the two wake-up times the model keeps whether they are set. `lastAlive`,
`settled` and `silent` are what the properties look back on.

### Health

`run_health`: `HermeticGate`, `LivePreflight`, `ReviewGate`, `ReadReceipt` with
`CompareHead`, `SupervisorAlive`. A check reports or raises, and then there is no report
(`Abort`). Commits, first runs and changes of everything else fall between the checks.
Commits are numbered; 0 is what git prints when there is none to name.

### LaunchAgent

`Lifecycle` takes install and uninstall as one step each, for what they mean to the
supervisor. Here they are `Install`, `Compare`, `Write`, `Bootstrap` and `Uninstall`, `Look`,
`Bootout`, `Unlink`, each of which may be the last: launchctl fails, the command is
`Killed`, a second operator is at it. What the template, the paths and the configuration
render to is an `edition`; logging out and in makes launchd load what is on disk
(`RunAtLoad`).

### SimulationTiers and ReleaseGate

`Main` chooses a tier or refuses it; then each tier goes through its steps: the canary's two
readings of the roadmap, each an `exists` and a `read`; a hash, a copy and the hash of the copy,
file by file, while the supervisor appends, rewrites, cuts and removes files and puts back
what was there (`putBack`), and the operator edits the roadmap to and fro; doctor in each directory, in
a home of its own; a soak's samples; the cells of the matrix. `ExitCode` is main's. The
hash of the backup is `Digest`: the contents in path order, without names or lengths, so
that different states may have the same. rollback, corruption and disk-pressure cannot fail
in the code and are constants here. `ReleaseGate` has one action for each row of
evidence and `Change` between them. `been`, `throughout` and `everFaulty` record what
was true meanwhile.

### DecisionWire

`ToWire` and `Parse` are the two functions, on records whose absent fields are `Missing`:
what is kept, what gets a default, what refuses the whole envelope. It has no state;
`MCDecisions` applies it to every decision `WorkSource` reaches.

### Registration

`Register` reads the catalog, `CallProgram` calls the programs one by one, `Merge` adds the work
source to whatever they left. mathlint keeps one set of providers and a registration
replaces it (external, from its use here). A program is missing, registers, raises
before or after it registered, or cannot be imported.

## 4. Runs

A property is an invariant unless it is written as an action or temporal formula in
its module, where a comment states it.

| run | instance | shows |
|---|---|---|
| `ws_program` | no math project, 2 items, lists of up to 2, threshold 3, crashes, one edit | `NoDeltaRunBounded`, `NoLostWake`, `ServedEventually` |
| `ws_math` | math always loads, lists of 1, two edits, every decision over the wire | `NoThirdResearchDispatch` (INV-0094) holds for one active item; `RelayedIsSame` |
| `ws_second_item` | the same without the wire, lists of 2 | finding: INV-0094 fails for the second item |
| `lc_verbs` | 2 operators, 3 pids, concurrent, failing probes, launchd | `OneSupervisor` and the refinement `InstanceSpec` |
| `lc_return` | 2 operators, 3 pids, start, stop --force, reset with and without --purge, concurrent | `VerbsReturn` (liveness), `SparesTheSettled` |
| `lc_serial` | turn-taking, both targets, all verbs with reset and the cycle script | `OneSupervisor`, `NoDuplicateSpawn` |
| `lc_two_supervisors` | two operators, start and reset | finding: reset can unlink a live lock |
| `orc_run` | up to 3 events and 3 reports, every fault | what each verdict can be relied on for; no false alarm |
| `acc_run` | 2 operations, 5 events, 2 reports, clock to 6 | `NoFalsePass`, `SettledCounted` |
| `rd_run` | 2 programs, 2 environments in 3 layouts, 2 upsets | `CompleteMeansReady`, `GreenAfterBootstrap`, `KnownAfterBootstrap` |
| `st_run` | status, health, install or register in each behaviour | `SettledIsExact`, `NoGhostRuns`, `DeadIsToldDead`; `FreshIsFresh`; `NoOrphanAgent`; `ComposedIsWhole` |
| `rel_run` | release or two commands of the other tiers in each behaviour | `ReleaseIsExact`; `SnapshotIsReal`, `PassIsEarned` |

**Why the bounds are enough.**

- WorkSource: `Threshold` is the code's 3, so a run of 4 no-deltas, the first bad one,
  fits in `Window` >= 4. Two items are what it takes for one to break the
  other's run, or to be dispatched without being consulted. One commit is what it
  takes to race a tick, two to do so after a change was already seen.
- Lifecycle: three pids are an old supervisor, a new one and one that boots as a
  competitor. A third operator adds no new kind of interference: what one verb
  sees of the rest is `proc`, `lock` and `status`. The proof has no such bound.
- Oracles: three events hold two dispatches and a stop, and one, two or three lines
  of audit log, so that a line can go missing before, between and after others.
  Three reports hold an original, a duplicate and another operation.
- LiveAcceptance: five events hold a full cycle of dispatch, start, terminal and
  decision and one more event: a retry's dispatch or the forced defer. The proof has
  no such bound.
- Readiness: two programs are one that can fail or be disturbed and one that must not
  suffer from it; one has a check script and one has none. The layouts are one venv
  for all, a shell's interpreter with the venv's pip, and a venv whose pip is
  the shell's. An upset is a failed command, a kill or an intervention: two of them are a
  torn clone and what follows, or a failed run and an edit before the next.
  A second terminal runs gate or start, one at a time. The proof has no such bounds.

- StatusHeadline: two pids are a dead supervisor's and its successor's, or somebody
  else's. With `Stale` 1 and a clock of 3 a sample is fresh, at the limit and too old. Four
  events are a death, another process on the pid, and two more.
- Health: two commits tell a receipt of HEAD, of its parent and of an earlier one apart. Three
  other changes are enough to undo one and to damage the receipt.
- LaunchAgent: two operators, three editions and seven commands and accidents hold a failed
  install, an edit, another install, a login and an uninstall.
- Registration: two programs are one that fails and one that must not suffer from it, in
  either order; five changes break and mend both.
- SimulationTiers: two logs with a document between them are what it takes for contents to
  move from one file to the next in the hash; a hot loop is two samples of up to three, so
  that it begins late or is interrupted; two commands are one and what it left to the
  next. Three edits cut or remove a file and put it back between two readings, with another
  in between, or edit the roadmap and undo the edit.
- ReleaseGate: four edits of the tree break and mend two rows.

The proofs of `ViewsProofs`, `TiersProofs` and `ProviderProofs` have no such bounds.

Deadlock is checked except in `orc_run`, where the harness ends with its verdict, and in
`rel_run` and `st_run`, where the bounds on commands, edits and events end a behaviour.

## 5. Fairness

`WorkSource`: weak fairness of `ReadRevision` (every Wait carries a finite
`retry_after`, so the supervisor polls again), of `Answer` (the git call has a timeout;
the callable and the consult are bounded computations, which may raise) and of a worker's report
(pi-monitor bounds each worker). Nothing is assumed of the operator, of crashes
or of the outcome a worker reports: `ServedEventually` promises a dispatch only while
the work stays eligible and its program sound.

`Lifecycle`: a begun verb goes on (`Continue`). Its probes and polls are bounded: five seconds
of polling, timeouts of the status calls. Two waits are not. start's wait for its supervisor
ends with that process, and `StartEnds` is enabled only then. `mathlint research-stop` has no
timeout, so nothing is assumed of `StopPersist`. `VerbsReturn` therefore says that a verb at
work comes back or waits for one of these two, and that start comes back once its supervisor
was killed or has ended. The fairness is strong for a
reason of the model alone: with three pids a spawn may find none free for a
moment, which the kernel's table does not do. A booting process acquires or
fails, and a killed one is reaped. No fairness for signals being obeyed: a wedged
supervisor may ignore SIGTERM for ever.

The other modules have safety properties only: what their commands wait for is bounded
by timeouts, and each of their steps is enabled once the one before it was taken.

## 6. Proofs

All proofs hold for every value of the constants that meets the modules' named
assumptions.

**WorkSource.** `NoDeltaRunsBounded`: no operation is ever run into more than
`Threshold` consecutive no-delta reports. The property is not inductive: a report
that makes a run of `Threshold` longer is excluded only because the guard kept that
operation out of what is in flight. So the invariant adds `InflightNotStuck`,
and the work falls to two lemmas about the ledger: a pushed report extends a
run only if it continues it (`PushStuck`), also when the window drops its oldest
report.

`NoWakeIsLost`: whatever a tick has in hand, each of the program's requests too, was
stamped no later than the repository is now (`StampsLag`), and the program reads its
roadmap after the stamp. It assumes `GitCheckout`; without a HEAD every stamp is the same
and the promise is void (section 7).

**Lifecycle.** `AtMostOneSupervisor`, and `ImplementsInstance`: every step is a step of
`SupervisorInstance` or leaves it alone. Inductive is `LockHeld`: each active process is
the one named by `lock`. Both assume that no verb that removes the lock is
in use (`LockBreaking`); `lc_two_supervisors` shows that the assumption is needed.
`TypeCorrect` has no such assumption: its content is that each command stays on its verb's
route and never signals without a pid.

For the verbs that do remove the lock, every step of a verb is shown once to be of one
of four kinds (`ContinueKinds`): it looks, spawns, signals or unlinks. The theorems below
go by kinds and not by the two dozen actions.

- `ResetSparesTheSettled` has no hypothesis: whatever verbs, launchd and processes do
  meanwhile, reset takes the lock from no supervisor that was at work when it last looked
  and has been since. `WatchInv` says that those (`elders`) are at work and that the lock names
  none of them: reset goes on only past a lock that names nobody alive (`LooksFirst`),
  and a living supervisor without the lock does not come by it, because who acquires
  it was booting (`LockMoves`). A supervisor that came up after the look is no elder; that is
  finding 2.
- `OneSupervisorInTurn` assumes `Sequential`: one verb at a time, without install and uninstall.
  `SerialInv` says that a supervisor at work holds the lock except while the cycle
  script sweeps (`Sweeping \/ LockHeld`), and that what reset saw of the lock is still true
  when it removes it (`Looked`). A start, or a respawn by launchd, between those two
  breaks `Looked`.
- `NoDuplicate` assumes besides that `pi-monitor status` answers (`~Flaky`): a failed
  probe reads as no supervisor. `CalmInv` adds that status names every supervisor at work
  (`Known`) and every other living process (`Watched`), so start, past its probe, knows
  that there is none (`Clear`).

**Oracles.** `AuditPass`: whatever is written, torn, dropped or edited, a log that passes the
audit oracle is what the supervisor wrote up to some point, apart from the text
of its last line. The invariant `AuditInv` joins a fact about the log (a line carries the
hash of its own text or of a changed one) and one about the reader (the lines
read so far form a chain that ends in `expectedPrev`).

The other oracles are proved in two layers. `RunInv` says what the streams can look
like after the run, and what each of them owes to the faults that occurred. `ReadInv`
says, for each loop, what its variables mean after n lines (`TranscriptAt`,
`ReportsAt`, `FrontierAt`) and what each verdict already given means (`Judged`). The
properties follow from it: `ExactlyOnceExact`, that one pass with a table of keys
finds every conflict and repetition; `CleanPass`, that the verdicts together say what
PASS is taken to say; `TailShown`, what is left of the transcript's promise after its
scan starts over; and `NoFalseAlarm`, the converse, for scenarios that can be met
at all (`Meetable`: nothing required is forbidden, which holds of the code's scenarios).

**LiveAcceptance.** `NoFalsePasses` and `SettledAreCounted`. The argument is that the logs are
append-only (`Grown`): an index by length means the same afterwards, and a decision
once found stays found. `NoFalsePass` adds that complete rows are of carried
operations (`RowsHonest`); `SettledCounted` adds that what was through stays so
(`SettledStays`) and that no terminal is without an earlier start (`StartedFirst`).

**Readiness.** `BootstrapDelivers`, `GreenMeansChecked`, `BootstrappedIsKnown`. None is
inductive: what COMPLETE says of a program was established one step at a time, so the
invariant says what holds of the programs that bootstrap has left behind (`ClonedSoFar`,
`InstalledSoFar`), that nobody relies on a directory while it is cloned into
(`CloningEmpty`), and that every other directory is whole or known to be torn
(`TreesKnown`). From there it is monotone: no step of bootstrap takes away what a covered
program has (`Steady`), so what the gate and start relied on when they began still holds
when they look. What start is told of a covered program is not more than bootstrap looked
at: where there is no callable, the program is `Unnamed`.

**Views.** `EachAsAlone`: the composition `MCViews` implements each of its four
specifications, so that the theorems about one of them alone hold in it. `TypeCorrect`
is its type invariant.

**StatusHeadline.** `GhostsAreNotRunning`, `TheDeadAreToldDead`, `SettledHeadline`. The
first rests on one order in time (`NothingFromLater`): no file, document or sample that is
held shows a moment after the last one at which a supervisor lived, whichever of them is
torn, stale or another supervisor's. `TheDeadAreToldDead` is about documents that name
their supervisor; one without a pid is not probed (section 7). The other two tie what was
true from the read on to the document that was read (`SettledOK`, `SilentOK`).
`SettledHeadline` needs besides that the classifier takes the least index of the
conditions shown (`FirstOfThem`) and that this index is the rank the operator is promised
(`RankIsPlace`).

**Health.** `FreshReceipts`: a receipt lags behind HEAD and, unless it is damaged, is
never older than the one read (`ReceiptsLag`).

**LaunchAgent.** `AgentIsOnDisk`: while no two commands overlap, a plist that is about to
be written is not there yet and an agent whose plist is about to go has gone
(`OneAtATime`).

**Registration.** `NeitherSideClobbers`: by induction over the programs called so far, for a
catalog of any length.

**ReleaseGate.** `ReleaseVerdict`: what was at fault all along is at fault at its row's turn,
and what is at fault then was so at some moment (`RowsTell`).

**SimulationTiers.** `SnapshotsAreReal`: a backup that exits 0 restored a state that the
directory had as a whole, unless a file was cut, removed or put back meanwhile
(`putBack`); a canary that exits 0 leaves the very roadmap it read first, whatever
happened in between. Two facts meet in the first half. While files only grow or are
rewritten forward, the state at the moment between the two readings lies between what was
hashed and what was copied (`Between`). And although the digest drops names and lengths,
so that contents may move from one file into the next, it tells any two states apart of
which one is an earlier state of the other (`DigestsTell`, by a least counterexample,
since the prover has no induction over sequences). Equal digests then leave no room
between. `PassesAreEarned` says what exit 0 of a deployment, a soak, a canary and the
matrix means; `Kept` says, tier by tier, what was established so far. `TypeCorrect` is of
the composition `MCTiers`.

**DecisionWire.** `DecisionsArrive`: for every decision, parsing its envelope gives it back.
`RelaysAgree`: an envelope that lacks fields is read the same after a relay. Both rest on
`Missing` being none of the values a field can have (`WireAssumption`).
`DecisionsAreMeant` brings them to the work source: every decision it reaches is one of those the
wire is defined for (`DecisionsTyped`), if the wire's sets of values hold all that
`WorkSource` uses (`Roomy`, which only says that the two were instantiated together).

**Only model-checked.** `ServedEventually` and `VerbsReturn` are liveness under fairness:
they need ENABLED, which is out of the prover's reach. `NoThirdResearchDispatch` holds only of the
instance it is checked on: one item in a list, loads of the math project that succeed, no crashes.
Its hypotheses would be that instance. With lists of more than one it is false (finding 1);
when math fails to load, the tick dispatches without asking it; and a report that is lost
lets the ledger forget progress that math has counted. The two violation runs are
refutations and have nothing to prove.

## 7. Findings

Each is a violation run whose counterexample is a behaviour of the code.

1. `ws_second_item`: a list of work is dispatched on the verdict for its first item,
   so that the second gets a third research dispatch, which INV-0094 forbids.
2. `lc_two_supervisors`: reset unlinks by path what it found stale earlier; a
   supervisor that took the lock over meanwhile loses it, and the next start
   makes a second one.

**Observed without a run.** These follow directly from the code and are not
worth a run of their own, or touch on what the model has to assume.

- start and restart block in `subprocess.call` until their supervisor ends (`P/cli.py:512`), and
  stop and restart in `mathlint research-stop`, which has no timeout (536, 655): while that
  hangs, nothing is signalled.
- reset suppresses the error of an unlink that fails and reports the lock as removed
  (`P/reset.py:430-432`), where the comment at 425-429 says "The CLI surfaces the failure". After an
  rmtree that fails it goes on as well (507-510). A stale lock can be left, so no
  property says that reset cleans.
- Two starts whose probes both come before either boot spawn two processes; the lock
  refuses one. `NoDuplicateSpawn` is therefore checked for turn-taking operators only.
- `reset --kill-processes` cannot work: `discover_stale_processes` calls `load_catalog`
  without its argument and raises, after the locks are gone.
- The cycle script removes the lock before it kills the holder. It does no harm
  when operators take turns, because the kill follows, but a start in between finds the
  lock free.
- `MathProject.load` failing on one tick falls back to plain dispatch: stagnation is
  then not looked at. The guard comes before the consult, so that a stuck item
  never reaches the architect's way out.
- Two items dispatched together and reporting in turn break each other's trailing run,
  so neither is ever held by the no-delta guard. The tests define the count that way.
- Without a git HEAD every decision carries the same fingerprint and
  `wake_on_source_change` cannot fire.
- Live acceptance counts duplicated reports (its docstring, lines 11-15, says
  they are refused) and lets one row mix the events of two attempts (lines
  181-182 say "observed in order"). `NoFalsePass` is the weaker property that holds.
  The first decision after a terminal ends the search though it may say no kind (253-256): that
  cycle is never complete, and `SettledCounted` excepts it.
- Bootstrap is not idempotent in one case: a clone that was killed leaves a directory,
  which every later run takes for present ("Safe to re-run after partial success",
  `P/gates/bootstrap.py:3`). If the package came through, COMPLETE follows.
- bootstrap takes a package it can import for an installed one (`P/gates/bootstrap.py:157-169`), and
  start looks for the catalog's entry point (`P/cli.py:228-234`, `P/dispatcher.py:280-291`): a
  package that is only on the path gives COMPLETE, and then no callable. `KnownAfterBootstrap`
  says that this is the only way.
- A catalog that cannot be read is an empty one: bootstrap ends COMPLETE and the gate
  GREEN without a program.
- GREEN counts SKIP as good (`P/gates/aggregate.py:66`, 73), although lines 43-46 say
  that anything but PASS is RED. `GreenAfterBootstrap` says for which programs a SKIP
  is excluded.
- A dev-dependency install that fails makes the report INCOMPLETE; its docstring says
  "Tolerate failure".
- restart does not wait after SIGKILL; the start it goes on to finds the dying pid alive
  and refuses (`P/cli.py:667`), where lines 641-646 speak of an atomic restart.
- The transcript scan starts over as if the first required event had been seen
  (`V/oracle/transcript.py:120`).
- `uninstall_plist` "refuses to remove a different supervisor's plist" (`P/launchd.py:196-199`)
  but does not look at it. After a failed bootstrap the next install finds the plist and says
  it is installed already; a half-written one it refuses as a different one. Two installs
  at once can overwrite each other's, which is why `NoOrphanAgent` excepts overlap.
- health calls `.get` on the typed payload of mathlint's preflight (`P/health.py:227`), a Pydantic
  model without that method: whenever mathlint answers, the command raises, so that its exit 0
  is out of reach. It takes an architecture gate that gives no answer for open, where start
  refuses. A receipt that names no commit equals the HEAD of a repository that git cannot read
  and counts as fresh; `FreshIsFresh` excepts it.
- status takes a pid it may not signal for dead (`P/status.py:182`), where `supervisor.py`
  takes it for alive; a circuit that tripped once is reported as open for ever, because
  the number of trips is tested too; a document without a `supervisor_pid` is not probed
  (`P/status.py:178-179`), so that the pause or wait of a supervisor that is gone is
  shown; with a fresh sample an unreadable health.json is "running" (the comment at
  290-292 says no-supervisor); and another process of the same user on a dead supervisor's
  pid keeps its pause on display.
- register() swallows what a program raises ("failures are swallowed", lines 866-871 of the
  provider) except at import, where only ImportError is caught: a syntax error in
  one program leaves the process without the institution's work source. With several
  programs the last one's contributions replace the others'.
- The tier command gives backup-restore no state directory, so that it is always BLOCKED
  and exits 1. rollback, corruption and disk-pressure cannot fail. The documents under
  `.specify/specs`, which release means to leave out, are compared with one part of a path at a
  time and count. A list of mutants that is missing passes its row; a malformed one
  aborts the report. A deployment none of whose directories exist is a PASS. A soak
  archive is named by whole seconds and overwrites an earlier one of the same length.
  The backup's sum has neither names nor lengths: when files were cut, removed or put back
  meanwhile, a copy of no single moment can pass. The canary compares two sums, so that an edit
  that was undone passes (`V/canary.py:124-129`).
  A canary whose roadmap appears or vanishes raises instead of reporting.

## 8. Not modelled

Text and layout of output, digests and metadata; parsing of TOML, JSON and plists;
reset's dry run, `launch_reset` and the verbs that only print; the credentials and prerequisites of the
live mode beyond `GateCloses`; the upstream transcript oracle of pi-monitor; flags of
bootstrap and selections of scenarios that tests alone use; `compat/editable.py`, which the command
line does not reach; the report records, vocabularies and templates of the contracts, which
have no alternatives that a property could tell apart.

Catalog and paths are functions of a file and of the environment, evaluated anew by each
command; what their result means to a command is in `Lifecycle`, `Readiness` and
`Registration`. The prime directive and the repository tooling transform single files
without state between calls; there is nothing in them that a state machine would show.
