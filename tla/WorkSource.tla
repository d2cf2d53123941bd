------------------------------ MODULE WorkSource ------------------------------
(***************************************************************************)
(* The OS-level work source of research-institution, in the loop with the  *)
(* supervisor that polls it.                                               *)
(*                                                                         *)
(* A supervisor tick calls select_next_work_for_supervisor, which reads    *)
(* the git revision of the program repository, asks the program for its    *)
(* active work, looks for a no-delta loop in the supervisor's own report   *)
(* ledger and finally consults the math kernel.  Each of those reads is a  *)
(* step of its own where another actor can move in between: the operator   *)
(* commits roadmap edits while a tick is under way.  The guard and the     *)
(* consult form one step, because the only writer of the ledger is the     *)
(* supervisor, which is blocked in the call.                               *)
(***************************************************************************)
EXTENDS Integers, Sequences, FiniteSets

CONSTANTS
  Items,        \* operation ids the program can list
  ProgramRoles, \* roles the program gives its requests
  Threshold,    \* NO_DELTA_LOOP_THRESHOLD
  Stagnation,   \* no-delta sessions after which math calls a target stagnant
  LoadOutcomes, \* what MathProject.load may do on a tick: TRUE loads, FALSE fails
  GitCheckout,  \* whether the program repository is a git checkout
  Crashes,      \* whether the supervisor may die while a worker runs
  Window,       \* bound: reports of the ledger's tail that are kept
  MaxActive,    \* bound: length of the program's work list
  MaxRev        \* bound: commits to the program repository

ASSUME ThresholdAssumption == Threshold \in Nat \ {0}
ASSUME WindowAssumption == Window \in Nat /\ Window > Threshold
ASSUME BoundsAssumption ==
  /\ MaxActive \in Nat
  /\ MaxRev \in Nat
  /\ Stagnation \in Nat \ {0}
  /\ LoadOutcomes \subseteq BOOLEAN
  /\ GitCheckout \in BOOLEAN
  /\ Crashes \in BOOLEAN

VARIABLES
  program,    \* the program's work selection: see Programs
  roadmap,    \* the committed roadmap: readable or not, and its active items
  rev,        \* HEAD of the program repository, as a commit count
  ledger,     \* tail of source-reports.jsonl, as _read_source_reports parses it
  torn,       \* the ledger file ends in a partial line
  deltas,     \* math's count of consecutive no-delta sessions, per target
  admitted,   \* targets with an admitted architecture-review horizon
  phase,      \* where the supervisor is: see Phases
  observed,   \* fingerprint read at the start of the tick
  seen,       \* revision the program's answer was computed from
  work,       \* requests of the tick
  decision,   \* last decision returned to the supervisor
  inflight    \* dispatched items that have not reported

programVars == <<program, roadmap, rev>>
reportVars  == <<ledger, torn, deltas, admitted>>
tickVars    == <<observed, seen, work>>
vars == <<programVars, reportVars, tickVars, phase, decision, inflight>>

Zeros == -1           \* the fingerprint "000...0" of an unreadable HEAD
None  == [kind |-> "none"]

\* No entry point supplies it; it answers from the roadmap; it raises an exception
\* that is none of the three known ones; it returns no list of requests.
Programs == {"absent", "sound", "raising", "foreign"}

Phases   == {"idle", "revision", "work", "running", "waiting"}
Outcomes == {"no_delta", "progress"}
Reports  == [operation_id : Items, outcome : Outcomes]

\* Work lists in roadmap order; an item appears once.
WorkLists ==
  {s \in UNION {[1..n -> Items] : n \in 0..MaxActive} :
     \A i, j \in DOMAIN s : s[i] = s[j] => i = j}

Roadmaps ==
  [state : {"readable"}, active : WorkLists]
    \union [state : {"missing", "malformed"}, active : {<<>>}]

\* A request carries the role and the source revision the program put on it.
WorkRequests ==
  [operation_id : Items, role : ProgramRoles \union {"research", "maintenance"},
   source_revision : Nat \union {Zeros}]

Listed(s) == {s[i] : i \in DOMAIN s}

Operations(requests) == {r.operation_id : r \in Listed(requests)}

Fingerprint == IF GitCheckout THEN rev ELSE Zeros

-----------------------------------------------------------------------------
(* The report ledger. *)

NoDelta(op) == [operation_id |-> op, outcome |-> "no_delta"]

\* The last n reports are all no-deltas of op: _consecutive_no_deltas >= n.
StuckFor(reports, op, n) ==
  /\ Len(reports) >= n
  /\ \A i \in (Len(reports) - n + 1)..Len(reports) : reports[i] = NoDelta(op)

\* Append, keeping the last Window reports: the guard never looks further back.
Push(reports, r) ==
  IF Len(reports) < Window THEN Append(reports, r) ELSE Append(Tail(reports), r)

\* A report written after a partial line becomes part of that malformed line,
\* which the reader skips.
Recorded(r) == IF torn THEN ledger ELSE Push(ledger, r)

-----------------------------------------------------------------------------
(* Decisions. *)

\* The call returns: its locals are gone.
Return ==
  /\ observed' = Zeros
  /\ work' = <<>>

WaitFor_RestampMutant(reason, fp) ==
  /\ decision' = [kind |-> "wait", reason |-> reason, fp |-> Fingerprint]
  /\ phase' = "waiting"
  /\ Return
  /\ UNCHANGED inflight

WaitFor(reason, fp) ==
  /\ decision' = [kind |-> "wait", reason |-> reason, fp |-> fp]
  /\ phase' = "waiting"
  /\ Return
  /\ UNCHANGED inflight

Dispatch(reason, fp, requests) ==
  /\ decision' = [kind |-> "dispatch", reason |-> reason, fp |-> fp, work |-> requests]
  /\ phase' = "running"
  /\ Return
  /\ inflight' = Operations(requests)

\* The call raises; the supervisor gets no decision and polls again.
Raise ==
  /\ decision' = None
  /\ phase' = "idle"
  /\ Return
  /\ UNCHANGED inflight

-----------------------------------------------------------------------------
(* One tick: select_next_work_for_supervisor. *)

\* _read_revision: git rev-parse HEAD, or zeros when it fails or times out.
ReadRevision ==
  /\ phase \in {"idle", "waiting"}
  /\ observed' \in {Fingerprint, Zeros}
  /\ phase' = "revision"
  /\ decision' = None
  /\ UNCHANGED <<programVars, reportVars, seen, work, inflight>>

\* The program is asked; everything it answers is computed from HEAD as it is now.
Asked ==
  /\ phase = "revision"
  /\ seen' = rev
  /\ UNCHANGED <<programVars, reportVars>>

NoCallable ==
  /\ Asked
  /\ program = "absent"
  /\ WaitFor("wait_requested", observed)

\* Anything but a list of WorkRequests waits as a missing roadmap does.
ForeignAnswer ==
  /\ Asked
  /\ program = "foreign"
  /\ WaitFor("wait_requested", observed)

\* An exception of an unknown family is raised on.
ProgramRaises ==
  /\ Asked
  /\ program = "raising"
  /\ Raise

RoadmapMissing ==
  /\ Asked
  /\ program = "sound" /\ roadmap.state = "missing"
  /\ WaitFor("wait_requested", observed)

RoadmapMalformed ==
  /\ Asked
  /\ program = "sound" /\ roadmap.state = "malformed"
  /\ Raise

NoActiveWork ==
  /\ Asked
  /\ program = "sound" /\ roadmap.state = "readable" /\ roadmap.active = <<>>
  /\ WaitFor("no_eligible_work", observed)

\* What the program makes of its active items.  It stamps a request with the
\* revision it was given or with the HEAD it finds itself.
Answers(active) ==
  {[i \in DOMAIN active |->
      [operation_id |-> active[i], role |-> roles[i], source_revision |-> stamps[i]]] :
     roles \in [DOMAIN active -> ProgramRoles], stamps \in [DOMAIN active -> {observed, Fingerprint}]}

TakeWork_EmptyListMutant ==
  /\ Asked
  /\ program = "sound" /\ roadmap.state = "readable"
  /\ work' \in Answers(roadmap.active)
  /\ phase' = "work"
  /\ UNCHANGED <<observed, decision, inflight>>

TakeWork ==
  /\ Asked
  /\ program = "sound" /\ roadmap.state = "readable" /\ roadmap.active # <<>>
  /\ work' \in Answers(roadmap.active)
  /\ phase' = "work"
  /\ UNCHANGED <<observed, decision, inflight>>

Stuck_CandidateOnlyMutant == {i \in {1} : StuckFor(ledger, work[i].operation_id, Threshold)}
Stuck_EarlyMutant ==
  {i \in DOMAIN work : StuckFor(ledger, work[i].operation_id, Threshold - 1)}

\* The requests _check_no_delta_loop finds in a loop.
Stuck == {i \in DOMAIN work : StuckFor(ledger, work[i].operation_id, Threshold)}

Deciding ==
  /\ phase = "work"
  /\ UNCHANGED <<programVars, reportVars, seen>>

\* The first stuck request holds the whole list, with its own source revision.
GuardHolds ==
  /\ Deciding
  /\ \E i \in Stuck :
       /\ \A j \in Stuck : i <= j
       /\ WaitFor("no_delta_loop_guard", work[i].source_revision)

\* No math project, or its load fails: the dispatch behaviour of old, with the
\* requests as the program made them.
Fallback ==
  /\ Deciding
  /\ Stuck = {}
  /\ FALSE \in LoadOutcomes
  /\ Dispatch("work_available", observed, work)

Consulted ==
  /\ Deciding
  /\ Stuck = {}
  /\ TRUE \in LoadOutcomes

\* The decisions after a consult carry the candidate's source revision.
Candidate == work[1]

\* consult reports a stale source revision.
ConsultStale ==
  /\ Consulted
  /\ WaitFor("wait_requested", Candidate.source_revision)

\* consult fails with anything but StaleSourceRevision.
ConsultRaises ==
  /\ Consulted
  /\ Raise

\* The kernel's verdicts on a target, one the translation does not know among them.
Verdicts(op) ==
  {"UNKNOWN"} \union
  IF deltas[op] >= Stagnation
  THEN IF op \in admitted
       THEN {"DISPATCH_ARCHITECT"} ELSE {"ARCHITECTURE_REVIEW_REQUIRED"}
  ELSE {"DISPATCH_RESEARCH", "NO_ELIGIBLE_WORK"}

VerdictHolds(verdict) ==
  \/ /\ verdict = "ARCHITECTURE_REVIEW_REQUIRED"
     /\ WaitFor("architecture_review_required", Candidate.source_revision)
  \/ /\ verdict = "NO_ELIGIBLE_WORK"
     /\ WaitFor("no_eligible_work", Candidate.source_revision)
  \/ /\ verdict = "UNKNOWN"
     /\ WaitFor("wait_requested", Candidate.source_revision)

\* Every request of the list in the role the verdict asks for.
DispatchAs(role, reason) ==
  Dispatch(reason, Candidate.source_revision,
           [i \in DOMAIN work |-> [work[i] EXCEPT !.role = role]])

VerdictDispatches_RoleMutant(verdict) ==
  \/ /\ verdict = "DISPATCH_RESEARCH"
     /\ DispatchAs("research", "work_available")
  \/ /\ verdict = "DISPATCH_ARCHITECT"
     /\ DispatchAs("research", "architecture_review_dispatch")

VerdictDispatches(verdict) ==
  \/ /\ verdict = "DISPATCH_RESEARCH"
     /\ DispatchAs("research", "work_available")
  \/ /\ verdict = "DISPATCH_ARCHITECT"
     /\ DispatchAs("maintenance", "architecture_review_dispatch")

\* _consult_math_and_translate: the first item is consulted, all are dispatched.
ConsultVerdict ==
  /\ Consulted
  /\ \E verdict \in Verdicts(Candidate.operation_id) :
       VerdictHolds(verdict) \/ VerdictDispatches(verdict)

Answer ==
  \/ NoCallable \/ ForeignAnswer \/ ProgramRaises
  \/ RoadmapMissing \/ RoadmapMalformed \/ NoActiveWork \/ TakeWork
  \/ GuardHolds \/ Fallback \/ ConsultStale \/ ConsultRaises \/ ConsultVerdict

-----------------------------------------------------------------------------
(* The supervisor and its worker. *)

\* math's tracker, in a math project: sessions without a delta, up to Stagnation.
Sessions(op, outcome) ==
  IF TRUE \notin LoadOutcomes \/ outcome = "progress" THEN 0
  ELSE IF deltas[op] < Stagnation THEN deltas[op] + 1 ELSE Stagnation

\* A worker finishes op; the supervisor appends its report, math's intake
\* updates the stagnation tracker and progress closes an admitted horizon.
WorkerReports(op) ==
  /\ phase = "running" /\ op \in inflight
  /\ \E outcome \in Outcomes :
       /\ ledger' = Recorded([operation_id |-> op, outcome |-> outcome])
       /\ torn' = FALSE
       /\ deltas' = [deltas EXCEPT ![op] = Sessions(op, outcome)]
       /\ admitted' = IF outcome = "progress" THEN admitted \ {op} ELSE admitted
  /\ inflight' = inflight \ {op}
  /\ IF inflight' = {}
     THEN phase' = "idle" /\ decision' = None
     ELSE UNCHANGED <<phase, decision>>
  /\ UNCHANGED <<programVars, tickVars>>

\* The supervisor dies while a worker runs: the outcome is lost, and the write
\* of a report may be cut short.
SupervisorCrash ==
  /\ Crashes
  /\ phase = "running"
  /\ inflight' = {}
  /\ phase' = "idle"
  /\ decision' = None
  /\ torn' \in {torn, TRUE}
  /\ UNCHANGED <<programVars, tickVars, ledger, deltas, admitted>>

-----------------------------------------------------------------------------
(* The operator and the architect. *)

EditRoadmap ==
  /\ rev < MaxRev
  /\ roadmap' \in Roadmaps \ {roadmap}
  /\ rev' = rev + 1
  /\ UNCHANGED <<program, reportVars, tickVars, phase, decision, inflight>>

\* The program is installed or removed, breaks or is mended.
ChangeProgram ==
  /\ program' \in Programs \ {program}
  /\ UNCHANGED <<roadmap, rev, reportVars, tickVars, phase, decision, inflight>>

AdmitHorizon(op) ==
  /\ deltas[op] >= Stagnation /\ op \notin admitted
  /\ admitted' = admitted \union {op}
  /\ UNCHANGED <<programVars, ledger, torn, deltas, tickVars, phase, decision, inflight>>

-----------------------------------------------------------------------------
Init ==
  /\ program \in Programs
  /\ roadmap \in Roadmaps
  /\ rev = 0
  /\ ledger = <<>> /\ torn = FALSE
  /\ deltas = [op \in Items |-> 0] /\ admitted = {}
  /\ phase = "idle" /\ observed = Zeros /\ seen = 0 /\ work = <<>>
  /\ decision = None /\ inflight = {}

Next ==
  \/ ReadRevision
  \/ Answer
  \/ \E op \in Items : WorkerReports(op) \/ AdmitHorizon(op)
  \/ SupervisorCrash
  \/ EditRoadmap
  \/ ChangeProgram

Spec == Init /\ [][Next]_vars

\* The supervisor keeps polling (every Wait has a finite retry_after), each
\* call returns (git, the program and consult are bounded) and workers finish.
Fairness ==
  /\ WF_vars(ReadRevision)
  /\ WF_vars(Answer)
  /\ WF_vars(\E op \in Items : WorkerReports(op))

FairSpec == Spec /\ Fairness

-----------------------------------------------------------------------------
(* Properties. *)

\* Every variable has its type; inflight work only exists while a dispatch runs.
TypeOK ==
  /\ program \in Programs
  /\ roadmap \in Roadmaps
  /\ rev \in Nat
  /\ ledger \in Seq(Reports) /\ Len(ledger) <= Window
  /\ torn \in BOOLEAN
  /\ deltas \in [Items -> 0..Stagnation]
  /\ admitted \subseteq Items
  /\ phase \in Phases
  /\ observed \in Nat \union {Zeros}
  /\ seen \in Nat
  /\ work \in Seq(WorkRequests)
  /\ inflight \subseteq Items
  /\ (phase = "running") = (inflight # {})
  /\ phase = "work" => work # <<>>

\* However ticks, reports, crashes, lost reports and roadmap edits interleave,
\* the supervisor never runs one operation into more than Threshold no-delta
\* reports in a row: the guard of _check_no_delta_loop breaks the loop.
NoDeltaRunBounded == \A op \in Items : ~StuckFor(ledger, op, Threshold + 1)

\* A Wait is stamped with a revision no newer than the roadmap it was computed
\* from: if the program has moved since, HEAD differs from the stamp, so
\* wake_on_source_change wakes the supervisor and no edit is slept through.
NoLostWake ==
  phase = "waiting" /\ decision.kind = "wait" /\ rev # seen
    => Fingerprint # decision.fp

\* No-deltas of op since its last other report, whatever else was reported.
NoDeltasSinceProgress(op) ==
  {i \in DOMAIN ledger :
     /\ ledger[i] = NoDelta(op)
     /\ \A j \in i..Len(ledger) :
          ledger[j].operation_id = op => ledger[j] = NoDelta(op)}

\* INV-0094: after two consecutive no-deltas of an operation the source never
\* again dispatches it in the research role without progress in between.
NoThirdResearchDispatch ==
  [][ \A op \in Items :
        /\ phase # "running" /\ phase' = "running"
        /\ \E r \in Listed(decision'.work) : r.operation_id = op /\ r.role = "research"
        => Cardinality(NoDeltasSinceProgress(op)) < 2 ]_vars

Servable ==
  /\ program = "sound" /\ roadmap.state = "readable" /\ roadmap.active # <<>>
  /\ \A op \in Listed(roadmap.active) : ~StuckFor(ledger, op, Threshold)

\* Without a math project, active work that no loop holds back is dispatched:
\* no sequence of waits, failed ticks and edits starves it.
ServedEventually == Servable ~> (phase = "running" \/ ~Servable)
=============================================================================
