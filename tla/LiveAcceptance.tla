--------------------------- MODULE LiveAcceptance ---------------------------
(***************************************************************************)
(* The live-acceptance command: it correlates research cycles from the     *)
(* files a supervisor keeps appending to.                                  *)
(*                                                                         *)
(* correlate_cycles reads audit.jsonl once to index dispatches, starts and *)
(* terminals by operation, then source-reports.jsonl, then audit.jsonl     *)
(* again for each operation to look for the decision that follows, and a   *)
(* last time for the forced-defer marker.  Every read is a step, and the   *)
(* supervisor writes, crashes and retries in between.  Both files only     *)
(* grow, so what was read is a length.                                     *)
(***************************************************************************)
EXTENDS Integers, Sequences, FiniteSets

CONSTANTS
  Operations,   \* operation ids
  NoOp,         \* an empty operation_id
  MinComplete,  \* --min-complete-cycles
  Marked,       \* whether --forced-defer-marker is given
  Grace,        \* poll_grace: how long a reported cycle may wait for a decision
  MaxAudit,     \* bound: events of the audit log
  MaxReports,   \* bound: lines of the report log
  MaxClock      \* bound: the clock

ASSUME OperationsAssumption == NoOp \notin Operations
ASSUME BoundsAssumption ==
  /\ {MinComplete, Grace, MaxAudit, MaxReports, MaxClock} \subseteq Nat
  /\ Marked \in BOOLEAN

VARIABLES
  clock,
  audit,        \* audit.jsonl
  reports,      \* source-reports.jsonl: the operation of each line
  attempt,      \* the supervisor's attempt under way and how far it is
  owed,         \* operations whose report is sent again after a crash
  carried,      \* operations one attempt of which went through to its report
  pc,           \* where the command is
  auditRead,    \* events of the audit log the index was built from
  reportsRead,  \* lines of the report log that were read
  rows,         \* disposition of each cycle
  settled,      \* operations that were through when the index was built
  ok            \* verdict of the last report

logVars == <<clock, audit, reports, attempt, owed, carried>>
cmdVars == <<pc, auditRead, reportsRead, rows, settled, ok>>
vars == <<logVars, cmdVars>>

\* A bare decision is a source_decision event that says no kind.
Names   == {"source_dispatch", "started", "terminal", "source_decision", "bare_decision",
            "forced_defer"}
Asks    == {"source_dispatch", "source_decision", "bare_decision"}
NoRows  == [op \in {} |-> "PARTIAL"]
Nobody  == [op |-> NoOp, at |-> "none"]

\* An audit event: name, operation_id, operation_ids and stamp.
Event == [name : Names, op : Operations \union {NoOp}, ids : SUBSET Operations, unix : Nat]

-----------------------------------------------------------------------------
(* The supervisor. *)

\* Every event is later than the one before it.
Write(name, op, ids) ==
  /\ Len(audit) < MaxAudit /\ clock < MaxClock
  /\ clock' = clock + 1
  /\ audit' = Append(audit, [name |-> name, op |-> op, ids |-> ids, unix |-> clock'])
  /\ UNCHANGED cmdVars

Dispatch(op) ==
  /\ attempt = Nobody
  /\ Write("source_dispatch", op, {})
  /\ attempt' = [op |-> op, at |-> "dispatched"]
  /\ UNCHANGED <<reports, owed, carried>>

Start ==
  /\ attempt.at = "dispatched"
  /\ Write("started", attempt.op, {})
  /\ attempt' = [attempt EXCEPT !.at = "started"]
  /\ UNCHANGED <<reports, owed, carried>>

Terminate ==
  /\ attempt.at = "started"
  /\ Write("terminal", attempt.op, {})
  /\ attempt' = [attempt EXCEPT !.at = "terminal"]
  /\ UNCHANGED <<reports, owed, carried>>

\* A source decision, for one operation or for none in particular.
Decide ==
  /\ attempt = Nobody
  /\ \E name \in {"source_decision", "bare_decision"},
        ids \in {{}} \union {{op} : op \in Operations} : Write(name, NoOp, ids)
  /\ UNCHANGED <<reports, attempt, owed, carried>>

Defer ==
  /\ attempt = Nobody /\ \A i \in DOMAIN audit : audit[i].name # "forced_defer"
  /\ Write("forced_defer", NoOp, {})
  /\ UNCHANGED <<reports, attempt, owed, carried>>

Deliver(op) ==
  /\ Len(reports) < MaxReports
  /\ reports' = Append(reports, op)
  /\ carried' = carried \union {op}
  /\ UNCHANGED <<clock, audit, cmdVars>>

Report ==
  /\ attempt.at = "terminal"
  /\ Deliver(attempt.op)
  /\ attempt' = Nobody
  /\ UNCHANGED owed

Redeliver(op) ==
  /\ op \in owed
  /\ Deliver(op)
  /\ owed' = owed \ {op}
  /\ UNCHANGED attempt

\* The attempt is lost.  A finished one may be reported after the restart.
Crash ==
  /\ attempt # Nobody
  /\ attempt' = Nobody
  /\ owed' \in {owed} \union (IF attempt.at = "terminal" THEN {owed \union {attempt.op}} ELSE {})
  /\ UNCHANGED <<clock, audit, reports, carried, cmdVars>>

Tick ==
  /\ clock < MaxClock
  /\ clock' = clock + 1
  /\ UNCHANGED <<audit, reports, attempt, owed, carried, cmdVars>>

Supervisor ==
  \/ \E op \in Operations : Dispatch(op) \/ Redeliver(op)
  \/ Start \/ Terminate \/ Report \/ Decide \/ Defer \/ Crash \/ Tick

-----------------------------------------------------------------------------
(* The command. *)

\* Events of a kind for an operation among the first n, and its last terminal.
Indexed(n, name, op) == {i \in 1..n : audit[i].name = name /\ audit[i].op = op}

LastTerminal(n, op) ==
  {t \in Indexed(n, "terminal", op) : \A u \in Indexed(n, "terminal", op) : u <= t}

Reported(n, op) == \E i \in 1..n : reports[i] = op

\* A later decision for the operation.  An event that lists no operations,
\* whatever its own one, will do.
Answers(event, op) ==
  event.name \in Asks /\ (op \in event.ids \/ event.op = op \/ event.ids = {})

Follows(i, n, op) ==
  /\ Answers(audit[i], op)
  /\ \A t \in LastTerminal(n, op) : audit[i].unix > audit[t].unix

\* Looked for in the log as it is now, after the terminal that was indexed.  The
\* first one found ends the search, and one without a kind leaves an empty answer.
NextDecision(n, op) ==
  \E i \in DOMAIN audit :
    /\ Follows(i, n, op) /\ audit[i].name # "bare_decision"
    /\ \A j \in 1..(i - 1) : ~Follows(j, n, op)

InFlight(op) ==
  /\ Reported(reportsRead, op)
  /\ \A t \in LastTerminal(auditRead, op) : clock - audit[t].unix < Grace

Complete_NoReportMutant(op) ==
  /\ Indexed(auditRead, "started", op) # {} /\ Indexed(auditRead, "terminal", op) # {}
  /\ NextDecision(auditRead, op) \/ InFlight(op)

Complete_FirstReadMutant(op) ==
  /\ Indexed(auditRead, "started", op) # {} /\ Indexed(auditRead, "terminal", op) # {}
  /\ Reported(reportsRead, op)
  /\ \E i \in 1..auditRead :
       /\ audit[i].name \in Asks /\ (op \in audit[i].ids \/ audit[i].op = op)
       /\ \A t \in LastTerminal(auditRead, op) : audit[i].unix > audit[t].unix

\* Without a start or a terminal no row is complete, whatever the decisions.
Complete(op) ==
  /\ Indexed(auditRead, "started", op) # {} /\ Indexed(auditRead, "terminal", op) # {}
  /\ Reported(reportsRead, op)
  /\ NextDecision(auditRead, op) \/ InFlight(op)

\* What is through at this moment: the last terminal is reported, and the first
\* decision after it says its kind.
Through ==
  {op \in Operations :
     /\ Indexed(Len(audit), "terminal", op) # {}
     /\ Reported(Len(reports), op)
     /\ NextDecision(Len(audit), op)}

ReadAudit ==
  /\ pc = "idle"
  /\ auditRead' = Len(audit)
  /\ settled' = Through
  /\ rows' = NoRows
  /\ pc' = "reports"
  /\ UNCHANGED <<logVars, reportsRead, ok>>

ReadReports ==
  /\ pc = "reports"
  /\ reportsRead' = Len(reports)
  /\ pc' = "rows"
  /\ UNCHANGED <<logVars, auditRead, rows, settled, ok>>

Cycles == {op \in Operations : Indexed(auditRead, "source_dispatch", op) # {}}

Row_NotDispatchedMutant(op) ==
  /\ pc = "rows" /\ op \notin DOMAIN rows
  /\ rows' = [o \in DOMAIN rows \union {op} |->
                IF o \in DOMAIN rows THEN rows[o]
                ELSE IF Complete(op) THEN "COMPLETE" ELSE "PARTIAL"]
  /\ UNCHANGED <<logVars, pc, auditRead, reportsRead, settled, ok>>

\* One row, from a fresh read of the audit log.  The order of the rows is that
\* of the names in the code and matters to nothing.
Row(op) ==
  /\ pc = "rows" /\ op \in Cycles \ DOMAIN rows
  /\ rows' = [o \in DOMAIN rows \union {op} |->
                IF o \in DOMAIN rows THEN rows[o]
                ELSE IF Complete(op) THEN "COMPLETE" ELSE "PARTIAL"]
  /\ UNCHANGED <<logVars, pc, auditRead, reportsRead, settled, ok>>

MarkerObserved == \E i \in DOMAIN audit : audit[i].name = "forced_defer"

Completed == {op \in DOMAIN rows : rows[op] = "COMPLETE"}

\* The command returns: what it read is gone.
Forget ==
  /\ pc' = "idle" /\ auditRead' = 0 /\ reportsRead' = 0
  /\ rows' = NoRows /\ settled' = {}
  /\ UNCHANGED logVars

Conclude ==
  /\ pc = "rows" /\ DOMAIN rows = Cycles
  /\ ok' = (Cardinality(Completed) >= MinComplete /\ (Marked => MarkerObserved))
  /\ Forget

Command == ReadAudit \/ ReadReports \/ (\E op \in Operations : Row(op)) \/ Conclude

-----------------------------------------------------------------------------
Init ==
  /\ clock = 0 /\ audit = <<>> /\ reports = <<>>
  /\ attempt = Nobody /\ owed = {} /\ carried = {}
  /\ pc = "idle" /\ auditRead = 0 /\ reportsRead = 0
  /\ rows = NoRows /\ settled = {} /\ ok = FALSE

Next == Supervisor \/ Command

Spec == Init /\ [][Next]_vars

-----------------------------------------------------------------------------
(* Properties. *)

\* Every variable has its type, the command has read no more than there is, and
\* rows are of dispatched operations.
TypeOK ==
  /\ clock \in Nat
  /\ audit \in Seq(Event) /\ reports \in Seq(Operations)
  /\ attempt \in [op : Operations \union {NoOp},
                  at : {"none", "dispatched", "started", "terminal"}]
  /\ owed \subseteq Operations /\ carried \subseteq Operations
  /\ pc \in {"idle", "reports", "rows"}
  /\ auditRead \in 0..Len(audit) /\ reportsRead \in 0..Len(reports)
  /\ DOMAIN rows \subseteq Cycles
  /\ \A op \in DOMAIN rows : rows[op] \in {"COMPLETE", "PARTIAL"}
  /\ settled \subseteq Operations /\ ok \in BOOLEAN

\* "It must not infer success": OK means that as many operations as asked for
\* were carried through to their report, by one attempt each, and that the
\* forced defer took place, however the supervisor crashes, retries and writes
\* while the command reads.
NoFalsePass ==
  ok => /\ Cardinality(carried) >= MinComplete
        /\ Marked => MarkerObserved

\* "Any time the chain has caught up to a downstream decision for the same
\* operation, the cycle counts as COMPLETE": also when the supervisor retries
\* the operation while the command is at work.  A first decision without a kind
\* does not count as one (Through).
SettledCounted ==
  \A op \in settled \intersect DOMAIN rows : rows[op] = "COMPLETE"
=============================================================================
