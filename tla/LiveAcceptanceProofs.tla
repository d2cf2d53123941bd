------------------------ MODULE LiveAcceptanceProofs ------------------------
(***************************************************************************)
(* Proofs about LiveAcceptance, for every set of operations and logs of    *)
(* any length.                                                             *)
(*                                                                         *)
(* Both properties rest on the logs being append-only: what the command    *)
(* read stays true of them, however much is written before it returns.     *)
(***************************************************************************)
EXTENDS LiveAcceptance, FiniteSetTheorems, SequenceTheorems, TLAPS

Attempts == [op : Operations \union {NoOp}, at : {"none", "dispatched", "started", "terminal"}]

\* The files, and who has been carried through to a report.
LogOK ==
  /\ clock \in Nat
  /\ audit \in Seq(Event) /\ reports \in Seq(Operations)
  /\ attempt \in Attempts
  /\ attempt # Nobody => attempt.op \in Operations
  /\ owed \subseteq Operations /\ carried \subseteq Operations
  /\ IsFiniteSet(carried)
  /\ \A i \in DOMAIN reports : reports[i] \in carried

\* What the command has in hand.
CommandOK ==
  /\ pc \in {"idle", "reports", "rows"}
  /\ auditRead \in 0..Len(audit) /\ reportsRead \in 0..Len(reports)
  /\ DOMAIN rows \subseteq Cycles
  /\ pc = "reports" => DOMAIN rows = {}
  /\ \A op \in DOMAIN rows : rows[op] \in {"COMPLETE", "PARTIAL"}
  /\ settled \subseteq Operations /\ ok \in BOOLEAN

\* A complete row is of an operation that was reported.
RowsHonest == \A op \in DOMAIN rows : rows[op] = "COMPLETE" => op \in carried

\* An execution is started before it ends.
StartedBefore(n, op) == \E i \in 1..n : audit[i].name = "started" /\ audit[i].op = op

StartedFirst ==
  /\ attempt.at \in {"started", "terminal"} => StartedBefore(Len(audit), attempt.op)
  /\ \A t \in DOMAIN audit :
       audit[t].name = "terminal" => StartedBefore(t, audit[t].op)

\* What was through when the index was built stays so, and its rows say it.
SettledStays ==
  /\ pc = "idle" => settled = {}
  /\ \A op \in settled :
       /\ Indexed(auditRead, "terminal", op) # {}
       /\ NextDecision(auditRead, op)
       /\ Reported(Len(reports), op)
       /\ pc = "rows" => Reported(reportsRead, op)

IInv == LogOK /\ CommandOK /\ RowsHonest /\ NoFalsePass /\ StartedFirst /\ SettledStays /\ SettledCounted

-----------------------------------------------------------------------------
LEMMA InitInv == Init => IInv
<1> SUFFICES ASSUME Init PROVE IInv
  OBVIOUS
<1> USE DEF Init
<1>1. LogOK
  BY FS_EmptySet DEF LogOK, Attempts, Nobody
<1>a. DOMAIN rows = {} /\ Len(audit) = 0 /\ Len(reports) = 0
  BY DEF NoRows
<1>b. auditRead \in 0..Len(audit) /\ reportsRead \in 0..Len(reports)
  BY <1>a
<1>2. CommandOK
  BY <1>a, <1>b, Zenon DEF CommandOK
<1>3. RowsHonest /\ SettledCounted
  BY <1>a DEF RowsHonest, SettledCounted
<1>4. NoFalsePass /\ StartedFirst /\ SettledStays
  BY DEF NoFalsePass, StartedFirst, SettledStays, Nobody
<1> QED  BY <1>1, <1>2, <1>3, <1>4 DEF IInv

-----------------------------------------------------------------------------
\* The supervisor only appends: what it leaves of a log and of the command.
Grown ==
  /\ UNCHANGED cmdVars
  /\ Len(audit) <= Len(audit') /\ \A i \in 1..Len(audit) : audit'[i] = audit[i]
  /\ Len(reports) <= Len(reports') /\ \A i \in 1..Len(reports) : reports'[i] = reports[i]
  /\ carried \subseteq carried'

\* An event is appended with the time it was written at.
LEMMA WriteGrows ==
  ASSUME LogOK, NEW name \in Names, NEW op \in Operations \union {NoOp},
         NEW ids \in SUBSET Operations, Write(name, op, ids)
  PROVE  /\ clock' \in Nat /\ audit' \in Seq(Event) /\ Len(audit') = Len(audit) + 1
         /\ \A i \in 1..Len(audit) : audit'[i] = audit[i]
         /\ audit'[Len(audit')].name = name /\ audit'[Len(audit')].op = op
<1> DEFINE event == [name |-> name, op |-> op, ids |-> ids, unix |-> clock + 1]
<1>1. clock' = clock + 1 /\ clock \in Nat /\ audit \in Seq(Event)
  BY DEF Write, LogOK
<1>2. audit' = Append(audit, event) /\ event \in Event
  BY <1>1 DEF Write, Event
<1>3. event.name = name /\ event.op = op
  OBVIOUS
<1> HIDE DEF event
<1> QED  BY <1>1, <1>2, <1>3

\* A report is appended and its operation carried through.
LEMMA DeliverGrows ==
  ASSUME LogOK, NEW op \in Operations, Deliver(op)
  PROVE  /\ reports' \in Seq(Operations) /\ Len(reports') = Len(reports) + 1
         /\ \A i \in 1..Len(reports) : reports'[i] = reports[i]
         /\ reports'[Len(reports')] = op
         /\ carried' \subseteq Operations /\ carried \subseteq carried' /\ IsFiniteSet(carried')
         /\ \A i \in DOMAIN reports' : reports'[i] \in carried'
<1>1. reports' = Append(reports, op) /\ carried' = carried \union {op}
  BY DEF Deliver
<1>2. reports \in Seq(Operations) /\ carried \subseteq Operations /\ IsFiniteSet(carried)
  BY DEF LogOK
<1>3. IsFiniteSet(carried')
  BY <1>1, <1>2, FS_AddElement
<1>4. /\ reports' \in Seq(Operations) /\ Len(reports') = Len(reports) + 1
      /\ \A i \in 1..Len(reports) : reports'[i] = reports[i]
      /\ reports'[Len(reports')] = op
  BY <1>1, <1>2
<1>5. \A i \in DOMAIN reports' : reports'[i] \in carried'
  BY <1>1, <1>2, <1>4 DEF LogOK
<1> QED  BY <1>1, <1>2, <1>3, <1>4, <1>5

\* The parts of IInv about what has started, after a write.
LEMMA WriteStarted ==
  ASSUME LogOK, StartedFirst, NEW name \in Names, NEW op \in Operations \union {NoOp},
         NEW ids \in SUBSET Operations, Write(name, op, ids),
         name = "terminal" => StartedBefore(Len(audit), op)
  PROVE  /\ (\A t \in DOMAIN audit :
               audit[t].name = "terminal" => StartedBefore(t, audit[t].op))'
         /\ \A o : StartedBefore(Len(audit), o) => StartedBefore(Len(audit), o)'
         /\ name = "started" => StartedBefore(Len(audit), op)'
<1>1. /\ audit \in Seq(Event) /\ audit' \in Seq(Event) /\ Len(audit') = Len(audit) + 1
      /\ \A i \in 1..Len(audit) : audit'[i] = audit[i]
      /\ audit'[Len(audit')].name = name /\ audit'[Len(audit')].op = op
  BY WriteGrows DEF LogOK
<1>2. ASSUME NEW t \in 1..Len(audit'), audit'[t].name = "terminal"
      PROVE  \E i \in 1..t : audit'[i].name = "started" /\ audit'[i].op = audit'[t].op
  <2>1. CASE t \in 1..Len(audit)
    <3>1. \E i \in 1..t : audit[i].name = "started" /\ audit[i].op = audit[t].op
      BY <1>1, <1>2, <2>1 DEF StartedFirst, StartedBefore
    <3> QED  BY <3>1, <2>1, <1>1
  <2>2. CASE t = Len(audit')
    <3>1. \E i \in 1..Len(audit) : audit[i].name = "started" /\ audit[i].op = op
      BY <1>1, <1>2, <2>2 DEF StartedBefore
    <3> QED  BY <3>1, <2>2, <1>1
  <2> QED  BY <2>1, <2>2, <1>1
<1>3. \A o : StartedBefore(Len(audit), o) => StartedBefore(Len(audit), o)'
  BY <1>1 DEF StartedBefore
<1>4. name = "started" => StartedBefore(Len(audit), op)'
  BY <1>1 DEF StartedBefore
<1>5. (\A t \in DOMAIN audit :
        audit[t].name = "terminal" => StartedBefore(t, audit[t].op))'
  BY <1>1, <1>2 DEF StartedBefore
<1> QED  BY <1>3, <1>4, <1>5

\* Every step of the supervisor leaves the files in order and only adds to them.
LEMMA SupervisorKeeps ==
  ASSUME LogOK, StartedFirst, Supervisor
  PROVE  LogOK' /\ StartedFirst' /\ Grown
<1>0. /\ clock \in Nat /\ audit \in Seq(Event) /\ reports \in Seq(Operations)
      /\ attempt \in Attempts /\ (attempt # Nobody => attempt.op \in Operations)
      /\ owed \subseteq Operations /\ carried \subseteq Operations
  BY DEF LogOK
<1>1. ASSUME NEW op \in Operations, Dispatch(op) PROVE LogOK' /\ StartedFirst' /\ Grown
  <2>1. Write("source_dispatch", op, {}) /\ UNCHANGED <<reports, owed, carried, cmdVars>>
    BY <1>1 DEF Dispatch, Write
  <2>2. /\ attempt' = [op |-> op, at |-> "dispatched"]
        /\ attempt' \in Attempts /\ attempt'.op \in Operations /\ attempt'.at = "dispatched"
    BY <1>1 DEF Dispatch, Attempts
  <2>3. LogOK'
    BY <2>1, <2>2, <1>0, WriteGrows DEF LogOK, Names
  <2>4. StartedFirst'
    BY <2>1, <2>2, WriteStarted DEF StartedFirst, Names
  <2>5. Grown
    BY <2>1, <1>0, WriteGrows DEF Grown, Names
  <2> QED  BY <2>3, <2>4, <2>5
<1>2. ASSUME Start PROVE LogOK' /\ StartedFirst' /\ Grown
  <2>1. /\ Write("started", attempt.op, {}) /\ UNCHANGED <<reports, owed, carried, cmdVars>>
        /\ attempt.op \in Operations
    BY <1>2, <1>0 DEF Start, Write, Nobody
  <2>2. /\ attempt' \in Attempts /\ attempt'.op = attempt.op /\ attempt'.at = "started"
    BY <1>2, <1>0 DEF Start, Attempts
  <2>3. LogOK'
    BY <2>1, <2>2, <1>0, WriteGrows DEF LogOK, Names
  <2>4. StartedFirst'
    BY <2>1, <2>2, WriteStarted DEF StartedFirst, StartedBefore, Names
  <2>5. Grown
    BY <2>1, <1>0, WriteGrows DEF Grown, Names
  <2> QED  BY <2>3, <2>4, <2>5
<1>3. ASSUME Terminate PROVE LogOK' /\ StartedFirst' /\ Grown
  <2>1. /\ Write("terminal", attempt.op, {}) /\ UNCHANGED <<reports, owed, carried, cmdVars>>
        /\ attempt.op \in Operations /\ attempt.at = "started"
    BY <1>3, <1>0 DEF Terminate, Write, Nobody
  <2>2. /\ attempt' \in Attempts /\ attempt'.op = attempt.op /\ attempt'.at = "terminal"
    BY <1>3, <1>0 DEF Terminate, Attempts
  <2>3. LogOK'
    BY <2>1, <2>2, <1>0, WriteGrows DEF LogOK, Names
  <2>4. StartedBefore(Len(audit), attempt.op)
    BY <2>1 DEF StartedFirst
  <2>a. /\ (\A t \in DOMAIN audit :
              audit[t].name = "terminal" => StartedBefore(t, audit[t].op))'
        /\ \A o : StartedBefore(Len(audit), o) => StartedBefore(Len(audit), o)'
    BY <2>1, <2>4, WriteStarted DEF Names
  <2>b. StartedBefore(Len(audit), attempt.op)'
    BY <2>2, <2>4, <2>a DEF StartedBefore
  <2>5. StartedFirst'
    BY <2>a, <2>b DEF StartedFirst
  <2>6. Grown
    BY <2>1, <1>0, WriteGrows DEF Grown, Names
  <2> QED  BY <2>3, <2>5, <2>6
<1>4. ASSUME Decide \/ Defer PROVE LogOK' /\ StartedFirst' /\ Grown
  <2>1. PICK name \in {"source_decision", "bare_decision", "forced_defer"}, ids \in SUBSET Operations :
          Write(name, NoOp, ids)
    BY <1>4 DEF Decide, Defer
  <2>2. UNCHANGED <<attempt, reports, owed, carried, cmdVars>> /\ attempt = Nobody
    BY <1>4, <2>1 DEF Decide, Defer, Write
  <2>3. LogOK'
    BY <2>1, <2>2, <1>0, WriteGrows DEF LogOK, Names
  <2>4. StartedFirst'
    BY <2>1, <2>2, WriteStarted DEF StartedFirst, Names, Nobody
  <2>a. Len(audit') = Len(audit) + 1 /\ \A i \in 1..Len(audit) : audit'[i] = audit[i]
    BY <2>1, WriteGrows DEF Names
  <2>5. Grown
    BY <2>2, <2>a, <1>0 DEF Grown
  <2> QED  BY <2>3, <2>4, <2>5
<1>5. ASSUME NEW op \in Operations, Deliver(op), owed' \subseteq Operations,
             attempt' \in {attempt, Nobody}
      PROVE  LogOK' /\ StartedFirst' /\ Grown
  <2>1. UNCHANGED <<clock, audit, cmdVars>>
    BY <1>5 DEF Deliver
  <2>2. attempt' \in Attempts /\ (attempt' # Nobody => attempt'.op \in Operations)
    BY <1>5, <1>0 DEF Attempts, Nobody
  <2>3. LogOK'
    BY <1>5, <2>1, <2>2, <1>0, DeliverGrows DEF LogOK
  <2>4. StartedFirst'
    BY <1>5, <2>1 DEF StartedFirst, StartedBefore, Nobody
  <2>5. Grown
    BY <1>5, <2>1, <1>0, DeliverGrows DEF Grown
  <2> QED  BY <2>3, <2>4, <2>5
<1>6. ASSUME Report PROVE LogOK' /\ StartedFirst' /\ Grown
  <2>1. attempt.op \in Operations /\ Deliver(attempt.op) /\ attempt' = Nobody /\ owed' = owed
    BY <1>6, <1>0 DEF Report, Nobody
  <2> QED  BY <2>1, <1>0, <1>5
<1>7. ASSUME NEW op \in Operations, Redeliver(op) PROVE LogOK' /\ StartedFirst' /\ Grown
  BY <1>7, <1>0, <1>5 DEF Redeliver
<1>8. ASSUME Crash \/ Tick PROVE LogOK' /\ StartedFirst' /\ Grown
  <2>1. UNCHANGED <<audit, reports, carried, cmdVars>> /\ clock' \in Nat
    BY <1>8, <1>0 DEF Crash, Tick
  <2>2. owed' \subseteq Operations /\ attempt' \in {attempt, Nobody}
    BY <1>8, <1>0 DEF Crash, Tick, Nobody
  <2>3. attempt' \in Attempts /\ (attempt' # Nobody => attempt'.op \in Operations)
    BY <2>2, <1>0 DEF Attempts, Nobody
  <2>4. LogOK'
    BY <2>1, <2>2, <2>3 DEF LogOK
  <2>5. StartedFirst' /\ Grown
    BY <2>1, <2>2, <1>0 DEF StartedFirst, StartedBefore, Nobody, Grown
  <2> QED  BY <2>4, <2>5
<1> QED  BY <1>1, <1>2, <1>3, <1>4, <1>6, <1>7, <1>8 DEF Supervisor

\* What was read of the logs, and found in them, stays so as they grow.
LEMMA GrownReads ==
  ASSUME LogOK, LogOK', Grown, auditRead \in 0..Len(audit)
  PROVE  /\ \A name, op : Indexed(auditRead, name, op)' = Indexed(auditRead, name, op)
         /\ \A op : NextDecision(auditRead, op) => NextDecision(auditRead, op)'
         /\ MarkerObserved => MarkerObserved'
<1>1. /\ audit \in Seq(Event) /\ audit' \in Seq(Event) /\ auditRead' = auditRead
      /\ Len(audit) <= Len(audit') /\ \A i \in 1..Len(audit) : audit'[i] = audit[i]
  BY DEF LogOK, Grown, cmdVars
<1>2. \A name, op : Indexed(auditRead, name, op)' = Indexed(auditRead, name, op)
  BY <1>1 DEF Indexed
<1>3. ASSUME NEW op, NextDecision(auditRead, op) PROVE NextDecision(auditRead, op)'
  <2>1. PICK i \in 1..Len(audit) :
          /\ Follows(i, auditRead, op) /\ audit[i].name # "bare_decision"
          /\ \A j \in 1..(i - 1) : ~Follows(j, auditRead, op)
    BY <1>1, <1>3 DEF NextDecision
  <2>2. LastTerminal(auditRead, op)' = LastTerminal(auditRead, op)
    BY <1>2 DEF LastTerminal
  <2>3. LastTerminal(auditRead, op) \subseteq 1..Len(audit)
    BY <1>1 DEF LastTerminal, Indexed
  <2>4. \A j \in 1..Len(audit) : Follows(j, auditRead, op)' = Follows(j, auditRead, op)
    BY <1>1, <2>2, <2>3, Zenon DEF Follows, Answers
  <2>5. i \in 1..Len(audit') /\ Follows(i, auditRead, op)' /\ audit'[i].name # "bare_decision"
    BY <1>1, <2>1, <2>4
  <2>6. \A j \in 1..(i - 1) : ~Follows(j, auditRead, op)'
    BY <1>1, <2>1, <2>4
  <2>7. DOMAIN audit' = 1..Len(audit')
    BY <1>1
  <2> QED  BY <2>5, <2>6, <2>7 DEF NextDecision
<1>4. MarkerObserved => MarkerObserved'
  BY <1>1 DEF MarkerObserved
<1> QED  BY <1>2, <1>3, <1>4

\* A decision stays found while neither the log nor the index changes.
LEMMA SameReads ==
  ASSUME UNCHANGED <<audit, auditRead>>
  PROVE  \A op : /\ Indexed(auditRead, "terminal", op)' = Indexed(auditRead, "terminal", op)
                 /\ NextDecision(auditRead, op)' = NextDecision(auditRead, op)
<1> TAKE op
<1>1. Indexed(auditRead, "terminal", op)' = Indexed(auditRead, "terminal", op)
  BY DEF Indexed
<1>2. LastTerminal(auditRead, op)' = LastTerminal(auditRead, op)
  BY <1>1 DEF LastTerminal
<1>3. \A i : Follows(i, auditRead, op)' = Follows(i, auditRead, op)
  BY <1>2, Zenon DEF Follows, Answers
<1>4. NextDecision(auditRead, op)' = NextDecision(auditRead, op)
  BY <1>3, Zenon DEF NextDecision
<1> QED  BY <1>1, <1>4

LEMMA GrownKeeps ==
  ASSUME IInv, LogOK', Grown
  PROVE  CommandOK' /\ RowsHonest' /\ NoFalsePass' /\ SettledStays' /\ SettledCounted'
<1>1. UNCHANGED <<pc, auditRead, reportsRead, rows, settled, ok>>
  BY DEF Grown, cmdVars
<1>2. LogOK /\ auditRead \in 0..Len(audit) /\ reportsRead \in 0..Len(reports)
  BY DEF IInv, CommandOK
<1>3. /\ Len(audit) \in Nat /\ Len(audit') \in Nat /\ Len(reports) \in Nat /\ Len(reports') \in Nat
      /\ Len(audit) <= Len(audit') /\ Len(reports) <= Len(reports')
  BY <1>2 DEF LogOK, Grown
<1>4. /\ \A name, op : Indexed(auditRead, name, op)' = Indexed(auditRead, name, op)
      /\ \A op : NextDecision(auditRead, op) => NextDecision(auditRead, op)'
      /\ MarkerObserved => MarkerObserved'
  BY <1>2, GrownReads
<1>5. CommandOK'
  <2>1. Cycles' = Cycles
    BY <1>4 DEF Cycles
  <2>2. auditRead' \in 0..Len(audit') /\ reportsRead' \in 0..Len(reports')
    BY <1>1, <1>2, <1>3
  <2> QED  BY <1>1, <2>1, <2>2 DEF IInv, CommandOK
<1>6. RowsHonest' /\ SettledCounted'
  BY <1>1 DEF IInv, RowsHonest, SettledCounted, Grown
<1>7. NoFalsePass'
  <2>1. IsFiniteSet(carried') /\ carried \subseteq carried' /\ IsFiniteSet(carried)
    BY <1>2 DEF LogOK, Grown
  <2>2. /\ Cardinality(carried) \in Nat /\ Cardinality(carried') \in Nat
        /\ Cardinality(carried) <= Cardinality(carried')
    BY <2>1, FS_Subset, FS_CardinalityType
  <2> QED  BY <1>1, <1>4, <2>2, BoundsAssumption DEF IInv, NoFalsePass
<1>8. SettledStays'
  <2>1. ASSUME NEW op \in settled
        PROVE  /\ Indexed(auditRead, "terminal", op)' # {}
               /\ NextDecision(auditRead, op)'
               /\ Reported(Len(reports), op)'
               /\ pc = "rows" => Reported(reportsRead, op)'
    <3>1. /\ Indexed(auditRead, "terminal", op) # {}
          /\ NextDecision(auditRead, op)
          /\ Reported(Len(reports), op)
          /\ pc = "rows" => Reported(reportsRead, op)
      BY DEF IInv, SettledStays
    <3>2. Reported(Len(reports), op)'
      BY <3>1, <1>3 DEF Reported, Grown
    <3>3. Reported(reportsRead, op) => Reported(reportsRead, op)'
      BY <1>1, <1>2, <1>3 DEF Reported, Grown
    <3> QED  BY <3>1, <3>2, <3>3, <1>4
  <2> QED  BY <2>1, <1>1 DEF IInv, SettledStays
<1> QED  BY <1>5, <1>6, <1>7, <1>8

-----------------------------------------------------------------------------
\* The command changes nothing in the files.
LEMMA CommandReads ==
  ASSUME IInv, Command
  PROVE  LogOK' /\ StartedFirst' /\ UNCHANGED logVars
<1>1. UNCHANGED logVars
  BY DEF Command, ReadAudit, ReadReports, Row, Conclude, Forget
<1> QED  BY <1>1 DEF IInv, LogOK, StartedFirst, StartedBefore, logVars

\* An operation found through when the index was built is started by then.
LEMMA ThroughStarted ==
  ASSUME LogOK, CommandOK, StartedFirst, NEW op, Indexed(auditRead, "terminal", op) # {}
  PROVE  Indexed(auditRead, "started", op) # {}
<1>1. auditRead \in 0..Len(audit) /\ Len(audit) \in Nat
  BY DEF LogOK, CommandOK
<1>2. PICK t \in 1..auditRead : audit[t].name = "terminal" /\ audit[t].op = op
  BY DEF Indexed
<1>3. StartedBefore(t, op)
  BY <1>1, <1>2 DEF StartedFirst, LogOK
<1> QED  BY <1>1, <1>2, <1>3 DEF StartedBefore, Indexed

LEMMA ReadAuditKeeps == IInv /\ ReadAudit => IInv'
<1> SUFFICES ASSUME IInv, ReadAudit PROVE IInv'
  OBVIOUS
<1>1. LogOK' /\ StartedFirst' /\ UNCHANGED logVars
  BY CommandReads DEF Command
<1>2. /\ pc' = "reports" /\ auditRead' = Len(audit) /\ rows' = NoRows /\ settled' = Through
      /\ UNCHANGED <<audit, reports, carried, reportsRead, ok>>
  BY <1>1 DEF ReadAudit, logVars
<1>3. DOMAIN rows' = {} /\ Len(audit) \in Nat
  BY <1>2 DEF NoRows, IInv, LogOK
<1>4. CommandOK'
  <2>1. settled' \subseteq Operations
    BY <1>2 DEF Through
  <2>2. auditRead' \in 0..Len(audit')
    BY <1>2, <1>3
  <2> QED  BY <1>2, <1>3, <2>1, <2>2 DEF IInv, CommandOK
<1>5. RowsHonest' /\ SettledCounted'
  BY <1>3 DEF RowsHonest, SettledCounted
<1>6. NoFalsePass'
  BY <1>2 DEF IInv, NoFalsePass, MarkerObserved
<1>7. SettledStays'
  <2>1. ASSUME NEW op \in Through
        PROVE  /\ Indexed(auditRead, "terminal", op)' # {}
               /\ NextDecision(auditRead, op)'
               /\ Reported(Len(reports), op)'
    BY <1>2 DEF Through, Indexed, NextDecision, Follows, LastTerminal, Reported, Answers
  <2> QED  BY <1>2, <2>1 DEF SettledStays
<1> QED  BY <1>1, <1>4, <1>5, <1>6, <1>7 DEF IInv

LEMMA ReadReportsKeeps == IInv /\ ReadReports => IInv'
<1> SUFFICES ASSUME IInv, ReadReports PROVE IInv'
  OBVIOUS
<1>1. LogOK' /\ StartedFirst' /\ UNCHANGED logVars
  BY CommandReads DEF Command
<1>2. /\ pc = "reports" /\ pc' = "rows" /\ reportsRead' = Len(reports)
      /\ UNCHANGED <<audit, reports, carried, auditRead, rows, settled, ok>>
  BY <1>1 DEF ReadReports, logVars
<1>3. DOMAIN rows = {} /\ Len(reports) \in Nat
  BY <1>2 DEF IInv, CommandOK, LogOK
<1>4. CommandOK'
  <2>1. reportsRead' \in 0..Len(reports') /\ DOMAIN rows' = {}
    BY <1>2, <1>3
  <2> QED  BY <1>2, <2>1 DEF IInv, CommandOK
<1>5. RowsHonest' /\ SettledCounted'
  BY <1>2, <1>3 DEF RowsHonest, SettledCounted
<1>6. NoFalsePass'
  BY <1>2 DEF IInv, NoFalsePass, MarkerObserved
<1>7. SettledStays'
  <2>1. ASSUME NEW op \in settled
        PROVE  /\ Indexed(auditRead, "terminal", op)' # {}
               /\ NextDecision(auditRead, op)'
               /\ Reported(Len(reports), op)' /\ Reported(reportsRead, op)'
    BY <1>2, SameReads DEF IInv, SettledStays, Reported
  <2> QED  BY <1>2, <2>1 DEF SettledStays
<1> QED  BY <1>1, <1>4, <1>5, <1>6, <1>7 DEF IInv

LEMMA RowKeeps == ASSUME NEW op \in Operations, IInv, Row(op) PROVE IInv'
<1>1. LogOK' /\ StartedFirst' /\ UNCHANGED logVars
  BY CommandReads DEF Command
<1> DEFINE verdict == IF Complete(op) THEN "COMPLETE" ELSE "PARTIAL"
<1>2. /\ pc = "rows" /\ op \in Cycles
      /\ UNCHANGED <<audit, reports, carried, pc, auditRead, reportsRead, settled, ok>>
  BY <1>1 DEF Row, logVars
<1>3. /\ DOMAIN rows' = DOMAIN rows \union {op}
      /\ \A o \in DOMAIN rows : rows'[o] = rows[o]
      /\ op \notin DOMAIN rows /\ rows'[op] = verdict
  BY DEF Row
<1>4. LogOK /\ CommandOK /\ StartedFirst /\ SettledStays
  BY DEF IInv
<1>5. Complete(op) => op \in carried
  <2>1. reportsRead \in 0..Len(reports) /\ Len(reports) \in Nat /\ DOMAIN reports = 1..Len(reports)
    BY <1>4 DEF CommandOK, LogOK
  <2> QED  BY <2>1, <1>4 DEF Complete, Reported, LogOK
<1>6. op \in settled => Complete(op)
  BY <1>2, <1>4, ThroughStarted DEF SettledStays, Complete
<1>7. CommandOK'
  <2>1. Cycles' = Cycles
    BY <1>2 DEF Cycles, Indexed
  <2>2. \A o \in DOMAIN rows' : rows'[o] \in {"COMPLETE", "PARTIAL"}
    BY <1>3, <1>4 DEF CommandOK
  <2>3. DOMAIN rows' \subseteq Cycles'
    BY <1>2, <1>3, <1>4, <2>1 DEF CommandOK
  <2> QED  BY <1>2, <1>4, <2>2, <2>3 DEF CommandOK
<1>8. RowsHonest' /\ SettledCounted'
  BY <1>2, <1>3, <1>5, <1>6 DEF IInv, RowsHonest, SettledCounted
<1>9. NoFalsePass'
  BY <1>2 DEF IInv, NoFalsePass, MarkerObserved
<1>10. SettledStays'
  BY <1>2, <1>4, SameReads DEF SettledStays, Reported
<1> QED  BY <1>1, <1>7, <1>8, <1>9, <1>10 DEF IInv

LEMMA ConcludeKeeps == IInv /\ Conclude => IInv'
<1> SUFFICES ASSUME IInv, Conclude PROVE IInv'
  OBVIOUS
<1>1. LogOK' /\ StartedFirst' /\ UNCHANGED logVars
  BY CommandReads DEF Command
<1>2. /\ pc' = "idle" /\ auditRead' = 0 /\ reportsRead' = 0 /\ rows' = NoRows /\ settled' = {}
      /\ UNCHANGED <<audit, reports, carried>>
      /\ ok' = (Cardinality(Completed) >= MinComplete /\ (Marked => MarkerObserved))
  BY DEF Conclude, Forget, logVars
<1>3. DOMAIN rows' = {} /\ Len(audit) \in Nat /\ Len(reports) \in Nat
  BY <1>2 DEF NoRows, IInv, LogOK
<1>4. CommandOK'
  <2>1. auditRead' \in 0..Len(audit') /\ reportsRead' \in 0..Len(reports') /\ ok' \in BOOLEAN
    BY <1>2, <1>3
  <2> QED  BY <1>2, <1>3, <2>1 DEF CommandOK
<1>5. RowsHonest' /\ SettledCounted' /\ SettledStays'
  BY <1>2, <1>3 DEF RowsHonest, SettledCounted, SettledStays
<1>6. NoFalsePass'
  <2>1. Completed \subseteq carried /\ IsFiniteSet(carried)
    BY DEF IInv, RowsHonest, Completed, LogOK
  <2>2. /\ Cardinality(Completed) \in Nat /\ Cardinality(carried) \in Nat
        /\ Cardinality(Completed) <= Cardinality(carried)
    BY <2>1, FS_Subset, FS_CardinalityType
  <2>3. Cardinality(Completed) >= MinComplete => Cardinality(carried) >= MinComplete
    BY <2>2, BoundsAssumption
  <2>4. ok' => Cardinality(Completed) >= MinComplete /\ (Marked => MarkerObserved)
    BY <1>2, Zenon
  <2>5. MarkerObserved' = MarkerObserved /\ carried' = carried
    BY <1>2 DEF MarkerObserved
  <2> QED  BY <2>3, <2>4, <2>5 DEF NoFalsePass
<1> QED  BY <1>1, <1>4, <1>5, <1>6 DEF IInv

-----------------------------------------------------------------------------
LEMMA NextInv == IInv /\ [Next]_vars => IInv'
<1> SUFFICES ASSUME IInv, [Next]_vars PROVE IInv'
  OBVIOUS
<1>1. CASE Supervisor
  <2>1. LogOK' /\ StartedFirst' /\ Grown
    BY <1>1, SupervisorKeeps DEF IInv
  <2> QED  BY <2>1, GrownKeeps DEF IInv
<1>2. CASE Command
  BY <1>2, ReadAuditKeeps, ReadReportsKeeps, RowKeeps, ConcludeKeeps DEF Command
<1>3. CASE UNCHANGED vars
  <2>1. /\ UNCHANGED <<clock, audit, reports, attempt, owed, carried>>
        /\ UNCHANGED <<pc, auditRead, reportsRead, rows, settled, ok>>
    BY <1>3 DEF vars, logVars, cmdVars
  <2>2. LogOK' /\ StartedFirst'
    BY <2>1 DEF IInv, LogOK, StartedFirst, StartedBefore
  <2>3. Grown
    BY <2>1 DEF Grown, cmdVars, IInv, LogOK
  <2> QED  BY <2>2, <2>3, GrownKeeps DEF IInv
<1> QED  BY <1>1, <1>2, <1>3 DEF Next

LEMMA Invariant == Spec => []IInv
  BY InitInv, NextInv, PTL DEF Spec

\* Every variable keeps its type, and the command never has more of a log in
\* hand than there is of it.
THEOREM TypeCorrect == Spec => []TypeOK
<1>1. IInv => TypeOK
  BY DEF IInv, LogOK, CommandOK, TypeOK, Attempts
<1> QED  BY <1>1, Invariant, PTL

\* The command does not infer success: OK is said only of a run in which as many
\* operations as asked for were carried through to their report.
THEOREM NoFalsePasses == Spec => []NoFalsePass
<1>1. IInv => NoFalsePass
  BY DEF IInv
<1> QED  BY <1>1, Invariant, PTL

\* A cycle the chain had caught up with when the command began to read is counted
\* as complete, whatever is written or retried before its row is made.
THEOREM SettledAreCounted == Spec => []SettledCounted
<1>1. IInv => SettledCounted
  BY DEF IInv
<1> QED  BY <1>1, Invariant, PTL
=============================================================================
