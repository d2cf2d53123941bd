-------------------------- MODULE WorkSourceProofs --------------------------
(***************************************************************************)
(* Proofs about WorkSource, for every set of items and every bound.        *)
(*                                                                         *)
(* NoDeltaRunBounded is not inductive by itself: that a run of Threshold   *)
(* no-deltas does not grow rests on the guard having kept the operation    *)
(* out of every dispatch since, so the invariant also says that nothing in *)
(* flight is stuck.                                                        *)
(*                                                                         *)
(* NoLostWake follows the fingerprint through a tick: it is read before the *)
(* program is asked, and HEAD only moves on (StampsLag).                    *)
(***************************************************************************)
EXTENDS WorkSource, SequenceTheorems, TLAPS

\* Nothing in flight already has Threshold no-deltas in a row.
InflightNotStuck == \A op \in inflight : ~StuckFor(ledger, op, Threshold)

IInv == TypeOK /\ NoDeltaRunBounded /\ InflightNotStuck

-----------------------------------------------------------------------------
\* Push keeps the ledger a bounded sequence of reports.
LEMMA PushType ==
  ASSUME NEW s \in Seq(Reports), Len(s) <= Window, NEW r \in Reports
  PROVE  Push(s, r) \in Seq(Reports) /\ Len(Push(s, r)) <= Window
<1>1. CASE Len(s) < Window
  BY <1>1, WindowAssumption DEF Push
<1>2. CASE Len(s) >= Window
  <2>1. Len(s) > 0 /\ s # <<>>
    BY <1>2, WindowAssumption, ThresholdAssumption
  <2>2. Tail(s) \in Seq(Reports) /\ Len(Tail(s)) = Len(s) - 1
    BY <2>1
  <2> QED  BY <1>2, <2>2, WindowAssumption DEF Push
<1> QED  BY <1>1, <1>2, WindowAssumption

\* A pushed report extends a run only if it continues it.
LEMMA PushStuck ==
  ASSUME NEW s \in Seq(Reports), Len(s) <= Window, NEW r \in Reports,
         NEW op, NEW n \in Nat, n < Window,
         StuckFor(Push(s, r), op, n + 1)
  PROVE  r = NoDelta(op) /\ StuckFor(s, op, n)
<1> DEFINE t == Push(s, r)
<1>1. /\ Len(t) >= n + 1
      /\ \A i \in (Len(t) - n)..Len(t) : t[i] = NoDelta(op)
  BY DEF StuckFor
<1>2. CASE Len(s) < Window
  <2>1. t = Append(s, r) /\ Len(t) = Len(s) + 1
    BY <1>2 DEF Push
  <2>2. t[Len(t)] = r /\ \A i \in 1..Len(s) : t[i] = s[i]
    BY <2>1
  <2> HIDE DEF t
  <2>3. r = NoDelta(op)
    BY <1>1, <2>1, <2>2
  <2>4. Len(s) >= n /\ \A i \in (Len(s) - n + 1)..Len(s) : s[i] = NoDelta(op)
    BY <1>1, <2>1, <2>2
  <2> QED  BY <2>3, <2>4 DEF StuckFor
<1>3. CASE Len(s) >= Window
  <2>1. Len(s) > 0 /\ s # <<>>
    BY <1>3, WindowAssumption, ThresholdAssumption
  <2>2. /\ Tail(s) \in Seq(Reports)
        /\ Len(Tail(s)) = Len(s) - 1
        /\ \A i \in 1..Len(Tail(s)) : Tail(s)[i] = s[i + 1]
    BY <2>1
  <2>3. t = Append(Tail(s), r)
    BY <1>3, WindowAssumption DEF Push
  <2>4. Len(t) = Len(s)
    BY <2>2, <2>3
  <2>5. t[Len(t)] = r /\ \A i \in 1..(Len(s) - 1) : t[i] = s[i + 1]
    BY <2>2, <2>3, <2>4
  <2> HIDE DEF t
  <2>6. r = NoDelta(op)
    BY <1>1, <2>4, <2>5
  <2>7. Len(s) >= n
    BY <1>1, <2>4
  <2>8. ASSUME NEW j \in (Len(s) - n + 1)..Len(s)
        PROVE  s[j] = NoDelta(op)
    <3>1. j - 1 \in (Len(t) - n)..Len(t) /\ j - 1 \in 1..(Len(s) - 1)
      BY <2>4, <1>1, <1>3, WindowAssumption
    <3>2. t[j - 1] = s[(j - 1) + 1]
      BY <3>1, <2>5
    <3> QED  BY <1>1, <3>1, <3>2
  <2> QED  BY <2>6, <2>7, <2>8 DEF StuckFor
<1> QED  BY <1>2, <1>3, WindowAssumption

LEMMA SequenceOf ==
  ASSUME NEW S, NEW n \in Nat, NEW f \in [1..n -> S]
  PROVE  f \in Seq(S)
  OBVIOUS

\* What the program answers is a list of requests, as long as its active items
\* are, each stamped with what was read before or is read then.
LEMMA AnswersTyped ==
  ASSUME TypeOK, roadmap.state = "readable", NEW w \in Answers(roadmap.active)
  PROVE  /\ w \in Seq(WorkRequests)
         /\ \A i \in DOMAIN w : w[i].source_revision \in {observed, Fingerprint}
         /\ roadmap.active # <<>> => w # <<>>
<1> DEFINE active == roadmap.active
<1>1. active \in WorkLists
  BY DEF TypeOK, Roadmaps
<1>2. PICK n \in 0..MaxActive : active \in [1..n -> Items]
  BY <1>1 DEF WorkLists
<1>3. PICK roles \in [DOMAIN active -> ProgramRoles],
           stamps \in [DOMAIN active -> {observed, Fingerprint}] :
        w = [i \in DOMAIN active |->
              [operation_id |-> active[i], role |-> roles[i], source_revision |-> stamps[i]]]
  BY DEF Answers
<1>4. {observed, Fingerprint} \subseteq Nat \union {Zeros}
  BY DEF TypeOK, Fingerprint
<1> HIDE DEF active
<1>5. \A i \in 1..n : w[i] \in WorkRequests /\ w[i].source_revision \in {observed, Fingerprint}
  BY <1>2, <1>3, <1>4 DEF WorkRequests
<1>6. w \in [1..n -> WorkRequests] /\ n \in Nat
  BY <1>2, <1>3, <1>5, BoundsAssumption
<1>7. w \in Seq(WorkRequests)
  BY <1>6, SequenceOf
<1>8. active # <<>> => w # <<>>
  <2>1. n = 0 => active = <<>>
    BY <1>2
  <2>2. n # 0 => 1 \in DOMAIN w
    BY <1>6
  <2> QED  BY <2>1, <2>2
<1> QED  BY <1>5, <1>6, <1>7, <1>8 DEF active

\* Requests name items, and a non-empty list names some.
LEMMA RequestedItems ==
  ASSUME NEW w \in Seq(WorkRequests)
  PROVE  Operations(w) \subseteq Items /\ (w # <<>> => Operations(w) # {})
<1>1. \A i \in DOMAIN w : w[i] \in WorkRequests
  OBVIOUS
<1>2. Operations(w) \subseteq Items
  BY <1>1 DEF Operations, Listed, WorkRequests
<1>3. w # <<>> => 1 \in DOMAIN w
  OBVIOUS
<1>4. \A i \in DOMAIN w : w[i].operation_id \in Operations(w)
  BY DEF Operations, Listed
<1> QED  BY <1>2, <1>3, <1>4

\* The parsed ledger after a report, and what it says of a run, whether or not
\* the report fell into a partial line.
LEMMA RecordedStuck ==
  ASSUME ledger \in Seq(Reports), Len(ledger) <= Window, NEW r \in Reports
  PROVE  /\ Recorded(r) \in Seq(Reports) /\ Len(Recorded(r)) <= Window
         /\ \A op : \A n \in Nat :
              n < Window /\ StuckFor(Recorded(r), op, n + 1)
              => \/ StuckFor(ledger, op, n + 1)
                 \/ r = NoDelta(op) /\ StuckFor(ledger, op, n)
<1>1. Recorded(r) = ledger \/ Recorded(r) = Push(ledger, r)
  BY DEF Recorded
<1>2. Push(ledger, r) \in Seq(Reports) /\ Len(Push(ledger, r)) <= Window
  BY PushType
<1>3. ASSUME NEW op, NEW n \in Nat, n < Window, StuckFor(Recorded(r), op, n + 1)
      PROVE  \/ StuckFor(ledger, op, n + 1)
             \/ r = NoDelta(op) /\ StuckFor(ledger, op, n)
  BY <1>1, <1>3, PushStuck
<1> QED  BY <1>1, <1>2, <1>3

-----------------------------------------------------------------------------
LEMMA InitInv == Init => IInv
<1> SUFFICES ASSUME Init PROVE IInv
  OBVIOUS
<1>1. <<>> \in Seq(WorkRequests)
  OBVIOUS
<1>2. ledger \in Seq(Reports) /\ Len(ledger) <= Window
  BY WindowAssumption DEF Init
<1>3. deltas \in [Items -> 0..Stagnation]
  BY BoundsAssumption DEF Init
<1>4. TypeOK
  BY <1>1, <1>2, <1>3 DEF Init, TypeOK, Phases
<1>5. NoDeltaRunBounded /\ InflightNotStuck
  BY ThresholdAssumption DEF Init, NoDeltaRunBounded, InflightNotStuck, StuckFor
<1> QED  BY <1>4, <1>5 DEF IInv

\* What every decision without a dispatch preserves: nothing new is in flight.
LEMMA QuietStep ==
  ASSUME IInv, UNCHANGED <<ledger, inflight>>, TypeOK'
  PROVE  IInv'
BY DEF IInv, NoDeltaRunBounded, InflightNotStuck

\* A wait, or a failed call, from a phase with nothing in flight.
LEMMA HoldStep ==
  ASSUME IInv, phase \in {"revision", "work"}, observed \in Nat \union {Zeros},
         UNCHANGED <<programVars, reportVars>>, seen' \in Nat,
         \/ \E reason, fp : WaitFor(reason, fp)
         \/ Raise
  PROVE  IInv'
<1>1. /\ phase' \in {"idle", "waiting"}
      /\ observed' = Zeros /\ work' = <<>> /\ inflight' = inflight
  BY DEF WaitFor, Raise, Return
<1>2. <<>> \in Seq(WorkRequests)
  OBVIOUS
<1>3. TypeOK'
  BY <1>1, <1>2 DEF IInv, TypeOK, Phases, programVars, reportVars
<1> QED  BY <1>1, <1>3, QuietStep DEF reportVars

\* Another role changes no operation and no stamp of a request.
LEMMA RoleKeeps ==
  ASSUME NEW w \in Seq(WorkRequests), NEW role
  PROVE  Operations([i \in DOMAIN w |-> [w[i] EXCEPT !.role = role]]) = Operations(w)
<1> DEFINE new == [i \in DOMAIN w |-> [w[i] EXCEPT !.role = role]]
<1>1. \A i \in DOMAIN w : w[i] \in WorkRequests
  OBVIOUS
<1>2. DOMAIN new = DOMAIN w /\ \A i \in DOMAIN w : new[i].operation_id = w[i].operation_id
  BY <1>1 DEF WorkRequests
<1> HIDE DEF new
<1>3. Operations(new) = {new[i].operation_id : i \in DOMAIN new}
  BY DEF Operations, Listed
<1>4. Operations(w) = {w[i].operation_id : i \in DOMAIN w}
  BY DEF Operations, Listed
<1> QED  BY <1>2, <1>3, <1>4 DEF new

\* A dispatch: the guard found no item of the list stuck.
LEMMA DispatchStep ==
  ASSUME IInv, Deciding, Stuck = {},
         NEW requests, Operations(requests) = Operations(work),
         NEW reason, NEW fp, Dispatch(reason, fp, requests)
  PROVE  IInv'
<1>1. /\ phase = "work" /\ phase' = "running"
      /\ observed' = Zeros /\ work' = <<>> /\ inflight' = Operations(work)
      /\ UNCHANGED <<programVars, reportVars, seen>>
  BY DEF Deciding, Dispatch, Return
<1>2. <<>> \in Seq(WorkRequests)
  OBVIOUS
<1>3. inflight' \subseteq Items /\ inflight' # {}
  BY <1>1, RequestedItems DEF IInv, TypeOK
<1>4. TypeOK'
  BY <1>1, <1>2, <1>3 DEF IInv, TypeOK, Phases, programVars, reportVars
<1>5. InflightNotStuck'
  BY <1>1 DEF InflightNotStuck, Stuck, Operations, Listed, reportVars
<1>6. NoDeltaRunBounded'
  BY <1>1 DEF IInv, NoDeltaRunBounded, reportVars
<1> QED  BY <1>4, <1>5, <1>6 DEF IInv

\* A report extends only the run of its own item, which then leaves the flight.
LEMMA ReportStep ==
  ASSUME IInv, NEW op \in Items, WorkerReports(op)
  PROVE  IInv'
<1>1. PICK outcome \in Outcomes :
        /\ ledger' = Recorded([operation_id |-> op, outcome |-> outcome])
        /\ torn' = FALSE
        /\ deltas' = [deltas EXCEPT ![op] = Sessions(op, outcome)]
        /\ admitted' = IF outcome = "progress" THEN admitted \ {op} ELSE admitted
  BY DEF WorkerReports
<1> DEFINE r == [operation_id |-> op, outcome |-> outcome]
<1>2. r \in Reports /\ \A o : r = NoDelta(o) => o = op
  BY DEF Reports, NoDelta
<1>3. ledger \in Seq(Reports) /\ Len(ledger) <= Window
  BY DEF IInv, TypeOK
<1>4. /\ op \in inflight
      /\ inflight' = inflight \ {op}
      /\ phase = "running"
      /\ phase' = IF inflight' = {} THEN "idle" ELSE "running"
      /\ UNCHANGED <<programVars, tickVars>>
  BY DEF WorkerReports
<1> HIDE DEF r
<1>5. /\ ledger' \in Seq(Reports) /\ Len(ledger') <= Window
      /\ \A o : \A n \in Nat :
           n < Window /\ StuckFor(ledger', o, n + 1)
           => StuckFor(ledger, o, n + 1) \/ (o = op /\ StuckFor(ledger, o, n))
  BY <1>1, <1>2, <1>3, RecordedStuck DEF r
<1>6. TypeOK'
  <2>1. deltas' \in [Items -> 0..Stagnation]
    <3>1. Sessions(op, outcome) \in 0..Stagnation
      <4>1. deltas[op] \in 0..Stagnation
        BY DEF IInv, TypeOK
      <4>2. \/ Sessions(op, outcome) = 0
            \/ deltas[op] < Stagnation /\ Sessions(op, outcome) = deltas[op] + 1
            \/ Sessions(op, outcome) = Stagnation
        BY Zenon DEF Sessions
      <4>3. Stagnation \in Nat
        BY BoundsAssumption
      <4> QED  BY <4>1, <4>2, <4>3
    <3> QED  BY <3>1, <1>1 DEF IInv, TypeOK
  <2> QED  BY <2>1, <1>1, <1>4, <1>5 DEF IInv, TypeOK, Phases, programVars, tickVars
<1>7. NoDeltaRunBounded'
  <2>1. Threshold \in Nat /\ Threshold < Window
    BY ThresholdAssumption, WindowAssumption
  <2> QED  BY <2>1, <1>4, <1>5 DEF IInv, NoDeltaRunBounded, InflightNotStuck
<1>8. InflightNotStuck'
  <2>1. Threshold - 1 \in Nat /\ Threshold - 1 < Window /\ (Threshold - 1) + 1 = Threshold
    BY ThresholdAssumption, WindowAssumption
  <2> QED  BY <2>1, <1>4, <1>5 DEF IInv, InflightNotStuck
<1> QED  BY <1>6, <1>7, <1>8 DEF IInv

\* Every step of the system preserves the invariant.
LEMMA NextInv == IInv /\ [Next]_vars => IInv'
<1> SUFFICES ASSUME IInv, [Next]_vars PROVE IInv'
  OBVIOUS
<1>1. CASE ReadRevision
  <2>1. observed' \in Nat \union {Zeros}
    BY <1>1 DEF ReadRevision, Fingerprint, IInv, TypeOK
  <2>2. TypeOK'
    BY <1>1, <2>1
    DEF ReadRevision, IInv, TypeOK, Phases, programVars, reportVars
  <2> QED  BY <1>1, <2>2, QuietStep DEF ReadRevision, reportVars
<1>2. CASE NoCallable \/ ForeignAnswer \/ RoadmapMissing \/ NoActiveWork
  <2>1. Asked /\ \E reason, fp : WaitFor(reason, fp)
    BY <1>2 DEF NoCallable, ForeignAnswer, RoadmapMissing, NoActiveWork
  <2> QED  BY <2>1, HoldStep DEF Asked, IInv, TypeOK
<1>3. CASE TakeWork
  <2>1. work' \in Seq(WorkRequests) /\ work' # <<>>
    BY <1>3, AnswersTyped DEF TakeWork, IInv
  <2>2. TypeOK'
    BY <1>3, <2>1 DEF TakeWork, Asked, IInv, TypeOK, Phases, programVars, reportVars
  <2> QED  BY <1>3, <2>2, QuietStep DEF TakeWork, Asked, reportVars
<1>4. CASE GuardHolds \/ ConsultStale
  <2>1. Deciding /\ \E reason, fp : WaitFor(reason, fp)
    BY <1>4 DEF GuardHolds, ConsultStale, Consulted
  <2> QED  BY <2>1, HoldStep DEF Deciding, IInv, TypeOK
<1>5. CASE Fallback
  BY <1>5, DispatchStep DEF Fallback
<1>6. CASE ConsultVerdict
  <2>1. Deciding /\ Stuck = {}
    BY <1>6 DEF ConsultVerdict, Consulted
  <2>2. PICK verdict : VerdictHolds(verdict) \/ VerdictDispatches(verdict)
    BY <1>6 DEF ConsultVerdict
  <2>3. CASE VerdictHolds(verdict)
    <3>1. \E reason, fp : WaitFor(reason, fp)
      BY <2>3 DEF VerdictHolds
    <3> QED  BY <2>1, <3>1, HoldStep DEF Deciding, IInv, TypeOK
  <2>4. CASE VerdictDispatches(verdict)
    <3>1. PICK role, reason : DispatchAs(role, reason)
      BY <2>4 DEF VerdictDispatches
    <3>2. work \in Seq(WorkRequests)
      BY DEF IInv, TypeOK
    <3> QED  BY <2>1, <3>1, <3>2, RoleKeeps, DispatchStep DEF DispatchAs
  <2> QED  BY <2>2, <2>3, <2>4
<1>7. ASSUME NEW op \in Items, WorkerReports(op) PROVE IInv'
  BY <1>7, ReportStep
<1>8. ASSUME NEW op \in Items, AdmitHorizon(op) PROVE IInv'
  <2>1. TypeOK'
    BY <1>8 DEF AdmitHorizon, IInv, TypeOK, programVars, tickVars
  <2> QED  BY <1>8, <2>1, QuietStep DEF AdmitHorizon
<1>9. CASE SupervisorCrash
  <2>1. TypeOK'
    BY <1>9 DEF SupervisorCrash, IInv, TypeOK, Phases, programVars, tickVars
  <2> QED  BY <1>9, <2>1
           DEF SupervisorCrash, IInv, NoDeltaRunBounded, InflightNotStuck
<1>10. CASE EditRoadmap
  <2>1. TypeOK'
    BY <1>10 DEF EditRoadmap, IInv, TypeOK, reportVars, tickVars
  <2> QED  BY <1>10, <2>1, QuietStep DEF EditRoadmap, reportVars
<1>11. CASE ChangeProgram
  <2>1. TypeOK'
    BY <1>11 DEF ChangeProgram, IInv, TypeOK, reportVars, tickVars
  <2> QED  BY <1>11, <2>1, QuietStep DEF ChangeProgram, reportVars
<1>12. CASE UNCHANGED vars
  <2>1. TypeOK'
    BY <1>12 DEF vars, IInv, TypeOK, programVars, reportVars, tickVars
  <2> QED  BY <1>12, <2>1, QuietStep DEF vars, reportVars
<1>13. CASE ProgramRaises \/ RoadmapMalformed \/ ConsultRaises
  <2>1. /\ Raise /\ phase \in {"revision", "work"}
        /\ UNCHANGED <<programVars, reportVars>> /\ seen' \in Nat
    BY <1>13 DEF ProgramRaises, RoadmapMalformed, ConsultRaises, Consulted, Deciding, Asked, IInv, TypeOK
  <2> QED  BY <2>1, HoldStep DEF IInv, TypeOK
<1> QED
  BY <1>1, <1>2, <1>3, <1>4, <1>5, <1>6, <1>7, <1>8, <1>9, <1>10, <1>11, <1>12, <1>13
  DEF Next, Answer

\* The strengthened invariant holds throughout every behaviour.
THEOREM Invariance == Spec => []IInv
  BY InitInv, NextInv, PTL DEF Spec

\* Every variable keeps its type, for every set of items and every bound.
THEOREM TypeCorrect == Spec => []TypeOK
<1>1. IInv => TypeOK
  BY DEF IInv
<1> QED  BY <1>1, Invariance, PTL

\* The guard of _check_no_delta_loop bounds the no-delta runs of every
\* operation by the threshold, whatever the program lists, however math
\* answers, and wherever reports are lost.
THEOREM NoDeltaRunsBounded == Spec => []NoDeltaRunBounded
<1>1. IInv => NoDeltaRunBounded
  BY DEF IInv
<1> QED  BY <1>1, Invariance, PTL

-----------------------------------------------------------------------------
(* The stamp of a Wait. *)

\* fp is not newer than the revision r.
NotAfter(fp, r) == fp = Zeros \/ (fp \in Nat /\ fp <= r)

\* From the reading of HEAD to the answer, each revision in hand is at most the next.
StampsLag ==
  /\ NotAfter(seen, rev)
  /\ phase = "revision" => NotAfter(observed, rev)
  /\ phase = "work" =>
       /\ NotAfter(observed, seen)
       /\ \A i \in DOMAIN work : NotAfter(work[i].source_revision, seen)
  /\ phase = "waiting" /\ decision.kind = "wait" => NotAfter(decision.fp, seen)

LEMMA InitStamps == Init => StampsLag
  BY DEF Init, StampsLag, NotAfter, Zeros

LEMMA NextStamps ==
  ASSUME TypeOK, StampsLag, [Next]_vars
  PROVE  StampsLag'
<1>1. rev \in Nat /\ seen \in Nat /\ seen <= rev /\ Zeros \notin Nat
  BY DEF TypeOK, StampsLag, NotAfter, Zeros
<1>2. CASE ReadRevision
  <2>1. NotAfter(observed', rev)
    BY <1>1, <1>2 DEF ReadRevision, Fingerprint, NotAfter
  <2>2. phase' = "revision" /\ seen' = seen /\ rev' = rev
    BY <1>2 DEF ReadRevision, programVars
  <2> QED  BY <1>1, <2>1, <2>2 DEF StampsLag, NotAfter
<1>3. CASE NoCallable \/ ForeignAnswer \/ RoadmapMissing \/ NoActiveWork
  <2>1. /\ phase = "revision" /\ seen' = rev /\ rev' = rev
        /\ phase' = "waiting" /\ decision'.fp = observed
    BY <1>3 DEF NoCallable, ForeignAnswer, RoadmapMissing, NoActiveWork, Asked, WaitFor, programVars
  <2> QED  BY <1>1, <2>1 DEF StampsLag, NotAfter
<1>4. CASE TakeWork
  <2>1. /\ phase = "revision" /\ seen' = rev /\ rev' = rev
        /\ phase' = "work" /\ observed' = observed
    BY <1>4 DEF TakeWork, Asked, programVars
  <2>2. \A i \in DOMAIN work' : work'[i].source_revision \in {observed, Fingerprint}
    BY <1>4, AnswersTyped DEF TakeWork
  <2>3. NotAfter(observed, rev) /\ NotAfter(Fingerprint, rev)
    BY <1>1, <2>1 DEF StampsLag, NotAfter, Fingerprint
  <2> QED  BY <1>1, <2>1, <2>2, <2>3 DEF StampsLag, NotAfter
<1>5. CASE GuardHolds \/ ConsultStale \/ Fallback \/ ConsultVerdict
  <2>1. phase = "work" /\ seen' = seen /\ rev' = rev
    BY <1>5 DEF GuardHolds, ConsultStale, Fallback, ConsultVerdict, Consulted, Deciding, programVars
  <2>2. Candidate = work[1] /\ 1 \in DOMAIN work
    BY <2>1 DEF TypeOK, Candidate
  <2>3. \/ \E reason : \E i \in DOMAIN work : WaitFor(reason, work[i].source_revision)
        \/ \E reason, fp, requests : Dispatch(reason, fp, requests)
    <3>1. CASE GuardHolds
      BY <3>1 DEF GuardHolds, Stuck
    <3>2. CASE ConsultStale
      BY <2>2, <3>2 DEF ConsultStale
    <3>3. CASE Fallback
      BY <3>3 DEF Fallback
    <3>4. CASE ConsultVerdict
      BY <2>2, <3>4 DEF ConsultVerdict, VerdictHolds, VerdictDispatches, DispatchAs
    <3> QED  BY <1>5, <3>1, <3>2, <3>3, <3>4
  <2>4. CASE \E reason : \E i \in DOMAIN work : WaitFor(reason, work[i].source_revision)
    <3>1. PICK reason : \E i \in DOMAIN work : WaitFor(reason, work[i].source_revision)
      BY <2>4
    <3>2. PICK i \in DOMAIN work : WaitFor(reason, work[i].source_revision)
      BY <3>1
    <3>3. phase' = "waiting" /\ decision'.fp = work[i].source_revision
      BY <3>2 DEF WaitFor
    <3> QED  BY <1>1, <2>1, <3>3 DEF StampsLag
  <2>5. CASE \E reason, fp, requests : Dispatch(reason, fp, requests)
    <3>1. phase' = "running"
      BY <2>5 DEF Dispatch
    <3> QED  BY <1>1, <2>1, <3>1 DEF StampsLag
  <2> QED  BY <2>3, <2>4, <2>5
<1>6. ASSUME NEW op \in Items, WorkerReports(op) PROVE StampsLag'
  <2>1. phase' \in {"idle", "running"} /\ seen' = seen /\ rev' = rev
    BY <1>6 DEF WorkerReports, programVars, tickVars
  <2> QED  BY <2>1 DEF StampsLag
<1>7. CASE SupervisorCrash
  BY <1>7 DEF SupervisorCrash, programVars, tickVars, StampsLag
<1>8. CASE EditRoadmap
  <2>1. /\ rev' = rev + 1 /\ UNCHANGED <<seen, observed, work, phase, decision>>
    BY <1>8 DEF EditRoadmap, tickVars
  <2>2. \A fp : NotAfter(fp, rev) => NotAfter(fp, rev + 1)
    BY <1>1 DEF NotAfter
  <2> QED  BY <2>1, <2>2 DEF StampsLag
<1>9. CASE ChangeProgram \/ \E op \in Items : AdmitHorizon(op)
  BY <1>9 DEF ChangeProgram, AdmitHorizon, programVars, tickVars, StampsLag
<1>10. CASE UNCHANGED vars
  BY <1>10 DEF vars, programVars, tickVars, StampsLag
<1>11. CASE ProgramRaises \/ RoadmapMalformed \/ ConsultRaises
  <2>1. phase' = "idle" /\ rev' = rev /\ seen' \in {seen, rev}
    BY <1>11 DEF ProgramRaises, RoadmapMalformed, ConsultRaises, Consulted, Deciding, Asked, Raise, programVars
  <2> QED  BY <1>1, <2>1 DEF StampsLag, NotAfter
<1> QED
  BY <1>2, <1>3, <1>4, <1>5, <1>6, <1>7, <1>8, <1>9, <1>10, <1>11 DEF Next, Answer

\* In a git checkout no Wait is slept through: once the program has moved past
\* what a Wait was computed from, HEAD differs from its stamp, for any number of
\* edits at any point of a tick.
THEOREM NoWakeIsLost == ASSUME GitCheckout PROVE Spec => []NoLostWake
<1>1. ASSUME TypeOK, StampsLag PROVE NoLostWake
  <2>1. rev \in Nat /\ seen \in Nat /\ seen <= rev /\ Zeros \notin Nat /\ Fingerprint = rev
    BY <1>1 DEF TypeOK, StampsLag, NotAfter, Fingerprint, Zeros
  <2> QED  BY <1>1, <2>1 DEF NoLostWake, StampsLag, NotAfter
<1> QED  BY <1>1, InitStamps, NextStamps, TypeCorrect, PTL DEF Spec

=============================================================================
