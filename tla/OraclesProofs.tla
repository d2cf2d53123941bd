---------------------------- MODULE OraclesProofs ----------------------------
(***************************************************************************)
(* Proofs about Oracles, for every scenario and runs of any length.        *)
(*                                                                         *)
(* Three invariants, each resting on the one before.  AuditInv: every line  *)
(* of the audit log, whatever happened to it, carries the hash of its own   *)
(* text or of a changed text, and the lines read so far form a chain.       *)
(* RunInv: how the four streams relate to each other and to what went wrong *)
(* in the run.  ReadInv: what each oracle knows after the lines it has read *)
(* is what there is to know of them, and each verdict follows from it.      *)
(***************************************************************************)
EXTENDS Oracles, FiniteSetTheorems, SequenceTheorems, TLAPS

Lines == AuditLine \union {Torn}

\* Every line is one the supervisor wrote, with its hash or that of a changed text.
Genuine(log) ==
  /\ log \in Seq(Lines)
  /\ \A i \in DOMAIN log : log[i] # Torn => log[i].hash \in {log[i].prev + 1, Edited}

\* The first n lines carry the hashes of the lines before them.
Chained(log, n) ==
  \A i \in 1..n :
    /\ log[i] # Torn
    /\ log[i].prev = i - 1
    /\ i < n => log[i].hash = i

StageOK ==
  /\ stage \in OracleSet \union {"running", "written", "done"}
  /\ verdict \in [OracleSet \union {"scenario"} -> Verdicts]
  /\ line \in Nat
  /\ stage \in {"running", "written"} => line = 0
  /\ stage \in {"running", "written", "transcript", "audit"} => verdict["audit"] = "none"
  /\ stage \in {"running", "written", "transcript"} => expectedPrev = Genesis

\* The audit oracle at work.
ChainRead ==
  stage = "audit" =>
    /\ line <= Len(audit)
    /\ Chained(audit, line)
    /\ expectedPrev = IF line = 0 THEN Genesis ELSE audit[line].hash

AuditInv ==
  /\ written \in Nat
  /\ Genuine(audit)
  /\ StageOK
  /\ ChainRead
  /\ verdict["audit"] = "PASS" => Chained(audit, Len(audit))

-----------------------------------------------------------------------------
\* A genuine log stays genuine when a line is appended, cut, lost or changed.
LEMMA GenuineAppend ==
  ASSUME NEW log, Genuine(log), NEW n \in Nat
  PROVE  Genuine(Append(log, [hash |-> n + 1, prev |-> n]))
<1> DEFINE entry == [hash |-> n + 1, prev |-> n]
           new == Append(log, entry)
<1>1. entry \in Lines
  BY DEF Lines, AuditLine
<1>2. /\ new \in Seq(Lines) /\ Len(new) = Len(log) + 1
      /\ \A i \in 1..Len(log) : new[i] = log[i]
      /\ new[Len(log) + 1] = entry
  BY <1>1 DEF Genuine
<1> HIDE DEF new
<1>3. \A i \in DOMAIN new : new[i] # Torn => new[i].hash \in {new[i].prev + 1, Edited}
  BY <1>2 DEF Genuine
<1> QED  BY <1>2, <1>3 DEF Genuine, new

LEMMA GenuineCut ==
  ASSUME NEW log, Genuine(log), log # <<>>
  PROVE  Genuine(Cut(log))
<1> DEFINE new == Cut(log)
<1>1. /\ new \in Seq(Lines) /\ Len(new) = Len(log)
      /\ \A i \in 1..Len(log) : new[i] = IF i = Len(log) THEN Torn ELSE log[i]
  BY DEF Cut, Genuine, Lines
<1> HIDE DEF new
<1>2. \A i \in DOMAIN new : new[i] # Torn => new[i].hash \in {new[i].prev + 1, Edited}
  BY <1>1 DEF Genuine
<1> QED  BY <1>1, <1>2 DEF Genuine, new

LEMMA GenuineLoss ==
  ASSUME NEW log, Genuine(log), NEW k \in DOMAIN log
  PROVE  Genuine(SubSeq(log, 1, k - 1) \o SubSeq(log, k + 1, Len(log)))
<1> DEFINE front == SubSeq(log, 1, k - 1)
           back  == SubSeq(log, k + 1, Len(log))
           new   == front \o back
<1>1. log \in Seq(Lines) /\ k \in 1..Len(log) /\ Len(log) \in Nat
  BY DEF Genuine
<1>2. /\ front \in Seq(Lines) /\ Len(front) = k - 1
      /\ \A i \in 1..(k - 1) : front[i] = log[i]
  BY <1>1
<1>3. /\ back \in Seq(Lines) /\ Len(back) = Len(log) - k
      /\ \A i \in 1..(Len(log) - k) : back[i] = log[k + i]
  BY <1>1
<1> HIDE DEF front, back
<1>4. /\ new \in Seq(Lines) /\ Len(new) = Len(log) - 1
      /\ \A i \in 1..(Len(log) - 1) :
           new[i] = IF i < k THEN log[i] ELSE log[i + 1]
  <2>1. /\ new \in Seq(Lines) /\ Len(new) = Len(front) + Len(back)
        /\ \A i \in 1..(Len(front) + Len(back)) :
             new[i] = IF i <= Len(front) THEN front[i] ELSE back[i - Len(front)]
    BY <1>2, <1>3, ConcatProperties
  <2> HIDE DEF new
  <2>2. Len(new) = Len(log) - 1
    BY <2>1, <1>1, <1>2, <1>3
  <2>3. ASSUME NEW i \in 1..(Len(log) - 1)
        PROVE  new[i] = IF i < k THEN log[i] ELSE log[i + 1]
    <3>a. Len(front) + Len(back) = Len(log) - 1 /\ Len(front) = k - 1
      BY <1>1, <1>2, <1>3
    <3>b. new[i] = IF i <= k - 1 THEN front[i] ELSE back[i - (k - 1)]
      BY <3>a, <2>1
    <3>1. CASE i < k
      BY <3>1, <3>b, <1>1, <1>2
    <3>2. CASE i >= k
      <4>1. new[i] = back[i - (k - 1)]
        BY <3>2, <3>b, <1>1
      <4>2. i - (k - 1) \in 1..(Len(log) - k)
        BY <3>2, <1>1
      <4> QED  BY <4>1, <4>2, <1>1, <1>3, <3>2
    <3> QED  BY <3>1, <3>2, <1>1
  <2> QED  BY <2>1, <2>2, <2>3
<1> HIDE DEF new
<1>5. ASSUME NEW i \in DOMAIN new, new[i] # Torn
      PROVE  new[i].hash \in {new[i].prev + 1, Edited}
  <2>1. PICK j \in DOMAIN log : new[i] = log[j]
    BY <1>1, <1>4
  <2> QED  BY <1>5, <2>1 DEF Genuine
<1> QED  BY <1>4, <1>5 DEF Genuine, new, front, back

LEMMA GenuineChange ==
  ASSUME NEW log, Genuine(log), NEW k \in DOMAIN log, log[k] # Torn
  PROVE  Genuine([log EXCEPT ![k].hash = Edited])
<1> DEFINE new == [log EXCEPT ![k].hash = Edited]
<1>1. log \in Seq(Lines) /\ log[k] \in AuditLine
  BY DEF Genuine, Lines
<1>2. [log[k] EXCEPT !.hash = Edited] \in AuditLine
  BY <1>1 DEF AuditLine
<1>3. /\ new \in Seq(Lines) /\ DOMAIN new = DOMAIN log
      /\ \A i \in DOMAIN log : new[i] = IF i = k THEN [log[k] EXCEPT !.hash = Edited] ELSE log[i]
  BY <1>1, <1>2 DEF Lines
<1>4. new[k].hash = Edited
  BY <1>1, <1>3 DEF AuditLine
<1> HIDE DEF new
<1>5. \A i \in DOMAIN new : new[i] # Torn => new[i].hash \in {new[i].prev + 1, Edited}
  BY <1>3, <1>4 DEF Genuine
<1> QED  BY <1>3, <1>5 DEF Genuine, new

\* A line that carries the hash of the chain read so far continues it: that
\* hash is not one of a changed text, which no line carries.
LEMMA ChainGrows ==
  ASSUME NEW log, Genuine(log), NEW n \in Nat, n < Len(log), Chained(log, n),
         NEW h, h = IF n = 0 THEN Genesis ELSE log[n].hash,
         log[n + 1] # Torn, log[n + 1].prev = h
  PROVE  Chained(log, n + 1)
<1>1. n + 1 \in DOMAIN log /\ log[n + 1] \in AuditLine
  BY DEF Genuine, Lines
<1>2. h \in Nat
  BY <1>1 DEF AuditLine
<1>3. CASE n = 0
  BY <1>3 DEF Chained, Genesis
<1>4. CASE n # 0
  <2>1. n \in DOMAIN log /\ log[n] # Torn /\ log[n].prev = n - 1
    BY <1>4, <1>1 DEF Chained, Genuine
  <2>2. log[n].hash = n
    BY <1>2, <1>4, <2>1 DEF Genuine, Edited
  <2>3. ASSUME NEW i \in 1..(n + 1)
        PROVE  log[i] # Torn /\ log[i].prev = i - 1 /\ (i < n + 1 => log[i].hash = i)
    <3>1. CASE i < n
      BY <3>1 DEF Chained
    <3>2. CASE i = n
      BY <3>2, <2>1, <2>2
    <3>3. CASE i = n + 1
      BY <3>3, <2>2, <1>4
    <3> QED  BY <3>1, <3>2, <3>3
  <2> QED  BY <2>3 DEF Chained
<1> QED  BY <1>3, <1>4

-----------------------------------------------------------------------------
LEMMA InitAudit == Init => AuditInv
<1> SUFFICES ASSUME Init PROVE AuditInv
  OBVIOUS
<1>1. Genuine(audit)
  BY DEF Init, Genuine
<1>2. StageOK
  BY DEF Init, StageOK, OracleSet, Following, Verdicts
<1>3. written \in Nat /\ ChainRead /\ verdict["audit"] = "none"
  BY DEF Init, ChainRead, Genesis, OracleSet, Following
<1> QED  BY <1>1, <1>2, <1>3 DEF AuditInv

\* While the supervisor runs, the log stays genuine.
LEMMA RunKeeps ==
  ASSUME AuditInv,
         \/ \E kind \in Kinds : Emit(kind)
         \/ \E operation \in undelivered : Deliver(operation)
         \/ Redeliver \/ Leak
  PROVE  AuditInv'
<1>1. stage = "running" /\ UNCHANGED <<stage, line, expectedPrev, verdict>>
  BY DEF Emit, Deliver, Redeliver, Leak, Running, readVars
<1>2. written' \in Nat /\ Genuine(audit)'
  <2>1. CASE \E kind \in Kinds : Emit(kind)
    <3>1. written' = written + 1 /\ written \in Nat
      BY <2>1 DEF Emit, AuditInv
    <3>2. audit' = Append(audit, [hash |-> written + 1, prev |-> written])
      BY <2>1, <3>1 DEF Emit
    <3> QED  BY <3>1, <3>2, GenuineAppend DEF AuditInv
  <2>2. CASE ~\E kind \in Kinds : Emit(kind)
    <3>1. UNCHANGED <<audit, written>>
      BY <2>2 DEF Deliver, Redeliver, Leak, streamVars
    <3> QED  BY <3>1 DEF AuditInv
  <2> QED  BY <2>1, <2>2
<1>3. StageOK' /\ ChainRead' /\ verdict'["audit"] = "none"
  BY <1>1 DEF AuditInv, StageOK, ChainRead
<1> QED  BY <1>2, <1>3 DEF AuditInv

\* So it does when the run ends in the middle of a line or the log is damaged.
LEMMA WrittenKeeps ==
  ASSUME AuditInv, Finish \/ Damage \/ Begin
  PROVE  AuditInv'
<1>1. /\ stage \in {"running", "written"} /\ stage' \in {"written", "transcript"}
      /\ UNCHANGED <<written, line, expectedPrev, verdict>>
  BY DEF Finish, Damage, Begin, runVars, readVars
<1>2. Genuine(audit)'
  <2>1. Genuine(audit)
    BY DEF AuditInv
  <2>2. CASE Finish
    <3>1. audit' = audit \/ (audit # <<>> /\ audit' = Cut(audit))
      BY <2>2 DEF Finish, streamVars
    <3> QED  BY <3>1, <2>1, GenuineCut
  <2>3. CASE Damage
    <3>1. PICK i \in DOMAIN audit :
            \/ audit' = SubSeq(audit, 1, i - 1) \o SubSeq(audit, i + 1, Len(audit))
            \/ audit[i] # Torn /\ audit' = [audit EXCEPT ![i].hash = Edited]
      BY <2>3 DEF Damage
    <3>2. CASE audit' = SubSeq(audit, 1, i - 1) \o SubSeq(audit, i + 1, Len(audit))
      BY <3>2, <2>1, GenuineLoss
    <3>3. CASE audit[i] # Torn /\ audit' = [audit EXCEPT ![i].hash = Edited]
      BY <3>3, <2>1, GenuineChange
    <3> QED  BY <3>1, <3>2, <3>3
  <2>4. CASE Begin
    BY <2>1, <2>4 DEF Begin, runVars, streamVars
  <2> QED  BY <2>2, <2>3, <2>4
<1>3. StageOK' /\ ChainRead' /\ verdict'["audit"] = "none"
  BY <1>1 DEF AuditInv, StageOK, ChainRead, OracleSet, Following
<1> QED  BY <1>1, <1>2, <1>3 DEF AuditInv

\* The audit oracle reads a line: the chain read so far grows by it.
LEMMA ReadAuditKeeps == ASSUME AuditInv, ReadAudit PROVE AuditInv'
<1>1. /\ stage = "audit" /\ line \in Nat /\ line < Len(audit)
      /\ audit[line + 1] # Torn /\ audit[line + 1].prev = expectedPrev
  BY DEF ReadAudit, Reading, Stream, Linked, Current, AuditInv, StageOK
<1>2. /\ line' = line + 1 /\ expectedPrev' = audit[line + 1].hash
      /\ UNCHANGED <<audit, written, stage, verdict>>
  BY <1>1 DEF ReadAudit, NextLine, Current, Stream, runVars, streamVars
<1>3. Chained(audit, line + 1)
  BY <1>1, ChainGrows DEF AuditInv, ChainRead
<1>4. ChainRead'
  BY <1>1, <1>2, <1>3 DEF ChainRead, AuditInv, Genuine
<1>5. StageOK' /\ verdict'["audit"] = "none"
  BY <1>1, <1>2 DEF AuditInv, StageOK
<1> QED  BY <1>2, <1>4, <1>5 DEF AuditInv

\* The other oracles read their own streams.
LEMMA ReadOtherKeeps ==
  ASSUME AuditInv, ReadTranscript \/ ReadReport \/ ReadFrontier
  PROVE  AuditInv'
<1>1. /\ stage \in {"transcript", "exactly_once", "frontier"} /\ line' = line + 1
      /\ UNCHANGED <<audit, written, stage, verdict, expectedPrev>>
  BY DEF ReadTranscript, ReadReport, ReadFrontier, Reading, NextLine, runVars, streamVars
<1>2. StageOK' /\ ChainRead'
  BY <1>1 DEF AuditInv, StageOK, ChainRead
<1> QED  BY <1>1, <1>2 DEF AuditInv

\* A verdict of another oracle than the audit one.
LEMMA OtherVerdictKeeps ==
  ASSUME AuditInv, NEW v \in Verdicts, Conclude(v), stage \in OracleSet \ {"audit"}
  PROVE  AuditInv'
<1>1. /\ verdict' = [verdict EXCEPT ![stage] = v] /\ stage' = Following[stage]
      /\ line' = 0 /\ UNCHANGED <<audit, written, expectedPrev>>
  BY DEF Conclude, runVars, streamVars, readVars
<1>2. verdict'["audit"] = verdict["audit"]
  BY <1>1 DEF AuditInv, StageOK
<1>3. stage' \in {"audit", "frontier", "resource", "done"} /\ (stage' = "audit" => stage = "transcript")
  BY <1>1 DEF OracleSet, Following
<1>4. StageOK'
  <2>1. stage' \in OracleSet \union {"running", "written", "done"}
    BY <1>3 DEF OracleSet, Following
  <2>2. verdict' \in [OracleSet \union {"scenario"} -> Verdicts]
    BY <1>1 DEF AuditInv, StageOK
  <2> QED  BY <1>1, <1>2, <1>3, <2>1, <2>2 DEF AuditInv, StageOK
<1>5. ChainRead'
  BY <1>1, <1>3 DEF ChainRead, Chained, AuditInv, StageOK, Genuine
<1> QED  BY <1>1, <1>2, <1>4, <1>5 DEF AuditInv

\* The audit oracle's verdict: it passes a log it has read to the end.
LEMMA AuditVerdictKeeps == ASSUME AuditInv, BrokenAudit \/ AuditVerdict PROVE AuditInv'
<1>1. PICK v \in {"PASS", "FAIL"} :
        Conclude(v) /\ stage = "audit" /\ (v = "PASS" => line = Len(audit))
  BY DEF BrokenAudit, AuditVerdict, Reading, AtEnd, Stream
<1>2. /\ verdict' = [verdict EXCEPT !["audit"] = v] /\ stage' = "exactly_once"
      /\ line' = 0 /\ UNCHANGED <<audit, written, expectedPrev>>
  BY <1>1 DEF Conclude, Following, runVars, streamVars, readVars
<1>3. verdict'["audit"] = v /\ verdict' \in [OracleSet \union {"scenario"} -> Verdicts]
  BY <1>2 DEF AuditInv, StageOK, OracleSet, Following, Verdicts
<1>4. StageOK' /\ ChainRead'
  BY <1>2, <1>3 DEF StageOK, ChainRead, OracleSet, Following
<1>5. v = "PASS" => Chained(audit, Len(audit))
  BY <1>1 DEF AuditInv, ChainRead
<1> QED  BY <1>2, <1>3, <1>4, <1>5 DEF AuditInv

LEMMA AggregateKeeps == ASSUME AuditInv, Aggregate PROVE AuditInv'
<1>1. /\ \E v \in Verdicts : verdict' = [verdict EXCEPT !["scenario"] = v]
      /\ UNCHANGED <<audit, written, stage, line, expectedPrev>>
  BY DEF Aggregate, Verdicts, runVars, streamVars, readVars
<1>2. /\ verdict'["audit"] = verdict["audit"]
      /\ verdict' \in [OracleSet \union {"scenario"} -> Verdicts]
  BY <1>1 DEF AuditInv, StageOK
<1> QED  BY <1>1, <1>2 DEF AuditInv, StageOK, ChainRead

LEMMA NextAudit == AuditInv /\ [Next]_vars => AuditInv'
<1> SUFFICES ASSUME AuditInv, [Next]_vars PROVE AuditInv'
  OBVIOUS
<1>1. CASE \/ \E kind \in Kinds : Emit(kind)
           \/ \E operation \in undelivered : Deliver(operation)
           \/ Redeliver \/ Leak
  BY <1>1, RunKeeps
<1>2. CASE Finish \/ Damage \/ Begin
  BY <1>2, WrittenKeeps
<1>3. CASE ReadTranscript \/ ReadReport \/ ReadFrontier
  BY <1>3, ReadOtherKeeps
<1>4. CASE TranscriptVerdict \/ ReportVerdict \/ FrontierVerdict \/ ResourceVerdict
  <2>1. \E v \in Verdicts : Conclude(v) /\ stage \in OracleSet \ {"audit"}
    BY <1>4 DEF TranscriptVerdict, ReportVerdict, FrontierVerdict, ResourceVerdict,
                AtEnd, Verdicts, OracleSet, Following
  <2> QED  BY <2>1, OtherVerdictKeeps
<1>5. CASE ReadAudit
  BY <1>5, ReadAuditKeeps
<1>6. CASE BrokenAudit \/ AuditVerdict
  BY <1>6, AuditVerdictKeeps
<1>7. CASE Aggregate
  BY <1>7, AggregateKeeps
<1>8. CASE UNCHANGED vars
  BY <1>8 DEF vars, runVars, streamVars, readVars, AuditInv, StageOK, ChainRead
<1> QED  BY <1>1, <1>2, <1>3, <1>4, <1>5, <1>6, <1>7, <1>8 DEF Next, Oracle

-----------------------------------------------------------------------------
(* What a run leaves behind: the streams, and what went wrong with them.     *)

\* A report as the supervisor writes it.
Delivery == [operation : 1..MaxEvents, keyed : BOOLEAN, outcome : {"accepted", "conflict"}]

Whole == "torn" \notin faults

StreamTypes ==
  /\ transcript \in Seq(Kinds \union {Torn}) /\ Len(transcript) <= MaxEvents
  /\ reports \in Seq(Delivery \union {Torn}) /\ Len(reports) <= MaxReports
  /\ frontier \in Seq(Nat \union {Torn}) /\ Len(frontier) > 0
  /\ \A i \in DOMAIN frontier : frontier[i] \in {i - 1, Torn}
  /\ children \in {0, 1} /\ preserved \in BOOLEAN
  /\ faults \subseteq {"unkeyed", "redelivered", "leaked", "torn", "damaged"}
  /\ undelivered \subseteq 1..MaxEvents
  /\ children = 1 <=> "leaked" \in faults
  /\ stage = "running" => {"torn", "damaged"} \intersect faults = {}

\* Every dispatched operation is out or advanced the frontier.
FrontierKept ==
  Whole =>
    /\ \A i \in DOMAIN frontier : frontier[i] = i - 1
    /\ undelivered \subseteq 1..Dispatches(transcript)
    /\ Len(frontier) - 1 + Cardinality(undelivered) = Dispatches(transcript)

\* An operation is reported once, unless its report is delivered again.
ReportsKept ==
  Whole =>
    /\ \A i \in DOMAIN reports :
         reports[i] # Torn /\ ("unkeyed" \notin faults => reports[i].keyed)
    /\ "redelivered" \in faults =>
         \E i, j \in DOMAIN reports : i # j /\ reports[i].operation = reports[j].operation
    /\ "redelivered" \notin faults =>
         /\ \A i \in DOMAIN reports :
              /\ reports[i].outcome = "accepted"
              /\ reports[i].operation \in (1..Dispatches(transcript)) \ undelivered
         /\ \A i, j \in DOMAIN reports :
              reports[i].operation = reports[j].operation => i = j

\* The audit log is what was written, and damage leaves a mark.
AuditKept ==
  /\ "damaged" \notin faults =>
       /\ Len(audit) = written
       /\ Whole => \A i \in DOMAIN audit :
            audit[i] # Torn /\ audit[i].prev = i - 1 /\ audit[i].hash = i
  /\ "damaged" \in faults =>
       \/ Len(audit) < written
       \/ \E i \in DOMAIN audit : audit[i] # Torn /\ audit[i].hash = Edited

RunInv == AuditInv /\ StreamTypes /\ FrontierKept /\ ReportsKept /\ AuditKept

\* One dispatch more counts one more.
LEMMA DispatchesAppend ==
  ASSUME NEW S, NEW s \in Seq(S), NEW k \in S
  PROVE  /\ Dispatches(s) \in 0..Len(s)
         /\ Dispatches(Append(s, k)) = IF k = "dispatch" THEN Dispatches(s) + 1 ELSE Dispatches(s)
<1> DEFINE at(q) == {i \in DOMAIN q : q[i] = "dispatch"}
           new == Append(s, k)
<1>1. /\ Len(s) \in Nat /\ DOMAIN s = 1..Len(s) /\ DOMAIN new = 1..(Len(s) + 1)
      /\ \A i \in 1..Len(s) : new[i] = s[i]
      /\ new[Len(s) + 1] = k
  BY AppendProperties, LenProperties
<1>2. IsFiniteSet(at(s)) /\ Cardinality(at(s)) \in 0..Len(s)
  <2>1. IsFiniteSet(1..Len(s)) /\ Cardinality(1..Len(s)) = Len(s)
    BY <1>1, FS_Interval
  <2>2. at(s) \in SUBSET (1..Len(s))
    BY <1>1
  <2>3. IsFiniteSet(at(s)) /\ Cardinality(at(s)) <= Len(s)
    BY <2>1, <2>2, FS_Subset
  <2> QED  BY <2>3, <1>1, FS_CardinalityType
<1>3. CASE k = "dispatch"
  <2>1. at(new) = at(s) \union {Len(s) + 1} /\ Len(s) + 1 \notin at(s)
    BY <1>1, <1>3
  <2>2. Cardinality(at(new)) = Cardinality(at(s)) + 1
    BY <1>2, <2>1, FS_AddElement
  <2> QED  BY <1>2, <1>3, <2>2 DEF Dispatches
<1>4. CASE k # "dispatch"
  <2>1. at(new) = at(s)
    BY <1>1, <1>4
  <2> QED  BY <1>2, <1>4, <2>1 DEF Dispatches
<1> QED  BY <1>3, <1>4

LEMMA InitRun == Init => RunInv
<1> SUFFICES ASSUME Init PROVE RunInv
  OBVIOUS
<1>1. AuditInv
  BY InitAudit
<1>2. Dispatches(<<>>) = 0
  <2>1. {i \in DOMAIN <<>> : <<>>[i] = "dispatch"} = {}
    OBVIOUS
  <2> QED  BY <2>1, FS_EmptySet DEF Dispatches
<1>3. StreamTypes
  <2>1. frontier \in Seq(Nat \union {Torn}) /\ Len(frontier) = 1 /\ DOMAIN frontier = {1} /\ frontier[1] = 0
    BY DEF Init
  <2>2. transcript \in Seq(Kinds \union {Torn}) /\ reports \in Seq(Delivery \union {Torn})
    BY DEF Init
  <2>3. Len(transcript) <= MaxEvents /\ Len(reports) <= MaxReports
    BY BoundsAssumption DEF Init
  <2>4. \A i \in DOMAIN frontier : frontier[i] \in {i - 1, Torn}
    BY <2>1
  <2>5. children = 0 /\ faults = {} /\ undelivered = {}
    BY DEF Init
  <2>6. preserved \in BOOLEAN
    BY DEF Init
  <2>9. children \in {0, 1} /\ (children = 1 <=> "leaked" \in faults)
    BY <2>5
  <2>7. undelivered \subseteq 1..MaxEvents /\ {"torn", "damaged"} \intersect faults = {}
        /\ faults \subseteq {"unkeyed", "redelivered", "leaked", "torn", "damaged"}
    BY <2>5
  <2>8. Len(frontier) > 0
    BY <2>1
  <2> QED  BY <2>1, <2>2, <2>3, <2>4, <2>6, <2>7, <2>8, <2>9 DEF StreamTypes
<1>4. FrontierKept
  BY <1>2, FS_EmptySet DEF Init, FrontierKept
<1>5. ReportsKept /\ AuditKept
  BY DEF Init, ReportsKept, AuditKept, Genesis
<1> QED  BY <1>1, <1>3, <1>4, <1>5 DEF RunInv

\* An event goes to the transcript and the audit log; a dispatch is out.
LEMMA EmitRun ==
  ASSUME RunInv, NEW kind \in Kinds, Emit(kind)
  PROVE  StreamTypes' /\ FrontierKept' /\ ReportsKept' /\ AuditKept'
<1> DEFINE d == Dispatches(transcript)
<1>1. /\ stage = "running" /\ stage' = "running" /\ faults' = faults
      /\ UNCHANGED <<reports, frontier, children, preserved>>
      /\ transcript' = Append(transcript, kind) /\ Len(transcript) < MaxEvents
      /\ written' = written + 1
      /\ audit' = Append(audit, [hash |-> written + 1, prev |-> written])
  BY DEF Emit, Running
<1>2. Whole /\ "damaged" \notin faults
  BY <1>1 DEF RunInv, StreamTypes, Whole
<1>3. /\ d \in Nat /\ d < MaxEvents
      /\ Dispatches(transcript') = IF kind = "dispatch" THEN d + 1 ELSE d
      /\ transcript' \in Seq(Kinds \union {Torn}) /\ Len(transcript') <= MaxEvents
  <2>1. transcript \in Seq(Kinds \union {Torn}) /\ kind \in Kinds \union {Torn}
    BY DEF RunInv, StreamTypes
  <2>2. /\ d \in 0..Len(transcript)
        /\ Dispatches(transcript') = IF kind = "dispatch" THEN d + 1 ELSE d
    BY <2>1, <1>1, DispatchesAppend
  <2>3. /\ transcript' \in Seq(Kinds \union {Torn}) /\ Len(transcript') = Len(transcript) + 1
        /\ Len(transcript) \in Nat
    BY <2>1, <1>1
  <2> QED  BY <2>2, <2>3, <1>1, BoundsAssumption
<1> HIDE DEF d
<1>4. undelivered' = IF kind = "dispatch" THEN undelivered \union {d + 1} ELSE undelivered
  BY <1>3 DEF Emit
<1>5. undelivered \subseteq 1..d /\ Len(frontier) - 1 + Cardinality(undelivered) = d
  BY <1>2 DEF RunInv, FrontierKept, d
<1>6. StreamTypes'
  <2>1. undelivered' \subseteq 1..MaxEvents
    BY <1>3, <1>4, BoundsAssumption DEF RunInv, StreamTypes
  <2> QED  BY <1>1, <1>3, <2>1 DEF RunInv, StreamTypes
<1>7. FrontierKept'
  <2>1. undelivered' \subseteq 1..Dispatches(transcript')
    BY <1>3, <1>4, <1>5
  <2>2. IsFiniteSet(undelivered) /\ d + 1 \notin undelivered
    <3>1. undelivered \in SUBSET (1..d) /\ IsFiniteSet(1..d)
      BY <1>3, <1>5, FS_Interval
    <3>2. IsFiniteSet(undelivered)
      BY <3>1, FS_Subset
    <3> QED  BY <1>3, <3>1, <3>2
  <2>3. Cardinality(undelivered') = IF kind = "dispatch" THEN Cardinality(undelivered) + 1
                                    ELSE Cardinality(undelivered)
    BY <1>4, <2>2, FS_AddElement
  <2>4. Cardinality(undelivered) \in Nat /\ Len(frontier) \in Nat
    BY <2>2, FS_CardinalityType DEF RunInv, StreamTypes
  <2>5. Len(frontier') - 1 + Cardinality(undelivered') = Dispatches(transcript')
    BY <1>1, <1>3, <1>5, <2>3, <2>4
  <2> QED  BY <1>1, <1>2, <2>1, <2>5 DEF RunInv, FrontierKept
<1>8. ReportsKept'
  <2>1. (1..d) \ undelivered \subseteq (1..Dispatches(transcript')) \ undelivered'
    BY <1>3, <1>4
  <2> QED  BY <1>1, <1>2, <2>1 DEF RunInv, ReportsKept, Whole, d
<1>9. AuditKept'
  <2>1. Len(audit) = written /\ written \in Nat /\ audit \in Seq(Lines)
    BY <1>2 DEF RunInv, AuditKept, AuditInv, Genuine
  <2> DEFINE entry == [hash |-> written + 1, prev |-> written]
  <2>2. entry \in AuditLine
    BY <2>1 DEF AuditLine
  <2>3. /\ Len(audit') = written'
        /\ \A i \in 1..Len(audit) : audit'[i] = audit[i]
        /\ audit'[Len(audit) + 1] = entry
        /\ DOMAIN audit' = 1..(Len(audit) + 1) /\ DOMAIN audit = 1..Len(audit)
    BY <1>1, <2>1, <2>2 DEF Lines
  <2>4. ASSUME NEW i \in DOMAIN audit'
        PROVE  audit'[i] # Torn /\ audit'[i].prev = i - 1 /\ audit'[i].hash = i
    <3>1. CASE i \in DOMAIN audit
      BY <1>2, <2>3, <3>1 DEF RunInv, AuditKept
    <3>2. CASE i \notin DOMAIN audit
      BY <2>1, <2>2, <2>3, <3>2, TornAssumption
    <3> QED  BY <3>1, <3>2
  <2> QED  BY <1>1, <1>2, <2>3, <2>4 DEF AuditKept
<1> QED  BY <1>6, <1>7, <1>8, <1>9

\* One more line in the report log.
LEMMA ReportAppended ==
  ASSUME RunInv, NEW r \in Delivery, reports' = Append(reports, r), Len(reports) < MaxReports
  PROVE  /\ reports' \in Seq(Delivery \union {Torn}) /\ Len(reports') <= MaxReports
         /\ DOMAIN reports = 1..Len(reports) /\ Len(reports) \in Nat
         /\ DOMAIN reports' = 1..(Len(reports) + 1)
         /\ \A i \in DOMAIN reports : reports'[i] = reports[i]
         /\ reports'[Len(reports) + 1] = r /\ r # Torn
<1>1. reports \in Seq(Delivery \union {Torn}) /\ r \in Delivery \union {Torn}
  BY DEF RunInv, StreamTypes
<1>2. r # Torn
  BY TornAssumption, BoundsAssumption DEF Delivery, Report
<1> QED  BY <1>1, <1>2, BoundsAssumption

\* A report takes an operation from those that are out to the frontier.
LEMMA DeliverRun ==
  ASSUME RunInv, NEW op \in undelivered, Deliver(op)
  PROVE  StreamTypes' /\ FrontierKept' /\ ReportsKept' /\ AuditKept'
<1> DEFINE d == Dispatches(transcript)
<1>1. PICK keyed \in BOOLEAN :
        /\ reports' = Append(reports, [operation |-> op, keyed |-> keyed, outcome |-> "accepted"])
        /\ faults' = IF keyed THEN faults ELSE faults \union {"unkeyed"}
  BY DEF Deliver
<1>2. /\ stage = "running" /\ stage' = "running" /\ Len(reports) < MaxReports
      /\ frontier' = Append(frontier, Len(frontier))
      /\ undelivered' = undelivered \ {op}
      /\ UNCHANGED <<transcript, audit, written, children, preserved>>
  BY DEF Deliver, Running
<1>3. /\ Whole /\ "damaged" \notin faults /\ Whole' /\ "damaged" \notin faults'
      /\ ("redelivered" \in faults' <=> "redelivered" \in faults)
      /\ ("unkeyed" \in faults' <=> "unkeyed" \in faults \/ ~keyed)
  BY <1>1, <1>2 DEF RunInv, StreamTypes, Whole
<1> DEFINE r == [operation |-> op, keyed |-> keyed, outcome |-> "accepted"]
           n == Len(reports) + 1
<1>4. r \in Delivery
  BY DEF RunInv, StreamTypes, Delivery
<1>5. /\ reports' \in Seq(Delivery \union {Torn}) /\ Len(reports') <= MaxReports
      /\ DOMAIN reports = 1..Len(reports) /\ Len(reports) \in Nat
      /\ DOMAIN reports' = 1..n
      /\ \A i \in DOMAIN reports : reports'[i] = reports[i]
      /\ reports'[n] = r /\ r # Torn
  BY <1>1, <1>2, <1>4, ReportAppended
<1>6. /\ frontier' \in Seq(Nat \union {Torn}) /\ Len(frontier') = Len(frontier) + 1
      /\ Len(frontier) \in Nat /\ DOMAIN frontier = 1..Len(frontier)
      /\ DOMAIN frontier' = 1..(Len(frontier) + 1)
      /\ \A i \in DOMAIN frontier : frontier'[i] = frontier[i]
      /\ frontier'[Len(frontier) + 1] = Len(frontier)
  <2>1. frontier \in Seq(Nat \union {Torn}) /\ Len(frontier) \in Nat \union {Torn}
    BY DEF RunInv, StreamTypes
  <2> QED  BY <1>2, <2>1
<1>7. StreamTypes'
  <2>1. \A i \in DOMAIN frontier' : frontier'[i] \in {i - 1, Torn}
    BY <1>6 DEF RunInv, StreamTypes
  <2>2. /\ faults' \subseteq {"unkeyed", "redelivered", "leaked", "torn", "damaged"}
        /\ ("leaked" \in faults' <=> "leaked" \in faults)
        /\ {"torn", "damaged"} \intersect faults' = {}
    BY <1>1, <1>2 DEF RunInv, StreamTypes
  <2> QED  BY <1>2, <1>5, <1>6, <2>1, <2>2 DEF RunInv, StreamTypes
<1>8. d \in Nat /\ undelivered \subseteq 1..d /\ Len(frontier) - 1 + Cardinality(undelivered) = d
  <2>1. "dispatch" \in Kinds \union {Torn} /\ transcript \in Seq(Kinds \union {Torn})
    BY KindsAssumption DEF RunInv, StreamTypes
  <2> QED  BY <1>3, <2>1, DispatchesAppend DEF RunInv, FrontierKept
<1>9. FrontierKept'
  <2>1. undelivered \in SUBSET (1..d) /\ IsFiniteSet(1..d)
    BY <1>8, FS_Interval
  <2>2. IsFiniteSet(undelivered)
    BY <2>1, FS_Subset
  <2>3. Cardinality(undelivered') = Cardinality(undelivered) - 1
    BY <1>2, <2>2, FS_RemoveElement
  <2>4. Len(frontier') - 1 + Cardinality(undelivered') = d
    BY <1>6, <1>8, <2>2, <2>3, FS_CardinalityType
  <2>5. \A i \in DOMAIN frontier' : frontier'[i] = i - 1
    BY <1>3, <1>6 DEF RunInv, FrontierKept
  <2> QED  BY <1>2, <1>8, <2>4, <2>5 DEF FrontierKept
<1>10. ReportsKept'
  <2>1. \A i \in DOMAIN reports' :
          reports'[i] # Torn /\ ("unkeyed" \notin faults' => reports'[i].keyed)
    BY <1>3, <1>5 DEF RunInv, ReportsKept
  <2>2. CASE "redelivered" \in faults
    <3>1. \E i, j \in DOMAIN reports' : i # j /\ reports'[i].operation = reports'[j].operation
      BY <1>3, <1>5, <2>2 DEF RunInv, ReportsKept
    <3> QED  BY <1>3, <2>1, <2>2, <3>1 DEF ReportsKept
  <2>3. CASE "redelivered" \notin faults
    <3>1. \A i \in DOMAIN reports :
            /\ reports[i].outcome = "accepted"
            /\ reports[i].operation \in (1..d) \ undelivered
      BY <1>3, <2>3 DEF RunInv, ReportsKept
    <3>2. \A i, j \in DOMAIN reports : reports[i].operation = reports[j].operation => i = j
      BY <1>3, <2>3 DEF RunInv, ReportsKept
    <3>3. \A i \in DOMAIN reports' :
            /\ reports'[i].outcome = "accepted"
            /\ reports'[i].operation \in (1..d) \ undelivered'
      BY <1>2, <1>5, <1>8, <3>1
    <3>4. \A i, j \in DOMAIN reports' : reports'[i].operation = reports'[j].operation => i = j
      <4>1. \A i \in DOMAIN reports : reports'[i].operation # op
        BY <1>5, <3>1
      <4> QED  BY <1>5, <3>2, <4>1
    <3> QED  BY <1>2, <1>3, <2>1, <2>3, <3>3, <3>4 DEF ReportsKept
  <2> QED  BY <2>2, <2>3
<1>11. AuditKept'
  BY <1>2, <1>3 DEF RunInv, AuditKept
<1> QED  BY <1>7, <1>9, <1>10, <1>11

\* The report comes again: two lines of one operation.
LEMMA RedeliverRun ==
  ASSUME RunInv, Redeliver
  PROVE  StreamTypes' /\ FrontierKept' /\ ReportsKept' /\ AuditKept'
<1> DEFINE n == Len(reports)
<1>1. PICK outcome \in {"accepted", "conflict"} :
        reports' = Append(reports, [reports[n] EXCEPT !.outcome = outcome])
  BY DEF Redeliver
<1>2. /\ stage = "running" /\ stage' = "running" /\ n < MaxReports /\ reports # <<>>
      /\ faults' = faults \union {"redelivered"}
      /\ UNCHANGED <<transcript, audit, frontier, undelivered, written, children, preserved>>
  BY DEF Redeliver, Running
<1>3. /\ Whole /\ "damaged" \notin faults /\ Whole' /\ "damaged" \notin faults'
  BY <1>2 DEF RunInv, StreamTypes, Whole
<1> DEFINE r == [reports[n] EXCEPT !.outcome = outcome]
<1>4. n \in DOMAIN reports /\ reports[n] \in Delivery
  <2>1. reports \in Seq(Delivery \union {Torn}) /\ n \in DOMAIN reports
    BY <1>2 DEF RunInv, StreamTypes
  <2> QED  BY <1>3, <2>1 DEF RunInv, ReportsKept
<1>5. r \in Delivery /\ r.operation = reports[n].operation /\ r.keyed = reports[n].keyed
  BY <1>4 DEF Delivery
<1>6. /\ reports' \in Seq(Delivery \union {Torn}) /\ Len(reports') <= MaxReports
      /\ DOMAIN reports = 1..n /\ n \in Nat
      /\ DOMAIN reports' = 1..(n + 1)
      /\ \A i \in DOMAIN reports : reports'[i] = reports[i]
      /\ reports'[n + 1] = r /\ r # Torn
  BY <1>1, <1>2, <1>5, ReportAppended
<1> HIDE DEF n, r
<1>7. StreamTypes'
  <2>1. /\ faults' \subseteq {"unkeyed", "redelivered", "leaked", "torn", "damaged"}
        /\ ("leaked" \in faults' <=> "leaked" \in faults)
        /\ {"torn", "damaged"} \intersect faults' = {}
    BY <1>2, <1>3 DEF RunInv, StreamTypes, Whole
  <2> QED  BY <1>2, <1>6, <2>1 DEF RunInv, StreamTypes
<1>8. FrontierKept'
  BY <1>2, <1>3 DEF RunInv, FrontierKept
<1>9. ReportsKept'
  <2>1. \A i \in DOMAIN reports' :
          reports'[i] # Torn /\ ("unkeyed" \notin faults' => reports'[i].keyed)
    BY <1>2, <1>3, <1>4, <1>5, <1>6 DEF RunInv, ReportsKept
  <2>2. \E i, j \in DOMAIN reports' : i # j /\ reports'[i].operation = reports'[j].operation
    <3>1. n \in DOMAIN reports' /\ n + 1 \in DOMAIN reports' /\ n # n + 1
      BY <1>4, <1>6
    <3> QED  BY <1>4, <1>5, <1>6, <3>1
  <2> QED  BY <1>2, <2>1, <2>2 DEF ReportsKept
<1>10. AuditKept'
  BY <1>2, <1>3 DEF RunInv, AuditKept, Whole
<1> QED  BY <1>7, <1>8, <1>9, <1>10

LEMMA LeakRun ==
  ASSUME RunInv, Leak
  PROVE  StreamTypes' /\ FrontierKept' /\ ReportsKept' /\ AuditKept'
<1>1. /\ stage = "running" /\ stage' = "running" /\ children' = 1
      /\ faults' = faults \union {"leaked"}
      /\ UNCHANGED <<transcript, audit, reports, frontier, undelivered, written, preserved>>
  BY DEF Leak, Running, streamVars
<1>2. StreamTypes'
  BY <1>1 DEF RunInv, StreamTypes
<1>3. FrontierKept' /\ AuditKept'
  BY <1>1 DEF RunInv, FrontierKept, AuditKept, Whole
<1>4. ReportsKept'
  BY <1>1 DEF RunInv, ReportsKept, Whole
<1> QED  BY <1>2, <1>3, <1>4

LEMMA CutProperties ==
  ASSUME NEW S, NEW s \in Seq(S \union {Torn}), s # <<>>
  PROVE  /\ Cut(s) \in Seq(S \union {Torn}) /\ Len(Cut(s)) = Len(s)
         /\ Len(s) \in Nat \ {0} /\ DOMAIN Cut(s) = 1..Len(s)
         /\ \A i \in 1..Len(s) : Cut(s)[i] = IF i = Len(s) THEN Torn ELSE s[i]
  BY DEF Cut

\* The run ends, with at most one line cut.
LEMMA FinishRun ==
  ASSUME RunInv, Finish
  PROVE  StreamTypes' /\ FrontierKept' /\ ReportsKept' /\ AuditKept'
<1>1. /\ stage = "running" /\ stage' = "written" /\ preserved' \in BOOLEAN
      /\ UNCHANGED <<undelivered, written, children>>
  BY DEF Finish
<1>2. CASE UNCHANGED <<streamVars, faults>>
  <2>1. UNCHANGED <<transcript, audit, reports, frontier, faults>>
    BY <1>2 DEF streamVars
  <2>2. StreamTypes'
    BY <1>1, <2>1 DEF RunInv, StreamTypes
  <2> QED  BY <1>1, <2>1, <2>2 DEF RunInv, FrontierKept, ReportsKept, AuditKept, Whole
<1>3. CASE ~UNCHANGED <<streamVars, faults>>
  <2>1. faults' = faults \union {"torn"}
    BY <1>3 DEF Finish
  <2>2. ~Whole' /\ "damaged" \notin faults /\ "damaged" \notin faults'
    BY <1>1, <2>1 DEF RunInv, StreamTypes, Whole
  <2>3. FrontierKept' /\ ReportsKept'
    BY <2>2 DEF FrontierKept, ReportsKept, Whole
  <2>4. \/ transcript # <<>> /\ transcript' = Cut(transcript) /\ UNCHANGED <<audit, reports, frontier>>
        \/ audit # <<>> /\ audit' = Cut(audit) /\ UNCHANGED <<transcript, reports, frontier>>
        \/ reports # <<>> /\ reports' = Cut(reports) /\ UNCHANGED <<transcript, audit, frontier>>
        \/ frontier' = Cut(frontier) /\ UNCHANGED <<transcript, audit, reports>>
    BY <1>3 DEF Finish
  <2>5. AuditKept'
    <3>1. audit # <<>> => Len(Cut(audit)) = Len(audit)
      BY CutProperties DEF RunInv, AuditInv, Genuine, Lines
    <3>2. Len(audit') = Len(audit)
      BY <2>4, <3>1
    <3> QED  BY <1>1, <2>2, <3>2 DEF RunInv, AuditKept, Whole
  <2>6. transcript' \in Seq(Kinds \union {Torn}) /\ Len(transcript') <= MaxEvents
    BY <2>4, CutProperties DEF RunInv, StreamTypes
  <2>7. reports' \in Seq(Delivery \union {Torn}) /\ Len(reports') <= MaxReports
    BY <2>4, CutProperties DEF RunInv, StreamTypes
  <2>8. /\ frontier' \in Seq(Nat \union {Torn}) /\ Len(frontier') > 0
        /\ \A i \in DOMAIN frontier' : frontier'[i] \in {i - 1, Torn}
    <3>1. /\ frontier \in Seq(Nat \union {Torn}) /\ frontier # <<>>
          /\ \A i \in DOMAIN frontier : frontier[i] \in {i - 1, Torn}
      BY DEF RunInv, StreamTypes
    <3>2. CASE frontier' = Cut(frontier)
      <4>1. /\ Cut(frontier) \in Seq(Nat \union {Torn}) /\ Len(Cut(frontier)) = Len(frontier)
            /\ Len(frontier) \in Nat \ {0} /\ DOMAIN Cut(frontier) = 1..Len(frontier)
            /\ \A i \in 1..Len(frontier) :
                 Cut(frontier)[i] = IF i = Len(frontier) THEN Torn ELSE frontier[i]
        BY <3>1, CutProperties
      <4>2. DOMAIN frontier = 1..Len(frontier)
        BY <3>1
      <4>3. ASSUME NEW i \in DOMAIN Cut(frontier) PROVE Cut(frontier)[i] \in {i - 1, Torn}
        BY <3>1, <4>1, <4>2
      <4>4. Len(Cut(frontier)) > 0
        BY <4>1
      <4> QED  BY <3>2, <4>1, <4>3, <4>4
    <3>3. CASE frontier' = frontier
      BY <3>3 DEF RunInv, StreamTypes
    <3> QED  BY <2>4, <3>2, <3>3
  <2>9. /\ faults' \subseteq {"unkeyed", "redelivered", "leaked", "torn", "damaged"}
        /\ ("leaked" \in faults' <=> "leaked" \in faults)
    BY <2>1 DEF RunInv, StreamTypes
  <2> QED  BY <1>1, <2>3, <2>5, <2>6, <2>7, <2>8, <2>9 DEF RunInv, StreamTypes
<1> QED  BY <1>2, <1>3

\* Damage shortens the log or leaves a changed line.
LEMMA DamageRun ==
  ASSUME RunInv, Damage
  PROVE  StreamTypes' /\ FrontierKept' /\ ReportsKept' /\ AuditKept'
<1>1. /\ stage = "written" /\ stage' = "written" /\ "damaged" \notin faults
      /\ faults' = faults \union {"damaged"}
      /\ UNCHANGED <<transcript, reports, frontier, undelivered, written, children, preserved>>
  BY DEF Damage
<1>2. StreamTypes'
  BY <1>1 DEF RunInv, StreamTypes
<1>3. FrontierKept'
  BY <1>1 DEF RunInv, FrontierKept, Whole
<1>4. ReportsKept'
  BY <1>1 DEF RunInv, ReportsKept, Whole
<1>5. AuditKept'
  <2>1. audit \in Seq(Lines) /\ Len(audit) = written /\ written \in Nat /\ DOMAIN audit = 1..Len(audit)
    BY <1>1 DEF RunInv, AuditInv, Genuine, AuditKept
  <2>2. PICK k \in DOMAIN audit :
          \/ audit' = SubSeq(audit, 1, k - 1) \o SubSeq(audit, k + 1, Len(audit))
          \/ audit[k] # Torn /\ audit' = [audit EXCEPT ![k].hash = Edited]
    BY DEF Damage
  <2>3. CASE audit' = SubSeq(audit, 1, k - 1) \o SubSeq(audit, k + 1, Len(audit))
    <3>1. /\ SubSeq(audit, 1, k - 1) \in Seq(Lines) /\ Len(SubSeq(audit, 1, k - 1)) = k - 1
          /\ SubSeq(audit, k + 1, Len(audit)) \in Seq(Lines)
          /\ Len(SubSeq(audit, k + 1, Len(audit))) = Len(audit) - k
      BY <2>1
    <3>2. Len(audit') = Len(audit) - 1
      BY <2>1, <2>3, <3>1, ConcatProperties
    <3> QED  BY <1>1, <2>1, <3>2 DEF AuditKept
  <2>4. CASE audit[k] # Torn /\ audit' = [audit EXCEPT ![k].hash = Edited]
    <3>1. audit[k] \in AuditLine
      BY <2>1, <2>4 DEF Lines
    <3>2. k \in DOMAIN audit' /\ audit'[k] = [audit[k] EXCEPT !.hash = Edited]
      BY <2>1, <2>4
    <3>3. audit'[k] \in AuditLine /\ audit'[k].hash = Edited
      BY <3>1, <3>2 DEF AuditLine
    <3>4. audit'[k] # Torn
      BY <3>3, TornAssumption
    <3> QED  BY <1>1, <3>2, <3>3, <3>4 DEF AuditKept
  <2> QED  BY <2>2, <2>3, <2>4
<1> QED  BY <1>2, <1>3, <1>4, <1>5

\* The oracles only read.
LEMMA ReadingRun ==
  ASSUME RunInv, UNCHANGED runVars, stage' = "running" => stage = "running"
  PROVE  StreamTypes' /\ FrontierKept' /\ ReportsKept' /\ AuditKept'
<1>1. UNCHANGED <<transcript, audit, reports, frontier, undelivered, written, children, preserved, faults>>
  BY DEF runVars, streamVars
<1>2. StreamTypes'
  BY <1>1 DEF RunInv, StreamTypes
<1>3. FrontierKept' /\ ReportsKept' /\ AuditKept'
  BY <1>1 DEF RunInv, FrontierKept, ReportsKept, AuditKept, Whole
<1> QED  BY <1>2, <1>3

LEMMA NextRun == RunInv /\ [Next]_vars => RunInv'
<1> SUFFICES ASSUME RunInv, [Next]_vars PROVE RunInv'
  OBVIOUS
<1>1. AuditInv'
  BY NextAudit DEF RunInv
<1>2. StreamTypes' /\ FrontierKept' /\ ReportsKept' /\ AuditKept'
  <2>1. CASE \E kind \in Kinds : Emit(kind)
    BY <2>1, EmitRun
  <2>2. CASE \E op \in undelivered : Deliver(op)
    BY <2>2, DeliverRun
  <2>3. CASE Redeliver \/ Leak
    BY <2>3, RedeliverRun, LeakRun
  <2>4. CASE Finish \/ Damage
    BY <2>4, FinishRun, DamageRun
  <2>5. CASE Begin
    BY <2>5, ReadingRun DEF Begin
  <2>6. CASE Oracle
    <3>1. UNCHANGED runVars /\ stage' # "running"
      <4>1. CASE ReadTranscript \/ ReadAudit \/ ReadReport \/ ReadFrontier
        BY <4>1 DEF ReadTranscript, ReadAudit, ReadReport, ReadFrontier, NextLine, Reading
      <4>2. CASE Aggregate
        BY <4>2 DEF Aggregate
      <4>3. CASE \E v \in Verdicts : Conclude(v) /\ stage \in OracleSet
        BY <4>3 DEF Conclude, OracleSet, Following
      <4>4. TranscriptVerdict \/ BrokenAudit \/ AuditVerdict \/ ReportVerdict \/ FrontierVerdict \/ ResourceVerdict
              => \E v \in Verdicts : Conclude(v) /\ stage \in OracleSet
        BY DEF TranscriptVerdict, BrokenAudit, AuditVerdict, ReportVerdict, FrontierVerdict,
               ResourceVerdict, AtEnd, Reading, Verdicts, OracleSet, Following
      <4> QED  BY <2>6, <4>1, <4>2, <4>3, <4>4 DEF Oracle
    <3> QED  BY <3>1, ReadingRun
  <2>7. CASE UNCHANGED vars
    BY <2>7, ReadingRun DEF vars
  <2> QED  BY <2>1, <2>2, <2>3, <2>4, <2>5, <2>6, <2>7 DEF Next
<1> QED  BY <1>1, <1>2 DEF RunInv

-----------------------------------------------------------------------------
(* What the oracles know after the lines they have read.                     *)

Rank == [running |-> 0, written |-> 1, transcript |-> 2, audit |-> 3, exactly_once |-> 4,
         frontier |-> 5, resource |-> 6, done |-> 7]

\* The lines the oracle s has read of its stream, which has length of them.
ReadOf(s, length) ==
  IF Rank[stage] < Rank[s] THEN 0 ELSE IF stage = s THEN line ELSE length

\* An oracle has spoken when it is past, and the scenario is judged last.
Order ==
  /\ line <= Len(Stream(stage))
  /\ \A s \in OracleSet : verdict[s] = "none" <=> Rank[stage] <= Rank[s]
  /\ verdict["scenario"] # "none" => stage = "done"

\* at tells where the required events 2 to m stand in a row among the first n
\* lines; unless all are ticked off, nothing has been read since.
Row(at, m, n) ==
  /\ \A i \in 2..m : transcript[at[i]] = Required[i]
  /\ \A i, j \in 2..m : i < j => at[i] < at[j]
  /\ \A k \in 1..n :
       at[2] < k /\ (k < at[m] \/ m < Len(Required)) /\ transcript[k] # Torn
         => \E j \in 2..m : at[j] = k

TranscriptAt(n) ==
  /\ matched \in 0..Len(Required) /\ matched <= n /\ forbiddenHit \in BOOLEAN
  /\ forbiddenHit <=> \E i \in 1..n : transcript[i] \in Forbidden
  /\ matched >= 2 => \E at \in [2..matched -> 1..n] : Row(at, matched, n)
  /\ transcript = Required => matched = n

KeyedTo(n) == {i \in 1..n : reports[i] # Torn /\ reports[i].keyed}

CleanTo(n) ==
  /\ \A i \in KeyedTo(n) : reports[i].outcome = "accepted"
  /\ \A i, j \in KeyedTo(n) : reports[i].operation = reports[j].operation => i = j

AcceptedTo(n) ==
  {reports[i].operation : i \in {j \in KeyedTo(n) : reports[j].outcome = "accepted"}}

ReportsAt(n) ==
  /\ seen = AcceptedTo(n) /\ IsFiniteSet(seen)
  /\ counts \in [{"accepted", "duplicates", "conflicts"} -> Nat]
  /\ counts.accepted + counts.duplicates + counts.conflicts <= n
  /\ counts.accepted = Cardinality(seen)
  /\ counts.duplicates + counts.conflicts = 0 <=> CleanTo(n)

FrontierAt(n) == revisions = {frontier[i] : i \in {j \in 1..n : frontier[j] # Torn}}

\* Each verdict that is given follows from what was read.
Judged ==
  /\ verdict["transcript"] \in
       {"none", IF forbiddenHit \/ matched < Len(Required) THEN "FAIL" ELSE "PASS"}
  /\ verdict["audit"] \in {"none", "PASS", "FAIL"}
  /\ verdict["audit"] = "FAIL" => {"torn", "damaged"} \intersect faults # {}
  /\ verdict["exactly_once"] \in
       {"none", IF counts.duplicates + counts.conflicts > 0 THEN "FAIL" ELSE "PASS"}
  /\ verdict["frontier"] \in
       {"none", IF /\ Dispatches(Required) # 0
                   /\ Cardinality(revisions) < Dispatches(Required) + 1
                THEN "FAIL" ELSE "PASS"}
  /\ verdict["resource"] \in
       {"none", IF preserved THEN "OVER_BUDGET" ELSE IF children > 0 THEN "FAIL" ELSE "PASS"}
  /\ verdict["scenario"] \in
       {"none", IF "FAIL" \in {verdict[s] : s \in OracleSet} THEN "FAIL"
                ELSE IF "OVER_BUDGET" \in {verdict[s] : s \in OracleSet} THEN "OVER_BUDGET"
                ELSE "PASS"}

ReadInv ==
  /\ RunInv /\ Order /\ Judged
  /\ expectedPrev \in Nat \union {Edited}
  /\ TranscriptAt(ReadOf("transcript", Len(transcript)))
  /\ ReportsAt(ReadOf("exactly_once", Len(reports)))
  /\ FrontierAt(ReadOf("frontier", Len(frontier)))

\* Before anything is read.
LEMMA InitRead == Init => ReadInv
<1> SUFFICES ASSUME Init PROVE ReadInv
  OBVIOUS
<1>1. RunInv
  BY InitRun
<1>2. stage = "running" /\ line = 0 /\ verdict = [s \in OracleSet \union {"scenario"} |-> "none"]
  BY DEF Init
<1>3. Order /\ Judged
  <2>1. \A s \in OracleSet \union {"scenario"} : verdict[s] = "none"
    BY <1>2
  <2>2. line <= Len(Stream(stage))
    BY <1>2 DEF Stream
  <2>3. \A s \in OracleSet : Rank[stage] <= Rank[s]
    BY <1>2 DEF Rank, OracleSet, Following
  <2> QED  BY <2>1, <2>2, <2>3 DEF Order, Judged, OracleSet, Following
<1>4. \A s \in OracleSet, n \in Nat : ReadOf(s, n) = 0
  BY <1>2 DEF ReadOf, Rank, OracleSet, Following
<1>5. ReadOf("transcript", Len(transcript)) = 0 /\ ReadOf("exactly_once", Len(reports)) = 0
      /\ ReadOf("frontier", Len(frontier)) = 0
  BY <1>2 DEF ReadOf, Rank
<1>6. TranscriptAt(0)
  <2>1. transcript = <<>> /\ matched = 0 /\ forbiddenHit = FALSE
    BY DEF Init
  <2>2. Len(Required) \in Nat
    BY ScenarioAssumption
  <2>3. forbiddenHit \in BOOLEAN /\ (forbiddenHit <=> \E i \in 1..0 : transcript[i] \in Forbidden)
    <3>1. ~\E i \in 1..0 : transcript[i] \in Forbidden
      OBVIOUS
    <3> QED  BY <2>1, <3>1
  <2>4. matched \in 0..Len(Required) /\ matched <= 0 /\ ~(matched >= 2)
    BY <2>1, <2>2
  <2> QED  BY <2>1, <2>3, <2>4 DEF TranscriptAt
<1>7. ReportsAt(0)
  <2>1. seen = {} /\ counts = [accepted |-> 0, duplicates |-> 0, conflicts |-> 0]
    BY DEF Init
  <2>2. KeyedTo(0) = {} /\ AcceptedTo(0) = {}
    BY DEF KeyedTo, AcceptedTo
  <2>3. CleanTo(0)
    BY <2>2 DEF CleanTo
  <2> QED  BY <2>1, <2>2, <2>3, FS_EmptySet DEF ReportsAt
<1>8. FrontierAt(0)
  BY DEF Init, FrontierAt
<1>9. expectedPrev \in Nat \union {Edited}
  BY DEF Init, Genesis
<1> QED  BY <1>1, <1>3, <1>5, <1>6, <1>7, <1>8, <1>9 DEF ReadInv

\* The transcript oracle ticks an event off, starts over or skips the line.
LEMMA TranscriptGrows ==
  ASSUME RunInv, NEW n \in Nat, n < Len(transcript), TranscriptAt(n), UNCHANGED transcript,
         IF transcript[n + 1] = Torn THEN UNCHANGED <<matched, forbiddenHit>>
         ELSE /\ forbiddenHit' = (forbiddenHit \/ transcript[n + 1] \in Forbidden)
              /\ matched' = Tick(matched, transcript[n + 1])
  PROVE  TranscriptAt(n + 1)'
<1> DEFINE e == transcript[n + 1]
           l == Len(Required)
<1>1. /\ l \in Nat /\ n + 1 \in DOMAIN transcript /\ e \in Kinds \union {Torn}
      /\ \A i \in 1..l : Required[i] \in Kinds
  BY ScenarioAssumption DEF RunInv, StreamTypes
<1>2. Torn \notin Forbidden
  BY ScenarioAssumption, KindsAssumption
<1>3. matched \in 0..l /\ matched <= n
  BY DEF TranscriptAt
<1> HIDE DEF e, l
<1>4. matched' = IF e = Torn \/ matched = l THEN matched
                 ELSE IF e = Required[matched + 1] THEN matched + 1 ELSE 1
  BY DEF Tick, e, l
<1>5. matched' \in 0..l /\ matched' <= n + 1
  BY <1>1, <1>3, <1>4
<1>6. forbiddenHit' \in BOOLEAN /\ (forbiddenHit' <=> \E i \in 1..(n + 1) : transcript[i] \in Forbidden)
  <2>1. (\E i \in 1..(n + 1) : transcript[i] \in Forbidden)
          <=> (\E i \in 1..n : transcript[i] \in Forbidden) \/ e \in Forbidden
    BY DEF e
  <2>2. CASE e = Torn
    BY <2>1, <2>2, <1>2 DEF e, TranscriptAt
  <2>3. CASE e # Torn
    BY <2>1, <2>3 DEF e, TranscriptAt
  <2> QED  BY <2>2, <2>3
<1>7. transcript = Required => matched' = n + 1
  <2> SUFFICES ASSUME transcript = Required PROVE matched' = n + 1
    OBVIOUS
  <2>1. matched = n /\ n < l /\ e = Required[n + 1] /\ e \in Kinds
    BY <1>1 DEF TranscriptAt, e, l
  <2> QED  BY <2>1, <1>1, <1>4, KindsAssumption
<1>8. matched' >= 2 => \E at \in [2..matched' -> 1..(n + 1)] : Row(at, matched', n + 1)
  <2> SUFFICES ASSUME matched' >= 2
               PROVE  \E at \in [2..matched' -> 1..(n + 1)] : Row(at, matched', n + 1)
    OBVIOUS
  <2>1. CASE matched' = matched
    <3>1. PICK at \in [2..matched -> 1..n] : Row(at, matched, n)
      BY <2>1 DEF TranscriptAt
    <3>2. at \in [2..matched' -> 1..(n + 1)]
      BY <2>1, <3>1
    <3>3. e = Torn \/ matched = l
      BY <1>1, <1>3, <1>4, <2>1
    <3>4. Row(at, matched', n + 1)
      <4>1. ASSUME NEW k \in 1..(n + 1), at[2] < k, k < at[matched] \/ matched < l,
                   transcript[k] # Torn
            PROVE  \E j \in 2..matched : at[j] = k
        <5>1. at[matched] <= n /\ at[matched] \in Nat
          BY <2>1, <1>3, <1>1
        <5>2. k # n + 1
          <6> SUFFICES ASSUME k = n + 1 PROVE FALSE
            OBVIOUS
          <6>1. matched = l
            BY <3>3, <4>1 DEF e
          <6> QED  BY <1>1, <4>1, <5>1, <6>1
        <5>3. k \in 1..n
          BY <4>1, <5>2
        <5> QED  BY <3>1, <4>1, <5>3 DEF Row, l
      <4> QED  BY <2>1, <3>1, <4>1 DEF Row, l
    <3> QED  BY <3>2, <3>4
  <2>2. CASE matched' = matched + 1 /\ matched >= 2
    <3>1. PICK old \in [2..matched -> 1..n] : Row(old, matched, n)
      BY <2>2 DEF TranscriptAt
    <3> DEFINE at == [i \in 2..(matched + 1) |-> IF i = matched + 1 THEN n + 1 ELSE old[i]]
    <3>2. e # Torn /\ e = Required[matched + 1] /\ matched < l
      BY <1>1, <1>3, <1>4, <2>2
    <3>3. at \in [2..matched' -> 1..(n + 1)]
      BY <2>2, <1>3
    <3>4. /\ \A i \in 2..matched : at[i] = old[i] /\ old[i] \in 1..n
          /\ at[matched + 1] = n + 1
      BY <1>3, <2>2
    <3> HIDE DEF at
    <3>5. Row(at, matched + 1, n + 1)
      <4>1. \A i \in 2..(matched + 1) : transcript[at[i]] = Required[i]
        BY <3>1, <3>2, <3>4, <1>3 DEF Row, e
      <4>2. \A i, j \in 2..(matched + 1) : i < j => at[i] < at[j]
        <5>1. \A i, j \in 2..matched : i < j => old[i] < old[j]
          BY <3>1 DEF Row
        <5>2. ASSUME NEW i \in 2..(matched + 1), NEW j \in 2..(matched + 1), i < j
              PROVE  at[i] < at[j]
          <6>1. i \in 2..matched /\ (j \in 2..matched \/ j = matched + 1)
            BY <5>2, <1>1, <1>3
          <6> QED  BY <3>4, <5>1, <5>2, <6>1
        <5> QED  BY <5>2
      <4>3. ASSUME NEW k \in 1..(n + 1), at[2] < k, transcript[k] # Torn
            PROVE  \E j \in 2..(matched + 1) : at[j] = k
        <5>1. CASE k = n + 1
          BY <5>1, <3>4, <2>2, <1>3
        <5>2. CASE k # n + 1
          <6>1. k \in 1..n /\ old[2] < k /\ matched < Len(Required)
            BY <5>2, <4>3, <3>2, <3>4, <2>2, <1>3 DEF l
          <6>2. PICK j \in 2..matched : old[j] = k
            BY <6>1, <4>3, <3>1 DEF Row
          <6> QED  BY <6>2, <3>4, <1>3
        <5> QED  BY <5>1, <5>2
      <4> QED  BY <4>1, <4>2, <4>3 DEF Row
    <3> QED  BY <3>3, <3>5, <2>2
  <2>3. CASE matched' = matched + 1 /\ matched < 2
    <3>1. matched' = 2 /\ e = Required[2] /\ e # Torn
      BY <1>1, <1>3, <1>4, <2>3
    <3> DEFINE at == [i \in 2..2 |-> n + 1]
    <3>2. at \in [2..2 -> 1..(n + 1)] /\ \A i \in 2..2 : at[i] = n + 1 /\ i = 2
      OBVIOUS
    <3> HIDE DEF at
    <3>3. Row(at, 2, n + 1)
      BY <3>1, <3>2 DEF Row, e
    <3> QED  BY <3>1, <3>2, <3>3
  <2> QED  BY <1>3, <1>4, <2>1, <2>2, <2>3
<1> QED  BY <1>5, <1>6, <1>7, <1>8 DEF TranscriptAt, Row, l

\* The exactly-once oracle counts a keyed line as accepted, duplicate or conflict.
LEMMA ReportsGrow ==
  ASSUME RunInv, NEW n \in Nat, n < Len(reports), ReportsAt(n), UNCHANGED reports,
         IF reports[n + 1] = Torn \/ ~reports[n + 1].keyed THEN UNCHANGED <<seen, counts>>
         ELSE /\ counts' = [counts EXCEPT ![Count(reports[n + 1], seen)] = @ + 1]
              /\ seen' = IF reports[n + 1].outcome = "conflict" THEN seen
                         ELSE seen \union {reports[n + 1].operation}
  PROVE  ReportsAt(n + 1)'
<1> DEFINE r == reports[n + 1]
           keyed == r # Torn /\ r.keyed
<1>1. /\ KeyedTo(n + 1)' = KeyedTo(n + 1) /\ AcceptedTo(n + 1)' = AcceptedTo(n + 1)
      /\ CleanTo(n + 1)' = CleanTo(n + 1)
  BY DEF KeyedTo, AcceptedTo, CleanTo
<1>2. KeyedTo(n + 1) = IF keyed THEN KeyedTo(n) \union {n + 1} ELSE KeyedTo(n)
  BY DEF KeyedTo
<1>3. n + 1 \notin KeyedTo(n)
  BY DEF KeyedTo
<1>4. /\ seen = AcceptedTo(n) /\ IsFiniteSet(seen) /\ counts.accepted = Cardinality(seen)
      /\ counts \in [{"accepted", "duplicates", "conflicts"} -> Nat]
      /\ counts.accepted + counts.duplicates + counts.conflicts <= n
      /\ counts.duplicates + counts.conflicts = 0 <=> CleanTo(n)
  BY DEF ReportsAt
<1>5. CASE ~keyed
  <2>1. UNCHANGED <<seen, counts>> /\ KeyedTo(n + 1) = KeyedTo(n)
    BY <1>2, <1>5
  <2>2. AcceptedTo(n + 1) = AcceptedTo(n) /\ (CleanTo(n + 1) <=> CleanTo(n))
    BY <2>1 DEF AcceptedTo, CleanTo
  <2> QED  BY <1>1, <1>4, <2>1, <2>2 DEF ReportsAt
<1>6. CASE keyed
  <2>1. /\ KeyedTo(n + 1) = KeyedTo(n) \union {n + 1} /\ r \in Delivery
        /\ counts' = [counts EXCEPT ![Count(r, seen)] = @ + 1]
        /\ seen' = IF r.outcome = "conflict" THEN seen ELSE seen \union {r.operation}
    BY <1>2, <1>6 DEF RunInv, StreamTypes
  <2>2. r.outcome \in {"accepted", "conflict"}
    BY <2>1 DEF Delivery
  <2>3. AcceptedTo(n + 1) = IF r.outcome = "accepted" THEN AcceptedTo(n) \union {r.operation}
                            ELSE AcceptedTo(n)
    BY <2>1 DEF AcceptedTo
  <2>4. seen' = AcceptedTo(n + 1)
    BY <1>4, <2>1, <2>2, <2>3
  <2>5. CleanTo(n + 1) <=>
          /\ CleanTo(n) /\ r.outcome = "accepted"
          /\ \A i \in KeyedTo(n) : reports[i].operation # r.operation
    BY <1>3, <2>1 DEF CleanTo
  <2>6. CASE r.outcome = "conflict"
    <3>1. counts' = [counts EXCEPT !.conflicts = @ + 1] /\ seen' = seen
      BY <2>1, <2>6 DEF Count
    <3>2. /\ counts' \in [{"accepted", "duplicates", "conflicts"} -> Nat]
          /\ counts'.accepted = counts.accepted /\ counts'.duplicates = counts.duplicates
          /\ counts'.conflicts = counts.conflicts + 1
      BY <1>4, <3>1
    <3>3. ~CleanTo(n + 1)
      BY <2>5, <2>6
    <3>4. counts'.accepted + counts'.duplicates + counts'.conflicts <= n + 1
          /\ counts'.duplicates + counts'.conflicts # 0
      BY <1>4, <3>2
    <3> QED  BY <1>1, <1>4, <2>4, <3>1, <3>2, <3>3, <3>4 DEF ReportsAt
  <2>7. CASE r.outcome = "accepted" /\ r.operation \in seen
    <3>1. counts' = [counts EXCEPT !.duplicates = @ + 1] /\ seen' = seen
      BY <2>1, <2>7 DEF Count
    <3>2. /\ counts' \in [{"accepted", "duplicates", "conflicts"} -> Nat]
          /\ counts'.accepted = counts.accepted /\ counts'.conflicts = counts.conflicts
          /\ counts'.duplicates = counts.duplicates + 1
      BY <1>4, <3>1
    <3>3. \E i \in KeyedTo(n) : reports[i].operation = r.operation
      BY <1>4, <2>7 DEF AcceptedTo
    <3>4. ~CleanTo(n + 1)
      BY <2>5, <3>3
    <3>5. counts'.accepted + counts'.duplicates + counts'.conflicts <= n + 1
          /\ counts'.duplicates + counts'.conflicts # 0
      BY <1>4, <3>2
    <3> QED  BY <1>1, <1>4, <2>4, <3>1, <3>2, <3>4, <3>5 DEF ReportsAt
  <2>8. CASE r.outcome = "accepted" /\ r.operation \notin seen
    <3>1. counts' = [counts EXCEPT !.accepted = @ + 1] /\ seen' = seen \union {r.operation}
      BY <2>1, <2>8 DEF Count
    <3>2. /\ counts' \in [{"accepted", "duplicates", "conflicts"} -> Nat]
          /\ counts'.accepted = counts.accepted + 1 /\ counts'.conflicts = counts.conflicts
          /\ counts'.duplicates = counts.duplicates
      BY <1>4, <3>1
    <3>3. IsFiniteSet(seen') /\ Cardinality(seen') = Cardinality(seen) + 1
      <4> DEFINE op == r.operation
      <4> HIDE DEF op
      <4>1. /\ IsFiniteSet(seen \union {op})
            /\ Cardinality(seen \union {op}) = IF op \in seen THEN Cardinality(seen) ELSE Cardinality(seen) + 1
        BY <1>4, FS_AddElement
      <4> QED  BY <2>8, <3>1, <4>1 DEF op
    <3>4. CleanTo(n) => \A i \in KeyedTo(n) : reports[i].operation \in seen
      BY <1>4 DEF CleanTo, AcceptedTo
    <3>5. CleanTo(n + 1) <=> CleanTo(n)
      BY <2>5, <2>8, <3>4
    <3>6. counts'.accepted + counts'.duplicates + counts'.conflicts <= n + 1
      BY <1>4, <3>2
    <3> QED  BY <1>1, <1>4, <2>4, <3>2, <3>3, <3>5, <3>6 DEF ReportsAt
  <2> QED  BY <2>2, <2>6, <2>7, <2>8
<1> QED  BY <1>5, <1>6

LEMMA FrontierGrows ==
  ASSUME NEW n \in Nat, FrontierAt(n), UNCHANGED frontier,
         revisions' = IF frontier[n + 1] = Torn THEN revisions ELSE revisions \union {frontier[n + 1]}
  PROVE  FrontierAt(n + 1)'
<1> DEFINE upTo(k) == {j \in 1..k : frontier[j] # Torn}
<1>1. upTo(n + 1) = IF frontier[n + 1] = Torn THEN upTo(n) ELSE upTo(n) \union {n + 1}
  OBVIOUS
<1>2. revisions = {frontier[i] : i \in upTo(n)}
  BY DEF FrontierAt
<1>3. revisions' = {frontier[i] : i \in upTo(n + 1)}
  BY <1>1, <1>2
<1> QED  BY <1>3 DEF FrontierAt

-----------------------------------------------------------------------------
(* One step. *)

\* Until the first oracle starts, nothing is read and nothing judged.
Early ==
  /\ stage \in {"running", "written"} /\ stage' \in {"running", "written", "transcript"}
  /\ UNCHANGED <<line, readVars, verdict>>

\* An oracle returns v, which its stream bears out.
Concludes(v) ==
  /\ stage \in OracleSet /\ v \in Verdicts \ {"none"} /\ Conclude(v)
  /\ stage \in {"transcript", "exactly_once", "frontier"} => line = Len(Stream(stage))

LEMMA StepKinds ==
  ASSUME RunInv, [Next]_vars
  PROVE  \/ Early
         \/ ReadTranscript \/ ReadAudit \/ ReadReport \/ ReadFrontier
         \/ \E v \in Verdicts : Concludes(v)
         \/ Aggregate
         \/ UNCHANGED vars
<1>1. CASE \/ \E kind \in Kinds : Emit(kind)
           \/ \E op \in undelivered : Deliver(op)
           \/ Redeliver \/ Leak \/ Finish \/ Damage \/ Begin
  BY <1>1 DEF Early, Emit, Deliver, Redeliver, Leak, Finish, Damage, Begin, Running
<1>2. CASE \/ TranscriptVerdict \/ BrokenAudit \/ AuditVerdict \/ ReportVerdict
           \/ FrontierVerdict \/ ResourceVerdict
  BY <1>2 DEF Concludes, TranscriptVerdict, BrokenAudit, AuditVerdict, ReportVerdict,
              FrontierVerdict, ResourceVerdict, AtEnd, Reading, Verdicts, OracleSet, Following
<1> QED  BY <1>1, <1>2 DEF Next, Oracle

\* Where the oracle s is in its stream depends on the stage alone.
LEMMA ReadOfSteps ==
  ASSUME RunInv, Order, NEW s \in {"transcript", "exactly_once", "frontier"}
  PROVE  /\ Early => ReadOf(s, Len(Stream(s))) = 0 /\ ReadOf(s, Len(Stream(s)))' = 0
         /\ (\E v \in Verdicts : Concludes(v)) => ReadOf(s, Len(Stream(s)))' = ReadOf(s, Len(Stream(s)))
<1>1. line \in Nat /\ stage \in DOMAIN Rank /\ (stage \in {"running", "written"} => line = 0)
  BY DEF RunInv, AuditInv, StageOK, OracleSet, Following, Rank
<1>2. ASSUME Early
      PROVE  ReadOf(s, Len(Stream(s))) = 0 /\ ReadOf(s, Len(Stream(s)))' = 0
  BY <1>1, <1>2 DEF Early, ReadOf, Rank
<1>3. ASSUME NEW v \in Verdicts, Concludes(v)
      PROVE  ReadOf(s, Len(Stream(s)))' = ReadOf(s, Len(Stream(s)))
  <2>1. /\ stage' = Following[stage] /\ line' = 0 /\ UNCHANGED <<transcript, audit, reports, frontier>>
        /\ stage \in OracleSet
    BY <1>3 DEF Concludes, Conclude, runVars, streamVars
  <2>2. Stream(s)' = Stream(s)
    BY <2>1 DEF Stream
  <2>3. stage = s => line = Len(Stream(s))
    BY <1>3 DEF Concludes
  <2>4. Rank[stage'] = Rank[stage] + 1 /\ (stage' = s => Rank[stage] < Rank[s])
        /\ (Rank[stage] < Rank[s] => Rank[stage'] <= Rank[s])
        /\ (Rank[stage'] = Rank[s] => stage' = s)
    BY <2>1 DEF OracleSet, Following, Rank
  <2>5. CASE stage = s
    BY <2>1, <2>2, <2>3, <2>5 DEF ReadOf, Rank, Following, OracleSet
  <2>6. CASE stage # s
    BY <2>1, <2>2, <2>6 DEF ReadOf, Rank, Following, OracleSet
  <2> QED  BY <2>5, <2>6
<1> QED  BY <1>2, <1>3

\* The oracle at work reads a line; the others stay where they are.
LEMMA ReadOfReads ==
  ASSUME RunInv, Order, NEW s \in {"transcript", "exactly_once", "frontier"},
         ReadTranscript \/ ReadAudit \/ ReadReport \/ ReadFrontier
  PROVE  /\ UNCHANGED runVars /\ stage' = stage /\ line' = line + 1 /\ line \in Nat
         /\ line < Len(Stream(stage))
         /\ stage = s => ReadOf(s, Len(Stream(s))) = line /\ ReadOf(s, Len(Stream(s)))' = line + 1
         /\ stage # s => ReadOf(s, Len(Stream(s)))' = ReadOf(s, Len(Stream(s)))
<1>1. /\ UNCHANGED runVars /\ stage' = stage /\ line' = line + 1 /\ line \in Nat
      /\ line < Len(Stream(stage)) /\ stage \in OracleSet
  BY DEF ReadTranscript, ReadAudit, ReadReport, ReadFrontier, Reading, NextLine,
         RunInv, AuditInv, StageOK, OracleSet, Following
<1>2. Stream(s)' = Stream(s)
  BY <1>1 DEF Stream, runVars, streamVars
<1> QED  BY <1>1, <1>2 DEF ReadOf, Rank, OracleSet, Following

LEMMA TranscriptKeeps ==
  ASSUME ReadInv, [Next]_vars
  PROVE  TranscriptAt(ReadOf("transcript", Len(transcript)))'
<1> DEFINE n == ReadOf("transcript", Len(transcript))
<1>1. RunInv /\ Order /\ TranscriptAt(n) /\ Stream("transcript") = transcript
      /\ Stream("transcript")' = transcript'
  BY DEF ReadInv, Stream
<1>2. CASE Early
  <2>1. n = 0 /\ n' = 0
    BY <1>1, <1>2, ReadOfSteps
  <2>2. matched' = 0 /\ forbiddenHit' = FALSE
    <3>1. TranscriptAt(0) /\ UNCHANGED <<matched, forbiddenHit>>
      BY <1>1, <1>2, <2>1 DEF Early, readVars
    <3>2. matched = 0
      BY <3>1, ScenarioAssumption DEF TranscriptAt
    <3>3. forbiddenHit \in BOOLEAN /\ ~forbiddenHit
      BY <3>1 DEF TranscriptAt
    <3> QED  BY <3>1, <3>2, <3>3
  <2>3. Len(Required) \in Nat
    BY ScenarioAssumption
  <2>4. matched' \in 0..Len(Required) /\ matched' <= 0 /\ ~(matched' >= 2)
    BY <2>2, <2>3
  <2>5. forbiddenHit' \in BOOLEAN /\ (forbiddenHit' <=> \E i \in 1..0 : transcript'[i] \in Forbidden)
    <3>1. ~\E i \in 1..0 : transcript'[i] \in Forbidden
      OBVIOUS
    <3> QED  BY <2>2, <3>1
  <2>6. TranscriptAt(0)'
    BY <2>2, <2>4, <2>5 DEF TranscriptAt
  <2> QED  BY <2>1, <2>6
<1>3. CASE ReadTranscript
  <2>1. /\ stage = "transcript" /\ UNCHANGED transcript /\ line \in Nat /\ line < Len(transcript)
        /\ n = line /\ n' = line + 1
    <3>1. stage = "transcript"
      BY <1>3 DEF ReadTranscript, Reading
    <3>2. UNCHANGED runVars /\ line \in Nat /\ line < Len(Stream(stage))
          /\ ReadOf("transcript", Len(Stream("transcript"))) = line
          /\ ReadOf("transcript", Len(Stream("transcript")))' = line + 1
      BY <1>1, <1>3, <3>1, ReadOfReads
    <3> QED  BY <1>1, <3>1, <3>2 DEF runVars, streamVars
  <2>2. Current = transcript[line + 1]
    BY <2>1 DEF Current, Stream
  <2> PICK m \in Nat : m = line
    BY <2>1
  <2>3. TranscriptAt(m + 1)'
    BY <1>1, <1>3, <2>1, <2>2, TranscriptGrows DEF ReadTranscript
  <2> QED  BY <2>1, <2>3
<1>4. CASE UNCHANGED <<transcript, matched, forbiddenHit>> /\ n' = n
  <2>1. ASSUME NEW m, TranscriptAt(m) PROVE TranscriptAt(m)'
    BY <1>4, <2>1 DEF TranscriptAt, Row
  <2> PICK m : m = n
    OBVIOUS
  <2> QED  BY <1>1, <1>4, <2>1
<1>5. CASE ReadAudit \/ ReadReport \/ ReadFrontier
  <2>1. stage # "transcript" /\ UNCHANGED <<matched, forbiddenHit>>
    BY <1>5 DEF ReadAudit, ReadReport, ReadFrontier, Reading
  <2>2. UNCHANGED runVars
        /\ ReadOf("transcript", Len(Stream("transcript")))' = ReadOf("transcript", Len(Stream("transcript")))
    BY <1>1, <1>5, <2>1, ReadOfReads
  <2> QED  BY <1>1, <1>4, <2>1, <2>2 DEF runVars, streamVars
<1>6. CASE \E v \in Verdicts : Concludes(v)
  <2>1. UNCHANGED <<runVars, readVars>> /\ n' = n
    BY <1>1, <1>6, ReadOfSteps DEF Concludes, Conclude
  <2> QED  BY <1>4, <2>1 DEF runVars, streamVars, readVars
<1>7. CASE Aggregate \/ UNCHANGED vars
  <2>1. UNCHANGED <<runVars, readVars, stage, line>>
    BY <1>7 DEF Aggregate, vars
  <2> QED  BY <1>4, <2>1 DEF runVars, streamVars, readVars, ReadOf
<1> QED  BY <1>1, <1>2, <1>3, <1>5, <1>6, <1>7, StepKinds

LEMMA ReportsKeep ==
  ASSUME ReadInv, [Next]_vars
  PROVE  ReportsAt(ReadOf("exactly_once", Len(reports)))'
<1> DEFINE n == ReadOf("exactly_once", Len(reports))
<1>1. RunInv /\ Order /\ ReportsAt(n) /\ Stream("exactly_once") = reports
      /\ Stream("exactly_once")' = reports'
  BY DEF ReadInv, Stream
<1>2. CASE Early
  <2>1. n = 0 /\ n' = 0
    BY <1>1, <1>2, ReadOfSteps
  <2>2. /\ KeyedTo(0) = {} /\ AcceptedTo(0) = {} /\ CleanTo(0)
        /\ KeyedTo(0)' = {} /\ AcceptedTo(0)' = {} /\ CleanTo(0)'
    BY DEF KeyedTo, AcceptedTo, CleanTo
  <2>3. ReportsAt(0) /\ UNCHANGED <<seen, counts>>
    BY <1>1, <1>2, <2>1 DEF Early, readVars
  <2>4. ReportsAt(0)'
    BY <2>2, <2>3 DEF ReportsAt
  <2> QED  BY <2>1, <2>4
<1>3. CASE ReadReport
  <2>1. /\ stage = "exactly_once" /\ UNCHANGED reports /\ line \in Nat /\ line < Len(reports)
        /\ n = line /\ n' = line + 1
    <3>1. stage = "exactly_once"
      BY <1>3 DEF ReadReport, Reading
    <3>2. UNCHANGED runVars /\ line \in Nat /\ line < Len(Stream(stage))
          /\ ReadOf("exactly_once", Len(Stream("exactly_once"))) = line
          /\ ReadOf("exactly_once", Len(Stream("exactly_once")))' = line + 1
      BY <1>1, <1>3, <3>1, ReadOfReads
    <3> QED  BY <1>1, <3>1, <3>2 DEF runVars, streamVars
  <2>2. Current = reports[line + 1]
    BY <2>1 DEF Current, Stream
  <2>3. IF reports[line + 1] = Torn \/ ~reports[line + 1].keyed THEN UNCHANGED <<seen, counts>>
        ELSE /\ counts' = [counts EXCEPT ![Count(reports[line + 1], seen)] = @ + 1]
             /\ seen' = IF reports[line + 1].outcome = "conflict" THEN seen
                        ELSE seen \union {reports[line + 1].operation}
    BY <1>3, <2>2 DEF ReadReport, Counted
  <2> PICK m \in Nat : m = line
    BY <2>1
  <2>4. ReportsAt(m + 1)'
    BY <1>1, <2>1, <2>3, ReportsGrow
  <2> QED  BY <2>1, <2>4
<1>4. CASE UNCHANGED <<reports, seen, counts>> /\ n' = n
  BY <1>1, <1>4 DEF ReportsAt, AcceptedTo, CleanTo, KeyedTo
<1>5. CASE ReadTranscript \/ ReadAudit \/ ReadFrontier
  <2>1. stage # "exactly_once" /\ UNCHANGED <<seen, counts>>
    BY <1>5 DEF ReadAudit, ReadTranscript, ReadFrontier, Reading
  <2>2. UNCHANGED runVars
        /\ ReadOf("exactly_once", Len(Stream("exactly_once")))' = ReadOf("exactly_once", Len(Stream("exactly_once")))
    BY <1>1, <1>5, <2>1, ReadOfReads
  <2> QED  BY <1>1, <1>4, <2>1, <2>2 DEF runVars, streamVars
<1>6. CASE \E v \in Verdicts : Concludes(v)
  <2>1. UNCHANGED <<runVars, readVars>> /\ n' = n
    BY <1>1, <1>6, ReadOfSteps DEF Concludes, Conclude
  <2> QED  BY <1>4, <2>1 DEF runVars, streamVars, readVars
<1>7. CASE Aggregate \/ UNCHANGED vars
  <2>1. UNCHANGED <<runVars, readVars, stage, line>>
    BY <1>7 DEF Aggregate, vars
  <2> QED  BY <1>4, <2>1 DEF runVars, streamVars, readVars, ReadOf
<1> QED  BY <1>1, <1>2, <1>3, <1>5, <1>6, <1>7, StepKinds

LEMMA FrontierKeeps ==
  ASSUME ReadInv, [Next]_vars
  PROVE  FrontierAt(ReadOf("frontier", Len(frontier)))'
<1> DEFINE n == ReadOf("frontier", Len(frontier))
<1>1. RunInv /\ Order /\ FrontierAt(n) /\ Stream("frontier") = frontier
      /\ Stream("frontier")' = frontier'
  BY DEF ReadInv, Stream
<1>2. CASE Early
  <2>1. n = 0 /\ n' = 0
    BY <1>1, <1>2, ReadOfSteps
  <2>2. FrontierAt(0) /\ UNCHANGED revisions
    BY <1>1, <1>2, <2>1 DEF Early, readVars
  <2>3. revisions = {}
    BY <2>2 DEF FrontierAt
  <2>4. FrontierAt(0)'
    BY <2>2, <2>3 DEF FrontierAt
  <2> QED  BY <2>1, <2>4
<1>3. CASE ReadFrontier
  <2>1. /\ stage = "frontier" /\ UNCHANGED frontier /\ line \in Nat
        /\ n = line /\ n' = line + 1
    <3>1. stage = "frontier"
      BY <1>3 DEF ReadFrontier, Reading
    <3>2. UNCHANGED runVars /\ line \in Nat
          /\ ReadOf("frontier", Len(Stream("frontier"))) = line
          /\ ReadOf("frontier", Len(Stream("frontier")))' = line + 1
      BY <1>1, <1>3, <3>1, ReadOfReads
    <3> QED  BY <1>1, <3>1, <3>2 DEF runVars, streamVars
  <2>2. Current = frontier[line + 1]
    BY <2>1 DEF Current, Stream
  <2> PICK m \in Nat : m = line
    BY <2>1
  <2>3. FrontierAt(m + 1)'
    BY <1>1, <1>3, <2>1, <2>2, FrontierGrows DEF ReadFrontier
  <2> QED  BY <2>1, <2>3
<1>4. CASE UNCHANGED <<frontier, revisions>> /\ n' = n
  BY <1>1, <1>4 DEF FrontierAt
<1>5. CASE ReadTranscript \/ ReadAudit \/ ReadReport
  <2>1. stage # "frontier" /\ UNCHANGED revisions
    BY <1>5 DEF ReadAudit, ReadTranscript, ReadReport, Reading
  <2>2. UNCHANGED runVars
        /\ ReadOf("frontier", Len(Stream("frontier")))' = ReadOf("frontier", Len(Stream("frontier")))
    BY <1>1, <1>5, <2>1, ReadOfReads
  <2> QED  BY <1>1, <1>4, <2>1, <2>2 DEF runVars, streamVars
<1>6. CASE \E v \in Verdicts : Concludes(v)
  <2>1. UNCHANGED <<runVars, readVars>> /\ n' = n
    BY <1>1, <1>6, ReadOfSteps DEF Concludes, Conclude
  <2> QED  BY <1>4, <2>1 DEF runVars, streamVars, readVars
<1>7. CASE Aggregate \/ UNCHANGED vars
  <2>1. UNCHANGED <<runVars, readVars, stage, line>>
    BY <1>7 DEF Aggregate, vars
  <2> QED  BY <1>4, <2>1 DEF runVars, streamVars, readVars, ReadOf
<1> QED  BY <1>1, <1>2, <1>3, <1>5, <1>6, <1>7, StepKinds

LEMMA OrderKeeps == ASSUME ReadInv, [Next]_vars PROVE Order'
<1>1. RunInv /\ Order /\ verdict \in [OracleSet \union {"scenario"} -> Verdicts] /\ line \in Nat
  BY DEF ReadInv, RunInv, AuditInv, StageOK
<1>2. CASE Early
  <2>1. stage \in {"running", "written"} => line = 0
    BY <1>1 DEF RunInv, AuditInv, StageOK
  <2>2. Len(Stream(stage)') \in Nat
    <3>1. CASE stage' = "transcript"
      <4>1. Stream(stage)' = transcript'
        BY <3>1 DEF Stream
      <4>2. RunInv'
        BY <1>1, NextRun
      <4> QED  BY <4>1, <4>2 DEF RunInv, StreamTypes
    <3>2. CASE stage' # "transcript"
      BY <1>2, <3>2 DEF Early, Stream
    <3> QED  BY <3>1, <3>2
  <2>3. \A s \in OracleSet : verdict[s] = "none" /\ Rank[stage'] <= Rank[s]
    BY <1>1, <1>2 DEF Early, Order, Rank, OracleSet, Following
  <2> QED  BY <1>1, <1>2, <2>1, <2>2, <2>3 DEF Early, Order
<1>3. CASE ReadTranscript \/ ReadAudit \/ ReadReport \/ ReadFrontier
  <2>1. /\ UNCHANGED <<runVars, stage, verdict>> /\ line' = line + 1
        /\ line < Len(Stream(stage))
    BY <1>3 DEF ReadTranscript, ReadAudit, ReadReport, ReadFrontier, NextLine, Reading
  <2>2. Stream(stage)' = Stream(stage)
    BY <2>1 DEF Stream, runVars, streamVars
  <2>3. Len(Stream(stage)) \in Nat
    BY <1>1, <1>3 DEF Stream, RunInv, StreamTypes, AuditInv, Genuine,
                      ReadTranscript, ReadAudit, ReadReport, ReadFrontier, Reading
  <2> QED  BY <1>1, <2>1, <2>2, <2>3 DEF Order
<1>4. CASE \E v \in Verdicts : Concludes(v)
  <2>1. PICK v \in Verdicts \ {"none"} :
          /\ stage \in OracleSet /\ verdict' = [verdict EXCEPT ![stage] = v]
          /\ stage' = Following[stage] /\ line' = 0 /\ UNCHANGED runVars
    BY <1>4 DEF Concludes, Conclude
  <2>2. RunInv'
    BY <1>1, NextRun
  <2>3. Len(Stream(stage)') \in Nat
    BY <2>1, <2>2 DEF Stream, RunInv, StreamTypes, AuditInv, Genuine, OracleSet, Following
  <2>4. /\ Rank[stage'] = Rank[stage] + 1
        /\ \A s \in OracleSet : Rank[s] \in Nat /\ (Rank[stage] = Rank[s] <=> s = stage)
        /\ stage # "done"
    BY <2>1 DEF OracleSet, Following, Rank
  <2>5. \A s \in OracleSet : verdict'[s] = "none" <=> Rank[stage'] <= Rank[s]
    BY <1>1, <2>1, <2>4 DEF Order
  <2>6. verdict'["scenario"] = "none"
    BY <1>1, <2>1, <2>4 DEF Order, OracleSet, Following
  <2> QED  BY <2>1, <2>3, <2>5, <2>6 DEF Order
<1>5. CASE Aggregate
  <2>1. /\ stage = "done" /\ UNCHANGED <<runVars, stage, line>>
        /\ \E v \in Verdicts : verdict' = [verdict EXCEPT !["scenario"] = v]
    BY <1>5 DEF Aggregate, Verdicts
  <2>2. Stream(stage)' = Stream(stage) /\ \A s \in OracleSet : verdict'[s] = verdict[s]
    BY <1>1, <2>1 DEF Stream, OracleSet, Following
  <2> QED  BY <1>1, <2>1, <2>2 DEF Order
<1>6. CASE UNCHANGED vars
  <2>1. UNCHANGED <<runVars, stage, line, verdict>>
    BY <1>6 DEF vars
  <2>2. Stream(stage)' = Stream(stage)
    BY <2>1 DEF Stream, runVars, streamVars
  <2> QED  BY <1>1, <2>1, <2>2 DEF Order
<1> QED  BY <1>1, <1>2, <1>3, <1>4, <1>5, <1>6, StepKinds

\* An intact log breaks no chain.
LEMMA IntactIsLinked ==
  ASSUME RunInv, BrokenAudit
  PROVE  {"torn", "damaged"} \intersect faults # {}
<1> SUFFICES ASSUME {"torn", "damaged"} \intersect faults = {} PROVE FALSE
  OBVIOUS
<1>1. \A i \in DOMAIN audit : audit[i] # Torn /\ audit[i].prev = i - 1 /\ audit[i].hash = i
  BY DEF RunInv, AuditKept, Whole
<1>2. /\ stage = "audit" /\ line \in Nat /\ line < Len(audit) /\ Current = audit[line + 1] /\ ~Linked
      /\ DOMAIN audit = 1..Len(audit)
  BY DEF BrokenAudit, Reading, Stream, Current, RunInv, AuditInv, StageOK, Genuine
<1>3. expectedPrev = line
  BY <1>1, <1>2 DEF RunInv, AuditInv, ChainRead, Genesis
<1>4. Current # Torn /\ Current.prev = line
  BY <1>1, <1>2
<1> QED  BY <1>2, <1>3, <1>4 DEF Linked

LEMMA JudgedKeeps == ASSUME ReadInv, [Next]_vars PROVE Judged'
<1>1. /\ RunInv /\ Order /\ Judged
      /\ verdict \in [OracleSet \union {"scenario"} -> Verdicts]
  BY DEF ReadInv, RunInv, AuditInv, StageOK
<1>2. CASE Early
  <2>1. \A s \in OracleSet \union {"scenario"} : verdict[s] = "none"
    BY <1>1, <1>2 DEF Early, Order, Rank, OracleSet, Following
  <2>2. \A s \in {"transcript", "audit", "exactly_once", "frontier", "resource", "scenario"} :
          verdict'[s] = "none"
    BY <1>2, <2>1 DEF Early, OracleSet, Following
  <2> QED  BY <2>2 DEF Judged
<1>3. CASE ReadTranscript \/ ReadAudit \/ ReadReport \/ ReadFrontier
  <2>1. UNCHANGED <<runVars, verdict>>
    BY <1>3 DEF ReadTranscript, ReadAudit, ReadReport, ReadFrontier, NextLine
  <2>2. \A s \in OracleSet : stage = s => verdict[s] = "none"
    BY <1>1 DEF Order, Rank, OracleSet, Following
  <2>3. /\ verdict["transcript"] = "none" \/ UNCHANGED <<matched, forbiddenHit>>
        /\ verdict["exactly_once"] = "none" \/ UNCHANGED counts
        /\ verdict["frontier"] = "none" \/ UNCHANGED revisions
    BY <1>3, <2>2 DEF ReadTranscript, ReadAudit, ReadReport, ReadFrontier, Reading,
                      OracleSet, Following
  <2> QED  BY <1>1, <2>1, <2>3 DEF Judged, runVars
<1>4. ASSUME NEW s \in OracleSet, NEW v \in Verdicts, stage = s, Concludes(v),
             s = "transcript" => v = IF forbiddenHit \/ matched < Len(Required) THEN "FAIL" ELSE "PASS",
             s = "audit" => v \in {"PASS", "FAIL"}
                            /\ (v = "FAIL" => {"torn", "damaged"} \intersect faults # {}),
             s = "exactly_once" =>
               v = IF counts.duplicates + counts.conflicts > 0 THEN "FAIL" ELSE "PASS",
             s = "frontier" => v = IF /\ Dispatches(Required) # 0
                                      /\ Cardinality(revisions) < Dispatches(Required) + 1
                                   THEN "FAIL" ELSE "PASS",
             s = "resource" =>
               v = IF preserved THEN "OVER_BUDGET" ELSE IF children > 0 THEN "FAIL" ELSE "PASS"
      PROVE  Judged'
  <2>1. /\ UNCHANGED <<faults, preserved, children, matched, forbiddenHit, counts, revisions>>
        /\ verdict' = [verdict EXCEPT ![s] = v]
    BY <1>4 DEF Concludes, Conclude, runVars, readVars
  <2>2. /\ \A t \in OracleSet : verdict'[t] = IF t = s THEN v ELSE verdict[t]
        /\ verdict'["scenario"] = "none"
    BY <1>1, <1>4, <2>1 DEF Order, OracleSet, Following
  <2> QED  BY <1>1, <1>4, <2>1, <2>2 DEF Judged, OracleSet, Following
<1>5. CASE TranscriptVerdict \/ ReportVerdict \/ FrontierVerdict \/ ResourceVerdict \/ AuditVerdict \/ BrokenAudit
  <2>1. CASE BrokenAudit
    <3>1. stage = "audit" /\ Concludes("FAIL")
      BY <2>1 DEF BrokenAudit, Reading, Concludes, Verdicts, OracleSet, Following
    <3> QED  BY <1>1, <1>4, <2>1, <3>1, IntactIsLinked DEF OracleSet, Following, Verdicts
  <2>2. CASE AuditVerdict
    <3>1. stage = "audit" /\ Concludes("PASS")
      BY <2>2 DEF AuditVerdict, AtEnd, Concludes, Verdicts, OracleSet, Following
    <3> QED  BY <1>4, <3>1 DEF OracleSet, Following, Verdicts
  <2>3. CASE TranscriptVerdict
    <3> DEFINE v == IF forbiddenHit \/ matched < Len(Required) THEN "FAIL" ELSE "PASS"
    <3>1. stage = "transcript" /\ Concludes(v) /\ v \in Verdicts
      BY <2>3 DEF TranscriptVerdict, AtEnd, Concludes, Verdicts, OracleSet, Following
    <3> QED  BY <1>4, <3>1 DEF OracleSet, Following
  <2>4. CASE ReportVerdict
    <3> DEFINE v == IF counts.duplicates + counts.conflicts > 0 THEN "FAIL" ELSE "PASS"
    <3>1. stage = "exactly_once" /\ Concludes(v) /\ v \in Verdicts
      BY <2>4 DEF ReportVerdict, AtEnd, Concludes, Verdicts, OracleSet, Following
    <3> QED  BY <1>4, <3>1 DEF OracleSet, Following
  <2>5. CASE FrontierVerdict
    <3> DEFINE v == IF /\ Dispatches(Required) # 0
                       /\ Cardinality(revisions) < Dispatches(Required) + 1
                    THEN "FAIL" ELSE "PASS"
    <3>1. stage = "frontier" /\ Concludes(v) /\ v \in Verdicts
      BY <2>5 DEF FrontierVerdict, AtEnd, Concludes, Verdicts, OracleSet, Following
    <3> QED  BY <1>4, <3>1 DEF OracleSet, Following
  <2>6. CASE ResourceVerdict
    <3> DEFINE v == IF preserved THEN "OVER_BUDGET" ELSE IF children > 0 THEN "FAIL" ELSE "PASS"
    <3>1. stage = "resource" /\ Concludes(v) /\ v \in Verdicts
      BY <2>6 DEF ResourceVerdict, Concludes, Verdicts, OracleSet, Following
    <3> QED  BY <1>4, <3>1 DEF OracleSet, Following
  <2> QED  BY <1>5, <2>1, <2>2, <2>3, <2>4, <2>5, <2>6
<1>6. CASE Aggregate
  <2> DEFINE given == {verdict[s] : s \in OracleSet}
             total == IF "FAIL" \in given THEN "FAIL"
                      ELSE IF "OVER_BUDGET" \in given THEN "OVER_BUDGET" ELSE "PASS"
  <2>1. verdict' = [verdict EXCEPT !["scenario"] = total] /\ UNCHANGED <<runVars, readVars>>
    BY <1>6 DEF Aggregate
  <2>2. \A s \in OracleSet : verdict'[s] = verdict[s]
    BY <1>1, <2>1 DEF OracleSet, Following
  <2>3. verdict'["scenario"] = total /\ given' = given
    BY <1>1, <2>1, <2>2
  <2> QED  BY <1>1, <2>1, <2>2, <2>3 DEF Judged, runVars, readVars, OracleSet, Following
<1>7. CASE UNCHANGED vars
  BY <1>1, <1>7 DEF vars, runVars, readVars, Judged
<1>8. CASE \/ \E kind \in Kinds : Emit(kind)
           \/ \E op \in undelivered : Deliver(op)
           \/ Redeliver \/ Leak \/ Finish \/ Damage \/ Begin
  BY <1>2, <1>8 DEF Early, Emit, Deliver, Redeliver, Leak, Finish, Damage, Begin, Running
<1> QED  BY <1>3, <1>5, <1>6, <1>7, <1>8 DEF Next, Oracle

LEMMA NextRead == ReadInv /\ [Next]_vars => ReadInv'
<1> SUFFICES ASSUME ReadInv, [Next]_vars PROVE ReadInv'
  OBVIOUS
<1>1. RunInv'
  BY NextRun DEF ReadInv
<1>2. expectedPrev' \in Nat \union {Edited}
  <2>1. CASE ReadAudit
    <3>1. /\ expectedPrev' = audit[line + 1].hash /\ audit[line + 1] # Torn
          /\ line \in Nat /\ line < Len(audit) /\ audit \in Seq(Lines)
      BY <2>1 DEF ReadAudit, Linked, Current, Reading, Stream, ReadInv, RunInv, AuditInv,
                  StageOK, Genuine
    <3>2. audit[line + 1] \in AuditLine
      BY <3>1 DEF Lines
    <3> QED  BY <3>1, <3>2 DEF AuditLine
  <2>2. CASE ~ReadAudit
    <3>1. UNCHANGED expectedPrev
      BY <2>2, StepKinds DEF ReadInv, Early, ReadTranscript, ReadReport, ReadFrontier,
                             Concludes, Conclude, Aggregate, vars, readVars
    <3> QED  BY <3>1 DEF ReadInv
  <2> QED  BY <2>1, <2>2
<1> QED  BY <1>1, <1>2, OrderKeeps, JudgedKeeps, TranscriptKeeps, ReportsKeep, FrontierKeeps
         DEF ReadInv

-----------------------------------------------------------------------------
(* The theorems. *)

\* A log the audit oracle passes is a genuine beginning of what the supervisor
\* wrote, for every scenario, every length of the run and every damage.
THEOREM AuditPass == Spec => []AuditPassIsPrefix
<1>1. AuditInv => AuditPassIsPrefix
  BY DEF AuditInv, AuditPassIsPrefix, Chained, Genuine
<1> QED  BY <1>1, InitAudit, NextAudit, PTL DEF Spec

\* The inductive invariant holds: what each oracle knows after the lines it has
\* read is what there is to know of them.
THEOREM ReadInvariant == Spec => []ReadInv
  BY InitRead, NextRead, PTL DEF Spec

\* What an oracle has read lies within its stream, and is all of it when it
\* has spoken.
LEMMA ReadWithin ==
  ASSUME ReadInv, NEW s \in {"transcript", "exactly_once", "frontier"}
  PROVE  /\ ReadOf(s, Len(Stream(s))) \in 0..Len(Stream(s))
         /\ verdict[s] # "none" => ReadOf(s, Len(Stream(s))) = Len(Stream(s))
<1>1. line \in Nat /\ line <= Len(Stream(stage)) /\ s \in OracleSet
  BY DEF ReadInv, RunInv, AuditInv, StageOK, Order, OracleSet, Following
<1>2. Len(Stream(s)) \in Nat
  BY DEF Stream, ReadInv, RunInv, StreamTypes
<1>3. verdict[s] # "none" => ~(Rank[stage] <= Rank[s])
  BY <1>1 DEF ReadInv, Order
<1>4. stage \in DOMAIN Rank
  BY DEF ReadInv, RunInv, AuditInv, StageOK, OracleSet, Following, Rank
<1>5. verdict[s] # "none" => ~(Rank[stage] < Rank[s]) /\ stage # s
  BY <1>3, <1>4 DEF Rank
<1> QED  BY <1>1, <1>2, <1>5 DEF ReadOf

\* Types, and that an oracle never reads past its stream nor counts more than
\* the report log holds.
THEOREM TypeCorrect == Spec => []TypeOK
<1>1. ASSUME ReadInv PROVE TypeOK
  <2>1. StreamTypes /\ AuditInv /\ StageOK /\ Order
    BY <1>1 DEF ReadInv, RunInv, AuditInv
  <2>2. /\ ReadOf("transcript", Len(transcript)) \in 0..Len(transcript)
        /\ ReadOf("exactly_once", Len(reports)) \in 0..Len(reports)
        /\ ReadOf("frontier", Len(frontier)) \in 0..Len(frontier)
    BY <1>1, ReadWithin DEF Stream
  <2>3. Delivery \subseteq Report
    BY BoundsAssumption DEF Delivery, Report
  <2>4. /\ transcript \in Seq(Kinds \union {Torn})
        /\ audit \in Seq(AuditLine \union {Torn})
        /\ frontier \in Seq(Nat \union {Torn}) /\ Len(reports) <= MaxReports
        /\ undelivered \subseteq 1..MaxEvents
    BY <2>1 DEF StreamTypes, AuditInv, Genuine, Lines
  <2>5. reports \in Seq(Report \union {Torn})
    BY <2>1, <2>3, SeqMonotonic DEF StreamTypes
  <2>6. line \in 0..Len(Stream(stage))
    BY <2>1 DEF StageOK, Order
  <2>7. matched \in 0..Len(Required) /\ forbiddenHit \in BOOLEAN
    BY <1>1 DEF ReadInv, TranscriptAt
  <2>8. seen \subseteq 1..MaxEvents
    <3> PICK n \in 0..Len(reports) : n = ReadOf("exactly_once", Len(reports))
      BY <2>2
    <3>1. seen = AcceptedTo(n)
      BY <1>1 DEF ReadInv, ReportsAt
    <3>2. \A i \in KeyedTo(n) : reports[i] \in Delivery
      BY <2>1 DEF KeyedTo, StreamTypes
    <3> QED  BY <3>1, <3>2 DEF AcceptedTo, Delivery
  <2>9. counts \in [{"accepted", "duplicates", "conflicts"} -> 0..MaxReports]
    <3>1. /\ counts \in [{"accepted", "duplicates", "conflicts"} -> Nat]
          /\ counts.accepted + counts.duplicates + counts.conflicts <= Len(reports)
      BY <1>1, <2>1, <2>2 DEF ReadInv, ReportsAt, StreamTypes
    <3>2. \A k \in {"accepted", "duplicates", "conflicts"} : counts[k] \in 0..MaxReports
      BY <2>1, <3>1, BoundsAssumption DEF StreamTypes
    <3> QED  BY <3>1, <3>2
  <2>10. revisions \subseteq Nat
    <3> PICK n \in 0..Len(frontier) : n = ReadOf("frontier", Len(frontier))
      BY <2>2
    <3>1. revisions = {frontier[i] : i \in {j \in 1..n : frontier[j] # Torn}}
      BY <1>1 DEF ReadInv, FrontierAt
    <3> QED  BY <2>1, <3>1 DEF StreamTypes
  <2>11. /\ written \in Nat /\ children \in {0, 1} /\ preserved \in BOOLEAN
         /\ faults \subseteq {"unkeyed", "redelivered", "leaked", "torn", "damaged"}
         /\ stage \in OracleSet \union {"running", "written", "done"}
         /\ verdict \in [OracleSet \union {"scenario"} -> Verdicts]
         /\ expectedPrev \in Nat \union {Edited}
    BY <1>1, <2>1 DEF StreamTypes, AuditInv, StageOK, ReadInv
  <2> QED  BY <2>4, <2>5, <2>6, <2>7, <2>8, <2>9, <2>10, <2>11 DEF TypeOK
<1> QED  BY <1>1, ReadInvariant, PTL

LEMMA ExactlyOnce == ReadInv => ExactlyOnceIsExact
<1> SUFFICES ASSUME ReadInv, verdict["exactly_once"] # "none"
             PROVE  /\ verdict["exactly_once"] = "PASS" <=>
                         /\ \A i \in KeyedReports : reports[i].outcome = "accepted"
                         /\ \A i, j \in KeyedReports :
                              reports[i].operation = reports[j].operation => i = j
                    /\ counts.accepted =
                         Cardinality({reports[i].operation :
                            i \in {j \in KeyedReports : reports[j].outcome = "accepted"}})
  BY DEF ExactlyOnceIsExact
<1>1. ReadOf("exactly_once", Len(reports)) = Len(reports)
  BY ReadWithin DEF Stream
<1>2. ReportsAt(Len(reports))
  BY <1>1 DEF ReadInv
<1>3. KeyedTo(Len(reports)) = KeyedReports
  BY DEF ReadInv, RunInv, StreamTypes, KeyedTo, KeyedReports
<1>4. verdict["exactly_once"] = IF counts.duplicates + counts.conflicts > 0 THEN "FAIL" ELSE "PASS"
  BY DEF ReadInv, Judged
<1>5. /\ counts.duplicates \in Nat /\ counts.conflicts \in Nat
      /\ counts.duplicates + counts.conflicts = 0 <=> CleanTo(Len(reports))
      /\ counts.accepted = Cardinality(AcceptedTo(Len(reports)))
  BY <1>2 DEF ReportsAt
<1>6. verdict["exactly_once"] = "PASS" <=> CleanTo(Len(reports))
  BY <1>4, <1>5
<1> QED  BY <1>3, <1>5, <1>6 DEF CleanTo, AcceptedTo

\* The exactly-once oracle fails exactly the logs with a conflict or with two
\* keyed reports of one operation, for logs of any length.
THEOREM ExactlyOnceExact == Spec => []ExactlyOnceIsExact
  BY ExactlyOnce, ReadInvariant, PTL

\* Once the scenario is judged every oracle has spoken.
LEMMA AllSpoke ==
  ASSUME ReadInv, verdict["scenario"] # "none"
  PROVE  /\ \A s \in OracleSet : verdict[s] # "none"
         /\ verdict["scenario"] = "PASS" <=> \A s \in OracleSet : verdict[s] = "PASS"
<1>1. \A s \in OracleSet : verdict[s] # "none"
  BY DEF ReadInv, Order, Rank, OracleSet, Following
<1>2. \A s \in OracleSet : verdict[s] \in Verdicts
  BY DEF ReadInv, RunInv, AuditInv, StageOK
<1>3. verdict["scenario"] =
        IF "FAIL" \in {verdict[s] : s \in OracleSet} THEN "FAIL"
        ELSE IF "OVER_BUDGET" \in {verdict[s] : s \in OracleSet} THEN "OVER_BUDGET" ELSE "PASS"
  BY DEF ReadInv, Judged
<1>4. verdict["scenario"] = "PASS" <=>
        \A s \in OracleSet : verdict[s] # "FAIL" /\ verdict[s] # "OVER_BUDGET"
  BY <1>3
<1> QED  BY <1>1, <1>2, <1>4 DEF Verdicts

\* As many revisions as the frontier log has lines at most.
LEMMA RevisionsBounded ==
  ASSUME ReadInv
  PROVE  /\ IsFiniteSet(revisions) /\ Cardinality(revisions) <= Len(frontier)
         /\ verdict["frontier"] # "none" /\ Whole => Cardinality(revisions) = Len(frontier)
<1>1. /\ frontier \in Seq(Nat \union {Torn}) /\ DOMAIN frontier = 1..Len(frontier)
      /\ Len(frontier) \in Nat
      /\ \A i \in DOMAIN frontier : frontier[i] \in {i - 1, Torn}
  BY DEF ReadInv, RunInv, StreamTypes
<1>2. PICK n \in 0..Len(frontier) :
        /\ n = ReadOf("frontier", Len(frontier))
        /\ verdict["frontier"] # "none" => n = Len(frontier)
  BY ReadWithin DEF Stream
<1>3. revisions = {frontier[i] : i \in {j \in 1..n : frontier[j] # Torn}}
  BY <1>2 DEF ReadInv, FrontierAt
<1>4. IsFiniteSet(0..(Len(frontier) - 1)) /\ Cardinality(0..(Len(frontier) - 1)) = Len(frontier)
  <2> DEFINE last == Len(frontier) - 1
  <2>1. last \in Int /\ Len(frontier) = last + 1 /\ last + 1 \in Nat
    BY <1>1
  <2> HIDE DEF last
  <2>2. IsFiniteSet(0..last) /\ Cardinality(0..last) = IF 0 > last THEN 0 ELSE last - 0 + 1
    BY <2>1, FS_Interval
  <2>3. Cardinality(0..last) = last + 1
    BY <2>1, <2>2
  <2> QED  BY <2>1, <2>2, <2>3 DEF last
<1>5. revisions \in SUBSET (0..(Len(frontier) - 1))
  BY <1>1, <1>2, <1>3
<1>6. IsFiniteSet(revisions) /\ Cardinality(revisions) <= Len(frontier)
  BY <1>4, <1>5, FS_Subset
<1>7. ASSUME verdict["frontier"] # "none", Whole
      PROVE  revisions = 0..(Len(frontier) - 1)
  <2>1. n = Len(frontier) /\ \A i \in 1..n : frontier[i] = i - 1
    BY <1>1, <1>2, <1>7 DEF ReadInv, RunInv, FrontierKept
  <2>2. \A k \in 0..(Len(frontier) - 1) : k + 1 \in 1..n /\ frontier[k + 1] = k /\ k # Torn
    BY <1>1, <2>1, KindsAssumption
  <2>3. \A k \in 0..(Len(frontier) - 1) : k \in revisions
    <3> TAKE k \in 0..(Len(frontier) - 1)
    <3>1. k + 1 \in {j \in 1..n : frontier[j] # Torn} /\ frontier[k + 1] = k
      BY <2>2
    <3> QED  BY <1>3, <3>1
  <2> QED  BY <1>5, <2>3
<1> QED  BY <1>4, <1>6, <1>7

\* What the exactly-once oracle says of a log that was written whole.
LEMMA DuplicatesAreSeen ==
  ASSUME ReadInv, verdict["exactly_once"] = "PASS", Whole, "unkeyed" \notin faults
  PROVE  "redelivered" \notin faults
<1> SUFFICES ASSUME "redelivered" \in faults PROVE FALSE
  OBVIOUS
<1>1. KeyedReports = DOMAIN reports
  BY DEF ReadInv, RunInv, ReportsKept, KeyedReports
<1>2. \E i, j \in DOMAIN reports : i # j /\ reports[i].operation = reports[j].operation
  BY DEF ReadInv, RunInv, ReportsKept
<1>3. \A i, j \in KeyedReports : reports[i].operation = reports[j].operation => i = j
  BY ExactlyOnce DEF ExactlyOnceIsExact
<1> QED  BY <1>1, <1>2, <1>3

LEMMA PassClean == ReadInv => PassMeansClean
<1> SUFFICES ASSUME ReadInv, verdict["scenario"] = "PASS"
             PROVE  /\ "leaked" \notin faults
                    /\ Dispatches(Required) > 0 => Len(frontier) - 1 >= Dispatches(Required)
                    /\ "redelivered" \in faults => {"unkeyed", "torn"} \intersect faults # {}
                    /\ "damaged" \in faults =>
                         Len(audit) < written \/ audit[Len(audit)].hash = Edited
  BY DEF PassMeansClean
<1>1. /\ verdict["audit"] = "PASS" /\ verdict["exactly_once"] = "PASS"
      /\ verdict["frontier"] = "PASS" /\ verdict["resource"] = "PASS"
  BY AllSpoke DEF OracleSet, Following
<1>2. "leaked" \notin faults
  <2>1. verdict["resource"] = IF preserved THEN "OVER_BUDGET" ELSE IF children > 0 THEN "FAIL" ELSE "PASS"
    BY <1>1 DEF ReadInv, Judged
  <2>2. ~(children > 0)
    BY <1>1, <2>1
  <2> QED  BY <2>2 DEF ReadInv, RunInv, StreamTypes
<1>3. Dispatches(Required) > 0 => Len(frontier) - 1 >= Dispatches(Required)
  <2>1. Dispatches(Required) # 0 => ~(Cardinality(revisions) < Dispatches(Required) + 1)
    BY <1>1 DEF ReadInv, Judged
  <2>2. Cardinality(revisions) \in Nat /\ Cardinality(revisions) <= Len(frontier) /\ Len(frontier) \in Nat
    BY RevisionsBounded, FS_CardinalityType DEF ReadInv, RunInv, StreamTypes
  <2>3. Dispatches(Required) \in Nat
    BY ScenarioAssumption, KindsAssumption, DispatchesAppend
  <2> QED  BY <2>1, <2>2, <2>3
<1>4. "redelivered" \in faults => {"unkeyed", "torn"} \intersect faults # {}
  BY <1>1, DuplicatesAreSeen DEF Whole
<1>5. ASSUME "damaged" \in faults, ~(Len(audit) < written)
      PROVE  audit[Len(audit)].hash = Edited
  <2>1. PICK i \in DOMAIN audit : audit[i].hash = Edited
    BY <1>5 DEF ReadInv, RunInv, AuditKept
  <2>2. Chained(audit, Len(audit)) /\ audit \in Seq(Lines)
    BY <1>1 DEF ReadInv, RunInv, AuditInv, Genuine
  <2>3. ~(i < Len(audit))
    BY <2>1, <2>2 DEF Chained, Edited
  <2>4. i = Len(audit)
    BY <2>2, <2>3
  <2> QED  BY <2>1, <2>4
<1> QED  BY <1>2, <1>3, <1>4, <1>5

\* A scenario that passes left nothing behind, delivered what it requires, and
\* nothing twice, and its audit log is intact, for any scenario and run.
THEOREM CleanPass == Spec => []PassMeansClean
  BY PassClean, ReadInvariant, PTL

\* Nothing the scenario requires is forbidden.
Meetable == \A i \in DOMAIN Required : Required[i] \notin Forbidden

\* A healthy run gives no oracle a reason to fail.
LEMMA HealthyPass == ASSUME Meetable PROVE ReadInv => HealthyPasses
<1> SUFFICES ASSUME ReadInv, verdict["scenario"] # "none", faults = {}, ~preserved,
                    transcript = Required, undelivered = {}
             PROVE  verdict["scenario"] = "PASS"
  BY DEF HealthyPasses
<1>1. \A s \in OracleSet : verdict[s] # "none"
  BY AllSpoke
<1>2. /\ verdict["transcript"] # "none" /\ verdict["audit"] # "none"
      /\ verdict["exactly_once"] # "none" /\ verdict["frontier"] # "none"
      /\ verdict["resource"] # "none"
  BY <1>1 DEF OracleSet, Following
<1>3. Whole /\ "redelivered" \notin faults /\ "unkeyed" \notin faults /\ "leaked" \notin faults
  BY DEF Whole
<1>4. verdict["transcript"] = "PASS"
  <2> PICK n : n = Len(transcript) /\ TranscriptAt(n)
    BY <1>2, ReadWithin DEF ReadInv, Stream
  <2>1. matched = Len(Required) /\ Len(Required) \in Nat
    BY ScenarioAssumption DEF TranscriptAt
  <2>2. ~\E i \in 1..n : transcript[i] \in Forbidden
    BY ScenarioAssumption DEF Meetable
  <2>3. ~forbiddenHit
    BY <2>2 DEF TranscriptAt
  <2> QED  BY <1>2, <2>1, <2>3 DEF ReadInv, Judged
<1>5. verdict["audit"] = "PASS"
  BY <1>2 DEF ReadInv, Judged
<1>6. verdict["exactly_once"] = "PASS"
  <2>1. /\ \A i \in DOMAIN reports : reports[i].outcome = "accepted"
        /\ \A i, j \in DOMAIN reports : reports[i].operation = reports[j].operation => i = j
    BY <1>3 DEF ReadInv, RunInv, ReportsKept
  <2>2. KeyedReports \subseteq DOMAIN reports
    BY DEF KeyedReports
  <2> QED  BY <1>2, <2>1, <2>2, ExactlyOnce DEF ExactlyOnceIsExact
<1>7. verdict["frontier"] = "PASS"
  <2>1. Cardinality(revisions) = Len(frontier)
    BY <1>2, <1>3, RevisionsBounded
  <2>2. Len(frontier) - 1 = Dispatches(Required)
    <3>1. Len(frontier) - 1 + Cardinality({}) = Dispatches(Required) /\ Len(frontier) \in Nat
      BY <1>3 DEF ReadInv, RunInv, FrontierKept, StreamTypes
    <3> QED  BY <3>1, FS_EmptySet
  <2>3. Len(frontier) \in Nat
    BY DEF ReadInv, RunInv, StreamTypes
  <2>4. ~(Cardinality(revisions) < Dispatches(Required) + 1)
    BY <2>1, <2>2, <2>3
  <2> QED  BY <1>2, <2>4 DEF ReadInv, Judged
<1>8. verdict["resource"] = "PASS"
  <2>1. children = 0
    BY <1>3 DEF ReadInv, RunInv, StreamTypes
  <2> QED  BY <1>2, <2>1 DEF ReadInv, Judged
<1> QED  BY <1>4, <1>5, <1>6, <1>7, <1>8, AllSpoke DEF OracleSet, Following

\* No false alarm: a run of exactly the required events with nothing gone wrong
\* passes every oracle, for every scenario that forbids none of what it requires.
THEOREM NoFalseAlarm == ASSUME Meetable PROVE Spec => []HealthyPasses
  BY HealthyPass, ReadInvariant, PTL

\* The required events from the second on, shown in a row by the positions at.
LEMMA RowShows ==
  ASSUME ReadInv, Required # <<>>, NEW n, n = Len(transcript), TranscriptAt(n),
         matched = Len(Required)
  PROVE  InARow(Tail(Required), transcript)
<1> DEFINE l == Len(Required)
           part == Tail(Required)
<1>1. /\ l \in Nat \ {0} /\ DOMAIN part = 1..(l - 1) /\ \A i \in 1..(l - 1) : part[i] = Required[i + 1]
      /\ DOMAIN transcript = 1..n /\ n \in Nat
  BY ScenarioAssumption DEF ReadInv, RunInv, StreamTypes
<1>2. CASE l = 1
  <2>1. DOMAIN part = {}
    BY <1>1, <1>2
  <2> DEFINE at == [i \in DOMAIN part |-> i]
  <2>2. at \in [DOMAIN part -> DOMAIN transcript]
    BY <2>1
  <2> HIDE DEF part
  <2>3. InARow(part, transcript)
    BY <2>1, <2>2 DEF InARow
  <2> QED  BY <2>3 DEF part
<1>3. CASE l >= 2
  <2>1. PICK old \in [2..l -> 1..n] : Row(old, l, n)
    BY <1>3 DEF TranscriptAt
  <2> DEFINE at == [i \in 1..(l - 1) |-> old[i + 1]]
  <2>2. at \in [DOMAIN part -> DOMAIN transcript] /\ \A i \in 1..(l - 1) : at[i] = old[i + 1]
    BY <1>1, <2>1
  <2> HIDE DEF at, l, part
  <2>3. \A i \in DOMAIN part : transcript[at[i]] = part[i]
    <3>1. \A i \in 2..l : transcript[old[i]] = Required[i]
      BY <2>1 DEF Row
    <3>2. \A i \in 1..(l - 1) : i + 1 \in 2..l
      BY <1>1
    <3> QED  BY <1>1, <2>2, <3>1, <3>2
  <2>4. \A i, j \in 2..l : i < j => old[i] < old[j]
    BY <2>1 DEF Row
  <2>5. \A i, j \in DOMAIN part : i < j => at[i] < at[j]
    BY <1>1, <2>2, <2>4
  <2>6. \A i \in 2..l : old[i] \in Nat /\ old[2] <= old[i] /\ old[i] <= old[l]
    <3> TAKE i \in 2..l
    <3>1. old[2] \in 1..n /\ old[i] \in 1..n /\ old[l] \in 1..n
      BY <1>1, <1>3, <2>1
    <3>2. i = 2 \/ old[2] < old[i]
      BY <1>1, <1>3, <2>4
    <3>3. i = l \/ old[i] < old[l]
      BY <1>1, <1>3, <2>4
    <3> QED  BY <3>1, <3>2, <3>3, <1>1
  <2>7. ASSUME NEW k \in DOMAIN transcript, NEW i \in DOMAIN part, NEW j \in DOMAIN part,
               at[i] < k, k < at[j], transcript[k] # Torn
        PROVE  \E m \in DOMAIN part : at[m] = k
    <3>1. /\ i + 1 \in 2..l /\ j + 1 \in 2..l /\ at[i] = old[i + 1] /\ at[j] = old[j + 1]
          /\ k \in 1..n
      BY <1>1, <2>2
    <3>2. old[2] < k /\ k < old[l]
      <4>1. /\ old[i + 1] \in Nat /\ old[2] <= old[i + 1] /\ old[2] \in Nat
            /\ old[j + 1] \in Nat /\ old[j + 1] <= old[l] /\ old[l] \in Nat
        BY <1>1, <1>3, <2>6, <3>1
      <4> QED  BY <1>1, <2>7, <3>1, <4>1
    <3>3. PICK m \in 2..l : old[m] = k
      BY <2>1, <2>7, <3>1, <3>2 DEF Row
    <3>4. m - 1 \in DOMAIN part /\ at[m - 1] = k
      BY <1>1, <2>2, <3>3
    <3> QED  BY <3>4
  <2> QED  BY <2>2, <2>3, <2>5, <2>7 DEF InARow, part
<1> QED  BY <1>1, <1>2, <1>3

LEMMA PassTail == ReadInv => PassShowsTail
<1> SUFFICES ASSUME ReadInv, verdict["transcript"] = "PASS"
             PROVE  /\ \A i \in DOMAIN transcript : transcript[i] \notin Forbidden
                    /\ Required # <<>> => InARow(Tail(Required), transcript)
  BY DEF PassShowsTail
<1>1. ~forbiddenHit /\ ~(matched < Len(Required))
  BY DEF ReadInv, Judged
<1> PICK n : n = Len(transcript) /\ TranscriptAt(n)
  BY ReadWithin DEF ReadInv, Stream
<1>2. DOMAIN transcript = 1..n
  BY DEF ReadInv, RunInv, StreamTypes
<1>3. matched = Len(Required)
  BY <1>1, ScenarioAssumption DEF TranscriptAt
<1>4. \A i \in DOMAIN transcript : transcript[i] \notin Forbidden
  BY <1>1, <1>2 DEF TranscriptAt
<1> QED  BY <1>3, <1>4, RowShows

\* What a transcript that passes does show, for any required sequence: not the
\* whole of it, but from its second event on, in a row.
THEOREM TailShown == Spec => []PassShowsTail
  BY PassTail, ReadInvariant, PTL
=============================================================================
