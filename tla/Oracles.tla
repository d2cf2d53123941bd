------------------------------ MODULE Oracles ------------------------------
(***************************************************************************)
(* The five oracles of the verify-simulation harness and the verdict       *)
(* run_scenario makes of them.                                             *)
(*                                                                         *)
(* A simulated supervisor runs a scenario and leaves four streams behind:  *)
(* a transcript, a hash-chained audit log, a report log and a frontier     *)
(* log.  It can crash in the middle of a line, deliver a report twice and  *)
(* leak a child; the audit log can be damaged afterwards.  The oracles     *)
(* then read the streams, one line per step, in the order of the code.     *)
(*                                                                         *)
(* A hash is the number of the line it is the hash of: equal exactly for   *)
(* equal text.  The transcript oracle is the scan in _fallback_oracle,     *)
(* which is what runs outside pi_monitor's own test tree.                  *)
(***************************************************************************)
EXTENDS Integers, Sequences, FiniteSets

CONSTANTS
  Kinds,      \* event kinds of a transcript
  Required,   \* required_event_subsequence of the scenario
  Forbidden,  \* forbidden_events of the scenario
  Torn,       \* a line that is no JSON
  MaxEvents,  \* bound: events of a run
  MaxReports  \* bound: lines of the report log

ASSUME ScenarioAssumption == Required \in Seq(Kinds) /\ Forbidden \subseteq Kinds
ASSUME KindsAssumption == "dispatch" \in Kinds /\ Torn \notin Kinds \union Nat
ASSUME BoundsAssumption == MaxEvents \in Nat /\ MaxReports \in Nat

VARIABLES
  transcript, audit, reports, frontier,  \* the streams
  undelivered,  \* dispatched operations whose report is still out
  written,      \* audit lines the supervisor wrote
  children,     \* child processes left over
  preserved,    \* the temp root was kept for inspection
  faults,       \* what went wrong in the run
  stage,        \* "running", "written", the oracle at work, or "done"
  line,         \* lines of the stage's stream read so far
  matched,      \* transcript: events of Required ticked off
  forbiddenHit, \* transcript: a forbidden event was seen
  expectedPrev, \* audit: the hash the next line must carry
  seen,         \* exactly_once: keys seen
  counts,       \* exactly_once: accepted, duplicates, conflicts
  revisions,    \* frontier: revisions seen
  verdict       \* per oracle, and of the scenario

streamVars == <<transcript, audit, reports, frontier>>
runVars    == <<streamVars, undelivered, written, children, preserved, faults>>
readVars   == <<matched, forbiddenHit, expectedPrev, seen, counts, revisions>>
vars == <<runVars, stage, line, readVars, verdict>>

Genesis == 0       \* _AUDIT_GENESIS_HASH
Edited  == -1      \* the hash of a line whose text was changed

\* The oracles in the order they run, each with what comes after it.
Following == [transcript |-> "audit", audit |-> "exactly_once",
              exactly_once |-> "frontier", frontier |-> "resource", resource |-> "done"]
OracleSet == DOMAIN Following
Verdicts  == {"none", "PASS", "FAIL", "OVER_BUDGET"}

\* An operation is named by its position among the dispatches; a report
\* without an identity has an empty key.
AuditLine == [hash : Nat \union {Edited}, prev : Nat]
Report    == [operation : Nat, keyed : BOOLEAN, outcome : {"accepted", "conflict"}]

ASSUME TornAssumption == Torn \notin AuditLine \union Report

Dispatches(events) ==
  Cardinality({i \in DOMAIN events : events[i] = "dispatch"})

-----------------------------------------------------------------------------
(* The run. *)

Running == stage = "running" /\ UNCHANGED <<stage, line, readVars, verdict>>

\* Every event goes to the transcript and to the audit log.
Emit(kind) ==
  /\ Running /\ Len(transcript) < MaxEvents
  /\ transcript' = Append(transcript, kind)
  /\ written' = written + 1
  /\ audit' = Append(audit, [hash |-> written', prev |-> written])
  /\ undelivered' = IF kind = "dispatch"
                    THEN undelivered \union {Dispatches(transcript')} ELSE undelivered
  /\ UNCHANGED <<reports, frontier, children, preserved, faults>>

\* The outcome of an operation is reported and advances the frontier.
Deliver(operation) ==
  /\ Running /\ operation \in undelivered /\ Len(reports) < MaxReports
  /\ \E keyed \in BOOLEAN :
       /\ reports' = Append(reports, [operation |-> operation, keyed |-> keyed,
                                      outcome |-> "accepted"])
       /\ faults' = IF keyed THEN faults ELSE faults \union {"unkeyed"}
  /\ frontier' = Append(frontier, Len(frontier))
  /\ undelivered' = undelivered \ {operation}
  /\ UNCHANGED <<transcript, audit, written, children, preserved>>

\* The source crashed before it acknowledged the report: it comes again, the
\* same or in conflict with the first.
Redeliver ==
  /\ Running /\ reports # <<>> /\ Len(reports) < MaxReports
  /\ \E outcome \in {"accepted", "conflict"} :
       reports' = Append(reports, [reports[Len(reports)] EXCEPT !.outcome = outcome])
  /\ faults' = faults \union {"redelivered"}
  /\ UNCHANGED <<transcript, audit, frontier, undelivered, written, children, preserved>>

Leak ==
  /\ Running /\ children = 0
  /\ children' = 1
  /\ faults' = faults \union {"leaked"}
  /\ UNCHANGED <<streamVars, undelivered, written, preserved>>

\* The supervisor dies in the middle of the last line of s.
Cut(s) == [s EXCEPT ![Len(s)] = Torn]

\* The run ends, properly or with one stream cut.
Finish ==
  /\ stage = "running"
  /\ preserved' \in BOOLEAN
  /\ \/ UNCHANGED <<streamVars, faults>>
     \/ /\ faults' = faults \union {"torn"}
        /\ \/ /\ transcript # <<>> /\ transcript' = Cut(transcript)
              /\ UNCHANGED <<audit, reports, frontier>>
           \/ /\ audit # <<>> /\ audit' = Cut(audit)
              /\ UNCHANGED <<transcript, reports, frontier>>
           \/ /\ reports # <<>> /\ reports' = Cut(reports)
              /\ UNCHANGED <<transcript, audit, frontier>>
           \/ /\ frontier' = Cut(frontier)
              /\ UNCHANGED <<transcript, audit, reports>>
  /\ stage' = "written"
  /\ UNCHANGED <<undelivered, written, children, line, readVars, verdict>>

\* The audit log loses a line, or one is changed.
Damage ==
  /\ stage = "written" /\ "damaged" \notin faults
  /\ \E i \in DOMAIN audit :
       \/ audit' = SubSeq(audit, 1, i - 1) \o SubSeq(audit, i + 1, Len(audit))
       \/ audit[i] # Torn /\ audit' = [audit EXCEPT ![i].hash = Edited]
  /\ faults' = faults \union {"damaged"}
  /\ UNCHANGED <<transcript, reports, frontier, undelivered, written, children,
                 preserved, stage, line, readVars, verdict>>

-----------------------------------------------------------------------------
(* Reading: one stage per oracle. *)

Stream(s) ==
  CASE s = "transcript"   -> transcript
    [] s = "audit"        -> audit
    [] s = "exactly_once" -> reports
    [] s = "frontier"     -> frontier
    [] OTHER -> <<>>

Begin ==
  /\ stage = "written"
  /\ stage' = "transcript"
  /\ UNCHANGED <<runVars, line, readVars, verdict>>

Conclude_KeepLineMutant(v) ==
  /\ verdict' = [verdict EXCEPT ![stage] = v]
  /\ stage' = Following[stage]
  /\ UNCHANGED <<runVars, line, readVars>>

\* The oracle at work returns v.
Conclude(v) ==
  /\ verdict' = [verdict EXCEPT ![stage] = v]
  /\ stage' = Following[stage]
  /\ line' = 0
  /\ UNCHANGED <<runVars, readVars>>

Reading(s) == stage = s /\ line < Len(Stream(s))
AtEnd(s)   == stage = s /\ line = Len(Stream(s))
Current    == Stream(stage)[line + 1]

\* Reads the current line and stays in the stage.
NextLine ==
  /\ line' = line + 1
  /\ UNCHANGED <<runVars, stage, verdict>>

Tick_AnyMutant(n, kind) ==
  IF n = Len(Required) THEN n ELSE n + 1

\* transcript._fallback_oracle.  On a mismatch the scan starts over and takes
\* the first required event as ticked off, whatever the event at hand is.
Tick(n, kind) ==
  IF n = Len(Required) THEN n
  ELSE IF kind = Required[n + 1] THEN n + 1 ELSE 1

ReadTranscript ==
  /\ Reading("transcript")
  /\ NextLine
  /\ IF Current = Torn THEN UNCHANGED <<matched, forbiddenHit>>
     ELSE /\ forbiddenHit' = (forbiddenHit \/ Current \in Forbidden)
          /\ matched' = Tick(matched, Current)
  /\ UNCHANGED <<expectedPrev, seen, counts, revisions>>

TranscriptVerdict ==
  /\ AtEnd("transcript")
  /\ Conclude(IF forbiddenHit \/ matched < Len(Required) THEN "FAIL" ELSE "PASS")

\* audit_oracle: every line carries the hash of the line before it.
Linked == Current # Torn /\ Current.prev = expectedPrev

ReadAudit_NoLinkMutant ==
  /\ Reading("audit") /\ Current # Torn
  /\ NextLine
  /\ expectedPrev' = Current.hash
  /\ UNCHANGED <<matched, forbiddenHit, seen, counts, revisions>>

ReadAudit_StaleHashMutant ==
  /\ Reading("audit") /\ Linked
  /\ NextLine
  /\ UNCHANGED <<matched, forbiddenHit, expectedPrev, seen, counts, revisions>>

ReadAudit ==
  /\ Reading("audit") /\ Linked
  /\ NextLine
  /\ expectedPrev' = Current.hash
  /\ UNCHANGED <<matched, forbiddenHit, seen, counts, revisions>>

BrokenAudit == Reading("audit") /\ ~Linked /\ Conclude("FAIL")

AuditVerdict == AtEnd("audit") /\ Conclude("PASS")

\* exactly_once_oracle: a keyed report is accepted, a duplicate or a conflict.
Counted == Current # Torn /\ Current.keyed

Count(report, known) ==
  CASE report.outcome = "conflict" -> "conflicts"
    [] report.outcome # "conflict" /\ report.operation \in known -> "duplicates"
    [] OTHER -> "accepted"

ReadReport_ForgetKeyMutant ==
  /\ Reading("exactly_once")
  /\ NextLine
  /\ IF ~Counted THEN UNCHANGED <<seen, counts>>
     ELSE /\ counts' = [counts EXCEPT ![Count(Current, {})] = @ + 1]
          /\ seen' = seen \union {Current.operation}
  /\ UNCHANGED <<matched, forbiddenHit, expectedPrev, revisions>>

ReadReport ==
  /\ Reading("exactly_once")
  /\ NextLine
  /\ IF ~Counted THEN UNCHANGED <<seen, counts>>
     ELSE /\ counts' = [counts EXCEPT ![Count(Current, seen)] = @ + 1]
          /\ seen' = IF Current.outcome = "conflict" THEN seen
                     ELSE seen \union {Current.operation}
  /\ UNCHANGED <<matched, forbiddenHit, expectedPrev, revisions>>

ReportVerdict ==
  /\ AtEnd("exactly_once")
  /\ Conclude(IF counts.duplicates + counts.conflicts > 0 THEN "FAIL" ELSE "PASS")

FrontierVerdict_OffByOneMutant ==
  /\ AtEnd("frontier")
  /\ Conclude(IF /\ Dispatches(Required) # 0
                 /\ Cardinality(revisions) < Dispatches(Required)
              THEN "FAIL" ELSE "PASS")

\* frontier_oracle: one revision more than the scenario requires dispatches.
ReadFrontier ==
  /\ Reading("frontier")
  /\ NextLine
  /\ revisions' = IF Current = Torn THEN revisions ELSE revisions \union {Current}
  /\ UNCHANGED <<matched, forbiddenHit, expectedPrev, seen, counts>>

FrontierVerdict ==
  /\ AtEnd("frontier")
  /\ Conclude(IF /\ Dispatches(Required) # 0
                 /\ Cardinality(revisions) < Dispatches(Required) + 1
              THEN "FAIL" ELSE "PASS")

\* resource_oracle: a preserved temp root takes the comparison's place.
ResourceVerdict ==
  /\ stage = "resource"
  /\ Conclude(IF preserved THEN "OVER_BUDGET" ELSE IF children > 0 THEN "FAIL" ELSE "PASS")

\* run_scenario: any FAIL fails the scenario.
Aggregate ==
  /\ stage = "done" /\ verdict["scenario"] = "none"
  /\ LET given == {verdict[s] : s \in OracleSet}
     IN  verdict' = [verdict EXCEPT !["scenario"] =
                       IF "FAIL" \in given THEN "FAIL"
                       ELSE IF "OVER_BUDGET" \in given THEN "OVER_BUDGET" ELSE "PASS"]
  /\ UNCHANGED <<runVars, stage, line, readVars>>

Oracle ==
  \/ ReadTranscript \/ TranscriptVerdict
  \/ ReadAudit \/ BrokenAudit \/ AuditVerdict
  \/ ReadReport \/ ReportVerdict
  \/ ReadFrontier \/ FrontierVerdict
  \/ ResourceVerdict \/ Aggregate

Init ==
  /\ transcript = <<>> /\ audit = <<>> /\ reports = <<>> /\ frontier = <<0>>
  /\ undelivered = {} /\ written = Genesis /\ children = 0
  /\ preserved = FALSE /\ faults = {}
  /\ stage = "running" /\ line = 0
  /\ matched = 0 /\ forbiddenHit = FALSE /\ expectedPrev = Genesis
  /\ seen = {} /\ counts = [accepted |-> 0, duplicates |-> 0, conflicts |-> 0]
  /\ revisions = {}
  /\ verdict = [s \in OracleSet \union {"scenario"} |-> "none"]

Next ==
  \/ \E kind \in Kinds : Emit(kind)
  \/ \E operation \in undelivered : Deliver(operation)
  \/ Redeliver \/ Leak \/ Finish \/ Damage \/ Begin
  \/ Oracle

Spec == Init /\ [][Next]_vars

-----------------------------------------------------------------------------
(* Properties. *)

\* Every variable has its type; a reader is within its stream, and between two
\* oracles it is at the start of the next one.
TypeOK ==
  /\ transcript \in Seq(Kinds \union {Torn})
  /\ audit \in Seq(AuditLine \union {Torn})
  /\ reports \in Seq(Report \union {Torn}) /\ Len(reports) <= MaxReports
  /\ frontier \in Seq(Nat \union {Torn})
  /\ undelivered \subseteq 1..MaxEvents
  /\ written \in Nat /\ children \in {0, 1} /\ preserved \in BOOLEAN
  /\ faults \subseteq {"unkeyed", "redelivered", "leaked", "torn", "damaged"}
  /\ stage \in OracleSet \union {"running", "written", "done"}
  /\ line \in 0..Len(Stream(stage))
  /\ matched \in 0..Len(Required) /\ forbiddenHit \in BOOLEAN
  /\ expectedPrev \in Nat \union {Edited}
  /\ seen \subseteq 1..MaxEvents
  /\ counts \in [{"accepted", "duplicates", "conflicts"} -> 0..MaxReports]
  /\ revisions \subseteq Nat
  /\ verdict \in [OracleSet \union {"scenario"} -> Verdicts]

\* What the hash chain can show: a log that passes is what the supervisor wrote,
\* up to a missing tail and the text of its last line.
AuditPassIsPrefix ==
  verdict["audit"] = "PASS" =>
    \A i \in DOMAIN audit :
      /\ audit[i] # Torn
      /\ audit[i].prev = i - 1
      /\ i < Len(audit) => audit[i].hash = i

KeyedReports == {i \in DOMAIN reports : reports[i] # Torn /\ reports[i].keyed}

\* The exactly-once oracle fails exactly the logs with a conflict or with two
\* reports of one key, and accepts every key once.
ExactlyOnceIsExact ==
  verdict["exactly_once"] # "none" =>
    /\ verdict["exactly_once"] = "PASS" <=>
         /\ \A i \in KeyedReports : reports[i].outcome = "accepted"
         /\ \A i, j \in KeyedReports :
              reports[i].operation = reports[j].operation => i = j
    /\ counts.accepted =
         Cardinality({reports[i].operation :
                        i \in {j \in KeyedReports : reports[j].outcome = "accepted"}})

\* A scenario that passes left no process behind, delivered an outcome for as
\* many operations as the scenario requires dispatches, delivered none twice
\* and kept an intact audit log.
PassMeansClean ==
  verdict["scenario"] = "PASS" =>
    /\ "leaked" \notin faults
    /\ Dispatches(Required) > 0 => Len(frontier) - 1 >= Dispatches(Required)
    /\ "redelivered" \in faults => {"unkeyed", "torn"} \intersect faults # {}
    /\ "damaged" \in faults =>
         Len(audit) < written \/ audit[Len(audit)].hash = Edited

\* A run of exactly the required events, every outcome reported and nothing
\* gone wrong, passes: the oracles raise no false alarm.
HealthyPasses ==
  verdict["scenario"] # "none" /\ faults = {} /\ ~preserved
    /\ transcript = Required /\ undelivered = {}
  => verdict["scenario"] = "PASS"

\* part stands in whole in a row: between two of its events are only its own
\* and lines that are no JSON.
InARow(part, whole) ==
  \E at \in [DOMAIN part -> DOMAIN whole] :
    /\ \A i \in DOMAIN part : whole[at[i]] = part[i]
    /\ \A i, j \in DOMAIN part : i < j => at[i] < at[j]
    /\ \A k \in DOMAIN whole : \A i, j \in DOMAIN part :
         at[i] < k /\ k < at[j] /\ whole[k] # Torn => \E m \in DOMAIN part : at[m] = k

\* A transcript that passes has no forbidden event, and the required events
\* after the first stand in it in a row, apart from lines that are no JSON.
PassShowsTail ==
  verdict["transcript"] = "PASS" =>
    /\ \A i \in DOMAIN transcript : transcript[i] \notin Forbidden
    /\ Required # <<>> => InARow(Tail(Required), transcript)
=============================================================================
