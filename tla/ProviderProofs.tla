--------------------------- MODULE ProviderProofs ---------------------------
(***************************************************************************)
(* Proofs about the envelopes the decisions of the work source travel in:   *)
(* first about any decision, then about those WorkSource makes.             *)
(***************************************************************************)
EXTENDS MCDecisions, WorkSourceProofs

-----------------------------------------------------------------------------
(* DecisionWire. *)

LEMMA ElementsOf == ASSUME NEW S, NEW s \in Seq(S), NEW i \in 1..Len(s) PROVE s[i] \in S
  OBVIOUS

\* A typed decision is put back together from its envelope.
LEMMA CodeArrives ==
  ASSUME NEW d \in Decisions
  PROVE  CodeOf(ToWire(d)) = d.code
<1>1. d.code \in NonEmptyCodes
  BY DEF Decisions, Dispatches, Waits, Ends
<1>2. d.code # "" /\ d.code # Missing
  <2>1. \A k \in Kinds : DefaultCode[k] # ""
    <3>1. /\ DefaultCode["dispatch"] # "" /\ DefaultCode["wait"] # ""
          /\ DefaultCode["operator_required"] # "" /\ DefaultCode["stop"] # ""
      BY DEF DefaultCode
    <3> QED  BY <3>1 DEF Kinds
  <2> QED  BY <1>1, <2>1, WireAssumption DEF NonEmptyCodes
<1>3. ToWire(d).code = d.code
  BY DEF ToWire
<1> QED  BY <1>2, <1>3 DEF CodeOf

LEMMA StampsArrive ==
  ASSUME NEW d \in Decisions
  PROVE  /\ Or(ToWire(d).revision, Blank) = d.revision
         /\ Or(ToWire(d).decided, Epoch) = d.decided
         /\ ToWire(d).kind = d.kind
<1>1. d.revision \in Stamps /\ d.decided \in Times
  BY DEF Decisions, Dispatches, Waits, Ends
<1> QED  BY <1>1, WireAssumption DEF ToWire, Or

LEMMA DispatchArrives == ASSUME NEW d \in Dispatches PROVE Parse(ToWire(d)) = d
<1>1. d \in Decisions /\ d.kind = "dispatch" /\ d.work \in Seq(Requests)
  BY DEF Decisions, Dispatches
<1>2. ToWire(d).work = d.work /\ ToWire(d).kind = "dispatch" /\ d.work # Missing
  BY <1>1, WireAssumption DEF ToWire
<1>3. \A i \in 1..Len(d.work) : d.work[i] # Missing
  <2>1. \A i \in 1..Len(d.work) : d.work[i] \in Requests
    BY <1>1, ElementsOf
  <2> QED  BY <2>1, WireAssumption
<1>4. Valid(ToWire(d))
  BY <1>2, <1>3 DEF Valid, Kinds
<1>5. Parsed(ToWire(d)) = [kind |-> d.kind, revision |-> d.revision, decided |-> d.decided,
                           code |-> d.code, work |-> d.work]
  BY <1>1, <1>2, CodeArrives, StampsArrive DEF Parsed, Or
<1>6. d = [kind |-> d.kind, revision |-> d.revision, decided |-> d.decided, code |-> d.code, work |-> d.work]
  BY DEF Dispatches
<1> QED  BY <1>4, <1>5, <1>6 DEF Parse

LEMMA WaitArrives == ASSUME NEW d \in Waits PROVE Parse(ToWire(d)) = d
<1>1. /\ d \in Decisions /\ d.kind = "wait" /\ d.wake \in BOOLEAN
      /\ d.payload \in Bodies
  BY DEF Decisions, Waits
<1>2. /\ ToWire(d).work = Missing /\ ToWire(d).kind = "wait"
      /\ ToWire(d).retry = d.retry /\ ToWire(d).until = d.until /\ ToWire(d).payload = d.payload
  BY <1>1 DEF ToWire
<1>3. (ToWire(d).wake = TRUE) = d.wake
  <2>1. ToWire(d).wake = d.wake
    BY <1>1, Zenon DEF ToWire
  <2>2. d.wake = TRUE \/ d.wake = FALSE
    BY <1>1
  <2> QED  BY <2>1, <2>2
<1>4. Valid(ToWire(d))
  BY <1>2 DEF Valid, Kinds
<1>5. Or(ToWire(d).payload, EmptyBody) = d.payload
  BY <1>1, <1>2, WireAssumption DEF Or
<1>6. Parsed(ToWire(d)) = [kind |-> d.kind, revision |-> d.revision, decided |-> d.decided,
                           code |-> d.code, wake |-> d.wake, retry |-> d.retry, until |-> d.until,
                           payload |-> d.payload]
  BY <1>1, <1>2, <1>3, <1>5, CodeArrives, StampsArrive DEF Parsed
<1>7. d = [kind |-> d.kind, revision |-> d.revision, decided |-> d.decided, code |-> d.code,
           wake |-> d.wake, retry |-> d.retry, until |-> d.until, payload |-> d.payload]
  BY DEF Waits
<1> QED  BY <1>4, <1>6, <1>7 DEF Parse

LEMMA EndArrives == ASSUME NEW d \in Ends PROVE Parse(ToWire(d)) = d
<1>1. d \in Decisions /\ d.kind \in {"operator_required", "stop"}
  BY DEF Decisions, Ends
<1>2. ToWire(d).work = Missing /\ ToWire(d).kind = d.kind
  BY <1>1 DEF ToWire
<1>3. Valid(ToWire(d))
  BY <1>1, <1>2 DEF Valid, Kinds
<1>4. Parsed(ToWire(d)) = [kind |-> d.kind, revision |-> d.revision, decided |-> d.decided, code |-> d.code]
  BY <1>1, <1>2, CodeArrives, StampsArrive DEF Parsed
<1>5. d = [kind |-> d.kind, revision |-> d.revision, decided |-> d.decided, code |-> d.code]
  BY DEF Ends
<1> QED  BY <1>3, <1>4, <1>5 DEF Parse

\* Whatever a decision holds, its envelope is parsed to the same decision.
THEOREM DecisionsArrive == \A d \in Decisions : Parse(ToWire(d)) = d
  BY DispatchArrives, WaitArrives, EndArrives DEF Decisions

\* What an envelope is parsed to is a typed decision.
LEMMA ParsedIsTyped == ASSUME NEW e \in Envelopes, Valid(e) PROVE Parse(e) \in Decisions
<1>1. /\ e.kind \in Kinds /\ Parse(e) = Parsed(e)
      /\ e.work # Missing => \A i \in 1..Len(e.work) : e.work[i] # Missing
  BY DEF Valid, Parse
<1>2. Or(e.revision, Blank) \in Stamps /\ Or(e.decided, Epoch) \in Times
  BY WireAssumption DEF Or, Envelopes
<1>3. CodeOf(e) \in NonEmptyCodes
  <2>1. e.code \in Codes \union {Missing}
    BY DEF Envelopes
  <2> QED  BY <1>1, <2>1 DEF CodeOf, NonEmptyCodes
<1>4. Or(e.work, <<>>) \in Seq(Requests)
  <2>1. CASE e.work = Missing
    BY <2>1 DEF Or
  <2>2. CASE e.work # Missing
    <3>1. e.work \in Seq(Requests \union {Missing})
      BY <2>2 DEF Envelopes
    <3>2. \A i \in 1..Len(e.work) : e.work[i] \in Requests
      <4> SUFFICES ASSUME NEW i \in 1..Len(e.work) PROVE e.work[i] \in Requests
        OBVIOUS
      <4>1. e.work[i] \in Requests \union {Missing}
        BY <3>1, ElementsOf
      <4> QED  BY <1>1, <2>2, <4>1
    <3>3. e.work \in Seq(Requests)
      BY <3>1, <3>2
    <3> QED  BY <2>2, <3>3 DEF Or
  <2> QED  BY <2>1, <2>2
<1>5. CASE e.kind = "dispatch"
  BY <1>1, <1>2, <1>3, <1>4, <1>5 DEF Parsed, Decisions, Dispatches
<1>6. CASE e.kind = "wait"
  <2>1. e.retry \in Times \union {Missing} /\ e.until \in Times \union {Missing}
    BY DEF Envelopes
  <2>2. Or(e.payload, EmptyBody) \in Bodies
    BY WireAssumption DEF Or, Envelopes
  <2>3. (e.wake = TRUE) \in BOOLEAN
    OBVIOUS
  <2> QED  BY <1>1, <1>2, <1>3, <1>6, <2>1, <2>2, <2>3 DEF Parsed, Decisions, Waits
<1>7. CASE e.kind \in {"operator_required", "stop"}
  BY <1>1, <1>2, <1>3, <1>7 DEF Parsed, Decisions, Ends
<1> QED  BY <1>1, <1>5, <1>6, <1>7 DEF Kinds

\* A relay that reads an envelope and writes it again changes nothing for who
\* reads it next, whatever fields were absent when it was read.
THEOREM RelaysAgree == \A e \in Envelopes : Valid(e) => Parse(Relay(e)) = Parse(e)
  BY ParsedIsTyped, DecisionsArrive DEF Relay

-----------------------------------------------------------------------------
(* The decisions of the work source on the wire.                             *)

SourceWaits ==
  [kind : {"wait"}, fp : Zeros..MaxRev,
   reason : {"wait_requested", "no_eligible_work", "no_delta_loop_guard",
             "architecture_review_required"}]
SourceRequests ==
  [operation_id : Items, role : ProgramRoles \union {"research", "maintenance"},
   source_revision : Zeros..MaxRev]
SourceDispatches ==
  [kind : {"dispatch"}, fp : Zeros..MaxRev, work : Seq(SourceRequests),
   reason : {"work_available", "architecture_review_dispatch"}]

\* Every decision of the source is of one of two forms, stamped with a revision
\* that HEAD has had or with zeros.
DecisionsTyped ==
  /\ rev \in 0..MaxRev
  /\ observed \in Zeros..MaxRev
  /\ work \in Seq(SourceRequests)
  /\ decision \in {None} \union SourceWaits \union SourceDispatches

LEMMA DecisionsTypedInit == Init => DecisionsTyped
  BY BoundsAssumption DEF Init, DecisionsTyped, Zeros

\* Requests stamped with what the source can have read stay such in another role.
LEMMA RoleTyped ==
  ASSUME NEW w \in Seq(SourceRequests), NEW role \in {"research", "maintenance"}
  PROVE  [i \in DOMAIN w |-> [w[i] EXCEPT !.role = role]] \in Seq(SourceRequests)
<1> DEFINE new == [i \in DOMAIN w |-> [w[i] EXCEPT !.role = role]]
<1>1. DOMAIN w = 1..Len(w) /\ Len(w) \in Nat /\ \A i \in 1..Len(w) : w[i] \in SourceRequests
  BY ElementsOf
<1>2. \A i \in 1..Len(w) : [w[i] EXCEPT !.role = role] \in SourceRequests
  BY <1>1 DEF SourceRequests
<1>3. new \in [1..Len(w) -> SourceRequests]
  BY <1>1, <1>2
<1> HIDE DEF new
<1>4. new \in Seq(SourceRequests)
  BY <1>1, <1>3, SequenceOf
<1> QED  BY <1>4 DEF new

LEMMA DecisionsTypedStep ==
  ASSUME TypeOK, DecisionsTyped, [Next]_vars
  PROVE  DecisionsTyped'
<1> USE DEF DecisionsTyped
<1>1. /\ MaxRev \in Nat /\ Zeros = -1
      /\ rev \in Zeros..MaxRev /\ Zeros \in Zeros..MaxRev /\ rev \in Nat
      /\ Fingerprint \in Zeros..MaxRev
  BY BoundsAssumption DEF TypeOK, Zeros, Fingerprint
<1>2. ASSUME Return PROVE observed' \in Zeros..MaxRev /\ work' \in Seq(SourceRequests)
  BY <1>1, <1>2 DEF Return
<1>3. ASSUME NEW reason \in {"wait_requested", "no_eligible_work", "no_delta_loop_guard",
                             "architecture_review_required"},
             NEW fp \in Zeros..MaxRev, WaitFor(reason, fp), UNCHANGED rev
      PROVE  DecisionsTyped'
  <2>1. [kind |-> "wait", reason |-> reason, fp |-> fp] \in SourceWaits
    BY DEF SourceWaits
  <2> QED  BY <1>2, <1>3, <2>1 DEF WaitFor
<1>4. ASSUME NEW reason \in {"work_available", "architecture_review_dispatch"},
             NEW fp \in Zeros..MaxRev, NEW requests \in Seq(SourceRequests),
             Dispatch(reason, fp, requests), UNCHANGED rev
      PROVE  DecisionsTyped'
  <2>1. [kind |-> "dispatch", reason |-> reason, fp |-> fp, work |-> requests] \in SourceDispatches
    BY DEF SourceDispatches
  <2> QED  BY <1>2, <1>4, <2>1 DEF Dispatch
<1>5. ASSUME Raise, UNCHANGED rev PROVE DecisionsTyped'
  BY <1>2, <1>5 DEF Raise
<1>19. \A i \in DOMAIN work : work[i].source_revision \in Zeros..MaxRev
  <2>1. \A i \in 1..Len(work) : work[i] \in SourceRequests
    BY ElementsOf
  <2> QED  BY <2>1 DEF SourceRequests
<1>20. ASSUME phase = "work" PROVE Candidate.source_revision \in Zeros..MaxRev
  <2>1. 1 \in DOMAIN work
    BY <1>20 DEF TypeOK
  <2> QED  BY <1>19, <2>1 DEF Candidate
<1>6. CASE ReadRevision
  BY <1>1, <1>6 DEF ReadRevision, programVars
<1>7. CASE NoCallable \/ ForeignAnswer \/ RoadmapMissing \/ NoActiveWork
  BY <1>3, <1>7 DEF NoCallable, ForeignAnswer, RoadmapMissing, NoActiveWork, Asked, programVars
<1>8. CASE ProgramRaises \/ RoadmapMalformed \/ ConsultRaises
  BY <1>5, <1>8 DEF ProgramRaises, RoadmapMalformed, ConsultRaises, Consulted, Deciding, Asked, programVars
<1>9. CASE TakeWork
  <2>1. /\ work' \in Seq(WorkRequests)
        /\ \A i \in DOMAIN work' : work'[i].source_revision \in {observed, Fingerprint}
    BY <1>9, AnswersTyped DEF TakeWork
  <2>2. /\ DOMAIN work' = 1..Len(work') /\ Len(work') \in Nat
        /\ \A i \in 1..Len(work') : work'[i] \in WorkRequests
    BY <2>1, ElementsOf
  <2>3. \A i \in 1..Len(work') : work'[i] \in SourceRequests
    BY <1>1, <2>1, <2>2 DEF WorkRequests, SourceRequests
  <2>4. work' \in Seq(SourceRequests)
    BY <2>1, <2>2, <2>3
  <2> QED  BY <1>9, <2>4 DEF TakeWork, Asked, programVars
<1>10. CASE GuardHolds
  <2>1. PICK i \in DOMAIN work : WaitFor("no_delta_loop_guard", work[i].source_revision)
    BY <1>10 DEF GuardHolds, Stuck
  <2> QED  BY <1>3, <1>10, <1>19, <2>1 DEF GuardHolds, Deciding, programVars
<1>11. CASE Fallback
  BY <1>4, <1>11 DEF Fallback, Deciding, programVars
<1>12. CASE ConsultStale
  BY <1>3, <1>12, <1>20 DEF ConsultStale, Consulted, Deciding, programVars
<1>13. CASE ConsultVerdict
  <2>1. UNCHANGED rev /\ Candidate.source_revision \in Zeros..MaxRev
    BY <1>13, <1>20 DEF ConsultVerdict, Consulted, Deciding, programVars
  <2>2. PICK verdict \in Verdicts(Candidate.operation_id) :
          VerdictHolds(verdict) \/ VerdictDispatches(verdict)
    BY <1>13 DEF ConsultVerdict
  <2>3. CASE VerdictHolds(verdict)
    BY <1>3, <2>1, <2>3 DEF VerdictHolds
  <2>4. CASE VerdictDispatches(verdict)
    <3>1. PICK role \in {"research", "maintenance"},
               reason \in {"work_available", "architecture_review_dispatch"} :
            DispatchAs(role, reason)
      BY <2>4 DEF VerdictDispatches
    <3> QED  BY <1>4, <2>1, <3>1, RoleTyped DEF DispatchAs
  <2> QED  BY <2>2, <2>3, <2>4
<1>14. CASE \E op \in Items : WorkerReports(op)
  BY <1>14 DEF WorkerReports, programVars, tickVars
<1>15. CASE SupervisorCrash
  BY <1>15 DEF SupervisorCrash, programVars, tickVars
<1>16. CASE EditRoadmap
  BY <1>1, <1>16 DEF EditRoadmap, tickVars
<1>17. CASE ChangeProgram \/ \E op \in Items : AdmitHorizon(op)
  BY <1>17 DEF ChangeProgram, AdmitHorizon, programVars, tickVars
<1>18. CASE UNCHANGED vars
  BY <1>18 DEF vars, programVars, tickVars
<1> QED
  BY <1>6, <1>7, <1>8, <1>9, <1>10, <1>11, <1>12, <1>13, <1>14, <1>15, <1>16, <1>17, <1>18
  DEF Next, Answer

LEMMA DecisionsInvariance == Spec => []DecisionsTyped
  BY TypeCorrect, DecisionsTypedInit, DecisionsTypedStep, PTL DEF Spec

\* The constants of the wire have room for what the source sends.
Roomy ==
  /\ Zeros..MaxRev \subseteq Stamps /\ Items \subseteq Ids /\ ProgramRoles \subseteq Roles
  /\ 30 \in Times /\ {"{}", "body"} \subseteq Bodies /\ EmptyBody = "{}"
  /\ WireCodes \subseteq Codes

LEMMA WaitForm ==
  ASSUME NEW stamp \in Stamps, NEW time \in Times, NEW code \in NonEmptyCodes, NEW body \in Bodies
  PROVE  [kind |-> "wait", revision |-> stamp, decided |-> time, code |-> code,
          wake |-> TRUE, retry |-> time, until |-> Missing, payload |-> body] \in Waits
  BY DEF Waits

LEMMA DispatchForm ==
  ASSUME NEW stamp \in Stamps, NEW time \in Times, NEW code \in NonEmptyCodes,
         NEW list \in Seq(Requests)
  PROVE  [kind |-> "dispatch", revision |-> stamp, decided |-> time, code |-> code,
          work |-> list] \in Dispatches
  BY DEF Dispatches

\* A Wait of the source, and a dispatch with a list of any length, is a typed
\* decision.
LEMMA WaitIsTyped ==
  ASSUME Roomy, NEW d \in SourceWaits
  PROVE  Typed(d) \in Waits
<1>1. /\ d.kind = "wait" /\ d.fp \in Stamps
      /\ d.reason \in Codes \/ d.reason = DefaultCode["wait"]
      /\ d.reason # ""
  BY DEF Roomy, SourceWaits, WireCodes, DefaultCode
<1>2. d.reason \in NonEmptyCodes
  BY <1>1 DEF NonEmptyCodes, Kinds
<1>3. Typed(d) = [kind |-> "wait", revision |-> d.fp, decided |-> 30, code |-> d.reason,
                  wake |-> TRUE, retry |-> 30, until |-> Missing, payload |-> "{}"]
  BY <1>1 DEF Typed
<1>4. 30 \in Times /\ "{}" \in Bodies /\ TRUE \in BOOLEAN
  BY DEF Roomy
<1> QED  BY <1>1, <1>2, <1>3, <1>4, WaitForm

LEMMA DispatchIsTyped ==
  ASSUME Roomy, NEW d \in SourceDispatches
  PROVE  Typed(d) \in Dispatches
<1>1. /\ d.kind = "dispatch" /\ d.fp \in Stamps
      /\ d.reason \in Codes \/ d.reason = DefaultCode["dispatch"]
      /\ d.reason # ""
  BY DEF Roomy, SourceDispatches, WireCodes, DefaultCode
<1>2. d.reason \in NonEmptyCodes
  BY <1>1 DEF NonEmptyCodes, Kinds
<1> DEFINE work_ == [i \in DOMAIN d.work |->
                      [id |-> d.work[i].operation_id, revision |-> d.work[i].source_revision,
                       role |-> d.work[i].role, body |-> "body"]]
<1>3. work_ \in Seq(Requests)
  <2>1. d.work \in Seq(SourceRequests)
    BY DEF SourceDispatches
  <2>2. DOMAIN d.work = 1..Len(d.work) /\ Len(d.work) \in Nat
    BY <2>1
  <2>3. \A i \in 1..Len(d.work) : d.work[i] \in SourceRequests
    BY <2>1, ElementsOf
  <2>4. \A i \in 1..Len(d.work) :
          /\ d.work[i].operation_id \in Ids /\ d.work[i].source_revision \in Stamps
          /\ d.work[i].role \in Roles
    BY <2>3 DEF SourceRequests, Roomy, Roles
  <2>5. work_ \in [1..Len(d.work) -> Requests]
    BY <2>2, <2>4 DEF Requests, Roomy
  <2> HIDE DEF work_
  <2> QED  BY <2>2, <2>5, SequenceOf
<1>4. Typed(d) = [kind |-> "dispatch", revision |-> d.fp, decided |-> 30, code |-> d.reason,
                  work |-> work_]
  BY <1>1 DEF Typed
<1> HIDE DEF work_
<1>5. 30 \in Times
  BY DEF Roomy
<1> QED  BY <1>1, <1>2, <1>3, <1>4, <1>5, DispatchForm

\* An envelope of an unknown kind is refused; a field that has the default's
\* value may be missing.
LEMMA UnknownRefused ==
  ASSUME NEW d \in Decisions, NEW kind \in {"", "unknown"}
  PROVE  Parse([ToWire(d) EXCEPT !.kind = kind]) = Refused
<1>1. [ToWire(d) EXCEPT !.kind = kind].kind = kind
  BY DEF ToWire
<1> QED  BY <1>1 DEF Parse, Valid, Kinds

LEMMA PayloadDefaults ==
  ASSUME NEW d \in Waits, d.payload = EmptyBody
  PROVE  Parse([ToWire(d) EXCEPT !.payload = Missing]) = d
<1> DEFINE e == [ToWire(d) EXCEPT !.payload = Missing]
<1>1. /\ e.kind = "wait" /\ e.revision = d.revision /\ e.decided = d.decided
      /\ e.code = d.code /\ e.wake = d.wake /\ e.retry = d.retry /\ e.until = d.until
      /\ e.payload = Missing /\ e.work = Missing
  BY DEF ToWire, Waits
<1>2. /\ ToWire(d).code = d.code /\ ToWire(d).revision = d.revision
      /\ ToWire(d).decided = d.decided /\ ToWire(d).kind = "wait" /\ d \in Decisions
  BY DEF ToWire, Waits, Decisions
<1> HIDE DEF e
<1>3. CodeOf(e) = d.code /\ Or(e.revision, Blank) = d.revision
      /\ Or(e.decided, Epoch) = d.decided
  BY <1>1, <1>2, CodeArrives, StampsArrive DEF CodeOf
<1>4. Valid(e) /\ e.kind = "wait"
  BY <1>1 DEF Valid, Kinds
<1>5. (e.wake = TRUE) = d.wake /\ Or(e.payload, EmptyBody) = d.payload
  BY <1>1 DEF Waits, Or
<1>6. Parsed(e) = [kind |-> d.kind, revision |-> d.revision, decided |-> d.decided,
                   code |-> d.code, wake |-> d.wake, retry |-> d.retry, until |-> d.until,
                   payload |-> d.payload]
  BY <1>1, <1>3, <1>4, <1>5 DEF Parsed, Waits
<1>7. d = [kind |-> d.kind, revision |-> d.revision, decided |-> d.decided,
           code |-> d.code, wake |-> d.wake, retry |-> d.retry, until |-> d.until,
           payload |-> d.payload]
  BY DEF Waits
<1> QED  BY <1>4, <1>6, <1>7 DEF Parse, e

LEMMA CodeDefaults ==
  ASSUME NEW d \in Dispatches \union Waits
  PROVE  [Parse([ToWire(d) EXCEPT !.code = Missing]) EXCEPT !.code = d.code] = d
<1> DEFINE e == [ToWire(d) EXCEPT !.code = Missing]
           default == DefaultCode[d.kind]
<1>1. d \in Decisions /\ d.kind \in {"dispatch", "wait"}
  BY DEF Dispatches, Waits, Decisions
<1>2. /\ e.kind = d.kind /\ e.revision = ToWire(d).revision
      /\ e.decided = ToWire(d).decided /\ e.code = Missing
      /\ e.wake = ToWire(d).wake /\ e.retry = ToWire(d).retry /\ e.until = ToWire(d).until
      /\ e.payload = ToWire(d).payload /\ e.work = ToWire(d).work
  BY DEF ToWire
<1>3. /\ Or(e.revision, Blank) = d.revision /\ Or(e.decided, Epoch) = d.decided
      /\ Parsed(ToWire(d)) = d /\ Valid(ToWire(d)) /\ ToWire(d).kind = d.kind
  <2>1. Parse(ToWire(d)) = d
    BY <1>1, DecisionsArrive
  <2>2. Valid(ToWire(d))
    <3>1. CASE d \in Waits
      BY <1>1, <3>1 DEF Waits, ToWire, Valid, Kinds
    <3>2. CASE d \in Dispatches
      <4>1. /\ d.kind = "dispatch" /\ d.work \in Seq(Requests) /\ d.work # Missing
            /\ ToWire(d).work = d.work /\ ToWire(d).kind = "dispatch"
        BY <3>2, WireAssumption DEF Dispatches, ToWire
      <4>2. \A i \in 1..Len(d.work) : d.work[i] # Missing
        <5>1. \A i \in 1..Len(d.work) : d.work[i] \in Requests
          BY <4>1, ElementsOf
        <5> QED  BY <5>1, WireAssumption
      <4> QED  BY <4>1, <4>2 DEF Valid, Kinds
    <3> QED  BY <3>1, <3>2
  <2> QED  BY <1>1, <1>2, <2>1, <2>2, StampsArrive DEF Parse
<1>4. Valid(e)
  BY <1>2, <1>3 DEF Valid
<1>5. CodeOf(e) = default
  BY <1>2 DEF CodeOf
<1> HIDE DEF e, default
<1>6. CASE d.kind = "dispatch"
  <2>1. Parsed(e) = [kind |-> d.kind, revision |-> d.revision, decided |-> d.decided,
                     code |-> default, work |-> Or(e.work, <<>>)]
    BY <1>2, <1>3, <1>5, <1>6 DEF Parsed
  <2>2. d = [kind |-> d.kind, revision |-> d.revision, decided |-> d.decided,
             code |-> d.code, work |-> Or(e.work, <<>>)]
    <3>1. d.work = Or(e.work, <<>>)
      BY <1>2, <1>3, <1>6 DEF Parsed
    <3>2. d \in Dispatches
      BY <1>6 DEF Waits
    <3> QED  BY <3>1, <3>2 DEF Dispatches
  <2>3. [Parsed(e) EXCEPT !.code = d.code] = d
    BY <2>1, <2>2
  <2> QED  BY <1>4, <2>3 DEF Parse, e
<1>7. CASE d.kind = "wait"
  <2>1. /\ (e.wake = TRUE) = d.wake /\ e.retry = d.retry /\ e.until = d.until
        /\ Or(e.payload, EmptyBody) = d.payload
    BY <1>2, <1>3, <1>7 DEF Parsed
  <2>2. Parsed(e) = [kind |-> d.kind, revision |-> d.revision, decided |-> d.decided,
                     code |-> default, wake |-> d.wake, retry |-> d.retry,
                     until |-> d.until, payload |-> d.payload]
    BY <1>2, <1>3, <1>5, <1>7, <2>1 DEF Parsed
  <2>3. d \in Waits
    BY <1>7 DEF Dispatches
  <2>4. d = [kind |-> d.kind, revision |-> d.revision, decided |-> d.decided,
             code |-> d.code, wake |-> d.wake, retry |-> d.retry,
             until |-> d.until, payload |-> d.payload]
    BY <2>3 DEF Waits
  <2>5. [Parsed(e) EXCEPT !.code = d.code] = d
    BY <2>2, <2>4
  <2> QED  BY <1>4, <2>5 DEF Parse, e
<1> QED  BY <1>1, <1>6, <1>7

\* What a supervisor across the wire does with a decision of the work source is
\* what the source meant, for lists of any length and any number of commits: its
\* role, stamp and wake arrive, also over a relay, and also without the fields
\* that have a default; of an unknown kind it is refused.
THEOREM DecisionsAreMeant == ASSUME Roomy PROVE Spec => []RelayedIsSame
<1>1. ASSUME DecisionsTyped PROVE RelayedIsSame
  <2> SUFFICES ASSUME decision # None PROVE RelayedIsSame
    BY DEF RelayedIsSame
  <2> DEFINE d == Typed(decision)
  <2>1. \/ decision \in SourceWaits /\ d \in Waits
        \/ decision \in SourceDispatches /\ d \in Dispatches
    BY <1>1, WaitIsTyped, DispatchIsTyped DEF DecisionsTyped
  <2>2. d.kind = "wait" => d \in Waits /\ d.payload = EmptyBody
    <3>1. CASE decision \in SourceWaits
      <4>1. d.payload = "{}"
        BY <3>1 DEF Typed, SourceWaits
      <4> QED  BY <2>1, <3>1, <4>1 DEF Roomy, Waits, Dispatches
    <3>2. CASE decision \in SourceDispatches
      BY <2>1, <3>2 DEF Dispatches, SourceWaits, SourceDispatches
    <3> QED  BY <2>1, <3>1, <3>2
  <2>3. d \in Decisions /\ d \in Dispatches \union Waits
    BY <2>1 DEF Decisions
  <2> HIDE DEF d
  <2>4. Parse(ToWire(d)) = d
    BY <2>3, DecisionsArrive
  <2>5. Parse(Relay(ToWire(d))) = d
    BY <2>4 DEF Relay
  <2>6. \A kind \in {"", "unknown"} : Parse([ToWire(d) EXCEPT !.kind = kind]) = Refused
    BY <2>3, UnknownRefused
  <2>7. d.kind = "wait" => Parse([ToWire(d) EXCEPT !.payload = Missing]) = d
    BY <2>2, PayloadDefaults
  <2>8. [Parse([ToWire(d) EXCEPT !.code = Missing]) EXCEPT !.code = d.code] = d
    BY <2>3, CodeDefaults
  <2> QED  BY <2>4, <2>5, <2>6, <2>7, <2>8 DEF RelayedIsSame, d
<1> QED  BY <1>1, DecisionsInvariance, PTL
=============================================================================
