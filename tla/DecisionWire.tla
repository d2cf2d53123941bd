---------------------------- MODULE DecisionWire ----------------------------
(***************************************************************************)
(* The envelope a source decision travels in: source_decision_to_wire and   *)
(* parse_source_decision, as what they keep, default and refuse.            *)
(*                                                                         *)
(* A field that is absent or null is Missing.  Times, texts and the opaque  *)
(* dictionaries are values that are only copied; the empty ones matter.     *)
(***************************************************************************)
EXTENDS Naturals, Sequences

CONSTANTS
  Stamps,     \* source revisions
  Blank,      \* the empty source revision
  Times,      \* instants and durations
  Epoch,      \* 0.0
  Bodies,     \* dictionaries
  EmptyBody,  \* {}
  Ids,        \* operation ids
  Codes,      \* reason codes an envelope may carry, the empty one among them
  Missing,    \* what an absent or null field reads as
  Refused     \* parse_source_decision raises

Kinds == {"dispatch", "wait", "operator_required", "stop"}
Roles == {"default", "primary", "supporting", "milestone", "research", "intake", "review", "maintenance"}

\* The code of an envelope that carries none.
DefaultCode ==
  [dispatch |-> "work_available", wait |-> "wait_requested",
   operator_required |-> "operator_required", stop |-> "stop_requested"]

NonEmptyCodes == (Codes \ {""}) \union {DefaultCode[k] : k \in Kinds}

-----------------------------------------------------------------------------
(* The typed side. *)

Requests == [id : Ids, revision : Stamps, role : Roles, body : Bodies]

ASSUME WireAssumption ==
  /\ Blank \in Stamps /\ Epoch \in Times /\ EmptyBody \in Bodies
  /\ Missing \notin Stamps /\ Missing \notin Times /\ Missing \notin Bodies
  /\ Missing \notin NonEmptyCodes \union {""} /\ Missing \notin BOOLEAN
  /\ Missing \notin Requests /\ Missing \notin Seq(Requests)

Dispatches ==
  [kind : {"dispatch"}, revision : Stamps, decided : Times, code : NonEmptyCodes, work : Seq(Requests)]
Waits ==
  [kind : {"wait"}, revision : Stamps, decided : Times, code : NonEmptyCodes, wake : BOOLEAN,
   retry : Times \union {Missing}, until : Times \union {Missing}, payload : Bodies]
Ends ==
  [kind : {"operator_required", "stop"}, revision : Stamps, decided : Times, code : NonEmptyCodes]

Decisions == Dispatches \union Waits \union Ends

-----------------------------------------------------------------------------
(* The wire.  A request that lacks an identity or names no known role is     *)
(* Missing: it does not validate.                                           *)

Envelopes ==
  [kind : Kinds \union {"", "unknown", "other"}, revision : Stamps \union {Missing},
   decided : Times \union {Missing}, code : Codes \union {Missing},
   wake : BOOLEAN \union {Missing}, retry : Times \union {Missing}, until : Times \union {Missing},
   payload : Bodies \union {Missing}, work : Seq(Requests \union {Missing}) \union {Missing}]

\* source_decision_to_wire: the fields of the kind, the others left unset.
ToWire_UnsetWakeMutant(d) ==
  [kind |-> d.kind, revision |-> d.revision, decided |-> d.decided, code |-> d.code,
   wake    |-> Missing,
   retry   |-> IF d.kind = "wait" THEN d.retry ELSE Missing,
   until   |-> IF d.kind = "wait" THEN d.until ELSE Missing,
   payload |-> IF d.kind = "wait" THEN d.payload ELSE Missing,
   work    |-> IF d.kind = "dispatch" THEN d.work ELSE Missing]

ToWire(d) ==
  [kind |-> d.kind, revision |-> d.revision, decided |-> d.decided, code |-> d.code,
   wake    |-> IF d.kind = "wait" THEN d.wake ELSE Missing,
   retry   |-> IF d.kind = "wait" THEN d.retry ELSE Missing,
   until   |-> IF d.kind = "wait" THEN d.until ELSE Missing,
   payload |-> IF d.kind = "wait" THEN d.payload ELSE Missing,
   work    |-> IF d.kind = "dispatch" THEN d.work ELSE Missing]

Or(value, default) == IF value = Missing THEN default ELSE value

CodeOf(e) == IF e.code \in {Missing, ""} THEN DefaultCode[e.kind] ELSE e.code

\* model_validate, then DecisionKind(kind): a kind that is none of the four or
\* one bad request refuses the whole envelope.
Valid(e) ==
  /\ e.kind \in Kinds
  /\ e.work # Missing => \A i \in 1..Len(e.work) : e.work[i] # Missing

Parsed(e) ==
  CASE e.kind = "dispatch" ->
         [kind |-> e.kind, revision |-> Or(e.revision, Blank), decided |-> Or(e.decided, Epoch),
          code |-> CodeOf(e), work |-> Or(e.work, <<>>)]
    [] e.kind = "wait" ->
         [kind |-> e.kind, revision |-> Or(e.revision, Blank), decided |-> Or(e.decided, Epoch),
          code |-> CodeOf(e), wake |-> (e.wake = TRUE), retry |-> e.retry, until |-> e.until,
          payload |-> Or(e.payload, EmptyBody)]
    [] OTHER ->
         [kind |-> e.kind, revision |-> Or(e.revision, Blank), decided |-> Or(e.decided, Epoch),
          code |-> CodeOf(e)]

\* parse_source_decision.
Parse(e) == IF Valid(e) THEN Parsed(e) ELSE Refused

\* One hop of a relay that reads an envelope and writes it again.
Relay(e) == ToWire(Parse(e))
=============================================================================
