---------------------------- MODULE MCDecisions ----------------------------
(***************************************************************************)
(* The work source in a math project, for TLC, with its decisions on the     *)
(* wire between the source and who reads them.                              *)
(***************************************************************************)
EXTENDS WorkSource, DecisionWire

AlwaysLoads == {TRUE}

WireStamps == Zeros..MaxRev
WireBlank  == Zeros
WireTimes  == {0, 30}
WireBodies == {"{}", "body"}
WireCodes  == {"", "no_delta_loop_guard", "no_eligible_work",
               "architecture_review_required", "architecture_review_dispatch"}

\* A decision with the fields WorkSource leaves out: every Wait of the source
\* wakes on a source change and has a retry, and none has a deadline.
Typed(d) ==
  IF d.kind = "dispatch"
  THEN [kind |-> d.kind, revision |-> d.fp, decided |-> 30, code |-> d.reason,
        work |-> [i \in DOMAIN d.work |->
                    [id |-> d.work[i].operation_id, revision |-> d.work[i].source_revision,
                     role |-> d.work[i].role, body |-> "body"]]]
  ELSE [kind |-> d.kind, revision |-> d.fp, decided |-> 30, code |-> d.reason,
        wake |-> TRUE, retry |-> 30, until |-> Missing, payload |-> "{}"]

\* What a supervisor across the wire does with a decision is what the source
\* meant: role, stamp and the wake on a source change arrive, also when the
\* envelope was read and written again on the way, and when a field that has a
\* default was dropped.
RelayedIsSame ==
  decision # None =>
    LET d == Typed(decision)  e == ToWire(d) IN
    /\ Parse(e) = d
    /\ Parse(Relay(e)) = d
    /\ \A kind \in {"", "unknown"} : Parse([e EXCEPT !.kind = kind]) = Refused
    /\ d.kind = "wait" => Parse([e EXCEPT !.payload = Missing]) = d
    /\ [Parse([e EXCEPT !.code = Missing]) EXCEPT !.code = d.code] = d
=============================================================================
