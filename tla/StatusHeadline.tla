--------------------------- MODULE StatusHeadline ---------------------------
(***************************************************************************)
(* `research status`: the one-line headline, read from the files of a       *)
(* supervisor that goes on, dies and comes back meanwhile.                  *)
(*                                                                         *)
(* read_status_headline reads health.json, then latest.json, then probes   *)
(* the pid of the first document with signal 0 and classifies.  The         *)
(* supervisor rewrites the two files one at a time and after its own state  *)
(* has moved; a write may be caught or cut half way; the pid of a dead      *)
(* supervisor may be given to another process.                             *)
(***************************************************************************)
EXTENDS Integers, FiniteSets, Sequences

CONSTANTS
  Pids,         \* process ids
  NoPid,        \* the pid of a document that has none: supervisor_pid absent, or 0
  Unreadable,   \* what a missing or malformed file reads as
  Stale,        \* age a sample may have: 300 s of the clock
  MaxClock,     \* bound: the clock
  MaxEvents     \* bound: events of the supervisor, its processes and the operator

ASSUME BoundsAssumption == {Stale, MaxClock, MaxEvents} \subseteq Nat

VARIABLES
  clock,
  events,     \* how many events there were
  procs,      \* who has each pid
  state,      \* the supervisor's state, as health.json shows it
  health,     \* health.json
  latest,     \* latest.json: its observed_unix
  pc,         \* where the command is
  docRead,    \* the health document that was read
  obsRead,    \* the observed_unix that was read
  responds,   \* whether signal 0 reached the pid of the document
  headline,   \* what the command printed
  lastAlive,  \* when a supervisor was last alive
  settled,    \* since the command began, health.json is what the one supervisor is
  silent      \* since the command began, no pid answered signal 0

supVars == <<events, procs, state, health, latest>>
cmdVars == <<pc, docRead, obsRead, responds, headline>>
seenVars == <<lastAlive, settled, silent>>
vars == <<clock, supVars, cmdVars, seenVars>>

Holders == {"nobody", "supervisor", "mine", "other"}
Kinds   == {"none", "dispatch", "wait"}
Outcomes == {"none", "submitted", "blocked"}
States  == {"circuit-open", "degraded", "gate-closed", "operator-paused", "rate-deferred",
            "source-wait", "terminal-stop", "no-supervisor", "running"}

\* The fields of health.json the classifier looks at.  Of the two wake-up
\* times the model keeps whether they are set.
Runtime ==
  [open : BOOLEAN, trips : 0..1, degraded : BOOLEAN, outcome : Outcomes, outcome_unix : Nat,
   paused : BOOLEAN, stopped : BOOLEAN, eligible : BOOLEAN, kind : Kinds, next_ask : BOOLEAN]

Fresh ==
  [open |-> FALSE, trips |-> 0, degraded |-> FALSE, outcome |-> "none", outcome_unix |-> 0,
   paused |-> FALSE, stopped |-> FALSE, eligible |-> FALSE, kind |-> "none", next_ask |-> FALSE]

\* A parsed health.json.  Every field has a default, that of the pid is none: a
\* supervisor fills the document in bit by bit.
HealthPayload == [pid : Pids \union {NoPid}, is : Runtime]

ASSUME NoPidAssumption == NoPid \notin Pids

ASSUME UnreadableAssumption == Unreadable \notin Int \union HealthPayload

NoHeadline ==
  [state |-> "none", wake |-> "none", trigger |-> "none", last |-> "none", cycle |-> 0, uptime |-> 0]

-----------------------------------------------------------------------------
(* What the properties look back on. *)

\* The documents the supervisor with this pid may write: with its pid, or before
\* it got that far.
Documents(p) == [pid : {p, NoPid}, is : {state}]

Alive == \E p \in Pids : procs[p] = "supervisor"
Answers(p) == procs[p] \in {"supervisor", "mine"}
Silence == \A p \in Pids : ~Answers(p)
Current == \E p \in Pids : procs[p] = "supervisor" /\ health \in Documents(p)

Observe ==
  /\ lastAlive' = IF Alive' THEN clock' ELSE lastAlive
  /\ settled' = (settled /\ Current')
  /\ silent' = (silent /\ Silence')

-----------------------------------------------------------------------------
(* The supervisor, its processes and the operator. *)

Event ==
  /\ events < MaxEvents
  /\ events' = events + 1
  /\ UNCHANGED <<clock, cmdVars>>

Boot(p) ==
  /\ ~Alive /\ procs[p] = "nobody"
  /\ procs' = [procs EXCEPT ![p] = "supervisor"]
  /\ state' \in {state, Fresh}
  /\ Event
  /\ UNCHANGED <<health, latest>>
  /\ Observe

Die(p) ==
  /\ procs[p] = "supervisor"
  /\ procs' = [procs EXCEPT ![p] = "nobody"]
  /\ health' \in {health, Unreadable}     \* its last write may be cut short
  /\ Event
  /\ UNCHANGED <<state, latest>>
  /\ Observe

\* Another process gets a free pid: one this user may signal, or not.
Reuse(p) ==
  /\ procs[p] = "nobody"
  /\ procs' = [procs EXCEPT ![p] = "mine"] \/ procs' = [procs EXCEPT ![p] = "other"]
  /\ Event
  /\ UNCHANGED <<state, health, latest>>
  /\ Observe

\* One thing happens to the running supervisor: its breaker trips or cools
\* off, a fault comes or goes, an attempt ends, it is paused, resumed or
\* stopped, it defers for the rate limit or not, or its source answers.
Moves ==
  {[state EXCEPT !.open = TRUE, !.trips = 1], [state EXCEPT !.open = FALSE]}
    \union {[state EXCEPT !.degraded = b] : b \in BOOLEAN}
    \union {[state EXCEPT !.outcome = o, !.outcome_unix = clock] : o \in {"submitted", "blocked"}}
    \union {[state EXCEPT !.paused = b] : b \in BOOLEAN}
    \union {[state EXCEPT !.stopped = TRUE]}
    \union {[state EXCEPT !.eligible = b] : b \in BOOLEAN}
    \union {[state EXCEPT !.kind = "wait", !.next_ask = TRUE],
            [state EXCEPT !.kind = "dispatch", !.next_ask = FALSE],
            [state EXCEPT !.kind = "dispatch"]}

Move ==
  /\ Alive
  /\ state' \in Moves \ {state}
  /\ Event
  /\ UNCHANGED <<procs, health, latest>>
  /\ Observe

WriteHealth ==
  /\ \E p \in Pids : procs[p] = "supervisor" /\ health' = [pid |-> p, is |-> state]
  /\ UNCHANGED <<clock, events, procs, state, latest, cmdVars>>
  /\ Observe

\* It writes the document before it has got to its pid.
WriteUnnamed ==
  /\ Alive
  /\ health' = [pid |-> NoPid, is |-> state]
  /\ Event
  /\ UNCHANGED <<procs, state, latest>>
  /\ Observe

WriteLatest ==
  /\ Alive
  /\ latest' = clock
  /\ UNCHANGED <<clock, events, procs, state, health, cmdVars>>
  /\ Observe

\* A write is caught half way: until the next one the file does not parse.
Tear ==
  /\ Alive
  /\ \/ health' = Unreadable /\ latest' = latest
     \/ latest' = Unreadable /\ health' = health
  /\ Event
  /\ UNCHANGED <<procs, state>>
  /\ Observe

\* research reset --purge removes the directory of a dead supervisor.
Purge ==
  /\ ~Alive
  /\ health' = Unreadable /\ latest' = Unreadable
  /\ Event
  /\ UNCHANGED <<procs, state>>
  /\ Observe

Tick ==
  /\ clock < MaxClock
  /\ clock' = clock + 1
  /\ UNCHANGED <<supVars, cmdVars>>
  /\ Observe

-----------------------------------------------------------------------------
(* The command. *)

\* read_status_headline: health.json, None when it is missing or malformed.
ReadHealth ==
  /\ pc = "idle"
  /\ docRead' = health
  /\ pc' = "health"
  /\ headline' = NoHeadline
  /\ settled' = Current /\ silent' = Silence
  /\ UNCHANGED <<clock, supVars, obsRead, responds, lastAlive>>

\* latest.json likewise, some time later.
ReadLatest ==
  /\ pc = "health"
  /\ obsRead' = latest
  /\ pc' = "latest"
  /\ UNCHANGED <<clock, supVars, docRead, responds, headline>>
  /\ Observe

\* The document names the process to ask.
Names(doc) == doc # Unreadable /\ doc.pid # NoPid

\* os.kill(pid, 0): an OSError of any kind means the supervisor is gone.  With
\* no pid to ask there is no probe, and the classifier goes on.
Probe ==
  /\ pc = "latest"
  /\ responds' = (Names(docRead) => Answers(docRead.pid))
  /\ pc' = "probed"
  /\ UNCHANGED <<clock, supVars, docRead, obsRead, headline>>
  /\ Observe

\* The conditions of a health document, in the order _classify tests them.
Conditions_WaitFirstMutant(is) ==
  << <<is.open \/ is.trips > 0, "circuit-open">>,
     <<is.degraded,             "degraded">>,
     <<is.outcome = "blocked",  "gate-closed">>,
     <<is.eligible,             "rate-deferred">>,
     <<is.kind = "wait",        "source-wait">>,
     <<is.paused,               "operator-paused">>,
     <<is.stopped,              "terminal-stop">> >>

Conditions(is) ==
  << <<is.open \/ is.trips > 0, "circuit-open">>,
     <<is.degraded,             "degraded">>,
     <<is.outcome = "blocked",  "gate-closed">>,
     <<is.paused,               "operator-paused">>,
     <<is.stopped,              "terminal-stop">>,
     <<is.eligible,             "rate-deferred">>,
     <<is.kind = "wait",        "source-wait">> >>

\* The indexes of the conditions a document shows.
Shown(is) == {i \in 1..7 : Conditions(is)[i][1]}

FirstShown(is) ==
  Conditions(is)[CHOOSE i \in Shown(is) : \A j \in Shown(is) : i <= j][2]

\* When the supervisor was last observed; 0 is never.
Observed(doc, obs) ==
  IF obs # Unreadable /\ obs # 0 THEN obs
  ELSE IF doc # Unreadable THEN doc.is.outcome_unix ELSE 0

BySample_AgelessMutant(doc, obs, now) ==
  IF Observed(doc, obs) = 0 THEN "no-supervisor" ELSE "running"

BySample(doc, obs, now) ==
  IF Observed(doc, obs) = 0 THEN "no-supervisor"
  ELSE IF now - Observed(doc, obs) > Stale THEN "terminal-stop"
  ELSE "running"

Classify_ProbeLastMutant(doc, obs, answered, now) ==
  IF doc # Unreadable /\ Shown(doc.is) # {} THEN FirstShown(doc.is)
  ELSE IF ~answered THEN "terminal-stop"
  ELSE BySample(doc, obs, now)

Classify(doc, obs, answered, now) ==
  IF doc = Unreadable /\ obs = Unreadable THEN "no-supervisor"
  ELSE IF ~answered THEN "terminal-stop"
  ELSE IF doc # Unreadable /\ Shown(doc.is) # {} THEN FirstShown(doc.is)
  ELSE BySample(doc, obs, now)

\* _wake_unix: the deadline of the rate limit before the source's next ask.
WakeUnix(doc) ==
  IF doc = Unreadable THEN "none"
  ELSE IF doc.is.eligible THEN "next_eligible"
  ELSE IF doc.is.next_ask THEN "next_ask" ELSE "none"

WakeTrigger(doc) ==
  IF doc = Unreadable THEN "none"
  ELSE IF doc.is.eligible THEN "rate_defer"
  ELSE IF doc.is.kind = "wait" THEN "source_wait" ELSE "poll_backstop"

LastAction(doc) == IF doc = Unreadable THEN "none" ELSE doc.is.outcome
LastCycle(doc)  == IF doc = Unreadable THEN 0 ELSE doc.is.outcome_unix
Uptime(obs, now) == IF obs = Unreadable \/ obs = 0 THEN 0 ELSE now - obs

Conclude_KeepMutant ==
  /\ pc = "probed"
  /\ headline' = [state |-> Classify(docRead, obsRead, responds, clock),
                  wake |-> WakeUnix(docRead), trigger |-> WakeTrigger(docRead),
                  last |-> LastAction(docRead), cycle |-> LastCycle(docRead),
                  uptime |-> Uptime(obsRead, clock)]
  /\ pc' = "idle"
  /\ UNCHANGED <<clock, supVars, docRead, obsRead, responds>>
  /\ Observe

Conclude ==
  /\ pc = "probed"
  /\ headline' = [state |-> Classify(docRead, obsRead, responds, clock),
                  wake |-> WakeUnix(docRead), trigger |-> WakeTrigger(docRead),
                  last |-> LastAction(docRead), cycle |-> LastCycle(docRead),
                  uptime |-> Uptime(obsRead, clock)]
  /\ pc' = "idle"
  /\ docRead' = Unreadable /\ obsRead' = Unreadable /\ responds' = FALSE
  /\ UNCHANGED <<clock, supVars>>
  /\ Observe

-----------------------------------------------------------------------------
Init ==
  /\ clock = 1 /\ events = 0
  /\ procs = [p \in Pids |-> "nobody"]
  /\ state = Fresh
  /\ health = Unreadable /\ latest = Unreadable
  /\ pc = "idle" /\ docRead = Unreadable /\ obsRead = Unreadable
  /\ responds = FALSE /\ headline = NoHeadline
  /\ lastAlive = 0 /\ settled = FALSE /\ silent = FALSE

Next ==
  \/ \E p \in Pids : Boot(p) \/ Die(p) \/ Reuse(p)
  \/ Move \/ WriteHealth \/ WriteUnnamed \/ WriteLatest \/ Tear \/ Purge \/ Tick
  \/ ReadHealth \/ ReadLatest \/ Probe \/ Conclude

Spec == Init /\ [][Next]_vars

-----------------------------------------------------------------------------
(* Properties. *)

\* Every variable has its type, there is at most one supervisor, and the
\* command holds documents only between its reads and its answer.
TypeOK ==
  /\ clock \in Nat /\ clock >= 1 /\ events \in Nat
  /\ procs \in [Pids -> Holders]
  /\ \A p, q \in Pids : procs[p] = "supervisor" /\ procs[q] = "supervisor" => p = q
  /\ state \in Runtime
  /\ health \in HealthPayload \union {Unreadable}
  /\ latest \in Nat \union {Unreadable}
  /\ pc \in {"idle", "health", "latest", "probed"}
  /\ docRead \in HealthPayload \union {Unreadable}
  /\ obsRead \in Nat \union {Unreadable}
  /\ responds \in BOOLEAN
  /\ headline.state \in States \union {"none"}
  /\ lastAlive \in Nat /\ lastAlive <= clock
  /\ settled \in BOOLEAN /\ silent \in BOOLEAN
  /\ pc = "idle" => docRead = Unreadable

Answered == pc = "probed" /\ pc' = "idle"

\* What an operator must be told before what: a breaker or a fault before a
\* closed gate, these before a pause, a pause before a stop, and either before
\* what the supervisor would otherwise be waiting for.
Rank(is) ==
  [c \in {"circuit-open", "degraded", "gate-closed", "operator-paused", "terminal-stop",
          "rate-deferred", "source-wait"} |->
     CASE c = "circuit-open"    -> IF is.trips > 0 THEN 1 ELSE 0
       [] c = "degraded"        -> IF is.degraded THEN 2 ELSE 0
       [] c = "gate-closed"     -> IF is.outcome = "blocked" THEN 3 ELSE 0
       [] c = "operator-paused" -> IF is.paused THEN 4 ELSE 0
       [] c = "terminal-stop"   -> IF is.stopped THEN 5 ELSE 0
       [] c = "rate-deferred"   -> IF is.eligible THEN 6 ELSE 0
       [] c = "source-wait"     -> IF is.kind = "wait" THEN 7 ELSE 0]

\* While one supervisor lives and health.json shows what it is, from the read
\* to the answer, the headline is that supervisor's: its most pressing
\* condition, and the wake-up, outcome and cycle that belong to it.
SettledIsExact ==
  [][ Answered /\ settled =>
        /\ headline'.last = state.outcome /\ headline'.cycle = state.outcome_unix
        /\ IF \E c \in DOMAIN Rank(state) : Rank(state)[c] > 0
           THEN /\ headline'.state \in DOMAIN Rank(state)
                /\ Rank(state)[headline'.state] > 0
                /\ \A c \in DOMAIN Rank(state) :
                     Rank(state)[c] > 0 => Rank(state)[headline'.state] <= Rank(state)[c]
           ELSE headline'.state \in {"running", "terminal-stop", "no-supervisor"}
        /\ headline'.state = "rate-deferred" =>
             headline'.wake = "next_eligible" /\ headline'.trigger = "rate_defer"
        /\ headline'.state = "source-wait" => headline'.trigger = "source_wait" ]_vars

\* However reads and writes interleave, whichever file is torn, stale or
\* another supervisor's: "running" is never said of a program whose last
\* supervisor has been gone for longer than the staleness limit.
NoGhostRuns ==
  [][ Answered /\ headline'.state = "running" => clock - lastAlive <= Stale ]_vars

\* When no supervisor was there from the read to the answer, and nobody this
\* user may signal had got one of the pids, a health.json that names its
\* supervisor is answered with a stop, whatever pause, wait or fault it still
\* shows.  One that cannot be read leaves a fresh sample standing for up to the
\* staleness limit, and of one without a pid nobody is asked: what it last
\* showed is reported as if its supervisor lived.
DeadIsToldDead ==
  [][ Answered /\ silent /\ ~(docRead # Unreadable /\ docRead.pid = NoPid) =>
        \/ headline'.state \in {"terminal-stop", "no-supervisor"}
        \/ headline'.state = "running" /\ docRead = Unreadable ]_vars
=============================================================================
