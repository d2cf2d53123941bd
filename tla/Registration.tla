---------------------------- MODULE Registration ----------------------------
(***************************************************************************)
(* register(): how the work source and what the programs contribute get     *)
(* into mathlint's one ProgramProviders.                                    *)
(*                                                                         *)
(* mathlint keeps one set of providers, and whoever registers replaces it   *)
(* wholesale.  The provider of the institution calls the register() of each *)
(* program of the catalog in turn, reads what they left behind and writes   *)
(* it back with its own work source.  Programs are missing, broken or       *)
(* raise, each in its own way, and are mended or broken while it goes on.    *)
(***************************************************************************)
EXTENDS Naturals, Sequences

CONSTANTS
  Research,   \* research programs
  Nobody,     \* in the place of a program or of a work source
  MaxChanges   \* bound: changes to the programs and the catalog

ASSUME RegistrationAssumption == Nobody \notin Research \union {"institution"} /\ MaxChanges \in Nat

VARIABLES
  listing,    \* the catalog, in order; <<>> also when it cannot be read
  conduct,     \* what the register() of each program does
  providers,  \* mathlint's providers: who is the work source, whose content
  todo,       \* the programs still to be called
  changes,     \* how many there were
  outcome,    \* where register() is, or how it ended
  began,      \* the catalog it read
  steady      \* the programs whose register() has worked all the while since

registrationVars == <<listing, conduct, providers, todo, changes, outcome, began, steady>>

\* A program whose entry point, module or callable is missing contributes
\* nothing.  One that raises may have registered before.
Conducts == {"missing", "registers", "raises", "registers_raises", "no_import"}

Providers == [source : {"institution", Nobody}, content : Research \union {Nobody}]

Unset == [source |-> Nobody, content |-> Nobody]

-----------------------------------------------------------------------------
(* The operator and the programs. *)

ChangeProgram(p) ==
  /\ changes < MaxChanges /\ changes' = changes + 1
  /\ \E h \in Conducts \ {conduct[p]} : conduct' = [conduct EXCEPT ![p] = h]
  /\ steady' = steady \ {p}
  /\ UNCHANGED <<listing, providers, todo, outcome, began>>

EditListing ==
  /\ changes < MaxChanges /\ changes' = changes + 1
  /\ \E p \in Research : \E q \in Research \ {p} : listing' \in {<<>>, <<p>>, <<p, q>>}
  /\ UNCHANGED <<conduct, providers, todo, outcome, began, steady>>

\* Another process, with providers of its own.
NewProcess ==
  /\ outcome # "running"
  /\ providers' = Unset /\ outcome' = "none"
  /\ UNCHANGED <<listing, conduct, todo, changes, began, steady>>

-----------------------------------------------------------------------------
(* register(). *)

\* The entry points are read from the catalog once.
Register ==
  /\ outcome # "running"
  /\ todo' = listing /\ outcome' = "running"
  /\ began' = listing /\ steady' = {p \in Research : conduct[p] = "registers"}
  /\ UNCHANGED <<listing, conduct, providers, changes>>

\* A program's register() replaces all of the providers.
Replaces(p) == providers' = [source |-> Nobody, content |-> p]

\* _call_program_register: what is missing or raises is logged and skipped.
CallProgram_AbortMutant ==
  /\ outcome = "running" /\ todo # <<>>
  /\ LET p == Head(todo) IN
     /\ conduct[p] # "no_import"
     /\ IF conduct[p] \in {"registers", "registers_raises"} THEN Replaces(p) ELSE UNCHANGED providers
     /\ todo' = IF conduct[p] = "raises" THEN <<>> ELSE Tail(todo)
  /\ UNCHANGED <<listing, conduct, changes, outcome, began, steady>>

CallProgram ==
  /\ outcome = "running" /\ todo # <<>>
  /\ LET p == Head(todo) IN
     /\ conduct[p] # "no_import"
     /\ IF conduct[p] \in {"registers", "registers_raises"} THEN Replaces(p) ELSE UNCHANGED providers
  /\ todo' = Tail(todo)
  /\ UNCHANGED <<listing, conduct, changes, outcome, began, steady>>

\* Importing the module raises something else than ImportError, a SyntaxError
\* say, and nothing catches that.
ImportRaises ==
  /\ outcome = "running" /\ todo # <<>> /\ conduct[Head(todo)] = "no_import"
  /\ outcome' = "raised" /\ todo' = <<>>
  /\ UNCHANGED <<listing, conduct, providers, changes, began, steady>>

\* _merge_work_source on the state that is there after the programs, and
\* register_program_providers.
Merge ==
  /\ outcome = "running" /\ todo = <<>>
  /\ providers' = [providers EXCEPT !.source = "institution"]
  /\ outcome' = "registered"
  /\ UNCHANGED <<listing, conduct, todo, changes, began, steady>>

RegistrationInit ==
  /\ listing = <<>> /\ conduct = [p \in Research |-> "registers"]
  /\ providers = Unset /\ todo = <<>> /\ changes = 0 /\ outcome = "none"
  /\ began = <<>> /\ steady = {}

RegistrationNext ==
  \/ (\E p \in Research : ChangeProgram(p)) \/ EditListing \/ NewProcess
  \/ Register \/ CallProgram \/ ImportRaises \/ Merge

RegistrationSpec == RegistrationInit /\ [][RegistrationNext]_registrationVars

-----------------------------------------------------------------------------
(* Properties. *)

\* Every variable has its type, and what is still to be called is the rest of
\* the catalog that was read.
RegistrationTypeOK ==
  /\ listing \in Seq(Research) /\ conduct \in [Research -> Conducts] /\ providers \in Providers
  /\ changes \in 0..MaxChanges /\ outcome \in {"none", "running", "registered", "raised"}
  /\ began \in Seq(Research) /\ todo \in Seq(Research) /\ steady \subseteq Research
  /\ todo # <<>> => outcome = "running"
  /\ Len(todo) <= Len(began)
  /\ \A i \in 1..Len(todo) : todo[i] = began[Len(began) - Len(todo) + i]

\* Neither side clobbers the other: when register() returns, the work source is
\* the institution's, and a program that was in order all the while has its
\* contributions in place, whatever the others did, unless a later one of the
\* catalog replaced them.
ComposedIsWhole ==
  outcome = "registered" =>
    /\ providers.source = "institution"
    /\ \A i \in DOMAIN began :
         began[i] \in steady => \E j \in i..Len(began) : providers.content = began[j]
=============================================================================
