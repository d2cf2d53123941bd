-------------------------- MODULE ReadinessProofs --------------------------
(***************************************************************************)
(* Proofs about Readiness, for every catalog, repository and choice of     *)
(* environments, and for any number of failures and interventions.         *)
(*                                                                         *)
(* What a complete bootstrap says of a program is established step by step *)
(* and by several runs; the proofs follow it through the runs, and through *)
(* what others do to the program meanwhile.                                *)
(***************************************************************************)
EXTENDS Readiness, SequenceTheorems, TLAPS

Available(p) == Importable(setup.interpreter, p) \/ Importable(setup.pip, p)

\* Programs of this run that are still to be cloned, and to be installed.
ToClone == IF boot.pc \in {"install", "pip", "purge"} THEN Listed(Tail(boot.todo))
           ELSE Listed(boot.todo)
ToInstall == IF boot.pc = "purge" THEN Listed(Tail(boot.todo)) ELSE Listed(boot.todo)

Established == boot.listed \ boot.disturbed

NotYetRead == boot.pc \in {"idle", "catalog"} => boot.listed = {}

\* A directory is empty while it is cloned into, and nobody relies on it.
CloningEmpty ==
  boot.pc = "cloning" =>
    Program \in present /\ files[Program] = {} /\ Program \notin covered

\* Every other directory is whole or known to be torn.
TreesKnown ==
  \A p \in present : Whole(p) \/ p \in torn \/ (boot.pc = "cloning" /\ p = Program)

CoveredKept == covered \subseteq present /\ \A p \in covered : Available(p)

ClonedSoFar == boot.ok => Established \ ToClone \subseteq present

InstalledSoFar == boot.ok => \A p \in Established \ ToInstall : Available(p)

BootOK == /\ NotYetRead /\ CloningEmpty /\ TreesKnown
          /\ CoveredKept /\ ClonedSoFar /\ InstalledSoFar

\* A program vouched for is not skipped, and a failure is not forgotten.
GateOK ==
  /\ gate.vouched \subseteq covered /\ \A p \in gate.vouched : Whole(p)
  /\ gate.ok => \A p \in Programs : gate.checks[p] # "FAIL"
  /\ \A p \in gate.vouched \ gate.skip :
       "script" \in Repository[p] => gate.checks[p] # "SKIP"
  /\ gate.verdict = "GREEN" => gate.ok
  /\ gate.pc # "idle" => gate.verdict = "none"

OneEnvironment == setup.interpreter = setup.pip /\ setup.pip = setup.start

ProbeOK ==
  /\ probe.vouched => probe.prog \in covered /\ Whole(probe.prog)
  /\ probe.vouched /\ OneEnvironment => probe.found \/ probe.unnamed
  /\ probe.kind = "no-work-selection-callable" => ~probe.found
  /\ probe.vouched /\ probe.kind = "roadmap-missing" => "roadmap" \notin Repository[probe.prog]

\* The parts of TypeOK.
WorldType ==
  /\ setup \in Setups /\ catalog \in Seq(Programs)
  /\ present \subseteq Programs /\ files \in [Programs -> SUBSET Files]
  /\ \A p \in Programs \ present : files[p] = {}
  /\ origin \in [Envs -> [Programs -> {"none", "elsewhere", "bare", "checkout"}]]
  /\ covered \subseteq Programs /\ torn \subseteq Programs /\ upsets \in Nat

BootType ==
  /\ boot \in [pc : {"idle", "catalog", "clone", "cloning", "install", "pip", "purge", "report"},
               todo : Seq(Programs), listed : SUBSET Programs,
               disturbed : SUBSET Programs, ok : BOOLEAN]
  /\ boot.pc \in {"clone", "cloning", "install", "pip", "purge"} <=> boot.todo # <<>>

GateType ==
  gate \in [pc : {"idle", "catalog", "programs"}, todo : Seq(Programs),
            skip : SUBSET Programs, checks : [Programs -> {"none", "PASS", "FAIL", "SKIP"}],
            ok : BOOLEAN, verdict : {"none", "GREEN", "RED"}, vouched : SUBSET Programs]

ProbeType ==
  probe \in [pc : {"idle", "ask"}, prog : Programs \union {NoProgram}, found : BOOLEAN,
             unnamed : BOOLEAN,
             kind : {"none", "no-work-selection-callable", "roadmap-missing", "open",
                     "no-active-work", "roadmap-failed"},
             vouched : BOOLEAN]

IInv == TypeOK /\ BootOK /\ GateOK /\ ProbeOK

-----------------------------------------------------------------------------
\* What is listed is the first program and the rest.
LEMMA ListedParts ==
  ASSUME NEW s \in Seq(Programs), s # <<>>
  PROVE  /\ Head(s) \in Programs /\ Tail(s) \in Seq(Programs)
         /\ Listed(s) = {Head(s)} \union Listed(Tail(s))
         /\ Len(s) = 1 <=> Tail(s) = <<>>
<1>1. /\ Len(s) \in Nat \ {0} /\ Head(s) = s[1] /\ Head(s) \in Programs
      /\ Tail(s) \in Seq(Programs) /\ Len(Tail(s)) = Len(s) - 1
      /\ \A i \in 1..Len(Tail(s)) : Tail(s)[i] = s[i + 1]
  BY HeadTailProperties, EmptySeq, LenProperties
<1>2. Len(s) = 1 <=> Tail(s) = <<>>
  <2>1. Len(Tail(s)) = 0 <=> Tail(s) = <<>>
    BY <1>1, EmptySeq
  <2> QED  BY <2>1, <1>1
<1>3. DOMAIN s = 1..Len(s) /\ DOMAIN Tail(s) = 1..(Len(s) - 1)
  BY <1>1, LenProperties
<1>4. Listed(s) \subseteq {Head(s)} \union Listed(Tail(s))
  <2> SUFFICES ASSUME NEW i \in DOMAIN s PROVE s[i] \in {Head(s)} \union Listed(Tail(s))
    BY DEF Listed
  <2>1. CASE i = 1
    BY <2>1, <1>1
  <2>2. CASE i # 1
    <3>1. i - 1 \in DOMAIN Tail(s) /\ Tail(s)[i - 1] = s[i]
      BY <2>2, <1>1, <1>3
    <3> QED  BY <3>1 DEF Listed
  <2> QED  BY <2>1, <2>2
<1>5. Listed(Tail(s)) \subseteq Listed(s)
  <2> SUFFICES ASSUME NEW i \in DOMAIN Tail(s) PROVE Tail(s)[i] \in Listed(s)
    BY DEF Listed
  <2>1. i + 1 \in DOMAIN s /\ Tail(s)[i] = s[i + 1]
    BY <1>1, <1>3
  <2> QED  BY <2>1 DEF Listed
<1>6. Head(s) \in Listed(s)
  BY <1>1, <1>3 DEF Listed
<1> QED  BY <1>1, <1>2, <1>4, <1>5, <1>6

LEMMA TypeParts == TypeOK <=> WorldType /\ BootType /\ GateType /\ ProbeType
  BY DEF TypeOK, WorldType, BootType, GateType, ProbeType

LEMMA InitInv == Init => IInv
<1> SUFFICES ASSUME Init PROVE IInv
  OBVIOUS
<1> USE DEF Init, Idle, NoGate, NoProbe
<1>1. TypeOK
  <2>1. catalog \in Seq(Programs) /\ <<>> \in Seq(Programs)
    BY CatalogsAssumption
  <2>2. files \in [Programs -> SUBSET Files] /\ \A p \in Programs \ present : files[p] = {}
    BY RepositoryAssumption DEF Files
  <2> QED  BY <2>1, <2>2 DEF TypeOK
<1>2. BootOK
  <2>1. TreesKnown
    BY DEF TreesKnown, Whole
  <2> QED  BY <2>1 DEF BootOK, NotYetRead, CloningEmpty, CoveredKept, ClonedSoFar,
                InstalledSoFar, Established
<1>3. GateOK /\ ProbeOK
  BY DEF GateOK, ProbeOK
<1> QED  BY <1>1, <1>2, <1>3 DEF IInv

-----------------------------------------------------------------------------
(* The askers rely on covered programs staying whole. *)

Steady ==
  /\ UNCHANGED <<setup, gate, probe>>
  /\ covered \subseteq covered'
  /\ \A p \in covered : Whole(p) => Whole(p)'

LEMMA SteadyKeeps == ASSUME IInv, Steady PROVE GateOK' /\ ProbeOK'
<1>1. GateOK'
  BY DEF IInv, Steady, GateOK
<1>2. ProbeOK'
  BY DEF IInv, Steady, ProbeOK, OneEnvironment
<1> QED  BY <1>1, <1>2

\* Steps of bootstrap that change nothing but bootstrap.
LEMMA OnlyBoot ==
  ASSUME IInv, UNCHANGED <<machine, gate, probe, history>>
  PROVE  /\ Steady /\ UNCHANGED <<present, files, covered, torn>>
         /\ \A p \in Programs : Available(p)' <=> Available(p)
         /\ \A p \in Programs : Whole(p)' <=> Whole(p)
  BY DEF machine, history, Steady, Whole, Available, Importable

-----------------------------------------------------------------------------
(* Bootstrap, step by step. *)

LEMMA StillTyped ==
  ASSUME IInv, UNCHANGED <<machine, gate, probe, history>>, upsets' \in Nat, BootType'
  PROVE  TypeOK'
<1>1. WorldType' /\ GateType' /\ ProbeType'
  BY TypeParts DEF IInv, WorldType, GateType, ProbeType, machine, history
<1> QED  BY <1>1 DEF TypeOK, WorldType, BootType, GateType, ProbeType

LEMMA DevDepsKeeps == ASSUME IInv, DevDeps PROVE TypeOK' /\ BootOK' /\ Steady
<1>1. UNCHANGED <<machine, gate, probe, history>>
  BY DEF DevDeps
<1>2. /\ boot'.pc = "catalog" /\ boot'.todo = <<>> /\ boot'.listed = {}
      /\ boot'.disturbed = {} /\ boot'.ok \in BOOLEAN /\ upsets' \in Nat
      /\ boot' = [pc |-> "catalog", todo |-> <<>>, listed |-> {}, disturbed |-> {}, ok |-> boot'.ok]
  <2>1. \E ok \in BOOLEAN : boot' = [pc |-> "catalog", todo |-> <<>>, listed |-> {},
                                    disturbed |-> {}, ok |-> ok]
    BY DEF DevDeps, Idle
  <2>2. upsets' \in Nat
    BY DEF DevDeps, Calm, Upset, IInv, TypeOK
  <2> QED  BY <2>1, <2>2
<1>3. TypeOK'
  <2>1. <<>> \in Seq(Programs)
    BY EmptySeq
  <2>2. BootType'
    BY <1>2, <2>1 DEF BootType
  <2> QED  BY <1>1, <1>2, <2>2, StillTyped
<1>4. BootOK'
  BY <1>1, <1>2, OnlyBoot DEF IInv, TypeOK, BootOK, NotYetRead, CloningEmpty, TreesKnown,
    CoveredKept, ClonedSoFar, InstalledSoFar, Established, DevDeps
<1> QED  BY <1>1, <1>3, <1>4, OnlyBoot

LEMMA ReadCatalogKeeps == ASSUME IInv, ReadCatalog PROVE TypeOK' /\ BootOK' /\ Steady
<1>1. UNCHANGED <<machine, gate, probe, history>> /\ upsets' \in Nat
  BY DEF ReadCatalog, IInv, TypeOK
<1>2. /\ boot' = [boot EXCEPT !.pc = boot'.pc, !.todo = catalog, !.listed = Listed(catalog)]
      /\ boot'.pc = IF catalog = <<>> THEN "report" ELSE "clone"
      /\ boot'.todo = catalog /\ boot'.listed = Listed(catalog)
  BY DEF ReadCatalog, IInv, TypeOK
<1>3. Listed(catalog) \subseteq Programs
  BY DEF IInv, TypeOK, Listed
<1>4. TypeOK'
  <2>1. BootType'
    BY <1>2, <1>3, TypeParts DEF IInv, BootType, WorldType
  <2> QED  BY <1>1, <2>1, StillTyped
<1>5. ToClone' = Listed(catalog) /\ ToInstall' = Listed(catalog)
  <2>1. boot'.pc \in {"report", "clone"}
    BY <1>2
  <2> QED  BY <1>2, <2>1 DEF ToClone, ToInstall
<1>6. BootOK'
  BY <1>1, <1>2, <1>5, OnlyBoot DEF IInv, TypeOK, BootOK, NotYetRead, CloningEmpty, TreesKnown,
    CoveredKept, ClonedSoFar, InstalledSoFar, Established, ReadCatalog
<1> QED  BY <1>1, <1>4, <1>6, OnlyBoot

\* The program bootstrap is at, and those it has left.
LEMMA AtProgram ==
  ASSUME IInv, boot.pc \in {"clone", "cloning", "install", "pip", "purge"}
  PROVE  /\ boot.todo \in Seq(Programs) /\ boot.todo # <<>>
         /\ Program \in Programs /\ Tail(boot.todo) \in Seq(Programs)
         /\ Listed(boot.todo) = {Program} \union Listed(Tail(boot.todo))
         /\ Len(boot.todo) = 1 <=> Tail(boot.todo) = <<>>
<1>1. boot.todo \in Seq(Programs) /\ boot.todo # <<>>
  BY DEF IInv, TypeOK
<1> QED  BY <1>1, ListedParts DEF Program

\* The program is there: done with cloning.
LEMMA AlreadyPresentKeeps == ASSUME IInv, AlreadyPresent PROVE TypeOK' /\ BootOK' /\ Steady
<1>1. UNCHANGED <<machine, gate, probe, history>> /\ upsets' \in Nat
  BY DEF AlreadyPresent, IInv, TypeOK
<1>2. /\ boot.pc = "clone" /\ Program \in present
      /\ boot' = [boot EXCEPT !.pc = "install"]
  BY DEF AlreadyPresent, Step
<1>3. boot'.pc = "install" /\ UNCHANGED <<boot.todo, boot.listed, boot.disturbed, boot.ok>>
  BY <1>2 DEF IInv, TypeOK
<1>4. TypeOK'
  <2>1. BootType'
    BY <1>2, <1>3, TypeParts DEF IInv, BootType, WorldType
  <2> QED  BY <1>1, <2>1, StillTyped
<1>5. ToClone \subseteq ToClone' \union {Program} /\ ToInstall' = ToInstall
  BY <1>2, <1>3, AtProgram DEF ToClone, ToInstall
<1>6. BootOK'
  BY <1>1, <1>2, <1>3, <1>5, OnlyBoot, AtProgram DEF IInv, TypeOK, BootOK, NotYetRead, CloningEmpty,
    TreesKnown, CoveredKept, ClonedSoFar, InstalledSoFar, Established
<1> QED  BY <1>1, <1>4, <1>6, OnlyBoot

\* Steps past cloning that change only where bootstrap is, or fail the report.
LEMMA InstallStepKeeps ==
  ASSUME IInv, AlreadyImportable \/ NothingToInstall \/ PipBegins \/ PipFails
  PROVE  TypeOK' /\ BootOK' /\ Steady
<1>1. UNCHANGED <<machine, gate, probe, history>> /\ upsets' \in Nat
  BY DEF AlreadyImportable, NothingToInstall, PipBegins, PipFails, Calm, Upset, IInv, TypeOK
<1>2. /\ boot.pc \in {"install", "pip"} /\ boot'.pc \in {"pip", "purge"}
      /\ boot' = [boot EXCEPT !.pc = boot'.pc, !.ok = boot'.ok]
      /\ boot'.ok \in BOOLEAN /\ (boot'.ok => boot.ok)
      /\ boot'.pc = "purge" /\ boot'.ok => Importable(setup.interpreter, Program)
  BY DEF AlreadyImportable, NothingToInstall, PipBegins, PipFails, Step, Failed, IInv, TypeOK
<1>3. UNCHANGED <<boot.todo, boot.listed, boot.disturbed>>
  BY <1>2 DEF IInv, TypeOK
<1>4. TypeOK'
  <2>1. BootType'
    <3>1. BootType /\ boot.todo # <<>>
      BY <1>2, TypeParts DEF IInv, BootType
    <3>2. boot'.pc \in {"pip", "purge"} /\ boot'.ok \in BOOLEAN
      BY <1>2
    <3>3. boot' = [boot EXCEPT !.pc = boot'.pc, !.ok = boot'.ok]
      BY <1>2
    <3> QED  BY <1>3, <3>1, <3>2, <3>3 DEF BootType
  <2> QED  BY <1>1, <2>1, StillTyped
<1>5. ToClone' = ToClone
  BY <1>2, <1>3 DEF ToClone
<1>6. ToInstall \subseteq ToInstall' \union (IF boot'.pc = "purge" THEN {Program} ELSE {})
  BY <1>2, <1>3, AtProgram DEF ToInstall
<1>7. boot'.pc = "purge" /\ boot'.ok => Available(Program)
  BY <1>2 DEF Available
<1>8. InstalledSoFar'
  <2> SUFFICES ASSUME boot'.ok, NEW p \in (Established \ ToInstall)' PROVE Available(p)'
    BY DEF InstalledSoFar
  <2>1. p \in Established /\ p \in Programs
    BY <1>3 DEF Established, IInv, TypeOK
  <2>2. CASE p \in ToInstall
    BY <2>1, <2>2, <1>1, <1>6, <1>7, OnlyBoot
  <2>3. CASE p \notin ToInstall
    BY <2>1, <2>3, <1>1, <1>2, OnlyBoot DEF IInv, BootOK, InstalledSoFar
  <2> QED  BY <2>2, <2>3
<1>9. BootOK'
  BY <1>1, <1>2, <1>3, <1>5, <1>8, OnlyBoot DEF IInv, TypeOK, BootOK, NotYetRead, CloningEmpty,
    TreesKnown, CoveredKept, ClonedSoFar, Established
<1> QED  BY <1>1, <1>4, <1>9, OnlyBoot

LEMMA TypedAnew ==
  ASSUME IInv, UNCHANGED <<gate, probe>>, WorldType', BootType'
  PROVE  TypeOK'
<1>1. GateType' /\ ProbeType'
  BY TypeParts DEF IInv, GateType, ProbeType
<1> QED  BY <1>1 DEF TypeOK, WorldType, BootType, GateType, ProbeType

LEMMA CloneBeginsKeeps == ASSUME IInv, CloneBegins PROVE TypeOK' /\ BootOK' /\ Steady
<1>1. /\ boot.pc = "clone" /\ Program \notin present /\ present' = present \union {Program}
      /\ boot' = [boot EXCEPT !.pc = "cloning"]
      /\ UNCHANGED <<setup, catalog, files, origin, gate, probe, covered, torn, upsets>>
  BY DEF CloneBegins, Step, history
<1>2. /\ boot'.pc = "cloning" /\ Program' = Program
      /\ UNCHANGED <<boot.todo, boot.listed, boot.disturbed, boot.ok>>
  BY <1>1 DEF IInv, TypeOK, Program
<1>3. Program \in Programs /\ files[Program] = {} /\ Program \notin covered
  BY <1>1, AtProgram DEF IInv, TypeOK, BootOK, CoveredKept
<1>4. TypeOK'
  <2>1. WorldType'
    BY <1>1, <1>3, TypeParts DEF IInv, WorldType
  <2>2. BootType'
    BY <1>1, <1>2, TypeParts DEF IInv, BootType
  <2> QED  BY <1>1, <2>1, <2>2, TypedAnew
<1>5. ToClone' = ToClone /\ ToInstall' = ToInstall /\ Established' = Established
  BY <1>1, <1>2 DEF ToClone, ToInstall, Established
<1>6. /\ \A p \in Programs : Available(p)' <=> Available(p)
      /\ \A p \in present : Whole(p) => Whole(p)'
  BY <1>1 DEF Available, Importable, Whole
<1>7. TreesKnown'
  BY <1>1, <1>2, <1>6 DEF IInv, BootOK, TreesKnown
<1>8. BootOK'
  BY <1>1, <1>2, <1>3, <1>5, <1>6, <1>7 DEF IInv, TypeOK, BootOK, NotYetRead, CloningEmpty,
    CoveredKept, ClonedSoFar, InstalledSoFar, Established
<1>9. Steady
  BY <1>1 DEF Steady, Whole
<1> QED  BY <1>4, <1>8, <1>9

LEMMA CloneEndsKeeps == ASSUME IInv, CloneEnds PROVE TypeOK' /\ BootOK' /\ Steady
<1>1. /\ boot.pc = "cloning"
      /\ files' = [files EXCEPT ![Program] = Repository[Program]]
      /\ boot' = [boot EXCEPT !.pc = "install"]
      /\ UNCHANGED <<setup, catalog, present, origin, gate, probe, covered, torn, upsets>>
  BY DEF CloneEnds, Step, history
<1>2. boot'.pc = "install" /\ UNCHANGED <<boot.todo, boot.listed, boot.disturbed, boot.ok>>
  BY <1>1 DEF IInv, TypeOK
<1>3. Program \in Programs /\ Program \in present /\ files[Program] = {} /\ Program \notin covered
  BY <1>1, AtProgram DEF IInv, BootOK, CloningEmpty
<1>4. TypeOK'
  <2>1. Repository[Program] \in SUBSET Files
    BY <1>3, RepositoryAssumption
  <2>2. WorldType'
    BY <1>1, <1>3, <2>1, TypeParts DEF IInv, WorldType
  <2>3. BootType'
    BY <1>1, <1>2, TypeParts DEF IInv, BootType
  <2> QED  BY <1>1, <2>2, <2>3, TypedAnew
<1>5. /\ ToClone \subseteq ToClone' \union {Program} /\ ToInstall' = ToInstall
      /\ Established' = Established
  BY <1>1, <1>2, AtProgram DEF ToClone, ToInstall, Established
<1>6. \A p \in Programs : (Available(p) => Available(p)') /\ (Whole(p) => Whole(p)')
  BY <1>1, <1>3 DEF Available, Importable, Whole, IInv, TypeOK
<1>7. TreesKnown'
  <2>1. Program \in present' /\ files'[Program] = Repository[Program]
    BY <1>1, <1>3 DEF IInv, TypeOK
  <2>2. Repository[Program] \subseteq files'[Program]
    BY <2>1
  <2>3. present' \subseteq Programs
    BY <1>4 DEF TypeOK
  <2>4. \A p \in present' : p # Program => Whole(p)' \/ p \in torn'
    BY <1>1, <1>6, <2>3 DEF IInv, BootOK, TreesKnown
  <2>5. \A p \in present' : Whole(p)' \/ p \in torn'
    BY <2>1, <2>2, <2>4 DEF Whole
  <2> QED  BY <2>5 DEF TreesKnown
<1>8. BootOK'
  BY <1>1, <1>2, <1>3, <1>5, <1>6, <1>7 DEF IInv, TypeOK, BootOK, NotYetRead, CloningEmpty,
    CoveredKept, ClonedSoFar, InstalledSoFar, Established
<1>9. Steady
  BY <1>1, <1>6 DEF Steady, IInv, TypeOK
<1> QED  BY <1>4, <1>8, <1>9

\* Whatever a broken clone leaves, nobody relied on what was there before.
LEMMA CloneBreaksKeeps ==
  ASSUME IInv, boot.pc = "cloning", CloneBreaks,
         UNCHANGED <<setup, catalog, origin, gate, probe, covered>>, upsets' \in Nat
  PROVE  /\ WorldType' /\ Steady /\ covered' \subseteq present'
         /\ \A p \in Programs : Available(p) => Available(p)'
         /\ \A p \in present' : Whole(p)' \/ p \in torn'
<1>1. /\ Program \in Programs /\ Program \in present /\ files[Program] = {}
      /\ Program \notin covered /\ covered \subseteq present
  BY AtProgram DEF IInv, BootOK, CloningEmpty, CoveredKept
<1>2. \A p \in present : p # Program => Whole(p) \/ p \in torn
  BY DEF IInv, BootOK, TreesKnown
<1>3. CASE present' = present \ {Program} /\ UNCHANGED <<files, torn>>
  <2>1. WorldType'
    BY <1>1, <1>3, TypeParts DEF IInv, WorldType
  <2>2. \A p \in Programs : (Available(p) => Available(p)')
                            /\ (p # Program /\ Whole(p) => Whole(p)')
    BY <1>3 DEF Available, Importable, Whole
  <2> QED  BY <1>1, <1>2, <1>3, <2>1, <2>2 DEF Steady, IInv, TypeOK
<1>4. CASE \E some \in SUBSET Repository[Program] :
             /\ files' = [files EXCEPT ![Program] = some]
             /\ torn' = torn \union {Program}
             /\ UNCHANGED present
  <2>1. PICK some \in SUBSET Repository[Program] :
          /\ files' = [files EXCEPT ![Program] = some]
          /\ torn' = torn \union {Program} /\ UNCHANGED present
    BY <1>4
  <2>2. some \in SUBSET Files
    BY <1>1, RepositoryAssumption
  <2>3. WorldType'
    BY <1>1, <2>1, <2>2, TypeParts DEF IInv, WorldType
  <2>4. \A p \in Programs : (Available(p) => Available(p)')
                            /\ (p # Program /\ Whole(p) => Whole(p)')
    BY <1>1, <2>1 DEF Available, Importable, Whole, IInv, TypeOK
  <2> QED  BY <1>1, <1>2, <2>1, <2>3, <2>4 DEF Steady, IInv, TypeOK
<1> QED  BY <1>3, <1>4 DEF CloneBreaks

LEMMA CloneFailsKeeps == ASSUME IInv, CloneFails PROVE TypeOK' /\ BootOK' /\ Steady
<1>1. /\ boot.pc = "cloning" /\ CloneBreaks
      /\ boot' = [boot EXCEPT !.pc = "install", !.ok = FALSE]
      /\ UNCHANGED <<setup, catalog, origin, gate, probe, covered>> /\ upsets' \in Nat
  BY DEF CloneFails, Failed, Upset, IInv, TypeOK
<1>2. boot'.pc = "install" /\ ~boot'.ok /\ UNCHANGED <<boot.todo, boot.listed, boot.disturbed>>
  BY <1>1 DEF IInv, TypeOK
<1>3. /\ WorldType' /\ Steady /\ covered' \subseteq present'
      /\ \A p \in Programs : Available(p) => Available(p)'
      /\ \A p \in present' : Whole(p)' \/ p \in torn'
  BY <1>1, CloneBreaksKeeps
<1>4. BootType'
  BY <1>1, <1>2, TypeParts DEF IInv, BootType
<1>5. TypeOK'
  BY <1>1, <1>3, <1>4, TypedAnew
<1>6. BootOK'
  BY <1>1, <1>2, <1>3 DEF IInv, TypeOK, BootOK, NotYetRead, CloningEmpty, TreesKnown,
    CoveredKept, ClonedSoFar, InstalledSoFar
<1> QED  BY <1>3, <1>5, <1>6

LEMMA PipLinksKeeps ==
  ASSUME IInv, boot.pc = "pip", PipLinks,
         UNCHANGED <<setup, catalog, present, files, gate, probe, covered, torn>>, upsets' \in Nat
  PROVE  /\ WorldType' /\ Steady
         /\ \A p \in Programs : (Available(p) \/ p = Program => Available(p)')
                                /\ (Whole(p) <=> Whole(p)')
<1>1. /\ Program \in Programs /\ setup.pip \in Envs /\ "package" \in files[Program]
      /\ origin' = [origin EXCEPT ![setup.pip][Program] = "checkout"]
  BY AtProgram, SetupsAssumption DEF PipLinks, IInv, TypeOK
<1>2. WorldType'
  BY <1>1, TypeParts DEF IInv, WorldType
<1>3. \A p \in Programs : Whole(p) <=> Whole(p)'
  BY DEF Whole
<1>4. ASSUME NEW p \in Programs, Available(p) \/ p = Program PROVE Available(p)'
  <2>1. \A env \in Envs : origin'[env][p] = IF env = setup.pip /\ p = Program
                                            THEN "checkout" ELSE origin[env][p]
    BY <1>1 DEF IInv, TypeOK
  <2>2. setup.interpreter \in Envs
    BY SetupsAssumption DEF IInv, TypeOK
  <2> QED  BY <1>1, <1>4, <2>1, <2>2 DEF Available, Importable
<1>5. Steady
  BY <1>3 DEF Steady, IInv, TypeOK
<1> QED  BY <1>2, <1>3, <1>4, <1>5

LEMMA PipEndsKeeps == ASSUME IInv, PipEnds PROVE TypeOK' /\ BootOK' /\ Steady
<1>1. /\ boot.pc = "pip" /\ PipLinks /\ boot' = [boot EXCEPT !.pc = "purge"]
      /\ UNCHANGED <<setup, catalog, present, files, gate, probe, covered, torn>>
      /\ upsets' \in Nat
  BY DEF PipEnds, Step, history, IInv, TypeOK
<1>2. boot'.pc = "purge" /\ UNCHANGED <<boot.todo, boot.listed, boot.disturbed, boot.ok>>
  BY <1>1 DEF IInv, TypeOK
<1>3. /\ WorldType' /\ Steady
      /\ \A p \in Programs : (Available(p) \/ p = Program => Available(p)')
                             /\ (Whole(p) <=> Whole(p)')
  BY <1>1, PipLinksKeeps
<1>4. BootType'
  BY <1>1, <1>2, TypeParts DEF IInv, BootType
<1>5. TypeOK'
  BY <1>1, <1>3, <1>4, TypedAnew
<1>6. /\ ToClone' = ToClone /\ ToInstall \subseteq ToInstall' \union {Program}
      /\ Established' = Established
  BY <1>1, <1>2, AtProgram DEF ToClone, ToInstall, Established
<1>7. BootOK'
  BY <1>1, <1>2, <1>3, <1>6 DEF IInv, TypeOK, BootOK, NotYetRead, CloningEmpty, TreesKnown,
    CoveredKept, ClonedSoFar, InstalledSoFar, Established
<1> QED  BY <1>3, <1>5, <1>7

\* Nothing that a repository has is purged.
LEMMA PurgeKeeps == ASSUME IInv, Purge PROVE TypeOK' /\ BootOK' /\ Steady
<1>1. PICK gone \in SUBSET {"build"} :
        /\ boot.pc = "purge" /\ files' = [files EXCEPT ![Program] = @ \ gone]
        /\ boot' = [boot EXCEPT !.pc = IF Len(boot.todo) = 1 THEN "report" ELSE "clone",
                                !.todo = Tail(@)]
        /\ UNCHANGED <<setup, catalog, present, origin, gate, probe, covered, torn, upsets>>
  BY DEF Purge, history
<1>2. /\ boot'.pc \in {"report", "clone"} /\ boot'.todo = Tail(boot.todo)
      /\ boot'.pc = "report" <=> Len(boot.todo) = 1
      /\ UNCHANGED <<boot.listed, boot.disturbed, boot.ok>>
  BY <1>1 DEF IInv, TypeOK
<1>3. Program \in Programs
  BY <1>1, AtProgram
<1>4. \A p \in Programs : files'[p] = files[p] \/ files'[p] = files[p] \ gone
  BY <1>1 DEF IInv, TypeOK
<1>5. \A p \in Programs : (Available(p) <=> Available(p)') /\ (Whole(p) <=> Whole(p)')
  BY <1>1, <1>4, RepositoryAssumption DEF Available, Importable, Whole
<1>6. WorldType'
  BY <1>1, <1>3, TypeParts DEF IInv, WorldType
<1>7. BootType'
  <2>1. Tail(boot.todo) \in Seq(Programs) /\ (Len(boot.todo) = 1 <=> Tail(boot.todo) = <<>>)
    BY <1>1, AtProgram
  <2>2. BootType
    BY TypeParts DEF IInv
  <2> QED  BY <1>1, <1>2, <2>1, <2>2 DEF BootType
<1>8. TypeOK'
  BY <1>1, <1>6, <1>7, TypedAnew
<1>9. ToClone' = ToClone /\ ToInstall' = ToInstall /\ Established' = Established
  BY <1>1, <1>2 DEF ToClone, ToInstall, Established
<1>10. BootOK'
  BY <1>1, <1>2, <1>5, <1>9 DEF IInv, TypeOK, BootOK, NotYetRead, CloningEmpty, TreesKnown,
    CoveredKept, ClonedSoFar, InstalledSoFar, Established
<1>11. Steady
  BY <1>1, <1>5 DEF Steady, IInv, TypeOK
<1> QED  BY <1>8, <1>10, <1>11

\* All listed programs are done with; those left alone are there and available.
LEMMA ReportKeeps == ASSUME IInv, Report PROVE TypeOK' /\ BootOK' /\ Steady
<1>1. /\ boot.pc = "report" /\ boot' = Idle
      /\ covered' = IF boot.ok THEN covered \union Established ELSE covered
      /\ UNCHANGED <<setup, catalog, present, files, origin, gate, probe, torn, upsets>>
  BY DEF Report, Established, machine
<1>2. /\ boot'.pc = "idle" /\ boot'.listed = {} /\ boot'.todo = <<>>
      /\ boot'.disturbed = {} /\ boot'.ok
  BY <1>1 DEF Idle
<1>3. boot.todo = <<>> /\ Established \subseteq Programs
  BY <1>1 DEF IInv, TypeOK, Established
<1>4. ToClone = {} /\ ToInstall = {}
  BY <1>1, <1>3 DEF ToClone, ToInstall, Listed
<1>5. boot.ok => Established \subseteq present /\ \A p \in Established : Available(p)
  BY <1>4 DEF IInv, BootOK, ClonedSoFar, InstalledSoFar
<1>6. \A p \in Programs : (Available(p) <=> Available(p)') /\ (Whole(p) <=> Whole(p)')
  BY <1>1 DEF Available, Importable, Whole
<1>7. TypeOK'
  <2>1. WorldType'
    BY <1>1, <1>3, TypeParts DEF IInv, WorldType
  <2>2. <<>> \in Seq(Programs)
    BY EmptySeq
  <2>3. BootType'
    BY <1>1, <2>2 DEF BootType, Idle
  <2> QED  BY <1>1, <2>1, <2>3, TypedAnew
<1>8. BootOK'
  BY <1>1, <1>2, <1>3, <1>5, <1>6 DEF IInv, TypeOK, BootOK, NotYetRead, CloningEmpty, TreesKnown,
    CoveredKept, ClonedSoFar, InstalledSoFar, Established
<1>9. Steady
  BY <1>1, <1>6 DEF Steady, IInv, TypeOK
<1> QED  BY <1>7, <1>8, <1>9

LEMMA KillKeeps == ASSUME IInv, Kill PROVE TypeOK' /\ BootOK' /\ Steady
<1>1. /\ boot' = Idle /\ upsets' \in Nat
      /\ UNCHANGED <<setup, catalog, gate, probe, covered>>
  BY DEF Kill, Upset, IInv, TypeOK
<1>2. /\ boot'.pc = "idle" /\ boot'.listed = {} /\ boot'.disturbed = {}
  BY <1>1 DEF Idle
<1>3. /\ WorldType' /\ Steady /\ covered' \subseteq present'
      /\ \A p \in Programs : Available(p) => Available(p)'
      /\ \A p \in present' : Whole(p)' \/ p \in torn'
  <2>1. CASE boot.pc = "cloning" /\ CloneBreaks /\ UNCHANGED origin
    BY <1>1, <2>1, CloneBreaksKeeps
  <2>2. CASE boot.pc = "pip" /\ PipLinks /\ UNCHANGED <<present, files, torn>>
    <3>1. /\ WorldType' /\ Steady
          /\ \A p \in Programs : (Available(p) \/ p = Program => Available(p)')
                                 /\ (Whole(p) <=> Whole(p)')
      BY <1>1, <2>2, PipLinksKeeps
    <3> QED  BY <1>1, <2>2, <3>1 DEF IInv, TypeOK, BootOK, CoveredKept, TreesKnown
  <2>3. CASE boot.pc # "cloning" /\ UNCHANGED <<present, files, torn, origin>>
    <3>1. WorldType'
      BY <1>1, <2>3, TypeParts DEF IInv, WorldType
    <3>2. \A p \in Programs : (Available(p) <=> Available(p)') /\ (Whole(p) <=> Whole(p)')
      BY <1>1, <2>3 DEF Available, Importable, Whole
    <3>3. Steady
      BY <1>1, <3>2 DEF Steady, IInv, TypeOK
    <3> QED  BY <1>1, <2>3, <3>1, <3>2, <3>3 DEF IInv, TypeOK, BootOK, CoveredKept, TreesKnown
  <2> QED  BY <2>1, <2>2, <2>3 DEF Kill
<1>4. TypeOK'
  <2>1. <<>> \in Seq(Programs)
    BY EmptySeq
  <2>2. BootType'
    BY <1>1, <2>1 DEF BootType, Idle
  <2> QED  BY <1>1, <1>3, <2>2, TypedAnew
<1>5. BootOK'
  BY <1>1, <1>2, <1>3 DEF IInv, TypeOK, BootOK, NotYetRead, CloningEmpty, TreesKnown,
    CoveredKept, ClonedSoFar, InstalledSoFar, Established
<1> QED  BY <1>3, <1>4, <1>5

LEMMA BootstrapKeeps == ASSUME IInv, Bootstrap PROVE IInv'
<1>1. TypeOK' /\ BootOK' /\ Steady
  BY DevDepsKeeps, ReadCatalogKeeps, AlreadyPresentKeeps, CloneBeginsKeeps, CloneEndsKeeps,
     CloneFailsKeeps, InstallStepKeeps, PipEndsKeeps, PurgeKeeps, ReportKeeps, KillKeeps
  DEF Bootstrap
<1> QED  BY <1>1, SteadyKeeps DEF IInv

-----------------------------------------------------------------------------
(* The gate and start's question leave everything else alone. *)

LEMMA OnlyAskers ==
  ASSUME IInv, UNCHANGED <<machine, boot, history, upsets>>, GateType', ProbeType'
  PROVE  /\ TypeOK' /\ BootOK' /\ UNCHANGED <<setup, present, files, origin, covered>>
         /\ \A p \in Programs : Whole(p)' <=> Whole(p)
<1>1. UNCHANGED <<setup, catalog, present, files, origin, covered, torn>>
  BY DEF machine, history
<1>2. TypeOK'
  BY <1>1, TypeParts DEF IInv, TypeOK, WorldType, BootType, GateType, ProbeType
<1>3. Program' = Program
  BY DEF Program
<1>4. \A p \in Programs : (Available(p) <=> Available(p)') /\ (Whole(p) <=> Whole(p)')
  BY <1>1 DEF Available, Importable, Whole
<1>5. ToClone' = ToClone /\ ToInstall' = ToInstall /\ Established' = Established
  BY DEF ToClone, ToInstall, Established
<1>6. BootOK'
  BY <1>1, <1>3, <1>4, <1>5 DEF IInv, TypeOK, BootOK, NotYetRead, CloningEmpty, TreesKnown,
    CoveredKept, ClonedSoFar, InstalledSoFar, Established
<1> QED  BY <1>1, <1>2, <1>4, <1>6

LEMMA NoProbeTyped == NoProbe \in [pc : {"idle", "ask"}, prog : Programs \union {NoProgram},
             found : BOOLEAN, unnamed : BOOLEAN,
             kind : {"none", "no-work-selection-callable", "roadmap-missing", "open",
                     "no-active-work", "roadmap-failed"},
             vouched : BOOLEAN]
  BY DEF NoProbe

LEMMA NoGateTyped == NoGate \in [pc : {"idle", "catalog", "programs"}, todo : Seq(Programs),
            skip : SUBSET Programs, checks : [Programs -> {"none", "PASS", "FAIL", "SKIP"}],
            ok : BOOLEAN, verdict : {"none", "GREEN", "RED"}, vouched : SUBSET Programs]
<1>1. <<>> \in Seq(Programs)
  BY EmptySeq
<1> QED  BY <1>1 DEF NoGate

LEMMA GateBeginsKeeps == ASSUME IInv, GateBegins PROVE IInv'
<1>1. PICK tools \in Toolings, skip \in Skips :
        gate' = [NoGate EXCEPT !.pc = "catalog", !.skip = skip,
                               !.ok = "FAIL" \notin FixedChecks(tools),
                               !.vouched = {p \in covered : Whole(p)}]
  BY DEF GateBegins
<1>2. probe' = NoProbe /\ UNCHANGED <<machine, boot, history, upsets>>
  BY DEF GateBegins
<1>3. /\ gate'.verdict = "none" /\ gate'.checks = [p \in Programs |-> "none"]
      /\ gate'.vouched = {p \in covered : Whole(p)}
  BY <1>1 DEF NoGate
<1>4. covered \subseteq Programs /\ skip \in SUBSET Programs
  BY SkipsAssumption DEF IInv, TypeOK
<1>5. GateType' /\ ProbeType'
  <2>1. GateType'
    BY <1>1, <1>4, NoGateTyped DEF GateType
  <2>2. ProbeType'
    BY <1>2, NoProbeTyped DEF ProbeType
  <2> QED  BY <2>1, <2>2
<1>6. /\ TypeOK' /\ BootOK' /\ UNCHANGED <<setup, present, files, origin, covered>>
      /\ \A p \in Programs : Whole(p)' <=> Whole(p)
  BY <1>2, <1>5, OnlyAskers
<1>7. GateOK'
  BY <1>3, <1>4, <1>6 DEF GateOK
<1>8. ProbeOK'
  BY <1>2 DEF ProbeOK, NoProbe
<1> QED  BY <1>6, <1>7, <1>8 DEF IInv

LEMMA GateReadsKeeps == ASSUME IInv, GateReads PROVE IInv'
<1>1. /\ gate.pc = "catalog" /\ gate' = [gate EXCEPT !.pc = "programs", !.todo = catalog]
      /\ UNCHANGED <<machine, boot, probe, history, upsets>>
  BY DEF GateReads
<1>2. UNCHANGED <<gate.skip, gate.checks, gate.ok, gate.verdict, gate.vouched>>
  BY <1>1 DEF IInv, TypeOK
<1>3. GateType' /\ ProbeType'
  BY <1>1, TypeParts DEF IInv, WorldType, GateType, ProbeType
<1>4. /\ TypeOK' /\ BootOK' /\ UNCHANGED <<setup, present, files, origin, covered>>
      /\ \A p \in Programs : Whole(p)' <=> Whole(p)
  BY <1>1, <1>3, OnlyAskers
<1>5. GateOK' /\ ProbeOK'
  BY <1>1, <1>2, <1>4 DEF IInv, TypeOK, GateOK, ProbeOK, OneEnvironment
<1> QED  BY <1>4, <1>5 DEF IInv

\* A whole checkout is not skipped for want of a directory or of its script.
LEMMA ProgramCheckKeeps == ASSUME IInv, ProgramCheck PROVE IInv'
<1> DEFINE p == Head(gate.todo)
<1>1. PICK status \in Outcomes(p) :
        gate' = [gate EXCEPT !.todo = Tail(@), !.checks[p] = status,
                             !.ok = @ /\ status # "FAIL"]
  BY DEF ProgramCheck
<1>2. /\ gate.pc = "programs" /\ gate.todo # <<>>
      /\ UNCHANGED <<machine, boot, probe, history, upsets>>
  BY DEF ProgramCheck
<1>3. p \in Programs /\ Tail(gate.todo) \in Seq(Programs)
  BY <1>2, ListedParts DEF IInv, TypeOK
<1>4. status \in {"PASS", "FAIL", "SKIP"}
  BY <1>1 DEF Outcomes
<1>5. p \in gate.vouched \ gate.skip /\ "script" \in Repository[p] => status # "SKIP"
  BY <1>1 DEF Outcomes, IInv, GateOK, Whole
<1> HIDE DEF p
<1>6. /\ gate'.checks = [gate.checks EXCEPT ![p] = status]
      /\ gate'.ok = (gate.ok /\ status # "FAIL")
      /\ UNCHANGED <<gate.skip, gate.verdict, gate.vouched>>
      /\ gate'.todo = Tail(gate.todo)
      /\ gate' = [gate EXCEPT !.todo = Tail(gate.todo), !.checks = gate'.checks, !.ok = gate'.ok]
  BY <1>1 DEF IInv, TypeOK
<1>7. GateType' /\ ProbeType'
  <2>1. gate'.checks \in [Programs -> {"none", "PASS", "FAIL", "SKIP"}]
    <3>1. gate.checks \in [Programs -> {"none", "PASS", "FAIL", "SKIP"}]
      BY DEF IInv, TypeOK
    <3> QED  BY <1>3, <1>4, <1>6, <3>1
  <2>2. gate'.ok \in BOOLEAN
    BY <1>6
  <2> QED  BY <1>2, <1>3, <1>6, <2>1, <2>2, TypeParts DEF IInv, GateType, ProbeType
<1>8. /\ TypeOK' /\ BootOK' /\ UNCHANGED <<setup, present, files, origin, covered>>
      /\ \A q \in Programs : Whole(q)' <=> Whole(q)
  BY <1>2, <1>7, OnlyAskers
<1>9. \A q \in Programs : gate'.checks[q] = IF q = p THEN status ELSE gate.checks[q]
  BY <1>6 DEF IInv, TypeOK
<1>10. GateOK'
  <2>1. gate'.vouched \subseteq covered' /\ \A q \in gate'.vouched : Whole(q)'
    BY <1>6, <1>8 DEF IInv, TypeOK, GateOK
  <2>2. gate'.ok => \A q \in Programs : gate'.checks[q] # "FAIL"
    BY <1>6, <1>9 DEF IInv, GateOK
  <2>3. \A q \in gate'.vouched \ gate'.skip :
          "script" \in Repository[q] => gate'.checks[q] # "SKIP"
    BY <1>5, <1>6, <1>9 DEF IInv, TypeOK, GateOK
  <2>4. gate'.verdict = "GREEN" => gate'.ok
    BY <1>2, <1>6 DEF IInv, GateOK
  <2>5. gate'.pc # "idle" => gate'.verdict = "none"
    BY <1>2, <1>6 DEF IInv, GateOK
  <2> QED  BY <2>1, <2>2, <2>3, <2>4, <2>5 DEF GateOK
<1>11. ProbeOK'
  BY <1>2, <1>8 DEF IInv, TypeOK, ProbeOK, OneEnvironment
<1> QED  BY <1>8, <1>10, <1>11 DEF IInv

LEMMA GateEndsKeeps == ASSUME IInv, GateEnds PROVE IInv'
<1>1. /\ gate' = [gate EXCEPT !.pc = "idle", !.verdict = IF gate.ok THEN "GREEN" ELSE "RED"]
      /\ UNCHANGED <<machine, boot, probe, history, upsets>>
  BY DEF GateEnds
<1>2. /\ UNCHANGED <<gate.skip, gate.checks, gate.ok, gate.vouched>>
      /\ gate'.pc = "idle" /\ gate'.verdict = IF gate.ok THEN "GREEN" ELSE "RED"
  BY <1>1 DEF IInv, TypeOK
<1>3. GateType' /\ ProbeType'
  BY <1>1, TypeParts DEF IInv, GateType, ProbeType
<1>4. /\ TypeOK' /\ BootOK' /\ UNCHANGED <<setup, present, files, origin, covered>>
      /\ \A p \in Programs : Whole(p)' <=> Whole(p)
  BY <1>1, <1>3, OnlyAskers
<1>5. GateOK' /\ ProbeOK'
  BY <1>1, <1>2, <1>4 DEF IInv, TypeOK, GateOK, ProbeOK, OneEnvironment
<1> QED  BY <1>4, <1>5 DEF IInv

LEMMA DiscoverKeeps == ASSUME IInv, NEW p \in Programs, Discover(p) PROVE IInv'
<1>1. /\ probe' = [NoProbe EXCEPT !.pc = "ask", !.prog = p,
                                  !.found = /\ Importable(setup.start, p)
                                            /\ ~Unnamed(setup.start, p),
                                  !.unnamed = Unnamed(setup.start, p),
                                  !.vouched = p \in covered /\ Whole(p)]
      /\ gate' = NoGate /\ UNCHANGED <<machine, boot, history, upsets>>
  BY DEF Discover
<1>2. /\ probe'.prog = p /\ probe'.kind = "none"
      /\ probe'.found = (Importable(setup.start, p) /\ ~Unnamed(setup.start, p))
      /\ probe'.unnamed = Unnamed(setup.start, p)
      /\ probe'.vouched = (p \in covered /\ Whole(p))
  BY <1>1 DEF NoProbe
<1>3. GateType' /\ ProbeType'
  <2>1. /\ (Importable(setup.start, p) /\ ~Unnamed(setup.start, p)) \in BOOLEAN
        /\ Unnamed(setup.start, p) \in BOOLEAN /\ (p \in covered /\ Whole(p)) \in BOOLEAN
    BY DEF Importable, Unnamed, Whole
  <2> QED  BY <1>1, <2>1, NoProbeTyped, NoGateTyped DEF GateType, ProbeType
<1>4. /\ TypeOK' /\ BootOK' /\ UNCHANGED <<setup, present, files, origin, covered>>
      /\ \A q \in Programs : Whole(q)' <=> Whole(q)
  BY <1>1, <1>3, OnlyAskers
<1>5. GateOK'
  BY <1>1 DEF GateOK, NoGate
<1>6. p \in covered /\ OneEnvironment => Importable(setup.start, p)
  BY DEF IInv, BootOK, CoveredKept, Available, OneEnvironment
<1>7. ProbeOK'
  BY <1>2, <1>4, <1>6 DEF ProbeOK, OneEnvironment
<1> QED  BY <1>4, <1>5, <1>7 DEF IInv

LEMMA AnswerKeeps ==
  ASSUME IInv,
         NEW kind \in {"no-work-selection-callable", "roadmap-missing", "open",
                       "no-active-work", "roadmap-failed"},
         kind = "no-work-selection-callable" => ~probe.found,
         kind = "roadmap-missing" => "roadmap" \notin files[probe.prog],
         Answer(kind)
  PROVE  IInv'
<1>1. /\ probe' = [probe EXCEPT !.pc = "idle", !.kind = kind]
      /\ UNCHANGED <<machine, boot, gate, history, upsets>>
  BY DEF Answer
<1>2. UNCHANGED <<probe.prog, probe.found, probe.unnamed, probe.vouched>> /\ probe'.kind = kind
  BY <1>1 DEF IInv, TypeOK
<1>3. GateType' /\ ProbeType'
  BY <1>1, TypeParts DEF IInv, GateType, ProbeType
<1>4. /\ TypeOK' /\ BootOK' /\ UNCHANGED <<setup, present, files, origin, covered>>
      /\ \A p \in Programs : Whole(p)' <=> Whole(p)
  BY <1>1, <1>3, OnlyAskers
<1>5. GateOK'
  BY <1>1, <1>4 DEF IInv, TypeOK, GateOK
<1>6. probe.vouched /\ kind = "roadmap-missing" => "roadmap" \notin Repository[probe.prog]
  BY DEF IInv, ProbeOK, Whole
<1>7. ProbeOK'
  BY <1>2, <1>4, <1>6 DEF IInv, TypeOK, ProbeOK, OneEnvironment
<1> QED  BY <1>4, <1>5, <1>7 DEF IInv

LEMMA AskersKeep == ASSUME IInv, Gate \/ ReadGate PROVE IInv'
<1>1. CASE Gate
  BY <1>1, GateBeginsKeeps, GateReadsKeeps, ProgramCheckKeeps, GateEndsKeeps DEF Gate
<1>2. CASE ReadGate
  BY <1>2, DiscoverKeeps, AnswerKeeps
  DEF ReadGate, NoCallable, RoadmapMissing, Asked, Unanswered
<1> QED  BY <1>1, <1>2

-----------------------------------------------------------------------------
(* The operator. *)

LEMMA EditCatalogKeeps == ASSUME IInv, EditCatalog PROVE IInv'
<1>1. /\ catalog' \in Seq(Programs) /\ upsets' \in Nat
      /\ UNCHANGED <<setup, present, files, origin, boot, gate, probe, covered, torn>>
  BY CatalogsAssumption DEF EditCatalog, Upset, history, IInv, TypeOK
<1>2. TypeOK'
  BY <1>1, TypeParts DEF IInv, TypeOK, WorldType, BootType, GateType, ProbeType
<1>3. /\ Program' = Program /\ ToClone' = ToClone /\ ToInstall' = ToInstall
      /\ Established' = Established
  BY <1>1 DEF Program, ToClone, ToInstall, Established
<1>4. \A p \in Programs : (Available(p) <=> Available(p)') /\ (Whole(p) <=> Whole(p)')
  BY <1>1 DEF Available, Importable, Whole
<1>5. BootOK'
  BY <1>1, <1>3, <1>4 DEF IInv, TypeOK, BootOK, NotYetRead, CloningEmpty, TreesKnown,
    CoveredKept, ClonedSoFar, InstalledSoFar, Established
<1>6. Steady
  BY <1>1, <1>4 DEF Steady, IInv, TypeOK
<1> QED  BY <1>2, <1>5, <1>6, SteadyKeeps DEF IInv

\* What is done to one program leaves what is established of the others.
LEMMA DisturbedKeeps ==
  ASSUME IInv, NEW p \in Programs, Disturbed(p), UNCHANGED setup, WorldType',
         \A q \in Programs \ {p} : /\ q \in present => q \in present'
                                   /\ Whole(q) => Whole(q)'
                                   /\ Available(q) => Available(q)',
         CloningEmpty', TreesKnown'
  PROVE  IInv'
<1>1. /\ covered' = covered \ {p} /\ boot' = [boot EXCEPT !.disturbed = @ \union {p}]
      /\ gate' = [gate EXCEPT !.vouched = @ \ {p}]
      /\ probe' = [probe EXCEPT !.vouched = @ /\ probe.prog # p]
  BY DEF Disturbed
<1>2. /\ boot'.disturbed = boot.disturbed \union {p}
      /\ UNCHANGED <<boot.pc, boot.todo, boot.listed, boot.ok>>
      /\ gate'.vouched = gate.vouched \ {p}
      /\ UNCHANGED <<gate.pc, gate.skip, gate.checks, gate.ok, gate.verdict>>
      /\ probe'.vouched = (probe.vouched /\ probe.prog # p)
      /\ UNCHANGED <<probe.prog, probe.kind, probe.found>>
  BY <1>1 DEF IInv, TypeOK
<1>3. TypeOK'
  <2>1. BootType'
    BY <1>1, <1>2, TypeParts DEF IInv, BootType
  <2>2. GateType'
    BY <1>1, TypeParts DEF IInv, GateType
  <2>3. ProbeType'
    BY <1>1, TypeParts DEF IInv, ProbeType
  <2> QED  BY <2>1, <2>2, <2>3 DEF TypeOK, WorldType, BootType, GateType, ProbeType
<1>4. /\ ToClone' = ToClone /\ ToInstall' = ToInstall
      /\ Established' = Established \ {p} /\ Established \subseteq Programs
  BY <1>2 DEF ToClone, ToInstall, Established, IInv, TypeOK
<1>5. NotYetRead' /\ ClonedSoFar' /\ InstalledSoFar'
  BY <1>2, <1>4 DEF IInv, BootOK, NotYetRead, ClonedSoFar, InstalledSoFar
<1>6. CoveredKept'
  BY <1>1 DEF IInv, TypeOK, BootOK, CoveredKept
<1>7. GateOK'
  BY <1>1, <1>2 DEF IInv, TypeOK, GateOK
<1>8. ProbeOK'
  BY <1>1, <1>2 DEF IInv, TypeOK, ProbeOK, OneEnvironment
<1> QED  BY <1>3, <1>5, <1>6, <1>7, <1>8 DEF IInv, BootOK

LEMMA RemoveCheckoutKeeps ==
  ASSUME IInv, NEW p \in Programs, RemoveCheckout(p) PROVE IInv'
<1>1. /\ present' = present \ {p} /\ files' = [files EXCEPT ![p] = {}] /\ torn' = torn \ {p}
      /\ ~(boot.pc = "cloning" /\ Program = p) /\ Disturbed(p)
      /\ UNCHANGED <<setup, catalog, origin>> /\ upsets' \in Nat
  BY DEF RemoveCheckout, Upset, IInv, TypeOK
<1>2. /\ covered' = covered \ {p} /\ UNCHANGED <<boot.pc, boot.todo>> /\ Program' = Program
  BY <1>1 DEF Disturbed, IInv, TypeOK, Program
<1>3. WorldType'
  BY <1>1, <1>2, TypeParts DEF IInv, WorldType
<1>4. \A q \in Programs \ {p} : /\ q \in present => q \in present' /\ files'[q] = files[q]
                                /\ Whole(q) => Whole(q)'
                                /\ Available(q) => Available(q)'
  BY <1>1 DEF Whole, Available, Importable, IInv, TypeOK
<1>5. CloningEmpty'
  <2> SUFFICES ASSUME boot.pc = "cloning"
               PROVE  Program \in present' /\ files'[Program] = {} /\ Program \notin covered'
    BY <1>2 DEF CloningEmpty
  <2>1. Program \in Programs \ {p}
    BY <1>1, AtProgram
  <2> QED  BY <1>1, <1>2, <1>4, <2>1 DEF IInv, BootOK, CloningEmpty
<1>6. TreesKnown'
  BY <1>1, <1>2, <1>4 DEF IInv, TypeOK, BootOK, TreesKnown
<1> QED  BY <1>1, <1>3, <1>4, <1>5, <1>6, DisturbedKeeps

LEMMA UninstallKeeps ==
  ASSUME IInv, NEW p \in Programs, NEW env \in Envs, Uninstall(env, p) PROVE IInv'
<1>1. /\ origin' = [origin EXCEPT ![env][p] = "none"] /\ Disturbed(p)
      /\ UNCHANGED <<setup, catalog, present, files, torn>> /\ upsets' \in Nat
  BY DEF Uninstall, Upset, IInv, TypeOK
<1>2. /\ covered' = covered \ {p} /\ UNCHANGED <<boot.pc, boot.todo>> /\ Program' = Program
  BY <1>1 DEF Disturbed, IInv, TypeOK, Program
<1>3. WorldType'
  BY <1>1, <1>2, TypeParts DEF IInv, WorldType
<1>4. \A q \in Programs : Whole(q) => Whole(q)'
  BY <1>1 DEF Whole
<1>5. ASSUME NEW q \in Programs \ {p}, Available(q) PROVE Available(q)'
  <2>1. setup.interpreter \in Envs /\ setup.pip \in Envs
    BY SetupsAssumption DEF IInv, TypeOK
  <2>2. \A e \in Envs : origin'[e][q] = origin[e][q]
    BY <1>1 DEF IInv, TypeOK
  <2> QED  BY <1>1, <1>5, <2>1, <2>2 DEF Available, Importable
<1>6. CloningEmpty' /\ TreesKnown'
  BY <1>1, <1>2, <1>4 DEF IInv, TypeOK, BootOK, CloningEmpty, TreesKnown
<1> QED  BY <1>1, <1>3, <1>4, <1>5, <1>6, DisturbedKeeps

LEMMA OthersKeep == ASSUME IInv, Others PROVE IInv'
  BY EditCatalogKeeps, RemoveCheckoutKeeps, UninstallKeeps DEF Others

-----------------------------------------------------------------------------
LEMMA NextKeeps == IInv /\ [Next]_vars => IInv'
<1>1. ASSUME IInv, UNCHANGED vars PROVE IInv'
  <2>1. UNCHANGED <<machine, boot, gate, probe, history, upsets>>
    BY <1>1 DEF vars
  <2>2. GateType' /\ ProbeType'
    BY <1>1, <2>1, TypeParts DEF IInv, GateType, ProbeType
  <2>3. /\ TypeOK' /\ BootOK' /\ UNCHANGED <<setup, present, files, origin, covered>>
        /\ \A p \in Programs : Whole(p)' <=> Whole(p)
    BY <1>1, <2>1, <2>2, OnlyAskers
  <2>4. Steady
    BY <1>1, <2>1, <2>3 DEF Steady, IInv, TypeOK
  <2> QED  BY <1>1, <2>3, <2>4, SteadyKeeps DEF IInv
<1> QED  BY <1>1, BootstrapKeeps, AskersKeep, OthersKeep DEF Next

LEMMA Invariant == Spec => []IInv
  BY InitInv, NextKeeps, PTL DEF Spec

\* Every variable keeps its type in every reachable state.
THEOREM TypeCorrect == Spec => []TypeOK
<1>1. IInv => TypeOK
  BY DEF IInv
<1> QED  BY <1>1, Invariant, PTL

\* Whatever is listed, wherever python3 and pip are taken from and however often
\* bootstrap was killed or run again, a program of a run that ended COMPLETE is
\* importable where it looked or where pip put it, until the operator undoes it,
\* and a failed clone is the only thing that leaves its checkout not whole.
THEOREM BootstrapDelivers == Spec => []CompleteMeansReady
<1>1. IInv => \A p \in covered : Importable(setup.interpreter, p) \/ Importable(setup.pip, p)
  BY DEF IInv, BootOK, CoveredKept, Available
<1>2. IInv => \A p \in covered : Whole(p) \/ p \in torn
  BY DEF IInv, BootOK, CoveredKept, TreesKnown, CloningEmpty
<1>3. IInv => CompleteMeansReady
  BY <1>1, <1>2 DEF CompleteMeansReady
<1> QED  BY <1>3, Invariant, PTL

\* GREEN means that the check of every program passed that was bootstrapped whole
\* before the gate began, was not skipped on request and has a check.
THEOREM GreenMeansChecked == Spec => []GreenAfterBootstrap
<1>1. IInv => GreenAfterBootstrap
  <2> SUFFICES ASSUME IInv, gate.verdict = "GREEN", NEW p \in gate.vouched \ gate.skip,
                      "script" \in Repository[p]
               PROVE  gate.checks[p] \in {"PASS", "none"}
    BY DEF GreenAfterBootstrap
  <2>1. p \in Programs /\ gate.checks[p] \in {"none", "PASS", "FAIL", "SKIP"}
    BY DEF IInv, TypeOK
  <2> QED  BY <2>1 DEF IInv, GateOK
<1> QED  BY <1>1, Invariant, PTL

\* With one environment, start finds the callable and the roadmap of a program
\* that was bootstrapped whole before it asked, if its package has an entry point
\* under the catalog's name.
THEOREM BootstrappedIsKnown == Spec => []KnownAfterBootstrap
<1>1. IInv => KnownAfterBootstrap
  BY DEF IInv, ProbeOK, KnownAfterBootstrap, OneEnvironment
<1> QED  BY <1>1, Invariant, PTL
=============================================================================
