---------------------------- MODULE TiersProofs ----------------------------
(***************************************************************************)
(* Proofs about SimulationTiers and ReleaseGate, for any number of edits    *)
(* while a tier looks.                                                      *)
(*                                                                         *)
(* ReleaseGate: a row is judged by what its evidence is at its turn.  What   *)
(* was at fault all along is at fault then, and what is at fault then was at *)
(* some moment.                                                             *)
(*                                                                         *)
(* SimulationTiers: each tier keeps what its two ends have in common.  As    *)
(* long as files only grow or get later versions, the directory as it was    *)
(* when the copy was listed lies between what was hashed and what was copied *)
(* (Between), and equal digests squeeze the three into one.                  *)
(***************************************************************************)
EXTENDS MCTiers, FiniteSetTheorems, SequenceTheorems, WellFoundedInduction, TLAPS

-----------------------------------------------------------------------------
(* The release tier. *)

RowsTell ==
  /\ row > 0 => throughout \subseteq Faulty /\ Faulty \subseteq everFaulty
  /\ \A i \in 1..Len(rows) :
       row > 0 => /\ rows[i] # "FAIL" => i \notin throughout
                  /\ rows[i] = "FAIL" => i \in everFaulty

ReleaseInv == ReleaseTypeOK /\ RowsTell

LEMMA ReleaseInitial == ReleaseInit => ReleaseInv
  BY DEF ReleaseInit, ReleaseInv, ReleaseTypeOK, RowsTell, Marks, Claims, Mutants, Documents, Scripts

LEMMA FaultyRows == Faulty \subseteq 1..7 /\ Faulty' \subseteq 1..7
  BY DEF Faulty

LEMMA ChangeKeeps == ASSUME ReleaseInv, Change PROVE ReleaseInv'
<1> USE DEF ReleaseInv, Change, commandVars
<1>1. ReleaseTypeOK'
  <2>1. /\ markers' \in Marks /\ claims' \in Claims /\ mutants' \in Mutants
        /\ truth' \in Documents /\ script' \in Scripts /\ changes' \in Nat
    BY DEF ReleaseTypeOK
  <2> QED  BY <2>1, FaultyRows DEF ReleaseTypeOK
<1>2. RowsTell'
  BY DEF RowsTell
<1> QED  BY <1>1, <1>2

LEMMA StartKeeps == ASSUME ReleaseInv, StartRelease PROVE ReleaseInv'
<1> USE DEF ReleaseInv, StartRelease
<1>1. UNCHANGED treeVars /\ changes' = changes /\ Faulty' = Faulty
  BY DEF treeVars, Faulty
<1>2. ReleaseTypeOK'
  BY <1>1, FaultyRows DEF ReleaseTypeOK, treeVars
<1>3. RowsTell'
  BY <1>1 DEF RowsTell
<1> QED  BY <1>2, <1>3

\* A row that tells whether its evidence is at fault.
LEMMA RowKeeps ==
  ASSUME ReleaseInv, NEW i \in 1..7, NEW status \in Statuses, Row(i, status),
         status = "FAIL" <=> i \in Faulty
  PROVE  ReleaseInv'
<1> USE DEF ReleaseInv
<1>1. /\ row = i /\ row' = i + 1 /\ rows' = Append(rows, status) /\ releaseExit' = releaseExit
      /\ UNCHANGED <<treeVars, changes, faultVars>> /\ Faulty' = Faulty
  BY DEF Row, treeVars, Faulty
<1>2. /\ rows' \in Seq(Statuses) /\ Len(rows') = i
      /\ rows'[i] = status /\ \A j \in 1..(i - 1) : rows'[j] = rows[j]
  BY <1>1 DEF ReleaseTypeOK
<1>3. ReleaseTypeOK'
  BY <1>1, <1>2 DEF ReleaseTypeOK, treeVars, faultVars
<1>4. RowsTell'
  <2>1. throughout \subseteq Faulty /\ Faulty \subseteq everFaulty
    BY <1>1 DEF RowsTell
  <2>2. ASSUME NEW j \in 1..Len(rows')
        PROVE  /\ rows'[j] # "FAIL" => j \notin throughout
               /\ rows'[j] = "FAIL" => j \in everFaulty
    <3>1. CASE j = i
      BY <1>2, <2>1, <3>1
    <3>2. CASE j # i
      <4>1. j \in 1..(i - 1) /\ j \in 1..Len(rows) /\ row > 0
        BY <1>1, <1>2, <2>2, <3>2 DEF ReleaseTypeOK
      <4> QED  BY <1>2, <4>1 DEF RowsTell
    <3> QED  BY <3>1, <3>2
  <2> QED  BY <1>1, <2>1, <2>2 DEF RowsTell, faultVars
<1> QED  BY <1>3, <1>4

\* The end of a command.
LEMMA EndKeeps ==
  ASSUME ReleaseInv, row > 0, row' = 0, UNCHANGED <<treeVars, changes, rows, faultVars>>,
         releaseExit' \in {"none", "0", "1", "raised"},
         releaseExit' \in {"0", "1"} => row = 8
  PROVE  ReleaseInv'
<1>0. ReleaseTypeOK
  BY DEF ReleaseInv
<1>1. ReleaseTypeOK'
  <2>1. /\ UNCHANGED <<markers, claims, mutants, truth, script, changes, rows, throughout, everFaulty>>
        /\ row' \in 0..8 /\ ~(row' > 0)
    BY DEF treeVars, faultVars
  <2>2. releaseExit' \in {"0", "1"} => Len(rows) = 7
    <3>1. row > 0 => Len(rows) = row - 1
      BY <1>0 DEF ReleaseTypeOK
    <3>2. row = 8 => Len(rows) = 7
      BY <3>1
    <3> QED  BY <3>2
  <2> QED  BY <1>0, <2>1, <2>2 DEF ReleaseTypeOK
<1> QED  BY <1>1 DEF ReleaseInv, RowsTell

LEMMA RowsKeep ==
  ASSUME ReleaseInv,
         PrimaryTiers \/ ClaimManifest \/ ScenarioMetadata \/ FlakeAudit \/ DocumentationTruth \/ PrimeDirective
  PROVE  ReleaseInv'
<1> USE DEF Verdict, Statuses, Faulty
<1>1. CASE PrimaryTiers
  <2>1. markers \in Marks
    BY DEF ReleaseInv, ReleaseTypeOK
  <2> DEFINE status == IF markers = "ghost" THEN "NOT_APPLICABLE" ELSE Verdict(markers = "all")
  <2>2. Row(1, status) /\ status \in Statuses /\ (status = "FAIL" <=> 1 \in Faulty)
    BY <1>1, <2>1 DEF PrimaryTiers, Marks
  <2> QED  BY <2>2, RowKeeps
<1>2. CASE ClaimManifest
  BY <1>2, RowKeeps DEF ClaimManifest
<1>3. CASE ScenarioMetadata
  BY <1>3, RowKeeps DEF ScenarioMetadata
<1>4. CASE FlakeAudit
  BY <1>4, RowKeeps DEF FlakeAudit
<1>5. CASE DocumentationTruth
  BY <1>5, RowKeeps DEF DocumentationTruth
<1>6. CASE PrimeDirective
  BY <1>6, RowKeeps DEF PrimeDirective
<1> QED  BY <1>1, <1>2, <1>3, <1>4, <1>5, <1>6

LEMMA MutationKeeps == ASSUME ReleaseInv, MutationKilled PROVE ReleaseInv'
<1>1. CASE mutants # "malformed" /\ Row(4, Verdict(mutants # "unresolved"))
  BY <1>1, RowKeeps DEF Verdict, Statuses, Faulty
<1>2. CASE row = 4 /\ mutants = "malformed"
  BY <1>2, EndKeeps DEF MutationKilled, Row
<1> QED  BY <1>1, <1>2 DEF MutationKilled

LEMMA ConcludeReleaseKeeps == ASSUME ReleaseInv, ConcludeRelease PROVE ReleaseInv'
  BY EndKeeps DEF ConcludeRelease

LEMMA ReleaseStep == ReleaseInv /\ [ReleaseNext]_releaseVars => ReleaseInv'
<1> SUFFICES ASSUME ReleaseInv, [ReleaseNext]_releaseVars PROVE ReleaseInv'
  OBVIOUS
<1>1. CASE ReleaseNext
  BY <1>1, ChangeKeeps, StartKeeps, RowsKeep, MutationKeeps, ConcludeReleaseKeeps DEF ReleaseNext
<1>2. CASE UNCHANGED releaseVars
  BY <1>2 DEF releaseVars, treeVars, commandVars, faultVars, ReleaseInv, ReleaseTypeOK, RowsTell, Faulty
<1> QED  BY <1>1, <1>2

LEMMA ReleaseInvariant == ReleaseSpec => []ReleaseInv
  BY ReleaseInitial, ReleaseStep, PTL DEF ReleaseSpec

\* Types, and that the rows so far are those before the next one, for any number
\* of edits.
THEOREM ReleaseTypeCorrect == ReleaseSpec => []ReleaseTypeOK
<1>1. ReleaseInv => ReleaseTypeOK
  BY DEF ReleaseInv
<1> QED  BY <1>1, ReleaseInvariant, PTL

LEMMA ElementsOf == ASSUME NEW S, NEW s \in Seq(S), NEW i \in 1..Len(s) PROVE s[i] \in S
  OBVIOUS

\* For any number of edits between the rows: exit 0 means that no fault was there
\* all along, exit 1 that a row met one, and an abort that the list of mutants
\* was at fault.
THEOREM ReleaseVerdict == ReleaseSpec => ReleaseIsExact
<1> DEFINE Exact ==
      row # 0 /\ row' = 0 =>
        /\ releaseExit' = "0" => throughout = {}
        /\ releaseExit' = "1" => \E i \in everFaulty : rows[i] = "FAIL"
        /\ releaseExit' = "raised" => 4 \in everFaulty
<1>1. ASSUME ReleaseInv, ReleaseNext, row # 0, row' = 0 PROVE Exact
  <2>1. ConcludeRelease \/ (mutants = "malformed" /\ row = 4 /\ releaseExit' = "raised")
    BY <1>1 DEF ReleaseNext, Change, commandVars, StartRelease, Row, PrimaryTiers, ClaimManifest,
       ScenarioMetadata, MutationKilled, FlakeAudit, DocumentationTruth, PrimeDirective
  <2>2. CASE mutants = "malformed" /\ row = 4 /\ releaseExit' = "raised"
    BY <1>1, <2>2 DEF ReleaseInv, RowsTell, Faulty
  <2>3. CASE ConcludeRelease
    <3>1. /\ row = 8 /\ Len(rows) = 7 /\ rows \in Seq(Statuses)
          /\ throughout \subseteq 1..7
          /\ releaseExit' = IF \A i \in 1..7 : rows[i] \in {"PASS", "NOT_APPLICABLE"} THEN "0" ELSE "1"
      BY <1>1, <2>3 DEF ConcludeRelease, ReleaseInv, ReleaseTypeOK
    <3>2. \A i \in 1..7 : /\ rows[i] # "FAIL" => i \notin throughout
                          /\ rows[i] = "FAIL" => i \in everFaulty
                          /\ rows[i] \in Statuses
      <4>1. \A i \in 1..7 : rows[i] \in Statuses
        BY <3>1, ElementsOf
      <4>2. \A i \in 1..7 : /\ rows[i] # "FAIL" => i \notin throughout
                            /\ rows[i] = "FAIL" => i \in everFaulty
        BY <1>1, <3>1 DEF ReleaseInv, RowsTell
      <4> QED  BY <4>1, <4>2
    <3>3. CASE releaseExit' = "0"
      <4>1. \A i \in 1..7 : i \notin throughout
        BY <3>1, <3>2, <3>3
      <4> QED  BY <3>1, <3>3, <4>1
    <3>4. CASE releaseExit' = "1"
      <4>1. PICK i \in 1..7 : rows[i] \notin {"PASS", "NOT_APPLICABLE"}
        BY <3>1, <3>4
      <4>2. rows[i] = "FAIL" /\ i \in everFaulty
        BY <3>2, <4>1 DEF Statuses
      <4> QED  BY <3>4, <4>2
    <3> QED  BY <3>1, <3>3, <3>4
  <2> QED  BY <2>1, <2>2, <2>3
<1>2. ReleaseInv /\ [ReleaseNext]_releaseVars => [Exact]_releaseVars
  BY <1>1
<1> QED  BY <1>2, ReleaseInvariant, PTL DEF ReleaseSpec, ReleaseIsExact

-----------------------------------------------------------------------------
(* Digests.  Induction is by a least counterexample, which is first order.   *)

LEMMA LeastNat == ASSUME NEW S \in SUBSET Nat, S # {} PROVE \E m \in S : \A k \in S : m <= k
<1>1. IsWellFoundedOn(OpToRel(<, Nat), Nat)
  BY NatLessThanWellFounded
<1>2. \E m \in S : \A k \in S : ~(<<k, m>> \in OpToRel(<, Nat))
  BY <1>1, WFMin
<1>3. ASSUME NEW m \in S, NEW k \in S, ~(<<k, m>> \in OpToRel(<, Nat)) PROVE m <= k
  BY <1>3 DEF OpToRel
<1> QED  BY <1>2, <1>3

\* f concatenates the first n of the sequences.
Joins(f, seqs, n) ==
  f = [i \in 1..n |-> IF i = 1 THEN seqs[i] ELSE f[i - 1] \o seqs[i]]

LEMMA JoinsExist ==
  ASSUME NEW seqs, NEW n \in Nat
  PROVE  \E f : Joins(f, seqs, n)
<1> DEFINE Bad == {k \in Nat : ~\E f : Joins(f, seqs, k)}
<1> SUFFICES ASSUME Bad # {} PROVE FALSE
  OBVIOUS
<1>1. PICK m \in Bad : \A k \in Bad : m <= k
  BY LeastNat
<1>2. m # 0
  <2>1. Joins([i \in 1..0 |-> 0], seqs, 0)
    BY DEF Joins
  <2> QED  BY <2>1
<1>3. m \in Nat /\ m - 1 \in Nat /\ m - 1 \notin Bad
  BY <1>1, <1>2
<1>4. PICK f : Joins(f, seqs, m - 1)
  BY <1>3
<1> DEFINE g == [i \in 1..m |-> IF i = m THEN IF m = 1 THEN seqs[m] ELSE f[m - 1] \o seqs[m]
                                ELSE f[i]]
<1>5. \A i \in 1..m : g[i] = IF i = 1 THEN seqs[i] ELSE g[i - 1] \o seqs[i]
  <2> TAKE i \in 1..m
  <2>1. CASE i = m
    BY <1>3, <2>1
  <2>2. CASE i # m
    <3>1. i \in 1..(m - 1) /\ g[i] = f[i] /\ (i # 1 => i - 1 \in 1..(m - 1) /\ g[i - 1] = f[i - 1])
      BY <1>3, <2>2
    <3>2. f[i] = IF i = 1 THEN seqs[i] ELSE f[i - 1] \o seqs[i]
      BY <1>4, <3>1 DEF Joins
    <3> QED  BY <3>1, <3>2
  <2> QED  BY <2>1, <2>2
<1>6. Joins(g, seqs, m)
  BY <1>5 DEF Joins
<1> QED  BY <1>1, <1>6

LEMMA Flattened ==
  ASSUME NEW seqs, Len(seqs) \in Nat \ {0}
  PROVE  \E f : Joins(f, seqs, Len(seqs)) /\ FlattenSeq(seqs) = f[Len(seqs)]
<1> DEFINE f == CHOOSE f : Joins(f, seqs, Len(seqs))
<1>1. Joins(f, seqs, Len(seqs))
  BY JoinsExist
<1>2. FlattenSeq(seqs) = f[Len(seqs)]
  BY DEF FlattenSeq, Joins
<1> QED  BY <1>1, <1>2

\* What a file has written may not be taken back.
LEMMA BytesGrow ==
  ASSUME NEW f \in Files, NEW m \in Nat, NEW n \in Nat, m <= n
  PROVE  /\ Bytes(f, m) \in Seq(Nat) /\ Bytes(f, n) \in Seq(Nat)
         /\ Len(Bytes(f, m)) <= Len(Bytes(f, n))
         /\ Bytes(f, m) = Bytes(f, n) => m = n
<1>1. /\ Bytes(f, 0) = <<>>
      /\ \A k \in Nat \ {0} : f \in Logs => Bytes(f, k) = [i \in 1..k |-> 0]
      /\ \A k \in Nat \ {0} : f \notin Logs => Bytes(f, k) = <<k>>
  BY DEF Bytes
<1>2. \A k \in Nat : [i \in 1..k |-> 0] \in Seq(Nat) /\ Len([i \in 1..k |-> 0]) = k
  OBVIOUS
<1>3. \A k \in Nat : <<k>> \in Seq(Nat) /\ Len(<<k>>) = 1 /\ <<k>>[1] = k
  OBVIOUS
<1>4. <<>> \in Seq(Nat) /\ Len(<<>>) = 0
  OBVIOUS
<1>5. CASE m = 0 /\ n = 0
  BY <1>1, <1>4, <1>5
<1>6. CASE n # 0 /\ f \in Logs
  <2>1. ASSUME NEW k \in Nat PROVE Bytes(f, k) \in Seq(Nat) /\ Len(Bytes(f, k)) = k
    <3>1. CASE k = 0
      BY <1>1, <1>4, <3>1
    <3>2. CASE k # 0
      BY <1>1, <1>2, <1>6, <3>2
    <3> QED  BY <3>1, <3>2
  <2> QED  BY <2>1
<1>7. CASE n # 0 /\ f \notin Logs
  <2>1. Bytes(f, n) \in Seq(Nat) /\ Len(Bytes(f, n)) = 1 /\ Bytes(f, n)[1] = n
    BY <1>1, <1>3, <1>7
  <2>2. m # 0 => Bytes(f, m) \in Seq(Nat) /\ Len(Bytes(f, m)) = 1 /\ Bytes(f, m)[1] = m
    BY <1>1, <1>3, <1>7
  <2>3. m = 0 => Bytes(f, m) \in Seq(Nat) /\ Len(Bytes(f, m)) = 0
    BY <1>1, <1>4
  <2>4. CASE m = 0
    BY <1>7, <2>1, <2>3, <2>4
  <2>5. CASE m # 0
    <3>1. Bytes(f, m) = Bytes(f, n) => m = n
      BY <2>1, <2>2, <2>5
    <3>2. Len(Bytes(f, m)) <= Len(Bytes(f, n))
      <4>1. Len(Bytes(f, m)) = 1 /\ Len(Bytes(f, n)) = 1
        BY <2>1, <2>2, <2>5
      <4>2. 1 <= 1
        OBVIOUS
      <4> QED  BY <4>1, <4>2
    <3> QED  BY <2>1, <2>2, <2>5, <3>1, <3>2
  <2> QED  BY <2>4, <2>5
<1> QED  BY <1>5, <1>6, <1>7

LEMMA PartsOf ==
  ASSUME NEW s \in Seq(Nat), NEW t \in Seq(Nat), NEW u \in Seq(Nat), NEW v \in Seq(Nat),
         Len(s) <= Len(t), Len(u) <= Len(v)
  PROVE  /\ s \o u \in Seq(Nat) /\ t \o v \in Seq(Nat)
         /\ Len(s \o u) <= Len(t \o v)
         /\ s \o u = t \o v => s = t /\ u = v
<1>1. /\ s \o u \in Seq(Nat) /\ t \o v \in Seq(Nat)
      /\ Len(s \o u) = Len(s) + Len(u) /\ Len(t \o v) = Len(t) + Len(v)
  OBVIOUS
<1>2. ASSUME s \o u = t \o v PROVE s = t /\ u = v
  <2>1. Len(s) = Len(t) /\ Len(u) = Len(v)
    BY <1>1, <1>2
  <2>2. \A i \in 1..Len(s) : s[i] = t[i]
    <3> TAKE i \in 1..Len(s)
    <3>1. (s \o u)[i] = s[i] /\ (t \o v)[i] = t[i]
      BY <2>1
    <3> QED  BY <1>2, <3>1
  <2>3. \A i \in 1..Len(u) : u[i] = v[i]
    <3> TAKE i \in 1..Len(u)
    <3>1. (s \o u)[Len(s) + i] = u[i] /\ (t \o v)[Len(t) + i] = v[i]
      BY <2>1
    <3> QED  BY <1>2, <2>1, <3>1
  <2>4. s = t
    BY <2>1, <2>2, SeqEqual
  <2>5. u = v
    BY <2>1, <2>3, SeqEqual
  <2> QED  BY <2>4, <2>5
<1>3. Len(s \o u) <= Len(t \o v)
  BY <1>1
<1> QED  BY <1>1, <1>2, <1>3

\* Of two states of the directory, one before the other, the digests are equal
\* only if the states are, though a digest does not tell where a file ends.
LEMMA DigestsTell ==
  ASSUME NEW a \in [Files -> Nat], NEW b \in [Files -> Nat],
         \A f \in Files : a[f] <= b[f], Digest(a) = Digest(b)
  PROVE  a = b
<1> DEFINE N == Cardinality(Files)
<1>1. N \in Nat /\ Files = 1..N
  BY FilesAssumption, FS_CardinalityType
<1> DEFINE A == [f \in 1..N |-> Bytes(f, a[f])]
           B == [f \in 1..N |-> Bytes(f, b[f])]
<1>2. Len(A) = N /\ Len(B) = N
  BY <1>1
<1>3. CASE N = 0
  BY <1>1, <1>3
<1>4. CASE N # 0
  <2>1. PICK g : Joins(g, A, N) /\ FlattenSeq(A) = g[N]
    BY <1>1, <1>2, <1>4, Flattened
  <2>2. PICK h : Joins(h, B, N) /\ FlattenSeq(B) = h[N]
    BY <1>1, <1>2, <1>4, Flattened
  <2>3. g[N] = h[N]
    BY <2>1, <2>2 DEF Digest
  <2>4. \A i \in 1..N : /\ A[i] \in Seq(Nat) /\ B[i] \in Seq(Nat) /\ Len(A[i]) <= Len(B[i])
                        /\ A[i] = B[i] => a[i] = b[i]
    BY <1>1, BytesGrow
  <2>5. /\ g[1] = A[1] /\ h[1] = B[1]
        /\ \A i \in 2..N : g[i] = g[i - 1] \o A[i] /\ h[i] = h[i - 1] \o B[i]
    <3>1. \A i \in 1..N : /\ g[i] = IF i = 1 THEN A[i] ELSE g[i - 1] \o A[i]
                          /\ h[i] = IF i = 1 THEN B[i] ELSE h[i - 1] \o B[i]
      BY <2>1, <2>2 DEF Joins
    <3> HIDE DEF A, B, N
    <3>2. 1 \in 1..N /\ \A i \in 2..N : i \in 1..N /\ i # 1
      BY <1>1, <1>4
    <3> QED  BY <3>1, <3>2
  <2> HIDE DEF A, B, N
  <2> DEFINE Same(i) == /\ g[i] \in Seq(Nat) /\ h[i] \in Seq(Nat) /\ Len(g[i]) <= Len(h[i])
                        /\ g[i] = h[i] => \A j \in 1..i : a[j] = b[j]
             Bad == {i \in 1..N : ~Same(i)}
  <2>6. Same(1)
    BY <1>1, <1>4, <2>4, <2>5
  <2>7. ASSUME NEW i \in 2..N, Same(i - 1) PROVE Same(i)
    <3>1. i \in 1..N /\ i - 1 \in 1..N
      BY <1>1
    <3>2. g[i] = g[i - 1] \o A[i] /\ h[i] = h[i - 1] \o B[i]
      BY <2>5
    <3>3. /\ g[i - 1] \in Seq(Nat) /\ h[i - 1] \in Seq(Nat) /\ Len(g[i - 1]) <= Len(h[i - 1])
          /\ A[i] \in Seq(Nat) /\ B[i] \in Seq(Nat) /\ Len(A[i]) <= Len(B[i])
      BY <2>4, <2>7, <3>1
    <3>4. /\ g[i] \in Seq(Nat) /\ h[i] \in Seq(Nat) /\ Len(g[i]) <= Len(h[i])
          /\ g[i] = h[i] => g[i - 1] = h[i - 1] /\ A[i] = B[i]
      <4> DEFINE s == g[i - 1]
                 t == h[i - 1]
                 u == A[i]
                 v == B[i]
      <4>1. /\ s \in Seq(Nat) /\ t \in Seq(Nat) /\ Len(s) <= Len(t)
            /\ u \in Seq(Nat) /\ v \in Seq(Nat) /\ Len(u) <= Len(v)
        BY <3>3
      <4>2. /\ s \o u \in Seq(Nat) /\ t \o v \in Seq(Nat)
            /\ Len(s \o u) <= Len(t \o v)
            /\ s \o u = t \o v => s = t /\ u = v
        <5> HIDE DEF s, t, u, v
        <5> QED  BY <4>1, PartsOf
      <4> QED  BY <3>2, <4>2
    <3>5. ASSUME g[i] = h[i], NEW j \in 1..i PROVE a[j] = b[j]
      <4>1. CASE j = i
        BY <2>4, <3>1, <3>4, <3>5, <4>1
      <4>2. CASE j # i
        <5>1. j \in 1..(i - 1)
          BY <1>1, <4>2
        <5> QED  BY <2>7, <3>4, <3>5, <5>1
      <4> QED  BY <4>1, <4>2
    <3> QED  BY <3>4, <3>5
  <2> HIDE DEF Same
  <2>8. Bad = {}
    <3> SUFFICES ASSUME Bad # {} PROVE FALSE
      OBVIOUS
    <3>1. Bad \in SUBSET Nat
      OBVIOUS
    <3>2. PICK m \in Bad : \A k \in Bad : m <= k
      BY <3>1, LeastNat
    <3>3. m # 1
      BY <2>6
    <3>4. m \in 2..N /\ m - 1 \in 1..N /\ ~(m <= m - 1)
      BY <1>1, <3>2, <3>3
    <3>5. m - 1 \notin Bad
      BY <3>2, <3>4
    <3> QED  BY <2>7, <3>4, <3>5
  <2>9. Same(N)
    BY <1>1, <1>4, <2>8
  <2>10. \A j \in 1..N : a[j] = b[j]
    BY <2>3, <2>9 DEF Same
  <2> QED  BY <1>1, <2>10
<1> QED  BY <1>3, <1>4

-----------------------------------------------------------------------------
(* The invariant of the other tiers. *)

CanarySteps == {"before", "before_read", "route", "auth", "after", "after_read"}
BackupSteps == {"hash_list", "hash", "copy_list", "copy", "restore"}

\* A step belongs to one tier.
Route ==
  /\ at \in CanarySteps => tier = "provider-canary"
  /\ at \in BackupSteps => tier = "backup-restore"
  /\ at \in {"cwd", "doctor"} => tier = "deployment"
  /\ at \in {"sample", "archive"} => tier = "soak"
  /\ at = "cells" => tier = "compatibility-matrix"
  /\ at = "hermetic" => tier \in {"scenarios", "rollback", "corruption", "disk-pressure"}

\* The command that runs has left no home behind yet.
HomesKept ==
  /\ at \notin {"idle", "doctor"} => homes < asked
  /\ at = "doctor" => homes > 0

\* While a copy is made: c is the directory as it was when the copy was listed,
\* what was hashed is not after it and what was copied is not before it.
Between(c) ==
  \A f \in Files :
    /\ local.hashed[f] <= c[f]
    /\ c[f] <= files[f]
    /\ c[f] <= local.copied[f] \/ (at = "copy" /\ f \in local.todo)

BackupKept ==
  /\ at = "hash_list" => local.hashed = NoFiles
  /\ at \in {"hash_list", "hash", "copy_list"} => local.copied = NoFiles
  /\ at \in {"hash", "copy_list"} => files \in been
  /\ at \in {"hash", "copy_list"} /\ ~putBack => \A f \in Files : local.hashed[f] <= files[f]
  /\ at \in {"copy", "restore"} /\ ~putBack => \E c \in been : c \in [Files -> Nat] /\ Between(c)

\* The directories that doctor is past were judged, unless they were away.
DoctorKept ==
  at \in {"cwd", "doctor"} =>
    /\ local.always \subseteq present
    /\ \A d \in local.always : d < local.cwd => d \in local.passed \union local.failed
    /\ homes = local.homes + (IF at = "doctor" THEN 1 ELSE 0)

\* A soak goes on only while no stretch of it was idle.
SoakKept ==
  /\ at = "sample" => ~HotSomewhere(local.samples) /\ ~local.paused
  /\ at = "archive" /\ ~local.paused /\ HotSomewhere(local.samples) => HotLoop(local.samples)

Kept == Route /\ HomesKept /\ BackupKept /\ DoctorKept /\ SoakKept
TiersInv == TiersTypeOK /\ Kept /\ SnapshotIsReal /\ PassIsEarned

LEMMA TiersInitial == TiersInit => TiersInv
<1> SUFFICES ASSUME TiersInit PROVE TiersInv
  OBVIOUS
<1>1. /\ {Cwds, MaxSamples} \subseteq Nat /\ at = "idle" /\ exit = "none"
      /\ NoFiles \in [Files -> Nat] /\ roadmap \in {0, 1} /\ edits = 0
  BY TierBoundsAssumption DEF TiersInit, NoFiles
<1>2. Idle \in Locals
  BY <1>1 DEF Idle, Locals
<1>3. TiersTypeOK
  <2>1. putBack \in BOOLEAN
    BY DEF TiersInit
  <2> QED  BY <1>1, <1>2, <2>1 DEF TiersInit, TiersTypeOK, Tiers, Steps, Exits
<1>4. Kept
  BY <1>1 DEF Kept, Route, HomesKept, BackupKept, DoctorKept, SoakKept, CanarySteps, BackupSteps
<1> QED  BY <1>1, <1>3, <1>4 DEF TiersInv, SnapshotIsReal, PassIsEarned

\* Nothing is promised of a command that is not over.
LEMMA NotOver == exit' # "0" => SnapshotIsReal' /\ PassIsEarned'
  BY DEF SnapshotIsReal, PassIsEarned

\* A command that ends.
LEMMA TierEnds ==
  ASSUME TiersInv, at' = "idle", exit' \in Exits, local' \in Locals, homes' \in 0..asked,
         UNCHANGED <<worldVars, asked, tier, seenVars>>,
         DOMAIN archives' = 0..MaxSamples, \A n \in 0..MaxSamples : archives'[n] \in {"none", "PASS", "FAIL"},
         SnapshotIsReal', PassIsEarned'
  PROVE  TiersInv'
<1>1. TiersTypeOK'
  BY DEF TiersInv, TiersTypeOK, worldVars, seenVars, Steps
<1>2. Kept'
  BY DEF Kept, Route, HomesKept, BackupKept, DoctorKept, SoakKept, CanarySteps,
         BackupSteps, TiersInv, worldVars
<1> QED  BY <1>1, <1>2 DEF TiersInv

LEMMA RaiseKeeps ==
  ASSUME TiersInv, Raise, UNCHANGED <<diskVars, local>>
  PROVE  TiersInv'
<1>1. /\ at' = "idle" /\ exit' = "raised" /\ local' \in Locals /\ homes' \in 0..asked
      /\ UNCHANGED <<worldVars, asked, tier, seenVars>>
      /\ DOMAIN archives' = 0..MaxSamples /\ \A n \in 0..MaxSamples : archives'[n] \in {"none", "PASS", "FAIL"}
  BY DEF TiersInv, TiersTypeOK, Raise, diskVars
<1>2. exit' \in Exits /\ exit' # "0"
  BY <1>1 DEF Exits
<1> QED  BY <1>1, <1>2, NotOver, TierEnds

\* A tier that ends with a verdict.
LEMMA FinishKeeps ==
  ASSUME TiersInv, NEW verdict, Finish(verdict), UNCHANGED <<diskVars, local>>,
         exit' = "0" => SnapshotIsReal' /\ PassIsEarned'
  PROVE  TiersInv'
<1>1. /\ at' = "idle" /\ local' \in Locals /\ homes' \in 0..asked
      /\ UNCHANGED <<worldVars, asked, tier, seenVars>>
      /\ DOMAIN archives' = 0..MaxSamples /\ \A n \in 0..MaxSamples : archives'[n] \in {"none", "PASS", "FAIL"}
  BY DEF TiersInv, TiersTypeOK, Finish, diskVars
<1>2. exit' \in Exits
  BY DEF Finish, ExitCode, Exits
<1> QED  BY <1>1, <1>2, NotOver, TierEnds

\* Exit 0 is the exit of these verdicts.
LEMMA ZeroMeans ==
  ASSUME NEW verdict, Finish(verdict), exit' = "0"
  PROVE  verdict \in Zero(tier)
  BY DEF Finish, ExitCode

LEMMA RoadmapKeeps == ASSUME TiersInv, EditRoadmap PROVE TiersInv'
<1> USE DEF TiersInv, EditRoadmap, Edited, diskVars, seenVars
<1>1. /\ tier = "provider-canary" /\ at # "idle" /\ exit' = "none" /\ at \notin BackupSteps
      /\ edits \in Nat /\ edits' = edits + 1 /\ roadmap' \in Nat
  BY DEF TiersTypeOK, Kept, Route
<1>2. TiersTypeOK'
  BY <1>1 DEF TiersTypeOK
<1>3. Route' /\ HomesKept' /\ BackupKept' /\ DoctorKept' /\ SoakKept'
  BY <1>1 DEF Kept, Route, HomesKept, BackupKept, DoctorKept, SoakKept, CanarySteps, BackupSteps
<1> QED  BY <1>1, <1>2, <1>3, NotOver DEF Kept

LEMMA AuthKeeps == ASSUME TiersInv, ToggleAuth PROVE TiersInv'
<1> USE DEF TiersInv, ToggleAuth, Edited, diskVars, seenVars
<1>1. tier = "provider-canary" /\ exit' = "none" /\ at \notin BackupSteps /\ edits \in Nat /\ edits' = edits + 1
  BY DEF TiersTypeOK, Kept, Route
<1>2. TiersTypeOK'
  BY <1>1 DEF TiersTypeOK
<1>3. Route' /\ HomesKept' /\ BackupKept' /\ DoctorKept' /\ SoakKept'
  BY <1>1 DEF Kept, Route, HomesKept, BackupKept, DoctorKept, SoakKept, CanarySteps, BackupSteps
<1> QED  BY <1>1, <1>2, <1>3, NotOver DEF Kept

\* A file that is written to lies after what it was, and so between what it was
\* and what it will be copied as.
LEMMA WriteKeeps == ASSUME TiersInv, NEW f \in Files, WriteState(f) PROVE TiersInv'
<1> USE DEF TiersInv, WriteState, Edited, diskVars
<1>1. tier = "backup-restore" /\ exit' = "none" /\ at \notin CanarySteps /\ edits \in Nat /\ edits' = edits + 1
  BY DEF TiersTypeOK, Kept, Route
<1>2. /\ files \in [Files -> Nat] /\ files' \in [Files -> Nat]
      /\ local.hashed \in [Files -> Nat] /\ local.copied \in [Files -> Nat]
      /\ files' \in been' /\ been \subseteq been'
  <2>1. PICK n \in 0..(files[f] + 1) : files' = [files EXCEPT ![f] = n]
    OBVIOUS
  <2>2. files \in [Files -> Nat] /\ n \in Nat
    BY <2>1 DEF TiersTypeOK
  <2> QED  BY <2>1, <2>2 DEF TiersTypeOK, Locals
<1>3. ~putBack' => ~putBack /\ \A g \in Files : files[g] <= files'[g]
  <2>1. PICK n \in 0..(files[f] + 1) : /\ files' = [files EXCEPT ![f] = n]
                                      /\ putBack' = (putBack \/ n < files[f])
    OBVIOUS
  <2>2. putBack \in BOOLEAN /\ \A g \in Files : files[g] \in Nat /\ files'[g] = IF g = f THEN n ELSE files[g]
    BY <1>2, <2>1 DEF TiersTypeOK
  <2>3. ~putBack' => ~putBack /\ ~(n < files[f])
    BY <2>1
  <2>4. ~(n < files[f]) => \A g \in Files : files[g] <= files'[g]
    BY <2>2
  <2> QED  BY <2>3, <2>4
<1>4. TiersTypeOK'
  BY <1>1, <1>2 DEF TiersTypeOK
<1>5. Route' /\ HomesKept' /\ DoctorKept' /\ SoakKept'
  BY <1>1 DEF Kept, Route, HomesKept, DoctorKept, SoakKept, CanarySteps, BackupSteps
<1>6. BackupKept'
  <2>1. ASSUME at \in {"hash", "copy_list"}, ~putBack', NEW g \in Files PROVE local.hashed[g] <= files'[g]
    <3>1. local.hashed[g] <= files[g] /\ files[g] <= files'[g]
      BY <1>3, <2>1 DEF Kept, BackupKept
    <3>2. local.hashed[g] \in Nat /\ files[g] \in Nat /\ files'[g] \in Nat
      BY <1>2
    <3> QED  BY <3>1, <3>2
  <2>2. ASSUME at \in {"copy", "restore"}, ~putBack' PROVE \E c \in been' : c \in [Files -> Nat] /\ Between(c)'
    <3>1. PICK c \in been : c \in [Files -> Nat] /\ Between(c)
      BY <1>3, <2>2 DEF Kept, BackupKept
    <3>2. ASSUME NEW g \in Files PROVE c[g] <= files'[g]
      <4>1. c[g] <= files[g] /\ files[g] <= files'[g]
        BY <1>3, <2>2, <3>1 DEF Between
      <4>2. c[g] \in Nat /\ files[g] \in Nat /\ files'[g] \in Nat
        BY <1>2, <3>1
      <4> QED  BY <4>1, <4>2
    <3>3. Between(c)'
      BY <3>1, <3>2 DEF Between
    <3> QED  BY <1>2, <3>1, <3>3
  <2> QED  BY <1>2, <2>1, <2>2 DEF Kept, BackupKept
<1> QED  BY <1>1, <1>4, <1>5, <1>6, NotOver DEF Kept

LEMMA MoveKeeps == ASSUME TiersInv, NEW d \in 1..Cwds, MoveDirectory(d) PROVE TiersInv'
<1> USE DEF TiersInv, MoveDirectory, Edited, diskVars
<1>1. /\ tier = "deployment" /\ exit' = "none" /\ at \notin CanarySteps \union BackupSteps
      /\ at \notin {"sample", "archive"} /\ edits \in Nat /\ edits' = edits + 1
  BY DEF TiersTypeOK, Kept, Route
<1>2. /\ local \in Locals /\ local' \in Locals /\ present' \in SUBSET (1..Cwds)
      /\ local' = [local EXCEPT !.always = local.always \intersect present']
  BY DEF TiersTypeOK, Locals
<1>3. TiersTypeOK'
  BY <1>1, <1>2 DEF TiersTypeOK, seenVars
<1>4. DoctorKept'
  <2>1. /\ local'.always = local.always \intersect present'
        /\ local'.cwd = local.cwd /\ local'.passed = local.passed /\ local'.failed = local.failed
        /\ local'.homes = local.homes
    BY <1>2 DEF Locals
  <2> QED  BY <2>1 DEF Kept, DoctorKept
<1>5. Route' /\ HomesKept' /\ SoakKept' /\ BackupKept'
  BY <1>1 DEF Kept, Route, HomesKept, SoakKept, CanarySteps, BackupSteps, BackupKept
<1> QED  BY <1>1, <1>3, <1>4, <1>5, NotOver DEF Kept

\* A command begins, or is refused.
LEMMA MainKeeps == ASSUME TiersInv, NEW t \in Tiers, Main(t) PROVE TiersInv'
<1> USE DEF TiersInv, Main, worldVars, diskVars
<1>1. local' = [Idle EXCEPT !.always = present, !.homes = homes]
  OBVIOUS
<1>2. /\ homes \in Nat /\ asked \in Nat /\ homes <= asked /\ present \in SUBSET (1..Cwds) /\ Cwds \in Nat
      /\ NoFiles \in [Files -> Nat] /\ asked' = asked + 1
  BY TierBoundsAssumption DEF TiersTypeOK, NoFiles
<1>3. local' \in Locals
  <2>1. Idle \in Locals
    BY <1>2 DEF Idle, Locals
  <2> QED  BY <1>1, <1>2, <2>1 DEF Locals
<1>4. /\ local'.before = 0 /\ local'.always = present /\ local'.homes = homes /\ local'.cwd = 1
      /\ local'.samples = <<>> /\ local'.paused = FALSE /\ local'.hashed = NoFiles /\ local'.copied = NoFiles
  BY <1>1 DEF Idle
<1>5. /\ exit' \in Exits /\ at' \in Steps /\ tier' = t /\ (at' # "idle" => exit' = "none" /\ at' \in Entry(t))
      /\ exit' = "0" => t = "deployment"
  BY DEF Refusals, ExitCode, Zero, Exits, Steps, Entry, Tiers
<1>6. TiersTypeOK'
  <2>1. putBack' \in BOOLEAN
    OBVIOUS
  <2> QED  BY <1>2, <1>3, <1>5, <2>1 DEF TiersTypeOK
<1>7. Route'
  BY <1>5 DEF Route, Entry, CanarySteps, BackupSteps, Tiers
<1>8. HomesKept'
  <2>1. homes' < asked'
    BY <1>2
  <2>2. at' # "doctor"
    BY <1>5 DEF Entry
  <2> QED  BY <2>1, <2>2 DEF HomesKept
<1>9. BackupKept' /\ DoctorKept' /\ SoakKept'
  <2>1. BackupKept'
    BY <1>4, <1>5 DEF BackupKept, Entry
  <2>2. DoctorKept'
    <3>1. \A d \in 1..Cwds : ~(d < 1)
      BY <1>2
    <3>2. homes' = local'.homes + 0
      BY <1>2, <1>4
    <3>3. at' # "doctor"
      BY <1>5 DEF Entry
    <3> QED  BY <1>2, <1>4, <3>1, <3>2, <3>3 DEF DoctorKept
  <2>3. SoakKept'
    <3>1. ~HotSomewhere(<<>>)
      BY TierBoundsAssumption DEF HotSomewhere
    <3>2. at' # "archive"
      BY <1>5 DEF Entry
    <3>3. HotSomewhere(local)' = HotSomewhere(local')
      BY DEF HotSomewhere
    <3> QED  BY <1>4, <3>1, <3>2 DEF SoakKept, HotSomewhere
  <2> QED  BY <2>1, <2>2, <2>3
<1>10. SnapshotIsReal' /\ PassIsEarned'
  <2>1. ASSUME 1 > Cwds PROVE present = {}
    BY <1>2, <2>1
  <2>2. exit' = "0" => /\ local'.cwd > Cwds => local'.always \subseteq local'.passed
                       /\ homes' = local'.homes
    BY <1>2, <1>4, <2>1
  <2> QED  BY <1>5, <2>2 DEF SnapshotIsReal, PassIsEarned
<1> QED  BY <1>6, <1>7, <1>8, <1>9, <1>10 DEF Kept

-----------------------------------------------------------------------------
(* The canary, and the backup. *)

\* The command goes on, and its variables stay.
LEMMA GoKeepsTypes ==
  ASSUME TiersTypeOK, NEW step \in Steps, Go(step), exit = "none", local' \in Locals, homes' \in 0..asked,
         UNCHANGED archives
  PROVE  TiersTypeOK'
  BY DEF TiersTypeOK, Go, worldVars, seenVars

\* A step from one look of the canary to the next.
LEMMA LookKeeps ==
  ASSUME TiersInv, at \in CanarySteps, NEW step \in CanarySteps, Go(step), UNCHANGED diskVars,
         \/ local' = local
         \/ \E creds \in BOOLEAN : local' = [local EXCEPT !.creds = creds]
         \/ local' = [local EXCEPT !.before = roadmap]
  PROVE  TiersInv'
<1>1. exit = "none" /\ tier = "provider-canary" /\ local \in Locals
  BY DEF TiersInv, TiersTypeOK, Kept, Route, CanarySteps
<1>2. local' \in Locals
  <2>1. roadmap \in Nat
    BY DEF TiersInv, TiersTypeOK
  <2> QED  BY <1>1, <2>1 DEF Locals
<1>3. TiersTypeOK'
  <2>1. homes' \in 0..asked /\ UNCHANGED archives /\ step \in Steps
    BY DEF TiersInv, TiersTypeOK, diskVars, Steps, CanarySteps
  <2> QED  BY <1>1, <1>2, <2>1, GoKeepsTypes DEF TiersInv
<1>4. Kept'
  BY <1>1, <1>2 DEF TiersInv, Go, worldVars, diskVars, Kept, Route, HomesKept, BackupKept, DoctorKept,
     SoakKept, CanarySteps, BackupSteps
<1>5. exit' # "0"
  BY <1>1 DEF Go
<1> QED  BY <1>3, <1>4, <1>5, NotOver DEF TiersInv

\* The verdict on a roadmap that is what it is now.
LEMMA CanaryVerdictKeeps ==
  ASSUME TiersInv, at \in {"after", "after_read"}, CanaryVerdict(roadmap), UNCHANGED <<diskVars, local>>
  PROVE  TiersInv'
<1>1. CASE Raise
  BY <1>1, RaiseKeeps
<1>2. ASSUME NEW verdict \in {"CANARY_PASS", "CANARY_BLOCKED"}, Finish(verdict),
             verdict = "CANARY_PASS" => local.creds /\ local.before = roadmap
      PROVE  TiersInv'
  <2>1. tier = "provider-canary" /\ tier' = tier /\ roadmap' = roadmap /\ local' = local
    BY <1>2 DEF TiersInv, Kept, Route, CanarySteps, Finish, worldVars
  <2>2. ASSUME exit' = "0" PROVE local.creds /\ local.before = roadmap
    BY <1>2, <2>1, <2>2, ZeroMeans DEF Zero
  <2>3. exit' = "0" => SnapshotIsReal' /\ PassIsEarned'
    BY <2>1, <2>2 DEF SnapshotIsReal, PassIsEarned, TiersInv, Kept, CanarySteps
  <2> QED  BY <1>2, <2>3, FinishKeeps
<1> QED  BY <1>1, <1>2 DEF CanaryVerdict

LEMMA CanaryKeeps ==
  ASSUME TiersInv,
         CanaryBefore \/ CanaryBeforeRead \/ CanaryRoute \/ CanaryFingerprint \/ CanaryAfter \/ CanaryAfterRead
  PROVE  TiersInv'
<1> USE DEF CanarySteps
<1>0. CASE CanaryBefore \/ CanaryBeforeRead
  BY <1>0, LookKeeps, RaiseKeeps DEF CanaryBefore, CanaryBeforeRead
<1>1. CASE CanaryRoute
  <2>1. PICK step \in {"auth", "after"} : Go(step)
    BY <1>1 DEF CanaryRoute
  <2>2. \E creds \in BOOLEAN : local' = [local EXCEPT !.creds = creds]
    <3>1. auth \in BOOLEAN
      BY DEF TiersInv, TiersTypeOK
    <3> QED  BY <1>1, <3>1 DEF CanaryRoute
  <2> QED  BY <1>1, <2>1, <2>2, LookKeeps DEF CanaryRoute
<1>2. CASE CanaryFingerprint
  BY <1>2, LookKeeps, RaiseKeeps DEF CanaryFingerprint
<1>3. CASE CanaryAfter
  BY <1>3, LookKeeps, CanaryVerdictKeeps DEF CanaryAfter
<1>4. CASE CanaryAfterRead
  BY <1>4, RaiseKeeps, CanaryVerdictKeeps DEF CanaryAfterRead
<1> QED  BY <1>0, <1>1, <1>2, <1>3, <1>4

LEMMA FirstOfTodo == ASSUME NEW s \in SUBSET Files, s # {} PROVE First(s) \in s
<1>1. s \in SUBSET Nat
  BY FilesAssumption, FS_CardinalityType
<1>2. \E f \in s : \A g \in s : f <= g
  BY <1>1, LeastNat
<1> QED  BY <1>2 DEF First

\* A step of the backup that goes on.
LEMMA BackupGoesOn ==
  ASSUME TiersInv, at \in BackupSteps, at' \in BackupSteps, local' \in Locals,
         UNCHANGED <<worldVars, diskVars, asked, tier, exit>>, putBack' \in BOOLEAN, BackupKept'
  PROVE  TiersInv'
<1>1. exit = "none" /\ tier = "backup-restore"
  BY DEF TiersInv, TiersTypeOK, Kept, Route, BackupSteps
<1>2. TiersTypeOK'
  BY <1>1 DEF TiersInv, TiersTypeOK, worldVars, seenVars, diskVars, Steps, BackupSteps
<1>3. Kept'
  BY <1>1 DEF TiersInv, worldVars, diskVars, Kept, Route, HomesKept, DoctorKept,
     SoakKept, CanarySteps, BackupSteps
<1> QED  BY <1>1, <1>2, <1>3, NotOver DEF TiersInv

LEMMA BackupTypes ==
  ASSUME TiersInv
  PROVE  /\ local \in Locals /\ files \in [Files -> Nat] /\ local.todo \in SUBSET Files
         /\ local.hashed \in [Files -> Nat] /\ local.copied \in [Files -> Nat]
         /\ NoFiles \in [Files -> Nat] /\ putBack \in BOOLEAN
  BY DEF TiersInv, TiersTypeOK, Locals, NoFiles

\* Listing the directory for the hash is where the looking begins.
LEMMA HashListKeeps == ASSUME TiersInv, HashList PROVE TiersInv'
<1> USE DEF HashList, List
<1> DEFINE todo == {f \in Files : files[f] # 0}
<1>1. /\ local' = [local EXCEPT !.todo = todo] /\ todo \in SUBSET Files /\ at' = "hash" /\ been' = {files}
      /\ putBack' \in BOOLEAN
  BY DEF seenVars
<1>2. local' \in Locals /\ local'.hashed = local.hashed /\ local'.copied = local.copied
  BY <1>1, BackupTypes DEF Locals
<1>3. local.hashed = NoFiles /\ local.copied = NoFiles /\ files' = files
  BY DEF TiersInv, Kept, BackupKept, worldVars
<1>4. \A f \in Files : local'.hashed[f] <= files'[f]
  <2> TAKE f \in Files
  <2>1. local'.hashed[f] = 0 /\ files'[f] \in Nat
    BY <1>2, <1>3, BackupTypes DEF NoFiles
  <2> QED  BY <2>1
<1>5. BackupKept'
  BY <1>1, <1>2, <1>3, <1>4 DEF BackupKept
<1> QED  BY <1>1, <1>2, <1>5, BackupGoesOn, BackupTypes DEF BackupSteps

\* The directory when the copy is listed is what was hashed or later, and what
\* is not listed is not there.
LEMMA CopyListKeeps == ASSUME TiersInv, CopyList PROVE TiersInv'
<1> USE DEF CopyList, List
<1> DEFINE todo == {f \in Files : files[f] # 0}
<1>1. local' = [local EXCEPT !.todo = todo] /\ todo \in SUBSET Files /\ at' = "copy" /\ been' = been /\ putBack' = putBack
  BY DEF seenVars
<1>2. /\ local' \in Locals /\ local'.hashed = local.hashed /\ local'.copied = local.copied
      /\ local'.todo = todo
  BY <1>1, BackupTypes DEF Locals
<1>3. /\ local.copied = NoFiles /\ files' = files /\ files \in been
      /\ ~putBack => \A f \in Files : local.hashed[f] <= files[f]
  BY DEF TiersInv, Kept, BackupKept, worldVars
<1>4. ASSUME ~putBack PROVE Between(files)'
  <2> SUFFICES ASSUME NEW f \in Files
               PROVE  /\ local'.hashed[f] <= files'[f] /\ files'[f] <= files'[f]
                      /\ files'[f] <= local'.copied[f] \/ (at' = "copy" /\ f \in local'.todo)
    BY DEF Between
  <2>1. files[f] \in Nat /\ local'.copied[f] = 0
    BY <1>2, <1>3, BackupTypes DEF NoFiles
  <2> QED  BY <1>1, <1>2, <1>3, <1>4, <2>1
<1>5. BackupKept'
  <2>1. ~putBack => \E c \in been' : c \in [Files -> Nat] /\ Between(c)'
    BY <1>1, <1>3, <1>4, BackupTypes
  <2> QED  BY <1>1, <2>1 DEF BackupKept
<1> QED  BY <1>1, <1>2, <1>5, BackupGoesOn, BackupTypes DEF BackupSteps

LEMMA HashFileKeeps == ASSUME TiersInv, HashFile PROVE TiersInv'
<1> USE DEF HashFile, Go
<1>1. /\ at = "hash" /\ at' \in {"hash", "copy_list"} /\ files' = files /\ files \in been
      /\ UNCHANGED <<been, putBack>> /\ local.copied = NoFiles
      /\ ~putBack => \A f \in Files : local.hashed[f] <= files[f]
  BY DEF TiersInv, Kept, BackupKept, worldVars, seenVars
<1>2. CASE local.todo = {}
  <2>1. BackupKept'
    BY <1>1, <1>2 DEF BackupKept
  <2> QED  BY <1>1, <1>2, <2>1, BackupGoesOn, BackupTypes DEF BackupSteps
<1>3. CASE local.todo # {}
  <2>1. PICK f \in Files : local' = [local EXCEPT !.hashed[f] = files[f], !.todo = @ \ {f}]
    BY <1>3, FirstOfTodo, BackupTypes
  <2>2. /\ local' \in Locals /\ local'.hashed = [local.hashed EXCEPT ![f] = files[f]]
        /\ local'.copied = local.copied
    <3>1. files[f] \in Nat
      BY BackupTypes
    <3> QED  BY <2>1, <3>1, BackupTypes DEF Locals
  <2>3. ASSUME ~putBack, NEW g \in Files PROVE local'.hashed[g] <= files'[g]
    <3>1. files[g] \in Nat /\ local.hashed[g] <= files[g]
      BY <1>1, <2>3, BackupTypes
    <3>2. local'.hashed[g] = IF g = f THEN files[g] ELSE local.hashed[g]
      BY <2>2, BackupTypes
    <3> QED  BY <1>1, <3>1, <3>2
  <2>4. BackupKept'
    BY <1>1, <2>2, <2>3 DEF BackupKept
  <2> QED  BY <1>1, <1>3, <2>2, <2>4, BackupGoesOn, BackupTypes DEF BackupSteps
<1> QED  BY <1>2, <1>3

\* A file that is copied now is copied as it was when it was listed, or later.
LEMMA CopyFileKeeps == ASSUME TiersInv, CopyFile PROVE TiersInv'
<1> USE DEF CopyFile, Go
<1>1. at = "copy" /\ at' \in {"copy", "restore"} /\ files' = files /\ UNCHANGED <<been, putBack>>
  BY DEF worldVars, seenVars
<1>2. ~putBack => \E c \in been : c \in [Files -> Nat] /\ Between(c)
  BY <1>1 DEF TiersInv, Kept, BackupKept
<1>3. CASE local.todo = {}
  <2>1. ASSUME NEW c \in been, Between(c) PROVE Between(c)'
    BY <1>1, <2>1, <1>3 DEF Between
  <2>2. BackupKept'
    BY <1>1, <1>2, <2>1, <1>3 DEF BackupKept
  <2> QED  BY <1>1, <1>3, <2>2, BackupGoesOn, BackupTypes DEF BackupSteps
<1>4. CASE local.todo # {}
  <2>1. PICK f \in Files : local' = [local EXCEPT !.copied[f] = files[f], !.todo = @ \ {f}]
    BY <1>4, FirstOfTodo, BackupTypes
  <2>2. /\ local' \in Locals /\ local'.copied = [local.copied EXCEPT ![f] = files[f]]
        /\ local'.hashed = local.hashed /\ local'.todo = local.todo \ {f}
    <3>1. files[f] \in Nat
      BY BackupTypes
    <3> QED  BY <2>1, <3>1, BackupTypes DEF Locals
  <2>3. ASSUME NEW c \in been, Between(c) PROVE Between(c)'
    <3> SUFFICES ASSUME NEW g \in Files
                 PROVE  /\ local'.hashed[g] <= c[g] /\ c[g] <= files'[g]
                        /\ c[g] <= local'.copied[g] \/ (at' = "copy" /\ g \in local'.todo)
      BY DEF Between
    <3>1. /\ local.hashed[g] <= c[g] /\ c[g] <= files[g]
          /\ c[g] <= local.copied[g] \/ g \in local.todo
      BY <2>3 DEF Between
    <3>2. local'.copied[g] = IF g = f THEN files[g] ELSE local.copied[g]
      BY <2>2, BackupTypes
    <3>3. at' = "copy"
      BY <1>4
    <3>4. local'.hashed[g] <= c[g] /\ c[g] <= files'[g]
      BY <1>1, <2>2, <3>1
    <3>5. CASE g = f
      BY <3>1, <3>2, <3>4, <3>5
    <3>6. CASE g # f
      BY <2>2, <3>1, <3>2, <3>3, <3>4, <3>6
    <3> QED  BY <3>5, <3>6
  <2>4. BackupKept'
    BY <1>1, <1>2, <2>3, <1>4 DEF BackupKept
  <2> QED  BY <1>1, <1>4, <2>2, <2>4, BackupGoesOn, BackupTypes DEF BackupSteps
<1> QED  BY <1>3, <1>4

\* Equal digests leave nothing between what was hashed and what was copied.
LEMMA RestoreKeeps == ASSUME TiersInv, Restore PROVE TiersInv'
<1>1. at = "restore" /\ tier = "backup-restore" /\ UNCHANGED <<diskVars, local>>
  BY DEF TiersInv, Kept, Route, BackupSteps, Restore
<1>2. PICK verdict \in {"PASS", "FAIL"} :
        Finish(verdict) /\ (verdict = "PASS" => Digest(local.hashed) = Digest(local.copied))
  BY DEF Restore
<1>3. ASSUME Digest(local.hashed) = Digest(local.copied), ~putBack PROVE local.copied \in been
  <2>0. PICK c \in been : c \in [Files -> Nat] /\ Between(c)
    BY <1>1, <1>3 DEF TiersInv, Kept, BackupKept
  <2>1. \A f \in Files : local.hashed[f] \in Nat /\ c[f] \in Nat /\ local.copied[f] \in Nat
    BY <2>0, BackupTypes
  <2>2. \A f \in Files : local.hashed[f] <= c[f] /\ c[f] <= local.copied[f]
    BY <1>1, <2>0 DEF Between
  <2>3. local.hashed = local.copied
    <3>1. \A f \in Files : local.hashed[f] <= local.copied[f]
      BY <2>1, <2>2
    <3> QED  BY <1>3, <3>1, DigestsTell, BackupTypes
  <2>4. \A f \in Files : c[f] = local.copied[f]
    BY <2>1, <2>2, <2>3
  <2> QED  BY <2>0, <2>4, BackupTypes
<1>4. exit' = "0" => SnapshotIsReal' /\ PassIsEarned'
  <2>1. exit' = "0" => putBack \/ local.copied \in been
    BY <1>1, <1>2, <1>3, ZeroMeans DEF Zero
  <2>2. tier' = tier /\ UNCHANGED <<been, putBack>> /\ local' = local
    BY <1>1, <1>2 DEF Finish, seenVars
  <2> QED  BY <1>1, <2>1, <2>2 DEF SnapshotIsReal, PassIsEarned
<1> QED  BY <1>1, <1>2, <1>4, FinishKeeps

-----------------------------------------------------------------------------
(* Deployment. *)

\* A step of the deployment tier that goes on.
LEMMA DeploymentGoesOn ==
  ASSUME TiersInv, at \in {"cwd", "doctor"}, at' \in {"cwd", "doctor"}, local' \in Locals,
         UNCHANGED <<worldVars, archives, asked, tier, exit, seenVars>>,
         homes' \in Nat, homes' <= asked, HomesKept', DoctorKept'
  PROVE  TiersInv'
<1>1. exit = "none" /\ tier = "deployment"
  BY DEF TiersInv, TiersTypeOK, Kept, Route
<1>2. TiersTypeOK'
  <2>1. homes' \in 0..asked' /\ asked' \in Nat
    BY DEF TiersInv, TiersTypeOK
  <2> QED  BY <1>1, <2>1 DEF TiersInv, TiersTypeOK, worldVars, seenVars, Steps
<1>3. Route' /\ BackupKept' /\ SoakKept'
  BY <1>1 DEF TiersInv, worldVars, Kept, Route, BackupKept, SoakKept, CanarySteps, BackupSteps
<1> QED  BY <1>1, <1>2, <1>3, NotOver DEF TiersInv, Kept

LEMMA DeploymentTypes ==
  ASSUME TiersInv
  PROVE  /\ local \in Locals /\ local.cwd \in 1..(Cwds + 1) /\ Cwds \in Nat /\ local.homes \in Nat
         /\ local.passed \in SUBSET (1..Cwds) /\ local.failed \in SUBSET (1..Cwds)
         /\ local.always \in SUBSET (1..Cwds) /\ present \in SUBSET (1..Cwds)
         /\ homes \in Nat /\ asked \in Nat /\ homes <= asked
<1>1. /\ local \in Locals /\ present \in SUBSET (1..Cwds)
      /\ homes \in 0..asked /\ asked \in Nat
  BY DEF TiersInv, TiersTypeOK
<1>2. /\ local.cwd \in 1..(Cwds + 1) /\ local.homes \in Nat
      /\ local.passed \in SUBSET (1..Cwds) /\ local.failed \in SUBSET (1..Cwds)
      /\ local.always \in SUBSET (1..Cwds)
  BY <1>1 DEF Locals
<1>3. Cwds \in Nat
  BY TierBoundsAssumption
<1>4. homes \in Nat /\ homes <= asked
  BY <1>1
<1> QED  BY <1>1, <1>2, <1>3, <1>4

\* A directory that is not there has not been there all along.
LEMMA EnterKeeps == ASSUME TiersInv, EnterHome PROVE TiersInv'
<1> USE DEF EnterHome
<1>1. /\ at = "cwd" /\ homes < asked /\ local.always \subseteq present /\ homes = local.homes
      /\ \A d \in local.always : d < local.cwd => d \in local.passed \union local.failed
  BY DeploymentTypes DEF TiersInv, Kept, HomesKept, DoctorKept
<1>2. local.cwd \in 1..Cwds
  BY DeploymentTypes
<1>3. CASE local.cwd \notin present
  <2>1. local' = [local EXCEPT !.cwd = local.cwd + 1] /\ UNCHANGED <<at, homes>>
    BY <1>3
  <2>2. /\ local' \in Locals /\ local'.cwd = local.cwd + 1 /\ local'.always = local.always
        /\ local'.passed = local.passed /\ local'.failed = local.failed /\ local'.homes = local.homes
    <3>1. local.cwd + 1 \in 1..(Cwds + 1)
      BY <1>2, DeploymentTypes
    <3> QED  BY <2>1, <3>1, DeploymentTypes DEF Locals
  <2>3. \A d \in local'.always : d < local'.cwd => d \in local'.passed \union local'.failed
    <3> SUFFICES ASSUME NEW d \in local.always, d < local.cwd + 1 PROVE d \in local.passed \union local.failed
      BY <2>2
    <3>1. d # local.cwd /\ d \in Nat /\ local.cwd \in Nat
      BY <1>1, <1>2, <1>3, DeploymentTypes
    <3> QED  BY <1>1, <3>1
  <2>4. local'.always \subseteq present' /\ homes' = local'.homes + 0 /\ at' = "cwd"
    BY <1>1, <2>1, <2>2, DeploymentTypes DEF worldVars
  <2>5. DoctorKept'
    BY <2>3, <2>4 DEF DoctorKept
  <2>6. HomesKept'
    BY <1>1, <2>1 DEF HomesKept
  <2> QED  BY <1>1, <2>1, <2>2, <2>5, <2>6, DeploymentGoesOn, DeploymentTypes
<1>4. CASE local.cwd \in present
  <2>1. at' = "doctor" /\ homes' = homes + 1 /\ UNCHANGED local
    BY <1>4
  <2>2. homes' \in Nat /\ homes' <= asked /\ homes' > 0 /\ homes' = local'.homes + 1
    BY <1>1, <2>1, DeploymentTypes
  <2>3. DoctorKept'
    BY <1>1, <2>1, <2>2 DEF DoctorKept, worldVars
  <2>4. HomesKept'
    BY <2>1, <2>2 DEF HomesKept
  <2> QED  BY <1>1, <2>1, <2>2, <2>3, <2>4, DeploymentGoesOn, DeploymentTypes
<1> QED  BY <1>3, <1>4

LEMMA DoctorKeeps == ASSUME TiersInv, Doctor PROVE TiersInv'
<1> USE DEF Doctor, Go
<1>1. /\ at = "doctor" /\ at' = "cwd" /\ homes > 0 /\ local.always \subseteq present /\ homes = local.homes + 1
      /\ \A d \in local.always : d < local.cwd => d \in local.passed \union local.failed
      /\ homes' = homes - 1 /\ local.cwd \in 1..Cwds
      /\ UNCHANGED <<worldVars, archives, asked, tier, exit, seenVars>>
  BY DeploymentTypes DEF TiersInv, Kept, HomesKept, DoctorKept
<1>2. local.cwd + 1 \in 1..(Cwds + 1)
  BY <1>1, DeploymentTypes
<1>3. /\ local' \in Locals /\ local'.cwd = local.cwd + 1 /\ local'.always = local.always
      /\ local'.passed \union local'.failed = local.passed \union local.failed \union {local.cwd}
      /\ local'.homes = local.homes
  <2>1. CASE local' = [local EXCEPT !.cwd = @ + 1, !.passed = @ \union {local.cwd}]
    <3>1. local.passed \union {local.cwd} \in SUBSET (1..Cwds)
      BY <1>1, DeploymentTypes
    <3> QED  BY <1>2, <2>1, <3>1, DeploymentTypes DEF Locals
  <2>2. CASE local' = [local EXCEPT !.cwd = @ + 1, !.failed = @ \union {local.cwd}]
    <3>1. local.failed \union {local.cwd} \in SUBSET (1..Cwds)
      BY <1>1, DeploymentTypes
    <3> QED  BY <1>2, <2>2, <3>1, DeploymentTypes DEF Locals
  <2> QED  BY <2>1, <2>2
<1>4. \A d \in local'.always : d < local'.cwd => d \in local'.passed \union local'.failed
  <2> SUFFICES ASSUME NEW d \in local.always, d < local.cwd + 1
               PROVE  d \in local'.passed \union local'.failed
    BY <1>3
  <2>1. d = local.cwd \/ d < local.cwd
    BY <1>1, DeploymentTypes
  <2> QED  BY <1>1, <1>3, <2>1
<1>5. homes' \in Nat /\ homes' <= asked /\ homes' < asked' /\ homes' = local'.homes + 0
  BY <1>1, <1>3, DeploymentTypes
<1>6. DoctorKept'
  BY <1>1, <1>3, <1>4, <1>5 DEF DoctorKept, worldVars
<1>7. HomesKept'
  BY <1>1, <1>5 DEF HomesKept
<1> QED  BY <1>1, <1>3, <1>5, <1>6, <1>7, DeploymentGoesOn

LEMMA DeploymentKeeps == ASSUME TiersInv, DeploymentVerdict PROVE TiersInv'
<1>1. /\ at = "cwd" /\ local.cwd > Cwds /\ tier = "deployment" /\ UNCHANGED <<diskVars, local>>
      /\ \A d \in local.always : d < local.cwd => d \in local.passed \union local.failed
      /\ homes = local.homes
  BY DeploymentTypes DEF DeploymentVerdict, TiersInv, Kept, Route, DoctorKept
<1>2. PICK verdict \in {"PASS", "FAIL"} : Finish(verdict) /\ (verdict = "PASS" => local.failed = {})
  BY DEF DeploymentVerdict
<1>3. exit' = "0" => SnapshotIsReal' /\ PassIsEarned'
  <2>1. ASSUME exit' = "0" PROVE local.failed = {}
    BY <1>1, <1>2, <2>1, ZeroMeans DEF Zero
  <2>2. \A d \in local.always : d < local.cwd
    BY <1>1, DeploymentTypes
  <2>3. exit' = "0" => local.always \subseteq local.passed
    BY <1>1, <2>1, <2>2
  <2>4. tier' = tier /\ local' = local /\ homes' = homes
    BY <1>1, <1>2 DEF Finish, diskVars
  <2> QED  BY <1>1, <2>3, <2>4 DEF SnapshotIsReal, PassIsEarned
<1> QED  BY <1>1, <1>2, <1>3, FinishKeeps

-----------------------------------------------------------------------------
(* Soak, matrix and the rest. *)

LEMMA SoakGoesOn ==
  ASSUME TiersInv, at = "sample", at' \in {"sample", "archive"}, local' \in Locals,
         UNCHANGED <<worldVars, diskVars, asked, tier, exit, seenVars>>, SoakKept'
  PROVE  TiersInv'
<1>1. exit = "none" /\ tier = "soak"
  BY DEF TiersInv, TiersTypeOK, Kept, Route
<1>2. TiersTypeOK'
  BY <1>1 DEF TiersInv, TiersTypeOK, worldVars, seenVars, diskVars, Steps
<1>3. Kept'
  BY <1>1 DEF TiersInv, worldVars, diskVars, Kept, Route, HomesKept, BackupKept, DoctorKept,
     CanarySteps, BackupSteps
<1> QED  BY <1>1, <1>2, <1>3, NotOver DEF TiersInv

\* A stretch that a new sample makes idle ends with it.
LEMMA HotAtTheEnd ==
  ASSUME NEW s \in Seq(Samples), NEW x \in Samples, ~HotSomewhere(s), HotSomewhere(Append(s, x))
  PROVE  HotLoop(Append(s, x))
<1> DEFINE t == Append(s, x)
<1>1. /\ HotWindow \in Nat \ {0} /\ Len(s) \in Nat /\ Len(t) = Len(s) + 1
      /\ \A i \in 1..Len(s) : t[i] = s[i]
  BY TierBoundsAssumption
<1> HIDE DEF t
<1>2. PICK i \in HotWindow..Len(t) : \A j \in (i - HotWindow + 1)..i : t[j] = "idle"
  BY DEF HotSomewhere, t
<1>3. i = Len(t)
  <2> SUFFICES ASSUME i # Len(t) PROVE FALSE
    OBVIOUS
  <2>1. i \in HotWindow..Len(s) /\ \A j \in (i - HotWindow + 1)..i : j \in 1..Len(s)
    BY <1>1
  <2>2. \A j \in (i - HotWindow + 1)..i : s[j] = "idle"
    BY <1>1, <1>2, <2>1
  <2> QED  BY <2>1, <2>2 DEF HotSomewhere
<1>4. Len(t) >= HotWindow
  BY <1>1, <1>2, <1>3
<1>5. HotLoop(t)
  BY <1>2, <1>3, <1>4 DEF HotLoop
<1> QED  BY <1>5 DEF t

LEMMA SampleKeeps == ASSUME TiersInv, Sample PROVE TiersInv'
<1>1. at = "sample" /\ ~HotSomewhere(local.samples) /\ local.paused = FALSE
  BY DEF Sample, TiersInv, TiersTypeOK, Locals, Kept, SoakKept
<1>2. local \in Locals /\ local.samples \in Seq(Samples)
  BY DEF TiersInv, TiersTypeOK, Locals
<1>3. PICK x \in Samples : /\ local' = [local EXCEPT !.samples = Append(local.samples, x)]
                           /\ Go(IF HotLoop(Append(local.samples, x)) THEN "archive" ELSE "sample")
  BY DEF Sample
<1>4. /\ local' \in Locals /\ local'.samples = Append(local.samples, x) /\ local'.paused = FALSE
  <2>1. Append(local.samples, x) \in Seq(Samples)
    BY <1>2
  <2>2. local' = [local EXCEPT !.samples = Append(local.samples, x)]
    BY <1>3
  <2> QED  BY <1>1, <1>2, <2>1, <2>2 DEF Locals
<1>5. HotSomewhere(Append(local.samples, x)) => HotLoop(Append(local.samples, x))
  BY <1>1, <1>2, HotAtTheEnd
<1>6. at' = IF HotLoop(Append(local.samples, x)) THEN "archive" ELSE "sample"
  BY <1>3 DEF Go
<1>7. SoakKept'
  <2>1. at' = "sample" => ~HotSomewhere(Append(local.samples, x))
    BY <1>5, <1>6
  <2>2. at' = "archive" => HotLoop(Append(local.samples, x))
    BY <1>6
  <2> QED  BY <1>4, <2>1, <2>2 DEF SoakKept, HotSomewhere, HotLoop
<1> QED  BY <1>1, <1>3, <1>4, <1>6, <1>7, SoakGoesOn DEF Go, Sample

LEMMA SoakEndKeeps == ASSUME TiersInv, TimeIsOver \/ Interrupt PROVE TiersInv'
<1>1. at = "sample" /\ ~HotSomewhere(local.samples) /\ at' = "archive"
  BY DEF TimeIsOver, Interrupt, Go, TiersInv, Kept, SoakKept
<1>2. local \in Locals
  BY DEF TiersInv, TiersTypeOK
<1>3. local' \in Locals /\ local'.samples = local.samples
  BY <1>2 DEF TimeIsOver, Interrupt, Locals
<1>4. SoakKept'
  BY <1>1, <1>3 DEF SoakKept, HotSomewhere
<1> QED  BY <1>1, <1>3, <1>4, SoakGoesOn DEF TimeIsOver, Interrupt, Go

LEMMA ArchiveKeeps == ASSUME TiersInv, Archive PROVE TiersInv'
<1>1. /\ at = "archive" /\ tier = "soak" /\ local \in Locals /\ local' = local /\ homes' = homes
      /\ ~local.paused /\ HotSomewhere(local.samples) => HotLoop(local.samples)
  BY DEF Archive, TiersInv, TiersTypeOK, Kept, Route, SoakKept
<1> DEFINE verdict == IF local.paused THEN "FAIL" ELSE SoakVerdict(local.samples)
<1>2. verdict \in {"PASS", "FAIL"} /\ Finish(verdict)
  BY DEF Archive, SoakVerdict
<1>3. DOMAIN archives' = 0..MaxSamples /\ \A n \in 0..MaxSamples : archives'[n] \in {"none", "PASS", "FAIL"}
  <2>1. PICK n \in DOMAIN archives : archives' = [archives EXCEPT ![n] = verdict]
    BY DEF Archive
  <2> HIDE DEF verdict
  <2>2. DOMAIN archives = 0..MaxSamples /\ \A m \in 0..MaxSamples : archives[m] \in {"none", "PASS", "FAIL"}
    BY DEF TiersInv, TiersTypeOK
  <2>3. \A m \in 0..MaxSamples : archives'[m] = IF m = n THEN verdict ELSE archives[m]
    BY <2>1, <2>2
  <2> QED  BY <1>2, <2>1, <2>2, <2>3
<1>4. SnapshotIsReal' /\ PassIsEarned'
  <2>1. ASSUME exit' = "0" PROVE verdict = "PASS"
    BY <1>1, <1>2, <2>1, ZeroMeans DEF Zero
  <2>2. verdict = "PASS" => ~local.paused /\ SoakVerdict(local.samples) = "PASS"
    BY DEF SoakVerdict
  <2>3. SoakVerdict(local.samples) = "PASS" =>
          /\ \A i \in 1..Len(local.samples) : local.samples[i] # "over"
          /\ ~HotLoop(local.samples)
    BY DEF SoakVerdict
  <2>4. tier' = "soak"
    BY <1>1, <1>2 DEF Finish
  <2> HIDE DEF verdict
  <2>5. exit' = "0" => /\ \A i \in 1..Len(local.samples) : local.samples[i] # "over"
                       /\ ~HotSomewhere(local.samples) /\ ~local.paused
    BY <1>1, <2>1, <2>2, <2>3
  <2> QED  BY <1>1, <2>4, <2>5 DEF SnapshotIsReal, PassIsEarned, HotSomewhere
<1>5. /\ at' = "idle" /\ exit' \in Exits /\ homes' \in 0..asked /\ local' \in Locals
      /\ UNCHANGED <<worldVars, asked, tier, seenVars>>
  BY <1>1, <1>2 DEF Finish, ExitCode, Exits, TiersInv, TiersTypeOK
<1> QED  BY <1>3, <1>4, <1>5, TierEnds

LEMMA CellsKeep == ASSUME TiersInv, Cells PROVE TiersInv'
<1>0. tier = "compatibility-matrix" /\ local \in Locals /\ UNCHANGED diskVars
  BY DEF Cells, TiersInv, TiersTypeOK, Kept, Route
<1>1. CASE Raise /\ UNCHANGED local
  BY <1>0, <1>1, RaiseKeeps
<1>2. CASE ~(Raise /\ UNCHANGED local)
  <2>1. PICK here \in SUBSET Repos, old \in BOOLEAN :
          local' = [local EXCEPT !.installed = here, !.unsupported = old]
    BY <1>2 DEF Cells
  <2>2. PICK verdict \in {"PASS", "FAIL", "BLOCKED"} :
          /\ Finish(verdict)
          /\ verdict # "FAIL" => \A r \in Repos : CellVerdict(r) # "FAIL"
    BY <1>2 DEF Cells
  <2>3. local' \in Locals
    BY <1>0, <2>1 DEF Locals
  <2>4. \A r \in Repos : CellVerdict(r) # "FAIL" => local'.unsupported \/ r \in local'.installed
    BY DEF CellVerdict
  <2>5. tier' = tier /\ (exit' = "0" => verdict # "FAIL")
    BY <1>0, <2>2, ZeroMeans DEF Zero, Finish
  <2>6. SnapshotIsReal' /\ PassIsEarned'
    <3>1. exit' = "0" => local'.unsupported \/ Repos \subseteq local'.installed
      BY <2>2, <2>4, <2>5
    <3> QED  BY <1>0, <2>5, <3>1 DEF SnapshotIsReal, PassIsEarned
  <2>7. /\ at' = "idle" /\ exit' \in Exits /\ homes' \in 0..asked
        /\ UNCHANGED <<worldVars, asked, tier, seenVars>>
        /\ DOMAIN archives' = 0..MaxSamples /\ \A n \in 0..MaxSamples : archives'[n] \in {"none", "PASS", "FAIL"}
    BY <1>0, <2>2 DEF Finish, ExitCode, Exits, TiersInv, TiersTypeOK, diskVars
  <2> QED  BY <2>3, <2>6, <2>7, TierEnds
<1> QED  BY <1>1, <1>2

LEMMA HermeticKeeps == ASSUME TiersInv, Hermetic PROVE TiersInv'
<1>1. /\ tier \in {"scenarios", "rollback", "corruption", "disk-pressure"} /\ UNCHANGED <<diskVars, local>>
  BY DEF Hermetic, TiersInv, Kept, Route
<1>2. PICK verdict : Finish(verdict)
  BY DEF Hermetic
<1>3. SnapshotIsReal' /\ PassIsEarned'
  BY <1>1, <1>2 DEF Finish, SnapshotIsReal, PassIsEarned
<1> QED  BY <1>1, <1>2, <1>3, FinishKeeps

-----------------------------------------------------------------------------
(* The theorems. *)

LEMMA TiersStep == TiersInv /\ [TiersNext]_tierVars => TiersInv'
<1> SUFFICES ASSUME TiersInv, [TiersNext]_tierVars PROVE TiersInv'
  OBVIOUS
<1>1. CASE EditRoadmap \/ ToggleAuth \/ (\E f \in Files : WriteState(f)) \/ (\E d \in 1..Cwds : MoveDirectory(d))
  BY <1>1, RoadmapKeeps, AuthKeeps, WriteKeeps, MoveKeeps
<1>2. CASE \E t \in Tiers : Main(t)
  BY <1>2, MainKeeps
<1>3. CASE CanaryBefore \/ CanaryBeforeRead \/ CanaryRoute \/ CanaryFingerprint \/ CanaryAfter \/ CanaryAfterRead
  BY <1>3, CanaryKeeps
<1>4. CASE HashList \/ HashFile \/ CopyList \/ CopyFile \/ CopyRaises \/ Restore
  BY <1>4, HashListKeeps, HashFileKeeps, CopyListKeeps, CopyFileKeeps, RaiseKeeps, RestoreKeeps DEF CopyRaises
<1>5. CASE EnterHome \/ Doctor \/ DoctorRaises \/ DeploymentVerdict
  BY <1>5, EnterKeeps, DoctorKeeps, RaiseKeeps, DeploymentKeeps DEF DoctorRaises
<1>6. CASE Sample \/ TimeIsOver \/ Interrupt \/ Archive
  BY <1>6, SampleKeeps, SoakEndKeeps, ArchiveKeeps
<1>7. CASE Cells \/ Hermetic
  BY <1>7, CellsKeep, HermeticKeeps
<1>8. CASE UNCHANGED tierVars
  <2> USE <1>8 DEF tierVars, worldVars, diskVars, seenVars
  <2>1. TiersTypeOK'
    BY DEF TiersInv, TiersTypeOK
  <2>2. Route' /\ HomesKept' /\ DoctorKept' /\ SoakKept'
    BY DEF TiersInv, Kept, Route, HomesKept, DoctorKept, SoakKept, HotSomewhere, HotLoop
  <2>3. BackupKept'
    BY DEF TiersInv, Kept, BackupKept, Between
  <2>4. SnapshotIsReal' /\ PassIsEarned'
    BY DEF TiersInv, SnapshotIsReal, PassIsEarned, HotSomewhere
  <2> QED  BY <2>1, <2>2, <2>3, <2>4 DEF TiersInv, Kept
<1> QED  BY <1>1, <1>2, <1>3, <1>4, <1>5, <1>6, <1>7, <1>8 DEF TiersNext

LEMMA TiersInvariant == TiersSpec => []TiersInv
  BY TiersInitial, TiersStep, PTL DEF TiersSpec

\* For any number of files, commands and edits: a backup that exits 0 restored a
\* state that the directory had as a whole, unless a file was cut, removed or put
\* back meanwhile, and a canary that passes leaves the roadmap it read at first.
THEOREM SnapshotsAreReal == TiersSpec => []SnapshotIsReal
<1>1. TiersInv => SnapshotIsReal
  BY DEF TiersInv
<1> QED  BY <1>1, TiersInvariant, PTL

\* Exit 0 of a deployment, a soak, a canary and the matrix was earned, for any
\* number of directories, samples, repositories and edits.
THEOREM PassesAreEarned == TiersSpec => []PassIsEarned
<1>1. TiersInv => PassIsEarned
  BY DEF TiersInv
<1> QED  BY <1>1, TiersInvariant, PTL

\* The types of the release tier and of the others, composed: each stands still
\* while the other runs.  A command leaves at most one home behind.
THEOREM TypeCorrect == MCSpec => []TypeOK
<1>1. MCInit => TiersInv /\ ReleaseInv
  BY TiersInitial, ReleaseInitial DEF MCInit
<1>2. ASSUME TiersInv /\ ReleaseInv, [MCNext]_mcVars PROVE TiersInv' /\ ReleaseInv'
  <2>1. [TiersNext]_tierVars /\ [ReleaseNext]_releaseVars
    BY <1>2 DEF MCNext, mcVars
  <2> QED  BY <1>2, <2>1, TiersStep, ReleaseStep
<1>3. TiersInv /\ ReleaseInv => TypeOK
  BY DEF TiersInv, ReleaseInv, TypeOK
<1> QED  BY <1>1, <1>2, <1>3, PTL DEF MCSpec
=============================================================================
