--------------------------- MODULE JoernBatch_proofs ---------------------------
(***************************************************************************)
(* Proofs about JoernBatch, for batches of any length, any ids and file    *)
(* names and any chunk size.                                               *)
(***************************************************************************)
EXTENDS JoernBatch, Integers, SequenceTheorems, FunctionTheorems, FiniteSetTheorems,
        WellFoundedInduction, TLAPS

(***************************************************************************)
(* The least and the greatest position of a set: the prefixes 0 .. n of    *)
(* the positions are well-founded by inclusion.                            *)
(***************************************************************************)
LEMMA Least ==
  ASSUME NEW S \in SUBSET Nat, S # {}
  PROVE  \E n \in S : \A m \in S : n <= m
  <1> DEFINE below(n) == 0 .. n
             T == {below(n) : n \in S}
  <1>1. IsWellFoundedOn(StrictSubsetOrdering(Nat), FiniteSubsetsOf(Nat))
    BY FS_StrictSubsetOrderingWellFounded
  <1>2. T \subseteq FiniteSubsetsOf(Nat) /\ T # {}
    <2>1. ASSUME NEW n \in S PROVE below(n) \in FiniteSubsetsOf(Nat)
      <3>1. n \in Nat /\ 0 \in Int /\ n \in Int
        OBVIOUS
      <3>2. IsFiniteSet(0 .. n)
        BY <3>1, FS_Interval
      <3>3. QED BY <3>1, <3>2 DEF FiniteSubsetsOf
    <2>2. QED BY <2>1
  <1>3. PICK x \in T : \A y \in T : ~(<<y, x>> \in StrictSubsetOrdering(Nat))
    <2> HIDE DEF T
    <2> QED BY <1>1, <1>2, WFMin
  <1>4. PICK n \in S : x = below(n)
    BY <1>3
  <1>5. ASSUME NEW m \in S, ~(n <= m) PROVE FALSE
    <2>1. below(m) \subseteq below(n) /\ below(m) # below(n)
      <3>1. n \in below(n) /\ n \notin below(m)
        BY <1>5
      <3>2. QED BY <1>5, <3>1
    <2>2. <<below(m), below(n)>> \in StrictSubsetOrdering(Nat)
      BY <2>1 DEF StrictSubsetOrdering
    <2>3. QED BY <1>3, <1>4, <2>2
  <1>6. QED BY <1>5

LEMMA Greatest ==
  ASSUME NEW b \in Nat, NEW S \in SUBSET (0 .. b), S # {}
  PROVE  \E n \in S : \A m \in S : m <= n
  <1> DEFINE T == {b - n : n \in S}
  <1>0. \A n \in S : n \in Nat /\ b - n \in Nat
    OBVIOUS
  <1>1. T \in SUBSET Nat /\ T # {}
    BY <1>0
  <1>2. PICK k \in T : \A m \in T : k <= m
    <2> HIDE DEF T
    <2> QED BY <1>1, Least
  <1>3. PICK n \in S : k = b - n
    BY <1>2
  <1>4. \A m \in S : b - n <= b - m
    BY <1>2, <1>3
  <1>5. QED BY <1>0, <1>3, <1>4

-----------------------------------------------------------------------------
(***************************************************************************)
(* A chunk is the stretch of the pending cases that starts at pos.         *)
(***************************************************************************)
LEMMA ChunkFacts ==
  ASSUME TypeOK, InChunk
  PROVE  /\ Chunk \in Seq(Cases)
         /\ \A k \in DOMAIN Chunk :
              /\ pos + k - 1 \in pos .. Len(pending)
              /\ pos + k - 1 < pos + ChunkSize
              /\ Chunk[k] = pending[pos + k - 1]
         /\ \A k \in pos .. Len(pending) : k < pos + ChunkSize =>
              /\ k - pos + 1 \in DOMAIN Chunk
              /\ Chunk[k - pos + 1] = pending[k]
  <1> DEFINE hi == Min2(pos + ChunkSize - 1, Len(pending))
  <1>1. /\ pos \in Nat \ {0} /\ ChunkSize \in Nat \ {0} /\ Len(pending) \in Nat
        /\ pos <= Len(pending)
        /\ DOMAIN pending = 1 .. Len(pending)
        /\ \A k \in 1 .. Len(pending) : pending[k] \in Cases
    BY BatchAssumption DEF TypeOK, InChunk
  <1>2. /\ hi \in Int /\ pos <= hi /\ hi <= Len(pending) /\ hi < pos + ChunkSize
        /\ \A k \in pos .. Len(pending) : k < pos + ChunkSize => k <= hi
    BY <1>1 DEF Min2
  <1>3. \A i \in pos .. hi : pending[i] \in Cases
    BY <1>1, <1>2
  <1>4. /\ Chunk \in Seq(Cases)
        /\ Len(Chunk) = hi - pos + 1
        /\ \A i \in 1 .. hi - pos + 1 : Chunk[i] = pending[pos + i - 1]
    <2> HIDE DEF hi
    <2>1. pos \in Int
      BY <1>1
    <2>2. /\ SubSeq(pending, pos, hi) \in Seq(Cases)
          /\ Len(SubSeq(pending, pos, hi)) = IF pos <= hi THEN hi - pos + 1 ELSE 0
          /\ \A i \in 1 .. hi - pos + 1 : SubSeq(pending, pos, hi)[i] = pending[pos + i - 1]
      BY <1>2, <1>3, <2>1, SubSeqProperties, Z3
    <2>3. Chunk = SubSeq(pending, pos, hi)
      BY DEF Chunk, hi
    <2>4. QED BY <1>2, <2>2, <2>3
  <1>5. DOMAIN Chunk = 1 .. hi - pos + 1
    BY <1>4
  <1> HIDE DEF hi
  <1>6. ASSUME NEW k \in DOMAIN Chunk
        PROVE  /\ pos + k - 1 \in pos .. Len(pending)
               /\ pos + k - 1 < pos + ChunkSize
               /\ Chunk[k] = pending[pos + k - 1]
    BY <1>1, <1>2, <1>4, <1>5
  <1>7. ASSUME NEW k \in pos .. Len(pending), k < pos + ChunkSize
        PROVE  k - pos + 1 \in DOMAIN Chunk /\ Chunk[k - pos + 1] = pending[k]
    <2>1. k - pos + 1 \in 1 .. hi - pos + 1
      BY <1>1, <1>2, <1>7
    <2>2. pos + (k - pos + 1) - 1 = k
      BY <1>1
    <2>3. QED BY <1>4, <1>5, <2>1, <2>2
  <1>8. QED BY <1>4, <1>6, <1>7

(***************************************************************************)
(* The table of a chunk's file names.                                      *)
(***************************************************************************)
Distinct(cases) == \A j, k \in DOMAIN cases : cases[j].id = cases[k].id => j = k

NamesApart(chunk) ==
  \A j, k \in DOMAIN chunk : FileName(chunk, j) = FileName(chunk, k) => j = k

LEMMA LocalFacts ==
  ASSUME NEW chunk \in Seq(Cases)
  PROVE  /\ DOMAIN Local(chunk) \subseteq DOMAIN chunk
         /\ \A n \in DOMAIN Local(chunk) :
              \E k \in DOMAIN chunk : /\ FileName(chunk, k) = FileName(chunk, n)
                                      /\ Local(chunk)[n].id = chunk[k].id
         /\ IdsOf(Local(chunk)) \subseteq IdsOf(chunk)
         /\ Distinct(chunk) => Distinct(Local(chunk))
         /\ NamesApart(chunk) => IdsOf(Local(chunk)) = IdsOf(chunk)
  <1> DEFINE same(k) == {j \in DOMAIN chunk : FileName(chunk, j) = FileName(chunk, k)}
             last(k) == CHOOSE j \in same(k) : \A i \in same(k) : i <= j
             firsts  == {n \in DOMAIN chunk : \A j \in same(n) : n <= j}
  <1>0. DOMAIN chunk = 1 .. Len(chunk) /\ Len(chunk) \in Nat
    OBVIOUS
  <1>1. Local(chunk) =
          [k \in firsts |-> [name |-> FileName(chunk, k), id |-> chunk[last(k)].id]]
    BY DEF Local
  <1>2. ASSUME NEW k \in DOMAIN chunk PROVE last(k) \in same(k)
    <2>1. same(k) \in SUBSET (0 .. Len(chunk)) /\ same(k) # {}
      BY <1>0
    <2>2. \E j \in same(k) : \A i \in same(k) : i <= j
      <3> HIDE DEF same
      <3> QED BY <1>0, <2>1, Greatest
    <2>3. QED
      <3> HIDE DEF same
      <3> QED BY <2>2
  <1> HIDE DEF last
  <1>3. DOMAIN Local(chunk) = firsts /\ \A n \in firsts : Local(chunk)[n].id = chunk[last(n)].id
    BY <1>1
  <1>4. \A n \in firsts : n \in DOMAIN chunk /\ last(n) \in DOMAIN chunk
                          /\ FileName(chunk, last(n)) = FileName(chunk, n)
    BY <1>2
  <1>5. Distinct(chunk) => Distinct(Local(chunk))
    <2> SUFFICES ASSUME Distinct(chunk), NEW m \in firsts, NEW n \in firsts,
                        chunk[last(m)].id = chunk[last(n)].id
                 PROVE  m = n
      BY <1>3 DEF Distinct
    <2>1. last(m) = last(n)
      BY <1>4 DEF Distinct
    <2>2. m \in same(n) /\ n \in same(m)
      BY <1>4, <2>1
    <2>3. m <= n /\ n <= m
      BY <2>2
    <2>4. QED BY <1>0, <2>3
  <1>6. NamesApart(chunk) => IdsOf(Local(chunk)) = IdsOf(chunk)
    <2> SUFFICES ASSUME NamesApart(chunk) PROVE IdsOf(Local(chunk)) = IdsOf(chunk)
      OBVIOUS
    <2>1. firsts = DOMAIN chunk
      BY <1>0 DEF NamesApart
    <2>2. \A n \in DOMAIN chunk : last(n) = n
      BY <1>2 DEF NamesApart
    <2>3. QED BY <1>3, <2>1, <2>2 DEF IdsOf
  <1>7. IdsOf(Local(chunk)) \subseteq IdsOf(chunk)
    <2>1. \A n \in DOMAIN Local(chunk) : Local(chunk)[n].id \in IdsOf(chunk)
      BY <1>3, <1>4 DEF IdsOf
    <2>2. QED BY <2>1 DEF IdsOf
  <1>8. QED BY <1>3, <1>4, <1>5, <1>6, <1>7

LEMMA IdsType ==
  ASSUME NEW cases \in Seq(Cases)
  PROVE  IdsOf(cases) \subseteq Ids
  <1>1. \A k \in DOMAIN cases : cases[k] \in Cases
    OBVIOUS
  <1>2. \A c \in Cases : c.id \in Ids
    BY DEF Cases
  <1>3. QED BY <1>1, <1>2 DEF IdsOf

-----------------------------------------------------------------------------
(***************************************************************************)
(* What a chunk comes to.  Whatever the chunk ends with, some of its cases *)
(* (A) are answered and some (F) fail; with distinct ids no case does      *)
(* both, and with distinct file names every case does one.                 *)
(***************************************************************************)
ChunkStep == ChunkTimedOut \/ ChunkImportFailed \/ ChunkDone

Outcome(A, F) ==
  /\ A \subseteq IdsOf(Chunk)
  /\ F \in Seq(Cases) /\ IdsOf(F) \subseteq IdsOf(Chunk) /\ Len(F) <= Len(Chunk)
  /\ DOMAIN ok' = DOMAIN ok \cup A
  /\ \A i \in A : ok'[i] \in Verdicts \cup {"timeout"}
  /\ \A i \in DOMAIN ok \ A : ok'[i] = ok[i]
  /\ failed' = failed \o F
  /\ Distinct(Chunk) => Distinct(F) /\ A \cap IdsOf(F) = {}
  /\ NamesApart(Chunk) => A \cup IdsOf(F) = IdsOf(Chunk)

LEMMA CodeOfType ==
  ASSUME NEW chunk \in Seq(Cases), NEW i \in IdsOf(chunk)
  PROVE  CodeOf(chunk, i) \in Codes
  <1> DEFINE with == {k \in DOMAIN chunk : chunk[k].id = i}
             first(k) == chunk[k].id = i /\ \A j \in 1 .. k - 1 : chunk[j].id # i
  <1>1. DOMAIN chunk = 1 .. Len(chunk) /\ Len(chunk) \in Nat
        /\ \A k \in DOMAIN chunk : chunk[k] \in Cases
    OBVIOUS
  <1>2. with \in SUBSET Nat /\ with # {}
    BY <1>1 DEF IdsOf
  <1>3. PICK k \in with : \A m \in with : k <= m
    <2> HIDE DEF with
    <2> QED BY <1>2, Least
  <1>4. k \in DOMAIN chunk /\ first(k)
    BY <1>1, <1>3
  <1>5. (CHOOSE m \in DOMAIN chunk : first(m)) \in DOMAIN chunk
    <2> HIDE DEF first
    <2> QED BY <1>4
  <1>6. QED BY <1>1, <1>5 DEF CodeOf, Cases

LEMMA TimedOutOutcome ==
  ASSUME TypeOK, ChunkTimedOut
  PROVE  Advance /\ \E A, F : Outcome(A, F)
  <1> DEFINE A == IdsOf(Local(Chunk))
  <1>1. Chunk \in Seq(Cases)
    BY ChunkFacts DEF ChunkTimedOut
  <1>2. A \subseteq IdsOf(Chunk) /\ (NamesApart(Chunk) => A = IdsOf(Chunk))
    BY <1>1, LocalFacts
  <1>3. /\ DOMAIN ok' = DOMAIN ok \cup A
        /\ \A i \in A : ok'[i] = "timeout"
        /\ \A i \in DOMAIN ok \ A : ok'[i] = ok[i]
    BY DEF ChunkTimedOut, Update
  <1>4. failed' = failed \o <<>> /\ IdsOf(<<>>) = {} /\ <<>> \in Seq(Cases) /\ Distinct(<<>>)
    BY DEF ChunkTimedOut, TypeOK, IdsOf, Distinct
  <1>5. Outcome(A, <<>>)
    <2>1. Len(<<>>) <= Len(Chunk)
      BY <1>1
    <2>2. QED BY <1>2, <1>3, <1>4, <2>1 DEF Outcome
  <1>6. QED BY <1>5 DEF ChunkTimedOut

LEMMA ImportFailedOutcome ==
  ASSUME TypeOK, ChunkImportFailed
  PROVE  Advance /\ \E A, F : Outcome(A, F)
  <1>1. Chunk \in Seq(Cases)
    BY ChunkFacts DEF ChunkImportFailed
  <1>2. Outcome({}, Chunk)
    BY <1>1 DEF ChunkImportFailed, Outcome
  <1>3. QED BY <1>2 DEF ChunkImportFailed

LEMMA DoneOutcome ==
  ASSUME TypeOK, ChunkDone
  PROVE  Advance /\ \E A, F : Outcome(A, F)
  <1> DEFINE local == Local(Chunk)
  <1>1. PICK report \in [{local[n].name : n \in DOMAIN local} -> Reports] :
          ChunkReported(local, report)
    BY DEF ChunkDone
  <1> DEFINE judged   == {n \in DOMAIN local : report[local[n].name] # "unparsed"}
             final(i) == CHOOSE n \in judged :
                           local[n].id = i /\ \A m \in judged : local[m].id = i => m <= n
             A        == {local[n].id : n \in judged}
             failure(u) == [m \in DOMAIN u |-> [id   |-> local[u[m]].id,
                                                code |-> CodeOf(Chunk, local[u[m]].id)]]
  <1>2. PICK u \in InOrder(DOMAIN local \ judged) : failed' = failed \o failure(u)
    BY <1>1 DEF ChunkReported
  <1>3. /\ ok' = Update(ok, [i \in A |-> Verdict(report[local[final(i)].name])])
        /\ Advance
    BY <1>1 DEF ChunkReported
  <1>4. /\ Chunk \in Seq(Cases)
        /\ DOMAIN Chunk = 1 .. Len(Chunk) /\ Len(Chunk) \in Nat
    BY ChunkFacts DEF ChunkDone
  <1>5. /\ DOMAIN local \subseteq DOMAIN Chunk
        /\ IdsOf(local) \subseteq IdsOf(Chunk)
        /\ Distinct(Chunk) => Distinct(local)
        /\ NamesApart(Chunk) => IdsOf(local) = IdsOf(Chunk)
    <2> HIDE DEF local
    <2> QED BY <1>4, LocalFacts DEF local
  <1>6. ASSUME NEW i \in A PROVE final(i) \in judged
    <2> DEFINE with == {n \in judged : local[n].id = i}
    <2>1. with \in SUBSET (0 .. Len(Chunk)) /\ with # {}
      BY <1>4, <1>5
    <2>2. PICK n \in with : \A m \in with : m <= n
      <3> HIDE DEF with
      <3> QED BY <1>4, <2>1, Greatest
    <2>3. n \in judged /\ local[n].id = i /\ \A m \in judged : local[m].id = i => m <= n
      BY <2>2
    <2>4. QED
      <3> HIDE DEF judged, local
      <3> QED BY <2>3
  <1>7. ASSUME NEW i \in A PROVE Verdict(report[local[final(i)].name]) \in Verdicts
    <2>1. report[local[final(i)].name] \in Reports \ {"unparsed"}
      <3> HIDE DEF final
      <3> QED BY <1>6
    <2>2. \A x \in Reports \ {"unparsed"} : Verdict(x) \in Verdicts
      BY DEF Reports, Verdict, Verdicts
    <2>3. QED BY <2>1, <2>2
  <1>8. /\ A \subseteq IdsOf(local)
        /\ DOMAIN ok' = DOMAIN ok \cup A
        /\ \A i \in A : ok'[i] \in Verdicts
        /\ \A i \in DOMAIN ok \ A : ok'[i] = ok[i]
    <2>1. A \subseteq IdsOf(local)
      BY DEF IdsOf
    <2>2. QED
      <3> HIDE DEF A, final, local
      <3> QED BY <1>3, <1>7, <2>1 DEF Update
  <1> DEFINE unparsed == DOMAIN local \ judged
             F == failure(u)
  <1>9. /\ u \in [1 .. Cardinality(unparsed) -> unparsed]
        /\ \A i, j \in DOMAIN u : i < j => u[i] < u[j]
        /\ \A k \in unparsed : \E i \in DOMAIN u : u[i] = k
        /\ DOMAIN u = 1 .. Cardinality(unparsed)
        /\ Cardinality(unparsed) \in 0 .. Len(Chunk)
    <2>1. IsFiniteSet(1 .. Len(Chunk)) /\ Cardinality(1 .. Len(Chunk)) = Len(Chunk)
      <3>1. 1 \in Int /\ Len(Chunk) \in Int
        BY <1>4
      <3>2. /\ IsFiniteSet(1 .. Len(Chunk))
            /\ Cardinality(1 .. Len(Chunk)) = IF 1 > Len(Chunk) THEN 0 ELSE Len(Chunk) - 1 + 1
        BY <3>1, FS_Interval
      <3>3. QED BY <1>4, <3>2
    <2>2. unparsed \in SUBSET (1 .. Len(Chunk))
      BY <1>4, <1>5
    <2>3. IsFiniteSet(unparsed) /\ Cardinality(unparsed) <= Len(Chunk)
      BY <2>1, <2>2, FS_Subset
    <2>4. Cardinality(unparsed) \in 0 .. Len(Chunk)
      BY <1>4, <2>3, FS_CardinalityType
    <2>5. QED BY <2>4 DEF InOrder
  <1>10. \A m \in DOMAIN u : /\ u[m] \in unparsed
                             /\ F[m].id = local[u[m]].id
                             /\ F[m] \in Cases
    <2>1. ASSUME NEW m \in DOMAIN u
          PROVE  u[m] \in unparsed /\ F[m].id = local[u[m]].id /\ F[m] \in Cases
      <3>1. u[m] \in unparsed
        BY <1>9
      <3>2. F[m] = [id |-> local[u[m]].id, code |-> CodeOf(Chunk, local[u[m]].id)]
        OBVIOUS
      <3>3. local[u[m]].id \in IdsOf(Chunk)
        BY <1>5, <3>1 DEF IdsOf
      <3>4. \A i \in IdsOf(Chunk) : i \in Ids
        BY <1>4, IdsType
      <3>5. CodeOf(Chunk, local[u[m]].id) \in Codes
        BY <1>4, <3>3, CodeOfType
      <3>6. QED BY <3>1, <3>2, <3>3, <3>4, <3>5 DEF Cases
    <2>2. QED BY <2>1
  <1>11. DOMAIN F = DOMAIN u /\ F \in Seq(Cases) /\ Len(F) <= Len(Chunk)
    <2>1. DOMAIN F = DOMAIN u
      OBVIOUS
    <2>2. F = [m \in DOMAIN F |-> F[m]]
      OBVIOUS
    <2> HIDE DEF F, unparsed
    <2>3. F \in [1 .. Cardinality(unparsed) -> Cases]
      BY <1>9, <1>10, <2>1, <2>2
    <2>4. F \in Seq(Cases) /\ Len(F) = Cardinality(unparsed)
      BY <1>9, <2>3
    <2>5. QED BY <1>4, <1>9, <2>1, <2>4
  <1>12. IdsOf(F) = {local[n].id : n \in unparsed}
    <2> HIDE DEF F, unparsed, local
    <2>1. \A m \in DOMAIN F : F[m].id \in {local[n].id : n \in unparsed}
      BY <1>10, <1>11
    <2>2. \A n \in unparsed : \E m \in DOMAIN F : F[m].id = local[n].id
      BY <1>9, <1>10, <1>11
    <2>3. QED BY <2>1, <2>2 DEF IdsOf
  <1>13. Distinct(Chunk) => Distinct(F) /\ A \cap IdsOf(F) = {}
    <2> SUFFICES ASSUME Distinct(local) PROVE Distinct(F) /\ A \cap IdsOf(F) = {}
      BY <1>5
    <2>1. \A i, j \in DOMAIN u : u[i] = u[j] => i = j
      <3> SUFFICES ASSUME NEW i \in DOMAIN u, NEW j \in DOMAIN u, u[i] = u[j], i # j
                   PROVE  FALSE
        OBVIOUS
      <3>1. i < j \/ j < i
        BY <1>9
      <3>2. u[i] \in Nat /\ u[j] \in Nat
        BY <1>4, <1>5, <1>9
      <3>3. QED BY <1>9, <3>1, <3>2
    <2>2. Distinct(F)
      <3> HIDE DEF F, local, judged
      <3> QED BY <1>10, <1>11, <2>1 DEF Distinct
    <2>3. A \cap IdsOf(F) = {}
      BY <1>12 DEF Distinct
    <2>4. QED BY <2>2, <2>3
  <1>14. A \cup IdsOf(F) = IdsOf(local)
    BY <1>12 DEF IdsOf
  <1>15. Outcome(A, F)
    <2>1. A \subseteq IdsOf(Chunk) /\ IdsOf(F) \subseteq IdsOf(Chunk)
      BY <1>5, <1>14
    <2> HIDE DEF A, F, local
    <2>2. QED BY <1>2, <1>5, <1>8, <1>11, <1>13, <1>14, <2>1 DEF Outcome, F
  <1>16. QED BY <1>3, <1>15

LEMMA ChunkOutcome ==
  ASSUME TypeOK, ChunkStep
  PROVE  InChunk /\ Advance /\ \E A, F : Outcome(A, F)
  BY TimedOutOutcome, ImportFailedOutcome, DoneOutcome
  DEF ChunkStep, ChunkTimedOut, ChunkImportFailed, ChunkDone

-----------------------------------------------------------------------------
(***************************************************************************)
(* The state stays in its domain.                                          *)
(***************************************************************************)
LEMMA InitType == Init => TypeOK
  <1> SUFFICES ASSUME Init PROVE TypeOK
    OBVIOUS
  <1>1. files \in Seq(Cases)
    BY BatchAssumption DEF Init
  <1>2. QED BY <1>1 DEF Init, TypeOK, NoAnswers

LEMMA ChunkType ==
  ASSUME TypeOK, ChunkStep
  PROVE  TypeOK'
  <1>1. PICK A, F : Outcome(A, F)
    BY ChunkOutcome
  <1>2. /\ pos' = pos + ChunkSize
        /\ UNCHANGED <<files, pc, level, pending, results>>
    BY ChunkOutcome DEF Advance
  <1>3. IdsOf(Chunk) \subseteq Ids
    BY ChunkFacts, ChunkOutcome, IdsType
  <1>4. pos' \in Nat \ {0}
    BY <1>2, BatchAssumption DEF TypeOK
  <1>5. failed' \in Seq(Cases)
    BY <1>1 DEF Outcome, TypeOK
  <1>6. DOMAIN ok' \subseteq Ids /\ \A i \in DOMAIN ok' : ok'[i] \in Verdicts \cup {"timeout"}
    BY <1>1, <1>3 DEF Outcome, TypeOK
  <1>7. QED BY <1>2, <1>4, <1>5, <1>6 DEF TypeOK

\* What the passes have settled when the batch ends.
Settled == Update(Update(results, ok), [i \in IdsOf(failed) |-> "parse_fail"])

LEMMA SettledFacts ==
  ASSUME TypeOK
  PROVE  /\ DOMAIN Settled = DOMAIN results \cup DOMAIN ok \cup IdsOf(failed)
         /\ \A i \in DOMAIN Settled : Settled[i] \in Verdicts \cup {"timeout", "parse_fail"}
                                      \/ (i \in DOMAIN results /\ Settled[i] = results[i])
         /\ \A i \in DOMAIN ok \ IdsOf(failed) : Settled[i] = ok[i]
         /\ \A i \in DOMAIN results \ (DOMAIN ok \cup IdsOf(failed)) : Settled[i] = results[i]
  BY DEF Settled, Update, TypeOK

LEMMA FinishFacts ==
  ASSUME TypeOK, Finish
  PROVE  /\ DOMAIN results' = IdsOf(files) \cup DOMAIN Settled
         /\ \A i \in DOMAIN Settled : results'[i] = Settled[i]
         /\ \A i \in IdsOf(files) \ DOMAIN Settled : results'[i] = "id_unmapped"
  BY DEF Finish, Settled, Update

LEMMA NextType == TypeOK /\ [Next]_vars => TypeOK'
  <1> SUFFICES ASSUME TypeOK, [Next]_vars PROVE TypeOK'
    OBVIOUS
  <1>1. CASE ChunkStep
    BY <1>1, ChunkType
  <1>2. CASE NextPass
    <2>1. DOMAIN results' \subseteq Ids
          /\ \A i \in DOMAIN results' : results'[i] \in Verdicts \cup Unknowns
      BY <1>2 DEF NextPass, Update, TypeOK, Unknowns
    <2>2. QED BY <1>2, <2>1 DEF NextPass, TypeOK, NoAnswers
  <1>3. CASE Finish
    <2>1. files \in Seq(Cases) /\ failed \in Seq(Cases)
      BY BatchAssumption DEF TypeOK
    <2>2. IdsOf(files) \subseteq Ids /\ IdsOf(failed) \subseteq Ids
      BY <2>1, IdsType
    <2>3. DOMAIN results' \subseteq Ids
      BY <1>3, <2>2, FinishFacts, SettledFacts DEF TypeOK
    <2>4. \A i \in DOMAIN results' : results'[i] \in Verdicts \cup Unknowns
      BY <1>3, FinishFacts, SettledFacts DEF TypeOK, Unknowns
    <2>5. QED BY <1>3, <2>3, <2>4 DEF Finish, TypeOK, NoAnswers
  <1>4. CASE UNCHANGED vars
    BY <1>4 DEF vars, TypeOK
  <1>5. QED
    BY <1>1, <1>2, <1>3, <1>4 DEF Next, ChunkStep, Done

\* Every reachable state of a batch is in its domain.
THEOREM TypeCorrect == Spec => []TypeOK
  BY InitType, NextType, PTL DEF Spec

-----------------------------------------------------------------------------
(***************************************************************************)
(* No answer is given twice.  What a chunk answers was open, because the   *)
(* cases still to be written and those that failed are; they stay apart,   *)
(* because no id comes up twice in the batch.                              *)
(***************************************************************************)
\* The callers name each file of a batch once.
InputsDistinct == \A b \in Inputs : Distinct(b)

PassInv ==
  /\ Distinct(pending)
  /\ Distinct(failed)
  /\ pc = "pass" => Remaining \cap IdsOf(failed) = {}
  /\ OnlyOpenRetried

LEMMA ChunkRemaining ==
  ASSUME TypeOK, InChunk, Advance
  PROVE  /\ Remaining = Remaining' \cup IdsOf(Chunk)
         /\ Distinct(pending) => Remaining' \cap IdsOf(Chunk) = {} /\ Distinct(Chunk)
  <1>1. /\ pos' = pos + ChunkSize /\ pending' = pending
        /\ pos \in Nat \ {0} /\ ChunkSize \in Nat \ {0} /\ Len(pending) \in Nat
        /\ DOMAIN pending = 1 .. Len(pending)
    BY BatchAssumption DEF Advance, TypeOK
  <1>2. Chunk \in Seq(Cases) /\ DOMAIN Chunk = 1 .. Len(Chunk)
    BY ChunkFacts
  <1>3. /\ Remaining' = {pending[k].id : k \in pos + ChunkSize .. Len(pending)}
        /\ Remaining  = {pending[k].id : k \in pos .. Len(pending)}
    BY <1>1 DEF Remaining
  <1>4. /\ \A k \in DOMAIN Chunk :
             pos + k - 1 \in pos .. Len(pending) /\ pos + k - 1 < pos + ChunkSize
             /\ Chunk[k].id = pending[pos + k - 1].id
        /\ \A k \in pos .. Len(pending) : k < pos + ChunkSize =>
             k - pos + 1 \in DOMAIN Chunk /\ Chunk[k - pos + 1].id = pending[k].id
    BY ChunkFacts
  <1>5. IdsOf(Chunk) \subseteq Remaining
    BY <1>3, <1>4 DEF IdsOf
  <1>6. Remaining' \subseteq Remaining
    BY <1>1, <1>3
  <1>7. Remaining \subseteq Remaining' \cup IdsOf(Chunk)
    <2>1. ASSUME NEW k \in pos .. Len(pending)
          PROVE  pending[k].id \in Remaining' \cup IdsOf(Chunk)
      <3>1. CASE k < pos + ChunkSize
        BY <1>4, <3>1 DEF IdsOf
      <3>2. CASE ~(k < pos + ChunkSize)
        <4>1. k \in pos + ChunkSize .. Len(pending)
          BY <1>1, <3>2
        <4>2. QED BY <1>3, <4>1
      <3>3. QED BY <3>1, <3>2
    <2>2. QED BY <1>3, <2>1
  <1>8. ASSUME Distinct(pending)
        PROVE  Remaining' \cap IdsOf(Chunk) = {} /\ Distinct(Chunk)
    <2>1. \A j, k \in 1 .. Len(pending) : pending[j].id = pending[k].id => j = k
      BY <1>1, <1>8 DEF Distinct
    <2>2. Remaining' \cap IdsOf(Chunk) = {}
      <3> SUFFICES ASSUME NEW j \in pos + ChunkSize .. Len(pending), NEW k \in DOMAIN Chunk,
                          pending[j].id = Chunk[k].id
                   PROVE  FALSE
        BY <1>3 DEF IdsOf
      <3>1. j = pos + k - 1
        BY <1>1, <1>4, <2>1
      <3>2. pos + k - 1 < pos + ChunkSize
        BY <1>4
      <3>3. QED BY <1>1, <3>1, <3>2
    <2>3. Distinct(Chunk)
      <3> SUFFICES ASSUME NEW j \in DOMAIN Chunk, NEW k \in DOMAIN Chunk,
                          Chunk[j].id = Chunk[k].id
                   PROVE  j = k
        BY DEF Distinct
      <3>1. j \in Int /\ k \in Int
        BY <1>2
      <3>2. /\ pos + j - 1 \in 1 .. Len(pending) /\ pos + k - 1 \in 1 .. Len(pending)
            /\ pending[pos + j - 1].id = pending[pos + k - 1].id
        BY <1>1, <1>4
      <3>3. pos + j - 1 = pos + k - 1
        BY <2>1, <3>2
      <3>4. QED BY <1>1, <3>1, <3>3
    <2>4. QED BY <2>2, <2>3
  <1>9. QED BY <1>5, <1>6, <1>7, <1>8

LEMMA ConcatIds ==
  ASSUME NEW s \in Seq(Cases), NEW t \in Seq(Cases)
  PROVE  /\ IdsOf(s \o t) = IdsOf(s) \cup IdsOf(t)
         /\ Distinct(s) /\ Distinct(t) /\ IdsOf(s) \cap IdsOf(t) = {} => Distinct(s \o t)
  <1>1. /\ DOMAIN s = 1 .. Len(s) /\ DOMAIN t = 1 .. Len(t)
        /\ DOMAIN (s \o t) = 1 .. Len(s) + Len(t)
        /\ Len(s) \in Nat /\ Len(t) \in Nat
        /\ \A k \in 1 .. Len(s) : (s \o t)[k] = s[k]
        /\ \A k \in 1 .. Len(s) + Len(t) : k > Len(s) =>
             k - Len(s) \in 1 .. Len(t) /\ (s \o t)[k] = t[k - Len(s)]
        /\ \A k \in 1 .. Len(t) : k + Len(s) \in 1 .. Len(s) + Len(t)
                                  /\ (s \o t)[k + Len(s)] = t[k]
    BY ConcatProperties
  <1>2. IdsOf(s \o t) \subseteq IdsOf(s) \cup IdsOf(t)
    <2>1. ASSUME NEW k \in 1 .. Len(s) + Len(t)
          PROVE  (s \o t)[k].id \in IdsOf(s) \cup IdsOf(t)
      <3>1. CASE k > Len(s)
        BY <1>1, <3>1 DEF IdsOf
      <3>2. CASE ~(k > Len(s))
        <4>1. k \in 1 .. Len(s)
          BY <1>1, <3>2
        <4>2. QED BY <1>1, <4>1 DEF IdsOf
      <3>3. QED BY <3>1, <3>2
    <2>2. QED BY <1>1, <2>1 DEF IdsOf
  <1>3. IdsOf(s) \subseteq IdsOf(s \o t)
    <2>1. \A k \in 1 .. Len(s) : k \in 1 .. Len(s) + Len(t)
      BY <1>1
    <2>2. \A k \in DOMAIN s : s[k].id \in IdsOf(s \o t)
      BY <1>1, <2>1 DEF IdsOf
    <2>3. QED BY <2>2 DEF IdsOf
  <1>4. IdsOf(t) \subseteq IdsOf(s \o t)
    <2>1. \A k \in DOMAIN t : t[k].id \in IdsOf(s \o t)
      BY <1>1 DEF IdsOf
    <2>2. QED BY <2>1 DEF IdsOf
  <1>5. ASSUME Distinct(s), Distinct(t), IdsOf(s) \cap IdsOf(t) = {}
        PROVE  Distinct(s \o t)
    <2> SUFFICES ASSUME NEW j \in 1 .. Len(s) + Len(t), NEW k \in 1 .. Len(s) + Len(t),
                        (s \o t)[j].id = (s \o t)[k].id
                 PROVE  j = k
      BY <1>1 DEF Distinct
    <2>1. \A i \in 1 .. Len(s) + Len(t) : ~(i > Len(s)) => i \in 1 .. Len(s)
      BY <1>1
    <2>2. CASE j > Len(s) /\ k > Len(s)
      <3>1. /\ j - Len(s) \in DOMAIN t /\ k - Len(s) \in DOMAIN t
            /\ t[j - Len(s)].id = t[k - Len(s)].id
        BY <1>1, <2>2
      <3>2. j - Len(s) = k - Len(s)
        BY <1>5, <3>1 DEF Distinct
      <3>3. QED BY <1>1, <3>2
    <2>3. CASE ~(j > Len(s)) /\ ~(k > Len(s))
      BY <1>1, <1>5, <2>1, <2>3 DEF Distinct
    <2>4. CASE (j > Len(s) /\ ~(k > Len(s))) \/ (~(j > Len(s)) /\ k > Len(s))
      <3>1. \A i \in 1 .. Len(s) : s[i].id \in IdsOf(s)
        BY <1>1 DEF IdsOf
      <3>2. \A i \in 1 .. Len(t) : t[i].id \in IdsOf(t)
        BY <1>1 DEF IdsOf
      <3>3. QED BY <1>1, <1>5, <2>1, <2>4, <3>1, <3>2
    <2>5. QED BY <2>2, <2>3, <2>4
  <1>6. QED BY <1>2, <1>3, <1>4, <1>5

\* A chunk answers cases that were open, and leaves the other answers alone.
LEMMA ChunkAnswers ==
  ASSUME TypeOK, PassInv, ChunkStep
  PROVE  PassInv' /\ \A i : AnswerOf(i) # "open" => AnswerOf(i)' = AnswerOf(i)
  <1>1. PICK A, F : Outcome(A, F)
    BY ChunkOutcome
  <1>2. /\ pos' = pos + ChunkSize
        /\ UNCHANGED <<files, pc, level, pending, results>>
        /\ pc = "pass"
    BY ChunkOutcome DEF Advance, InChunk
  <1>3. /\ Remaining = Remaining' \cup IdsOf(Chunk)
        /\ Remaining' \cap IdsOf(Chunk) = {}
        /\ Distinct(Chunk)
    BY ChunkOutcome, ChunkRemaining DEF PassInv
  <1>4. /\ A \subseteq IdsOf(Chunk) /\ IdsOf(F) \subseteq IdsOf(Chunk)
        /\ Distinct(F) /\ A \cap IdsOf(F) = {}
        /\ F \in Seq(Cases) /\ failed \in Seq(Cases) /\ failed' = failed \o F
    BY <1>1, <1>3 DEF Outcome, TypeOK
  <1>5. IdsOf(failed') = IdsOf(failed) \cup IdsOf(F) /\ IdsOf(failed)' = IdsOf(failed')
    <2>1. IdsOf(failed \o F) = IdsOf(failed) \cup IdsOf(F)
      BY <1>4, ConcatIds
    <2>2. IdsOf(failed)' = IdsOf(failed')
      BY DEF IdsOf
    <2>3. QED BY <1>4, <2>1, <2>2
  <1>6. Remaining \cap IdsOf(failed) = {}
    BY <1>2 DEF PassInv
  <1>7. Distinct(failed)'
    <2>1. Distinct(failed \o F)
      BY <1>3, <1>4, <1>6, ConcatIds DEF PassInv
    <2>2. QED BY <1>4, <2>1 DEF Distinct
  <1>8. \A i : i \notin A => AnswerOf(i)' = AnswerOf(i)
    BY <1>1, <1>2 DEF Outcome, AnswerOf
  <1>9. \A i \in Remaining \cup IdsOf(failed) : AnswerOf(i) = "open"
    BY <1>2 DEF PassInv, OnlyOpenRetried
  <1>10. Distinct(pending)'
    BY <1>2 DEF PassInv, Distinct
  <1>11. (Remaining \cap IdsOf(failed) = {})'
    BY <1>3, <1>4, <1>5, <1>6
  <1>12. OnlyOpenRetried'
    <2>1. \A i \in Remaining' \cup IdsOf(failed)' : i \notin A /\ i \in Remaining \cup IdsOf(failed)
      BY <1>3, <1>4, <1>5, <1>6
    <2>2. QED BY <1>8, <1>9, <2>1 DEF OnlyOpenRetried
  <1>13. QED BY <1>3, <1>4, <1>7, <1>8, <1>9, <1>10, <1>11, <1>12 DEF PassInv

LEMMA NextPassAnswers ==
  ASSUME TypeOK, PassInv, NextPass
  PROVE  PassInv' /\ \A i : AnswerOf(i)' = AnswerOf(i)
  <1>1. \A i : AnswerOf(i)' = AnswerOf(i)
    BY DEF NextPass, AnswerOf, Update, NoAnswers
  <1>2. /\ pc = "pass" /\ pending' = failed /\ pos' = 1 /\ failed' = <<>>
        /\ failed \in Seq(Cases) /\ DOMAIN failed = 1 .. Len(failed)
    BY DEF NextPass, TypeOK
  <1>3. Distinct(pending)' /\ Distinct(failed)' /\ IdsOf(failed)' = {}
    BY <1>2 DEF PassInv, Distinct, IdsOf
  <1>4. Remaining' \subseteq IdsOf(failed)
    BY <1>2 DEF Remaining, IdsOf
  <1>5. OnlyOpenRetried'
    BY <1>1, <1>2, <1>3, <1>4 DEF PassInv, OnlyOpenRetried
  <1>6. QED BY <1>1, <1>3, <1>5 DEF PassInv

LEMMA FinishAnswers ==
  ASSUME TypeOK, PassInv, Finish
  PROVE  PassInv' /\ \A i : AnswerOf(i) # "open" => AnswerOf(i)' = AnswerOf(i)
  <1>1. /\ pc = "pass" /\ pc' = "done" /\ pending' = failed /\ failed' = <<>>
        /\ ok' = NoAnswers
    BY DEF Finish
  <1>2. Distinct(pending)' /\ Distinct(failed)'
    BY <1>1 DEF PassInv, Distinct
  <1>3. \A i \in IdsOf(failed) : AnswerOf(i) = "open"
    BY <1>1 DEF PassInv, OnlyOpenRetried
  <1>4. ASSUME NEW i, AnswerOf(i) # "open" PROVE AnswerOf(i)' = AnswerOf(i)
    <2>1. i \notin IdsOf(failed) /\ i \in DOMAIN ok \cup DOMAIN results
      BY <1>3, <1>4 DEF AnswerOf
    <2>2. i \in DOMAIN Settled /\ Settled[i] = AnswerOf(i)
      BY <2>1, SettledFacts DEF AnswerOf
    <2>3. i \in DOMAIN results' /\ results'[i] = Settled[i]
      BY <2>2, FinishFacts
    <2>4. QED BY <1>1, <2>2, <2>3 DEF AnswerOf, NoAnswers
  <1>5. QED BY <1>1, <1>2, <1>4 DEF PassInv, OnlyOpenRetried

LEMMA PassInit ==
  ASSUME InputsDistinct
  PROVE  Init => PassInv
  <1> SUFFICES ASSUME Init PROVE PassInv
    OBVIOUS
  <1>1. \A i : AnswerOf(i) = "open"
    BY DEF Init, AnswerOf, NoAnswers
  <1>2. Distinct(pending) /\ Distinct(failed) /\ IdsOf(failed) = {}
    BY DEF Init, InputsDistinct, Distinct, IdsOf
  <1>3. QED BY <1>1, <1>2 DEF PassInv, OnlyOpenRetried

LEMMA PassNext ==
  TypeOK /\ PassInv /\ [Next]_vars =>
    PassInv' /\ \A i : AnswerOf(i) # "open" => AnswerOf(i)' = AnswerOf(i)
  <1> SUFFICES ASSUME TypeOK, PassInv, [Next]_vars
               PROVE  PassInv' /\ \A i : AnswerOf(i) # "open" => AnswerOf(i)' = AnswerOf(i)
    OBVIOUS
  <1>1. CASE ChunkStep
    BY <1>1, ChunkAnswers
  <1>2. CASE NextPass
    BY <1>2, NextPassAnswers
  <1>3. CASE Finish
    BY <1>3, FinishAnswers
  <1>4. CASE UNCHANGED vars
    <2>1. \A i : AnswerOf(i)' = AnswerOf(i)
      BY <1>4 DEF vars, AnswerOf
    <2>2. /\ Remaining' = Remaining /\ IdsOf(failed)' = IdsOf(failed) /\ pc' = pc
          /\ Distinct(pending)' = Distinct(pending) /\ Distinct(failed)' = Distinct(failed)
      BY <1>4 DEF vars, Remaining, IdsOf, Distinct
    <2>3. QED BY <2>1, <2>2 DEF PassInv, OnlyOpenRetried
  <1>5. QED
    BY <1>1, <1>2, <1>3, <1>4 DEF Next, ChunkStep, Done

LEMMA PassAlways ==
  ASSUME InputsDistinct
  PROVE  Spec => []PassInv
  <1>1. Init => PassInv
    BY PassInit
  <1>2. QED BY <1>1, PassNext, TypeCorrect, PTL DEF Spec

\* A case that timed out or got a verdict is in no later chunk, whatever the
\* chunks of a pass end with.
THEOREM AnsweredNotRetried ==
  ASSUME InputsDistinct
  PROVE  Spec => []OnlyOpenRetried
  <1>1. PassInv => OnlyOpenRetried
    BY DEF PassInv
  <1>2. QED BY <1>1, PassAlways, PTL

\* The passes, chunks and retries of a batch together do what CaseLedger
\* says: every case is answered at most once and its answer stays.
THEOREM ImplementsLedger ==
  ASSUME InputsDistinct
  PROVE  Spec => LedgerSpec
  <1>1. Init => Ledger!Init
    BY DEF Init, AnswerOf, NoAnswers, Ledger!Init
  <1>2. TypeOK /\ TypeOK' /\ PassInv /\ [Next]_vars =>
          [Ledger!Answer]_([i \in Ids |-> AnswerOf(i)])
    <2> SUFFICES ASSUME TypeOK, TypeOK', PassInv, [Next]_vars
                 PROVE  Ledger!Answer
      OBVIOUS
    <2>1. \A i \in Ids : AnswerOf(i)' \in Verdicts \cup Unknowns \cup {"open"}
      BY DEF TypeOK, AnswerOf, Unknowns
    <2>2. \A i \in Ids : AnswerOf(i) # "open" => AnswerOf(i)' = AnswerOf(i)
      BY PassNext
    <2>3. QED BY <2>1, <2>2 DEF Ledger!Answer
  <1>3. QED
    BY <1>1, <1>2, TypeCorrect, PassAlways, PTL DEF Spec, LedgerSpec, Ledger!Spec

-----------------------------------------------------------------------------
(***************************************************************************)
(* No case is lost.  Cases of one chunk that are sanitised alike are told  *)
(* apart by the number of equal stems before them, so that each of them    *)
(* has a file of its own, unless the extension makes two stems one name.   *)
(***************************************************************************)
LEMMA NamesDiffer ==
  ASSUME NEW chunk \in Seq(Cases),
         \A i, j \in IdsOf(chunk) : Stem[i].root = Stem[j].root => Stem[i].ext = Stem[j].ext
  PROVE  NamesApart(chunk)
  <1> DEFINE stem(k)  == Stem[chunk[k].id]
             alike(k) == {j \in 1 .. k - 1 : stem(j) = stem(k)}
  <1>0. /\ DOMAIN chunk = 1 .. Len(chunk) /\ Len(chunk) \in Nat
        /\ \A k \in DOMAIN chunk : chunk[k].id \in IdsOf(chunk)
    BY DEF IdsOf
  <1>1. \A k \in DOMAIN chunk : stem(k) \in [root : {Stem[i].root : i \in Ids}, ext : BOOLEAN]
    BY <1>0, IdsType, BatchAssumption
  <1>2. ASSUME NEW j \in DOMAIN chunk, NEW k \in DOMAIN chunk,
               FileName(chunk, j) = FileName(chunk, k)
        PROVE  stem(j) = stem(k) /\ Cardinality(alike(j)) = Cardinality(alike(k))
    <2>1. stem(j).root = stem(k).root /\ Suffix(chunk, j) = Suffix(chunk, k)
      BY <1>2 DEF FileName
    <2>2. stem(j).ext = stem(k).ext
      BY <1>0, <2>1
    <2>3. stem(j) = stem(k)
      <3> HIDE DEF stem
      <3> QED BY <1>1, <2>1, <2>2
    <2>4. QED BY <2>1, <2>3 DEF Suffix
  <1>3. ASSUME NEW j \in DOMAIN chunk, NEW k \in DOMAIN chunk, j < k,
               FileName(chunk, j) = FileName(chunk, k)
        PROVE  FALSE
    <2>1. stem(j) = stem(k) /\ Cardinality(alike(j)) = Cardinality(alike(k))
      BY <1>2, <1>3
    <2>2. alike(j) \subseteq alike(k) /\ j \in alike(k) /\ j \notin alike(j)
      BY <1>0, <1>3, <2>1
    <2>3. IsFiniteSet(alike(k))
      <3>1. k - 1 \in Int /\ 1 \in Int
        BY <1>0
      <3>2. IsFiniteSet(1 .. k - 1)
        BY <3>1, FS_Interval
      <3>3. QED BY <3>2, FS_Subset
    <2>4. alike(j) = alike(k)
      <3> HIDE DEF alike
      <3> QED BY <2>1, <2>2, <2>3, FS_Subset
    <2>5. QED BY <2>2, <2>4
  <1>4. ASSUME NEW j \in DOMAIN chunk, NEW k \in DOMAIN chunk,
               FileName(chunk, j) = FileName(chunk, k)
        PROVE  j = k
    <2>1. j < k \/ k < j \/ j = k
      BY <1>0
    <2>2. QED BY <1>3, <1>4, <2>1
  <1>5. QED BY <1>4 DEF NamesApart

\* Every id the batch works with is one of the caller's.
FilesInv ==
  IdsOf(pending) \cup IdsOf(failed) \cup DOMAIN ok \cup DOMAIN results \subseteq IdsOf(files)

AccountInv ==
  /\ FilesInv
  /\ Accounted
  /\ UnmappedOnlyByExtension
  /\ pc = "done" => DOMAIN results = IdsOf(files)

LEMMA PendingIds ==
  ASSUME TypeOK
  PROVE  /\ Remaining \subseteq IdsOf(pending)
         /\ pos = 1 => Remaining = IdsOf(pending)
         /\ pos > Len(pending) => Remaining = {}
  <1>1. DOMAIN pending = 1 .. Len(pending) /\ pos \in Nat \ {0} /\ Len(pending) \in Nat
    BY DEF TypeOK
  <1>2. QED BY <1>1 DEF Remaining, IdsOf

LEMMA ChunkAccounts ==
  ASSUME TypeOK, AccountInv, ChunkStep
  PROVE  AccountInv'
  <1>1. PICK A, F : Outcome(A, F)
    BY ChunkOutcome
  <1>2. /\ UNCHANGED <<files, pc, level, pending, results>>
        /\ pc = "pass"
    BY ChunkOutcome DEF Advance, InChunk
  <1>3. Remaining = Remaining' \cup IdsOf(Chunk)
    BY ChunkOutcome, ChunkRemaining
  <1>4. IdsOf(Chunk) \subseteq IdsOf(files)
    BY <1>3, PendingIds DEF AccountInv, FilesInv
  <1>5. IdsOf(failed)' = IdsOf(failed) \cup IdsOf(F) /\ IdsOf(F) \subseteq IdsOf(Chunk)
    <2>1. failed' = failed \o F /\ failed \in Seq(Cases) /\ F \in Seq(Cases)
      BY <1>1 DEF Outcome, TypeOK
    <2>2. IdsOf(failed \o F) = IdsOf(failed) \cup IdsOf(F)
      BY <2>1, ConcatIds
    <2>3. IdsOf(failed)' = IdsOf(failed')
      BY DEF IdsOf
    <2>4. QED BY <1>1, <2>1, <2>2, <2>3 DEF Outcome
  <1>6. DOMAIN ok' = DOMAIN ok \cup A /\ A \subseteq IdsOf(Chunk)
    BY <1>1 DEF Outcome
  <1>7. IdsOf(files)' = IdsOf(files) /\ IdsOf(pending)' = IdsOf(pending)
    BY <1>2 DEF IdsOf
  <1>8. FilesInv'
    BY <1>2, <1>4, <1>5, <1>6, <1>7 DEF AccountInv, FilesInv
  <1>9. Accounted'
    <2> SUFFICES ASSUME Separable, NEW i \in IdsOf(files), AnswerOf(i)' = "open"
                 PROVE  i \in Remaining' \cup IdsOf(failed)'
      BY <1>2, <1>7 DEF Accounted, Separable
    <2>1. A \cup IdsOf(F) = IdsOf(Chunk)
      <3>1. Chunk \in Seq(Cases)
        BY ChunkFacts, ChunkOutcome
      <3>2. NamesApart(Chunk)
        BY <1>4, <3>1, NamesDiffer DEF Separable
      <3>3. QED BY <1>1, <3>2 DEF Outcome
    <2>2. i \notin A /\ AnswerOf(i) = "open"
      <3>1. \A a \in A : ok'[a] # "open"
        BY <1>1 DEF Outcome, Verdicts
      <3>2. i \notin A
        BY <1>6, <3>1 DEF AnswerOf
      <3>3. QED BY <1>1, <1>2, <3>2 DEF AnswerOf, Outcome
    <2>3. i \in Remaining \cup IdsOf(failed)
      BY <1>2, <2>2 DEF AccountInv, Accounted
    <2>4. QED BY <1>3, <1>5, <2>1, <2>2, <2>3
  <1>10. UnmappedOnlyByExtension'
    BY <1>2, <1>7 DEF AccountInv, UnmappedOnlyByExtension, Separable, NeverUnmapped
  <1>11. QED BY <1>2, <1>8, <1>9, <1>10 DEF AccountInv

LEMMA NextPassAccounts ==
  ASSUME TypeOK, TypeOK', AccountInv, NextPass
  PROVE  AccountInv'
  <1>1. /\ files' = files /\ pc' = "pass" /\ pc = "pass" /\ pending' = failed
        /\ failed' = <<>> /\ pos' = 1
        /\ DOMAIN results' = DOMAIN results \cup DOMAIN ok /\ DOMAIN ok' = {}
        /\ \A i : AnswerOf(i)' = AnswerOf(i)
        /\ pos > Len(pending)
    BY DEF NextPass, AnswerOf, Update, NoAnswers
  <1>2. /\ IdsOf(files)' = IdsOf(files) /\ IdsOf(pending)' = IdsOf(failed)
        /\ IdsOf(failed)' = {}
    BY <1>1 DEF IdsOf
  <1>3. FilesInv'
    BY <1>1, <1>2 DEF AccountInv, FilesInv
  <1>4. Remaining = {}
    BY <1>1, PendingIds
  <1>5. Remaining' = IdsOf(failed)
    <2>1. DOMAIN failed = 1 .. Len(failed)
      BY DEF TypeOK
    <2>2. QED BY <1>1, <2>1 DEF Remaining, IdsOf
  <1>6. Accounted'
    BY <1>1, <1>2, <1>4, <1>5 DEF AccountInv, Accounted, Separable
  <1>7. UnmappedOnlyByExtension'
    <2>1. \A i \in DOMAIN ok : ok[i] # "id_unmapped"
      BY DEF TypeOK, Verdicts
    <2>2. results' = Update(results, ok)
      BY DEF NextPass
    <2>3. Separable' = Separable
      BY <1>2 DEF Separable
    <2>4. NeverUnmapped => NeverUnmapped'
      BY <2>1, <2>2 DEF NeverUnmapped, Update
    <2>5. QED BY <2>3, <2>4 DEF AccountInv, UnmappedOnlyByExtension
  <1>8. QED BY <1>1, <1>3, <1>6, <1>7 DEF AccountInv

LEMMA FinishAccounts ==
  ASSUME TypeOK, AccountInv, Finish
  PROVE  AccountInv'
  <1>1. /\ files' = files /\ pc' = "done" /\ pc = "pass" /\ pending' = failed
        /\ failed' = <<>> /\ ok' = NoAnswers /\ pos > Len(pending)
    BY DEF Finish
  <1>2. /\ IdsOf(files)' = IdsOf(files) /\ IdsOf(pending)' = IdsOf(failed)
        /\ IdsOf(failed)' = {} /\ DOMAIN ok' = {}
    BY <1>1 DEF IdsOf, NoAnswers
  <1>3. DOMAIN Settled \subseteq IdsOf(files)
    BY SettledFacts DEF AccountInv, FilesInv
  <1>4. DOMAIN results' = IdsOf(files)
    BY <1>3, FinishFacts
  <1>5. FilesInv'
    BY <1>2, <1>4 DEF AccountInv, FilesInv
  <1>6. UnmappedOnlyByExtension'
    <2> SUFFICES ASSUME Separable, NEW i \in IdsOf(files) PROVE results'[i] # "id_unmapped"
      BY <1>2, <1>4 DEF UnmappedOnlyByExtension, NeverUnmapped, Separable
    <2>1. Remaining = {}
      BY <1>1, PendingIds
    <2>2. AnswerOf(i) # "open" \/ i \in IdsOf(failed)
      BY <1>1, <2>1 DEF AccountInv, Accounted
    <2>3. i \in DOMAIN Settled
      BY <2>2, SettledFacts DEF AnswerOf
    <2>4. Settled[i] # "id_unmapped"
      BY <2>3, SettledFacts DEF AccountInv, UnmappedOnlyByExtension, NeverUnmapped, Verdicts
    <2>5. QED BY <2>3, <2>4, FinishFacts
  <1>7. QED BY <1>1, <1>2, <1>4, <1>5, <1>6 DEF AccountInv, Accounted

LEMMA AccountAlways == Spec => []AccountInv
  <1>1. Init => AccountInv
    <2> SUFFICES ASSUME Init PROVE AccountInv
      OBVIOUS
    <2>1. TypeOK
      BY InitType
    <2>2. /\ IdsOf(failed) = {} /\ DOMAIN ok = {} /\ DOMAIN results = {}
          /\ pending = files /\ pos = 1 /\ pc = "pass"
      BY DEF Init, IdsOf, NoAnswers
    <2>3. Remaining = IdsOf(files)
      BY <2>1, <2>2, PendingIds
    <2>4. QED
      BY <2>2, <2>3
      DEF AccountInv, FilesInv, Accounted, UnmappedOnlyByExtension, NeverUnmapped
  <1>2. TypeOK /\ TypeOK' /\ AccountInv /\ [Next]_vars => AccountInv'
    <2> SUFFICES ASSUME TypeOK, TypeOK', AccountInv, [Next]_vars PROVE AccountInv'
      OBVIOUS
    <2>1. CASE ChunkStep
      BY <2>1, ChunkAccounts
    <2>2. CASE NextPass
      BY <2>2, NextPassAccounts
    <2>3. CASE Finish
      BY <2>3, FinishAccounts
    <2>4. CASE UNCHANGED vars
      <3>1. /\ Remaining' = Remaining /\ IdsOf(failed)' = IdsOf(failed)
            /\ IdsOf(pending)' = IdsOf(pending) /\ IdsOf(files)' = IdsOf(files)
            /\ ok' = ok /\ results' = results /\ pc' = pc
            /\ \A i : AnswerOf(i)' = AnswerOf(i)
        BY <2>4 DEF vars, Remaining, IdsOf, AnswerOf
      <3>2. QED
        BY <3>1 DEF AccountInv, FilesInv, Accounted, UnmappedOnlyByExtension, NeverUnmapped,
                    Separable
    <2>5. QED BY <2>1, <2>2, <2>3, <2>4 DEF Next, ChunkStep, Done
  <1>3. QED BY <1>1, <1>2, TypeCorrect, PTL DEF Spec

\* A case without an answer is still to be written or has failed and waits:
\* none falls between a chunk's outcomes, its bounds or the passes.
THEOREM EveryCaseAccounted == Spec => []Accounted
  <1>1. AccountInv => Accounted
    BY DEF AccountInv
  <1>2. QED BY <1>1, AccountAlways, PTL

\* Where no two ids of a batch differ by the extension only, the suffixes keep
\* its files apart and nothing comes back unmapped.
THEOREM UnmappedByExtension == Spec => []UnmappedOnlyByExtension
  <1>1. AccountInv => UnmappedOnlyByExtension
    BY DEF AccountInv
  <1>2. QED BY <1>1, AccountAlways, PTL

\* Distinct ids are as many as their cases.
LEMMA CountIds ==
  ASSUME NEW cases \in Seq(Cases), Distinct(cases)
  PROVE  Cardinality(IdsOf(cases)) = Len(cases)
  <1> DEFINE f == [k \in 1 .. Len(cases) |-> cases[k].id]
  <1>1. DOMAIN cases = 1 .. Len(cases) /\ Len(cases) \in Nat
    OBVIOUS
  <1>2. f \in Bijection(1 .. Len(cases), IdsOf(cases))
    <2>1. f \in [1 .. Len(cases) -> IdsOf(cases)]
      BY <1>1 DEF IdsOf
    <2>2. \A j, k \in 1 .. Len(cases) : f[j] = f[k] => j = k
      BY <1>1 DEF Distinct
    <2>3. \A i \in IdsOf(cases) : \E k \in 1 .. Len(cases) : f[k] = i
      BY <1>1 DEF IdsOf
    <2> HIDE DEF f
    <2>4. QED BY <2>1, <2>2, <2>3, Fun_IsBij
  <1>3. ExistsBijection(1 .. Len(cases), IdsOf(cases))
    BY <1>2 DEF ExistsBijection
  <1>4. QED BY <1>1, <1>3, FS_CountingElements

\* The number of answers is the number of cases given, also after timeouts,
\* failed imports and lost files.
THEOREM ResultPerCase ==
  ASSUME InputsDistinct
  PROVE  Spec => []OneResultPerCase
  <1>1. TypeOK /\ AccountInv => OneResultPerCase
    <2> SUFFICES ASSUME TypeOK, AccountInv, pc = "done"
                 PROVE  Cardinality(DOMAIN results) = Len(files)
      BY DEF OneResultPerCase
    <2>1. files \in Seq(Cases) /\ Distinct(files)
      BY BatchAssumption DEF TypeOK, InputsDistinct
    <2>2. QED BY <2>1, CountIds DEF AccountInv
  <1>2. QED BY <1>1, TypeCorrect, AccountAlways, PTL

-----------------------------------------------------------------------------
(***************************************************************************)
(* The passes get shorter.  A pass gives up at most the cases it was given *)
(* and has tried, so that the wrapped pass is no longer than the first.    *)
(***************************************************************************)
\* The cases of the pass that are still to be written.
Left == IF pos > Len(pending) THEN 0 ELSE Len(pending) - pos + 1

PassesShrink ==
  pc = "pass" => Len(failed) + Left <= Len(pending) /\ Len(pending) <= Len(files)

\* Each chunk takes a case off, the second pass comes after the first.
WorkLeft ==
  IF pc = "done" THEN 0 ELSE 1 + Left + IF level = 0 THEN 1 + Len(files) ELSE 0

LEMMA Lengths ==
  TypeOK => /\ Len(files) \in Nat /\ Len(pending) \in Nat /\ Len(failed) \in Nat
            /\ pos \in Nat \ {0} /\ Left \in Nat
  <1> SUFFICES ASSUME TypeOK
               PROVE  /\ Len(files) \in Nat /\ Len(pending) \in Nat /\ Len(failed) \in Nat
                      /\ pos \in Nat \ {0} /\ Left \in Nat
    OBVIOUS
  <1>1. files \in Seq(Cases)
    BY BatchAssumption DEF TypeOK
  <1>2. /\ Len(files) \in Nat /\ Len(pending) \in Nat /\ Len(failed) \in Nat
        /\ pos \in Nat \ {0}
    BY <1>1 DEF TypeOK
  <1>3. QED BY <1>2 DEF Left

LEMMA ChunkTakes ==
  ASSUME TypeOK, ChunkStep
  PROVE  /\ UNCHANGED <<files, pc, level, pending>> /\ pc = "pass"
         /\ Left' < Left
         /\ Len(failed)' \in Nat /\ Len(failed)' + Left' <= Len(failed) + Left
  <1>1. PICK A, F : Outcome(A, F)
    BY ChunkOutcome
  <1>2. /\ pos' = pos + ChunkSize
        /\ UNCHANGED <<files, pc, level, pending>>
        /\ InChunk /\ pc = "pass" /\ pos <= Len(pending)
    BY ChunkOutcome DEF Advance, InChunk
  <1>3. /\ pos \in Nat \ {0} /\ Len(pending) \in Nat /\ Len(failed) \in Nat
        /\ ChunkSize \in Nat \ {0}
    BY Lengths, BatchAssumption
  <1>4. Chunk \in Seq(Cases) /\ Len(Chunk) \in Nat /\ DOMAIN Chunk = 1 .. Len(Chunk)
    BY <1>2, ChunkFacts
  <1>5. Len(failed)' \in Nat /\ Len(failed)' <= Len(failed) + Len(Chunk)
    <2>1. failed' = failed \o F /\ F \in Seq(Cases) /\ Len(F) <= Len(Chunk)
      BY <1>1 DEF Outcome
    <2>2. Len(failed \o F) = Len(failed) + Len(F) /\ Len(F) \in Nat
      BY <2>1 DEF TypeOK
    <2>3. QED BY <1>3, <1>4, <2>1, <2>2
  <1>6. Len(Chunk) + Left' <= Left
    <2>1. CASE Len(Chunk) = 0
      BY <1>2, <1>3, <2>1 DEF Left
    <2>2. CASE Len(Chunk) > 0
      <3>1. Len(Chunk) \in DOMAIN Chunk
        BY <1>4, <2>2
      <3>2. /\ pos + Len(Chunk) - 1 <= Len(pending)
            /\ pos + Len(Chunk) - 1 < pos + ChunkSize
        BY <1>2, <1>3, <3>1, ChunkFacts
      <3>3. QED BY <1>2, <1>3, <1>4, <3>2 DEF Left
    <2>3. QED BY <1>4, <2>1, <2>2
  <1>7. Left' < Left /\ Left \in Nat /\ Left' \in Nat
    BY <1>2, <1>3 DEF Left
  <1>8. QED BY <1>2, <1>3, <1>4, <1>5, <1>6, <1>7

LEMMA ShrinkNext == TypeOK /\ TypeOK' /\ PassesShrink /\ [Next]_vars => PassesShrink'
  <1> SUFFICES ASSUME TypeOK, TypeOK', PassesShrink, [Next]_vars PROVE PassesShrink'
    OBVIOUS
  <1>1. /\ Len(files) \in Nat /\ Len(pending) \in Nat /\ Len(failed) \in Nat /\ Left \in Nat
        /\ Left' \in Nat
    BY Lengths DEF Left, TypeOK
  <1>2. CASE ChunkStep
    BY <1>1, <1>2, ChunkTakes DEF PassesShrink
  <1>3. CASE NextPass
    <2>1. /\ pc = "pass" /\ files' = files /\ pending' = failed /\ pos' = 1 /\ failed' = <<>>
      BY <1>3 DEF NextPass
    <2>2. Len(failed) <= Len(files)
      BY <1>1, <2>1 DEF PassesShrink
    <2>3. Len(<<>>) + Left' <= Len(failed)
      BY <1>1, <2>1 DEF Left
    <2>4. QED BY <2>1, <2>2, <2>3 DEF PassesShrink
  <1>4. CASE Finish
    BY <1>4 DEF Finish, PassesShrink
  <1>5. CASE UNCHANGED vars
    BY <1>5 DEF vars, PassesShrink, Left
  <1>6. QED BY <1>2, <1>3, <1>4, <1>5 DEF Next, Done, ChunkStep

LEMMA ShrinkAlways == Spec => []PassesShrink
  <1>1. Init => PassesShrink
    <2> SUFFICES ASSUME Init PROVE PassesShrink
      OBVIOUS
    <2>1. Len(files) \in Nat
      BY InitType, Lengths
    <2>2. pending = files /\ pos = 1 /\ failed = <<>> /\ Len(<<>>) = 0
      BY DEF Init
    <2>3. QED BY <2>1, <2>2 DEF PassesShrink, Left
  <1>2. QED BY <1>1, ShrinkNext, TypeCorrect, PTL DEF Spec

\* The wrapped pass never tries more cases than the batch has, and never
\* fails more than it tries: no chunk gives up a case twice, also when two
\* of its cases were written to one file.
THEOREM RetryIsBounded == Spec => []PassesShrink
  BY ShrinkAlways

\* A batch has so many steps left, and each takes one off at least: what Joern
\* keeps failing on is tried twice, not for ever.  The safety half of
\* BatchEnds.
THEOREM BatchAdvances ==
  Spec => [](WorkLeft \in 0 .. 2 * Len(files) + 2) /\ [][WorkLeft' < WorkLeft]_vars
  <1>1. TypeOK /\ PassesShrink => WorkLeft \in 0 .. 2 * Len(files) + 2
    <2> SUFFICES ASSUME TypeOK, PassesShrink PROVE WorkLeft \in 0 .. 2 * Len(files) + 2
      OBVIOUS
    <2>1. /\ Len(files) \in Nat /\ Len(pending) \in Nat /\ Len(failed) \in Nat /\ Left \in Nat
      BY Lengths
    <2>2. CASE pc = "done"
      BY <2>1, <2>2 DEF WorkLeft
    <2>3. CASE pc = "pass"
      <3> DEFINE n == Len(files)
                 m == Left
                 l == IF level = 0 THEN 1 + n ELSE 0
      <3>1. n \in Nat /\ m \in Nat /\ m <= n /\ WorkLeft = 1 + m + l
        BY <2>1, <2>3 DEF WorkLeft, PassesShrink
      <3>2. l \in 0 .. 1 + n
        BY <2>1
      <3> HIDE DEF n, m, l
      <3>3. WorkLeft \in 0 .. 2 * n + 2
        BY <3>1, <3>2
      <3>4. QED BY <3>3 DEF n
    <2>4. QED BY <2>2, <2>3 DEF TypeOK
  <1>2. ASSUME TypeOK, TypeOK', PassesShrink, Next, ~UNCHANGED vars PROVE WorkLeft' < WorkLeft
    <2>1. /\ Len(files) \in Nat /\ Len(pending) \in Nat /\ Len(failed) \in Nat /\ Left \in Nat
          /\ Left' \in Nat
      BY <1>2, Lengths DEF Left, TypeOK
    <2>2. CASE ChunkStep
      <3>1. UNCHANGED <<files, pc, level>> /\ pc = "pass" /\ Left' < Left
        BY <1>2, <2>2, ChunkTakes
      <3> DEFINE n == IF level = 0 THEN 1 + Len(files) ELSE 0
                 m == Left
                 o == Left'
      <3>2. WorkLeft = 1 + m + n /\ WorkLeft' = 1 + o + n
        BY <3>1 DEF WorkLeft
      <3>3. n \in Nat /\ m \in Nat /\ o \in Nat /\ o < m
        BY <2>1, <3>1
      <3> HIDE DEF n, m, o
      <3>4. QED BY <3>2, <3>3
    <2>3. CASE NextPass
      <3>1. /\ pc = "pass" /\ pc' = "pass" /\ level = 0 /\ level' = 1 /\ files' = files
            /\ pending' = failed /\ pos' = 1
        BY <2>3 DEF NextPass
      <3>2. Len(failed) <= Len(files)
        BY <1>2, <2>1, <3>1 DEF PassesShrink
      <3>3. Left' <= Len(failed)
        BY <2>1, <3>1 DEF Left
      <3>4. QED BY <2>1, <3>1, <3>2, <3>3 DEF WorkLeft
    <2>4. CASE Finish
      <3>1. pc = "pass" /\ WorkLeft' = 0
        BY <2>4 DEF Finish, WorkLeft
      <3> DEFINE l == IF level = 0 THEN 1 + Len(files) ELSE 0
      <3>2. WorkLeft = 1 + Left + l
        BY <3>1 DEF WorkLeft
      <3>3. l \in Nat
        BY <2>1
      <3> HIDE DEF l
      <3>4. QED BY <2>1, <3>1, <3>2, <3>3
    <2>5. QED BY <1>2, <2>2, <2>3, <2>4 DEF Next, Done, ChunkStep
  <1>3. QED BY <1>1, <1>2, TypeCorrect, ShrinkAlways, PTL DEF Spec
=============================================================================
