---------------------------- MODULE RuleCache_proofs ----------------------------
(***************************************************************************)
(* Proofs about RuleCache, for any requests and candidates, any batch size *)
(* and limit, and any number of crashes.                                   *)
(***************************************************************************)
EXTENDS RuleCache, FiniteSetTheorems, TLAPS

(***************************************************************************)
(* Batches: the items of a request are numbered by their rank, so that     *)
(* each has a batch and there are no more batches than items.              *)
(***************************************************************************)
LEMMA ItemsFinite == IsFiniteSet(Items) /\ Items \subseteq Nat
  <1>1. Items = UNION {Candidates[r] : r \in Requests}
    BY RulesAssumption DEF Items, Range
  <1> DEFINE Sets == {Candidates[r] : r \in Requests}
             f == [r \in Requests |-> Candidates[r]]
  <1>2. f \in Surjection(Requests, Sets)
    BY DEF Surjection
  <1>3. IsFiniteSet(Sets)
    BY <1>2, RulesAssumption, FS_Surjection
  <1>4. \A T \in Sets : IsFiniteSet(T) /\ T \subseteq Nat
    BY RulesAssumption
  <1>5. IsFiniteSet(UNION Sets)
    BY <1>3, <1>4, FS_UNION
  <1>6. QED BY <1>1, <1>4, <1>5

LEMMA OwnItems == \A r \in Requests : Candidates[r] \subseteq Items
  BY RulesAssumption DEF Items, Range

LEMMA Quotient ==
  ASSUME NEW n \in Nat, n >= 1
  PROVE  (n - 1) \div BatchSize + 1 \in 1 .. n
  <1>1. BatchSize \in Nat /\ BatchSize >= 1
    BY RulesAssumption
  <1>2. (n - 1) \div BatchSize \in Nat /\ (n - 1) \div BatchSize <= n - 1
    BY <1>1
  <1>3. QED BY <1>2

LEMMA BatchExists ==
  ASSUME NEW S \in SUBSET Items, NEW i \in S
  PROVE  BatchOf(i, S) \in Batches
  <1> DEFINE Below == {j \in S : j <= i}
  <1>1. IsFiniteSet(S) /\ Cardinality(S) \in Nat /\ Cardinality(S) <= Cardinality(Items)
        /\ Cardinality(Items) \in Nat
    BY ItemsFinite, FS_Subset, FS_CardinalityType
  <1>2. IsFiniteSet(Below) /\ Cardinality(Below) <= Cardinality(S) /\ Cardinality(Below) \in Nat
    BY <1>1, FS_Subset, FS_CardinalityType
  <1>3. i \in Below
    BY ItemsFinite
  <1>4. Cardinality(Below) # 0
    BY <1>2, <1>3, FS_EmptySet
  <1>5. Rank(i, S) = Cardinality(Below)
    BY DEF Rank
  <1> HIDE DEF Below
  <1>6. (Cardinality(Below) - 1) \div BatchSize + 1 \in 1 .. Cardinality(Below)
    BY <1>2, <1>4, Quotient
  <1>7. QED BY <1>1, <1>2, <1>5, <1>6 DEF BatchOf, Batches

-----------------------------------------------------------------------------
(***************************************************************************)
(* Types.  A batch is open only while it has attempts left.                *)
(***************************************************************************)
AttemptsLeft == \A r \in Requests : \A b \in open[r] : tries[r][b] < Attempts

Unasked ==
  \A r \in Requests :
    phase[r] = "new" => tries[r] = [b \in Batches |-> 0] /\ got[r] = [b \in Batches |-> {}]

TypeInv == TypeOK /\ AttemptsLeft /\ Unasked

LEMMA CacheType ==
  ASSUME TypeOK, Readable
  PROVE  Cache \in Caches
  <1>1. NoRules \in [{} -> Rules] /\ {} \in SUBSET Items
    BY DEF NoRules
  <1>2. NoRules \in Caches
    BY <1>1 DEF Caches
  <1>3. QED BY <1>2 DEF TypeOK, Readable, Cache

LEMMA CacheFunction ==
  ASSUME NEW f
  PROVE  f \in Caches <=> \E S \in SUBSET Items : f \in [S -> Rules]
  BY DEF Caches

LEMMA InCaches ==
  ASSUME NEW f \in Caches
  PROVE  /\ f = [i \in DOMAIN f |-> f[i]]
         /\ DOMAIN f \subseteq Items
         /\ \A i \in DOMAIN f : f[i] \in Rules
  BY DEF Caches

LEMMA ExtendedType ==
  ASSUME TypeOK, Readable, NEW r \in Requests
  PROVE  /\ Extended(r) \in Caches
         /\ Extends(Extended(r), Cache)
         /\ DOMAIN good[r] \subseteq DOMAIN Extended(r)
         /\ \A i \in DOMAIN Extended(r) :
              \/ i \in DOMAIN Cache /\ Extended(r)[i] = Cache[i]
              \/ i \in DOMAIN good[r] /\ Extended(r)[i] = good[r][i]
  <1>1. Cache \in Caches /\ good[r] \in Caches
    BY CacheType DEF TypeOK
  <1> DEFINE S == DOMAIN Cache \cup DOMAIN good[r]
  <1>2. S \in SUBSET Items
    BY <1>1, InCaches
  <1>3. \A i \in S : (IF i \in DOMAIN Cache THEN Cache[i] ELSE good[r][i]) \in Rules
    BY <1>1, InCaches
  <1>4. Extended(r) \in [S -> Rules]
    BY <1>3 DEF Extended
  <1>5. Extended(r) \in Caches
    BY <1>2, <1>4, CacheFunction
  <1>6. QED BY <1>5 DEF Extended, Extends

LEMMA AskType ==
  ASSUME TypeInv, NEW r \in Requests, NEW b \in Batches, Ask(r, b)
  PROVE  TypeInv'
  <1>1. /\ phase[r] = "label" /\ b \in open[r]
        /\ UNCHANGED <<version, phase, fresh, good, content, file, disturbed, crashes>>
    BY DEF Ask
  <1>2. /\ tries \in [Requests -> [Batches -> 0 .. Attempts]]
        /\ got \in [Requests -> [Batches -> SUBSET Items]]
        /\ open \in [Requests -> SUBSET Batches]
        /\ fresh[r] \subseteq Items
    BY DEF TypeInv, TypeOK
  <1>3. tries[r][b] \in 0 .. Attempts - 1
    BY <1>1, <1>2 DEF TypeInv, AttemptsLeft, Attempts
  <1>4. tries' = [tries EXCEPT ![r][b] = @ + 1]
    BY DEF Ask, NoAnswer, Take, TakeV1, TakeV2
  <1>5. tries' \in [Requests -> [Batches -> 0 .. Attempts]]
    BY <1>2, <1>3, <1>4 DEF Attempts
  <1>6. \/ open' = [open EXCEPT ![r] = @ \ {b}]
        \/ tries'[r][b] < Attempts /\ open' = open
    <2>1. CASE open' = [open EXCEPT ![r] = @ \ {b}]
      BY <2>1
    <2>2. CASE Closes(r, b)
      <3>1. CASE tries'[r][b] < Attempts
        <4>1. open' = [open EXCEPT ![r] = open[r]]
          BY <2>2, <3>1 DEF Closes
        <4>2. QED BY <1>2, <3>1, <4>1
      <3>2. CASE ~(tries'[r][b] < Attempts)
        BY <2>2, <3>2 DEF Closes
      <3>3. QED BY <3>1, <3>2
    <2>3. QED BY <2>1, <2>2 DEF Ask, NoAnswer, Take, TakeV1, TakeV2
  <1>7. open' \in [Requests -> SUBSET Batches]
    BY <1>2, <1>6
  <1>8. got' \in [Requests -> [Batches -> SUBSET Items]]
    <2>1. CASE got' = got
      BY <1>2, <2>1
    <2>2. CASE got' # got
      <3>1. PICK ids \in SUBSET fresh[r] : Take(r, b, ids)
        BY <2>2 DEF Ask, NoAnswer
      <3>2. ids \cap fresh[r] \subseteq Items /\ ids \cap Pending(r, b) \subseteq Items
        BY <1>2
      <3>3. PICK new \in SUBSET Items : got' = [got EXCEPT ![r][b] = new]
        <4>1. CASE TakeV1(r, b, ids)
          <5>1. got[r][b] \cup (ids \cap Pending(r, b)) \in SUBSET Items
            BY <1>2, <3>2
          <5>2. QED BY <4>1, <5>1 DEF TakeV1
        <4>2. CASE TakeV2(r, b, ids)
          BY <3>2, <4>2 DEF TakeV2
        <4>3. QED BY <3>1, <4>1, <4>2 DEF Take
      <3>4. QED BY <1>2, <3>3
    <2>3. QED BY <2>1, <2>2
  <1>9. AttemptsLeft'
    BY <1>2, <1>4, <1>6 DEF TypeInv, AttemptsLeft
  <1>10. Unasked'
    <2>1. \A s \in Requests : s # r => tries'[s] = tries[s] /\ got'[s] = got[s]
      BY <1>2, <1>4 DEF Ask, NoAnswer, Take, TakeV1, TakeV2
    <2>2. QED BY <1>1, <2>1 DEF TypeInv, Unasked
  <1>11. QED
    BY <1>1, <1>5, <1>7, <1>8, <1>9, <1>10 DEF TypeInv, TypeOK

LEMMA LookupType ==
  ASSUME TypeInv, NEW r \in Requests, Lookup(r)
  PROVE  TypeInv'
  <1>1. /\ phase[r] = "new"
        /\ UNCHANGED <<version, tries, got, good, content, file, disturbed, crashes>>
    BY DEF Lookup
  <1>2. /\ phase \in [Requests -> Phases] /\ fresh \in [Requests -> SUBSET Items]
        /\ open \in [Requests -> SUBSET Batches]
    BY DEF TypeInv, TypeOK
  <1>3. CASE ~Readable
    BY <1>1, <1>2, <1>3
    DEF Lookup, Goto, TypeInv, TypeOK, AttemptsLeft, Unasked, Phases, Finished
  <1>4. CASE Readable
    <2> DEFINE unknown == Limited(Candidates[r] \ DOMAIN Cache)
               asked   == {BatchOf(i, unknown) : i \in unknown}
    <2>1. /\ phase' = [phase EXCEPT ![r] = "label"]
          /\ fresh' = [fresh EXCEPT ![r] = unknown]
          /\ open' = [open EXCEPT ![r] = asked]
      BY <1>4 DEF Lookup, Goto
    <2>2. unknown \in SUBSET Items
      BY OwnItems DEF Limited
    <2> HIDE DEF unknown
    <2>3. asked \in SUBSET Batches
      BY <2>2, BatchExists
    <2> HIDE DEF asked
    <2>4. /\ phase' \in [Requests -> Phases] /\ fresh' \in [Requests -> SUBSET Items]
          /\ open' \in [Requests -> SUBSET Batches]
      BY <1>2, <2>1, <2>2, <2>3 DEF Phases
    <2>5. TypeOK'
      BY <1>1, <2>4 DEF TypeInv, TypeOK
    <2>6. tries[r] = [b \in Batches |-> 0]
      BY <1>1 DEF TypeInv, Unasked
    <2>7. AttemptsLeft'
      BY <1>1, <1>2, <2>1, <2>3, <2>6 DEF TypeInv, AttemptsLeft, Attempts
    <2>8. Unasked'
      BY <1>1, <1>2, <2>1 DEF TypeInv, Unasked
    <2>9. QED BY <2>5, <2>7, <2>8 DEF TypeInv
  <1>5. QED BY <1>3, <1>4

LEMMA LabelledItems ==
  ASSUME TypeOK, NEW r \in Requests
  PROVE  /\ Labelled(r) \subseteq Items
         /\ \A i : i \in Labelled(r) <=> \E b \in Batches : i \in got[r][b]
  BY DEF TypeOK, Labelled, Range

LEMMA ValidateType ==
  ASSUME TypeInv, NEW r \in Requests, Validate(r)
  PROVE  TypeInv'
  <1>1. /\ phase[r] = "label" /\ open[r] = {}
        /\ phase' = [phase EXCEPT ![r] = "load"]
        /\ fresh' = [fresh EXCEPT ![r] = {}]
        /\ tries' = [tries EXCEPT ![r] = [b \in Batches |-> 0]]
        /\ got' = [got EXCEPT ![r] = [b \in Batches |-> {}]]
        /\ UNCHANGED <<version, open, content, file, disturbed, crashes>>
    BY DEF Validate, Goto
  <1>2. PICK kept \in SUBSET Labelled(r) :
          good' = [good EXCEPT ![r] = [i \in kept |-> <<r, Shown(r, i)>>]]
    BY DEF Validate
  <1> DEFINE rules == [i \in kept |-> <<r, Shown(r, i)>>]
  <1>3. rules \in Caches
    <2>1. \A i \in kept : Shown(r, i) \in BOOLEAN
      BY DEF Shown
    <2>2. rules \in [kept -> Rules]
      BY <2>1 DEF Rules
    <2>3. kept \in SUBSET Items
      BY LabelledItems DEF TypeInv
    <2>4. QED BY <2>2, <2>3, CacheFunction
  <1>4. good' = [good EXCEPT ![r] = rules]
    BY <1>2
  <1> HIDE DEF rules
  <1>5. /\ good' \in [Requests -> Caches]
        /\ phase' \in [Requests -> Phases]
        /\ fresh' \in [Requests -> SUBSET Items]
        /\ tries' \in [Requests -> [Batches -> 0 .. Attempts]]
        /\ got' \in [Requests -> [Batches -> SUBSET Items]]
    <2>1. [b \in Batches |-> 0] \in [Batches -> 0 .. Attempts]
      BY DEF Attempts
    <2>2. [b \in Batches |-> {}] \in [Batches -> SUBSET Items]
      OBVIOUS
    <2>3. "load" \in Phases
      BY DEF Phases
    <2>4. QED BY <1>1, <1>3, <1>4, <2>1, <2>2, <2>3 DEF TypeInv, TypeOK
  <1>6. TypeOK'
    BY <1>1, <1>5 DEF TypeInv, TypeOK
  <1>7. \A s \in Requests : s # r => tries'[s] = tries[s] /\ got'[s] = got[s]
                                     /\ phase'[s] = phase[s]
    BY <1>1 DEF TypeInv, TypeOK
  <1>8. AttemptsLeft'
    BY <1>1, <1>7 DEF TypeInv, AttemptsLeft
  <1>9. phase'[r] # "new"
    BY <1>1 DEF TypeInv, TypeOK
  <1>10. Unasked'
    BY <1>7, <1>9 DEF TypeInv, Unasked
  <1>11. QED BY <1>6, <1>8, <1>10 DEF TypeInv

\* What the steps after validation, an exception and a crash leave alone.
LEMMA QuietFrame ==
  ASSUME TypeInv, UNCHANGED <<fresh, open, tries, got, good>>,
         \A r \in Requests : phase'[r] = "new" => phase[r] = "new",
         version' = version,
         phase' \in [Requests -> Phases],
         content' \in [Requests -> Caches],
         file' \in Caches \cup {Absent, Empty, Broken},
         disturbed' \in BOOLEAN,
         crashes' \in 0 .. MaxCrashes
  PROVE  TypeInv'
  BY DEF TypeInv, TypeOK, AttemptsLeft, Unasked

LEMMA UpdateType ==
  ASSUME TypeInv, NEW r \in Requests, Malformed(r) \/ Load(r) \/ Open(r) \/ Write(r)
  PROVE  TypeInv'
  <1>1. /\ UNCHANGED <<version, fresh, open, tries, got, good, crashes>>
        /\ \E p \in Phases \ {"new"} : phase' = [phase EXCEPT ![r] = p]
    BY DEF Malformed, Load, Open, Write, Goto, Phases, Finished
  <1>2. /\ phase' \in [Requests -> Phases]
        /\ \A s \in Requests : phase'[s] = "new" => phase[s] = "new"
    BY <1>1 DEF TypeInv, TypeOK
  <1>3. content' \in [Requests -> Caches]
    <2>1. CASE content' = content
      BY <2>1 DEF TypeInv, TypeOK
    <2>2. CASE content' # content
      <3>1. Readable /\ content' = [content EXCEPT ![r] = Extended(r)]
        BY <2>2 DEF Malformed, Load, Open, Write
      <3>2. QED BY <3>1, ExtendedType DEF TypeInv, TypeOK
    <2>3. QED BY <2>1, <2>2
  <1>4. file' \in Caches \cup {Absent, Empty, Broken}
    <2>1. file' \in {file, Empty, Broken, content[r]}
      BY DEF Malformed, Load, Open, Write
    <2>2. QED BY <2>1 DEF TypeInv, TypeOK
  <1>5. disturbed' \in BOOLEAN
    <2>1. disturbed' = disturbed \/ disturbed' = (disturbed \/ Updating # {})
      BY DEF Malformed, Load, Open, Write
    <2>2. QED BY <2>1 DEF TypeInv, TypeOK
  <1>6. QED
    BY <1>1, <1>2, <1>3, <1>4, <1>5, QuietFrame DEF TypeInv, TypeOK

LEMMA CrashType ==
  ASSUME TypeInv, Crash
  PROVE  TypeInv'
  <1>1. /\ phase' \in [Requests -> Phases]
        /\ \A s \in Requests : phase'[s] = "new" => phase[s] = "new"
    BY DEF Crash, TypeInv, TypeOK, Phases, Finished
  <1>2. crashes' \in 0 .. MaxCrashes
    BY RulesAssumption DEF Crash, TypeInv, TypeOK
  <1>3. disturbed' \in BOOLEAN
    BY DEF Crash, TypeInv, TypeOK
  <1>4. QED BY <1>1, <1>2, <1>3, QuietFrame DEF Crash, TypeInv, TypeOK

LEMMA TypeAlways == Spec => []TypeInv
  <1>1. Init => TypeInv
    <2> SUFFICES ASSUME Init PROVE TypeInv
      OBVIOUS
    <2>1. NoRules \in Caches
      <3>1. NoRules \in [{} -> Rules] /\ {} \in SUBSET Items
        BY DEF NoRules
      <3>2. QED BY <3>1, CacheFunction
    <2>2. TypeOK
      <3>1. 0 \in 0 .. MaxCrashes /\ 0 \in 0 .. Attempts
        BY RulesAssumption DEF Attempts
      <3>2. /\ tries \in [Requests -> [Batches -> 0 .. Attempts]]
            /\ got \in [Requests -> [Batches -> SUBSET Items]]
        BY <3>1 DEF Init
      <3>3. QED BY <2>1, <3>1, <3>2 DEF Init, TypeOK, Phases
    <2>3. QED BY <2>2 DEF Init, TypeInv, AttemptsLeft, Unasked
  <1>2. TypeInv /\ [Next]_vars => TypeInv'
    <2> SUFFICES ASSUME TypeInv, [Next]_vars PROVE TypeInv'
      OBVIOUS
    <2>1. ASSUME NEW r \in Requests, Step(r) PROVE TypeInv'
      BY <2>1, LookupType, AskType, ValidateType, UpdateType DEF Step
    <2>2. CASE Crash
      BY <2>2, CrashType
    <2>3. CASE UNCHANGED vars
      BY <2>3 DEF vars, TypeInv, TypeOK, AttemptsLeft, Unasked
    <2>4. QED BY <2>1, <2>2, <2>3 DEF Next, Quiescent
  <1>3. QED BY <1>1, <1>2, PTL DEF Spec

\* Every reachable state is in its domain: no batch asks more often than it
\* may, and the file holds rules of its items, nothing or a torn write.
THEOREM TypeCorrect == Spec => []TypeOK
  <1>1. TypeInv => TypeOK
    BY DEF TypeInv
  <1>2. QED BY <1>1, TypeAlways, PTL

-----------------------------------------------------------------------------
(***************************************************************************)
(* Labelling in v1.  The answers of batches that run at once stay apart:   *)
(* what a batch has labels for is of its own prompt.                       *)
(***************************************************************************)
OwnBatch ==
  version = "v1" =>
    \A r \in Requests : \A b \in Batches : \A i \in got[r][b] :
      i \in fresh[r] /\ BatchOf(i, fresh[r]) = b

LabelInv == OwnBatch /\ MissingWasRetried

\* What one call of a batch of v1 does.
LEMMA AskV1 ==
  ASSUME TypeInv, version = "v1", NEW r \in Requests, NEW b \in Batches, Ask(r, b)
  PROVE  /\ \A s \in Requests : \A d \in Batches :
              s # r \/ d # b => /\ got'[s][d] = got[s][d] /\ tries'[s][d] = tries[s][d]
                                /\ d \in open[s] => d \in open'[s]
         /\ got[r][b] \subseteq got'[r][b]
         /\ got'[r][b] \subseteq got[r][b] \cup Pending(r, b)
         /\ \/ b \in open'[r]
            \/ Pending(r, b) \subseteq got'[r][b]
            \/ tries'[r][b] = Attempts
  <1>1. /\ tries \in [Requests -> [Batches -> 0 .. Attempts]]
        /\ got \in [Requests -> [Batches -> SUBSET Items]]
        /\ open \in [Requests -> SUBSET Batches]
    BY DEF TypeInv, TypeOK
  <1>2. b \in open[r] /\ tries[r][b] \in 0 .. Attempts - 1
    BY <1>1 DEF Ask, TypeInv, AttemptsLeft, Attempts
  <1>3. tries' = [tries EXCEPT ![r][b] = @ + 1]
    BY DEF Ask, NoAnswer, Take, TakeV1, TakeV2
  <1>4. tries'[r][b] = tries[r][b] + 1
    BY <1>1, <1>3
  <1>5. Closes(r, b) => /\ \A s \in Requests : \A d \in Batches :
                             (s # r \/ d # b) /\ d \in open[s] => d \in open'[s]
                        /\ b \in open'[r] \/ tries'[r][b] = Attempts
    <2> SUFFICES ASSUME Closes(r, b)
                 PROVE  /\ \A s \in Requests : \A d \in Batches :
                             (s # r \/ d # b) /\ d \in open[s] => d \in open'[s]
                        /\ b \in open'[r] \/ tries'[r][b] = Attempts
      OBVIOUS
    <2>1. CASE tries'[r][b] < Attempts
      <3>1. open' = [open EXCEPT ![r] = open[r]]
        BY <2>1 DEF Closes
      <3>2. QED BY <1>1, <1>2, <3>1
    <2>2. CASE ~(tries'[r][b] < Attempts)
      <3>1. open' = [open EXCEPT ![r] = open[r] \ {b}]
        BY <2>2 DEF Closes
      <3>2. QED BY <1>1, <1>2, <1>4, <2>2, <3>1 DEF Attempts
    <2>3. QED BY <2>1, <2>2
  <1>6. CASE NoAnswer(r, b)
    BY <1>1, <1>3, <1>5, <1>6 DEF NoAnswer
  <1>7. CASE ~NoAnswer(r, b)
    <2>1. PICK ids \in SUBSET fresh[r] : TakeV1(r, b, ids)
      BY <1>7 DEF Ask, Take
    <2>2. got' = [got EXCEPT ![r][b] = got[r][b] \cup (ids \cap Pending(r, b))]
      BY <2>1 DEF TakeV1
    <2>3. got'[r][b] = got[r][b] \cup (ids \cap Pending(r, b))
      BY <1>1, <2>2
    <2>4. CASE Pending(r, b) \subseteq ids
      <3>1. open' = [open EXCEPT ![r] = open[r] \ {b}]
        BY <2>1, <2>4 DEF TakeV1
      <3>2. Pending(r, b) \subseteq got'[r][b]
        BY <2>3, <2>4
      <3>3. QED BY <1>1, <1>3, <2>2, <2>3, <3>1, <3>2
    <2>5. CASE ~(Pending(r, b) \subseteq ids)
      <3>1. Closes(r, b)
        BY <2>1, <2>5 DEF TakeV1
      <3>2. QED BY <1>1, <1>3, <1>5, <2>2, <2>3, <3>1
    <2>6. QED BY <2>4, <2>5
  <1>8. QED BY <1>6, <1>7

LEMMA LabelAsk ==
  ASSUME TypeInv, LabelInv, NEW r \in Requests, NEW b \in Batches, Ask(r, b)
  PROVE  LabelInv'
  <1>1. UNCHANGED <<version, phase, fresh>> /\ phase[r] = "label"
    BY DEF Ask
  <1>2. CASE version # "v1"
    BY <1>1, <1>2 DEF LabelInv, OwnBatch, MissingWasRetried
  <1>3. CASE version = "v1"
    <2>1. OwnBatch'
      BY <1>1, <1>3, AskV1 DEF LabelInv, OwnBatch, Pending, InBatch
    <2>2. ASSUME NEW s \in Requests, phase'[s] = "label", NEW i \in fresh'[s]
          PROVE  LET d == BatchOf(i, fresh'[s])
                 IN  d \in open'[s] \/ i \in Labelled(s)' \/ tries'[s][d] = Attempts
      <3> DEFINE d == BatchOf(i, fresh[s])
      <3> SUFFICES d \in open'[s] \/ i \in Labelled(s)' \/ tries'[s][d] = Attempts
        BY <1>1
      <3>1. d \in Batches
        BY <1>1, <2>2, BatchExists DEF TypeInv, TypeOK
      <3>2. TypeOK'
        BY AskType DEF TypeInv
      <3>3. \A e \in Batches : i \in got'[s][e] => i \in Labelled(s)'
        BY <3>2 DEF TypeOK, Labelled, Range
      <3>4. i \in Labelled(s) => \E e \in Batches : i \in got[s][e]
        BY LabelledItems DEF TypeInv
      <3>5. \A e \in Batches : i \in got[s][e] => i \in got'[s][e]
        BY <1>3, AskV1
      <3>6. d \in open[s] \/ i \in Labelled(s) \/ tries[s][d] = Attempts
        BY <1>1, <1>3, <2>2 DEF LabelInv, MissingWasRetried
      <3> HIDE DEF d
      <3>7. CASE s # r \/ d # b
        BY <1>3, <3>1, <3>3, <3>4, <3>5, <3>6, <3>7, AskV1
      <3>8. CASE s = r /\ d = b
        <4>1. i \in InBatch(r, b)
          BY <1>1, <2>2, <3>8 DEF d, InBatch
        <4>2. i \in got[r][b] \/ i \in Pending(r, b)
          BY <4>1 DEF Pending
        <4>3. QED BY <1>3, <3>3, <3>5, <3>8, <4>2, AskV1
      <3>9. QED BY <3>7, <3>8
    <2>3. MissingWasRetried'
      BY <2>2 DEF MissingWasRetried
    <2>4. QED BY <2>1, <2>3 DEF LabelInv
  <1>4. QED BY <1>2, <1>3

LEMMA LabelLookup ==
  ASSUME TypeInv, LabelInv, NEW r \in Requests, Lookup(r)
  PROVE  LabelInv'
  <1>1. phase[r] = "new" /\ UNCHANGED <<version, tries, got>>
        /\ got[r] = [b \in Batches |-> {}]
    BY DEF Lookup, TypeInv, Unasked
  <1>2. \A s \in Requests : s # r => /\ phase'[s] = phase[s] /\ fresh'[s] = fresh[s]
                                     /\ open'[s] = open[s]
    BY DEF Lookup, Goto, TypeInv, TypeOK
  <1>3. OwnBatch'
    BY <1>1, <1>2 DEF LabelInv, OwnBatch
  <1>4. phase'[r] = "label" => open'[r] = {BatchOf(i, fresh'[r]) : i \in fresh'[r]}
    <2> DEFINE unknown == Limited(Candidates[r] \ DOMAIN Cache)
               Asked(S) == {BatchOf(i, S) : i \in S}
    <2> SUFFICES ASSUME phase'[r] = "label" PROVE open'[r] = Asked(fresh'[r])
      OBVIOUS
    <2>1. Readable
      BY DEF Lookup, Goto, TypeInv, TypeOK
    <2>2. fresh' = [fresh EXCEPT ![r] = unknown] /\ open' = [open EXCEPT ![r] = Asked(unknown)]
      BY <2>1 DEF Lookup
    <2> HIDE DEF unknown, Asked
    <2>3. QED BY <2>2 DEF TypeInv, TypeOK
  <1>5. \A s \in Requests : Labelled(s)' = Labelled(s)
    BY <1>1 DEF Labelled
  <1>6. MissingWasRetried'
    BY <1>1, <1>2, <1>4, <1>5 DEF LabelInv, MissingWasRetried
  <1>7. QED BY <1>3, <1>6 DEF LabelInv

LEMMA LabelStep ==
  ASSUME TypeInv, LabelInv, [Next]_vars
  PROVE  LabelInv'
  <1>1. ASSUME NEW r \in Requests, Validate(r) PROVE LabelInv'
    <2>1. /\ version' = version
          /\ got'[r] = [b \in Batches |-> {}] /\ phase'[r] = "load"
          /\ \A s \in Requests : s # r => /\ phase'[s] = phase[s] /\ fresh'[s] = fresh[s]
                                          /\ tries'[s] = tries[s] /\ got'[s] = got[s]
          /\ open' = open
      BY <1>1 DEF Validate, Goto, TypeInv, TypeOK
    <2>2. \A s \in Requests : s # r => Labelled(s)' = Labelled(s)
      BY <2>1 DEF Labelled
    <2>3. QED BY <2>1, <2>2 DEF LabelInv, OwnBatch, MissingWasRetried
  <1>2. ASSUME UNCHANGED <<version, fresh, open, tries, got>>,
               \A r \in Requests : phase'[r] = "label" => phase[r] = "label"
        PROVE  LabelInv'
    <2>1. \A s \in Requests : Labelled(s)' = Labelled(s)
      BY <1>2 DEF Labelled
    <2>2. QED BY <1>2, <2>1 DEF LabelInv, OwnBatch, MissingWasRetried
  <1>3. ASSUME NEW r \in Requests, Malformed(r) \/ Load(r) \/ Open(r) \/ Write(r)
        PROVE  LabelInv'
    BY <1>2, <1>3 DEF Malformed, Load, Open, Write, Goto, TypeInv, TypeOK
  <1>4. CASE Crash
    BY <1>2, <1>4 DEF Crash, TypeInv, TypeOK
  <1>5. CASE UNCHANGED vars
    BY <1>2, <1>5 DEF vars
  <1>6. QED
    BY <1>1, <1>3, <1>4, <1>5, LabelLookup, LabelAsk DEF Next, Step, Quiescent

LEMMA LabelAlways == Spec => []LabelInv
  <1>1. Init => LabelInv
    BY DEF Init, LabelInv, OwnBatch, MissingWasRetried
  <1>2. TypeInv /\ LabelInv /\ [Next]_vars => LabelInv'
    BY LabelStep
  <1>3. QED BY <1>1, <1>2, TypeAlways, PTL DEF Spec

\* In v1 a candidate that is without a label when its batch stops has been
\* asked for in every attempt, however the answers were cut up and whichever
\* batches answered meanwhile.
THEOREM MissingAreRetried == Spec => []MissingWasRetried
  <1>1. LabelInv => MissingWasRetried
    BY DEF LabelInv
  <1>2. QED BY <1>1, LabelAlways, PTL

-----------------------------------------------------------------------------
(***************************************************************************)
(* Prompts and rules.                                                      *)
(***************************************************************************)
OnlyShown(f) == \A i \in DOMAIN f : f[i][2]

PromptInv ==
  version = "v1" =>
    /\ \A r \in Requests : OnlyShown(good[r]) /\ OnlyShown(content[r])
    /\ file \in Caches => OnlyShown(file)

LEMMA NothingInNoRules == DOMAIN NoRules = {}
  BY DEF NoRules

\* A label of v1 is shown its candidate: of the batches it could come from,
\* there is only its own.
LEMMA ShownV1 ==
  ASSUME TypeInv, LabelInv, version = "v1", NEW r \in Requests, NEW i \in Labelled(r)
  PROVE  Shown(r, i)
  <1> DEFINE own == BatchOf(i, fresh[r])
  <1>1. PICK b \in Batches : i \in got[r][b]
    BY LabelledItems DEF TypeInv
  <1>2. \A d \in Batches : i \in got[r][d] => d = own
    BY DEF LabelInv, OwnBatch
  <1>3. {d \in Batches : i \in got[r][d]} = {own}
    BY <1>1, <1>2
  <1>4. own \in Nat
    BY <1>1, <1>2 DEF Batches
  <1> HIDE DEF own
  <1>5. Max({own}) = own
    BY <1>4 DEF Max
  <1>6. QED BY <1>3, <1>5 DEF Shown, own

LEMMA CacheShown ==
  ASSUME TypeInv, PromptInv, version = "v1", Readable
  PROVE  OnlyShown(Cache)
  BY NothingInNoRules DEF TypeInv, TypeOK, Readable, Cache, PromptInv, OnlyShown

LEMMA PromptStep ==
  ASSUME TypeInv, LabelInv, PromptInv, [Next]_vars
  PROVE  PromptInv'
  <1> SUFFICES ASSUME version' = "v1"
               PROVE  /\ \A r \in Requests : OnlyShown(good'[r]) /\ OnlyShown(content'[r])
                      /\ file' \in Caches => OnlyShown(file')
    BY DEF PromptInv
  <1>1. version = "v1"
    BY DEF Next, Step, Lookup, Ask, Malformed, Validate, Load, Open, Write, Crash, Quiescent,
           vars
  <1>2. CASE UNCHANGED <<good, content, file>>
    BY <1>1, <1>2 DEF PromptInv
  <1>3. ASSUME NEW r \in Requests, Validate(r)
        PROVE  /\ \A s \in Requests : OnlyShown(good'[s]) /\ OnlyShown(content'[s])
               /\ file' \in Caches => OnlyShown(file')
    <2>1. PICK kept \in SUBSET Labelled(r) :
            good' = [good EXCEPT ![r] = [i \in kept |-> <<r, Shown(r, i)>>]]
      BY <1>3 DEF Validate
    <2>2. good'[r] = [i \in kept |-> <<r, Shown(r, i)>>]
          /\ \A s \in Requests : s # r => good'[s] = good[s]
      BY <2>1 DEF TypeInv, TypeOK
    <2>3. OnlyShown(good'[r])
      BY <1>1, <2>2, ShownV1 DEF OnlyShown
    <2>4. content' = content /\ file' = file
      BY <1>3 DEF Validate
    <2>5. QED BY <1>1, <2>2, <2>3, <2>4 DEF PromptInv
  <1>4. ASSUME NEW r \in Requests, Load(r)
        PROVE  /\ \A s \in Requests : OnlyShown(good'[s]) /\ OnlyShown(content'[s])
               /\ file' \in Caches => OnlyShown(file')
    <2>1. good' = good /\ file' = file
      BY <1>4 DEF Load
    <2>2. CASE content' = content
      BY <1>1, <2>1, <2>2 DEF PromptInv
    <2>3. CASE content' # content
      <3>1. Readable /\ content' = [content EXCEPT ![r] = Extended(r)]
        BY <1>4, <2>3 DEF Load
      <3>2. content'[r] = Extended(r) /\ \A s \in Requests : s # r => content'[s] = content[s]
        BY <3>1 DEF TypeInv, TypeOK
      <3>3. OnlyShown(Cache) /\ OnlyShown(good[r])
        BY <1>1, <3>1, CacheShown DEF PromptInv
      <3>4. OnlyShown(Extended(r))
        BY <3>1, <3>3, ExtendedType DEF TypeInv, OnlyShown
      <3>5. QED BY <1>1, <2>1, <3>2, <3>4 DEF PromptInv
    <2>4. QED BY <2>2, <2>3
  <1>5. ASSUME NEW r \in Requests, Open(r) \/ Write(r)
        PROVE  /\ \A s \in Requests : OnlyShown(good'[s]) /\ OnlyShown(content'[s])
               /\ file' \in Caches => OnlyShown(file')
    <2>1. good' = good /\ content' = content /\ file' \in {Empty, Broken, content[r]}
      BY <1>5 DEF Open, Write
    <2>2. Empty \notin Caches /\ Broken \notin Caches
      BY RulesAssumption
    <2>3. QED BY <1>1, <2>1, <2>2 DEF PromptInv
  <1>6. QED
    BY <1>2, <1>3, <1>4, <1>5
    DEF Next, Step, Lookup, Ask, Malformed, Crash, Quiescent, vars

\* In v1 every rule in the file, or about to be in it, answers a prompt that
\* showed its candidate, whatever requests, batches, torn writes and crashes
\* the file was put together by.
THEOREM RulesFromOwnPrompt == Spec => []RulesOfOwnPrompt
  <1>1. Init => PromptInv
    BY NothingInNoRules, RulesAssumption DEF Init, PromptInv, OnlyShown
  <1>2. TypeInv /\ LabelInv /\ PromptInv /\ [Next]_vars => PromptInv'
    BY PromptStep
  <1>3. TypeInv /\ PromptInv => RulesOfOwnPrompt
    <2> SUFFICES ASSUME TypeInv, PromptInv, version = "v1" PROVE OnlyShown(Stored)
      BY DEF RulesOfOwnPrompt, OnlyShown
    <2>1. CASE Readable
      BY <2>1, CacheShown DEF Stored
    <2>2. CASE ~Readable /\ Cardinality(Updating) = 1
      <3>1. IsFiniteSet(Updating)
        BY RulesAssumption, FS_Subset DEF Updating
      <3>2. \E r \in Requests : r \in Updating
        BY <2>2, <3>1, FS_Singleton DEF Updating
      <3>3. PICK s \in Requests : Stored = content[s]
        BY <2>2, <3>2 DEF Stored
      <3>4. QED BY <3>3 DEF PromptInv
    <2>3. CASE ~Readable /\ Cardinality(Updating) # 1
      BY <2>3, NothingInNoRules DEF Stored, OnlyShown
    <2>4. QED BY <2>1, <2>2, <2>3
  <1>4. QED BY <1>1, <1>2, <1>3, TypeAlways, LabelAlways, PTL DEF Spec

-----------------------------------------------------------------------------
(***************************************************************************)
(* The file under one writer at a time.                                    *)
(***************************************************************************)
\* Whose rules are in the cache f.
Kept(f) == \A r \in Requests : phase[r] = "taint" => DOMAIN good[r] \subseteq DOMAIN f

\* Between two updates the file is whole; an update has read what it replaces
\* and nothing has been added since.
FileInv ==
  ~disturbed =>
    /\ \A r, s \in Updating : r = s
    /\ (\A r \in Requests : phase[r] # "write") => Readable /\ Kept(Cache)
    /\ \A r \in Requests :
         /\ phase[r] = "open" =>
              Extends(content[r], Cache) /\ DOMAIN good[r] \subseteq DOMAIN content[r]
         /\ phase[r] = "write" =>
              file = Empty /\ Kept(content[r]) /\ DOMAIN good[r] \subseteq DOMAIN content[r]

LEMMA FileLoad ==
  ASSUME TypeInv, FileInv, NEW r \in Requests, Load(r)
  PROVE  FileInv'
  <1> SUFFICES ASSUME ~disturbed' PROVE FileInv'
    BY DEF FileInv
  <1>1. ~disturbed /\ file' = file /\ good' = good /\ phase[r] = "load"
    BY DEF Load, TypeInv, TypeOK
  <1>2. CASE ~Readable
    <2>1. content' = content /\ phase' = [phase EXCEPT ![r] = "unreadable"]
      BY <1>2 DEF Load, Goto
    <2>2. PICK w \in Requests : phase[w] = "write"
      BY <1>1, <1>2 DEF FileInv
    <2>3. /\ phase'[w] = "write" /\ Updating' = Updating
          /\ \A s \in Requests : phase'[s] \in {"taint", "open", "write"} => phase'[s] = phase[s]
      BY <1>1, <2>1, <2>2 DEF TypeInv, TypeOK, Updating
    <2>4. \A s \in Requests : Kept(content[s]) => Kept(content[s])'
      BY <1>1, <2>1, <2>3 DEF Kept
    <2>5. Cache' = Cache
      BY <1>1 DEF Cache
    <2>6. \A s \in Requests : phase'[s] = "write" => Kept(content[s])'
      BY <1>1, <2>3, <2>4 DEF FileInv
    <2>7. QED BY <1>1, <2>1, <2>3, <2>5, <2>6 DEF FileInv, Kept
  <1>3. CASE Readable
    <2>1. \A s \in Requests : phase[s] # "write"
      BY <1>1, <1>3 DEF FileInv, Readable
    <2>2. Kept(Cache) /\ Cache' = Cache /\ Readable'
      BY <1>1, <1>3, <2>1 DEF FileInv, Cache, Readable
    <2>3. CASE DOMAIN good[r] \subseteq DOMAIN Cache
      <3>1. content' = content /\ phase' = [phase EXCEPT ![r] = "taint"]
        BY <1>3, <2>3 DEF Load, Goto
      <3>2. \A s \in Requests : s # r => phase'[s] = phase[s]
        BY <3>1 DEF TypeInv, TypeOK
      <3>3. phase'[r] = "taint"
        BY <3>1 DEF TypeInv, TypeOK
      <3>4. Updating' = Updating
        BY <1>1, <3>2, <3>3 DEF Updating
      <3>5. Kept(Cache)'
        BY <1>1, <2>2, <2>3, <3>2, <3>3 DEF Kept
      <3>6. QED BY <1>1, <2>1, <2>2, <3>1, <3>2, <3>3, <3>4, <3>5 DEF FileInv
    <2>4. CASE ~(DOMAIN good[r] \subseteq DOMAIN Cache)
      <3>1. /\ content' = [content EXCEPT ![r] = Extended(r)]
            /\ phase' = [phase EXCEPT ![r] = "open"]
            /\ Updating = {}
        BY <1>3, <2>4 DEF Load, Goto
      <3>2. /\ phase'[r] = "open" /\ content'[r] = Extended(r)
            /\ \A s \in Requests : s # r => phase'[s] = phase[s]
        BY <3>1 DEF TypeInv, TypeOK
      <3>3. Updating' = {r}
        BY <3>1, <3>2 DEF Updating
      <3>4. Extends(content'[r], Cache) /\ DOMAIN good[r] \subseteq DOMAIN content'[r]
        BY <1>3, <3>2, ExtendedType DEF TypeInv
      <3>5. Kept(Cache)'
        BY <1>1, <2>2, <3>2 DEF Kept
      <3>6. \A s \in Requests : s # r => phase'[s] \notin {"open", "write"}
        BY <3>3 DEF Updating
      <3>7. QED BY <1>1, <2>2, <3>2, <3>3, <3>4, <3>5, <3>6 DEF FileInv
    <2>5. QED BY <2>3, <2>4
  <1>4. QED BY <1>2, <1>3

LEMMA FileOpen ==
  ASSUME TypeInv, FileInv, NEW r \in Requests, Open(r)
  PROVE  FileInv'
  <1> SUFFICES ASSUME ~disturbed PROVE FileInv'
    BY DEF FileInv, Open
  <1>1. /\ phase[r] = "open" /\ file' = Empty /\ phase' = [phase EXCEPT ![r] = "write"]
        /\ UNCHANGED <<good, content, disturbed>>
    BY DEF Open, Goto
  <1>2. /\ phase'[r] = "write" /\ \A s \in Requests : s # r => phase'[s] = phase[s]
    BY <1>1 DEF TypeInv, TypeOK
  <1>3. Updating = {r}
    BY <1>1 DEF FileInv, Updating
  <1>4. Updating' = {r}
    BY <1>2, <1>3 DEF Updating
  <1>5. \A s \in Requests : s # r => phase'[s] \notin {"open", "write"}
    BY <1>4 DEF Updating
  <1>6. Kept(Cache) /\ Extends(content[r], Cache) /\ DOMAIN good[r] \subseteq DOMAIN content[r]
    BY <1>1, <1>3 DEF FileInv, Updating
  <1>7. Kept(content[r])'
    BY <1>1, <1>2, <1>6 DEF Kept, Extends
  <1>8. QED BY <1>1, <1>2, <1>4, <1>5, <1>6, <1>7 DEF FileInv

LEMMA FileWrite ==
  ASSUME TypeInv, FileInv, NEW r \in Requests, Write(r)
  PROVE  FileInv'
  <1> SUFFICES ASSUME ~disturbed PROVE FileInv'
    BY DEF FileInv, Write
  <1>1. /\ phase[r] = "write" /\ phase' = [phase EXCEPT ![r] = "taint"]
        /\ UNCHANGED <<good, content, disturbed>>
    BY DEF Write, Goto
  <1>2. phase'[r] = "taint" /\ \A s \in Requests : s # r => phase'[s] = phase[s]
    BY <1>1 DEF TypeInv, TypeOK
  <1>3. Updating = {r}
    BY <1>1 DEF FileInv, Updating
  <1>4. Updating' = {}
    BY <1>2, <1>3 DEF Updating
  <1>5. file = Empty /\ Kept(content[r]) /\ DOMAIN good[r] \subseteq DOMAIN content[r]
    BY <1>1 DEF FileInv
  <1>6. content[r] \notin {Absent, Empty, Broken}
    BY RulesAssumption DEF TypeInv, TypeOK
  <1>7. file' = content[r]
    BY <1>5, RulesAssumption DEF Write
  <1>8. Readable' /\ Cache' = content[r]
    BY <1>6, <1>7 DEF Readable, Cache
  <1>9. Kept(Cache)'
    BY <1>1, <1>2, <1>5, <1>8 DEF Kept
  <1>10. \A s \in Requests : phase'[s] \notin {"open", "write"}
    BY <1>4 DEF Updating
  <1>11. QED BY <1>4, <1>8, <1>9, <1>10 DEF FileInv

\* Steps of which neither the file nor an update under way knows.
LEMMA FileFrame ==
  ASSUME FileInv, UNCHANGED <<content, file>>,
         disturbed => disturbed',
         \A r \in Requests : phase'[r] \in {"open", "write", "taint"} =>
                               phase'[r] = phase[r] /\ good'[r] = good[r],
         \A r \in Requests : phase[r] \in {"open", "write"} =>
                               phase'[r] = phase[r] \/ disturbed'
  PROVE  FileInv'
  <1> SUFFICES ASSUME ~disturbed' PROVE FileInv'
    BY DEF FileInv
  <1>1. ~disturbed
    OBVIOUS
  <1>2. \A r \in Requests : phase[r] \in {"open", "write"} <=> phase'[r] \in {"open", "write"}
    OBVIOUS
  <1>3. Updating' = Updating
    BY <1>2 DEF Updating
  <1>4. Cache' = Cache /\ (Readable <=> Readable')
    BY DEF Cache, Readable
  <1>5. Kept(Cache) => Kept(Cache)'
    BY <1>4 DEF Kept
  <1>6. \A r \in Requests : Kept(content[r]) => Kept(content[r])'
    BY DEF Kept
  <1>7. QED BY <1>1, <1>2, <1>3, <1>4, <1>5, <1>6 DEF FileInv

LEMMA FileStep ==
  ASSUME TypeInv, FileInv, [Next]_vars
  PROVE  FileInv'
  <1>1. ASSUME NEW r \in Requests, Lookup(r) \/ (\E b \in Batches : Ask(r, b)) \/ Malformed(r)
                                   \/ Validate(r)
        PROVE  FileInv'
    <2>1. UNCHANGED <<content, file, disturbed>>
      BY <1>1 DEF Lookup, Ask, Malformed, Validate
    <2>2. phase[r] \in {"new", "label"} /\ phase'[r] \notin {"open", "write", "taint"}
      BY <1>1 DEF Lookup, Ask, Malformed, Validate, Goto, TypeInv, TypeOK
    <2>3. \A s \in Requests : s # r => phase'[s] = phase[s] /\ good'[s] = good[s]
      BY <1>1 DEF Lookup, Ask, Malformed, Validate, Goto, TypeInv, TypeOK
    <2>4. QED BY <2>1, <2>2, <2>3, FileFrame DEF TypeInv, TypeOK
  <1>2. CASE Crash
    <2>1. /\ UNCHANGED <<content, file, good>>
          /\ disturbed' = (disturbed \/ Updating # {})
      BY <1>2 DEF Crash
    <2>2. \A s \in Requests :
            phase'[s] = IF phase[s] = "new" \/ phase[s] \in Finished THEN phase[s] ELSE "lost"
      BY <1>2 DEF Crash
    <2>3. \A s \in Requests : phase'[s] \in {"open", "write", "taint"} => phase'[s] = phase[s]
      BY <2>2 DEF Finished
    <2>4. \A s \in Requests : phase[s] \in {"open", "write"} => disturbed'
      BY <2>1 DEF Updating
    <2>5. QED BY <2>1, <2>3, <2>4, FileFrame DEF TypeInv, TypeOK
  <1>3. CASE UNCHANGED vars
    BY <1>3, FileFrame DEF vars, TypeInv, TypeOK
  <1>4. QED
    BY <1>1, <1>2, <1>3, FileLoad, FileOpen, FileWrite DEF Next, Step, Quiescent

LEMMA FileAlways == Spec => []FileInv
  <1>1. Init => FileInv
    BY RulesAssumption DEF Init, FileInv, Updating, Readable, Kept
  <1>2. TypeInv /\ FileInv /\ [Next]_vars => FileInv'
    BY FileStep
  <1>3. QED BY <1>1, <1>2, TypeAlways, PTL DEF Spec

\* While updates neither overlap nor are cut off, no request's rules are lost
\* from the file, and nobody but a writer sees it torn.
THEOREM NoRulesLost == Spec => []NoRuleLost
  <1>1. FileInv => NoRuleLost
    BY DEF FileInv, NoRuleLost, Updating, Kept, Readable
  <1>2. QED BY <1>1, FileAlways, PTL

\* What the file holds, under one writer: the cache between two updates, and
\* what the writer writes while the file is truncated.
LEMMA StoredIs ==
  ASSUME TypeInv, FileInv, ~disturbed
  PROVE  /\ Readable => Stored = Cache
         /\ \A r \in Requests : phase[r] = "write" => ~Readable /\ Stored = content[r]
         /\ ~Readable => \E r \in Requests : phase[r] = "write"
  <1>1. ASSUME NEW r \in Requests, phase[r] = "write"
        PROVE  ~Readable /\ Stored = content[r]
    <2>1. Updating = {r}
      BY <1>1 DEF FileInv, Updating
    <2>2. ~Readable
      BY <1>1 DEF FileInv, Readable
    <2>3. Cardinality(Updating) = 1
      BY <2>1, FS_Singleton
    <2>4. (CHOOSE s \in Requests : s \in Updating) = r
      BY <2>1
    <2>5. QED BY <2>2, <2>3, <2>4 DEF Stored
  <1>2. ~Readable => \E r \in Requests : phase[r] = "write"
    BY DEF FileInv
  <1>3. QED BY <1>1, <1>2 DEF Stored

\* The first label of a name stays: under one writer at a time no step of any
\* request changes or removes what the file holds or is about to hold.
THEOREM FirstLabelsStay == Spec => FirstLabelStays
  <1> DEFINE Stays == ~disturbed' => Extends(Stored', Stored)
  <1>1. TypeInv /\ FileInv /\ TypeInv' /\ FileInv' /\ [Next]_vars => [Stays]_vars
    <2> SUFFICES ASSUME TypeInv, FileInv, TypeInv', FileInv', Next, ~disturbed'
                 PROVE  Extends(Stored', Stored)
      OBVIOUS
    <2>1. ~disturbed
      BY DEF Next, Step, Lookup, Ask, Malformed, Validate, Load, Open, Write, Crash, Quiescent,
             vars
    <2>2. /\ Readable' => Stored' = Cache'
          /\ \A r \in Requests : phase'[r] = "write" => ~Readable' /\ Stored' = content'[r]
          /\ ~Readable' => \E r \in Requests : phase'[r] = "write"
      <3>1. (TypeInv /\ FileInv /\ ~disturbed =>
               /\ Readable => Stored = Cache
               /\ \A r \in Requests : phase[r] = "write" => ~Readable /\ Stored = content[r]
               /\ ~Readable => \E r \in Requests : phase[r] = "write")'
        BY StoredIs, PTL
      <3>2. QED BY <3>1
    <2>3. /\ Readable => Stored = Cache
          /\ \A r \in Requests : phase[r] = "write" => ~Readable /\ Stored = content[r]
          /\ ~Readable => \E r \in Requests : phase[r] = "write"
      BY <2>1, StoredIs
    <2>4. \A f : Extends(f, f)
      BY DEF Extends
    <2>5. ASSUME file' = file,
                 \A r \in Requests :
                   phase[r] = "write" => phase'[r] = "write" /\ content'[r] = content[r]
          PROVE  Extends(Stored', Stored)
      <3>1. Cache' = Cache /\ (Readable' <=> Readable)
        BY <2>5 DEF Cache, Readable
      <3>2. CASE Readable
        BY <2>2, <2>3, <2>4, <3>1, <3>2
      <3>3. CASE ~Readable
        <4>1. PICK w \in Requests : phase[w] = "write"
          BY <2>3, <3>3
        <4>2. Stored = content[w] /\ Stored' = content'[w] /\ content'[w] = content[w]
          BY <2>2, <2>3, <2>5, <4>1
        <4>3. QED BY <2>4, <4>2
      <3>4. QED BY <3>2, <3>3
    <2>6. ASSUME NEW r \in Requests, Lookup(r) \/ (\E b \in Batches : Ask(r, b)) \/ Malformed(r)
                                     \/ Validate(r) \/ Load(r)
          PROVE  Extends(Stored', Stored)
      <3>1. file' = file /\ phase[r] # "write"
        BY <2>6 DEF Lookup, Ask, Malformed, Validate, Load
      <3>2. \A s \in Requests : s # r => phase'[s] = phase[s] /\ content'[s] = content[s]
        BY <2>6 DEF Lookup, Ask, Malformed, Validate, Load, Goto, TypeInv, TypeOK
      <3>3. QED BY <2>5, <3>1, <3>2
    <2>7. ASSUME NEW r \in Requests, Open(r) PROVE Extends(Stored', Stored)
      <3>1. phase[r] = "open" /\ phase'[r] = "write" /\ content' = content
        BY <2>7 DEF Open, Goto, TypeInv, TypeOK
      <3>2. Readable /\ Extends(content[r], Cache)
        BY <2>1, <3>1 DEF FileInv, Updating
      <3>3. QED BY <2>2, <2>3, <3>1, <3>2
    <2>8. ASSUME NEW r \in Requests, Write(r) PROVE Extends(Stored', Stored)
      <3>1. phase[r] = "write" /\ file = Empty
        BY <2>1, <2>8 DEF Write, FileInv
      <3>2. file' = content[r] /\ content[r] \notin {Absent, Empty, Broken}
        BY <2>8, <3>1, RulesAssumption DEF Write, TypeInv, TypeOK
      <3>3. Readable' /\ Cache' = content[r]
        BY <3>2 DEF Readable, Cache
      <3>4. QED BY <2>2, <2>3, <2>4, <3>1, <3>3
    <2>9. CASE Crash
      <3>1. \A r \in Requests : phase[r] # "write"
        BY <2>9 DEF Crash, Updating
      <3>2. QED BY <2>5, <2>9, <3>1 DEF Crash
    <2>10. CASE UNCHANGED vars
      BY <2>5, <2>10 DEF vars
    <2>11. QED
      BY <2>6, <2>7, <2>8, <2>9, <2>10 DEF Next, Step, Quiescent
  <1>2. QED
    <2> HIDE DEF Stays
    <2>1. Spec => [][Stays]_vars
      BY <1>1, TypeAlways, FileAlways, PTL DEF Spec
    <2>2. QED BY <2>1 DEF Stays, FirstLabelStays

-----------------------------------------------------------------------------
(***************************************************************************)
(* The cache as a ledger of labels: an item has none until a rule for it   *)
(* is stored, and then has that one.  It is the promise a batch of cases   *)
(* makes its caller, and one abstract specification states both.           *)
(***************************************************************************)
LabelOf == [i \in Items |-> IF i \in DOMAIN Stored THEN Stored[i] ELSE <<>>]

Labels == INSTANCE CaseLedger WITH
  Cases      <- Items,
  Answers    <- Rules,
  Unanswered <- <<>>,
  ledger     <- LabelOf

LEMMA StoredType ==
  ASSUME TypeInv, FileInv, ~disturbed
  PROVE  Stored \in Caches
  <1>1. CASE Readable
    BY <1>1, StoredIs, CacheType DEF TypeInv
  <1>2. CASE ~Readable
    <2>1. PICK w \in Requests : phase[w] = "write"
      BY <1>2, StoredIs
    <2>2. Stored = content[w]
      BY <2>1, StoredIs
    <2>3. QED BY <2>2 DEF TypeInv, TypeOK
  <1>3. QED BY <1>1, <1>2

\* As long as updates neither overlap nor are cut off, all requests, batches
\* and rewritings of the file together do what CaseLedger says: an item is
\* labelled at most once, and its label stays.
THEOREM CacheIsLedger == Spec /\ []~disturbed => Labels!Spec
  <1>1. Init => Labels!Init
    <2> SUFFICES ASSUME Init PROVE Labels!Init
      OBVIOUS
    <2>1. Readable /\ Cache = NoRules
      BY RulesAssumption DEF Init, Readable, Cache
    <2>2. DOMAIN Stored = {}
      BY <2>1, NothingInNoRules DEF Stored
    <2>3. QED BY <2>2 DEF Labels!Init, LabelOf
  <1>2. TypeInv' /\ FileInv' /\ ~disturbed' /\ Extends(Stored', Stored) => Labels!Answer
    <2> SUFFICES ASSUME TypeInv', FileInv', ~disturbed', Extends(Stored', Stored)
                 PROVE  Labels!Answer
      OBVIOUS
    <2>1. Stored' \in Caches
      <3>1. (TypeInv /\ FileInv /\ ~disturbed => Stored \in Caches)'
        BY StoredType, PTL
      <3>2. Caches' = Caches
        BY DEF Caches, Items, Rules
      <3>3. QED BY <3>1, <3>2
    <2>2. LabelOf' \in [Items -> Rules \cup {<<>>}]
      BY <2>1, InCaches DEF LabelOf
    <2>3. \A i \in Items : LabelOf[i] # <<>> => LabelOf'[i] = LabelOf[i]
      BY DEF LabelOf, Extends
    <2>4. QED BY <2>2, <2>3 DEF Labels!Answer
  <1>3. UNCHANGED vars => UNCHANGED LabelOf
    BY DEF vars, LabelOf, Stored, Readable, Cache, Updating
  <1>4. TypeInv' /\ FileInv' /\ ~disturbed' /\ [~disturbed' => Extends(Stored', Stored)]_vars
        => [Labels!Answer]_LabelOf
    BY <1>2, <1>3
  <1>5. Spec => [][~disturbed' => Extends(Stored', Stored)]_vars
    BY FirstLabelsStay DEF FirstLabelStays
  <1>6. QED
    BY <1>1, <1>4, <1>5, TypeAlways, FileAlways, PTL DEF Spec, Labels!Spec

-----------------------------------------------------------------------------
(***************************************************************************)
(* How a request comes past its rules: through its phases, and while it    *)
(* labels, by calls of which each batch has three.                         *)
(***************************************************************************)
Place(p) ==
  CASE p = "new"      -> 0
    [] p = "label"    -> 1
    [] p = "load"     -> 2
    [] p = "open"     -> 3
    [] p = "write"    -> 4
    [] p \in Finished -> 5

Stands(r) == phase'[r] = phase[r] /\ open'[r] = open[r] /\ tries'[r] = tries[r]

\* One more call of an open batch, which stays open only when it has another;
\* the other batches stay as they are.
OneCallMore(r) ==
  \E b \in open[r] :
    /\ phase[r] = "label" /\ phase'[r] = "label"
    /\ tries'[r] = [tries[r] EXCEPT ![b] = @ + 1] /\ tries'[r][b] <= Attempts
    /\ \/ open'[r] = open[r] \ {b}
       \/ open'[r] = open[r] /\ tries'[r][b] < Attempts

RulesNearer ==
  \A r \in Requests : Stands(r) \/ OneCallMore(r) \/ Place(phase'[r]) > Place(phase[r])

LEMMA AskNearer ==
  ASSUME TypeInv, NEW r \in Requests, NEW b \in Batches, Ask(r, b)
  PROVE  OneCallMore(r) /\ \A s \in Requests : s # r => Stands(s)
  <1>1. phase[r] = "label" /\ b \in open[r] /\ phase' = phase
    BY DEF Ask
  <1>2. /\ tries \in [Requests -> [Batches -> 0 .. Attempts]]
        /\ open \in [Requests -> SUBSET Batches]
    BY DEF TypeInv, TypeOK
  <1>3. tries[r][b] \in 0 .. Attempts - 1
    BY <1>1, <1>2 DEF TypeInv, AttemptsLeft, Attempts
  <1>4. tries' = [tries EXCEPT ![r][b] = @ + 1]
    BY DEF Ask, NoAnswer, Take, TakeV1, TakeV2
  <1>5. tries'[r] = [tries[r] EXCEPT ![b] = @ + 1] /\ tries'[r][b] <= Attempts
    BY <1>2, <1>3, <1>4 DEF Attempts
  <1>6. \/ open' = [open EXCEPT ![r] = @ \ {b}]
        \/ tries'[r][b] < Attempts /\ open' = [open EXCEPT ![r] = @]
    <2>1. CASE open' = [open EXCEPT ![r] = @ \ {b}]
      BY <2>1
    <2>2. CASE Closes(r, b)
      BY <2>2 DEF Closes
    <2>3. QED BY <2>1, <2>2 DEF Ask, NoAnswer, Take, TakeV1, TakeV2
  <1>7. OneCallMore(r)
    BY <1>1, <1>2, <1>5, <1>6 DEF OneCallMore
  <1>8. \A s \in Requests : s # r => Stands(s)
    BY <1>1, <1>2, <1>4, <1>6 DEF Stands
  <1>9. QED BY <1>7, <1>8

\* Every step of a request takes it on: no answer of the model, missing,
\* partial or unreadable, starts a batch again, no batch is asked more often
\* than it has attempts, and neither another request nor a restart sends a
\* request back.  The safety half of RulesEnd.
THEOREM RulesAdvance == Spec => [][RulesNearer]_vars
  <1>1. ASSUME TypeInv, Next PROVE [RulesNearer]_vars
    <2> USE <1>1
    <2>1. /\ phase \in [Requests -> Phases] /\ open \in [Requests -> SUBSET Batches]
          /\ tries \in [Requests -> [Batches -> 0 .. Attempts]]
      BY DEF TypeInv, TypeOK
    <2>2. ASSUME NEW r \in Requests, NEW b \in Batches, Ask(r, b) PROVE RulesNearer
      BY <2>2, AskNearer DEF RulesNearer
    <2>3. ASSUME NEW r \in Requests,
                 Lookup(r) \/ Malformed(r) \/ Validate(r) \/ Load(r) \/ Open(r) \/ Write(r)
          PROVE  RulesNearer
      <3>1. \A s \in Requests : s # r => Stands(s)
        BY <2>1, <2>3 DEF Lookup, Malformed, Validate, Load, Open, Write, Goto, Stands
      <3>2. \/ phase[r] = "new" /\ phase'[r] \in {"label", "unreadable"}
            \/ phase[r] = "label" /\ phase'[r] \in {"load", "malformed"}
            \/ phase[r] = "load" /\ phase'[r] \in {"open", "taint", "unreadable"}
            \/ phase[r] = "open" /\ phase'[r] = "write"
            \/ phase[r] = "write" /\ phase'[r] = "taint"
        BY <2>1, <2>3 DEF Lookup, Malformed, Validate, Load, Open, Write, Goto
      <3>3. Place(phase'[r]) > Place(phase[r])
        BY <3>2 DEF Place, Finished
      <3>4. QED BY <3>1, <3>3 DEF RulesNearer
    <2>4. CASE Crash
      <3> SUFFICES ASSUME NEW r \in Requests, phase'[r] # phase[r]
                   PROVE  Place(phase'[r]) > Place(phase[r])
        BY <2>4 DEF Crash, RulesNearer, Stands
      <3>1. phase[r] \in {"label", "load", "open", "write"} /\ phase'[r] = "lost"
        BY <2>1, <2>4 DEF Crash, Phases
      <3>2. QED BY <3>1 DEF Place, Finished
    <2>5. QED
      BY <2>2, <2>3, <2>4 DEF Next, Step, Quiescent
  <1>2. TypeInv /\ [Next]_vars => [RulesNearer]_vars
    BY <1>1
  <1>3. QED BY <1>2, TypeAlways, PTL DEF Spec
=============================================================================
