-------------------------- MODULE ResourceContext_proofs --------------------------
(***************************************************************************)
(* Proofs about ResourceContext, for programs of any size, any limits and  *)
(* any number of candidates.                                               *)
(***************************************************************************)
EXTENDS ResourceContext, Integers, FiniteSetTheorems, TLAPS

\* A program is read from files; what the parser says of a call is methods of
\* that program.
ContextAssumption ==
  /\ IsFiniteSet(Methods)
  /\ CallSets \subseteq SUBSET SUBSET Methods
  /\ Constructors \subseteq SUBSET Methods
  /\ Roots \subseteq Seq(Methods)

\* Repositories one after the other, as the callers of review give them.
ContextNext == ContextBegin \/ ContextStep \/ ContextReset

ContextSpec == ContextIdle /\ [][ContextNext]_contextVars

-----------------------------------------------------------------------------
(* Where the walk is.                                                       *)

CandidateInv ==
  /\ ContextType
  /\ current \in Nat \ {0}
  /\ collecting = "off" => contexts = <<>>
  /\ collecting \in {"collect", "review"} =>
       program \in Programs /\ current \in DOMAIN roots
  /\ collecting = "collect" => Len(contexts) = current - 1
  /\ collecting = "review" => Len(contexts) = Len(roots)

\* The calls of m are resolved, and into the context.
Closed(m, context) ==
  \A s \in program.matches[m] : Cardinality(s) <= 1 /\ s \subseteq context

\* What is no longer on the list is closed, unless unresolved tells.
WalkInv ==
  collecting = "collect" =>
    /\ Start(program, roots[current]) \subseteq selected
    /\ ~unresolved => \A m \in selected \ todo : Closed(m, selected)

ContextInv == CandidateInv /\ WalkInv /\ ContextClosed

-----------------------------------------------------------------------------
LEMMA BeginKeeps ==
  ASSUME ContextAssumption, ContextInv, ContextBegin
  PROVE  ContextInv'
  <1>1. /\ roots' \in Roots /\ parsed' \in BOOLEAN /\ current' = 1 /\ todo' = selected'
        /\ unresolved' = FALSE /\ contexts' = <<>> /\ reviewed' = {}
        /\ whole' = parsed' /\ accepted' = FALSE
        /\ collecting' = IF roots' = <<>> THEN "done" ELSE "collect"
        /\ selected' = IF roots' = <<>> THEN {} ELSE Start(program', roots'[1])
    BY DEF ContextBegin
  <1>2. PICK matches \in [Methods -> CallSets], constructors \in Constructors :
          program' = [matches |-> matches, constructors |-> constructors]
    BY DEF ContextBegin
  <1>3. program' \in Programs /\ program'.constructors \subseteq Methods
    BY <1>2 DEF Programs, ContextAssumption
  <1>4. roots' # <<>> => 1 \in DOMAIN roots' /\ roots'[1] \in Methods
    <2>1. roots' \in Seq(Methods)
      BY <1>1 DEF ContextAssumption
    <2>2. QED BY <2>1
  <1>5. selected' \subseteq Methods
    BY <1>1, <1>3, <1>4 DEF Start
  <1>6. ContextType'
    <2>1. <<>> \in Seq(SUBSET Methods)
      OBVIOUS
    <2>2. QED BY <1>1, <1>3, <1>5, <2>1 DEF ContextType
  <1>7. CandidateInv'
    <2>1. Len(<<>>) = 1 - 1
      OBVIOUS
    <2>2. QED BY <1>1, <1>3, <1>4, <1>6, <2>1 DEF CandidateInv
  <1>8. WalkInv'
    BY <1>1 DEF WalkInv
  <1>9. ContextClosed'
    BY <1>1 DEF ContextClosed
  <1>10. QED BY <1>7, <1>8, <1>9 DEF ContextInv

LEMMA NothingCollected ==
  ASSUME contexts = <<>>, collecting = "off", ContextType, current = 1
  PROVE  ContextInv
  BY DEF ContextInv, CandidateInv, WalkInv, ContextClosed

LEMMA IdleKeeps == ContextIdle => ContextInv
  <1>1. <<>> \in Seq(SUBSET Methods)
    OBVIOUS
  <1>2. ContextIdle => ContextType
    BY <1>1 DEF ContextIdle, ContextType
  <1>3. QED BY <1>2, NothingCollected DEF ContextIdle

LEMMA ResetKeeps == ContextReset => ContextInv'
  <1>1. ContextReset => ContextIdle'
    BY DEF ContextReset, ContextIdle
  <1>2. ContextIdle' => ContextInv'
    BY IdleKeeps, PTL
  <1>3. QED BY <1>1, <1>2

-----------------------------------------------------------------------------
(***************************************************************************)
(* A method whose calls are resolved: unless unresolved is set, what they  *)
(* match is one method at most, and in the context.                        *)
(***************************************************************************)
LEMMA MatchesFinite ==
  ASSUME ContextAssumption, program \in Programs, NEW m \in Methods,
         NEW s \in program.matches[m]
  PROVE  s \subseteq Methods /\ IsFiniteSet(s) /\ Cardinality(s) \in Nat
  <1>1. program.matches[m] \in CallSets
    BY DEF Programs
  <1>2. s \subseteq Methods
    BY <1>1 DEF ContextAssumption
  <1>3. QED BY <1>2, FS_Subset, FS_CardinalityType DEF ContextAssumption

LEMMA ResolveCloses ==
  ASSUME ContextAssumption, program \in Programs, NEW m \in Methods,
         Resolve(m), ~unresolved'
  PROVE  Closed(m, selected') /\ ~unresolved
  <1> DEFINE new  == Callees(m) \ selected
             fits == Cardinality(selected) + Cardinality(new) <= MethodLimit
  <1>1. /\ selected' = IF fits THEN selected \cup new ELSE selected
        /\ unresolved' = (\/ unresolved
                          \/ new # {} /\ ~fits
                          \/ \E s \in program.matches[m] : Cardinality(s) > 1)
    BY DEF Resolve
  <1>2. ~unresolved /\ (fits \/ new = {}) /\ ~ \E s \in program.matches[m] : Cardinality(s) > 1
    <2> HIDE DEF fits, new
    <2> QED BY <1>1
  <1>3. Callees(m) \subseteq selected'
    <2> HIDE DEF fits
    <2> QED BY <1>1, <1>2
  <1>4. ASSUME NEW s \in program.matches[m]
        PROVE  Cardinality(s) <= 1 /\ s \subseteq selected'
    <2>1. Cardinality(s) \in Nat /\ ~(Cardinality(s) > 1) /\ IsFiniteSet(s)
      BY <1>2, MatchesFinite
    <2>2. CASE Cardinality(s) = 1
      <3>1. s \subseteq Callees(m)
        BY <2>2 DEF Callees
      <3>2. QED BY <1>3, <2>2, <3>1
    <2>3. CASE Cardinality(s) = 0
      BY <2>1, <2>3, FS_EmptySet
    <2>4. QED BY <2>1, <2>2, <2>3
  <1>5. QED BY <1>2, <1>4 DEF Closed

LEMMA WalkKeeps ==
  ASSUME ContextAssumption, ContextInv, Walk
  PROVE  ContextInv'
  <1>1. PICK m \in todo : Resolve(m)
    BY DEF Walk
  <1>2. /\ collecting = "collect"
        /\ UNCHANGED <<collecting, program, roots, parsed, current, contexts, reviewed, whole,
                       accepted>>
    BY DEF Walk
  <1>3. ContextType /\ program \in Programs /\ m \in Methods
    BY <1>2 DEF ContextInv, CandidateInv, ContextType
  <1>4. \A x \in Methods : \A s \in program.matches[x] : s \subseteq Methods
    BY <1>3, MatchesFinite
  <1>5. Callees(m) \subseteq Methods
    BY <1>3, <1>4 DEF Callees
  <1>6. /\ selected \subseteq selected' /\ selected' \subseteq Methods
        /\ todo' \subseteq selected' /\ unresolved' \in BOOLEAN
        /\ selected' \ todo' \subseteq (selected \ todo) \cup {m}
    <2> DEFINE fits == Cardinality(selected) + Cardinality(Callees(m) \ selected) <= MethodLimit
    <2>1. /\ selected' = IF fits THEN selected \cup (Callees(m) \ selected) ELSE selected
          /\ todo' = (todo \ {m}) \cup (IF fits THEN Callees(m) \ selected ELSE {})
          /\ unresolved' \in BOOLEAN
      BY <1>1 DEF Resolve
    <2> HIDE DEF fits
    <2>2. selected \subseteq Methods /\ todo \subseteq selected
      BY <1>3 DEF ContextType
    <2>3. QED BY <1>1, <1>5, <2>1, <2>2
  <1>7. CandidateInv'
    <2>1. ContextType'
      BY <1>2, <1>3, <1>6 DEF ContextType
    <2>2. QED BY <1>2, <2>1 DEF ContextInv, CandidateInv
  <1>8. ASSUME ~unresolved', NEW x \in selected' \ todo' PROVE Closed(x, selected')
    <2>1. Closed(m, selected') /\ ~unresolved
      BY <1>1, <1>3, <1>8, ResolveCloses
    <2>2. CASE x = m
      BY <2>1, <2>2
    <2>3. CASE x \in selected \ todo
      <3>1. Closed(x, selected)
        BY <1>2, <2>1, <2>3 DEF ContextInv, WalkInv
      <3>2. QED BY <1>6, <3>1 DEF Closed
    <2>4. QED BY <1>6, <1>8, <2>2, <2>3
  <1>9. WalkInv'
    <2>1. (\A x : Closed(x, selected') => Closed(x, selected)')
      BY <1>2 DEF Closed
    <2>2. Start(program, roots[current]) \subseteq selected
      BY <1>2 DEF ContextInv, WalkInv
    <2>3. (Start(program, roots[current]) \subseteq selected)'
      BY <1>2, <1>6, <2>2 DEF Start
    <2>4. ~unresolved' => \A x \in selected' \ todo' : Closed(x, selected)'
      BY <1>8, <2>1
    <2>5. QED BY <2>3, <2>4 DEF WalkInv
  <1>10. ContextClosed'
    BY <1>2 DEF ContextInv, ContextClosed, Start
  <1>11. QED BY <1>7, <1>9, <1>10 DEF ContextInv

(***************************************************************************)
(* The end of the walk: nothing is on the list, so that all of a context   *)
(* that is not Incomplete is closed.                                       *)
(***************************************************************************)
LEMMA CollectedKeeps ==
  ASSUME ContextAssumption, ContextInv, Collected
  PROVE  ContextInv'
  <1> DEFINE context == IF ~unresolved /\ Cardinality(selected) <= SizeLimit
                          THEN selected ELSE Incomplete
  <1>1. /\ collecting = "collect" /\ todo = {}
        /\ contexts' = Append(contexts, context) /\ unresolved' = FALSE
        /\ UNCHANGED <<program, roots, parsed, reviewed, whole, accepted>>
    BY DEF Collected
  <1>2. IF current < Len(roots)
          THEN /\ current' = current + 1
               /\ selected' = Start(program, roots[current + 1])
               /\ todo' = selected' /\ collecting' = collecting
          ELSE /\ collecting' = "review" /\ current' = 1
               /\ selected' = {} /\ todo' = {}
    BY DEF Collected
  <1>3. /\ ContextType /\ program \in Programs /\ current \in DOMAIN roots
        /\ Len(contexts) = current - 1 /\ current \in Nat \ {0}
        /\ Start(program, roots[current]) \subseteq selected
        /\ ~unresolved => \A m \in selected : Closed(m, selected)
    BY <1>1 DEF ContextInv, CandidateInv, WalkInv
  <1>4. roots \in Seq(Methods) /\ contexts \in Seq(SUBSET Methods) /\ selected \subseteq Methods
    BY <1>3 DEF ContextType, ContextAssumption
  <1>5. context \in SUBSET Methods /\ (context # Incomplete => context = selected /\ ~unresolved)
    BY <1>4 DEF Incomplete
  <1> HIDE DEF context
  <1>6. /\ contexts' \in Seq(SUBSET Methods) /\ DOMAIN contexts \subseteq DOMAIN contexts'
        /\ Len(contexts') = current
        /\ DOMAIN contexts' = DOMAIN contexts \cup {current}
        /\ contexts'[current] = context
        /\ \A k \in DOMAIN contexts : contexts'[k] = contexts[k]
    BY <1>1, <1>3, <1>4, <1>5
  <1>7. ASSUME current < Len(roots) PROVE CandidateInv' /\ WalkInv'
    <2>1. current + 1 \in DOMAIN roots /\ roots[current + 1] \in Methods
      BY <1>3, <1>4, <1>7
    <2>2. program.constructors \subseteq Methods
      BY <1>3 DEF Programs, ContextAssumption
    <2>3. selected' \subseteq Methods /\ todo' = selected' /\ collecting' = "collect"
      BY <1>1, <1>2, <1>7, <2>1, <2>2 DEF Start
    <2>4. ContextType'
      BY <1>1, <1>3, <1>6, <2>3 DEF ContextType
    <2>5. /\ current' \in Nat \ {0} /\ current' \in DOMAIN roots'
          /\ Len(contexts') = current' - 1 /\ program' \in Programs
      BY <1>1, <1>2, <1>3, <1>6, <1>7, <2>1
    <2>6. CandidateInv'
      BY <2>3, <2>4, <2>5 DEF CandidateInv
    <2>7. WalkInv'
      <3>1. selected' = Start(program, roots[current])'
        BY <1>1, <1>2, <1>7 DEF Start
      <3>2. QED BY <2>3, <3>1 DEF WalkInv
    <2>8. QED BY <2>6, <2>7
  <1>8. ASSUME ~(current < Len(roots)) PROVE CandidateInv' /\ WalkInv'
    <2>1. ContextType'
      BY <1>1, <1>2, <1>3, <1>6, <1>8 DEF ContextType
    <2>2. Len(contexts') = Len(roots') /\ 1 \in DOMAIN roots'
      BY <1>1, <1>3, <1>4, <1>6, <1>8
    <2>3. CandidateInv'
      BY <1>1, <1>2, <1>3, <1>8, <2>1, <2>2 DEF CandidateInv
    <2>4. WalkInv'
      BY <1>2, <1>8 DEF WalkInv
    <2>5. QED BY <2>3, <2>4
  <1>9. ContextClosed'
    <2>1. ASSUME NEW k \in DOMAIN contexts', contexts'[k] # Incomplete
          PROVE  /\ Start(program, roots[k]) \subseteq contexts'[k]
                 /\ \A m \in contexts'[k] : \A s \in program.matches[m] :
                      Cardinality(s) <= 1 /\ s \subseteq contexts'[k]
      <3>1. CASE k \in DOMAIN contexts
        <4>1. contexts'[k] = contexts[k] /\ contexts[k] # Incomplete
          BY <1>6, <2>1, <3>1
        <4>2. QED BY <3>1, <4>1 DEF ContextInv, ContextClosed
      <3>2. CASE k = current
        <4>1. contexts'[k] = selected /\ ~unresolved
          BY <1>5, <1>6, <2>1, <3>2
        <4>2. QED BY <1>1, <1>3, <3>2, <4>1 DEF Closed
      <3>3. QED BY <1>6, <3>1, <3>2
    <2>2. QED BY <1>1, <2>1 DEF ContextClosed, Start
  <1>10. QED BY <1>7, <1>8, <1>9 DEF ContextInv

LEMMA ReviewKeeps ==
  ASSUME ContextInv, Skip \/ CandidateFails \/ CandidateReviewed
  PROVE  ContextInv'
  <1>1. /\ collecting = "review"
        /\ UNCHANGED <<program, roots, parsed, selected, todo, unresolved, contexts>>
        /\ IF current < Len(roots)
             THEN current' = current + 1 /\ UNCHANGED collecting
             ELSE collecting' = "done" /\ UNCHANGED current
        /\ reviewed' = reviewed \cup {current} \/ reviewed' = reviewed
    BY DEF Skip, CandidateFails, CandidateReviewed, NextCandidate
  <1>2. /\ ContextType /\ program \in Programs /\ current \in DOMAIN roots
        /\ Len(contexts) = Len(roots) /\ current \in Nat \ {0}
    BY <1>1 DEF ContextInv, CandidateInv
  <1>3. whole' \in BOOLEAN /\ accepted' \in BOOLEAN
    BY <1>2 DEF ContextType, Skip, CandidateFails, CandidateReviewed
  <1>4. DOMAIN contexts = DOMAIN roots
    BY <1>2 DEF ContextType, ContextInv
  <1>5. collecting' \in {"review", "done"}
    BY <1>1
  <1>6. ContextType'
    BY <1>1, <1>2, <1>3, <1>4, <1>5 DEF ContextType
  <1>7. current' \in Nat \ {0} /\ (collecting' = "review" => current' \in DOMAIN roots)
    BY <1>1, <1>2
  <1>8. CandidateInv'
    BY <1>1, <1>2, <1>5, <1>6, <1>7 DEF CandidateInv
  <1>9. WalkInv'
    BY <1>5 DEF WalkInv
  <1>10. ContextClosed'
    BY <1>1 DEF ContextInv, ContextClosed, Start
  <1>11. QED BY <1>8, <1>9, <1>10 DEF ContextInv

-----------------------------------------------------------------------------
LEMMA ContextInvAlways ==
  ASSUME ContextAssumption
  PROVE  ContextSpec => []ContextInv
  <1>1. ContextInv /\ [ContextNext]_contextVars => ContextInv'
    <2> SUFFICES ASSUME ContextInv, [ContextNext]_contextVars PROVE ContextInv'
      OBVIOUS
    <2>1. CASE ContextBegin
      BY <2>1, BeginKeeps
    <2>2. CASE ContextStep
      BY <2>2, WalkKeeps, CollectedKeeps, ReviewKeeps DEF ContextStep
    <2>3. CASE ContextReset
      BY <2>3, ResetKeeps
    <2>4. CASE UNCHANGED contextVars
      BY <2>4 DEF contextVars, ContextInv, CandidateInv, ContextType, WalkInv, Closed,
                  ContextClosed, Start
    <2>5. QED BY <2>1, <2>2, <2>3, <2>4 DEF ContextNext
  <1>2. QED BY <1>1, IdleKeeps, PTL DEF ContextSpec

(***************************************************************************)
(* The types of the resource review: a candidate is reviewed only after    *)
(* its context was collected.                                              *)
(***************************************************************************)
THEOREM TypeCorrect ==
  ASSUME ContextAssumption
  PROVE  ContextSpec => []ContextType
  <1>1. ContextInv => ContextType
    BY DEF ContextInv, CandidateInv
  <1>2. QED BY <1>1, ContextInvAlways, PTL

(***************************************************************************)
(* A context that is reviewed holds all that its methods call, and no call *)
(* in it is ambiguous, with whatever limits on methods and size.           *)
(***************************************************************************)
THEOREM ContextsAreClosed ==
  ASSUME ContextAssumption
  PROVE  ContextSpec => []ContextClosed
  <1>1. ContextInv => ContextClosed
    BY DEF ContextInv
  <1>2. QED BY <1>1, ContextInvAlways, PTL

-----------------------------------------------------------------------------
(***************************************************************************)
(* A review that stays whole has left no candidate out: the ones before    *)
(* the current one are those reviewed.                                     *)
(***************************************************************************)
SoFar ==
  whole =>
    /\ parsed
    /\ collecting = "collect" => reviewed = {}
    /\ collecting = "review" => reviewed = 1 .. current - 1
    /\ collecting = "done" => reviewed = DOMAIN roots

\* What the caller takes a "DONE" for.
WholeIsAll ==
  collecting = "done" /\ whole => parsed /\ reviewed = DOMAIN roots

LEMMA SoFarStep ==
  ASSUME ContextAssumption, ContextInv, SoFar, ContextStep
  PROVE  SoFar'
  <1>1. CASE Walk
    BY <1>1 DEF Walk, SoFar
  <1>2. CASE Collected
    <2>1. whole' = whole /\ parsed' = parsed /\ reviewed' = reviewed /\ collecting = "collect"
      BY <1>2 DEF Collected
    <2>2. \/ collecting' = "collect"
          \/ collecting' = "review" /\ current' = 1
      BY <1>2 DEF Collected
    <2>3. 1 .. 1 - 1 = {}
      OBVIOUS
    <2>4. QED BY <2>1, <2>2, <2>3 DEF SoFar
  <1>3. CASE Skip \/ CandidateFails
    BY <1>3 DEF Skip, CandidateFails, SoFar
  <1>4. CASE CandidateReviewed
    <2>1. /\ whole' = whole /\ parsed' = parsed /\ roots' = roots /\ collecting = "review"
          /\ reviewed' = reviewed \cup {current}
          /\ IF current < Len(roots)
               THEN current' = current + 1 /\ collecting' = collecting
               ELSE collecting' = "done" /\ current' = current
      BY <1>4 DEF CandidateReviewed, NextCandidate
    <2>2. current \in Nat \ {0} /\ current \in DOMAIN roots /\ roots \in Seq(Methods)
      BY <2>1 DEF ContextInv, CandidateInv, ContextType, ContextAssumption
    <2>3. ASSUME whole
          PROVE  parsed /\ reviewed' = 1 .. current
      <3>1. parsed /\ reviewed = 1 .. current - 1
        BY <2>1, <2>3 DEF SoFar
      <3>2. (1 .. current - 1) \cup {current} = 1 .. current
        BY <2>2
      <3>3. QED BY <2>1, <3>1, <3>2
    <2>4. CASE current < Len(roots)
      <3>1. current' - 1 = current /\ collecting' = "review"
        BY <2>1, <2>2, <2>4
      <3>2. QED BY <2>1, <2>3, <3>1 DEF SoFar
    <2>5. CASE ~(current < Len(roots))
      <3>1. DOMAIN roots = 1 .. current /\ collecting' = "done"
        BY <2>1, <2>2, <2>5
      <3>2. QED BY <2>1, <2>3, <3>1 DEF SoFar
    <2>6. QED BY <2>4, <2>5
  <1>5. QED BY <1>1, <1>2, <1>3, <1>4 DEF ContextStep

(***************************************************************************)
(* A resource review that ends whole has reviewed every candidate, and all *)
(* of the repository was parsed.                                           *)
(***************************************************************************)
THEOREM WholeReviewsAll ==
  ASSUME ContextAssumption
  PROVE  ContextSpec => []WholeIsAll
  <1>1. ContextIdle => SoFar
    BY DEF ContextIdle, SoFar
  <1>2. ContextInv /\ SoFar /\ [ContextNext]_contextVars => SoFar'
    <2> SUFFICES ASSUME ContextInv, SoFar, [ContextNext]_contextVars PROVE SoFar'
      OBVIOUS
    <2>1. CASE ContextBegin
      <3>1. DOMAIN <<>> = {}
        OBVIOUS
      <3>2. /\ whole' = parsed' /\ reviewed' = {}
            /\ collecting' = IF roots' = <<>> THEN "done" ELSE "collect"
        BY <2>1 DEF ContextBegin
      <3>3. QED BY <3>1, <3>2 DEF SoFar
    <2>2. CASE ContextStep
      BY <2>2, SoFarStep
    <2>3. CASE ContextReset
      BY <2>3 DEF ContextReset, SoFar
    <2>4. CASE UNCHANGED contextVars
      BY <2>4 DEF contextVars, SoFar
    <2>5. QED BY <2>1, <2>2, <2>3, <2>4 DEF ContextNext
  <1>3. SoFar => WholeIsAll
    BY DEF SoFar, WholeIsAll
  <1>4. QED BY <1>1, <1>2, <1>3, ContextInvAlways, PTL DEF ContextSpec

-----------------------------------------------------------------------------
(***************************************************************************)
(* The walk over a list that grows comes to its end: a method that is off  *)
(* the list never gets back on it.                                         *)
(***************************************************************************)
CandidatesLeft ==
  CASE collecting = "collect"       -> 2 * Len(roots) - current + 1
    [] collecting = "review"        -> Len(roots) - current + 1
    [] collecting \in {"off", "done"} -> 0

\* The methods that are on the list or may still come on it.
Unresolved == (Methods \ selected) \cup todo

MethodsLeft == Cardinality(Unresolved)

ContextNearer ==
  ContextStep => \/ CandidatesLeft' < CandidatesLeft
                 \/ CandidatesLeft' = CandidatesLeft /\ MethodsLeft' < MethodsLeft

ContextLeft == CandidatesLeft \in Nat /\ MethodsLeft \in Nat

LEMMA LeftIsNatural ==
  ASSUME ContextAssumption, ContextInv
  PROVE  ContextLeft
  <1>1. ContextType /\ current \in Nat \ {0}
    BY DEF ContextInv, CandidateInv
  <1>2. IsFiniteSet(Unresolved)
    BY <1>1, FS_Subset DEF ContextAssumption, ContextType, Unresolved
  <1>3. MethodsLeft \in Nat
    BY <1>2, FS_CardinalityType DEF MethodsLeft
  <1>4. CandidatesLeft \in Nat
    <2>1. CASE collecting \in {"collect", "review"}
      <3>1. current \in 1 .. Len(roots) /\ Len(roots) \in Nat
        BY <1>1, <2>1 DEF ContextInv, CandidateInv, ContextType, ContextAssumption
      <3>2. 2 * Len(roots) - current + 1 \in Nat /\ Len(roots) - current + 1 \in Nat
        BY <3>1
      <3>3. QED BY <2>1, <3>2 DEF CandidatesLeft
    <2>2. CASE collecting \in {"off", "done"}
      BY <2>2 DEF CandidatesLeft
    <2>3. QED BY <1>1, <2>1, <2>2 DEF ContextType
  <1>5. QED BY <1>3, <1>4 DEF ContextLeft

LEMMA WalkShrinks ==
  ASSUME ContextAssumption, ContextInv, Walk
  PROVE  CandidatesLeft' = CandidatesLeft /\ MethodsLeft' < MethodsLeft
  <1>1. PICK m \in todo : Resolve(m)
    BY DEF Walk
  <1>2. collecting = "collect" /\ UNCHANGED <<collecting, roots, current, program>>
    BY DEF Walk
  <1>3. ContextType /\ program \in Programs
    BY <1>2 DEF ContextInv, CandidateInv
  <1>4. selected \subseteq Methods /\ todo \subseteq selected /\ m \in Methods
    BY <1>3 DEF ContextType
  <1>5. Callees(m) \subseteq Methods
    BY <1>3, <1>4, MatchesFinite DEF Callees
  <1>6. Unresolved' \subseteq Unresolved \ {m}
    <2> DEFINE fits == Cardinality(selected) + Cardinality(Callees(m) \ selected) <= MethodLimit
    <2>1. /\ selected' = IF fits THEN selected \cup (Callees(m) \ selected) ELSE selected
          /\ todo' = (todo \ {m}) \cup (IF fits THEN Callees(m) \ selected ELSE {})
      BY <1>1 DEF Resolve
    <2> HIDE DEF fits
    <2>2. QED BY <1>4, <1>5, <2>1 DEF Unresolved
  <1>7. m \in Unresolved /\ IsFiniteSet(Unresolved)
    BY <1>3, FS_Subset DEF ContextAssumption, ContextType, Unresolved
  <1>8. Cardinality(Unresolved') < Cardinality(Unresolved)
    <2>1. IsFiniteSet(Unresolved \ {m}) /\ IsFiniteSet(Unresolved')
      BY <1>6, <1>7, FS_Subset
    <2>2. Cardinality(Unresolved') <= Cardinality(Unresolved \ {m})
      BY <1>6, <2>1, FS_Subset
    <2>3. Cardinality(Unresolved \ {m}) = Cardinality(Unresolved) - 1
      BY <1>7, FS_RemoveElement
    <2>4. /\ Cardinality(Unresolved) \in Nat /\ Cardinality(Unresolved') \in Nat
          /\ Cardinality(Unresolved \ {m}) \in Nat
      BY <1>7, <2>1, FS_CardinalityType
    <2>5. QED BY <2>2, <2>3, <2>4
  <1>9. QED BY <1>2, <1>8 DEF CandidatesLeft, MethodsLeft

LEMMA CollectedShrinks ==
  ASSUME ContextAssumption, ContextInv, Collected
  PROVE  CandidatesLeft' < CandidatesLeft
  <1>1. collecting = "collect" /\ roots' = roots
    BY DEF Collected
  <1>2. current \in 1 .. Len(roots) /\ Len(roots) \in Nat
    BY <1>1 DEF ContextInv, CandidateInv, ContextType, ContextAssumption
  <1>3. CandidatesLeft = 2 * Len(roots) - current + 1
    BY <1>1 DEF CandidatesLeft
  <1>4. CASE current < Len(roots)
    <2>1. current' = current + 1 /\ collecting' = "collect"
      BY <1>1, <1>4 DEF Collected
    <2>2. CandidatesLeft' = 2 * Len(roots) - (current + 1) + 1
      BY <1>1, <2>1 DEF CandidatesLeft
    <2>3. QED BY <1>2, <1>3, <2>2
  <1>5. CASE ~(current < Len(roots))
    <2>1. current' = 1 /\ collecting' = "review"
      BY <1>5 DEF Collected
    <2>2. CandidatesLeft' = Len(roots) - 1 + 1
      BY <1>1, <2>1 DEF CandidatesLeft
    <2>3. QED BY <1>2, <1>3, <2>2
  <1>6. QED BY <1>4, <1>5

LEMMA ReviewShrinks ==
  ASSUME ContextAssumption, ContextInv, Skip \/ CandidateFails \/ CandidateReviewed
  PROVE  CandidatesLeft' < CandidatesLeft
  <1>1. /\ collecting = "review" /\ roots' = roots
        /\ IF current < Len(roots)
             THEN current' = current + 1 /\ collecting' = collecting
             ELSE collecting' = "done" /\ current' = current
    BY DEF Skip, CandidateFails, CandidateReviewed, NextCandidate
  <1>2. current \in 1 .. Len(roots) /\ Len(roots) \in Nat
    BY <1>1 DEF ContextInv, CandidateInv, ContextType, ContextAssumption
  <1>3. CandidatesLeft = Len(roots) - current + 1
    BY <1>1 DEF CandidatesLeft
  <1>4. CASE current < Len(roots)
    <2>1. CandidatesLeft' = Len(roots) - (current + 1) + 1
      BY <1>1, <1>4 DEF CandidatesLeft
    <2>2. QED BY <1>2, <1>3, <2>1
  <1>5. CASE ~(current < Len(roots))
    <2>1. CandidatesLeft' = 0
      BY <1>1, <1>5 DEF CandidatesLeft
    <2>2. QED BY <1>2, <1>3, <2>1
  <1>6. QED BY <1>4, <1>5

LEMMA StepNearer ==
  ASSUME ContextAssumption, ContextInv
  PROVE  ContextNearer
  BY WalkShrinks, CollectedShrinks, ReviewShrinks DEF ContextNearer, ContextStep

(***************************************************************************)
(* Every step of a resource review brings it nearer to its end, whatever   *)
(* the calls of the program are, recursive ones too: a candidate is done   *)
(* with, or, as long as it is the same, one method less is to be resolved. *)
(***************************************************************************)
THEOREM ContextAdvances ==
  ASSUME ContextAssumption
  PROVE  ContextSpec => []ContextLeft /\ [][ContextNearer]_contextVars
  <1>1. ContextInv => ContextLeft
    BY LeftIsNatural
  <1>2. ContextInv => ContextNearer
    BY StepNearer
  <1>3. QED BY <1>1, <1>2, ContextInvAlways, PTL
=============================================================================
