-------------------------- MODULE SemanticReview_proofs --------------------------
(***************************************************************************)
(* Proofs about SemanticReview, for texts of any length, line ends at any  *)
(* places, any window size and any overlap.                                *)
(***************************************************************************)
EXTENDS SemanticReview, Integers, FiniteSetTheorems, WellFoundedInduction, TLAPS

ReviewAssumption ==
  /\ Lengths \subseteq Nat \ {0}
  /\ MaxChars \in Nat /\ MaxChars >= 2
  /\ Overlap \in Nat

\* Reviews one after the other, as the callers of review make them.
ReviewNext == ReviewBegin \/ ReviewStep \/ ReviewReset

ReviewSpec == ReviewIdle /\ [][ReviewNext]_reviewVars

-----------------------------------------------------------------------------
(***************************************************************************)
(* Sets of places have a first and a last one.                             *)
(***************************************************************************)
LEMMA Least ==
  ASSUME NEW S \in SUBSET Nat, S # {}
  PROVE  \E n \in S : \A m \in S : n <= m
  <1> DEFINE below(n) == 0 .. n
             T == {below(n) : n \in S}
  <1>1. IsWellFoundedOn(StrictSubsetOrdering(Nat), FiniteSubsetsOf(Nat))
    BY FS_StrictSubsetOrderingWellFounded
  <1>2. T \subseteq FiniteSubsetsOf(Nat) /\ T # {}
    <2>1. ASSUME NEW n \in S PROVE below(n) \in FiniteSubsetsOf(Nat)
      <3>1. n \in Nat /\ 0 \in Int /\ n \in Int
        OBVIOUS
      <3>2. IsFiniteSet(0 .. n)
        BY <3>1, FS_Interval
      <3>3. QED BY <3>1, <3>2 DEF FiniteSubsetsOf
    <2>2. QED BY <2>1
  <1>3. PICK x \in T : \A y \in T : ~(<<y, x>> \in StrictSubsetOrdering(Nat))
    <2> HIDE DEF T
    <2> QED BY <1>1, <1>2, WFMin
  <1>4. PICK n \in S : x = below(n)
    BY <1>3
  <1>5. ASSUME NEW m \in S, ~(n <= m) PROVE FALSE
    <2>1. below(m) \subseteq below(n) /\ below(m) # below(n)
      <3>1. n \in below(n) /\ n \notin below(m)
        BY <1>5
      <3>2. QED BY <1>5, <3>1
    <2>2. <<below(m), below(n)>> \in StrictSubsetOrdering(Nat)
      BY <2>1 DEF StrictSubsetOrdering
    <2>3. QED BY <1>3, <1>4, <2>2
  <1>6. QED BY <1>5

LEMMA Greatest ==
  ASSUME NEW b \in Nat, NEW S \in SUBSET (0 .. b), S # {}
  PROVE  \E n \in S : \A m \in S : m <= n
  <1> DEFINE T == {b - n : n \in S}
  <1>0. \A n \in S : n \in Nat /\ b - n \in Nat
    OBVIOUS
  <1>1. T \in SUBSET Nat /\ T # {}
    BY <1>0
  <1>2. PICK k \in T : \A m \in T : k <= m
    <2> HIDE DEF T
    <2> QED BY <1>1, Least
  <1>3. PICK n \in S : k = b - n
    BY <1>2
  <1>4. \A m \in S : b - n <= b - m
    BY <1>2, <1>3
  <1>5. QED BY <1>0, <1>3, <1>4

LEMMA MaxFacts ==
  ASSUME NEW b \in Nat, NEW S \in SUBSET (0 .. b), S # {}
  PROVE  Max(S) \in S /\ \A m \in S : Max(S) >= m
  <1>1. \E n \in S : \A m \in S : n >= m
    BY Greatest
  <1>2. QED BY <1>1 DEF Max

LEMMA MinFacts ==
  ASSUME NEW S \in SUBSET Nat, S # {}
  PROVE  Min(S) \in S /\ \A m \in S : Min(S) <= m
  <1>1. \E n \in S : \A m \in S : n <= m
    BY Least
  <1>2. QED BY <1>1 DEF Min

-----------------------------------------------------------------------------
(***************************************************************************)
(* Windows.  A window is never empty and never past the end of the text,   *)
(* and the next one begins in it or right after it, further on.            *)
(***************************************************************************)
TextType ==
  /\ size \in Nat
  /\ newlines \subseteq 0 .. size - 1
  /\ offset \in 0 .. size - 1

LEMMA EndFacts ==
  ASSUME ReviewAssumption, TextType
  PROVE  End \in offset + 1 .. size
  <1> DEFINE end    == Smaller(size, offset + MaxChars)
             inside == {n \in newlines : offset + MaxChars \div 2 <= n /\ n < end}
  <1>1. /\ size \in Nat /\ offset \in Nat /\ offset < size /\ MaxChars \in Nat /\ MaxChars >= 2
        /\ MaxChars \div 2 \in Nat
    BY DEF ReviewAssumption, TextType
  <1>2. end \in offset + 1 .. size
    BY <1>1 DEF Smaller
  <1>3. End = IF end < size /\ inside # {} THEN Max(inside) + 1 ELSE end
    BY DEF End
  <1> HIDE DEF end
  <1>4. CASE inside # {}
    <2>0. newlines \subseteq 0 .. size
      BY <1>1 DEF TextType
    <2>1. inside \in SUBSET (0 .. size)
      BY <2>0
    <2>2. \A n \in inside : n \in Nat /\ offset + MaxChars \div 2 <= n /\ n < end
      BY <2>1
    <2>3. Max(inside) \in inside
      <3> HIDE DEF inside
      <3> QED BY <1>1, <1>4, <2>1, MaxFacts
    <2>4. Max(inside) + 1 \in offset + 1 .. size
      <3> HIDE DEF inside
      <3> QED BY <1>1, <1>2, <2>2, <2>3
    <2>5. QED BY <1>2, <1>3, <2>4
  <1>5. CASE inside = {}
    BY <1>2, <1>3, <1>5
  <1>6. QED BY <1>4, <1>5

LEMMA NextOffsetFacts ==
  ASSUME ReviewAssumption, TextType
  PROVE  NextOffset \in offset + 1 .. End
  <1> DEFINE desired == Larger(offset + 1, End - Smaller(Overlap, MaxChars \div 4))
             inside  == {n \in newlines : desired <= n /\ n < End - 1}
  <1>1. /\ size \in Nat /\ offset \in Nat /\ MaxChars \div 4 \in Nat /\ Overlap \in Nat
        /\ End \in offset + 1 .. size
    BY EndFacts DEF ReviewAssumption, TextType
  <1>2. desired \in offset + 1 .. End
    BY <1>1 DEF Larger, Smaller
  <1>3. NextOffset = IF inside = {} THEN desired ELSE Min(inside) + 1
    BY DEF NextOffset
  <1> HIDE DEF desired
  <1>4. CASE inside # {}
    <2>0. newlines \subseteq Nat
      BY <1>1 DEF TextType
    <2>1. inside \in SUBSET Nat
      BY <2>0
    <2>2. \A n \in inside : n \in Nat /\ desired <= n /\ n < End - 1
      BY <2>1
    <2>3. Min(inside) \in inside
      <3> HIDE DEF inside
      <3> QED BY <1>4, <2>1, MinFacts
    <2>4. Min(inside) + 1 \in offset + 1 .. End
      <3> HIDE DEF inside
      <3> QED BY <1>1, <1>2, <2>2, <2>3
    <2>5. QED BY <1>2, <1>3, <2>4
  <1>5. CASE inside = {}
    BY <1>2, <1>3, <1>5
  <1>6. QED BY <1>4, <1>5

LEMMA AdvanceFacts ==
  ASSUME ReviewAssumption, TextType, reading = "window", Advance
  PROVE  /\ reading' = "window" => offset' \in offset + 1 .. size - 1 /\ offset' <= End
         /\ reading' # "window" => reading' = "done" /\ offset' = offset /\ End = size
  <1>1. End \in offset + 1 .. size /\ NextOffset \in offset + 1 .. End
    BY EndFacts, NextOffsetFacts
  <1>2. size \in Nat /\ offset \in Nat
    BY DEF TextType
  <1>3. CASE End = size
    BY <1>3 DEF Advance
  <1>4. CASE End # size
    BY <1>1, <1>2, <1>4 DEF Advance
  <1>5. QED BY <1>3, <1>4

-----------------------------------------------------------------------------
(***************************************************************************)
(* Types, and what a review has covered.                                   *)
(***************************************************************************)
ReviewInv ==
  /\ ReviewType
  /\ reading \in {"window", "done"} => TextType
  /\ NoGap

LEMMA MergedType ==
  ASSUME found \in [DOMAIN found -> BOOLEAN], NEW line, NEW accepted \in BOOLEAN
  PROVE  Merged(line, accepted) \in [DOMAIN found \cup {line} -> BOOLEAN]
  BY DEF Merged

LEMMA ReviewInvStep ==
  ASSUME ReviewAssumption, ReviewInv, ReviewStep
  PROVE  ReviewInv'
  <1>1. /\ reading = "window" /\ Advance /\ UNCHANGED <<size, newlines, spot>>
        /\ \/ covered' = covered \cup Window /\ complete' = complete
           \/ covered' = covered /\ complete' = FALSE
    BY DEF ReviewStep, WindowFails, WindowClean, WindowFinds
  <1>2. TextType /\ ReviewType /\ NoGap
    BY <1>1 DEF ReviewInv
  <1>3. /\ size \in Nat /\ offset \in Nat /\ offset < size /\ End \in offset + 1 .. size
    BY <1>2, EndFacts DEF TextType
  <1>4. found' \in [DOMAIN found' -> BOOLEAN] /\ said' \subseteq BOOLEAN
    <2>1. CASE UNCHANGED <<found, said>>
      BY <1>2, <2>1 DEF ReviewType
    <2>2. CASE WindowFinds
      <3>1. PICK accepted \in BOOLEAN : /\ found' = Merged(LineReported, accepted)
                                        /\ said' = said \cup {accepted}
        BY <2>2 DEF WindowFinds
      <3>2. found' \in [DOMAIN found \cup {LineReported} -> BOOLEAN]
        BY <1>2, <3>1, MergedType DEF ReviewType
      <3>3. QED BY <1>2, <3>1, <3>2 DEF ReviewType
    <2>3. QED BY <2>1, <2>2 DEF ReviewStep, WindowFails, WindowClean
  <1>5. covered' \subseteq 0 .. size - 1
    BY <1>1, <1>2, <1>3 DEF Window, ReviewType
  <1>6. /\ reading' = "window" => offset' \in offset + 1 .. size - 1 /\ offset' <= End
        /\ reading' # "window" => reading' = "done" /\ offset' = offset /\ End = size
    BY <1>1, <1>2, AdvanceFacts
  <1>7. ReviewType' /\ TextType'
    <2>1. size' = size /\ newlines' = newlines /\ spot' = spot
      BY <1>1
    <2>2. reading' \in {"window", "done"} /\ offset' \in 0 .. size - 1
      BY <1>3, <1>6
    <2>3. complete' \in BOOLEAN
      BY <1>1, <1>2 DEF ReviewType
    <2>4. TextType'
      BY <1>2, <2>1, <2>2 DEF TextType
    <2>5. QED BY <1>2, <1>3, <1>4, <1>5, <2>1, <2>2, <2>3, <2>4 DEF ReviewType
  <1>8. ASSUME complete', NEW p \in 0 .. End - 1 PROVE p \in covered'
    <2>1. covered' = covered \cup Window /\ complete
      BY <1>1, <1>8
    <2>2. CASE p < offset
      <3>1. p \in 0 .. offset - 1 /\ (0 .. offset - 1 \subseteq covered)
        BY <1>1, <1>2, <1>3, <2>1, <2>2 DEF NoGap
      <3>2. QED BY <2>1, <3>1
    <2>3. CASE p >= offset
      BY <1>3, <2>1, <2>3 DEF Window
    <2>4. QED BY <1>3, <2>2, <2>3
  <1>9. ASSUME reading' = "window", complete' PROVE 0 .. offset' - 1 \subseteq covered'
    <2>1. 0 .. offset' - 1 \subseteq 0 .. End - 1
      BY <1>3, <1>6, <1>9
    <2>2. QED BY <1>8, <1>9, <2>1
  <1>10. ASSUME reading' = "done", complete' PROVE Whole'
    <2>1. End = size /\ size' = size
      BY <1>1, <1>6, <1>10
    <2>2. QED BY <1>5, <1>8, <1>10, <2>1 DEF Whole
  <1>11. NoGap'
    BY <1>9, <1>10 DEF NoGap
  <1>12. QED BY <1>7, <1>11 DEF ReviewInv

LEMMA PlacesOf ==
  ASSUME NEW n \in Nat, n # 0, NEW p \in 0 .. n - 1
  PROVE  n >= 1 /\ 0 \in 0 .. n - 1 /\ p \in Nat
  OBVIOUS

LEMMA ReviewInvStart ==
  ASSUME ReviewAssumption, ReviewBegin
  PROVE  ReviewInv'
  <1>0. /\ size' \in Nat /\ spot' \in 0 .. size' - 1 /\ offset' = 0
        /\ 0 \in 0 .. size' - 1 /\ spot' \in Nat
    <2>1. size' \in Lengths /\ spot' \in 0 .. size' - 1 /\ offset' = 0
      BY DEF ReviewBegin
    <2>2. size' \in Nat /\ size' # 0
      BY <2>1 DEF ReviewAssumption
    <2>3. QED BY <2>1, <2>2, PlacesOf
  <1>1. /\ size' \in Lengths /\ newlines' \subseteq 0 .. size' - 1
        /\ spot' \in 0 .. size' - 1 /\ offset' = 0 /\ reading' = "window"
        /\ complete' = TRUE /\ covered' = {} /\ said' = {} /\ found' = NothingFound
    BY DEF ReviewAssumption, ReviewBegin
  <1>2. found' \in [DOMAIN found' -> BOOLEAN]
    BY <1>1 DEF NothingFound
  <1>3. offset' \in 0 .. size' - 1 /\ spot' \in Nat /\ 0 .. offset' - 1 = {}
    <2>1. offset' - 1 = -1 /\ 0 .. -1 = {}
      BY <1>0
    <2>2. QED BY <1>0, <2>1
  <1>4. ReviewType'
    BY <1>0, <1>1, <1>2, <1>3 DEF ReviewType
  <1>5. TextType'
    BY <1>0, <1>1, <1>3 DEF TextType
  <1>6. NoGap'
    BY <1>1, <1>3 DEF NoGap
  <1>7. QED BY <1>4, <1>5, <1>6 DEF ReviewInv

LEMMA ReviewInvIdle == ReviewIdle => ReviewInv
  <1>1. NothingFound \in [DOMAIN NothingFound -> BOOLEAN]
    BY DEF NothingFound
  <1>2. QED BY <1>1 DEF ReviewIdle, ReviewInv, ReviewType, NoGap

LEMMA ReviewInvReset == ReviewReset => ReviewInv'
  <1>1. NothingFound \in [DOMAIN NothingFound -> BOOLEAN]
    BY DEF NothingFound
  <1>2. QED BY <1>1 DEF ReviewReset, ReviewInv, ReviewType, NoGap

LEMMA ReviewInvAlways ==
  ASSUME ReviewAssumption
  PROVE  ReviewSpec => []ReviewInv
  <1>1. ReviewInv /\ [ReviewNext]_reviewVars => ReviewInv'
    <2> SUFFICES ASSUME ReviewInv, [ReviewNext]_reviewVars PROVE ReviewInv'
      OBVIOUS
    <2>1. CASE ReviewBegin
      BY <2>1, ReviewInvStart
    <2>2. CASE ReviewStep
      BY <2>2, ReviewInvStep
    <2>3. CASE ReviewReset
      BY <2>3, ReviewInvReset
    <2>4. CASE UNCHANGED reviewVars
      BY <2>4 DEF reviewVars, ReviewInv, ReviewType, TextType, NoGap, Whole
    <2>5. QED BY <2>1, <2>2, <2>3, <2>4 DEF ReviewNext
  <1>2. QED BY <1>1, ReviewInvIdle, PTL DEF ReviewSpec

(***************************************************************************)
(* The types of a review: its windows stay inside the text.                *)
(***************************************************************************)
THEOREM TypeCorrect ==
  ASSUME ReviewAssumption
  PROVE  ReviewSpec => []ReviewType
  <1>1. ReviewInv => ReviewType
    BY DEF ReviewInv
  <1>2. QED BY <1>1, ReviewInvAlways, PTL

(***************************************************************************)
(* "Cover every character": windows whose calls succeed leave no place     *)
(* out, whatever the text, the size of a window and the overlap.           *)
(***************************************************************************)
THEOREM EveryPlaceShown ==
  ASSUME ReviewAssumption
  PROVE  ReviewSpec => []NoGap
  <1>1. ReviewInv => NoGap
    BY DEF ReviewInv
  <1>2. QED BY <1>1, ReviewInvAlways, PTL

LEMMA StepOnward ==
  ASSUME ReviewAssumption, ReviewInv, ReviewStep
  PROVE  /\ size' = size /\ offset \in 0 .. size - 1 /\ reading = "window"
         /\ reading' = "done" \/ (reading' = "window" /\ offset' \in offset + 1 .. size - 1)
  <1>1. reading = "window" /\ Advance /\ size' = size
    BY DEF ReviewStep, WindowFails, WindowClean, WindowFinds
  <1>2. TextType
    BY <1>1 DEF ReviewInv
  <1>3. QED BY <1>1, <1>2, AdvanceFacts DEF TextType

\* The window that follows begins further on, before the end of the text.
Advances == reading = "window" /\ reading' = "window" => offset' > offset /\ offset' < size

(***************************************************************************)
(* The loop over windows comes to its end: the place where a window begins *)
(* grows with every turn, and stays below the length of the text.          *)
(***************************************************************************)
THEOREM WindowsAdvance ==
  ASSUME ReviewAssumption
  PROVE  ReviewSpec => [][Advances]_reviewVars
  <1>1. ReviewInv /\ [ReviewNext]_reviewVars => [Advances]_reviewVars
    <2> SUFFICES ASSUME ReviewInv, ReviewNext, reading = "window", reading' = "window"
                 PROVE  offset' > offset /\ offset' < size
      BY DEF Advances
    <2>1. TextType /\ Advance
      BY DEF ReviewInv, ReviewNext, ReviewBegin, ReviewReset, ReviewStep, WindowFails,
             WindowClean, WindowFinds
    <2>2. offset' \in offset + 1 .. size - 1
      BY <2>1, AdvanceFacts
    <2>3. size \in Nat /\ offset \in Nat
      BY <2>1 DEF TextType
    <2>4. QED BY <2>2, <2>3
  <1>2. QED BY <1>1, ReviewInvAlways, PTL DEF ReviewSpec

-----------------------------------------------------------------------------
(***************************************************************************)
(* Lines.  The line ends before the window and those of the window before  *)
(* the spot are apart and together those before the spot.                  *)
(***************************************************************************)
LEMMA LineIsOriginal ==
  ASSUME ReviewAssumption, TextType, spot \in Nat, spot \in Window
  PROVE  LineReported = LinesBefore(spot) + 1
  <1> DEFINE before == {n \in newlines : n < offset}
             inside == {n \in newlines : offset <= n /\ n < spot}
             upto   == {n \in newlines : n < spot}
  <1>1. size \in Nat /\ offset \in Nat /\ offset <= spot
    <2>1. End \in Nat /\ size \in Nat /\ offset \in Nat
      BY EndFacts DEF TextType
    <2>2. QED BY <2>1 DEF Window
  <1>2. newlines \subseteq Nat /\ IsFiniteSet(newlines)
    <2>1. newlines \subseteq 0 .. size - 1 /\ newlines \subseteq Nat
      BY <1>1 DEF TextType
    <2>2. IsFiniteSet(0 .. size - 1)
      <3>1. 0 \in Int /\ size - 1 \in Int
        BY <1>1
      <3>2. QED BY <3>1, FS_Interval
    <2>3. QED BY <2>1, <2>2, FS_Subset
  <1>3. before \cup inside = upto /\ before \cap inside = {}
    <2>1. \A n \in newlines : n \in Nat
      BY <1>2
    <2>2. QED BY <1>1, <2>1
  <1>4. IsFiniteSet(before) /\ IsFiniteSet(inside)
    <2>1. before \subseteq newlines /\ inside \subseteq newlines
      OBVIOUS
    <2>2. QED BY <1>2, <2>1, FS_Subset
  <1>5. /\ Cardinality(upto) = Cardinality(before) + Cardinality(inside)
        /\ Cardinality(before) \in Nat /\ Cardinality(inside) \in Nat
    <2> HIDE DEF before, inside, upto
    <2>1. /\ Cardinality(before) \in Nat /\ Cardinality(inside) \in Nat
          /\ Cardinality(before \cap inside) = 0
      BY <1>3, <1>4, FS_CardinalityType, FS_EmptySet
    <2>2. Cardinality(before \cup inside) =
            Cardinality(before) + Cardinality(inside) - Cardinality(before \cap inside)
      BY <1>4, FS_Union
    <2>3. Cardinality(upto) = Cardinality(before) + Cardinality(inside) - 0
      BY <1>3, <2>1, <2>2, Zenon
    <2>4. QED BY <2>1, <2>3
  <1>6. LineReported = Cardinality(inside) + 1 + Cardinality(before)
    BY DEF LineReported, LinesBefore
  <1>7. LinesBefore(spot) = Cardinality(upto)
    BY DEF LinesBefore
  <1> HIDE DEF before, inside, upto
  <1>8. QED BY <1>5, <1>6, <1>7

LEMMA Equivalent ==
  ASSUME NEW A \in BOOLEAN, NEW B \in BOOLEAN, A <=> B
  PROVE  A = B
  OBVIOUS

LEMMA MergedOnce ==
  ASSUME ReviewType, FindingsKept, NEW line, line = LinesBefore(spot) + 1,
         NEW sure \in BOOLEAN,
         found' = Merged(line, sure), said' = said \cup {sure},
         newlines' = newlines, spot' = spot
  PROVE  FindingsKept'
  <1>1. LinesBefore(spot)' = LinesBefore(spot)
    BY DEF LinesBefore
  <1>2. said' # {} /\ (TRUE \in said' <=> sure \/ TRUE \in said)
    OBVIOUS
  <1>3. CASE said = {}
    <2>1. DOMAIN found = {}
      BY <1>3 DEF FindingsKept, NothingFound
    <2>2. DOMAIN found' = {line} /\ found'[line] = sure
      BY <2>1 DEF Merged
    <2>3. Accepted' <=> sure
      BY <2>2 DEF Accepted
    <2>4. Accepted' = (TRUE \in said')
      <3>1. Accepted' <=> (TRUE \in said')
        BY <1>2, <1>3, <2>3
      <3>2. Accepted' \in BOOLEAN
        BY Zenon DEF Accepted
      <3>3. (TRUE \in said') \in BOOLEAN
        BY SMT
      <3>4. QED BY <3>1, <3>2, <3>3, Equivalent, Zenon
    <2>5. QED BY <1>1, <1>2, <2>2, <2>4 DEF FindingsKept
  <1>4. CASE said # {}
    <2>1. DOMAIN found = {line} /\ Accepted = (TRUE \in said)
      BY <1>4 DEF FindingsKept
    <2>2. DOMAIN found' = {line} /\ found'[line] = (sure \/ found[line])
      BY <2>1 DEF Merged
    <2>3. Accepted <=> found[line]
      BY <2>1 DEF Accepted
    <2>4. Accepted' <=> sure \/ found[line]
      BY <2>2 DEF Accepted
    <2>5. Accepted' = (TRUE \in said')
      <3>1. Accepted <=> (TRUE \in said)
        BY <2>1, Zenon
      <3>2. Accepted' <=> (TRUE \in said')
        BY <1>2, <2>3, <2>4, <3>1
      <3>3. Accepted' \in BOOLEAN
        BY Zenon DEF Accepted
      <3>4. (TRUE \in said') \in BOOLEAN
        BY SMT
      <3>5. QED BY <3>2, <3>3, <3>4, Equivalent, Zenon
    <2>6. QED BY <1>1, <1>2, <2>2, <2>5 DEF FindingsKept
  <1>5. QED BY <1>3, <1>4

(***************************************************************************)
(* "Preserving original lines": a place is reported once and under its own *)
(* line, in whatever windows it is seen, and no later window takes an      *)
(* accepted finding back.                                                  *)
(***************************************************************************)
THEOREM FindingsAreKept ==
  ASSUME ReviewAssumption
  PROVE  ReviewSpec => []FindingsKept
  <1>1. ReviewIdle => FindingsKept
    BY DEF ReviewIdle, FindingsKept
  <1>2. ReviewInv /\ FindingsKept /\ [ReviewNext]_reviewVars => FindingsKept'
    <2> SUFFICES ASSUME ReviewInv, FindingsKept, [ReviewNext]_reviewVars
                 PROVE  FindingsKept'
      OBVIOUS
    <2>1. CASE ReviewBegin \/ ReviewReset
      BY <2>1 DEF ReviewBegin, ReviewReset, FindingsKept
    <2>2. CASE WindowFinds
      <3>1. ReviewType /\ TextType /\ spot \in Nat /\ spot \in Window
        BY <2>2 DEF WindowFinds, ReviewInv, ReviewType
      <3>2. PICK sure \in BOOLEAN :
              found' = Merged(LineReported, sure) /\ said' = said \cup {sure}
        BY <2>2 DEF WindowFinds
      <3>3. newlines' = newlines /\ spot' = spot
        BY <2>2 DEF WindowFinds
      <3>4. LineReported = LinesBefore(spot) + 1
        BY <3>1, LineIsOriginal
      <3>5. QED BY <3>1, <3>2, <3>3, <3>4, MergedOnce
    <2>3. CASE UNCHANGED <<newlines, spot, found, said>>
      BY <2>3 DEF FindingsKept, Accepted, LinesBefore
    <2>4. QED BY <2>1, <2>2, <2>3 DEF ReviewNext, ReviewStep, WindowFails, WindowClean, reviewVars
  <1>3. QED BY <1>1, <1>2, ReviewInvAlways, PTL DEF ReviewSpec
=============================================================================
