---------------------------- MODULE SemanticReview ----------------------------
(***************************************************************************)
(* review and _review_window (scanops/core/java_semantic.py): a text longer *)
(* than max_chars is reviewed in windows that overlap and end at line ends  *)
(* where they can.                                                          *)
(*                                                                         *)
(* Of the text only its length and the places of its line ends matter, and  *)
(* one place, the spot, of which the model may report a finding in every    *)
(* window that shows it; findings at other places behave alike.  Positions  *)
(* count from 0, as in the code.                                            *)
(***************************************************************************)
EXTENDS Naturals, FiniteSets, FiniteSetsExt

CONSTANTS
  Lengths,    \* lengths of the texts
  MaxChars,   \* max_chars, at least 2
  Overlap     \* the 1000 of the code

VARIABLES
  reading,    \* "off", "window", "done"
  size,       \* len(code)
  newlines,   \* the places of "\n"
  spot,       \* the place the model may report
  offset,
  complete,   \* completed = len(windows)
  found,      \* unique: [original line -> accepted]
  covered,    \* the places successful windows showed (history)
  said        \* what the model said of the spot: accepted or not (history)

reviewVars == <<reading, size, newlines, spot, offset, complete, found, covered, said>>

NothingFound == [l \in {} |-> FALSE]

ReviewIdle ==
  /\ reading = "off"
  /\ size = 0 /\ newlines = {} /\ spot = 0 /\ offset = 0
  /\ complete = TRUE /\ found = NothingFound
  /\ covered = {} /\ said = {}

ReviewBegin ==
  /\ reading = "off"
  /\ reading' = "window"
  /\ size' \in Lengths
  /\ newlines' \in SUBSET (0 .. size' - 1)
  /\ spot' \in 0 .. size' - 1
  /\ offset' = 0
  /\ complete' = TRUE /\ found' = NothingFound
  /\ covered' = {} /\ said' = {}

-----------------------------------------------------------------------------
(* Windows.                                                                 *)

Smaller(a, b) == IF a < b THEN a ELSE b
Larger(a, b)  == IF a > b THEN a ELSE b

\* code.count("\n", 0, p)
LinesBefore(p) == Cardinality({n \in newlines : n < p})

\* Mutant: the window may reach past the end of the text.
EndUnbounded ==
  LET end    == offset + MaxChars
      inside == {n \in newlines : offset + MaxChars \div 2 <= n /\ n < end}
  IN  IF inside # {} THEN Max(inside) + 1 ELSE end

\* The last line end in the second half of the window, if there is one.
End ==
  LET end    == Smaller(size, offset + MaxChars)
      inside == {n \in newlines : offset + MaxChars \div 2 <= n /\ n < end}
  IN  IF end < size /\ inside # {} THEN Max(inside) + 1 ELSE end

Window == offset .. End - 1

\* Mutant: the search for a line runs on to the end of the text.
NextOffsetFar ==
  LET desired == Larger(offset + 1, End - Smaller(Overlap, MaxChars \div 4))
      inside  == {n \in newlines : desired <= n}
  IN  IF inside = {} THEN desired ELSE Smaller(Min(inside) + 1, size - 1)

\* Mutant: the overlap may be a whole window.
NextOffsetStays ==
  LET desired == End - Smaller(Overlap, MaxChars)
      inside  == {n \in newlines : desired <= n /\ n < End - 1}
  IN  IF inside = {} THEN desired ELSE Min(inside) + 1

\* The overlap, from the first line that begins in it.
NextOffset ==
  LET desired == Larger(offset + 1, End - Smaller(Overlap, MaxChars \div 4))
      inside  == {n \in newlines : desired <= n /\ n < End - 1}
  IN  IF inside = {} THEN desired ELSE Min(inside) + 1

Advance ==
  IF End = size
    THEN reading' = "done" /\ UNCHANGED offset
    ELSE offset' = NextOffset /\ UNCHANGED reading

-----------------------------------------------------------------------------
(* Reviews of a window.                                                     *)

\* Mutant: completed counts the windows that were begun.
WindowFailsQuietly ==
  /\ reading = "window"
  /\ Advance
  /\ UNCHANGED <<size, newlines, spot, complete, found, covered, said>>

\* The call raises, or its answer is not what the schema asks for.
WindowFails ==
  /\ reading = "window"
  /\ complete' = FALSE
  /\ Advance
  /\ UNCHANGED <<size, newlines, spot, found, covered, said>>

WindowClean ==
  /\ reading = "window"
  /\ covered' = covered \cup Window
  /\ Advance
  /\ UNCHANGED <<size, newlines, spot, complete, found, said>>

\* Mutant: lines are counted to the end of the window.
LineReportedFromEnd ==
  Cardinality({n \in newlines : offset <= n /\ n < spot}) + 1 + LinesBefore(End)

\* The model counts lines in the window, the code adds those before it.
LineReported ==
  Cardinality({n \in newlines : offset <= n /\ n < spot}) + 1 + LinesBefore(offset)

\* A finding of high confidence is accepted, and stays so.
Merged(line, accepted) ==
  [l \in DOMAIN found \cup {line} |->
     IF l = line THEN accepted \/ (l \in DOMAIN found /\ found[l]) ELSE found[l]]

WindowFinds ==
  /\ reading = "window" /\ spot \in Window
  /\ \E accepted \in BOOLEAN :
       /\ found' = Merged(LineReported, accepted)
       /\ said' = said \cup {accepted}
  /\ covered' = covered \cup Window
  /\ Advance
  /\ UNCHANGED <<size, newlines, spot, complete>>

ReviewStep == WindowFails \/ WindowClean \/ WindowFinds

ReviewReset ==
  /\ reading' = "off"
  /\ size' = 0 /\ newlines' = {} /\ spot' = 0 /\ offset' = 0
  /\ complete' = TRUE /\ found' = NothingFound
  /\ covered' = {} /\ said' = {}

\* What _analyze_one reads of the result.
Accepted == \E l \in DOMAIN found : found[l]

ReviewType ==
  /\ reading \in {"off", "window", "done"}
  /\ size \in Lengths \cup {0}
  /\ newlines \subseteq 0 .. size - 1
  /\ spot \in Nat /\ offset \in Nat
  /\ complete \in BOOLEAN /\ found \in [DOMAIN found -> BOOLEAN]
  /\ covered \subseteq 0 .. size - 1
  /\ said \subseteq BOOLEAN

-----------------------------------------------------------------------------
(* Properties.                                                              *)

Whole == covered = 0 .. size - 1

\* "Cover every character": up to the current window nothing is left out
\* unless a window failed, so that a review without a failed one has shown
\* the model the whole text, wherever its lines end.
NoGap ==
  /\ reading = "window" /\ complete => 0 .. offset - 1 \subseteq covered
  /\ reading = "done" /\ complete => Whole

\* "Preserving original lines": whatever windows show the spot, it is reported
\* once, under its line in the text, and is accepted when any of them was sure;
\* a window that fails takes nothing back.
FindingsKept ==
  /\ said # {} => DOMAIN found = {LinesBefore(spot) + 1} /\ Accepted = (TRUE \in said)
  /\ said = {} => found = NothingFound
=============================================================================
