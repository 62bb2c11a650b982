--------------------------- MODULE FileAnalysis_proofs ---------------------------
(***************************************************************************)
(* Proofs about FileAnalysis.  The two Java reviews are proved in modules  *)
(* of their own; what they promise holds here because every step of a file *)
(* is a step of theirs or leaves their variables alone.                    *)
(***************************************************************************)
EXTENDS FileAnalysis, Integers, FiniteSetTheorems, TLAPS

Collects == INSTANCE ResourceContext_proofs
Reads    == INSTANCE SemanticReview_proofs WITH said <- reported

-----------------------------------------------------------------------------
(* What the instances take from the library is the same operator in each.   *)

LEMMA SameCardinality ==
  ASSUME NEW S
  PROVE  /\ Context!Cardinality(S) = Cardinality(S) /\ Collects!Cardinality(S) = Cardinality(S)
         /\ Semantic!Cardinality(S) = Cardinality(S) /\ Reads!Cardinality(S) = Cardinality(S)
         /\ Critic!Cardinality(S) = Cardinality(S)
  <1>1. Context!Cardinality(S) = Cardinality(S)
    BY DEF Context!Cardinality, Cardinality
  <1>2. Collects!Cardinality(S) = Cardinality(S)
    BY DEF Collects!Cardinality, Cardinality
  <1>3. Semantic!Cardinality(S) = Cardinality(S)
    BY DEF Semantic!Cardinality, Cardinality
  <1>4. Reads!Cardinality(S) = Cardinality(S)
    BY DEF Reads!Cardinality, Cardinality
  <1>5. Critic!Cardinality(S) = Cardinality(S)
    BY DEF Critic!Cardinality, Cardinality
  <1>6. QED BY <1>1, <1>2, <1>3, <1>4, <1>5

LEMMA SameFinite ==
  ASSUME NEW S
  PROVE  Collects!IsFiniteSet(S) <=> IsFiniteSet(S)
  BY DEF Collects!IsFiniteSet, IsFiniteSet

-----------------------------------------------------------------------------
(* The resource review of a file is the one the proofs are about.           *)

LEMMA SameContextBegin == Context!ContextBegin => Collects!ContextBegin
  BY DEF Context!ContextBegin, Context!Start, Collects!ContextBegin, Collects!Start

LEMMA SameContextReset == Context!ContextReset => Collects!ContextReset
  BY DEF Context!ContextReset, Context!NoProgram, Collects!ContextReset, Collects!NoProgram

LEMMA SameContextStep == Context!ContextStep => Collects!ContextStep
  <1> SUFFICES ASSUME Context!ContextStep PROVE Collects!ContextStep
    OBVIOUS
  <1>1. CASE Context!Walk
    <2>1. PICK m \in todo : Context!Resolve(m)
      BY <1>1 DEF Context!Walk
    <2>2. Context!Callees(m) = Collects!Callees(m)
      BY SameCardinality DEF Context!Callees, Collects!Callees
    <2>3. Collects!Resolve(m)
      BY <2>1, <2>2, SameCardinality DEF Context!Resolve, Collects!Resolve
    <2>4. Collects!Walk
      BY <1>1, <2>1, <2>3 DEF Context!Walk, Collects!Walk
    <2>5. QED BY <2>4 DEF Collects!ContextStep
  <1>2. CASE Context!Collected
    BY <1>2, SameCardinality
    DEF Context!Collected, Context!Start, Context!Incomplete, Collects!Collected,
        Collects!Start, Collects!Incomplete, Collects!ContextStep
  <1>3. CASE Context!Skip \/ Context!CandidateFails \/ Context!CandidateReviewed
    BY <1>3 DEF Context!Skip, Context!CandidateFails, Context!CandidateReviewed,
                Context!NextCandidate, Context!Incomplete, Collects!Skip,
                Collects!CandidateFails, Collects!CandidateReviewed, Collects!NextCandidate,
                Collects!Incomplete, Collects!ContextStep
  <1>4. QED BY <1>1, <1>2, <1>3 DEF Context!ContextStep

LEMMA RunsContext == Spec => Collects!ContextSpec
  <1>1. Init => Collects!ContextIdle
    BY DEF Init, Context!ContextIdle, Context!NoProgram, Collects!ContextIdle,
           Collects!NoProgram
  <1>2. [Next]_vars => [Collects!ContextNext]_(Collects!contextVars)
    <2> SUFFICES ASSUME [Next]_vars
                 PROVE  [Collects!ContextNext]_(Collects!contextVars)
      OBVIOUS
    <2>1. CASE RouteContext
      BY <2>1, SameContextBegin DEF RouteContext, Collects!ContextNext
    <2>2. CASE ContextWorks
      BY <2>2, SameContextStep DEF ContextWorks, Collects!ContextNext
    <2>3. CASE ContextReturns
      BY <2>3, SameContextReset DEF ContextReturns, Collects!ContextNext
    <2>4. CASE UNCHANGED contextVars
      BY <2>4 DEF contextVars, Collects!contextVars
    <2>5. QED
      BY <2>1, <2>2, <2>3, <2>4
      DEF Next, Step, Found, NothingFound, CriticWorks, CriticReturns, RouteJava,
          SemanticBegins, SemanticWorks, SemanticReturns, Merge, RouteModel, ModelWorks,
          ModelReturns, OtherThreads, Quiescent, vars
  <1>3. QED BY <1>1, <1>2, PTL DEF Spec, Collects!ContextSpec

-----------------------------------------------------------------------------
(* So is the semantic review.                                               *)

LEMMA SameReviewBegin == Semantic!ReviewBegin => Reads!ReviewBegin
  BY DEF Semantic!ReviewBegin, Semantic!NothingFound, Reads!ReviewBegin, Reads!NothingFound

LEMMA SameReviewReset == Semantic!ReviewReset => Reads!ReviewReset
  BY DEF Semantic!ReviewReset, Semantic!NothingFound, Reads!ReviewReset, Reads!NothingFound

LEMMA SameWindow == Semantic!End = Reads!End /\ Semantic!NextOffset = Reads!NextOffset
                    /\ Semantic!Window = Reads!Window
  <1>1. \A a, b : Semantic!Smaller(a, b) = Reads!Smaller(a, b)
                  /\ Semantic!Larger(a, b) = Reads!Larger(a, b)
    BY DEF Semantic!Smaller, Reads!Smaller, Semantic!Larger, Reads!Larger
  <1>2. \A S : Semantic!Max(S) = Reads!Max(S) /\ Semantic!Min(S) = Reads!Min(S)
    BY DEF Semantic!Max, Reads!Max, Semantic!Min, Reads!Min
  <1>3. Semantic!End = Reads!End
    BY <1>1, <1>2 DEF Semantic!End, Reads!End
  <1>4. Semantic!NextOffset = Reads!NextOffset
    BY <1>1, <1>2, <1>3 DEF Semantic!NextOffset, Reads!NextOffset
  <1>5. QED BY <1>3, <1>4 DEF Semantic!Window, Reads!Window

LEMMA SameReviewStep == Semantic!ReviewStep => Reads!ReviewStep
  <1> SUFFICES ASSUME Semantic!ReviewStep PROVE Reads!ReviewStep
    OBVIOUS
  <1>1. Semantic!Advance => Reads!Advance
    BY SameWindow DEF Semantic!Advance, Reads!Advance
  <1>2. CASE Semantic!WindowFails \/ Semantic!WindowClean
    BY <1>1, <1>2, SameWindow
    DEF Semantic!WindowFails, Semantic!WindowClean, Reads!WindowFails, Reads!WindowClean,
        Reads!ReviewStep
  <1>3. CASE Semantic!WindowFinds
    <2>1. Semantic!LineReported = Reads!LineReported
      BY SameCardinality
      DEF Semantic!LineReported, Semantic!LinesBefore, Reads!LineReported, Reads!LinesBefore
    <2>2. \A l, a : Semantic!Merged(l, a) = Reads!Merged(l, a)
      BY DEF Semantic!Merged, Reads!Merged
    <2>3. Reads!WindowFinds
      BY <1>1, <1>3, <2>1, <2>2, SameWindow DEF Semantic!WindowFinds, Reads!WindowFinds
    <2>4. QED BY <2>3 DEF Reads!ReviewStep
  <1>4. QED BY <1>2, <1>3 DEF Semantic!ReviewStep

LEMMA RunsReview == Spec => Reads!ReviewSpec
  <1>1. Init => Reads!ReviewIdle
    BY DEF Init, Semantic!ReviewIdle, Semantic!NothingFound, Reads!ReviewIdle,
           Reads!NothingFound
  <1>2. [Next]_vars => [Reads!ReviewNext]_(Reads!reviewVars)
    <2> SUFFICES ASSUME [Next]_vars
                 PROVE  [Reads!ReviewNext]_(Reads!reviewVars)
      OBVIOUS
    <2>1. CASE Semantic!ReviewBegin \/ Semantic!ReviewReset
      BY <2>1, SameReviewBegin, SameReviewReset DEF Reads!ReviewNext
    <2>2. CASE SemanticWorks
      BY <2>2, SameReviewStep DEF SemanticWorks, Reads!ReviewNext
    <2>3. CASE UNCHANGED reviewVars
      BY <2>3 DEF reviewVars, Reads!reviewVars
    <2>4. QED
      BY <2>1, <2>2, <2>3
      DEF Next, Step, Found, NothingFound, CriticWorks, CriticReturns, RouteJava,
          RouteContext, ContextWorks, ContextReturns, SemanticBegins, SemanticReturns, Merge,
          RouteModel, ModelWorks, ModelReturns, OtherThreads, Quiescent, vars
  <1>3. QED BY <1>1, <1>2, PTL DEF Spec, Reads!ReviewSpec

-----------------------------------------------------------------------------
(***************************************************************************)
(* "Cover every character", in the file's analysis: while no window of the *)
(* semantic review fails, no place before the current window is left out.  *)
(***************************************************************************)
THEOREM TextIsCovered == Spec => []NoGap
  <1>1. Reads!ReviewAssumption
    BY FileAssumption DEF Reads!ReviewAssumption
  <1>2. Reads!ReviewSpec => []Reads!NoGap
    BY <1>1, Reads!EveryPlaceShown
  <1>3. Reads!NoGap => NoGap
    BY DEF Reads!NoGap, Reads!Whole, NoGap, Semantic!NoGap, Semantic!Whole
  <1>4. QED BY <1>2, <1>3, RunsReview, PTL

(***************************************************************************)
(* "Preserving original lines": a finding keeps its place, its line and    *)
(* its acceptance through all windows of the review.                       *)
(***************************************************************************)
THEOREM FindingsAreKept == Spec => []FindingsKept
  <1>1. Reads!ReviewAssumption
    BY FileAssumption DEF Reads!ReviewAssumption
  <1>2. Reads!ReviewSpec => []Reads!FindingsKept
    BY <1>1, Reads!FindingsAreKept
  <1>3. Reads!FindingsKept => FindingsKept
    BY SameCardinality
    DEF Reads!FindingsKept, Reads!LinesBefore, Reads!Accepted, Reads!NothingFound,
           FindingsKept, Semantic!FindingsKept, Semantic!LinesBefore, Semantic!Accepted,
           Semantic!NothingFound
  <1>4. QED BY <1>2, <1>3, RunsReview, PTL

(***************************************************************************)
(* A context that the resource review shows to the model as complete holds *)
(* all that its methods call, and no call in it is ambiguous.              *)
(***************************************************************************)
THEOREM ContextsAreClosed == Spec => []ContextClosed
  <1>1. Collects!ContextAssumption
    BY FileAssumption, SameFinite DEF Collects!ContextAssumption
  <1>2. Collects!ContextSpec => []Collects!ContextClosed
    BY <1>1, Collects!ContextsAreClosed
  <1>3. Collects!ContextClosed => ContextClosed
    BY SameCardinality
    DEF Collects!ContextClosed, Collects!Start, Collects!Incomplete, ContextClosed,
           Context!ContextClosed, Context!Start, Context!Incomplete
  <1>4. QED BY <1>2, <1>3, RunsContext, PTL

-----------------------------------------------------------------------------
(***************************************************************************)
(* The critic.  Its batches are finitely many, and so are the calls it has *)
(* left.                                                                   *)
(***************************************************************************)
LEMMA ImageFinite ==
  ASSUME NEW D, IsFiniteSet(D), NEW T, NEW f \in [D -> T], \A t \in T : \E x \in D : f[x] = t
  PROVE  IsFiniteSet(T)
  <1>1. f \in Surjection(D, T)
    BY DEF Surjection
  <1>2. QED BY <1>1, FS_Surjection

Reported == flows \in Seq([at : Nat, sanitized : BOOLEAN])

LEMMA BatchesFinite ==
  ASSUME Reported
  PROVE  IsFiniteSet(Critic!Batches)
  <1> DEFINE live == {n \in DOMAIN flows : ~flows[n].sanitized}
  <1>1. IsFiniteSet(live)
    <2>1. DOMAIN flows = 1 .. Len(flows) /\ Len(flows) \in Int /\ 1 \in Int
      BY DEF Reported
    <2>2. IsFiniteSet(DOMAIN flows)
      BY <2>1, FS_Interval
    <2>3. live \subseteq DOMAIN flows
      OBVIOUS
    <2>4. QED BY <2>2, <2>3, FS_Subset
  <1>2. Critic!Uniq = {flows[k].at : k \in live}
    BY DEF Critic!Uniq
  <1>3. IsFiniteSet(Critic!Uniq)
    <2> DEFINE f == [k \in live |-> flows[k].at]
    <2> HIDE DEF live
    <2>1. f \in [live -> Critic!Uniq] /\ \A t \in Critic!Uniq : \E k \in live : f[k] = t
      BY <1>2
    <2> HIDE DEF f
    <2>2. QED BY <1>1, <2>1, ImageFinite
  <1>4. IsFiniteSet(Critic!Batches)
    <2> DEFINE g == [l \in Critic!Uniq |-> Critic!BatchOf(l)]
    <2>1. g \in [Critic!Uniq -> Critic!Batches]
          /\ \A b \in Critic!Batches : \E l \in Critic!Uniq : g[l] = b
      BY DEF Critic!Batches
    <2> HIDE DEF g
    <2>2. QED BY <1>3, <2>1, ImageFinite
  <1>5. QED BY <1>4

-----------------------------------------------------------------------------
(* What the critic calls and keeps.                                         *)

CriticNext ==
  \/ \E on \in BOOLEAN : Critic!CriticBegin(on)
  \/ Critic!CriticStep
  \/ Critic!CriticReset

LEMMA CriticMoves == [Next]_vars => [CriticNext]_criticVars
  BY DEF Next, Step, Found, NothingFound, CriticWorks, CriticReturns, RouteJava, RouteContext,
         ContextWorks, ContextReturns, SemanticBegins, SemanticWorks, SemanticReturns, Merge,
         RouteModel, ModelWorks, ModelReturns, OtherThreads, Quiescent, vars, CriticNext

\* A batch that has no answer yet has a call left.
CallsInv ==
  judging = "ask" =>
    /\ kept = {}
    /\ calls \in [Critic!Batches -> 0 .. Critic!MaxCalls]
    /\ \A b \in Critic!Open : calls[b] < Critic!MaxCalls

CriticInv == Critic!CriticType /\ CallsInv

LEMMA FlowsReported == Critic!CriticType => Reported
  <1>1. <<>> \in Seq([at : Nat, sanitized : BOOLEAN])
    OBVIOUS
  <1>2. QED BY <1>1, FileAssumption DEF Critic!CriticType, Reported

LEMMA EmptyCritic ==
  ASSUME flows = <<>>, enabled = FALSE, calls = <<>>, answers = <<>>, kept = {},
         judging = "off"
  PROVE  CriticInv
  <1>1. DOMAIN <<>> = {}
    OBVIOUS
  <1>2. Critic!Range(calls) = {}
    BY <1>1 DEF Critic!Range
  <1>3. QED BY <1>1, <1>2 DEF CriticInv, Critic!CriticType, CallsInv

LEMMA CriticIdleInv == Critic!CriticIdle => CriticInv
  BY EmptyCritic DEF Critic!CriticIdle

LEMMA CriticResetInv == Critic!CriticReset => CriticInv'
  <1>1. Critic!CriticReset => Critic!CriticIdle'
    BY DEF Critic!CriticReset, Critic!CriticIdle
  <1>2. Critic!CriticIdle' => CriticInv'
    BY CriticIdleInv, PTL
  <1>3. QED BY <1>1, <1>2

LEMMA CriticBeginInv ==
  ASSUME NEW on \in BOOLEAN, Critic!CriticBegin(on)
  PROVE  CriticInv'
  <1>1. /\ flows' \in FlowLists /\ enabled' = on /\ answers' = <<>> /\ DOMAIN answers' = {}
    BY DEF Critic!CriticBegin
  <1>2. CASE on /\ Critic!Uniq' # {}
    <2>1. judging' = "ask" /\ kept' = {} /\ calls' = [b \in Critic!Batches' |-> 0]
      BY <1>2 DEF Critic!CriticBegin
    <2>2. calls' \in [Critic!Batches' -> 0 .. 2]
      BY <2>1
    <2>3. Critic!Range(calls)' \subseteq 0 .. 2
      BY <2>1, <2>2 DEF Critic!Range
    <2>4. CallsInv'
      BY <2>1, <2>2 DEF CallsInv, Critic!MaxCalls, Critic!Open
    <2>5. Critic!CriticType'
      BY <1>1, <2>1, <2>2, <2>3 DEF Critic!CriticType, Critic!MaxCalls
    <2>6. QED BY <2>4, <2>5 DEF CriticInv
  <1>3. CASE ~(on /\ Critic!Uniq' # {})
    <2>1. judging' = "kept" /\ kept' = Critic!Uniq' /\ calls' = <<>> /\ DOMAIN calls' = {}
      BY <1>3 DEF Critic!CriticBegin
    <2>2. Critic!Range(calls)' = {}
      BY <2>1 DEF Critic!Range
    <2>3. Critic!CriticType'
      BY <1>1, <2>1, <2>2 DEF Critic!CriticType
    <2>4. QED BY <2>1, <2>3 DEF CriticInv, CallsInv
  <1>4. QED BY <1>2, <1>3

LEMMA SameFlows ==
  ASSUME flows' = flows
  PROVE  Critic!Uniq' = Critic!Uniq /\ Critic!Batches' = Critic!Batches
  <1>1. Critic!Uniq' = Critic!Uniq
    BY DEF Critic!Uniq
  <1>2. \A l : Critic!BatchOf(l)' = Critic!BatchOf(l)
    BY <1>1, SameCardinality DEF Critic!BatchOf
  <1>3. QED BY <1>1, <1>2 DEF Critic!Batches

LEMMA CallInv ==
  ASSUME CriticInv, NEW b \in Critic!Batches, Critic!CallFails(b) \/ Critic!CallAnswers(b)
  PROVE  CriticInv'
  <1>1. /\ judging = "ask" /\ b \in Critic!Open /\ calls' = [calls EXCEPT ![b] = @ + 1]
        /\ UNCHANGED <<judging, flows, enabled, kept>>
    BY DEF Critic!CallFails, Critic!CallAnswers, Critic!Answer
  <1>2. /\ Critic!CriticType /\ calls \in [Critic!Batches -> 0 .. 2] /\ calls[b] < 2 /\ kept = {}
        /\ \A c \in Critic!Open : calls[c] < 2
    BY <1>1 DEF CriticInv, CallsInv, Critic!MaxCalls
  <1>3. Critic!Uniq' = Critic!Uniq /\ Critic!Batches' = Critic!Batches
    BY <1>1, SameFlows
  <1>4. /\ calls' \in [Critic!Batches -> 0 .. 2] /\ calls'[b] = calls[b] + 1
        /\ \A c \in Critic!Batches \ {b} : calls'[c] = calls[c]
    BY <1>1, <1>2
  <1>5. \/ DOMAIN answers' = DOMAIN answers \cup {b}
        \/ answers' = answers /\ calls'[b] < 2
    BY DEF Critic!CallFails, Critic!CallAnswers, Critic!Answer, Critic!MaxCalls
  <1>6. DOMAIN answers' \subseteq Critic!Batches
    BY <1>2, <1>5 DEF Critic!CriticType
  <1>7. Critic!Range(calls)' \subseteq 0 .. 2
    BY <1>4 DEF Critic!Range
  <1>8. Critic!CriticType'
    BY <1>1, <1>2, <1>3, <1>4, <1>6, <1>7 DEF Critic!CriticType, Critic!MaxCalls
  <1>9. ASSUME NEW c \in Critic!Open' PROVE calls'[c] < 2
    <2>1. c \in Critic!Batches /\ c \notin DOMAIN answers'
      BY <1>3 DEF Critic!Open
    <2>2. CASE c = b
      BY <1>5, <2>1, <2>2
    <2>3. CASE c # b
      <3>1. c \in Critic!Open
        BY <1>5, <2>1 DEF Critic!Open
      <3>2. QED BY <1>2, <1>4, <2>1, <2>3, <3>1
    <2>4. QED BY <2>2, <2>3
  <1>10. CallsInv'
    BY <1>1, <1>2, <1>3, <1>4, <1>9 DEF CallsInv, Critic!MaxCalls
  <1>11. QED BY <1>8, <1>10 DEF CriticInv

LEMMA SettleInv ==
  ASSUME CriticInv, Critic!Settle
  PROVE  CriticInv'
  <1>1. /\ judging' = "kept" /\ kept' = {l \in Critic!Uniq : ~Critic!Grounded(Critic!Verdict(l))}
        /\ UNCHANGED <<flows, enabled, calls, answers>>
    BY DEF Critic!Settle
  <1>2. Critic!CriticType
    BY DEF CriticInv
  <1>3. Critic!Uniq' = Critic!Uniq /\ Critic!Batches' = Critic!Batches
    BY <1>1, SameFlows
  <1>4. Critic!CriticType'
    <2>1. kept' \subseteq Critic!Uniq'
      BY <1>1, <1>3
    <2>2. Critic!Range(calls)' = Critic!Range(calls)
      BY <1>1 DEF Critic!Range
    <2>3. QED BY <1>1, <1>2, <1>3, <2>1, <2>2 DEF Critic!CriticType
  <1>5. QED BY <1>1, <1>4 DEF CriticInv, CallsInv

LEMMA NothingJudged ==
  ASSUME CriticInv, UNCHANGED <<flows, enabled, calls, answers, kept>>,
         judging' = judging \/ judging' = "raised"
  PROVE  CriticInv'
  <1>1. Critic!Uniq' = Critic!Uniq /\ Critic!Batches' = Critic!Batches
    BY SameFlows
  <1>2. Critic!CriticType'
    <2>1. Critic!Range(calls)' = Critic!Range(calls)
      BY DEF Critic!Range
    <2>2. QED BY <1>1, <2>1 DEF CriticInv, Critic!CriticType
  <1>3. CallsInv'
    <2>1. Critic!Open' = Critic!Open
      BY <1>1 DEF Critic!Open
    <2>2. QED BY <1>1, <2>1 DEF CriticInv, CallsInv, Critic!MaxCalls
  <1>4. QED BY <1>2, <1>3 DEF CriticInv

LEMMA CriticAlways == Spec => []CriticInv
  <1>1. Init => CriticInv
    BY CriticIdleInv DEF Init
  <1>2. CriticInv /\ [Next]_vars => CriticInv'
    <2> SUFFICES ASSUME CriticInv, [CriticNext]_criticVars PROVE CriticInv'
      BY CriticMoves
    <2>1. CASE \E on \in BOOLEAN : Critic!CriticBegin(on)
      BY <2>1, CriticBeginInv
    <2>2. CASE Critic!CriticStep
      <3>1. CASE Critic!VerdictRaises
        BY <3>1, NothingJudged DEF Critic!VerdictRaises
      <3>2. QED BY <2>2, <3>1, CallInv, SettleInv DEF Critic!CriticStep
    <2>3. CASE Critic!CriticReset
      BY <2>3, CriticResetInv
    <2>4. CASE UNCHANGED criticVars
      BY <2>4, NothingJudged DEF criticVars
    <2>5. QED BY <2>1, <2>2, <2>3, <2>4 DEF CriticNext
  <1>3. QED BY <1>1, <1>2, PTL DEF Spec

-----------------------------------------------------------------------------
(***************************************************************************)
(* The verdict of the model on a file, and the process's check of the      *)
(* tokenizer, which other threads make at the same time.                   *)
(***************************************************************************)
VerdictNext == (\E j \in {"none", "safe", "vuln"} : Model!VerdictBegin(j))
               \/ Model!VerdictStep \/ Model!RivalStep \/ Model!VerdictReset

VerdictInv ==
  /\ Model!VerdictType
  /\ asking = "detect" => tries < Model!MaxTries
  /\ asking = "done" => outcome = Model!Aggregate(joern)
  /\ tokenCheck = "ok" => reference
  /\ ScoreDefined

LEMMA AggregateType ==
  ASSUME Model!VerdictType, NEW j \in {"none", "safe", "vuln"}
  PROVE  Model!Aggregate(j)
           \in [detected : BOOLEAN, status : {"open", "DONE", "PARTIAL"}, source : Model!Sources]
  <1>1. ASSUME NEW d \in BOOLEAN, NEW s \in {"open", "DONE", "PARTIAL"}, NEW w \in Model!Sources
        PROVE  Model!Result(d, s, w)
                 \in [detected : BOOLEAN, status : {"open", "DONE", "PARTIAL"},
                      source : Model!Sources]
    BY DEF Model!Result
  <1>2. Model!StatusWith(j) \in {"open", "DONE", "PARTIAL"}
        /\ {"llm", "joern", "llm+joern"} = Model!Sources
    BY DEF Model!StatusWith, Model!Sources
  <1>3. (said = "vuln") \in BOOLEAN
        /\ (score + (IF j = "vuln" THEN Delta ELSE 0) >= Tau) \in BOOLEAN
        /\ TRUE \in BOOLEAN /\ "DONE" \in {"open", "DONE", "PARTIAL"}
    OBVIOUS
  <1> DEFINE Results == [detected : BOOLEAN, status : {"open", "DONE", "PARTIAL"},
                         source : Model!Sources]
  <1>4. Model!Result(said = "vuln", "DONE", "llm") \in Results
        /\ Model!Result(said = "vuln", Model!StatusWith(j), "llm") \in Results
        /\ Model!Result(TRUE, Model!StatusWith(j), "joern") \in Results
        /\ Model!Result(score + (IF j = "vuln" THEN Delta ELSE 0) >= Tau,
                        Model!StatusWith(j), "llm+joern") \in Results
    <2> HIDE DEF Results
    <2>1. "llm" \in Model!Sources /\ "joern" \in Model!Sources /\ "llm+joern" \in Model!Sources
      BY DEF Model!Sources
    <2>2. \A d \in BOOLEAN, s \in {"open", "DONE", "PARTIAL"}, w \in Model!Sources :
            Model!Result(d, s, w) \in Results
      BY <1>1 DEF Results
    <2>3. QED BY <1>2, <1>3, <2>1, <2>2, Zenon
  <1>5. Model!ModelOnly \in Results /\ Model!TrustJoern(j) \in Results
        /\ Model!AsSignal(j) \in Results
    <2> HIDE DEF Results
    <2>1. QED BY <1>4, Zenon DEF Model!ModelOnly, Model!TrustJoern, Model!AsSignal
  <1>6. QED BY <1>5 DEF Model!Aggregate, Model!VerdictType, Model!Policies

LEMMA VerdictBeginInv ==
  ASSUME VerdictInv, NEW j \in {"none", "safe", "vuln"}, Model!VerdictBegin(j)
  PROVE  VerdictInv'
  BY DEF VerdictInv, Model!VerdictBegin, Model!VerdictType, Model!Open, Model!Sources,
         Model!MaxTries, Model!processVars, ScoreDefined, Model!ScoreDefined

LEMMA OpenType ==
  /\ Model!Open \in [detected : BOOLEAN, status : {"open", "DONE", "PARTIAL"},
                     source : Model!Sources]
  /\ "JOERN-NO-BETTER" \in Model!Policies /\ 0 \in 0 .. Model!MaxTries
  BY DEF Model!Open, Model!Sources, Model!Policies, Model!MaxTries

LEMMA VerdictIdleInv == Model!VerdictIdle /\ Model!ProcessInit => VerdictInv
  <1> SUFFICES ASSUME Model!VerdictIdle, Model!ProcessInit PROVE VerdictInv
    OBVIOUS
  <1>1. /\ asking = "off" /\ policy = "JOERN-NO-BETTER" /\ tuned \in BOOLEAN /\ tries = 0
        /\ said = "open" /\ score = NoScore /\ joern = "none" /\ outcome = Model!Open
        /\ reference \in BOOLEAN /\ tokenCheck = "unchecked" /\ rival \in BOOLEAN
    BY DEF Model!VerdictIdle, Model!ProcessInit
  <1>2. Model!VerdictType
    BY <1>1, OpenType DEF Model!VerdictType
  <1>3. QED BY <1>1, <1>2 DEF VerdictInv, ScoreDefined, Model!ScoreDefined

LEMMA VerdictResetInv ==
  ASSUME VerdictInv, Model!VerdictReset
  PROVE  VerdictInv'
  <1>1. /\ asking' = "off" /\ policy' = "JOERN-NO-BETTER" /\ tuned' \in BOOLEAN /\ tries' = 0
        /\ said' = "open" /\ score' = NoScore /\ joern' = "none" /\ outcome' = Model!Open
        /\ UNCHANGED <<reference, tokenCheck, rival>>
    BY DEF Model!VerdictReset, Model!processVars
  <1>2. Model!VerdictType'
    BY <1>1, OpenType DEF VerdictInv, Model!VerdictType
  <1>3. QED BY <1>1, <1>2 DEF VerdictInv, ScoreDefined, Model!ScoreDefined

LEMMA VerdictStepInv ==
  ASSUME VerdictInv, Model!VerdictStep
  PROVE  VerdictInv'
  <1> USE DEF VerdictInv, Model!VerdictType, Model!MaxTries, ScoreDefined, Model!ScoreDefined
  <1>1. CASE Model!Unparsed
    BY <1>1 DEF Model!Unparsed, Model!processVars
  <1>2. CASE Model!Answered
    BY <1>2 DEF Model!Answered, Model!processVars
  <1>3. CASE Model!DetectRaises
    BY <1>3 DEF Model!DetectRaises, Model!processVars
  <1>4. CASE Model!CheckKnown
    BY <1>4 DEF Model!CheckKnown, Model!processVars
  <1>5. CASE Model!Verify
    BY <1>5 DEF Model!Verify, Model!Verified
  <1>6. CASE Model!Score
    BY <1>6 DEF Model!Score, Model!processVars
  <1>7. CASE Model!Decide
    <2>1. /\ joern' \in {"none", "safe", "vuln"} /\ outcome' = Model!Aggregate(joern')
          /\ asking' = "done"
          /\ UNCHANGED <<policy, tuned, tries, said, score, reference, tokenCheck, rival>>
      BY <1>7 DEF Model!Decide, Model!processVars
    <2>2. outcome' \in [detected : BOOLEAN, status : {"open", "DONE", "PARTIAL"},
                        source : Model!Sources]
      BY <2>1, AggregateType
    <2>3. \A j : Model!Aggregate(j)' = Model!Aggregate(j)
      BY <2>1 DEF Model!Aggregate, Model!TrustJoern, Model!AsSignal, Model!ModelOnly,
                  Model!Result, Model!StatusWith
    <2>4. (outcome = Model!Aggregate(joern))'
      BY <2>1, <2>3 DEF Model!Aggregate, Model!TrustJoern, Model!AsSignal, Model!ModelOnly,
                  Model!Result, Model!StatusWith
    <2>5. QED BY <2>1, <2>2, <2>4
  <1>8. QED BY <1>1, <1>2, <1>3, <1>4, <1>5, <1>6, <1>7 DEF Model!VerdictStep

LEMMA RivalInv ==
  ASSUME VerdictInv,
         Model!RivalStep \/ UNCHANGED <<fileVars, reference, tokenCheck, rival>>
  PROVE  VerdictInv'
  <1>1. /\ UNCHANGED <<asking, policy, tuned, tries, said, score, joern, outcome, reference>>
        /\ tokenCheck' = tokenCheck \/ tokenCheck' \in Model!Verified
        /\ rival' \in BOOLEAN
    BY DEF Model!RivalStep, Model!RivalBegins, Model!RivalVerifies, Model!fileVars, fileVars,
           VerdictInv, Model!VerdictType
  <1>2. tokenCheck' \in {"unchecked", "ok", "bad"} /\ (tokenCheck' = "ok" => reference')
    BY <1>1 DEF Model!Verified, VerdictInv, Model!VerdictType
  <1>3. Model!VerdictType'
    BY <1>1, <1>2 DEF VerdictInv, Model!VerdictType
  <1>4. asking' = "done" => (outcome = Model!Aggregate(joern))'
    BY <1>1 DEF VerdictInv, Model!Aggregate, Model!TrustJoern, Model!AsSignal,
                Model!ModelOnly, Model!Result, Model!StatusWith
  <1>5. QED BY <1>1, <1>2, <1>3, <1>4 DEF VerdictInv, ScoreDefined, Model!ScoreDefined,
                                          Model!MaxTries

LEMMA VerdictMoves ==
  ASSUME [Next]_vars, cpg \in {"none", "safe", "vuln"}
  PROVE  VerdictNext \/ UNCHANGED <<fileVars, reference, tokenCheck, rival>>
  BY DEF Next, Step, Found, NothingFound, CriticWorks, CriticReturns, RouteJava, RouteContext,
         ContextWorks, ContextReturns, SemanticBegins, SemanticWorks, SemanticReturns, Merge,
         RouteModel, ModelWorks, ModelReturns, OtherThreads, Quiescent, vars, processVars,
         VerdictNext

LEMMA VerdictInvStep ==
  ASSUME VerdictInv, [Next]_vars, cpg \in {"none", "safe", "vuln"}
  PROVE  VerdictInv'
  BY VerdictMoves, VerdictBeginInv, VerdictStepInv, RivalInv, VerdictResetInv DEF VerdictNext

-----------------------------------------------------------------------------
(***************************************************************************)
(* The path of a file.  What DONE stands for is collected on the way: the  *)
(* reviews have seen everything as far as their status says so.            *)
(***************************************************************************)
RootType ==
  /\ phase \in {"new", "critic", "route", "resource", "semantic", "merge", "model", "end"}
  /\ qwen \in BOOLEAN /\ engine \in Engines \cup {"none", "model"}
  /\ cpg \in {"none", "safe", "vuln"}
  /\ resource \in Reviews /\ semantic \in Reviews
  /\ flagged \in BOOLEAN /\ sound \in BOOLEAN
  /\ answer \in [detected : BOOLEAN, status : {"open", "DONE", "PARTIAL"}]

PathInv ==
  /\ phase \in {"new", "critic", "route"} => engine = "none" /\ sound
  /\ phase = "resource" =>
       engine = "cpg-qwen38-context" /\ cpg # "none" /\ qwen /\ sound
  /\ phase = "semantic" =>
       /\ engine \in Engines \ {"cpg-qwen38"}
       /\ resource = "DONE" => sound
  /\ phase = "merge" =>
       /\ engine \in Engines
       /\ engine = "cpg-qwen38" => sound
       /\ engine # "cpg-qwen38" => semantic # "none"
       /\ semantic = "DONE" => qwen
       /\ engine # "cpg-qwen38" /\ semantic = "DONE" /\ resource = "DONE" => sound
  /\ phase = "model" => engine = "model"
  /\ phase \in {"new", "critic", "route", "resource", "semantic"} => semantic = "none"
  /\ reading # "off" => qwen
  /\ DoneFileReviewed

\* What the proofs about the reviews say of them.
ReviewFacts ==
  /\ parsed \in BOOLEAN /\ accepted \in BOOLEAN
  /\ collecting = "done" /\ whole => parsed /\ reviewed = DOMAIN roots
  /\ reading = "done" /\ complete => Semantic!Whole

LEMMA ReviewFactsAlways == Spec => []ReviewFacts
  <1>1. Collects!ContextAssumption /\ Reads!ReviewAssumption
    BY FileAssumption, SameFinite DEF Collects!ContextAssumption, Reads!ReviewAssumption
  <1>2. Collects!ContextSpec => []Collects!ContextType
    BY <1>1, Collects!TypeCorrect
  <1>3. Collects!ContextSpec => []Collects!WholeIsAll
    BY <1>1, Collects!WholeReviewsAll
  <1>4. Collects!ContextType /\ Collects!WholeIsAll /\ NoGap => ReviewFacts
    BY DEF Collects!ContextType, Collects!WholeIsAll, NoGap, Semantic!NoGap, ReviewFacts
  <1>5. QED BY <1>2, <1>3, <1>4, RunsContext, TextIsCovered, PTL

LEMMA RootTypeStep ==
  ASSUME RootType, VerdictInv, ReviewFacts, [Next]_vars
  PROVE  RootType'
  <1> USE DEF RootType, Goto
  <1>1. CASE Found \/ NothingFound
    BY <1>1 DEF Found, NothingFound
  <1>2. CASE CriticReturns
    BY <1>2 DEF CriticReturns
  <1>3. CASE RouteJava
    <2>1. engine' \in Engines /\ AfterResource(engine') \in {"merge", "semantic"}
      BY <1>3 DEF RouteJava, AfterResource
    <2>2. QED BY <1>3, <2>1 DEF RouteJava, Reviews
  <1>4. CASE RouteContext
    BY <1>4 DEF RouteContext, Engines
  <1>5. CASE ContextReturns
    <2>1. (parsed /\ reviewed = DOMAIN roots) \in BOOLEAN
      OBVIOUS
    <2>2. /\ flagged' = accepted /\ phase' = "semantic" /\ resource' \in Reviews
          /\ sound' = (parsed /\ reviewed = DOMAIN roots)
          /\ UNCHANGED <<qwen, engine, cpg, semantic, answer>>
      BY <1>5 DEF ContextReturns, Reviews
    <2>3. sound' \in BOOLEAN
      BY <2>1, <2>2, Zenon
    <2>4. QED BY <2>2, <2>3 DEF ReviewFacts
  <1>6. CASE SemanticBegins
    BY <1>6 DEF SemanticBegins, Reviews
  <1>7. CASE SemanticReturns
    <2>1. /\ flagged' = (flagged \/ Semantic!Accepted) /\ phase' = "merge"
          /\ semantic' \in Reviews /\ sound' = (sound /\ Semantic!Whole)
          /\ UNCHANGED <<qwen, engine, cpg, resource, answer>>
      BY <1>7 DEF SemanticReturns, Reviews
    <2>2. (flagged \/ Semantic!Accepted) \in BOOLEAN /\ (sound /\ Semantic!Whole) \in BOOLEAN
      BY Zenon
    <2>3. flagged' \in BOOLEAN /\ sound' \in BOOLEAN
      BY <2>1, <2>2, Zenon
    <2>4. QED BY <2>1, <2>3
  <1>8. CASE Merge
    <2>1. PICK status \in {"DONE", "PARTIAL"} :
            answer' = [detected |-> Detected, status |-> status]
      BY <1>8 DEF Merge
    <2>2. Detected \in BOOLEAN
      BY Zenon DEF Detected
    <2>3. answer' \in [detected : BOOLEAN, status : {"open", "DONE", "PARTIAL"}]
      BY <2>1, <2>2
    <2>4. QED BY <1>8, <2>3 DEF Merge
  <1>9. CASE RouteModel
    BY <1>9 DEF RouteModel
  <1>10. CASE ModelReturns
    <2>1. answer' \in [detected : BOOLEAN, status : {"open", "DONE", "PARTIAL"}]
      BY <1>10 DEF ModelReturns, Open, VerdictInv, Model!VerdictType
    <2>2. QED BY <1>10, <2>1 DEF ModelReturns
  <1>11. CASE UNCHANGED rootVars
    BY <1>11 DEF rootVars
  <1>12. QED
    BY <1>1, <1>2, <1>3, <1>4, <1>5, <1>6, <1>7, <1>8, <1>9, <1>10, <1>11
    DEF Next, Step, CriticWorks, ContextWorks, SemanticWorks, ModelWorks, OtherThreads,
        Quiescent, vars

LEMMA PathStep ==
  ASSUME RootType, PathInv, ReviewFacts, [Next]_vars
  PROVE  PathInv'
  <1> USE DEF PathInv, Goto, DoneFileReviewed
  <1>1. CASE Found \/ NothingFound \/ CriticReturns
    BY <1>1 DEF Found, NothingFound, CriticReturns, reviewVars
  <1>2. CASE RouteJava
    BY <1>2 DEF RouteJava, AfterResource, Engines, reviewVars
  <1>3. CASE RouteContext
    BY <1>3 DEF RouteContext, reviewVars
  <1>4. CASE ContextReturns
    <2>1. /\ phase = "resource" /\ phase' = "semantic" /\ collecting = "done"
          /\ resource' = IF whole THEN "DONE" ELSE "PARTIAL"
          /\ sound' = (parsed /\ reviewed = DOMAIN roots)
          /\ UNCHANGED <<qwen, engine, cpg, semantic, answer, reading>>
      BY <1>4 DEF ContextReturns, reviewVars
    <2>2. resource' = "DONE" => sound'
      BY <2>1 DEF ReviewFacts
    <2>3. QED BY <2>1, <2>2 DEF Engines
  <1>5. CASE SemanticBegins
    BY <1>5 DEF SemanticBegins, Semantic!ReviewBegin, reviewVars
  <1>6. CASE SemanticWorks
    <2>1. reading = "window" /\ UNCHANGED rootVars /\ phase = "semantic"
      BY <1>6 DEF SemanticWorks, Semantic!ReviewStep, Semantic!WindowFails,
                  Semantic!WindowClean, Semantic!WindowFinds
    <2>2. QED BY <2>1 DEF rootVars
  <1>7. CASE SemanticReturns
    <2>1. /\ phase = "semantic" /\ phase' = "merge" /\ reading = "done" /\ reading' = "off"
          /\ semantic' = IF complete THEN "DONE" ELSE "PARTIAL"
          /\ sound' = (sound /\ Semantic!Whole)
          /\ UNCHANGED <<qwen, engine, cpg, resource, answer>>
      BY <1>7 DEF SemanticReturns, Semantic!ReviewReset
    <2>2. semantic' = "DONE" /\ resource = "DONE" => sound'
      BY <2>1 DEF ReviewFacts
    <2>3. QED BY <2>1, <2>2
  <1>8. CASE Merge
    <2>1. /\ phase = "merge" /\ phase' = "end"
          /\ UNCHANGED <<qwen, engine, cpg, resource, semantic, sound, reading>>
      BY <1>8 DEF Merge, reviewVars
    <2>2. answer'.status = "DONE" =>
            cpg # "none" /\ semantic \in {"DONE", "none"} /\ resource = "DONE"
      BY <1>8 DEF Merge
    <2>3. QED BY <2>1, <2>2
  <1>9. CASE RouteModel
    BY <1>9 DEF RouteModel, reviewVars
  <1>10. CASE ModelReturns
    BY <1>10 DEF ModelReturns, reviewVars, Engines
  <1>11. CASE UNCHANGED <<rootVars, reading>>
    BY <1>11 DEF rootVars
  <1>12. QED
    BY <1>1, <1>2, <1>3, <1>4, <1>5, <1>6, <1>7, <1>8, <1>9, <1>10, <1>11
    DEF Next, Step, CriticWorks, ContextWorks, ModelWorks, OtherThreads, Quiescent, vars,
        reviewVars

LEMMA PathAlways == Spec => [](RootType /\ VerdictInv /\ PathInv)
  <1>1. Init => RootType /\ VerdictInv /\ PathInv
    <2> SUFFICES ASSUME Init PROVE RootType /\ VerdictInv /\ PathInv
      OBVIOUS
    <2>1. Open \in [detected : BOOLEAN, status : {"open", "DONE", "PARTIAL"}]
      BY DEF Open
    <2>2. RootType
      BY <2>1 DEF Init, RootType, Reviews
    <2>3. PathInv
      BY DEF Init, PathInv, DoneFileReviewed, Semantic!ReviewIdle
    <2>4. QED BY <2>2, <2>3, VerdictIdleInv DEF Init
  <1>2. RootType /\ VerdictInv /\ PathInv /\ ReviewFacts /\ [Next]_vars
          => (RootType /\ VerdictInv /\ PathInv)'
    <2>1. RootType => cpg \in {"none", "safe", "vuln"}
      BY DEF RootType
    <2>2. QED BY <2>1, RootTypeStep, PathStep, VerdictInvStep
  <1>3. QED BY <1>1, <1>2, ReviewFactsAlways, PTL DEF Spec

(***************************************************************************)
(* The status DONE of a Java file: Joern has analysed it and every review  *)
(* its engine asks for has seen all there was to see.                      *)
(***************************************************************************)
THEOREM DoneIsReviewed == Spec => []DoneFileReviewed
  <1>1. PathInv => DoneFileReviewed
    BY DEF PathInv
  <1>2. QED BY <1>1, PathAlways, PTL

(***************************************************************************)
(* A score is given only with the tokenizer it was measured with, whatever *)
(* other threads find out about it meanwhile.                              *)
(***************************************************************************)
THEOREM ScoresAreDefined == Spec => []ScoreDefined
  <1>1. VerdictInv => ScoreDefined
    BY DEF VerdictInv
  <1>2. QED BY <1>1, PathAlways, PTL

(***************************************************************************)
(* "A safe of joern overrides no verdict", for every policy, every score   *)
(* and every value of the thresholds.                                      *)
(***************************************************************************)
THEOREM EvidenceAdds == Spec => []EvidenceMonotone
  <1>1. VerdictInv => EvidenceMonotone
    <2> SUFFICES ASSUME VerdictInv, asking = "done", Model!Aggregate("none").detected
                 PROVE  outcome.detected
      BY DEF EvidenceMonotone, Model!EvidenceMonotone
    <2>1. outcome = Model!Aggregate(joern) /\ Model!VerdictType
      BY DEF VerdictInv
    <2>2. CASE policy = "TRUST-JOERN"
      BY <2>1, <2>2 DEF Model!Aggregate, Model!TrustJoern, Model!Result
    <2>3. CASE policy = "JOERN-NO-BETTER"
      BY <2>1, <2>3 DEF Model!Aggregate, Model!ModelOnly, Model!Result
    <2>4. CASE policy = "JOERN-AS-SIGNAL"
      <3>1. CASE score = NoScore \/ ~tuned
        BY <2>1, <2>4, <3>1 DEF Model!Aggregate, Model!AsSignal, Model!ModelOnly, Model!Result
      <3>2. CASE ~(score = NoScore \/ ~tuned)
        <4>1. score \in Nat /\ Delta \in Nat /\ Tau \in Nat
          BY <2>1, <3>2, FileAssumption DEF Model!VerdictType
        <4>2. score + 0 >= Tau
          BY <2>4, <3>2 DEF Model!Aggregate, Model!AsSignal, Model!Result
        <4>3. score + (IF joern = "vuln" THEN Delta ELSE 0) >= Tau
          BY <4>1, <4>2
        <4>4. QED BY <2>1, <2>4, <3>2, <4>3 DEF Model!Aggregate, Model!AsSignal, Model!Result
      <3>3. QED BY <3>1, <3>2
    <2>5. QED BY <2>1, <2>2, <2>3, <2>4 DEF Model!VerdictType, Model!Policies
  <1>2. QED BY <1>1, PathAlways, PTL

(***************************************************************************)
(* The types of an analysis and of all its parts.                          *)
(***************************************************************************)
THEOREM TypeCorrect == Spec => []TypeOK
  <1>1. Collects!ContextAssumption /\ Reads!ReviewAssumption
    BY FileAssumption, SameFinite DEF Collects!ContextAssumption, Reads!ReviewAssumption
  <1>2. Collects!ContextSpec => []Collects!ContextType
    BY <1>1, Collects!TypeCorrect
  <1>3. Reads!ReviewSpec => []Reads!ReviewType
    BY <1>1, Reads!TypeCorrect
  <1>4. Collects!ContextType => Context!ContextType
    BY DEF Collects!ContextType, Collects!Programs, Collects!NoProgram, Context!ContextType,
           Context!Programs, Context!NoProgram
  <1>5. Reads!ReviewType => Semantic!ReviewType
    BY DEF Reads!ReviewType, Semantic!ReviewType
  <1>6. Context!ContextType /\ Semantic!ReviewType /\ CriticInv /\ RootType /\ VerdictInv
          => TypeOK
    BY DEF CriticInv, VerdictInv, RootType, TypeOK
  <1>7. QED BY <1>2, <1>3, <1>4, <1>5, <1>6, RunsContext, RunsReview, CriticAlways,
               PathAlways, PTL

-----------------------------------------------------------------------------
(***************************************************************************)
(* What is left of the analysis of a file: the phases, what is left of the *)
(* current one, and what is left of its current turn.                      *)
(***************************************************************************)
PhasesLeft ==
  CASE phase = "new"                   -> 6
    [] phase = "critic"                -> 5
    [] phase = "route"                 -> 4
    [] phase = "resource"              -> 3
    [] phase \in {"semantic", "model"} -> 2
    [] phase = "merge"                 -> 1
    [] phase = "end"                   -> 0

ReadingLeft ==
  CASE reading = "off" -> 2 [] reading = "window" -> 1 [] reading = "done" -> 0

AskingLeft ==
  CASE asking = "detect" -> 5
    [] asking = "check"  -> 4
    [] asking = "verify" -> 3
    [] asking = "score"  -> 2
    [] asking = "joern"  -> 1
    [] asking \in {"off", "failed", "done"} -> 0

TurnsLeft ==
  CASE phase = "critic"   -> IF judging = "ask" THEN 1 ELSE 0
    [] phase = "resource" -> Collects!CandidatesLeft
    [] phase = "semantic" -> ReadingLeft
    [] phase = "model"    -> AskingLeft
    [] phase \in {"new", "route", "merge", "end"} -> 0

\* The calls that batches of the critic may still make.
CallsOpen == {p \in Critic!Batches \X (1 .. Critic!MaxCalls) : calls[p[1]] < p[2]}

PlacesLeft ==
  CASE phase = "critic"   -> IF judging = "ask" THEN Cardinality(CallsOpen) ELSE 0
    [] phase = "resource" -> Collects!MethodsLeft
    [] phase = "semantic" -> IF reading = "window" THEN size - offset ELSE 0
    [] phase = "model"    -> Model!MaxTries - tries
    [] phase \in {"new", "route", "merge", "end"} -> 0

FileLeft == PhasesLeft \in Nat /\ TurnsLeft \in Nat /\ PlacesLeft \in Nat

FileNearer ==
  Step => \/ PhasesLeft' < PhasesLeft
          \/ PhasesLeft' = PhasesLeft /\ TurnsLeft' < TurnsLeft
          \/ /\ PhasesLeft' = PhasesLeft /\ TurnsLeft' = TurnsLeft
             /\ PlacesLeft' < PlacesLeft

LEMMA CallsFinite ==
  ASSUME CriticInv
  PROVE  IsFiniteSet(CallsOpen) /\ Cardinality(CallsOpen) \in Nat
  <1>1. IsFiniteSet(Critic!Batches)
    BY FlowsReported, BatchesFinite DEF CriticInv
  <1>2. IsFiniteSet(1 .. Critic!MaxCalls)
    <2>1. 1 \in Int /\ Critic!MaxCalls \in Int
      BY DEF Critic!MaxCalls
    <2>2. QED BY <2>1, FS_Interval
  <1>3. IsFiniteSet(Critic!Batches \X (1 .. Critic!MaxCalls))
    BY <1>1, <1>2, FS_Product
  <1>4. IsFiniteSet(CallsOpen)
    BY <1>3, FS_Subset DEF CallsOpen
  <1>5. QED BY <1>4, FS_CardinalityType

\* A call is one less to make.
LEMMA CallNearer ==
  ASSUME CriticInv, NEW b \in Critic!Batches, Critic!CallFails(b) \/ Critic!CallAnswers(b)
  PROVE  judging' = "ask" /\ judging = "ask" /\ Cardinality(CallsOpen') < Cardinality(CallsOpen)
  <1>1. /\ judging = "ask" /\ b \in Critic!Open /\ calls' = [calls EXCEPT ![b] = @ + 1]
        /\ judging' = judging /\ flows' = flows
    BY DEF Critic!CallFails, Critic!CallAnswers, Critic!Answer
  <1>2. /\ calls \in [Critic!Batches -> 0 .. Critic!MaxCalls]
        /\ calls[b] < Critic!MaxCalls
    BY <1>1 DEF CriticInv, CallsInv
  <1>3. Critic!Batches' = Critic!Batches
    BY <1>1, SameFlows
  <1> DEFINE call == <<b, calls[b] + 1>>
  <1>4. call \in CallsOpen
    <2>1. calls[b] + 1 \in 1 .. Critic!MaxCalls /\ calls[b] < calls[b] + 1
      BY <1>2 DEF Critic!MaxCalls
    <2>2. QED BY <2>1 DEF CallsOpen
  <1>5. CallsOpen' \subseteq CallsOpen \ {call}
    <2>1. ASSUME NEW c \in Critic!Batches, NEW n \in 1 .. Critic!MaxCalls, calls'[c] < n
          PROVE  calls[c] < n /\ <<c, n>> # call
      BY <1>1, <1>2, <2>1 DEF Critic!MaxCalls
    <2>2. CallsOpen' = {p \in Critic!Batches \X (1 .. Critic!MaxCalls) : calls'[p[1]] < p[2]}
      BY <1>3 DEF CallsOpen, Critic!MaxCalls
    <2>3. ASSUME NEW p \in CallsOpen' PROVE p \in CallsOpen /\ p # call
      <3>1. PICK c \in Critic!Batches, n \in 1 .. Critic!MaxCalls :
              p = <<c, n>> /\ calls'[c] < n
        BY <2>2
      <3>2. calls[c] < n /\ <<c, n>> # call
        BY <2>1, <3>1
      <3> HIDE DEF call
      <3>3. QED BY <3>1, <3>2 DEF CallsOpen
    <2> HIDE DEF call
    <2>4. QED BY <2>3
  <1> HIDE DEF call
  <1>6. IsFiniteSet(CallsOpen) /\ Cardinality(CallsOpen) \in Nat
    BY CallsFinite
  <1>7. IsFiniteSet(CallsOpen \ {call}) /\ IsFiniteSet(CallsOpen')
    BY <1>5, <1>6, FS_Subset
  <1>8. Cardinality(CallsOpen') <= Cardinality(CallsOpen \ {call})
    BY <1>5, <1>7, FS_Subset
  <1>9. Cardinality(CallsOpen \ {call}) = Cardinality(CallsOpen) - 1
    BY <1>4, <1>6, FS_RemoveElement
  <1>10. Cardinality(CallsOpen') \in Nat
    BY <1>7, FS_CardinalityType
  <1>11. QED BY <1>1, <1>6, <1>8, <1>9, <1>10

LEMMA CriticNearer ==
  ASSUME CriticInv, CriticWorks
  PROVE  FileNearer
  <1>1. phase = "critic" /\ phase' = "critic" /\ Critic!CriticStep
    BY DEF CriticWorks, rootVars
  <1>2. CASE Critic!Settle \/ Critic!VerdictRaises
    <2>1. judging = "ask" /\ judging' # "ask"
      BY <1>2 DEF Critic!Settle, Critic!VerdictRaises
    <2>2. TurnsLeft = 1 /\ TurnsLeft' = 0
      BY <1>1, <2>1 DEF TurnsLeft
    <2>3. QED BY <1>1, <2>2 DEF FileNearer, PhasesLeft
  <1>3. ASSUME NEW b \in Critic!Batches, Critic!CallFails(b) \/ Critic!CallAnswers(b)
        PROVE  FileNearer
    <2>1. /\ judging' = "ask" /\ judging = "ask"
          /\ Cardinality(CallsOpen') < Cardinality(CallsOpen)
      BY <1>3, CallNearer
    <2>2. PlacesLeft = Cardinality(CallsOpen) /\ PlacesLeft' = Cardinality(CallsOpen')
      BY <1>1, <2>1 DEF PlacesLeft
    <2>3. QED BY <1>1, <2>1, <2>2 DEF FileNearer, PhasesLeft, TurnsLeft
  <1>4. QED BY <1>1, <1>2, <1>3 DEF Critic!CriticStep

LEMMA ContextReviewNearer ==
  ASSUME Collects!ContextAssumption, Collects!ContextInv, ContextWorks
  PROVE  FileNearer
  <1>1. phase = "resource" /\ phase' = "resource" /\ Collects!ContextStep
    BY SameContextStep DEF ContextWorks, rootVars
  <1>2. \/ Collects!CandidatesLeft' < Collects!CandidatesLeft
        \/ /\ Collects!CandidatesLeft' = Collects!CandidatesLeft
           /\ Collects!MethodsLeft' < Collects!MethodsLeft
    BY <1>1, Collects!StepNearer DEF Collects!ContextNearer
  <1>3. /\ TurnsLeft = Collects!CandidatesLeft /\ TurnsLeft' = Collects!CandidatesLeft'
        /\ PlacesLeft = Collects!MethodsLeft /\ PlacesLeft' = Collects!MethodsLeft'
        /\ PhasesLeft' = PhasesLeft
    BY <1>1 DEF TurnsLeft, PlacesLeft, PhasesLeft
  <1>4. QED BY <1>2, <1>3 DEF FileNearer

LEMMA SemanticNearer ==
  ASSUME Reads!ReviewAssumption, Reads!ReviewInv, SemanticBegins \/ SemanticWorks
  PROVE  FileNearer
  <1>1. CASE SemanticBegins /\ qwen
    <2>1. /\ phase = "semantic" /\ phase' = "semantic"
          /\ reading = "off" /\ reading' = "window"
      BY <1>1 DEF SemanticBegins, Semantic!ReviewBegin
    <2>2. TurnsLeft = 2 /\ TurnsLeft' = 1 /\ PhasesLeft' = PhasesLeft
      BY <2>1 DEF TurnsLeft, ReadingLeft, PhasesLeft
    <2>3. QED BY <2>2 DEF FileNearer
  <1>2. CASE SemanticBegins /\ ~qwen
    BY <1>2 DEF SemanticBegins, Goto, FileNearer, PhasesLeft
  <1>3. CASE SemanticWorks
    <2>1. phase = "semantic" /\ phase' = "semantic" /\ Reads!ReviewStep
      BY <1>3, SameReviewStep DEF SemanticWorks, rootVars
    <2>2. /\ size' = size /\ offset \in 0 .. size - 1 /\ reading = "window"
          /\ reading' = "done" \/ (reading' = "window" /\ offset' \in offset + 1 .. size - 1)
      BY <2>1, Reads!StepOnward
    <2>3. size \in Nat
      BY <2>2 DEF Reads!ReviewInv, Reads!TextType
    <2>4. PhasesLeft' = PhasesLeft /\ TurnsLeft = 1
      BY <2>1, <2>2 DEF PhasesLeft, TurnsLeft, ReadingLeft
    <2>5. CASE reading' = "done"
      <3>1. TurnsLeft' = 0
        BY <2>1, <2>5 DEF TurnsLeft, ReadingLeft
      <3>2. QED BY <2>4, <3>1 DEF FileNearer
    <2>6. CASE reading' = "window" /\ offset' \in offset + 1 .. size - 1
      <3>1. TurnsLeft' = 1 /\ PlacesLeft = size - offset /\ PlacesLeft' = size - offset'
        BY <2>1, <2>2, <2>6 DEF TurnsLeft, ReadingLeft, PlacesLeft
      <3>2. size - offset' < size - offset
        <4>1. offset \in Nat /\ offset' \in Nat /\ offset < offset'
          BY <2>2, <2>3, <2>6
        <4>2. \A o, p, n \in Nat : o < p => n - p < n - o
          OBVIOUS
        <4>3. QED BY <2>3, <4>1, <4>2
      <3>3. QED BY <2>4, <3>1, <3>2 DEF FileNearer
    <2>7. QED BY <2>2, <2>5, <2>6
  <1>4. QED BY <1>1, <1>2, <1>3

LEMMA ModelNearer ==
  ASSUME VerdictInv, ModelWorks
  PROVE  FileNearer
  <1>1. phase = "model" /\ phase' = "model" /\ Model!VerdictStep
    BY DEF ModelWorks, rootVars
  <1>2. PhasesLeft' = PhasesLeft /\ TurnsLeft = AskingLeft /\ TurnsLeft' = AskingLeft'
    BY <1>1 DEF PhasesLeft, TurnsLeft
  <1>3. CASE Model!Unparsed
    <2>1. asking = "detect" /\ tries' = tries + 1 /\ asking' \in {"detect", "check"}
      BY <1>3 DEF Model!Unparsed
    <2>2. tries \in 0 .. 2 /\ tries' \in 1 .. 3
      BY <2>1 DEF VerdictInv, Model!VerdictType, Model!MaxTries
    <2>3. PlacesLeft = 2 - tries /\ PlacesLeft' = 2 - tries'
      BY <1>1 DEF PlacesLeft, Model!MaxTries
    <2>4. PlacesLeft' < PlacesLeft
      BY <2>1, <2>2, <2>3
    <2>5. AskingLeft = 5 /\ AskingLeft' \in {5, 4}
      BY <2>1 DEF AskingLeft
    <2>6. QED BY <1>2, <2>4, <2>5 DEF FileNearer
  <1>4. CASE Model!Answered \/ Model!DetectRaises
    <2>1. asking = "detect" /\ asking' \in {"check", "failed"}
      BY <1>4 DEF Model!Answered, Model!DetectRaises
    <2>2. AskingLeft = 5 /\ AskingLeft' \in {4, 0}
      BY <2>1 DEF AskingLeft
    <2>3. QED BY <1>2, <2>2 DEF FileNearer
  <1>5. CASE Model!CheckKnown
    <2>1. asking = "check" /\ asking' \in {"verify", "score", "joern"}
      BY <1>5 DEF Model!CheckKnown
    <2>2. AskingLeft = 4 /\ AskingLeft' \in {3, 2, 1}
      BY <2>1 DEF AskingLeft
    <2>3. QED BY <1>2, <2>2 DEF FileNearer
  <1>6. CASE Model!Verify
    <2>1. AskingLeft = 3 /\ AskingLeft' = 2
      BY <1>6 DEF Model!Verify, AskingLeft
    <2>2. QED BY <1>2, <2>1 DEF FileNearer
  <1>7. CASE Model!Score
    <2>1. AskingLeft = 2 /\ AskingLeft' = 1
      BY <1>7 DEF Model!Score, AskingLeft
    <2>2. QED BY <1>2, <2>1 DEF FileNearer
  <1>8. CASE Model!Decide
    <2>1. AskingLeft = 1 /\ AskingLeft' = 0
      BY <1>8 DEF Model!Decide, AskingLeft
    <2>2. QED BY <1>2, <2>1 DEF FileNearer
  <1>9. QED BY <1>1, <1>3, <1>4, <1>5, <1>6, <1>7, <1>8 DEF Model!VerdictStep

\* The steps from one phase to another.
LEMMA PhaseNearer ==
  ASSUME \/ Found \/ NothingFound \/ CriticReturns \/ RouteJava \/ RouteContext
         \/ ContextReturns \/ SemanticReturns \/ Merge \/ RouteModel \/ ModelReturns
  PROVE  FileNearer
  <1>1. \/ phase = "new" /\ phase' \in {"critic", "route"}
        \/ phase = "critic" /\ phase' = "route"
        \/ phase = "route" /\ phase' \in {"merge", "semantic", "resource", "model"}
        \/ phase = "resource" /\ phase' = "semantic"
        \/ phase = "semantic" /\ phase' = "merge"
        \/ phase \in {"merge", "model"} /\ phase' = "end"
    BY DEF Found, NothingFound, CriticReturns, RouteJava, AfterResource, RouteContext,
           ContextReturns, SemanticReturns, Merge, RouteModel, ModelReturns, Goto
  <1>2. PhasesLeft' < PhasesLeft
    BY <1>1 DEF PhasesLeft
  <1>3. QED BY <1>2 DEF FileNearer

LEMMA FileLeftNatural ==
  ASSUME RootType, CriticInv, VerdictInv, Collects!ContextLeft, Reads!ReviewInv
  PROVE  FileLeft
  <1>1. PhasesLeft \in Nat
    BY DEF RootType, PhasesLeft
  <1>2. ReadingLeft \in Nat
    BY DEF ReadingLeft, Reads!ReviewInv, Reads!ReviewType
  <1>3. AskingLeft \in Nat
    BY DEF AskingLeft, VerdictInv, Model!VerdictType
  <1>4. TurnsLeft \in Nat
    BY <1>2, <1>3 DEF TurnsLeft, RootType, Collects!ContextLeft
  <1>5. Model!MaxTries - tries \in Nat
    BY DEF VerdictInv, Model!VerdictType, Model!MaxTries
  <1>6. reading = "window" => size - offset \in Nat
    BY DEF Reads!ReviewInv, Reads!TextType
  <1>7. PlacesLeft \in Nat
    BY <1>5, <1>6, CallsFinite DEF PlacesLeft, RootType, Collects!ContextLeft
  <1>8. QED BY <1>1, <1>4, <1>7 DEF FileLeft

(***************************************************************************)
(* Every step the request of a file takes brings it nearer to its answer,  *)
(* whatever the critic, the reviews and the model say or fail to say:      *)
(* phases, turns and places, in this order, become less.                   *)
(***************************************************************************)
THEOREM FileAdvances == Spec => []FileLeft /\ [][FileNearer]_vars
  <1>1. Collects!ContextAssumption /\ Reads!ReviewAssumption
    BY FileAssumption, SameFinite DEF Collects!ContextAssumption, Reads!ReviewAssumption
  <1>2. Collects!ContextSpec => []Collects!ContextInv
    BY <1>1, Collects!ContextInvAlways
  <1>3. Reads!ReviewSpec => []Reads!ReviewInv
    BY <1>1, Reads!ReviewInvAlways
  <1>4. Collects!ContextInv => Collects!ContextLeft
    BY <1>1, Collects!LeftIsNatural
  <1>5. RootType /\ CriticInv /\ VerdictInv /\ Collects!ContextInv /\ Reads!ReviewInv
          => FileLeft
    BY <1>4, FileLeftNatural
  <1>6. CriticInv /\ VerdictInv /\ Collects!ContextInv /\ Reads!ReviewInv => FileNearer
    <2> SUFFICES ASSUME CriticInv, VerdictInv, Collects!ContextInv, Reads!ReviewInv, Step
                 PROVE  FileNearer
      BY DEF FileNearer
    <2>1. QED
      BY <1>1, PhaseNearer, CriticNearer, ContextReviewNearer, SemanticNearer, ModelNearer
      DEF Step
  <1>7. QED BY <1>2, <1>3, <1>5, <1>6, RunsContext, RunsReview, CriticAlways, PathAlways, PTL
=============================================================================
