-------------------------------- MODULE Critic --------------------------------
(***************************************************************************)
(* review_findings (scanops/core/graph_spec_prod.py): the flows Joern found *)
(* are reduced to one finding per location, a language model judges them in *)
(* batches that run at once, and a finding is removed when its last verdict *)
(* is a FALSE with grounds.                                                 *)
(*                                                                         *)
(* A location (file, line and category) is a number, in the order of the    *)
(* ids.  A verdict is "keep" (TRUE, UNCERTAIN), or a FALSE that is          *)
(* "unfounded" (no high confidence, no reason, no line within CTX of the    *)
(* finding), rests on a line the prompt "shown", or on one that is only     *)
(* "near": within CTX, but past the end of the file or of a text that the   *)
(* prompt did not have.                                                     *)
(***************************************************************************)
EXTENDS Naturals, Sequences, FiniteSets, FiniteSetsExt, Functions

CONSTANTS
  FlowLists,    \* what Joern may report: sequences of [at, sanitized]
  CriticBatch   \* CRITIC_BATCH

VARIABLES
  judging,   \* "off", "ask", "raised", "kept"
  flows,     \* the findings given to review_findings
  enabled,   \* critic_enabled
  calls,     \* the calls each batch has made
  answers,   \* the arrays that came back: [batch -> [location -> verdict]]
  kept       \* the locations kept

criticVars == <<judging, flows, enabled, calls, answers, kept>>

Verdicts == {"keep", "unfounded", "shown", "near"}
MaxCalls == 2
NoAnswer == [l \in {} |-> "keep"]

\* _dedupe of the flows that are not sanitised: one representative for each
\* location.
Uniq == {flows[k].at : k \in {n \in DOMAIN flows : ~flows[n].sanitized}}

\* The batch of a location; _evidence_ok holds of every finding, so that all
\* are sent.
BatchOf(l) == (Cardinality({m \in Uniq : m <= l}) - 1) \div CriticBatch + 1
Batches    == {BatchOf(l) : l \in Uniq}
Open       == {b \in Batches : b \notin DOMAIN answers}

CriticIdle ==
  /\ judging = "off"
  /\ flows = <<>> /\ enabled = FALSE
  /\ calls = <<>> /\ answers = <<>>
  /\ kept = {}

\* Nothing to judge, or no critic: what is unique is kept.
CriticBegin(on) ==
  /\ judging = "off"
  /\ flows' \in FlowLists
  /\ enabled' = on
  /\ IF on /\ Uniq' # {}
       THEN /\ judging' = "ask"
            /\ calls' = [b \in Batches' |-> 0]
            /\ kept' = {}
       ELSE /\ judging' = "kept"
            /\ calls' = <<>>
            /\ kept' = Uniq'
  /\ answers' = <<>>

Answer(b, answer) ==
  /\ answers' = [c \in DOMAIN answers \cup {b} |-> IF c = b THEN answer ELSE answers[c]]
  /\ UNCHANGED <<judging, flows, enabled, kept>>

\* The call raises, or brings no array or an empty one; after the second time
\* the batch counts as answered without verdicts.
CallFails(b) ==
  /\ judging = "ask" /\ b \in Open
  /\ calls' = [calls EXCEPT ![b] = @ + 1]
  /\ IF calls'[b] < MaxCalls
       THEN UNCHANGED <<judging, flows, enabled, answers, kept>>
       ELSE Answer(b, NoAnswer)

\* An array of verdicts.  Its ids may be any, also those of other batches.
CallAnswers(b) ==
  /\ judging = "ask" /\ b \in Open
  /\ calls' = [calls EXCEPT ![b] = @ + 1]
  /\ \E named \in SUBSET Uniq : \E a \in [named -> Verdicts] : Answer(b, a)

\* The verdict on a location, in the order of the batches: the last one wins.
Judged(l)  == {b \in DOMAIN answers : l \in DOMAIN answers[b]}
Verdict(l) == IF Judged(l) = {} THEN "keep" ELSE answers[Max(Judged(l))][l]

\* _critic_false_is_grounded compares numbers: it does not look at what the
\* prompt showed.
Grounded(v) == v \in {"shown", "near"}

Settle ==
  /\ judging = "ask" /\ Open = {}
  /\ judging' = "kept"
  /\ kept' = {l \in Uniq : ~Grounded(Verdict(l))}
  /\ UNCHANGED <<flows, enabled, calls, answers>>

\* An answer with an id that cannot be hashed: the exception leaves
\* analyze_repo, and the other answers with it.
VerdictRaises ==
  /\ judging = "ask" /\ Open # {}
  /\ judging' = "raised"
  /\ UNCHANGED <<flows, enabled, calls, answers, kept>>

CriticStep ==
  \/ \E b \in Batches : CallFails(b) \/ CallAnswers(b)
  \/ Settle
  \/ VerdictRaises

CriticReset ==
  /\ judging' = "off"
  /\ flows' = <<>> /\ enabled' = FALSE
  /\ calls' = <<>> /\ answers' = <<>>
  /\ kept' = {}

CriticType ==
  /\ judging \in {"off", "ask", "raised", "kept"}
  /\ flows \in FlowLists \cup {<<>>}
  /\ enabled \in BOOLEAN
  /\ DOMAIN calls \subseteq Batches /\ Range(calls) \subseteq 0 .. MaxCalls
  /\ DOMAIN answers \subseteq Batches
  /\ kept \subseteq Uniq

-----------------------------------------------------------------------------
(* Properties.                                                              *)

Says(b, l, verdicts) == l \in DOMAIN answers[b] /\ answers[b][l] \in verdicts

\* "Only allow a FALSE to suppress when its cited line was actually shown to
\* the model": a finding is removed only by the batch whose prompt had it, on a
\* line of that prompt.
RemovedOnShownLine ==
  judging = "kept" => \A l \in Uniq \ kept :
    BatchOf(l) \in DOMAIN answers /\ Says(BatchOf(l), l, {"shown"})
=============================================================================
