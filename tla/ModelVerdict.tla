----------------------------- MODULE ModelVerdict -----------------------------
(***************************************************************************)
(* The verdict on a file that is not Java: _detect, _score and _joern of    *)
(* scripts/api_rebuild.py, verify_token_ids of scanops/core/logprob_score.py *)
(* and aggregate of scanops/core/hybrid.py.  The service passes no verdict  *)
(* of the graph engine (graph is None).                                     *)
(***************************************************************************)
EXTENDS Integers, FiniteSets

CONSTANTS
  Scores,   \* scores a model gives
  Delta,    \* DELTA, not negative
  Tau,      \* TAU
  NoScore

VARIABLES
  asking,      \* "off", "detect", "check", "verify", "score", "joern", "failed", "done"
  policy,      \* HYBRID_POLICY
  tuned,       \* DELTA and TAU are known
  reference,   \* the server's tokenizer is the one scores are defined for
  tries,       \* calls of the model
  said,        \* what its answer was
  score,       \* the score of the file
  joern,       \* the verdict of Joern, from the batch or from _joern
  outcome,     \* what aggregate returned
  tokenCheck,  \* _TOKEN_CHECK, of the process
  rival        \* another thread is in verify_token_ids

fileVars    == <<asking, policy, tuned, tries, said, score, joern, outcome>>
processVars == <<reference, tokenCheck, rival>>

Policies == {"TRUST-JOERN", "JOERN-AS-SIGNAL", "JOERN-NO-BETTER"}
Sources  == {"llm", "joern", "llm+joern"}
MaxTries == 2
Open     == [detected |-> FALSE, status |-> "open", source |-> "llm"]

VerdictIdle ==
  /\ asking = "off" /\ policy = "JOERN-NO-BETTER" /\ tuned = FALSE
  /\ tries = 0 /\ said = "open" /\ score = NoScore /\ joern = "none" /\ outcome = Open

ProcessInit ==
  /\ reference \in BOOLEAN
  /\ tokenCheck = "unchecked"
  /\ rival = FALSE

\* override is what the analysis of the batch said, "none" without one.
VerdictBegin(override) ==
  /\ asking = "off"
  /\ asking' = "detect"
  /\ policy' \in Policies /\ tuned' \in BOOLEAN
  /\ joern' = override
  /\ tries' = 0 /\ said' = "open" /\ score' = NoScore /\ outcome' = Open
  /\ UNCHANGED processVars

-----------------------------------------------------------------------------
(* _detect                                                                  *)

\* No first line in the answer: one more call with a larger budget, and after
\* that the file counts as safe.
Unparsed ==
  /\ asking = "detect"
  /\ tries' = tries + 1
  /\ IF tries' < MaxTries
       THEN UNCHANGED <<asking, said>>
       ELSE said' = "unparsed" /\ asking' = "check"
  /\ UNCHANGED <<policy, tuned, score, joern, outcome, processVars>>

Answered ==
  /\ asking = "detect"
  /\ tries' = tries + 1
  /\ said' \in {"vuln", "none"}
  /\ asking' = "check"
  /\ UNCHANGED <<policy, tuned, score, joern, outcome, processVars>>

\* The client raises, and so does the request.
DetectRaises ==
  /\ asking = "detect"
  /\ asking' = "failed"
  /\ UNCHANGED <<policy, tuned, tries, said, score, joern, outcome, processVars>>

-----------------------------------------------------------------------------
(* _score                                                                   *)

\* Scores are off, or the check was made before.
CheckKnown ==
  /\ asking = "check"
  /\ asking' \in {"joern"} \cup IF tokenCheck = "unchecked" THEN {"verify"} ELSE {"score"}
  /\ UNCHANGED <<policy, tuned, tries, said, score, joern, outcome, processVars>>

\* Mutant: what could not be compared counts as equal.
VerifiedLenient == {"ok"} \cup IF reference THEN {} ELSE {"bad"}

\* verify_token_ids: a call that raises is a mismatch.
Verified == {"bad"} \cup IF reference THEN {"ok"} ELSE {}

\* The result is assigned, also over one that another thread assigned after
\* this one had found none.
Verify ==
  /\ asking = "verify"
  /\ tokenCheck' \in Verified
  /\ asking' = "score"
  /\ UNCHANGED <<policy, tuned, tries, said, score, joern, outcome, reference, rival>>

\* Other threads do the same.
RivalBegins ==
  /\ ~rival /\ tokenCheck = "unchecked"
  /\ rival' = TRUE
  /\ UNCHANGED <<fileVars, reference, tokenCheck>>

RivalVerifies ==
  /\ rival
  /\ rival' = FALSE
  /\ tokenCheck' \in Verified
  /\ UNCHANGED <<fileVars, reference>>

\* _TOKEN_CHECK is read again; a call that raises gives no score.
Score ==
  /\ asking = "score"
  /\ score' \in {NoScore} \cup IF tokenCheck = "ok" THEN Scores ELSE {}
  /\ asking' = "joern"
  /\ UNCHANGED <<policy, tuned, tries, said, joern, outcome, processVars>>

-----------------------------------------------------------------------------
(* aggregate                                                                *)

Result(detected, status, source) ==
  [detected |-> detected, status |-> status, source |-> source]

StatusWith(j) == IF j = "none" THEN "PARTIAL" ELSE "DONE"

ModelOnly == Result(said = "vuln", "DONE", "llm")

\* Mutant: a "safe" of Joern decides, too.
TrustJoernBoth(j) ==
  IF j # "none" THEN Result(j = "vuln", StatusWith(j), "joern")
                ELSE Result(said = "vuln", StatusWith(j), "llm")

TrustJoern(j) ==
  IF j = "vuln" THEN Result(TRUE, StatusWith(j), "joern")
                ELSE Result(said = "vuln", StatusWith(j), "llm")

\* Without a score, or thresholds, the policy falls back to the model's own
\* verdict.
AsSignal(j) ==
  IF score = NoScore \/ ~tuned
    THEN ModelOnly
    ELSE Result(score + (IF j = "vuln" THEN Delta ELSE 0) >= Tau, StatusWith(j), "llm+joern")

Aggregate(j) ==
  CASE policy = "TRUST-JOERN"     -> TrustJoern(j)
    [] policy = "JOERN-AS-SIGNAL" -> AsSignal(j)
    [] policy = "JOERN-NO-BETTER" -> ModelOnly

\* Without an override _joern asks a worker, if there is one; a failure is no
\* verdict.
Decide ==
  /\ asking = "joern"
  /\ joern' \in IF joern = "none" THEN {"none", "safe", "vuln"} ELSE {joern}
  /\ outcome' = Aggregate(joern')
  /\ asking' = "done"
  /\ UNCHANGED <<policy, tuned, tries, said, score, processVars>>

VerdictStep ==
  Unparsed \/ Answered \/ DetectRaises \/ CheckKnown \/ Verify \/ Score \/ Decide

RivalStep == RivalBegins \/ RivalVerifies

VerdictReset ==
  /\ asking' = "off" /\ policy' = "JOERN-NO-BETTER" /\ tuned' = FALSE
  /\ tries' = 0 /\ said' = "open" /\ score' = NoScore /\ joern' = "none" /\ outcome' = Open
  /\ UNCHANGED processVars

VerdictType ==
  /\ asking \in {"off", "detect", "check", "verify", "score", "joern", "failed", "done"}
  /\ policy \in Policies /\ tuned \in BOOLEAN /\ reference \in BOOLEAN /\ rival \in BOOLEAN
  /\ tries \in 0 .. MaxTries
  /\ said \in {"open", "vuln", "none", "unparsed"}
  /\ score \in Scores \cup {NoScore} /\ joern \in {"none", "safe", "vuln"}
  /\ outcome \in [detected : BOOLEAN, status : {"open", "DONE", "PARTIAL"}, source : Sources]
  /\ tokenCheck \in {"unchecked", "ok", "bad"}

-----------------------------------------------------------------------------
(* Properties.                                                              *)

\* "A safe of joern overrides no verdict": what would have been a detection
\* without Joern is one with whatever Joern says, under every policy.
EvidenceMonotone ==
  asking = "done" /\ Aggregate("none").detected => outcome.detected

\* A score is given only where the tokenizer is the one the thresholds were
\* measured with, in whatever order threads check and overwrite each other.
ScoreDefined == score # NoScore => reference
=============================================================================
