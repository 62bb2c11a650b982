----------------------------- MODULE FileAnalysis -----------------------------
(***************************************************************************)
(* A file from Joern's findings to its answer: filter_findings, then        *)
(* _repo_overrides and _analyze_one of scripts/api_rebuild.py.  The critic, *)
(* the resource review, the semantic review and the verdict of the model    *)
(* are modules of their own, entered in turn; their variables are locals of *)
(* functions and are reset on return.  A deployment's settings are chosen   *)
(* where they are first looked at.                                          *)
(***************************************************************************)
EXTENDS Naturals, Sequences, FiniteSets

CONSTANTS
  FlowLists, CriticBatch,                     \* of Critic
  Methods, CallSets, Constructors, Roots, MethodLimit, SizeLimit,    \* of ResourceContext
  Lengths, MaxChars, Overlap,                 \* of SemanticReview
  Scores, Delta, Tau, NoScore                 \* of ModelVerdict

VARIABLES
  judging, flows, enabled, calls, answers, kept,
  collecting, program, roots, parsed, current, selected, todo, unresolved, contexts,
  reviewed, whole, accepted,
  reading, size, newlines, spot, offset, complete, found, covered, reported,
  asking, policy, tuned, reference, tries, said, score, joern, outcome, tokenCheck, rival

VARIABLES
  phase,      \* where the file is
  qwen,       \* qwen_runtime_ready()
  engine,     \* JAVA_ENGINE, or "model": the file is not Java
  cpg,        \* the override: its verdict, or "none"
  resource,   \* resource["status"], "none" before
  semantic,   \* semantic["status"], "none" before
  flagged,    \* accepted findings of either review
  sound,      \* those reviews have seen everything (history)
  answer      \* [detected, status] of the response

criticVars  == <<judging, flows, enabled, calls, answers, kept>>
contextVars == <<collecting, program, roots, parsed, current, selected, todo,
                 unresolved, contexts, reviewed, whole, accepted>>
reviewVars  == <<reading, size, newlines, spot, offset, complete, found, covered, reported>>
fileVars    == <<asking, policy, tuned, tries, said, score, joern, outcome>>
processVars == <<reference, tokenCheck, rival>>
rootVars    == <<phase, qwen, engine, cpg, resource, semantic, flagged, sound, answer>>
vars == <<criticVars, contextVars, reviewVars, fileVars, processVars, rootVars>>

Critic   == INSTANCE Critic
Context  == INSTANCE ResourceContext
Semantic == INSTANCE SemanticReview WITH said <- reported
Model    == INSTANCE ModelVerdict

ASSUME FileAssumption ==
  /\ FlowLists \subseteq Seq([at : Nat, sanitized : BOOLEAN])
  /\ IsFiniteSet(Methods) /\ Roots \subseteq Seq(Methods)
  /\ CallSets \subseteq SUBSET SUBSET Methods /\ Constructors \subseteq SUBSET Methods
  /\ CriticBatch \in Nat \ {0} /\ MethodLimit \in Nat \ {0} /\ SizeLimit \in Nat
  /\ MaxChars \in Nat /\ MaxChars >= 2 /\ Overlap \in Nat /\ Lengths \subseteq Nat \ {0}
  /\ Scores \subseteq Nat /\ Delta \in Nat /\ Tau \in Nat /\ NoScore \notin Scores

Engines == {"cpg-qwen38", "cpg-qwen38-ensemble", "cpg-qwen38-context"}
Reviews == {"none", "DONE", "PARTIAL"}
Open    == [detected |-> FALSE, status |-> "open"]

Init ==
  /\ Critic!CriticIdle /\ Context!ContextIdle /\ Semantic!ReviewIdle
  /\ Model!VerdictIdle /\ Model!ProcessInit
  /\ phase = "new" /\ qwen \in BOOLEAN /\ engine = "none" /\ cpg = "none"
  /\ resource = "none" /\ semantic = "none"
  /\ flagged = FALSE /\ sound = TRUE /\ answer = Open

Goto(p) == phase' = p

-----------------------------------------------------------------------------
(* The findings of the repository.                                          *)

\* The taint call brought findings; the critic needs the model's runtime.
Found ==
  /\ phase = "new"
  /\ \E on \in BOOLEAN : (on => qwen) /\ Critic!CriticBegin(on)
  /\ Goto("critic")
  /\ UNCHANGED <<qwen, engine, cpg, resource, semantic, flagged, sound, answer,
                 contextVars, reviewVars, fileVars, processVars>>

\* It brought none, or failed, or there was none.
NothingFound ==
  /\ phase = "new"
  /\ cpg' \in {"none", "safe"}
  /\ Goto("route")
  /\ UNCHANGED <<qwen, engine, resource, semantic, flagged, sound, answer,
                 criticVars, contextVars, reviewVars, fileVars, processVars>>

CriticWorks ==
  /\ phase = "critic"
  /\ Critic!CriticStep
  /\ UNCHANGED <<rootVars, contextVars, reviewVars, fileVars, processVars>>

\* _findings_to_overrides: any finding kept makes the file vulnerable.  When
\* the critic raised, there is no override.
CriticReturns ==
  /\ phase = "critic" /\ judging \in {"kept", "raised"}
  /\ cpg' = CASE judging = "raised" -> "none"
              [] judging = "kept"   -> IF kept = {} THEN "safe" ELSE "vuln"
  /\ Goto("route")
  /\ Critic!CriticReset
  /\ UNCHANGED <<qwen, engine, resource, semantic, flagged, sound, answer,
                 contextVars, reviewVars, fileVars, processVars>>

-----------------------------------------------------------------------------
(* Java files.                                                              *)

AfterResource(e) == IF e = "cpg-qwen38" THEN "merge" ELSE "semantic"

\* Without a review of the repository (no override, /analyze, stop_on_first)
\* the context engine knows that it lacks one; the others do not ask.
RouteJava ==
  /\ phase = "route"
  /\ engine' \in Engines
  /\ resource' = IF engine' = "cpg-qwen38-context" THEN "PARTIAL" ELSE "DONE"
  /\ Goto(AfterResource(engine'))
  /\ UNCHANGED <<qwen, cpg, semantic, flagged, sound, answer,
                 criticVars, contextVars, reviewVars, fileVars, processVars>>

\* _repo_overrides: the resource review of the repository.
RouteContext ==
  /\ phase = "route" /\ cpg # "none" /\ qwen
  /\ engine' = "cpg-qwen38-context"
  /\ Context!ContextBegin
  /\ Goto("resource")
  /\ UNCHANGED <<qwen, cpg, resource, semantic, flagged, sound, answer,
                 criticVars, reviewVars, fileVars, processVars>>

ContextWorks ==
  /\ phase = "resource"
  /\ Context!ContextStep
  /\ UNCHANGED <<rootVars, criticVars, reviewVars, fileVars, processVars>>

ContextReturns ==
  /\ phase = "resource" /\ collecting = "done"
  /\ resource' = IF whole THEN "DONE" ELSE "PARTIAL"
  /\ flagged' = accepted
  /\ sound' = (parsed /\ reviewed = DOMAIN roots)
  /\ Goto("semantic")
  /\ Context!ContextReset
  /\ UNCHANGED <<qwen, engine, cpg, semantic, answer,
                 criticVars, reviewVars, fileVars, processVars>>

SemanticBegins ==
  /\ phase = "semantic" /\ reading = "off"
  /\ IF qwen
       THEN Semantic!ReviewBegin /\ UNCHANGED <<phase, semantic>>
       ELSE semantic' = "PARTIAL" /\ Goto("merge") /\ UNCHANGED reviewVars
  /\ UNCHANGED <<qwen, engine, cpg, resource, flagged, sound, answer,
                 criticVars, contextVars, fileVars, processVars>>

SemanticWorks ==
  /\ phase = "semantic"
  /\ Semantic!ReviewStep
  /\ UNCHANGED <<rootVars, criticVars, contextVars, fileVars, processVars>>

SemanticReturns ==
  /\ phase = "semantic" /\ reading = "done"
  /\ semantic' = IF complete THEN "DONE" ELSE "PARTIAL"
  /\ flagged' = (flagged \/ Semantic!Accepted)
  /\ sound' = (sound /\ Semantic!Whole)
  /\ Goto("merge")
  /\ Semantic!ReviewReset
  /\ UNCHANGED <<qwen, engine, cpg, resource, answer,
                 criticVars, contextVars, fileVars, processVars>>

\* java_semantic.merge: Joern's findings and the accepted ones of the reviews.
Detected == cpg = "vuln" \/ flagged

\* The answer; "cpg-qwen38" looks at no review.
Merge ==
  /\ phase = "merge"
  /\ answer' = [detected |-> Detected,
                status |-> IF cpg # "none" /\ semantic \in {"DONE", "none"} /\ resource = "DONE"
                             THEN "DONE" ELSE "PARTIAL"]
  /\ Goto("end")
  /\ UNCHANGED <<qwen, engine, cpg, resource, semantic, flagged, sound,
                 criticVars, contextVars, reviewVars, fileVars, processVars>>

-----------------------------------------------------------------------------
(* Other files.                                                             *)

RouteModel ==
  /\ phase = "route"
  /\ engine' = "model"
  /\ Model!VerdictBegin(cpg)
  /\ Goto("model")
  /\ UNCHANGED <<qwen, cpg, resource, semantic, flagged, sound, answer,
                 criticVars, contextVars, reviewVars>>

ModelWorks ==
  /\ phase = "model"
  /\ Model!VerdictStep
  /\ UNCHANGED <<rootVars, criticVars, contextVars, reviewVars>>

\* A model that raised fails the request.
ModelReturns ==
  /\ phase = "model" /\ asking \in {"done", "failed"}
  /\ answer' = IF asking = "failed" THEN Open
                 ELSE [detected |-> outcome.detected, status |-> outcome.status]
  /\ Goto("end")
  /\ Model!VerdictReset
  /\ UNCHANGED <<qwen, engine, cpg, resource, semantic, flagged, sound,
                 criticVars, contextVars, reviewVars>>

OtherThreads ==
  /\ phase = "model"
  /\ Model!RivalStep
  /\ UNCHANGED <<rootVars, criticVars, contextVars, reviewVars>>

-----------------------------------------------------------------------------
Quiescent == phase = "end" /\ UNCHANGED vars

Step ==
  \/ Found \/ NothingFound \/ CriticWorks \/ CriticReturns
  \/ RouteJava \/ RouteContext \/ ContextWorks \/ ContextReturns
  \/ SemanticBegins \/ SemanticWorks \/ SemanticReturns \/ Merge
  \/ RouteModel \/ ModelWorks \/ ModelReturns

Next == Step \/ OtherThreads \/ Quiescent

Spec == Init /\ [][Next]_vars

\* The thread of the request runs on; every call it makes has a limit.
FairSpec == Spec /\ WF_vars(Step)

-----------------------------------------------------------------------------
(* Properties.                                                              *)

TypeOK ==
  /\ Critic!CriticType /\ Context!ContextType /\ Semantic!ReviewType /\ Model!VerdictType
  /\ phase \in {"new", "critic", "route", "resource", "semantic", "merge", "model", "end"}
  /\ qwen \in BOOLEAN /\ engine \in Engines \cup {"none", "model"}
  /\ cpg \in {"none", "safe", "vuln"}
  /\ resource \in Reviews /\ semantic \in Reviews
  /\ flagged \in BOOLEAN /\ sound \in BOOLEAN
  /\ answer \in [detected : BOOLEAN, status : {"open", "DONE", "PARTIAL"}]

\* A Java file that is DONE was analysed by Joern, was shown to the model as a
\* whole where the engine has a semantic review, and had every candidate of
\* its repository reviewed where it has a resource review.
DoneFileReviewed ==
  phase = "end" /\ engine \in Engines /\ answer.status = "DONE" =>
    /\ cpg # "none" /\ sound
    /\ engine # "cpg-qwen38" => qwen /\ semantic = "DONE"
    /\ engine = "cpg-qwen38-context" => resource = "DONE"

\* The properties of the parts, while they run.
RemovedOnShownLine    == Critic!RemovedOnShownLine
ContextClosed         == Context!ContextClosed
NoGap                 == Semantic!NoGap
FindingsKept          == Semantic!FindingsKept
EvidenceMonotone      == Model!EvidenceMonotone
ScoreDefined          == Model!ScoreDefined

\* Every file gets its answer: windows advance, and retries, batches and
\* worklists come to an end.
FileEnds == <>(phase = "end")
=============================================================================
