---------------------------- MODULE ResourceContext ----------------------------
(***************************************************************************)
(* collect and review (scanops/core/java_resource_context.py): for every    *)
(* call that checks a repository out, the methods it depends on are         *)
(* collected along calls that can be resolved, and a language model reviews *)
(* the candidates whose context is complete.                                *)
(*                                                                         *)
(* The parser is outside: a program is a set of methods, the matches of     *)
(* each of their calls, and the constructors of the class all of them are   *)
(* in.  Every method has the same length.                                   *)
(***************************************************************************)
EXTENDS Naturals, Sequences, FiniteSets

CONSTANTS
  Methods,       \* the methods of a program
  CallSets,      \* what the calls of a method may match: sets of sets of methods
  Constructors,  \* sets of methods that may be the constructors
  Roots,         \* sequences of methods with a checkout call: the candidates
  MethodLimit,   \* the 12 of the code
  SizeLimit      \* max_chars, in methods

VARIABLES
  collecting,   \* "off", "collect", "review", "done"
  program,
  roots,
  parsed,       \* no file had errors
  current,      \* the candidate
  selected,     \* its methods
  todo,         \* those of them whose calls are not resolved yet
  unresolved,   \* unresolved is not empty
  contexts,     \* of the candidates collected: their methods, or Incomplete
  reviewed,     \* the candidates reviewed
  whole,        \* status is still "DONE"
  accepted      \* a finding of high confidence

contextVars == <<collecting, program, roots, parsed, current, selected, todo,
                 unresolved, contexts, reviewed, whole, accepted>>

Programs   == [matches : [Methods -> CallSets], constructors : Constructors]
NoProgram  == [matches |-> <<>>, constructors |-> {}]
Incomplete == {}

\* The root and the constructors of its class, however many they are.
Start(p, root) == {root} \cup p.constructors

ContextIdle ==
  /\ collecting = "off" /\ program = NoProgram /\ roots = <<>> /\ parsed = TRUE
  /\ current = 1 /\ selected = {} /\ todo = {} /\ unresolved = FALSE
  /\ contexts = <<>> /\ reviewed = {} /\ whole = TRUE /\ accepted = FALSE

ContextBegin ==
  /\ collecting = "off"
  /\ \E matches \in [Methods -> CallSets] : \E constructors \in Constructors :
       program' = [matches |-> matches, constructors |-> constructors]
  /\ roots' \in Roots /\ parsed' \in BOOLEAN
  /\ collecting' = IF roots' = <<>> THEN "done" ELSE "collect"
  /\ current' = 1
  /\ selected' = IF roots' = <<>> THEN {} ELSE Start(program', roots'[1])
  /\ todo' = selected'
  /\ unresolved' = FALSE /\ contexts' = <<>> /\ reviewed' = {}
  /\ whole' = parsed' /\ accepted' = FALSE

-----------------------------------------------------------------------------
(* collect                                                                  *)

\* Methods that are the only match of a call of m.
Callees(m) == UNION {s \in program.matches[m] : Cardinality(s) = 1}

\* Mutant: at the limit the context stays shorter, and nobody is told.
ResolveSilently(m) ==
  LET room == MethodLimit - Cardinality(selected)
      new  == Callees(m) \ selected
      fits == IF Cardinality(new) <= room THEN new ELSE {}
  IN  /\ selected' = selected \cup fits
      /\ todo' = (todo \ {m}) \cup fits
      /\ unresolved' = (unresolved \/ \E s \in program.matches[m] : Cardinality(s) > 1)

\* The calls of a method: the loop goes on over what it adds.  Of too many
\* callees some still find room; since the context is incomplete then, it
\* does not matter which.
Resolve(m) ==
  LET new  == Callees(m) \ selected
      fits == Cardinality(selected) + Cardinality(new) <= MethodLimit
  IN  /\ selected' = IF fits THEN selected \cup new ELSE selected
      /\ todo' = (todo \ {m}) \cup (IF fits THEN new ELSE {})
      /\ unresolved' = (\/ unresolved
                        \/ new # {} /\ ~fits
                        \/ \E s \in program.matches[m] : Cardinality(s) > 1)

Walk ==
  /\ collecting = "collect"
  /\ \E m \in todo : Resolve(m)
  /\ UNCHANGED <<collecting, program, roots, parsed, current, contexts, reviewed, whole,
                 accepted>>

\* All calls are resolved: the context, if it is complete and not too long.
Collected ==
  /\ collecting = "collect" /\ todo = {}
  /\ contexts' = Append(contexts, IF ~unresolved /\ Cardinality(selected) <= SizeLimit
                                    THEN selected ELSE Incomplete)
  /\ unresolved' = FALSE
  /\ IF current < Len(roots)
       THEN /\ current' = current + 1
            /\ selected' = Start(program, roots[current + 1])
            /\ todo' = selected'
            /\ UNCHANGED collecting
       ELSE /\ collecting' = "review" /\ current' = 1
            /\ selected' = {} /\ todo' = {}
  /\ UNCHANGED <<program, roots, parsed, reviewed, whole, accepted>>

-----------------------------------------------------------------------------
(* review                                                                   *)

NextCandidate ==
  /\ IF current < Len(roots)
       THEN current' = current + 1 /\ UNCHANGED collecting
       ELSE collecting' = "done" /\ UNCHANGED current
  /\ UNCHANGED <<program, roots, parsed, selected, todo, unresolved, contexts>>

Skip ==
  /\ collecting = "review" /\ contexts[current] = Incomplete
  /\ whole' = FALSE
  /\ UNCHANGED <<reviewed, accepted>>
  /\ NextCandidate

\* The call raises, or a finding cites a line outside of the context: none of
\* the answer's findings is taken.
CandidateFails ==
  /\ collecting = "review" /\ contexts[current] # Incomplete
  /\ whole' = FALSE
  /\ UNCHANGED <<reviewed, accepted>>
  /\ NextCandidate

CandidateReviewed ==
  /\ collecting = "review" /\ contexts[current] # Incomplete
  /\ reviewed' = reviewed \cup {current}
  /\ \E sure \in BOOLEAN : accepted' = (accepted \/ sure)
  /\ UNCHANGED whole
  /\ NextCandidate

ContextStep == Walk \/ Collected \/ Skip \/ CandidateFails \/ CandidateReviewed

ContextReset ==
  /\ collecting' = "off" /\ program' = NoProgram /\ roots' = <<>> /\ parsed' = TRUE
  /\ current' = 1 /\ selected' = {} /\ todo' = {} /\ unresolved' = FALSE
  /\ contexts' = <<>> /\ reviewed' = {} /\ whole' = TRUE /\ accepted' = FALSE

ContextType ==
  /\ collecting \in {"off", "collect", "review", "done"}
  /\ program \in Programs \cup {NoProgram} /\ roots \in Roots \cup {<<>>}
  /\ parsed \in BOOLEAN /\ unresolved \in BOOLEAN /\ whole \in BOOLEAN
  /\ accepted \in BOOLEAN
  /\ selected \subseteq Methods /\ todo \subseteq selected
  /\ contexts \in Seq(SUBSET Methods) /\ reviewed \subseteq DOMAIN contexts

-----------------------------------------------------------------------------
(* Properties.                                                              *)

\* A context that is shown as complete holds its root, the constructors and
\* every method that is called from it and can be told: the loop over a list
\* that grows, with a limit, forgets none, and no call in it is ambiguous.
ContextClosed ==
  \A k \in DOMAIN contexts : contexts[k] # Incomplete =>
    /\ Start(program, roots[k]) \subseteq contexts[k]
    /\ \A m \in contexts[k] : \A s \in program.matches[m] :
         Cardinality(s) <= 1 /\ s \subseteq contexts[k]
=============================================================================
