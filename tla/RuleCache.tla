------------------------------ MODULE RuleCache ------------------------------
(***************************************************************************)
(* Generated rules in analyze_repo (scanops/core/graph_spec_prod.py):      *)
(* concurrent requests look their candidate APIs up in one cache file, have *)
(* a language model label the unknown ones in batches, and add what passes *)
(* validation to the file, which they read, extend and rewrite without a   *)
(* lock.                                                                   *)
(*                                                                         *)
(* A candidate is a number; its order is the order of the items and it     *)
(* stands for its id and for its cache key.  A rule is <<r, s>>: request r *)
(* had it, in answer to a prompt that showed the candidate or (s FALSE) did *)
(* not.  Rules are generated here (rulegen_effective).                     *)
(***************************************************************************)
EXTENDS Naturals, FiniteSets, FiniteSetsExt, Functions

CONSTANTS
  Requests,        \* analyses, each once
  Candidates,      \* [request -> set of numbers]: what Joern found
  BatchSize,       \* RULEGEN_BATCH
  MaxFresh,        \* GRAPH_SPEC_MAX_FRESH_ITEMS, 0 for no limit
  MaxCrashes,      \* bound: crashes of the API process
  Absent, Empty, Broken  \* the file when it holds no cache: missing, just
                         \* truncated, not JSON

Attempts == 3
Items    == UNION Range(Candidates)
Batches  == 1 .. Cardinality(Items)
Rules    == Requests \X BOOLEAN

Caches   == UNION {[S -> Rules] : S \in SUBSET Items}

ASSUME RulesAssumption ==
  /\ IsFiniteSet(Requests)
  /\ Candidates \in [Requests -> SUBSET Nat]
  /\ \A r \in Requests : IsFiniteSet(Candidates[r])
  /\ BatchSize \in Nat \ {0} /\ MaxFresh \in Nat /\ MaxCrashes \in Nat
  /\ Absent # Empty /\ Absent # Broken /\ Empty # Broken
  /\ \A x \in {Absent, Empty, Broken} : x \notin Caches

VARIABLES
  version,    \* RULEGEN_CONTEXT_VERSION, the same for all
  phase,      \* where each request is
  fresh,      \* its fresh_items, while they are labelled
  open,       \* its batches still asking
  tries,      \* the calls each batch has made
  got,        \* the ids each batch has labels for
  good,       \* its rules, once validated: [item -> rule]
  content,    \* what update_api_cache is about to write
  file,       \* API_CACHE_PATH
  disturbed,  \* two updates have been under way at once, or one was cut off
  crashes     \* crashes so far

vars == <<version, phase, fresh, open, tries, got, good, content, file, disturbed, crashes>>

NoRules    == [i \in {} |-> {}]
Readable   == file \notin {Empty, Broken}
Cache      == IF file = Absent THEN NoRules ELSE file      \* load_api_cache
Updating   == {r \in Requests : phase[r] \in {"open", "write"}}
Finished   == {"taint", "unreadable", "malformed", "lost"}
Phases     == {"new", "label", "load", "open", "write"} \cup Finished

Init ==
  /\ version \in {"v1", "v2"}
  /\ phase = [r \in Requests |-> "new"]
  /\ fresh = [r \in Requests |-> {}]
  /\ open = [r \in Requests |-> {}]
  /\ tries = [r \in Requests |-> [b \in Batches |-> 0]]
  /\ got = [r \in Requests |-> [b \in Batches |-> {}]]
  /\ good = [r \in Requests |-> NoRules]
  /\ content = [r \in Requests |-> NoRules]
  /\ file = Absent
  /\ disturbed = FALSE
  /\ crashes = 0

Goto(r, p) == phase' = [phase EXCEPT ![r] = p]

-----------------------------------------------------------------------------
(* Looking up and labelling.                                                *)

Rank(i, S)  == Cardinality({j \in S : j <= i})
Limited(S)  == IF MaxFresh = 0 THEN S ELSE {i \in S : Rank(i, S) <= MaxFresh}
BatchOf(i, S) == (Rank(i, S) - 1) \div BatchSize + 1
InBatch(r, b) == {i \in fresh[r] : BatchOf(i, fresh[r]) = b}

\* load_api_cache and _cache_lookup: what has a rule is not asked about.  A
\* file that does not parse raises out of analyze_repo.
Lookup(r) ==
  /\ phase[r] = "new"
  /\ IF ~Readable
       THEN Goto(r, "unreadable") /\ UNCHANGED <<fresh, open>>
       ELSE LET unknown == Limited(Candidates[r] \ DOMAIN Cache)
            IN  /\ Goto(r, "label")
                /\ fresh' = [fresh EXCEPT ![r] = unknown]
                /\ open' = [open EXCEPT ![r] = {BatchOf(i, unknown) : i \in unknown}]
  /\ UNCHANGED <<version, tries, got, good, content, file, disturbed, crashes>>

Pending(r, b) == InBatch(r, b) \ got[r][b]

\* Mutant: it is allowed one attempt more.
ClosesLate(r, b) == open' = [open EXCEPT ![r] = IF tries'[r][b] <= Attempts THEN @ ELSE @ \ {b}]

\* The batch gives up after its last attempt.
Closes(r, b) == open' = [open EXCEPT ![r] = IF tries'[r][b] < Attempts THEN @ ELSE @ \ {b}]

\* Mutant: after its last attempt the batch starts anew.
NoAnswerRestarts(r, b) ==
  /\ tries' = [tries EXCEPT ![r][b] = (@ + 1) % Attempts]
  /\ UNCHANGED <<open, got>>

\* call_rulegen raises, or its answer holds no JSON array: the attempt is over.
\* v1 takes the latter for an empty array, which comes to the same.
NoAnswer(r, b) ==
  /\ tries' = [tries EXCEPT ![r][b] = @ + 1]
  /\ Closes(r, b)
  /\ UNCHANGED got

\* An array of labels, in v1: only ids the batch is still waiting for are
\* taken, and the others are asked for again.
TakeV1(r, b, ids) ==
  /\ got' = [got EXCEPT ![r][b] = @ \cup (ids \cap Pending(r, b))]
  /\ tries' = [tries EXCEPT ![r][b] = @ + 1]
  /\ IF Pending(r, b) \subseteq ids
       THEN open' = [open EXCEPT ![r] = @ \ {b}]
       ELSE Closes(r, b)

\* In v2 the first array ends the batch, and any id of the request is taken.
TakeV2(r, b, ids) ==
  /\ got' = [got EXCEPT ![r][b] = ids \cap fresh[r]]
  /\ tries' = [tries EXCEPT ![r][b] = @ + 1]
  /\ open' = [open EXCEPT ![r] = @ \ {b}]

\* Mutant: v1 takes any id of the request, as v2 does.
TakeAnyId(r, b, ids) ==
  IF version = "v1"
    THEN /\ got' = [got EXCEPT ![r][b] = @ \cup (ids \cap fresh[r])]
         /\ tries' = [tries EXCEPT ![r][b] = @ + 1]
         /\ IF Pending(r, b) \subseteq ids
              THEN open' = [open EXCEPT ![r] = @ \ {b}]
              ELSE Closes(r, b)
    ELSE TakeV2(r, b, ids)

\* Mutant: a partial answer ends the batch in v1 too.
TakeOnce(r, b, ids) ==
  IF version = "v1"
    THEN /\ got' = [got EXCEPT ![r][b] = @ \cup (ids \cap Pending(r, b))]
         /\ tries' = [tries EXCEPT ![r][b] = @ + 1]
         /\ open' = [open EXCEPT ![r] = @ \ {b}]
    ELSE TakeV2(r, b, ids)

Take(r, b, ids) == IF version = "v1" THEN TakeV1(r, b, ids) ELSE TakeV2(r, b, ids)

\* One call of one batch; the batches of a request run in parallel.
Ask(r, b) ==
  /\ phase[r] = "label" /\ b \in open[r]
  /\ \/ NoAnswer(r, b)
     \/ \E ids \in SUBSET fresh[r] : Take(r, b, ids)
  /\ UNCHANGED <<version, phase, fresh, good, content, file, disturbed, crashes>>

\* An answer whose id cannot be hashed, or whose pattern is no text: nothing
\* catches the exception.
Malformed(r) ==
  /\ phase[r] = "label" /\ open[r] # {}
  /\ Goto(r, "malformed")
  /\ UNCHANGED <<version, fresh, open, tries, got, good, content, file, disturbed, crashes>>

\* Where two batches of v2 label one id, the later batch wins.
Labelled(r) == UNION Range(got[r])
Shown(r, i) == BatchOf(i, fresh[r]) = Max({b \in Batches : i \in got[r][b]})

\* label_items returns, and validate drops labels with an unusable role, match
\* or pattern; "none" stays.
Validate(r) ==
  /\ phase[r] = "label" /\ open[r] = {}
  /\ \E kept \in SUBSET Labelled(r) :
       good' = [good EXCEPT ![r] = [i \in kept |-> <<r, Shown(r, i)>>]]
  /\ Goto(r, "load")
  /\ fresh' = [fresh EXCEPT ![r] = {}]
  /\ tries' = [tries EXCEPT ![r] = [b \in Batches |-> 0]]
  /\ got' = [got EXCEPT ![r] = [b \in Batches |-> {}]]
  /\ UNCHANGED <<version, open, content, file, disturbed, crashes>>

-----------------------------------------------------------------------------
(* update_api_cache.                                                        *)

\* Mutant: an entry that is there already is replaced.
ExtendedOver(r) == [i \in DOMAIN Cache \cup DOMAIN good[r] |->
                      IF i \in DOMAIN good[r] THEN good[r][i] ELSE Cache[i]]

\* Mutant: what lookup had read is written back: of the candidates only the
\* rules of this request are in it.
ExtendedStale(r) == [i \in (DOMAIN Cache \ Candidates[r]) \cup DOMAIN good[r] |->
                       IF i \in DOMAIN good[r] THEN good[r][i] ELSE Cache[i]]

\* The cache with the rules whose key it does not hold.
Extended(r) == [i \in DOMAIN Cache \cup DOMAIN good[r] |->
                  IF i \in DOMAIN Cache THEN Cache[i] ELSE good[r][i]]

\* The file is read again; nothing is written when there is nothing to add.
Load(r) ==
  /\ phase[r] = "load"
  /\ \/ /\ ~Readable
        /\ Goto(r, "unreadable")
        /\ UNCHANGED <<content, disturbed>>
     \/ /\ Readable /\ DOMAIN good[r] \subseteq DOMAIN Cache
        /\ Goto(r, "taint")
        /\ UNCHANGED <<content, disturbed>>
     \/ /\ Readable /\ ~(DOMAIN good[r] \subseteq DOMAIN Cache)
        /\ content' = [content EXCEPT ![r] = Extended(r)]
        /\ Goto(r, "open")
        /\ disturbed' = (disturbed \/ Updating # {})
  /\ UNCHANGED <<version, fresh, open, tries, got, good, file, crashes>>

Extends(f, g) == DOMAIN g \subseteq DOMAIN f /\ \A i \in DOMAIN g : f[i] = g[i]

\* write_text opens the file, which truncates it ...
Open(r) ==
  /\ phase[r] = "open"
  /\ file' = Empty
  /\ Goto(r, "write")
  /\ UNCHANGED <<version, fresh, open, tries, got, good, content, disturbed, crashes>>

\* ... and writes from its beginning.  What another request has written since
\* is overwritten; what of it is longer remains, and the file does not parse.
Write(r) ==
  /\ phase[r] = "write"
  /\ \/ file \in {Empty, Broken, content[r]} /\ file' = content[r]
     \/ file \notin {Empty, Broken} /\ ~Extends(file, content[r]) /\ file' = content[r]
     \/ file \notin {Empty, Broken} /\ ~Extends(content[r], file) /\ file' = Broken
     \/ file = Broken /\ file' = Broken
  /\ Goto(r, "taint")
  /\ UNCHANGED <<version, fresh, open, tries, got, good, content, disturbed, crashes>>

\* The process dies and is started again: the file is as it was.
Crash ==
  /\ crashes < MaxCrashes
  /\ crashes' = crashes + 1
  /\ phase' = [r \in Requests |->
                 IF phase[r] = "new" \/ phase[r] \in Finished THEN phase[r] ELSE "lost"]
  /\ disturbed' = (disturbed \/ Updating # {})
  /\ UNCHANGED <<version, fresh, open, tries, got, good, content, file>>

Quiescent ==
  /\ \A r \in Requests : phase[r] \in Finished
  /\ UNCHANGED vars

Step(r) ==
  \/ Lookup(r)
  \/ \E b \in Batches : Ask(r, b)
  \/ Malformed(r) \/ Validate(r) \/ Load(r) \/ Open(r) \/ Write(r)

Next == (\E r \in Requests : Step(r)) \/ Crash \/ Quiescent

Spec == Init /\ [][Next]_vars

\* A handler thread runs on; each call of the model has a time limit.
FairSpec == Spec /\ \A r \in Requests : WF_vars(phase[r] # "new" /\ Step(r))

-----------------------------------------------------------------------------
(* Properties.                                                              *)

TypeOK ==
  /\ version \in {"v1", "v2"}
  /\ phase \in [Requests -> Phases]
  /\ fresh \in [Requests -> SUBSET Items]
  /\ open \in [Requests -> SUBSET Batches]
  /\ tries \in [Requests -> [Batches -> 0 .. Attempts]]
  /\ got \in [Requests -> [Batches -> SUBSET Items]]
  /\ good \in [Requests -> Caches]
  /\ content \in [Requests -> Caches]
  /\ file \in Caches \cup {Absent, Empty, Broken}
  /\ disturbed \in BOOLEAN
  /\ crashes \in 0 .. MaxCrashes

\* What the cache holds: while the only writer is at work, what it writes.
Stored ==
  IF Readable THEN Cache
  ELSE IF Cardinality(Updating) = 1 THEN content[CHOOSE r \in Requests : r \in Updating]
  ELSE NoRules

\* In v1 a rule in the file was given in answer to a prompt that showed its
\* candidate, by whatever requests and batches the file was put together: the
\* answers of batches that run at once are not mixed up.
RulesOfOwnPrompt == version = "v1" => \A i \in DOMAIN Stored : Stored[i][2]

\* In v1 a candidate is left without a label only after all attempts of its
\* batch, however the answers before were cut up.
MissingWasRetried ==
  version = "v1" =>
    \A r \in Requests : phase[r] = "label" => \A i \in fresh[r] :
      LET b == BatchOf(i, fresh[r])
      IN  b \in open[r] \/ i \in Labelled(r) \/ tries[r][b] = Attempts

\* While updates do not overlap and none is cut off, a request that went on
\* to taint left every rule it validated in the file, as its own or as the one
\* another request had stored while this one waited for the model; and nobody
\* but a writer sees a file that does not parse.
NoRuleLost ==
  ~disturbed =>
    /\ Updating = {} => Readable
    /\ \A r \in Requests :
         phase[r] = "taint" /\ Readable => DOMAIN good[r] \subseteq DOMAIN Cache

\* The first label of a name is the one that stays, as long as updates do not
\* overlap and none is cut off: no later analysis changes or removes it.
FirstLabelStays == [][~disturbed' => Extends(Stored', Stored)]_vars

\* "Dynamic discovery must never prevent the fixed rules from reaching taint":
\* an analysis does not end because of the cache.
FixedRulesReachTaint == \A r \in Requests : phase[r] # "unreadable"

\* Every analysis gets past its rules, whatever the model answers or leaves
\* out.
RulesEnd == \A r \in Requests : phase[r] = "label" ~> phase[r] \in Finished
=============================================================================
