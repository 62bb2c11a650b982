------------------------------ MODULE JoernBatch ------------------------------
(***************************************************************************)
(* analyze_batch and _pass (joern/handler_joern.py): the cases of a batch  *)
(* are written to files in chunks, each chunk is one Joern run, and cases  *)
(* Joern could not parse are tried once more, wrapped.  A case is          *)
(* [id, code]; its file name comes from the sanitised id.                  *)
(***************************************************************************)
EXTENDS Naturals, Sequences, FiniteSets

CONSTANTS
  Inputs,     \* the batches (sequences of cases) to analyse
  Ids,        \* case ids (paths)
  Codes,      \* contents
  Stem,       \* [id -> [root, ext]]: sanitised id, and whether it ends in ext
  ChunkSize

Cases == [id : Ids, code : Codes]

ASSUME BatchAssumption ==
  /\ Inputs \subseteq Seq(Cases)
  /\ ChunkSize \in Nat \ {0}
  /\ Stem \in [Ids -> [root : {Stem[i].root : i \in Ids}, ext : BOOLEAN]]

\* What Joern says of a file, and the verdict it becomes.
Reports  == {"unparsed", "clean", "live", "blocked"}
Verdicts == {"safe", "vuln", "safe_sanitized"}
Unknowns == {"timeout", "parse_fail", "id_unmapped"}

VARIABLES
  files,    \* the input
  pc,       \* "pass", "done"
  level,    \* wrap_level of the current pass
  pending,  \* the cases of the current pass
  pos,      \* the first case of the next chunk
  ok,       \* answers of the current pass, by id
  failed,   \* the cases this pass gave up
  results   \* answers of finished passes, by id

vars == <<files, pc, level, pending, pos, ok, failed, results>>

IdsOf(cases) == {cases[k].id : k \in DOMAIN cases}
NoAnswers    == [i \in {} |-> "none"]

\* dict.update: new wins over old.
Update(old, new) ==
  [i \in DOMAIN old \cup DOMAIN new |-> IF i \in DOMAIN new THEN new[i] ELSE old[i]]

Min2(a, b) == IF a < b THEN a ELSE b

-----------------------------------------------------------------------------
(* File names.                                                              *)

\* Mutant: `taken` is never filled.
SuffixNone(chunk, k) == 0

\* _safe_stem numbers equal stems within a chunk ("~1", "~2", ...).
Suffix(chunk, k) ==
  Cardinality({j \in 1 .. k - 1 : Stem[chunk[j].id] = Stem[chunk[k].id]})

\* ensure_ext leaves a name that ends in the extension alone: "A.java" and
\* "A" name one file, "A.java~1.java" and "A~1.java" two.
FileName(chunk, k) ==
  LET s == Stem[chunk[k].id]  n == Suffix(chunk, k)
  IN  IF n = 0 THEN <<s.root, 0, FALSE>> ELSE <<s.root, n, s.ext>>

\* `local` maps each file name to the case written last under it.  A name is
\* represented by the position at which it was first written, which is where
\* it comes in the order of the keys.
Local(chunk) ==
  LET same(k) == {j \in DOMAIN chunk : FileName(chunk, j) = FileName(chunk, k)}
      last(k) == CHOOSE j \in same(k) : \A i \in same(k) : i <= j
  IN  [k \in {n \in DOMAIN chunk : \A j \in same(n) : n <= j} |->
         [name |-> FileName(chunk, k), id |-> chunk[last(k)].id]]

\* The one sequence of a set of positions in which they increase.
InOrder(S) ==
  {s \in [1 .. Cardinality(S) -> S] :
     /\ \A i, j \in DOMAIN s : i < j => s[i] < s[j]
     /\ \A k \in S : \E i \in DOMAIN s : s[i] = k}

\* _code_of: the content of the first case of the chunk with this id.
CodeOf(chunk, i) ==
  chunk[CHOOSE k \in DOMAIN chunk :
          chunk[k].id = i /\ \A j \in 1 .. k - 1 : chunk[j].id # i].code

-----------------------------------------------------------------------------
Init ==
  /\ files \in Inputs
  /\ pc = "pass"
  /\ level = 0
  /\ pending = files
  /\ pos = 1
  /\ ok = NoAnswers
  /\ failed = <<>>
  /\ results = NoAnswers

\* Mutant: the end of the slice is taken for exclusive once too often.
ChunkShort == SubSeq(pending, pos, Min2(pos + ChunkSize - 2, Len(pending)))

Chunk == SubSeq(pending, pos, Min2(pos + ChunkSize - 1, Len(pending)))

Advance ==
  /\ pos' = pos + ChunkSize
  /\ UNCHANGED <<files, pc, level, pending, results>>

InChunk == pc = "pass" /\ pos <= Len(pending)

\* Mutant: the `continue` after a timeout is missing, so that the empty
\* output also fails every case.
ChunkTimedOutFallsThrough ==
  /\ InChunk
  /\ ok' = Update(ok, [i \in IdsOf(Local(Chunk)) |-> "timeout"])
  /\ failed' = failed \o Chunk
  /\ Advance

\* The chunk hit its time limit: its cases are answered, not tried again.
ChunkTimedOut ==
  /\ InChunk
  /\ ok' = Update(ok, [i \in IdsOf(Local(Chunk)) |-> "timeout"])
  /\ UNCHANGED failed
  /\ Advance

\* Joern could not import the chunk: all its cases fail.
ChunkImportFailed ==
  /\ InChunk
  /\ failed' = failed \o Chunk
  /\ UNCHANGED ok
  /\ Advance

\* Mutant: a file with blocked flows only counts as neither.
VerdictRaw(report) ==
  CASE report = "live" -> "vuln" [] report = "blocked" -> "unknown" [] report = "clean" -> "safe"

Verdict(report) ==
  CASE report = "live"    -> "vuln"
    [] report = "blocked" -> "safe_sanitized"
    [] report = "clean"   -> "safe"

\* Joern reports on the files of the chunk; those it neither parsed nor found
\* anything in fail, with the content _code_of finds for their id.
ChunkReported(local, report) ==
  LET judged   == {n \in DOMAIN local : report[local[n].name] # "unparsed"}
      final(i) == CHOOSE n \in judged :
                    local[n].id = i /\ \A m \in judged : local[m].id = i => m <= n
  IN  /\ ok' = Update(ok, [i \in {local[n].id : n \in judged} |->
                             Verdict(report[local[final(i)].name])])
      /\ \E unparsed \in InOrder(DOMAIN local \ judged) :
           failed' = failed \o [m \in DOMAIN unparsed |->
                       [id   |-> local[unparsed[m]].id,
                        code |-> CodeOf(Chunk, local[unparsed[m]].id)]]
      /\ Advance

ChunkDone ==
  /\ InChunk
  /\ LET local == Local(Chunk)
     IN  \E report \in [{local[n].name : n \in DOMAIN local} -> Reports] :
           ChunkReported(local, report)

\* Mutant: the answers of the first pass are not merged.
NextPassForgets ==
  /\ pc = "pass" /\ pos > Len(pending)
  /\ level = 0 /\ failed # <<>>
  /\ level' = 1
  /\ pending' = failed
  /\ pos' = 1 /\ ok' = NoAnswers /\ failed' = <<>>
  /\ UNCHANGED <<files, pc, results>>

\* Mutant: the passes go on while cases fail.
NextPassAgain ==
  /\ pc = "pass" /\ pos > Len(pending)
  /\ level = 0 /\ failed # <<>>
  /\ results' = Update(results, ok)
  /\ pending' = failed
  /\ pos' = 1 /\ ok' = NoAnswers /\ failed' = <<>>
  /\ UNCHANGED <<files, pc, level>>

\* The pass is over; the cases it gave up go into the wrapped pass.
NextPass ==
  /\ pc = "pass" /\ pos > Len(pending)
  /\ level = 0 /\ failed # <<>>
  /\ level' = 1
  /\ results' = Update(results, ok)
  /\ pending' = failed
  /\ pos' = 1 /\ ok' = NoAnswers /\ failed' = <<>>
  /\ UNCHANGED <<files, pc>>

\* Mutant: no entry for cases without an answer.
FinishNoDefault ==
  /\ pc = "pass" /\ pos > Len(pending)
  /\ level = 1 \/ failed = <<>>
  /\ results' = Update(Update(results, ok), [i \in IdsOf(failed) |-> "parse_fail"])
  /\ pending' = failed
  /\ ok' = NoAnswers /\ failed' = <<>>
  /\ pc' = "done"
  /\ UNCHANGED <<files, level, pos>>

\* No pass is left: what it gave up could not be parsed, and whatever has no
\* answer at all is reported as unmapped.
Finish ==
  /\ pc = "pass" /\ pos > Len(pending)
  /\ level = 1 \/ failed = <<>>
  /\ LET settled == Update(Update(results, ok), [i \in IdsOf(failed) |-> "parse_fail"])
     IN  results' = Update([i \in IdsOf(files) |-> "id_unmapped"], settled)
  /\ pending' = failed
  /\ ok' = NoAnswers /\ failed' = <<>>
  /\ pc' = "done"
  /\ UNCHANGED <<files, level, pos>>

Done == pc = "done" /\ UNCHANGED vars

Next == ChunkTimedOut \/ ChunkImportFailed \/ ChunkDone \/ NextPass \/ Finish \/ Done

Spec     == Init /\ [][Next]_vars
FairSpec == Spec /\ WF_vars(Next)

-----------------------------------------------------------------------------
(* Properties.                                                              *)

TypeOK ==
  /\ files \in Inputs
  /\ pc \in {"pass", "done"}
  /\ level \in {0, 1}
  /\ pending \in Seq(Cases) /\ failed \in Seq(Cases)
  /\ pos \in Nat \ {0}
  /\ DOMAIN ok \subseteq Ids /\ DOMAIN results \subseteq Ids
  /\ \A i \in DOMAIN ok : ok[i] \in Verdicts \cup {"timeout"}
  /\ \A i \in DOMAIN results : results[i] \in Verdicts \cup Unknowns

\* The answer a case has so far, from this pass or an earlier one.
AnswerOf(i) ==
  IF i \in DOMAIN ok THEN ok[i]
  ELSE IF i \in DOMAIN results THEN results[i] ELSE "open"

Remaining == {pending[k].id : k \in pos .. Len(pending)}

\* Every case Joern is given finds its way back to its id: the suffix _safe_stem
\* adds and the caller's table leave nothing unmapped.
NeverUnmapped == \A i \in DOMAIN results : results[i] # "id_unmapped"

\* No two ids of the batch become one file: those whose names differ by the
\* language's extension only do.
Separable ==
  \A i, j \in IdsOf(files) : Stem[i].root = Stem[j].root => Stem[i].ext = Stem[j].ext

\* The extension is the only thing that defeats the suffixes: in any other
\* batch nothing is unmapped.
UnmappedOnlyByExtension == Separable => NeverUnmapped

\* No case is dropped between the passes: one without an answer is still to
\* be written, or has failed and waits for the next pass.
Accounted ==
  Separable /\ pc = "pass" => \A i \in IdsOf(files) :
    AnswerOf(i) = "open" => i \in Remaining \cup IdsOf(failed)

\* Only cases without an answer are tried again: a timeout or a verdict of
\* the first pass is never run a second time.
OnlyOpenRetried ==
  pc = "pass" => \A i \in Remaining \cup IdsOf(failed) : AnswerOf(i) = "open"

\* The number of answers is the number of cases given ("the result count
\* always equals the input count").
OneResultPerCase == pc = "done" => Cardinality(DOMAIN results) = Len(files)

\* The batch comes to an end, whatever Joern keeps failing on.
BatchEnds == <>(pc = "done")

\* Every id of the batch is answered once and its answer stays.
Ledger == INSTANCE CaseLedger WITH
  Cases      <- Ids,
  Answers    <- Verdicts \cup Unknowns,
  Unanswered <- "open",
  ledger     <- [i \in Ids |-> AnswerOf(i)]
LedgerSpec == Ledger!Spec
=============================================================================
