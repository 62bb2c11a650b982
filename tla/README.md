# ScanOps: a verification development

ScanOps finds vulnerabilities in source code. A Spring backend sends files to an analysis API
(`scripts/api_rebuild.py`); for Java, and for JavaScript/TypeScript in batches, the API has a code property
graph built and searched by Joern, which runs in a worker of its own (`joern/handler_joern.py`), and asks a
language model to review the source. This directory holds TLA+ models of the service core, TLC runs that
check them on small instances, and TLAPS proofs of what matters most. Paths below are relative to the
repository root.

## 1. Inventory

| Component | State it keeps | Operations | Talks to |
|---|---|---|---|
| Joern worker, `joern/handler_joern.py` | `_ACTIVE_JOBS` (under a lock), `_store` (without one), work directories, Joern processes and containers | `/joern/submit`, `/joern/result`, `/joern/analyze`, `/joern/repo`, the CLI | Joern, through `joern` or `joern_docker.sh` |
| Batch engine in the worker: `analyze_batch`, `_pass` | pending cases, results, file-name tables of one job | two passes over chunks | one Joern run per chunk |
| Repo engine in the worker: `run_repo_script` | one work directory, one container id file | candidates, taint, context | one Joern run |
| Analysis API, `scripts/api_rebuild.py` | `_ANALYSIS_SLOTS` (a bounded semaphore), parse statistics | `/analyze`, `/analyze/batch`, `/analyze/pr` behind `_deployment_guard` | graph-spec engine, language models |
| Graph-spec engine, `scanops/core/graph_spec_prod.py` | the rule cache, a file shared by all requests | `analyze_repo`: candidates, labelling, validation, taint, critic | Joern worker (HTTP or RunPod), DashScope |
| Context export, `scanops/core/cpg_context.py` | none | `attach` | Joern worker |
| Semantic and resource review, `java_semantic.py`, `java_resource_context.py` | none | windowed review, call context, merging | DashScope |
| Hybrid policies, `scanops/core/hybrid.py` | thresholds read once | `aggregate` | none |
| Analysis of one file: `_analyze_one`, `_detect`, `_score`, `_joern` in `api_rebuild.py` | `_TOKEN_CHECK`, shared by all threads and never looked at again | which reviews a file gets, and how they become its answer | reviews, policies, LLM clients |
| LLM clients, `llm_client.py`, `_runpod_call` | none | submit, poll, cancel | RunPod, llama-server |
| RunPod model workers, `runpod/` | a child server | proxy | llama-server, Ollama |
| Earlier engines and APIs, CLI, data pipeline, benchmarks, training, documents | files | scripts | none |

Endpoints are plain `def` functions, so FastAPI runs each request in a thread of its own: requests interleave
at every statement, in the API as in the worker. Nothing is persisted on purpose, but work directories, the
rule cache and Joern containers outlive a process that dies. Every call from one program to another has a
time limit, each side its own, and a caller that gives up does not tell the other side (only the RunPod client of
Joern tries to cancel).

What makes each part correct:

* Worker: one job per id; a job's directory is its own from `mkdir` to `rmtree`; a finished job leaves neither
  an id, nor a directory, nor a container; a job reads what its own Joern wrote; every request ends.
* Batch engine: every case is answered, by its own id, once; a case that has an answer is not run again.
* API: no more Joern at a time than slots, which holds of part of the calls only; every slot comes back; a failed
  analysis is never delivered as clean.
* Graph-spec engine: no rule is lost between requests; a partial label set is used as such; the critic removes
  a finding only on a line it was shown.
* LLM and RunPod clients: every call ends, and none leaves a job running that it could have cancelled.
* Reviews: every character is reviewed, every candidate has its whole context, or the file is `PARTIAL`;
  what one analysis found is not taken back by the failure of another.
* Scores: none is given with a tokenizer other than the one the thresholds were measured with.

`PROJECT.json` lists the hazards behind these sentences, each at its line.

## 2. Plan

In order of weight. All modules are written, checked and proved about; section 5 has the theorems.

| Modules | What | Proofs |
|---|---|---|
| `JoernWorker`, `MCJoernWorker` | requests, registry, directories, processes, timeouts, crashes | `JoernWorker_proofs` |
| `JoernBatch`, `CaseLedger`, `MCJoernBatch` | cases, chunks, passes; implements `CaseLedger` | `JoernBatch_proofs` |
| `AnalysisService`, `MCAnalysisService` (composes `JoernWorker`) | guard, slots, endpoints, calls, failures, statuses | `AnalysisService_proofs`, from those of the worker |
| `RuleCache`, `MCRuleCache` | one cache file and concurrent analyses; labels in batches with partial answers | `RuleCache_proofs` |
| `RunPodClient` | submit, poll, cancel against a job that ends meanwhile | `RunPodClient_proofs` |
| `FileAnalysis`, `MCFileAnalysis` (composes the four below) | one file from Joern's findings to its answer | `FileAnalysis_proofs`, from those of the parts |
| `Critic` | what a critic in parallel batches may remove | in `FileAnalysis_proofs` |
| `SemanticReview` | windows over a text: cover, progress, line numbers | `SemanticReview_proofs` |
| `ResourceContext` | a worklist with limits | `ResourceContext_proofs` |
| `ModelVerdict` | retries, the shared token check, policies | in `FileAnalysis_proofs` |

The abstract specification is `CaseLedger`, which the batch and the rule cache implement. None of the modules declares a
recursive operator, so that theorems can be stated about each.

## 3. What is modelled

### JoernWorker

A request of `Requests` has a `kind` (`"submit"`, `"sync"`, `"repo"`: the three endpoints), a `job` id and
a program counter. `active` is `_ACTIVE_JOBS`, `store` the statuses in `_store`. `tree[d]` says whether the
path `d` exists, and whether as a root only or with the `repo` directory `run_repo_script` makes in it; `out[d]`
is the output file of each chunk, with the request whose Joern wrote it as its content. `engines` are the
Joern processes alive, whether or not anybody still waits for them.

| Action | Code |
|---|---|
| `Arrive`, `Accept`, `Publish` | `submit` and its `_work` thread (561-576); the 409 test and the entry in `_store` are two steps |
| `Refuse` | early returns before the id is looked at (189-196, 346-355) |
| `Register` | the critical section of `_ACTIVE_LOCK` (198-201, 358-361) |
| `CheckDir`, `MakeDir` | `root.exists()` and `mkdir`, two steps, both before the `try` (202-204, 363-366). Either may raise, because the path is there (`"exists"`) or because the file system refuses it (`"nodir"`: no space, no permission, a name too long, after which `parents=True` may have left the root, `HalfMade`); the id stays registered |
| `SetupFails`, `Launch` | writing inputs, `Popen` |
| `Collect`, `NextChunk` | `communicate()` returns and the output file is read |
| `RepoTimeout` | kill, `docker rm -f` through the cid file, 30 s more, `"timeout"` (426-451) |
| `ChunkTimeout`, `Drained` | kill and an unlimited `communicate()` (156-166) |
| `Cleanup`, `Unregister` | the `finally` blocks: `rmtree(ignore_errors=True)`, then `discard` |
| `JoernWrites`, `JoernDies`, `Crash` | outside the code: Joern ends with or without output; the worker process is killed and restarted |

`Launcher` is `"docker"` (`joern_docker.sh`: killing the client leaves the container) or `"native"` (the `joern` shell
wrapper, the default: killing it leaves the JVM, which holds the pipe). `WorkDir` maps ids to paths: different ids can
be sanitised to one path, and `scanops_repo_x` of the repo engine is also the path of the id `repo_x` of the batch
engine.

### JoernBatch and CaseLedger

One `analyze_batch` call after it has its directory. Each chunk of `pending` is written to files
(`Local`: file name and id), ends in one of three ways (`ChunkTimedOut`, `ChunkImportFailed`, `ChunkDone` with
any report Joern can make of its files) and advances `pos`; `NextPass` merges the answers and retries the cases
that failed, wrapped; `Finish` fills in `parse_fail` and `id_unmapped`. File names are modelled by what makes
them equal: the sanitised root, the suffix `_safe_stem` counts up, and whether the id already ended in the
extension `ensure_ext` adds; `InOrder` is the order in which unparsed files go to `failed`. `CaseLedger` is the
promise, open cases that become answered and stay so; `LedgerSpec` is checked as a property of `JoernBatch`, and
the rule cache keeps the same promise of its items (`CacheIsLedger`). The reading of a chunk's output by Joern's own
file name and the elapsed times are left out. Since processes and directories are in `JoernWorker`, no other job
interferes here; `WorkDirExclusive` is what justifies that.

### AnalysisService

`INSTANCE JoernWorker` with the requests of API clients: a client's call (`Send`) is the worker's `Arrive`, the
worker then runs with all its interleavings, and `Hear` reads the outcome of the finished request. A client's
`plan` is its endpoint and the frontends of its files; a group of files of one frontend stands for its files.
There are two kinds of call. `Post` is `call_joern_repo`, for the group or for the context: a `"repo"` request, whose
limit is the deployment's. `AskFile` is `_joern` (559-592, from 715): once the groups are done, a file of another
language than Java that has no override is posted on its own to `/joern/analyze`, a `"sync"` request, still inside
the guard and with a limit of 120 s (`GiveUp` at stage `"file"`, whatever `config` says). `SkipFile` is the file for
which there is no URL or nobody listens.

`Reject`, `Admit` and `Leave` are `_deployment_guard`; `CandidatesBring`, `TaintBrings`, `FileBrings` and
`ContextBrings` are what `analyze_repo`, `_joern` and `cpg_context.attach` make of an answer; `GroupFails` and
`GroupReturns` are what the endpoint does next (503 for a pull request, no override elsewhere); `NoGraph` passes over a
group that has no graph analysis (`Graphed`: other languages than Java have one in a batch only, unless it stops at
its first finding); `Review` gives the files their status. `heard` is a history variable: what the taint call of a
group really brought.

What varies between behaviours, the deployment, who asks for what, and which entry and job id each request of the
worker has, is chosen together, from `Loads`. The entry is of two kinds only, and the ids of the two differ: the
API makes `prod_...` ids for groups and `api_...` ids for files.

Left open here, and modelled in modules of their own: model answers (any review may be complete or not, or raise;
`FileAnalysis`), what is done with findings (the critic may drop them, and it or the resource review may raise: the
two outcomes of `"findings"` in `TaintBrings`; `Critic`), reading the rule cache (it may raise; `RuleCache`). `config`
is the deployment, chosen once: whether a graph engine is configured at all (`AnalyzeUnready`), whether rules are
generated, which puts a candidates call before the taint call, and whether the client's `GRAPH_SPEC_JOERN_TIMEOUT` is
longer than any job of the worker (`patient`). `RefuseEmpty` is the 400 of an empty text, which holds a slot.
`OutOfRequests` is a bound and not code: a client that would make another call when all `"repo"` ones of `Requests`
have been made stays where it is; without a `"sync"` one left it skips the file. `attach` makes one call here,
although more than 128 candidates take several.

### RuleCache

The part of `analyze_repo` between the candidates call and the taint call, for concurrent analyses that share
`API_CACHE_PATH`. `Lookup` is `load_api_cache` and `_cache_lookup`; `Ask` is one call of the labelling model for one
batch, and the batches of a request interleave as the threads of the pool do; `TakeV1` and `TakeV2` are what
`label_items` and `label_items_v2` keep of an array of labels; `Validate` ends the pool and drops any of the labels.
`Load`, `Open` and `Write` are `update_api_cache`: it reads the file again, and `write_text` first truncates and
then writes, with other readers and writers, or the death of the process (`Crash`), in between. The file is
`Absent`, `Empty` (truncated), `Broken` (does not parse) or the map it holds; a rule remembers whose it is and
whether the prompt it answers showed its candidate. Two writers that overlap write over each other from the
beginning of the file, so that a longer text leaves its end behind a shorter one.

`disturbed` remembers that two updates overlapped or that one was cut off. What the cache promises is stated for
runs where that did not happen, and it is not true of the others: a rule of the slower writer is lost and found
again by a later analysis, and a file left `Broken`, or `Empty` by a crash, is read by no analysis until somebody
removes it, because `load_api_cache` raises on it.

Version v2 of the labelling takes labels of any id of the request, also of one the batch did not show, and does
not ask again for those left out; `RulesOfOwnPrompt` and `MissingWasRetried` speak of v1.

### RunPodClient

Both functions called `_runpod_call`, against an endpoint with a queue and a number of workers (external; `Start`,
`Complete`, `Fail`). `Submit` may raise although the job exists. The joern client looks at the limit (`InTime`,
`Late`), polls (`Poll`), and cancels at its limit (`Cancel`, whose failure is swallowed); the model client begins
with `runsync` (`Return`) and never cancels. `Expire` is the clock. A worker that reports `{"error": ...}` is an
exception to the model client; the joern client passes the payload on (`"payload"`), and `analyze_repo` reads it
as a result without findings.

### FileAnalysis and its parts

One file from Joern's findings to its answer. `FileAnalysis` holds what `_findings_to_overrides`, `_repo_overrides`
and `_analyze_one` keep, and enters each part in turn; a part begins (`CriticBegin`, `ContextBegin`, `ReviewBegin`,
`VerdictBegin`), steps, and is reset when its function returns, since its variables are locals. Settings
(`JAVA_ENGINE`, the policy, the critic's switch) are chosen where they are first looked at.

| Phase | Actions | Code |
|---|---|---|
| findings | `Found`, `NothingFound`, `CriticWorks`, `CriticReturns` | `analyze_repo`'s result, `filter_findings`, `_findings_to_overrides` |
| route | `RouteJava`, `RouteContext`, `RouteModel` | `_java_cpg_primary`, the engine, whether there is a repository review |
| resource | `ContextWorks`, `ContextReturns` | `java_resource_context.collect` and `review`, called by `_repo_overrides` |
| semantic | `SemanticBegins`, `SemanticWorks`, `SemanticReturns` | `java_semantic.review` |
| merge | `Merge` | `java_semantic.merge` and the status |
| model | `ModelWorks`, `ModelReturns`, `OtherThreads` | `_detect`, `_score`, `_joern`, `hybrid.aggregate`; other threads in `verify_token_ids` |

* `Critic`: a location is a number in the order of the ids. `CallFails` and `CallAnswers` interleave over the
  batches; an answer gives verdicts for any ids, since the code does not look whose they are, and `Settle` applies
  the last one. A FALSE is `"shown"`, `"near"` or `"unfounded"` as the line it cites is one the prompt held, one
  merely within `CTX` of the finding, or neither (or has no reason or confidence); the code accepts the first two.
* `SemanticReview`: a text is its length and the places of its line ends; `End` and `NextOffset` are the
  arithmetic of `review` and `Advance` its loop. One place, the `spot`, may be reported by every window that shows it;
  `LineReported` is the line the model counts in the window plus the offset the code adds. `covered` and `said` are
  history. The JSON of an answer is left out; an answer the schema rejects is a window that fails.
* `ResourceContext`: a program is what tree-sitter may find: what the calls of each method match, and
  constructors. `Resolve` is one turn of the loop over `selected` (`todo` are the elements it has not reached);
  which of too many callees still find room is left out, the context being incomplete then. `Collected` applies
  the character limit, in methods of one length. `Skip`, `CandidateFails` and `CandidateReviewed` are `review`.
* `ModelVerdict`: `Unparsed` and `Answered` are `_detect` with its second call, `CheckKnown`, `Verify` and `Score`
  are `_score`, `Decide` is `_joern` and `aggregate`. `tokenCheck` is `_TOKEN_CHECK`; it outlives the file,
  and `RivalBegins` and `RivalVerifies` are other threads that check and assign it too. `reference` says whether the
  server's tokenizer is the right one.

## 4. Runs

Every run checks for deadlock; a `Quiescent` or `Done` step stands for a system with nothing left to do.

| Run | Properties | Bounds, and why they suffice |
|---|---|---|
| `worker_isolation` | `TypeOK`, `OneJobPerId`, `Registered`, `WorkDirExclusive`, `WorkDirPresent` | 3 requests, 2 ids that share a path, all endpoints, native launcher, 1 crash: a job, a colliding one and one that reuses the id of either. 1,080,000 states |
| `worker_live` | `RegistryExact`, `NoOrphanEngine`, `OwnResult`, `RequestsEnd`, `SubmitSettles` | 2 requests with one id, every endpoint, docker, 2 chunks, 1 crash, under fairness: a directory, a container or an id of an earlier life meets a new job with the same id. 219,000 states |
| `batch` | `TypeOK`, `UnmappedOnlyByExtension`, `Accounted`, `OnlyOpenRetried`, `OneResultPerCase`, `LedgerSpec`, `BatchEnds` | up to 4 cases in chunks of 2; ids with one stem inside a chunk and across chunks, ids that differ by the extension; all reports; under fairness. 14,000 states |
| `service` | `TypeOK`, `JoernBounded`, `SlotsExact`, `FailureNotClean`, `AdmittedAnswered` | 1 slot, 2 clients, 3 worker requests, 3 job ids, 1 crash, under fairness. `Loads` is four cases: two pull requests whose ids meet or not, so that once only the slot keeps the second Joern out, with clients that outwait the worker and clients that do not (`Contended`); a pull request with a file of its own before somebody else's group (`Files`); candidates, taint and context of one request (`Calls`); groups of two languages, one that failed and leaves its file to a call of its own, no engine (`Groups`). 227,000 states |
| `rules` | `TypeOK`, `RulesOfOwnPrompt`, `MissingWasRetried`, `NoRuleLost`, `FirstLabelStays`, `RulesEnd` | 2 analyses that share a candidate, one of them with a full batch and a half one, both versions of the labelling, every subset of labels in every answer, 1 crash, under fairness. 162,000 states |
| `runpod` | `TypeOK`, `NoAbandonedJob`, `CallsEnd` | 2 calls, of either client, for 1 worker, so that one waits behind a job nobody wants any more; under fairness. 17,000 states |
| `file_analysis` | `TypeOK`, `ContextClosed`, `NoGap`, `FindingsKept`, `EvidenceMonotone`, `ScoreDefined`, `DoneFileReviewed`, `FileEnds` | up to 3 flows at 2 locations in batches of 1 (a batch may judge the other's); 4 methods with every assignment of 4 kinds of calls, 0 or 3 constructors, a limit of 2 methods that callees and constructors both exceed, up to 2 candidates; texts of 3 and 6 characters with all placements of line ends, in windows of at most 4: one window, several, ends at a line or not; scores 0 to 2 around the threshold; one other thread; under fairness. 318,000 states |

What each run shows is its "about" in `PROJECT.json`.

Bounds: `Requests` and `Calls` (each made once), `MaxChunks`, `MaxCrashes`, `Inputs`, `Clients`, `Codes` (one content:
what matters of a case is its id), `FlowLists`, `Methods` and `CallSets`, `Lengths`, `Scores`. `MaxCalls`,
`Attempts` and `MaxTries` are numbers of the code. The limits the code has at 12 methods, 1000 characters of overlap and
batches of 4 and 20 are constants given small values, so that the runs reach and exceed them. Symmetry is
used in `worker_isolation` only, of requests, which no definition tells apart, and of job ids, which have one path for
all. The runs with liveness properties use none.

Fairness: `Progress(r)`, weak, for each worker thread: the operating system schedules it and the timer of
`communicate(timeout=...)` fires, so a step that is always possible is taken. Nothing is assumed of Joern, of
callers or of crashes. In the service the same holds of API threads after a request is admitted, in `RuleCache` after
it began, in `RunPodClient` of the client and of its clock (`Expire`), not of the endpoint; every request those
threads make has a time limit of its own. `JoernBatch` and `FileAnalysis` are one thread: weak fairness of its next
step; other threads (`OtherThreads`) need not run.

Runs that show where the code and what the repository says of it part ("violation" in `PROJECT.json`, with the
quotes there under "findings"):

| Run | Shows |
|---|---|
| `worker_registry_leak` | the directory check raises between registering the id and the `try`: the id is refused for ever (`RegistryRunning`) |
| `batch_ext_clash` | the ids `c` and `c.java` get one file; one of the two is never analysed |
| `service_dead_joern` | a Joern that dies without output is an analysis without findings, and the file is `DONE` |
| `critic_unshown` | a finding is removed for a line near it that the prompt did not hold (`RemovedOnShownLine`) |
| `rules_torn_cache` | an analysis that reads the rule cache while another one rewrites it ends with an exception, before the taint call that the fixed rules would have sufficed for |

What the passing configurations and properties exclude is as telling.

* `RequestsEnd` and `SubmitSettles` hold with the docker launcher and not with the native one, which is the default
  of `JOERN_BIN` (line 34). After a time-out `_run_chunk` kills the process it started and reads its pipe without a
  limit (160-161). `joern_docker.sh` replaces itself by `docker run`, so that what is killed is the client, and the
  pipe closes with it although the container lives on. Killing the native wrapper leaves a JVM that holds the pipe:
  if that JVM never ends, neither does the request, and a submitted job stays `RUNNING`. The comment at 432-434
  knows of this wait (it is why `run_repo_script` removes its container and waits at most 30 s more), and
  `joern/README.md:75` calls `JOERN_CASE_TIMEOUT` an upper limit; for `analyze_batch` with the native launcher it is
  none. `Launcher = "native"` in `worker_live.cfg` shows it (`ChunkTimeout` goes to `"draining"`).
* `NoOrphanEngine` and `OwnResult` speak of the repo endpoint, with the docker launcher. With `Launcher = "native"`
  the JVM of a timed-out job lives on and may write into the directory of a later job with the same id; and with
  docker, a timed-out chunk of `analyze_batch` leaves its container running, since only `run_repo_script` removes
  containers.
* Both also need a `docker rm -f` that works: `RemovalFails = FALSE` in every run. Where it fails, or takes more
  than its 30 s, or no container id has been written yet, `run_repo_script` goes on all the same: an exception is
  logged (435-443), the pipe gets 30 s more, and the answer is `"timeout"` while the container lives on. With
  `RemovalFails = TRUE` the model has that behaviour (`RepoTimeout`), and `NoOrphanEngine` fails in it.
* `RegistryExact` exempts the ids of jobs that were registered and then got no directory, because it was there or the
  file system refused it (`TurnedAway`). `RegistryRunning`, the property of `worker_registry_leak`, exempts only the
  latter: what the repository says is broken also where no file system fails.
* `JoernBounded` speaks of the calls for groups and contexts (`RepoEngines`), of a patient client and of no restart of
  the worker. With the defaults both sides wait 600 s, and a client that gives up first frees its slot while its
  Joern runs. Of the calls for single files it does not hold whatever is configured: the client waits 120 s, the
  worker's two passes may take 90 s each, and the container of a chunk that timed out is never removed. So their Joern
  processes outlive the slot, and the guard does not "bound shared Joern work across endpoints"
  (`api_rebuild.py:761`) in a deployment with `SCANOPS_JOERN_URL`. That the slot itself is given back once, and that
  the request is answered, is checked with those calls included.
* `OneResultPerCase` needs distinct ids: a path given twice gets one result.
* `OneJobPerId` speaks of running jobs only: two concurrent submits of one id can both be accepted, the second one
  then fails in `Register` and its failure may overwrite the status in `_store`.
* `FailureNotClean` is about Java. A JavaScript group whose taint call failed is analysed without `strict`, so that
  its files get overrides of "safe" although `api_rebuild.py:876` says that only groups that succeeded do; under
  the default policy, `JOERN-NO-BETTER`, they decide nothing.
* `NoRuleLost` and `FirstLabelStays` exclude overlapping and interrupted updates (`disturbed`).
* `NoAbandonedJob` exempts the model client at its limit: its job goes on, and keeps a worker from later calls.
* Nothing is claimed of what the critic removes beyond `RemovedOnShownLine`, which fails: the code takes a verdict on an
  id from any batch and a basis line anywhere near the finding, and a FALSE on the representative of a location removes
  all flows of that location.
* `DoneFileReviewed` is about Java. Of other files, one with two answers that could not be parsed is reported safe and
  `DONE`, on purpose (the comment at `api_rebuild.py:276`); and a missing Joern verdict makes no file `PARTIAL`
  under `JOERN-NO-BETTER`, although the head of `hybrid.py` says so of all.
* `ScoreDefined` says nothing of how long scores stay off: one failed call in `verify_token_ids` turns them off until
  the process ends, since `_TOKEN_CHECK` is checked only while it is unset.

## 5. Proofs

Every safety property of a passing run is stated by a theorem, for all values of the constants that satisfy the
module's `ASSUME`; where a theorem needs more, it says so under its own `ASSUME`. What a run shows on a small
instance therefore holds of any number of requests, files, candidates or windows. Each theorem follows the same
argument: an invariant that is strong enough to be inductive, one lemma for each action (or each group of actions that
disturb the same part of it), and a temporal step. Types are proved first and used everywhere else.

Each component also has a theorem on progress. A number, or a few in lexicographic order, says what is left of a
request, a batch, a handler, a review or a file; it is a natural number in every reachable state, falls with every
step of its own and is raised by nobody else. An analysis of the rule cache advances by its phases and by the limited
calls of its batches; a call of RunPod has a measure only from its limit on. These theorems hold in every behaviour,
without fairness. The definitions they use were checked by TLC on the instances of section 4 before they were proved.

### The worker (`JoernWorker_proofs`)

| Theorem | Inductive invariant, and why the property alone is not one |
|---|---|
| `RegistryExclusive`, `RunningRegistered` | `Registered /\ OneJobPerId`: from a state in which a running job's id is missing from `active`, `Register` would let a second one in; and `Unregister` keeps `Registered` only because no other running job has the id it discards |
| `WorkDirsApart` | a job that holds a directory sees it as it made it (`WorkDirPresent`), so that `CanMake` is false for every other job that might make the same path, across the gap between `exists()` and `mkdir` |
| `OwnDirStays` | the same invariant (`DirInv`): what a job made is there until its own clean-up, because the clean-up of another job is of a path that this one does not hold |
| `EnginesWaitedFor` | `EngineInv`: every Joern of a repo request is the one its request waits for, or the request was lost in a crash, which ended it (`LostAtEnd`) |
| `OwnResultOnly` | `OutInv`: the Joern of a lost request keeps a directory nobody else holds, because that directory still exists and a new job is refused by it (`OrphanApart`); a path that is gone has no output (`NothingStale`); and a bare root, left by a clean-up or by a `mkdir` that failed half-way, has no output (`BareRootEmpty`) |
| `RegistryIsExact` | `RegInv = TurnedAtEnd /\ RegistryExact`: a job that got no directory has left the handler and keeps that outcome, so that what excuses its id stays true; and a job discards its id only at its own end, when nobody else runs with it. Any ids, any launcher, any restarts |
| `RunningHasThread`, `StatusIsReal` | `StatusInv`: a `RUNNING` in `_store` has a thread of a submit with that id that will replace it, and a `DONE` or `FAILED` is what such a submit came to. Needed with it: a job that is about to publish has an outcome (`Decided`). It holds however submits with one id overlap: each writes the entry once more at its own end |
| `StepsAreBounded`, `RequestsAdvance` | `StepsLeft(r)` is the place of the request in the handler, and three for every chunk to come; at most `3 * MaxChunks + 8`. `Nearer`: no late Joern, other request or restart of the worker sends a request back |

Hypotheses, beside `WorkerAssumption`:

* `EnginesApart`: no path of the batch engine is one of the repo engine. Needed because `run_repo_script` makes its
  `repo` directory with `parents=True` and accepts a root somebody else has just made. It fails only for ids such as
  `repo_x` next to `x`, which neither caller in the repository generates.
* `ContainersRemoved`: the docker launcher, and a `docker rm -f` that works. Section 4 says what happens otherwise.

### The batch (`JoernBatch_proofs`)

`AnsweredNotRetried`, `ResultPerCase` and the refinement `ImplementsLedger` (`Spec => LedgerSpec`) rest on `PassInv`:
the ids of `pending` and of `failed` are distinct, and the part of `pending` still to be written has none of those that
failed. Without that, a chunk could answer a case that an earlier one had put aside, and its answer would change in
the next pass. `EveryCaseAccounted` and `UnmappedByExtension` rest on `AccountInv`, which says where the ids of all
these places come from. The second one needs what `FileName` does with stems: the suffix is the number of equal stems
before it, which grows from one to the next, so two names are equal only if their ids differ by the extension
(`NamesDiffer`).
`InputsDistinct`, no id twice in a batch, holds of the callers in the repository: the API sends one file (`_joern`,
`api_rebuild.py:565`), the benchmarks cases under their ids. A path sent twice gets one result.

`RetryIsBounded`: the cases a pass has put aside and those it has yet to write are never more than it was given, so the
second pass is not longer than the first. With it `WorkLeft`, at most `2 * Len(files) + 2`, falls with every step
(`BatchAdvances`), whatever Joern times out on or fails to import.

### The service (`AnalysisService_proofs`)

`RunsWorker` (`Spec => Proved!Spec`) shows that the worker inside the service is `JoernWorker`: each of the service's
steps is a step of the worker or leaves it alone. So the worker's theorems need not be repeated here.

* `SlotsAreExact`: the free slots and the clients in flight add up to `Slots`. Inductive with types; the work is in
  the cardinality of `InFlight` under each way in and out of the guard.
* `JoernIsBounded`, of the calls for groups and contexts: with a patient client and no restart, every `"repo"` request
  of the worker that has not ended is waited for by a client (`ClientsWait`), since only a call for a single file can
  be given up on, and what waits at stage `"file"` is a `"sync"` request (`FileApart`); with `EngineInv` of the worker,
  a Joern process belongs to such a request; and a client waits for one call. That is an injection of processes into
  slots. Under `ContainersRemoved`, and with any number of `"sync"` requests beside them.
* `FailuresNotClean`: the groups from the current one on have no override yet (`StillOpen`), so that no taint call is
  heard twice; and a Java override comes from a taint call that brought a result (`CleanInv`).

* `CallsAreOwn`: two handlers that wait have different requests at the worker, each of which has arrived there. A
  thread of the worker never returns to `"idle"` (`ThreadStarted`), so that `Post` and `AskFile` take a request nobody
  has.
* `HandlerWorkBounded`, `HandlersAdvance`: a handler has a post and a wait for each of two calls per group and for the
  file's own, the review, the context and the answer before it; at most `7 + 4 * Len(plan[c].groups)`. No failure of a
  call leads back to an earlier one.

`ServiceAssumption` asks for what requests look like: at least one group per plan, and one group for each frontend,
since the API makes the groups by frontend; worker requests of the two entries the API calls, with ids that differ
from one entry to the other. It says nothing of the order, number or job ids of requests otherwise: the theorems hold
for every set of `Loads`.

### The rule cache and the RunPod clients

`RuleCache_proofs`, by `RulesAssumption` (finitely many analyses with finitely many candidates):

* `MissingAreRetried`: what a batch has labels for are items of that batch (`OwnBatch`); a batch is open only while it
  has attempts left. That every item is in some batch is a lemma on ranks (`BatchExists`).
* `RulesFromOwnPrompt`: no rule that is held, is about to be written or is in the file answers a prompt without
  its candidate (`PromptInv`). The three must be taken together: rules go from analyses to the file and back.
* `NoRulesLost` and the action property `FirstLabelsStay`, both from `FileInv`: while undisturbed there is at most one
  update, and its `content` extends the cache and has all that finished analyses have written.
* `CacheIsLedger` (`Spec /\ []~disturbed => Labels!Spec`): the cache implements `CaseLedger` too, with items for cases
  and rules for answers. While an update rewrites the file, the ledger is its `content`, since the file itself is
  truncated for a while. What a batch promises its caller and what the cache promises later analyses is one
  specification.
* `RulesAdvance`: a step makes one more of the calls a batch has (`OneCallMore`, at most `Attempts`), or takes the
  analysis one phase on. Other analyses and interrupted updates leave it where it is.

`RunPodClient_proofs`: `NoJobAbandoned` needs that a client that polls has a job (`JobSubmitted`), so that every
status it may read is one the code distinguishes. `LimitHolds`, an action property: a call past its limit stays so,
and is at most three steps from its end (a poll, the look at the clock, the cancellation). Before the limit nothing
bounds the number of polls but the clock, so there is no measure for the whole call.

### A file and its parts

`SemanticReview_proofs` and `ResourceContext_proofs` are about the reviews alone, called again and again;
`RunsReview` and `RunsContext` of `FileAnalysis_proofs` carry their theorems to `FileAnalysis`.

* `EveryPlaceShown`, `WindowsAdvance`: the arithmetic of `End` and `NextOffset`, lemmas on the greatest line end
  before a limit and the first after it. `NextOffset` is beyond `offset` and at most `End`, for every text, window
  of at least 2 characters (the code raises below that) and overlap. So windows leave no gap, and there are no more
  windows than characters.
* `ContextsAreClosed`: of the methods already taken from `todo`, all callees are selected, unless `unresolved`
  says otherwise (`WalkInv`). When `todo` is empty that is the property.
* `ContextAdvances`: the walk is over a list that grows, and recursion in the program may call a method many times.
  What falls is the number of methods that are on the list or not yet selected: the one taken is in neither set
  afterwards, and what is added comes from the second. Below that, candidates are counted twice, once to collect and
  once to review.
* `WholeReviewsAll`: an end that counts as whole has reviewed every candidate.
* `EvidenceAdds`, `ScoresAreDefined`: `VerdictInv`. The outcome is what `Aggregate` makes of Joern's verdict and of
  what the model said; `tokenCheck = "ok"` only if the tokenizer is the reference, whichever thread found out.
* `DoneIsReviewed`: `PathInv` says which reviews a file has behind it in each phase, for each engine; `ReviewFacts`
  are what the theorems about the two reviews say of them.
* `FileAdvances`: `PhasesLeft`, `TurnsLeft` and `PlacesLeft`, in this order. The last two are, in each phase, those of
  the part that runs: the calls the batches of the critic still have, the measures of `ContextAdvances` and
  `WindowsAdvance`, the steps and tries of the model. Steps of other threads, which only touch the tokenizer's check,
  are not steps of the file.

### Model-checked only

The liveness properties `RequestsEnd`, `SubmitSettles`, `BatchEnds`, `AdmittedAnswered`, `RulesEnd`, `CallsEnd` and
`FileEnds`: fairness and `ENABLED` are beyond the prover. What can be said of them without fairness is proved:
`RequestsAdvance` of `RequestsEnd`, `BatchAdvances` of `BatchEnds`, `HandlersAdvance` of `AdmittedAnswered`,
`RulesAdvance` of `RulesEnd`, `LimitHolds` of `CallsEnd`, `FileAdvances` of `FileEnds`, and `RunningHasThread` of
`SubmitSettles`. What TLC adds is that a step is always enabled until the end, and that the fairness of section 4
makes it happen. The findings are counterexamples, which TLC finds; there is nothing to prove.

## 6. Not modelled

The components listed `not_modelled` in `PROJECT.json`, with the reason there: the Joern queries, whose results are
left open; the model workers, which are proxies without state; the earlier engines and APIs, which the service
replaced; and scripts, data and documents that are not part of the service.

Of the modelled components: `/health`; `_detect_v2`, `_v2_load` and `detect`, which no endpoint reaches, and the
`_PARSE_STATS` counters; `apply_cache_override`, which the service does not call; which fields make `validate` drop a
label; the rendering of rules, prompts and findings; the tree-sitter extraction of methods and calls. A malformed
id in an answer of the labelling model or the critic is an exception out of `analyze_repo` (`Malformed`,
`VerdictRaises`), whichever malformation it is. `_evidence_ok` holds of every finding that reaches the critic, so the
quarantine it guards has no action. A Java answer's line numbers are validated against `splitlines`, which knows more
line ends than `"\n"`; only `"\n"` is modelled.

The program is written in Python. The C and C++ files of the repository, three quarters of a million lines under
`rebuild/data/ctx_cache`, are files of other projects kept as inputs of experiments: nothing here compiles or
calls them, so no definition stands for
any of them; every definition is mapped to the Python of the service.
