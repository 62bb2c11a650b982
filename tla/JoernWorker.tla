----------------------------- MODULE JoernWorker -----------------------------
(***************************************************************************)
(* The Joern worker (joern/handler_joern.py): requests that run            *)
(* concurrently in the threads of one process, the registry of active job  *)
(* ids, the work directory of each job, the Joern process it launches and  *)
(* what is left behind when that process outlives its job.                 *)
(*                                                                         *)
(* Three HTTP entries share the two analysis functions: "submit" starts a  *)
(* thread that runs analyze_batch and publishes in _store, "sync" runs     *)
(* analyze_batch in the request, "repo" runs run_repo_script.  A Joern     *)
(* process is named <<r, c>>: request r, chunk c (always 1 for a repo).    *)
(***************************************************************************)
EXTENDS Naturals, FiniteSets

CONSTANTS
  Requests,       \* the HTTP requests that may arrive, each once
  JobIds,         \* the job_id values callers choose
  Dirs,           \* paths below WORK_ROOT
  WorkDir,        \* [engine -> [job id -> path]]: prefix + sanitised job_id
  Kinds,          \* the entries in use
  Launcher,       \* "docker": joern_docker.sh; "native": the joern wrapper
  RemovalFails,   \* may `docker rm -f` fail or hit its own time limit?
  MaxChunks,      \* bound: chunks of one analyze_batch job
  MaxCrashes,     \* bound: crashes of the worker process
  NoFile, BadFile \* contents of an output file nobody / a dying Joern wrote

ASSUME WorkerAssumption ==
  /\ Kinds \subseteq {"submit", "sync", "repo"}
  /\ WorkDir \in [{"batch", "repo"} -> [JobIds -> Dirs]]
  /\ Launcher \in {"docker", "native"}
  /\ RemovalFails \in BOOLEAN
  /\ MaxChunks \in Nat \ {0}
  /\ MaxCrashes \in Nat
  /\ NoFile \notin Requests /\ BadFile \notin Requests

Chunks   == 1 .. MaxChunks
Contents == Requests \cup {NoFile, BadFile}

VARIABLES
  kind,     \* the entry each request uses
  job,      \* the job_id it carries
  pc,       \* where its thread is
  chunk,    \* the chunk an analyze_batch thread is at
  outcome,  \* what its caller is told in the end
  used,     \* the requests whose Joern wrote the output it has read
  active,   \* _ACTIVE_JOBS
  tree,     \* each path: "absent", "root" (the directory), "repo" (root/repo too)
  out,      \* each path: the output file of each chunk
  engines,  \* Joern processes alive
  store,    \* _store: the status published for each job_id
  crashes   \* crashes so far

vars == <<kind, job, pc, chunk, outcome, used, active, tree, out, engines,
          store, crashes>>

PCs == {"idle", "accept", "start", "registered", "checked", "setup", "running",
        "draining", "cleanup", "unregister", "publish", "end"}

Outcomes == {"none", "conflict", "unsupported", "duplicate", "exists", "nodir",
             "failed", "data", "empty", "badjson", "timeout", "done", "lost"}

EngineOf(r) == IF kind[r] = "repo" THEN "repo" ELSE "batch"
Dir(r)      == WorkDir[EngineOf(r)][job[r]]
Current(r)  == <<r, chunk[r]>>
After(r)    == IF kind[r] = "submit" THEN "publish" ELSE "end"

Init ==
  /\ kind \in [Requests -> Kinds]
  /\ job \in [Requests -> JobIds]
  /\ pc = [r \in Requests |-> "idle"]
  /\ chunk = [r \in Requests |-> 1]
  /\ outcome = [r \in Requests |-> "none"]
  /\ used = [r \in Requests |-> {}]
  /\ active = {}
  /\ tree = [d \in Dirs |-> "absent"]
  /\ out = [d \in Dirs |-> [c \in Chunks |-> NoFile]]
  /\ engines = {}
  /\ store = [i \in JobIds |-> "none"]
  /\ crashes = 0

-----------------------------------------------------------------------------
(* The HTTP layer.                                                          *)

\* A request reaches its endpoint.  submit looks its id up in _store, without
\* a lock: the entry is made by a later step of the same thread.
Arrive(r) ==
  /\ pc[r] = "idle"
  /\ IF kind[r] = "submit" /\ store[job[r]] # "none"
       THEN /\ pc' = [pc EXCEPT ![r] = "end"]
            /\ outcome' = [outcome EXCEPT ![r] = "conflict"]
       ELSE /\ pc' = [pc EXCEPT ![r] = IF kind[r] = "submit" THEN "accept" ELSE "start"]
            /\ UNCHANGED outcome
  /\ UNCHANGED <<kind, job, chunk, used, active, tree, out, engines, store, crashes>>

\* _store[job_id] = RUNNING, and the _work thread starts.
Accept(r) ==
  /\ pc[r] = "accept"
  /\ store' = [store EXCEPT ![job[r]] = "RUNNING"]
  /\ pc' = [pc EXCEPT ![r] = "start"]
  /\ UNCHANGED <<kind, job, chunk, outcome, used, active, tree, out, engines, crashes>>

\* Mutant: an exception in _work is lost with its thread.
PublishOnSuccess(r) ==
  /\ pc[r] = "publish"
  /\ store' = [store EXCEPT ![job[r]] =
                 IF outcome[r] \in {"done", "unsupported"} THEN "DONE" ELSE @]
  /\ pc' = [pc EXCEPT ![r] = "end"]
  /\ UNCHANGED <<kind, job, chunk, outcome, used, active, tree, out, engines, crashes>>

\* Mutant: the status stored is whatever the thread ended with.
PublishRaw(r) ==
  /\ pc[r] = "publish"
  /\ store' = [store EXCEPT ![job[r]] = outcome[r]]
  /\ pc' = [pc EXCEPT ![r] = "end"]
  /\ UNCHANGED <<kind, job, chunk, outcome, used, active, tree, out, engines, crashes>>

\* _work stores what analyze_batch returned or raised.
Publish(r) ==
  /\ pc[r] = "publish"
  /\ store' = [store EXCEPT ![job[r]] =
                 IF outcome[r] \in {"done", "unsupported"} THEN "DONE" ELSE "FAILED"]
  /\ pc' = [pc EXCEPT ![r] = "end"]
  /\ UNCHANGED <<kind, job, chunk, outcome, used, active, tree, out, engines, crashes>>

-----------------------------------------------------------------------------
(* The registry and the work directory.                                     *)

Leave(r, what) ==
  /\ pc' = [pc EXCEPT ![r] = After(r)]
  /\ outcome' = [outcome EXCEPT ![r] = what]

\* Unsupported language, unknown mode, invalid targets: answered before the
\* job id is looked at.
Refuse(r) ==
  /\ pc[r] = "start"
  /\ Leave(r, "unsupported")
  /\ UNCHANGED <<kind, job, chunk, used, active, tree, out, engines, store, crashes>>

\* Mutant: the registration is inside the try, so that a refused duplicate
\* discards the id of the job it collided with.
RegisterInTry(r) ==
  /\ pc[r] = "start"
  /\ IF job[r] \in active
       THEN /\ active' = active \ {job[r]}
            /\ Leave(r, "duplicate")
       ELSE /\ active' = active \cup {job[r]}
            /\ pc' = [pc EXCEPT ![r] = "registered"]
            /\ UNCHANGED outcome
  /\ UNCHANGED <<kind, job, chunk, used, tree, out, engines, store, crashes>>

\* with _ACTIVE_LOCK: refuse a job id that is active, else make it so.
Register(r) ==
  /\ pc[r] = "start"
  /\ IF job[r] \in active
       THEN Leave(r, "duplicate") /\ UNCHANGED active
       ELSE /\ active' = active \cup {job[r]}
            /\ pc' = [pc EXCEPT ![r] = "registered"]
            /\ UNCHANGED outcome
  /\ UNCHANGED <<kind, job, chunk, used, tree, out, engines, store, crashes>>

\* Mutant: the check is inside the try, so that its failure cleans up.
CheckDirInTry(r) ==
  /\ pc[r] = "registered"
  /\ IF tree[Dir(r)] # "absent"
       THEN /\ pc' = [pc EXCEPT ![r] = "cleanup"]
            /\ outcome' = [outcome EXCEPT ![r] = "exists"]
       ELSE pc' = [pc EXCEPT ![r] = "checked"] /\ UNCHANGED outcome
  /\ UNCHANGED <<kind, job, chunk, used, active, tree, out, engines, store, crashes>>

\* Mutant: a directory left from before is wiped and taken over.
CheckDirTakesOver(r) ==
  /\ pc[r] = "registered"
  /\ tree' = [tree EXCEPT ![Dir(r)] = "absent"]
  /\ out' = [out EXCEPT ![Dir(r)] = [c \in Chunks |-> NoFile]]
  /\ pc' = [pc EXCEPT ![r] = "checked"]
  /\ UNCHANGED <<kind, job, chunk, outcome, used, active, engines, store, crashes>>

\* `if root.exists(): raise ValueError`: outside the try, so no clean-up.  Nor
\* is there any when exists() raises itself (permissions, a job_id that is too
\* long for a file name).
CheckDir(r) ==
  /\ pc[r] = "registered"
  /\ \/ IF tree[Dir(r)] # "absent"
          THEN Leave(r, "exists")
          ELSE pc' = [pc EXCEPT ![r] = "checked"] /\ UNCHANGED outcome
     \/ Leave(r, "nodir")
  /\ UNCHANGED <<kind, job, chunk, used, active, tree, out, engines, store, crashes>>

\* Mutant: mkdir(exist_ok=True).
CanMakeExistOk(r) == tree[Dir(r)] \in {"absent", "root", "repo"}

\* root.mkdir raises when the root is there; (root/"repo").mkdir makes missing
\* parents, accepts existing ones and raises only when repo itself is there.
CanMake(r) == tree[Dir(r)] \in IF kind[r] = "repo" THEN {"absent", "root"} ELSE {"absent"}

Made(r) == IF kind[r] = "repo" THEN "repo" ELSE "root"

\* What a mkdir that the file system refuses (no space, permissions, name too
\* long) may have done to the path: made the root of the repo directory.
HalfMade(r) ==
  {tree[Dir(r)]} \cup
    IF kind[r] = "repo" /\ tree[Dir(r)] = "absent" THEN {"root"} ELSE {}

\* mkdir is outside the try too: whatever it raises leaves the id registered.
MakeDir(r) ==
  /\ pc[r] = "checked"
  /\ \/ /\ CanMake(r)
        /\ tree' = [tree EXCEPT ![Dir(r)] = Made(r)]
        /\ pc' = [pc EXCEPT ![r] = "setup"]
        /\ UNCHANGED outcome
     \/ ~CanMake(r) /\ Leave(r, "exists") /\ UNCHANGED tree
     \/ \E made \in HalfMade(r) :
          tree' = [tree EXCEPT ![Dir(r)] = made] /\ Leave(r, "nodir")
  /\ UNCHANGED <<kind, job, chunk, used, active, out, engines, store, crashes>>

\* finally: shutil.rmtree(root, ignore_errors=True).  A Joern still writing
\* below the root can make the last rmdir fail, which is ignored.
HasWriter(d) == \E e \in engines : Dir(e[1]) = d

Cleanup(r) ==
  /\ pc[r] = "cleanup"
  /\ \/ /\ tree' = [tree EXCEPT ![Dir(r)] = "absent"]
        /\ out' = [out EXCEPT ![Dir(r)] = [c \in Chunks |-> NoFile]]
     \/ /\ HasWriter(Dir(r))
        /\ tree' = [tree EXCEPT ![Dir(r)] = IF @ = "absent" THEN @ ELSE "root"]
        /\ UNCHANGED out
  /\ pc' = [pc EXCEPT ![r] = "unregister"]
  /\ UNCHANGED <<kind, job, chunk, outcome, used, active, engines, store, crashes>>

Unregister(r) ==
  /\ pc[r] = "unregister"
  /\ active' = active \ {job[r]}
  /\ pc' = [pc EXCEPT ![r] = After(r)]
  /\ UNCHANGED <<kind, job, chunk, outcome, used, tree, out, engines, store, crashes>>

-----------------------------------------------------------------------------
(* Running Joern.                                                           *)

\* Mutant: the clean-up is not in a finally block.
SetupFailsAtOnce(r) ==
  /\ pc[r] = "setup"
  /\ Leave(r, "failed")
  /\ UNCHANGED <<kind, job, chunk, used, active, tree, out, engines, store, crashes>>

\* Writing the input files or starting the process raises.
SetupFails(r) ==
  /\ pc[r] = "setup"
  /\ outcome' = [outcome EXCEPT ![r] = "failed"]
  /\ pc' = [pc EXCEPT ![r] = "cleanup"]
  /\ UNCHANGED <<kind, job, chunk, used, active, tree, out, engines, store, crashes>>

Launch(r) ==
  /\ pc[r] = "setup"
  /\ engines' = engines \cup {Current(r)}
  /\ pc' = [pc EXCEPT ![r] = "running"]
  /\ UNCHANGED <<kind, job, chunk, outcome, used, active, tree, out, store, crashes>>

\* analyze_batch goes on with another chunk or leaves its try block.
NextChunk(r) ==
  \/ /\ chunk[r] < MaxChunks
     /\ chunk' = [chunk EXCEPT ![r] = @ + 1]
     /\ pc' = [pc EXCEPT ![r] = "setup"]
     /\ UNCHANGED outcome
  \/ /\ pc' = [pc EXCEPT ![r] = "cleanup"]
     /\ outcome' = [outcome EXCEPT ![r] = "done"]
     /\ UNCHANGED chunk

\* What run_repo_script makes of its output file: a missing file is {}.
Parsed(content) ==
  CASE content = NoFile  -> "empty"
    [] content = BadFile -> "badjson"
    [] OTHER             -> "data"

\* communicate() returns because the process is gone; the output file is read.
Collect(r) ==
  /\ pc[r] = "running"
  /\ Current(r) \notin engines
  /\ LET content == out[Dir(r)][chunk[r]]
     IN  /\ used' = [used EXCEPT ![r] = @ \cup ({content} \cap Requests)]
         /\ IF kind[r] = "repo"
              THEN /\ outcome' = [outcome EXCEPT ![r] = Parsed(content)]
                   /\ pc' = [pc EXCEPT ![r] = "cleanup"]
                   /\ UNCHANGED chunk
              ELSE NextChunk(r)
  /\ UNCHANGED <<kind, job, active, tree, out, engines, store, crashes>>

\* Mutant: only the docker client is killed.
RepoTimeoutKillsClient(r) ==
  /\ pc[r] = "running" /\ kind[r] = "repo"
  /\ Current(r) \in engines
  /\ outcome' = [outcome EXCEPT ![r] = "timeout"]
  /\ pc' = [pc EXCEPT ![r] = "cleanup"]
  /\ UNCHANGED <<kind, job, chunk, used, active, tree, out, engines, store, crashes>>

\* communicate(timeout) expires.  run_repo_script kills the client, removes
\* the container if there is one, waits at most 30 s more and reports
\* "timeout".  The native wrapper's JVM, like a container that could not be
\* removed, stays alive.
RepoTimeout(r) ==
  /\ pc[r] = "running" /\ kind[r] = "repo"
  /\ Current(r) \in engines
  /\ \/ Launcher = "docker" /\ engines' = engines \ {Current(r)}
     \/ (Launcher = "native" \/ RemovalFails) /\ UNCHANGED engines
  /\ outcome' = [outcome EXCEPT ![r] = "timeout"]
  /\ pc' = [pc EXCEPT ![r] = "cleanup"]
  /\ UNCHANGED <<kind, job, chunk, used, active, tree, out, store, crashes>>

\* Mutant: a timed-out chunk waits for its container, without a limit.
ChunkTimeoutWaits(r) ==
  /\ pc[r] = "running" /\ kind[r] # "repo"
  /\ Current(r) \in engines
  /\ pc' = [pc EXCEPT ![r] = "draining"]
  /\ UNCHANGED <<kind, job, chunk, outcome, used, active, tree, out, engines, store, crashes>>

\* _run_chunk kills the process it started and reads its pipe to the end: the
\* docker client closes it at once and leaves the container running, the
\* JVM below the native wrapper holds it open until it stops by itself.
ChunkTimeout(r) ==
  /\ pc[r] = "running" /\ kind[r] # "repo"
  /\ Current(r) \in engines
  /\ IF Launcher = "docker"
       THEN NextChunk(r)
       ELSE /\ pc' = [pc EXCEPT ![r] = "draining"]
            /\ UNCHANGED <<chunk, outcome>>
  /\ UNCHANGED <<kind, job, used, active, tree, out, engines, store, crashes>>

Drained(r) ==
  /\ pc[r] = "draining"
  /\ Current(r) \notin engines
  /\ NextChunk(r)
  /\ UNCHANGED <<kind, job, used, active, tree, out, engines, store, crashes>>

-----------------------------------------------------------------------------
(* The environment: Joern itself, and the worker process dying.             *)

\* Joern writes its output by absolute path and exits.
JoernWrites(e) ==
  /\ e \in engines
  /\ engines' = engines \ {e}
  /\ LET d == Dir(e[1])
     IN  out' = IF tree[d] = "absent" THEN out ELSE [out EXCEPT ![d][e[2]] = e[1]]
  /\ UNCHANGED <<kind, job, pc, chunk, outcome, used, active, tree, store, crashes>>

\* Joern dies (killed for memory, JVM error) before or while it writes.
JoernDies(e) ==
  /\ e \in engines
  /\ engines' = engines \ {e}
  /\ LET d == Dir(e[1])
     IN  \/ UNCHANGED out
         \/ tree[d] # "absent" /\ out' = [out EXCEPT ![d][e[2]] = BadFile]
  /\ UNCHANGED <<kind, job, pc, chunk, outcome, used, active, tree, store, crashes>>

\* The worker process dies and is started again: _ACTIVE_JOBS and _store are
\* in its memory, the directories and the Joern processes are not.
Crash ==
  /\ crashes < MaxCrashes
  /\ crashes' = crashes + 1
  /\ pc' = [r \in Requests |-> IF pc[r] = "idle" THEN "idle" ELSE "end"]
  /\ outcome' = [r \in Requests |->
                   IF pc[r] \in {"idle", "end"} THEN outcome[r] ELSE "lost"]
  /\ active' = {}
  /\ store' = [i \in JobIds |-> "none"]
  /\ UNCHANGED <<kind, job, chunk, used, tree, out, engines>>

\* Every request answered, no Joern left: the worker waits for more.
Quiescent ==
  /\ \A r \in Requests : pc[r] = "end"
  /\ engines = {}
  /\ UNCHANGED vars

Step(r) ==
  \/ Arrive(r) \/ Accept(r) \/ Refuse(r) \/ Register(r) \/ CheckDir(r)
  \/ MakeDir(r) \/ SetupFails(r) \/ Launch(r) \/ Collect(r) \/ RepoTimeout(r)
  \/ ChunkTimeout(r) \/ Drained(r) \/ Cleanup(r) \/ Unregister(r) \/ Publish(r)

Next ==
  \/ \E r \in Requests : Step(r)
  \/ \E e \in engines : JoernWrites(e) \/ JoernDies(e)
  \/ Crash
  \/ Quiescent

Spec == Init /\ [][Next]_vars

\* Threads are scheduled and communicate()'s timer fires; nothing is assumed
\* of Joern, of callers or of crashes.
Progress(r) == pc[r] # "idle" /\ Step(r)
FairSpec == Spec /\ \A r \in Requests : WF_vars(Progress(r))

-----------------------------------------------------------------------------
(* Properties.                                                              *)

\* Every variable stays in its domain.
TypeOK ==
  /\ kind \in [Requests -> Kinds]
  /\ job \in [Requests -> JobIds]
  /\ pc \in [Requests -> PCs]
  /\ chunk \in [Requests -> Chunks]
  /\ outcome \in [Requests -> Outcomes]
  /\ used \in [Requests -> SUBSET Requests]
  /\ active \subseteq JobIds
  /\ tree \in [Dirs -> {"absent", "root", "repo"}]
  /\ out \in [Dirs -> [Chunks -> Contents]]
  /\ engines \subseteq Requests \X Chunks
  /\ store \in [JobIds -> {"none", "RUNNING", "DONE", "FAILED"}]
  /\ crashes \in 0 .. MaxCrashes

\* Between registering its id and discarding it.
Locked(r) == pc[r] \in {"registered", "checked", "setup", "running", "draining",
                        "cleanup", "unregister"}

\* Between making its work directory and removing it.
Holding(r) == pc[r] \in {"setup", "running", "draining", "cleanup"}

\* No work directory of analyze_batch is one of run_repo_script: true of the
\* ids the services generate, not of every id ("repo_x" against "x").
EnginesApart ==
  \A i, j \in JobIds : WorkDir["batch"][i] # WorkDir["repo"][j]

\* "Duplicate job ids are refused": two jobs that hold the same id never run
\* at once, whatever the order in which their threads register and discard.
OneJobPerId ==
  \A r, s \in Requests :
    r # s /\ Locked(r) /\ Locked(s) => job[r] # job[s]

\* Two jobs never work in one directory, even when their ids differ and are
\* sanitised to the same path, so that the registry lets both in: the
\* exists/mkdir pair has to keep them apart across the gap between its steps.
WorkDirExclusive ==
  \A r, s \in Requests :
    r # s /\ Holding(r) /\ Holding(s) => Dir(r) # Dir(s)

\* The directory of a running job is there, as the job made it, until its own
\* clean-up: no refused duplicate, colliding job or late clean-up of another
\* removes it.
WorkDirPresent == \A r \in Requests : Holding(r) => tree[Dir(r)] = Made(r)

\* A job's id is registered while it runs.  OneJobPerId is inductive only
\* together with this.
Registered == \A r \in Requests : Locked(r) => job[r] \in active

\* TurnedAway(i): a job with this id was registered and then got no directory,
\* because the path was there already or because the file system refused it.
TurnedAway(i) ==
  \E r \in Requests : job[r] = i /\ outcome[r] \in {"exists", "nodir"}

\* The registry holds an id without a running job only where a job was turned
\* away between its registration and its try.  That one place leaks ids (see
\* RegistryRunning); no failure of a job that has its directory, no refusal by
\* the registry, no time-out and no race does.
RegistryExact ==
  \A i \in active : TurnedAway(i) \/ \E r \in Requests : Locked(r) /\ job[r] = i

\* An id is registered while its job runs and no longer, unless the file system
\* failed: otherwise it is refused as a "duplicate" for the life of the process.
\* ("Duplicate job_ids are refused; every end, failures and time-outs too, is
\* cleaned up.")
RegistryRunning ==
  \A i \in active :
    \E r \in Requests : job[r] = i /\ (Locked(r) \/ outcome[r] = "nodir")

\* The Joern of a repo request does not outlive its job (the comment on the
\* container clean-up: left alone it keeps consuming CPU and RAM), unless the
\* worker itself died under it.  Only a container can be held to that, and
\* _run_chunk does not remove the one of a chunk that timed out.
NoOrphanEngine ==
  \A e \in engines : kind[e[1]] = "repo" => Locked(e[1]) \/ outcome[e[1]] = "lost"

\* A repo request reads only output its own Joern wrote: never that of an
\* earlier job whose Joern outlived it, in a crash or a time-out, and whose
\* path a new job has taken over.
OwnResult == \A r \in Requests : kind[r] = "repo" => used[r] \subseteq {r}

\* Every request that arrives is answered, with or without an answer from
\* Joern, where Joern runs in containers: killing docker's client closes the
\* pipe that _run_chunk reads without a limit after a time-out.  With the native
\* launcher, the default, the JVM holds that pipe, and a chunk whose Joern never
\* ends is never answered.
RequestsEnd == \A r \in Requests : pc[r] # "idle" ~> pc[r] = "end"

\* A submitted job does not stay RUNNING for ever, also when two submits of
\* one id overwrite each other's entry.  Of containers only, like RequestsEnd.
SubmitSettles == \A i \in JobIds : store[i] = "RUNNING" ~> store[i] # "RUNNING"
=============================================================================
