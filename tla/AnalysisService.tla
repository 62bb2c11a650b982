--------------------------- MODULE AnalysisService ---------------------------
(***************************************************************************)
(* The analysis API (scripts/api_rebuild.py) with analyze_repo             *)
(* (scanops/core/graph_spec_prod.py) in front of the Joern worker: the     *)
(* deployment guard and its slots, the calls each endpoint makes for each  *)
(* frontend, the client's time limit against the worker's, and what the    *)
(* answer says of a file whose graph analysis did not take place.          *)
(*                                                                         *)
(* The worker is JoernWorker, with all its interleavings; a call is one of *)
(* its requests: "repo" for a group of files, "sync" for a single file.    *)
(* LLM answers are left open; a group of files of one frontend is analysed *)
(* as a whole and stands for its files.                                    *)
(***************************************************************************)
EXTENDS Naturals, Sequences, FiniteSets

CONSTANTS Requests, JobIds, Dirs, WorkDir, Kinds, Launcher, RemovalFails,
          MaxChunks, MaxCrashes, NoFile, BadFile   \* the worker's
CONSTANTS
  Clients,        \* analysis requests, each once
  Slots,          \* MAX_CONCURRENT_ANALYSES
  WithContext,    \* an engine whose semantic candidates get CPG context
  Policy,         \* HYBRID_POLICY
  Loads,          \* what a behaviour starts from: the deployment, the clients that
                  \*   ask and what for, the entry and job id of each worker request
  NoCall

VARIABLES kind, job, pc, chunk, outcome, used, active, tree, out, engines,
          store, crashes                           \* the worker's

Worker == INSTANCE JoernWorker

\* "js" stands for every language that is not Java.
Frontends == {"java", "js"}

\* The groups of a request are the keys of a dict: one per frontend.
Plans ==
  {p \in [endpoint : {"analyze", "batch", "pr"}, groups : Seq(Frontends)] :
     /\ p.groups # <<>>
     /\ \A i, j \in DOMAIN p.groups : p.groups[i] = p.groups[j] => i = j}

\* ready: a graph engine is configured; candidates: rules are generated or
\* enforced; patient: GRAPH_SPEC_JOERN_TIMEOUT outlasts every repo job.
Deployments == [ready : BOOLEAN, candidates : BOOLEAN, patient : BOOLEAN]

\* The job ids of the two kinds of call differ in their prefix.
ASSUME ServiceAssumption ==
  /\ Worker!WorkerAssumption
  /\ IsFiniteSet(Clients)
  /\ Slots \in Nat \ {0}
  /\ WithContext \in BOOLEAN
  /\ Policy \in {"TRUST-JOERN", "JOERN-NO-BETTER"}
  /\ Kinds \subseteq {"repo", "sync"}
  /\ Loads \subseteq [config : Deployments, asking : SUBSET Clients, plan : [Clients -> Plans],
                      kind : [Requests -> Kinds], job : [Requests -> JobIds]]
  /\ \A l \in Loads : \A r, s \in Requests : l.kind[r] # l.kind[s] => l.job[r] # l.job[s]
  /\ NoCall \notin Requests

VARIABLES
  config,   \* the deployment's configuration
  plan,     \* the request of each client
  phase,    \* where its handler is
  group,    \* the group it is at
  stage,    \* the worker call it makes for that group
  call,     \* the worker request it waits for
  heard,    \* what the taint call of each frontend brought (history)
  verdict,  \* graph_by_file, or what the file's own call brought; "none": neither
  status,   \* the status of the files of each frontend
  reply,    \* what the client got
  free      \* _ANALYSIS_SLOTS

workerVars == <<kind, job, pc, chunk, outcome, used, active, tree, out, engines,
                store, crashes>>
apiVars == <<config, plan, phase, group, stage, call, heard, verdict, status, reply, free>>
vars == <<workerVars, apiVars>>

Phases  == {"new", "call", "wait", "review", "respond", "end"}
Stages  == {"candidates", "taint", "file", "context"}
Answers == {"none", "http", "timeout", "badjson", "import", "empty", "clean", "findings"}
Replies == {"none", "rejected", "busy", "failed", "ok"}

FirstStage  == IF config.candidates THEN "candidates" ELSE "taint"
Front(c)    == plan[c].groups[group[c]]
GroupsOf(c) == {plan[c].groups[k] : k \in DOMAIN plan[c].groups}
Strict(c)   == Front(c) = "java"

\* /analyze and /analyze/pr have the graph analysis of Java files only.
Graphed(c) == Front(c) = "java" \/ plan[c].endpoint = "batch"

Init ==
  /\ Worker!Init
  /\ \E l \in Loads :
       /\ config = l.config /\ plan = l.plan /\ kind = l.kind /\ job = l.job
       /\ phase = [c \in Clients |-> IF c \in l.asking THEN "new" ELSE "end"]
  /\ group = [c \in Clients |-> 1]
  /\ stage = [c \in Clients |-> FirstStage]
  /\ call = [c \in Clients |-> NoCall]
  /\ heard = [c \in Clients |-> [f \in Frontends |-> "none"]]
  /\ verdict = [c \in Clients |-> [f \in Frontends |-> "none"]]
  /\ status = [c \in Clients |-> [f \in Frontends |-> "none"]]
  /\ reply = [c \in Clients |-> "none"]
  /\ free = Slots

-----------------------------------------------------------------------------
(* The guard.                                                               *)

\* Incomplete configuration, another language, a limit: no slot is taken.
Reject(c) ==
  /\ phase[c] = "new"
  /\ phase' = [phase EXCEPT ![c] = "end"]
  /\ reply' = [reply EXCEPT ![c] = "rejected"]
  /\ UNCHANGED <<config, plan, group, stage, call, heard, verdict, status, free, workerVars>>

\* Mutant: the result of acquire is not looked at.
AdmitUnchecked(c) ==
  /\ phase[c] = "new"
  /\ phase' = [phase EXCEPT ![c] = "call"]
  /\ free' = free - 1
  /\ UNCHANGED <<config, plan, group, stage, call, heard, verdict, status, reply, workerVars>>

\* acquire(blocking=False).
Admit(c) ==
  /\ phase[c] = "new"
  /\ IF free = 0
       THEN /\ phase' = [phase EXCEPT ![c] = "end"]
            /\ reply' = [reply EXCEPT ![c] = "busy"]
            /\ UNCHANGED free
       ELSE /\ phase' = [phase EXCEPT ![c] = "call"]
            /\ free' = free - 1
            /\ UNCHANGED reply
  /\ UNCHANGED <<config, plan, group, stage, call, heard, verdict, status, workerVars>>

\* Mutant: the slot is released after the handler's return only.
LeaveNoFinally(c, what) ==
  /\ phase' = [phase EXCEPT ![c] = "end"]
  /\ reply' = [reply EXCEPT ![c] = what]
  /\ free' = IF what = "ok" THEN free + 1 ELSE free

\* The handler returns or raises: the slot is released in a finally.
Leave(c, what) ==
  /\ phase' = [phase EXCEPT ![c] = "end"]
  /\ reply' = [reply EXCEPT ![c] = what]
  /\ free' = free + 1

-----------------------------------------------------------------------------
(* Calls to the worker.                                                     *)

\* A request of this kind reaches the worker.  Its job_id is the time in
\* milliseconds, so that another one may have the same.
Send(c, what) ==
  /\ \E r \in Requests :
       kind[r] = what /\ Worker!Arrive(r) /\ call' = [call EXCEPT ![c] = r]
  /\ phase' = [phase EXCEPT ![c] = "wait"]

\* call_joern_repo, for a group or for the context.
Post(c) ==
  /\ phase[c] = "call"
  /\ (config.ready /\ Graphed(c)) \/ stage[c] = "context"
  /\ Send(c, "repo")
  /\ UNCHANGED <<config, plan, group, stage, heard, verdict, status, reply, free>>

\* /analyze of an empty text is refused inside the guard: 400, slot released.
RefuseEmpty(c) ==
  /\ phase[c] = "call" /\ plan[c].endpoint = "analyze"
  /\ group[c] = 1 /\ stage[c] = FirstStage /\ verdict[c][Front(c)] = "none"
  /\ Leave(c, "failed")
  /\ UNCHANGED <<config, plan, group, stage, call, heard, verdict, status, workerVars>>

\* What the outcome of a worker request is to its caller: 409, 500 and a
\* broken connection raise in raise_for_status or post.
Received(r) ==
  CASE outcome[r] = "data"        -> {"import", "clean", "findings"}
    [] outcome[r] = "done"        -> {"clean", "findings"}
    [] outcome[r] = "unsupported" -> {"clean"}
    [] outcome[r] = "empty"       -> {"empty"}
    [] outcome[r] = "badjson"     -> {"badjson"}
    [] outcome[r] = "timeout"     -> {"timeout"}
    [] OTHER                      -> {"http"}

\* The next group, or the files when there is none.
NextGroup(c) ==
  IF group[c] < Len(plan[c].groups)
    THEN /\ group' = [group EXCEPT ![c] = @ + 1]
         /\ stage' = [stage EXCEPT ![c] = FirstStage]
         /\ phase' = [phase EXCEPT ![c] = "call"]
    ELSE /\ phase' = [phase EXCEPT ![c] = "review"]
         /\ UNCHANGED <<group, stage>>

\* analyze_repo raised: /analyze/pr answers 503, the others go on without an
\* override for the group.
GroupFails(c) ==
  /\ IF plan[c].endpoint = "pr"
       THEN Leave(c, "failed") /\ UNCHANGED <<group, stage>>
       ELSE NextGroup(c) /\ UNCHANGED <<reply, free>>
  /\ UNCHANGED verdict

\* analyze_repo returned findings: every file of the group gets an override.
GroupReturns(c, what) ==
  /\ verdict' = [verdict EXCEPT ![c][Front(c)] = what]
  /\ NextGroup(c)
  /\ UNCHANGED <<reply, free>>

\* Candidates are optional unless the analysis is strict.  Once there are
\* some, labelling them reads the rule cache, which raises in any analysis.
CandidatesBring(c, what) ==
  IF Strict(c) /\ what \in {"http", "timeout", "badjson", "import"}
    THEN GroupFails(c)
    ELSE \/ /\ stage' = [stage EXCEPT ![c] = "taint"]
            /\ phase' = [phase EXCEPT ![c] = "call"]
            /\ UNCHANGED <<group, verdict, reply, free>>
         \/ what \in {"clean", "findings"} /\ GroupFails(c)

\* The critic may remove what was found.
Kept(what) == IF what = "findings" THEN {"vuln", "safe"} ELSE {"safe"}

\* Mutant: an error in the answer is "no findings" in a strict analysis too.
TaintBringsLenient(c, what) ==
  \/ what \in {"http", "findings"} /\ GroupFails(c)
  \/ what # "http" /\ \E kept \in Kept(what) : GroupReturns(c, kept)

\* A call that raised fails the group; an error in the answer does so only in
\* a strict analysis and is "no findings" otherwise; so is an empty answer.
\* What is done with findings (the critic, the resource review) may raise.
TaintBrings(c, what) ==
  LET error == what \in {"timeout", "badjson", "import"}
  IN  \/ /\ what \in {"http", "findings"} \/ (error /\ Strict(c))
         /\ GroupFails(c)
      \/ /\ what # "http" /\ ~(error /\ Strict(c))
         /\ \E kept \in Kept(what) : GroupReturns(c, kept)

\* The context of semantic candidates is attached or marked unavailable.
ContextBrings(c) ==
  /\ phase' = [phase EXCEPT ![c] = "respond"]
  /\ UNCHANGED <<group, stage, verdict, reply, free>>

\* The answer for a single file goes into its own verdict; whatever goes wrong
\* is no answer.
FileBrings(c, what) ==
  /\ verdict' = IF what \in {"clean", "findings"}
                  THEN [verdict EXCEPT ![c]["js"] = IF what = "clean" THEN "safe" ELSE "vuln"]
                  ELSE verdict
  /\ phase' = [phase EXCEPT ![c] = "review"]
  /\ UNCHANGED <<group, stage, reply, free>>

\* A file of another language has no group in /analyze, in /analyze/pr and
\* in a batch that stops at its first finding.
NoGraph(c) ==
  /\ phase[c] = "call" /\ stage[c] = FirstStage
  /\ Front(c) # "java"
  /\ NextGroup(c)
  /\ UNCHANGED <<config, plan, call, heard, verdict, status, reply, free, workerVars>>

\* Without a configured engine a strict analysis raises before it calls
\* anyone, and another one returns no findings.
AnalyzeUnready(c) ==
  /\ phase[c] = "call" /\ stage[c] = FirstStage
  /\ ~config.ready /\ Graphed(c)
  /\ IF Strict(c) THEN GroupFails(c) ELSE GroupReturns(c, "safe")
  /\ UNCHANGED <<config, plan, call, heard, status, workerVars>>

Brings(c, what) ==
  /\ heard' = IF stage[c] = "taint" THEN [heard EXCEPT ![c][Front(c)] = what] ELSE heard
  /\ call' = [call EXCEPT ![c] = NoCall]
  /\ CASE stage[c] = "candidates" -> CandidatesBring(c, what)
       [] stage[c] = "taint"      -> TaintBrings(c, what)
       [] stage[c] = "file"       -> FileBrings(c, what)
       [] stage[c] = "context"    -> ContextBrings(c)
  /\ UNCHANGED <<config, plan, status, workerVars>>

\* Mutant: a broken connection is taken for one that has no answer yet.
HearPolls(c) ==
  /\ phase[c] = "wait"
  /\ pc[call[c]] = "end"
  /\ IF outcome[call[c]] = "lost"
       THEN UNCHANGED vars
       ELSE \E what \in Received(call[c]) : Brings(c, what)

\* The worker answered, or the connection broke.
Hear(c) ==
  /\ phase[c] = "wait"
  /\ pc[call[c]] = "end"
  /\ \E what \in Received(call[c]) : Brings(c, what)

\* Mutant: the client's limit is no longer than the worker's.
GiveUpEarly(c) ==
  /\ phase[c] = "wait"
  /\ pc[call[c]] # "end"
  /\ Brings(c, "http")

\* The client's own time limit: the worker is not told and works on.  The one
\* for a single file (120 s) is shorter than the worker's two passes.
GiveUp(c) ==
  /\ phase[c] = "wait"
  /\ ~config.patient \/ stage[c] = "file"
  /\ pc[call[c]] # "end"
  /\ Brings(c, "http")

-----------------------------------------------------------------------------
(* The files.                                                               *)

\* _joern is called for a file of another language that has no override.
FileOpen(c) == "js" \in GroupsOf(c) /\ verdict[c]["js"] = "none" /\ stage[c] # "file"

\* The file is posted to the worker on its own, inside the guard.
AskFile(c) ==
  /\ phase[c] = "review" /\ FileOpen(c)
  /\ Send(c, "sync")
  /\ stage' = [stage EXCEPT ![c] = "file"]
  /\ UNCHANGED <<config, plan, group, heard, verdict, status, reply, free>>

\* No SCANOPS_JOERN_URL, or nobody listens there: no answer for the file.
SkipFile(c) ==
  /\ phase[c] = "review" /\ FileOpen(c)
  /\ stage' = [stage EXCEPT ![c] = "file"]
  /\ UNCHANGED <<config, plan, phase, group, call, heard, verdict, status, reply, free,
                 workerVars>>

\* _analyze_one: a Java file is DONE when it has an override and the semantic
\* and resource reviews are; another one follows the hybrid policy.
StatusOf(c, f, reviewed) ==
  IF f = "java"
    THEN IF verdict[c][f] # "none" /\ reviewed THEN "DONE" ELSE "PARTIAL"
    ELSE IF Policy = "TRUST-JOERN" /\ verdict[c][f] = "none" THEN "PARTIAL" ELSE "DONE"

Review(c) ==
  /\ phase[c] = "review" /\ ~FileOpen(c)
  /\ \E reviewed \in BOOLEAN :
       /\ status' = [status EXCEPT ![c] =
                       [f \in Frontends |->
                          IF f \in GroupsOf(c) THEN StatusOf(c, f, reviewed) ELSE "none"]]
       /\ IF plan[c].endpoint = "pr" /\ "java" \in GroupsOf(c) /\ status'[c]["java"] # "DONE"
            THEN Leave(c, "failed") /\ UNCHANGED stage
            ELSE /\ \/ /\ phase' = [phase EXCEPT ![c] = "respond"]
                       /\ UNCHANGED stage
                    \/ /\ WithContext /\ plan[c].endpoint # "pr" /\ "java" \in GroupsOf(c)
                       /\ phase' = [phase EXCEPT ![c] = "call"]
                       /\ stage' = [stage EXCEPT ![c] = "context"]
                 /\ UNCHANGED <<reply, free>>
  /\ UNCHANGED <<config, plan, group, call, heard, verdict, workerVars>>

\* The model backend of a file raises: 502 or 503 for the whole request.  So
\* does a PR whose Java file is not DONE before the others are looked at.
ReviewFails(c) ==
  /\ phase[c] = "review"
  /\ Leave(c, "failed")
  /\ UNCHANGED <<config, plan, group, stage, call, heard, verdict, status, workerVars>>

Respond(c) ==
  /\ phase[c] = "respond"
  /\ Leave(c, "ok")
  /\ UNCHANGED <<config, plan, group, stage, call, heard, verdict, status, workerVars>>

-----------------------------------------------------------------------------
ApiStep(c) ==
  \/ Reject(c) \/ Admit(c) \/ RefuseEmpty(c) \/ NoGraph(c) \/ AnalyzeUnready(c)
  \/ Post(c) \/ Hear(c) \/ GiveUp(c) \/ AskFile(c) \/ SkipFile(c)
  \/ Review(c) \/ ReviewFails(c) \/ Respond(c)

\* Only calls posted by the API arrive, a group's in a language the worker
\* resolves.
WorkerStep(r) ==
  /\ pc[r] # "idle"
  /\ Worker!Step(r)
  /\ kind[r] = "repo" => outcome'[r] # "unsupported"
  /\ UNCHANGED apiVars

Environment ==
  /\ \/ \E e \in engines : Worker!JoernWrites(e) \/ Worker!JoernDies(e)
     \/ Worker!Crash
  /\ UNCHANGED apiVars

\* Bound: all of Requests have been made, and the client would make another.
OutOfRequests(c) ==
  phase[c] = "call" /\ \A r \in Requests : kind[r] = "repo" => pc[r] # "idle"

Quiescent ==
  /\ \A c \in Clients : phase[c] = "end" \/ OutOfRequests(c)
  /\ \A r \in Requests : pc[r] \in {"idle", "end"}
  /\ engines = {}
  /\ UNCHANGED vars

Next ==
  \/ \E c \in Clients : ApiStep(c)
  \/ \E r \in Requests : WorkerStep(r)
  \/ Environment
  \/ Quiescent

Spec == Init /\ [][Next]_vars

\* Handlers and worker threads run on, their timers included.
FairSpec ==
  /\ Spec
  /\ \A c \in Clients : WF_vars(phase[c] # "new" /\ ApiStep(c))
  /\ \A r \in Requests : WF_vars(WorkerStep(r))

-----------------------------------------------------------------------------
(* Properties.                                                              *)

TypeOK ==
  /\ Worker!TypeOK
  /\ config \in Deployments
  /\ plan \in [Clients -> Plans]
  /\ phase \in [Clients -> Phases]
  /\ \A c \in Clients : group[c] \in DOMAIN plan[c].groups
  /\ stage \in [Clients -> Stages]
  /\ call \in [Clients -> Requests \cup {NoCall}]
  /\ heard \in [Clients -> [Frontends -> Answers]]
  /\ verdict \in [Clients -> [Frontends -> {"none", "safe", "vuln"}]]
  /\ status \in [Clients -> [Frontends -> {"none", "DONE", "PARTIAL"}]]
  /\ reply \in [Clients -> Replies]
  /\ free \in 0 .. Slots

InFlight == {c \in Clients : phase[c] \notin {"new", "end"}}

\* Of the processes of group calls there are never more than slots, as long as
\* no client gives up on one and the worker is not restarted, whatever ends a
\* request first and whichever calls collide on a job id.  The calls for single
\* files are not held to it: their client gives up before the worker does, and
\* the container of a chunk that timed out is never removed, so that the guard
\* does not "bound shared Joern work across endpoints" where they are made.
RepoEngines == {e \in engines : kind[e[1]] = "repo"}
JoernBounded == config.patient /\ crashes = 0 => Cardinality(RepoEngines) <= Slots

\* No path through a handler keeps its slot or gives it back twice.
SlotsExact == free + Cardinality(InFlight) = Slots

\* A Java file whose taint analysis raised, timed out or failed is never
\* delivered as DONE, whichever of the calls went wrong and in whatever order
\* worker and client ended.
FailureNotClean ==
  \A c \in Clients :
    reply[c] = "ok" /\ status[c]["java"] = "DONE" =>
      heard[c]["java"] \in {"empty", "clean", "findings"}

\* A DONE file has been analysed: its worker call brought an output that
\* Joern wrote.  ("An incomplete analysis is PARTIAL or a failure, it is not
\* turned into a verdict of safe.")
DoneMeansAnalysed ==
  \A c \in Clients :
    reply[c] = "ok" /\ status[c]["java"] = "DONE" =>
      heard[c]["java"] \in {"clean", "findings"}

\* Every admitted request is answered and its slot given back, also while
\* the worker is restarted under it, up to the bound on Requests.
AdmittedAnswered ==
  \A c \in Clients : phase[c] # "new" ~> phase[c] = "end" \/ OutOfRequests(c)
=============================================================================
