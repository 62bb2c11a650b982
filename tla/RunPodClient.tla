----------------------------- MODULE RunPodClient -----------------------------
(***************************************************************************)
(* The two clients of a RunPod serverless endpoint.  "joern" is            *)
(* _runpod_call of scanops/core/graph_spec_prod.py: run, poll the status,  *)
(* cancel when the limit has passed.  "model" is _runpod_call of           *)
(* scanops/core/llm_client.py: runsync, poll while the job waits or runs.  *)
(*                                                                         *)
(* The endpoint is external: a queue in front of a number of workers.  A   *)
(* job belongs to the call that submitted it, and has its name.            *)
(***************************************************************************)
EXTENDS Naturals, FiniteSets

CONSTANTS
  Calls,    \* calls of a client, each once
  Workers   \* workers of the endpoint

ASSUME RunPodAssumption == IsFiniteSet(Calls) /\ Workers \in Nat \ {0}

VARIABLES
  client,   \* which client makes each call
  pc,       \* where it is
  late,     \* its limit (RUNPOD_TIMEOUT, GRAPH_SPEC_JOERN_TIMEOUT) has passed
  result,   \* what its caller gets
  job,      \* the status of its job at RunPod
  output    \* what the worker returned

vars == <<client, pc, late, result, job, output>>

Live      == {"queue", "progress"}        \* IN_QUEUE, IN_PROGRESS
Dead      == {"failed", "cancelled"}      \* FAILED or TIMED_OUT, CANCELLED
JobStates == {"none", "completed"} \cup Live \cup Dead
Outputs   == {"none", "content", "error"}
Results   == {"none", "answer", "empty", "payload", "refused", "broken", "dead",
              "workererror", "timeout", "uncancelled"}

Init ==
  /\ client \in [Calls -> {"joern", "model"}]
  /\ pc = [c \in Calls |-> "new"]
  /\ late = [c \in Calls |-> FALSE]
  /\ result = [c \in Calls |-> "none"]
  /\ job = [c \in Calls |-> "none"]
  /\ output = [c \in Calls |-> "none"]

Ends(c, what) ==
  /\ pc' = [pc EXCEPT ![c] = "end"]
  /\ result' = [result EXCEPT ![c] = what]

Goto(c, p) == pc' = [pc EXCEPT ![c] = p] /\ UNCHANGED result

-----------------------------------------------------------------------------
(* The endpoint.                                                            *)

Start(c) ==
  /\ job[c] = "queue"
  /\ Cardinality({d \in Calls : job[d] = "progress"}) < Workers
  /\ job' = [job EXCEPT ![c] = "progress"]
  /\ UNCHANGED <<client, pc, late, result, output>>

\* The handlers answer with content or with an error; a job may come without
\* an output, too.
Complete(c) ==
  /\ job[c] = "progress"
  /\ job' = [job EXCEPT ![c] = "completed"]
  /\ \E o \in Outputs : output' = [output EXCEPT ![c] = o]
  /\ UNCHANGED <<client, pc, late, result>>

\* The worker dies, or the endpoint's own limit passes.
Fail(c) ==
  /\ job[c] \in Live
  /\ job' = [job EXCEPT ![c] = "failed"]
  /\ UNCHANGED <<client, pc, late, result, output>>

-----------------------------------------------------------------------------
(* The clients.                                                             *)

\* POST /run or /runsync.  When it raises, the job may exist all the same.
Submit(c) ==
  /\ pc[c] = "new"
  /\ \/ /\ Goto(c, IF client[c] = "joern" THEN "check" ELSE "sync")
        /\ job' = [job EXCEPT ![c] = "queue"]
     \/ /\ Ends(c, "refused")
        /\ \/ job' = [job EXCEPT ![c] = "queue"]
           \/ UNCHANGED job
  /\ UNCHANGED <<client, late, output>>

\* Mutant: the status itself is what the caller gets.
JoernReadsRaw(c) == IF job[c] \in Live THEN Goto(c, "check") ELSE Ends(c, job[c])

\* What a status with its output is to the joern client; it goes on when the
\* job is alive.
JoernReads(c) ==
  CASE job[c] = "completed" /\ output[c] = "content" -> Ends(c, "answer")
    [] job[c] = "completed" /\ output[c] = "error"   -> Ends(c, "payload")
    [] job[c] = "completed" /\ output[c] = "none"    -> Ends(c, "empty")
    [] job[c] \in Dead                               -> Ends(c, "dead")
    [] OTHER                                         -> Goto(c, "check")

\* The same for the model client, to which an error payload is an exception.
ModelReads(c) ==
  CASE job[c] \in Live                               -> Goto(c, "check")
    [] job[c] \in Dead                               -> Ends(c, "dead")
    [] job[c] = "completed" /\ output[c] = "content" -> Ends(c, "answer")
    [] job[c] = "completed" /\ output[c] = "error"   -> Ends(c, "workererror")
    [] job[c] = "completed" /\ output[c] = "none"    -> Ends(c, "empty")

\* runsync returns with whatever state the job has reached, or raises.
Return(c) ==
  /\ pc[c] = "sync"
  /\ ModelReads(c) \/ Ends(c, "broken")
  /\ UNCHANGED <<client, late, job, output>>

\* Mutant: the time is taken anew in every round of the loop.
InTimeAlways(c) ==
  /\ pc[c] = "check"
  /\ Goto(c, "poll")
  /\ UNCHANGED <<client, late, job, output>>

\* The limit is looked at before each poll.
InTime(c) ==
  /\ pc[c] = "check" /\ ~late[c]
  /\ Goto(c, "poll")
  /\ UNCHANGED <<client, late, job, output>>

\* Mutant: the joern client gives up like the other one.
LateRaises(c) ==
  /\ pc[c] = "check" /\ late[c]
  /\ Ends(c, "timeout")
  /\ UNCHANGED <<client, late, job, output>>

\* Only the joern client cancels.
Late(c) ==
  /\ pc[c] = "check" /\ late[c]
  /\ IF client[c] = "joern" THEN Goto(c, "cancel") ELSE Ends(c, "timeout")
  /\ UNCHANGED <<client, late, job, output>>

\* GET /status; a poll that raises ends the call.
Poll(c) ==
  /\ pc[c] = "poll"
  /\ \/ IF client[c] = "joern" THEN JoernReads(c) ELSE ModelReads(c)
     \/ Ends(c, "broken")
  /\ UNCHANGED <<client, late, job, output>>

\* POST /cancel: a job that has ended stays as it is.  An exception is
\* swallowed, and TimeoutError raised in any case.
Cancel(c) ==
  /\ pc[c] = "cancel"
  /\ \/ /\ job' = [job EXCEPT ![c] = IF @ \in Live THEN "cancelled" ELSE @]
        /\ Ends(c, "timeout")
     \/ /\ UNCHANGED job
        /\ Ends(c, "uncancelled")
  /\ UNCHANGED <<client, late, output>>

Expire(c) ==
  /\ pc[c] \in {"check", "poll"} /\ ~late[c]
  /\ late' = [late EXCEPT ![c] = TRUE]
  /\ UNCHANGED <<client, pc, result, job, output>>

Quiescent ==
  /\ \A c \in Calls : pc[c] = "end" /\ job[c] \notin Live
  /\ UNCHANGED vars

Step(c) == Return(c) \/ InTime(c) \/ Late(c) \/ Poll(c) \/ Cancel(c)

Next ==
  \/ \E c \in Calls : Submit(c) \/ Step(c) \/ Expire(c)
  \/ \E c \in Calls : Start(c) \/ Complete(c) \/ Fail(c)
  \/ Quiescent

Spec == Init /\ [][Next]_vars

\* The client runs on and its clock advances, every request of it has a limit
\* of its own; RunPod need never run a job.
FairSpec ==
  Spec /\ \A c \in Calls : WF_vars(Step(c)) /\ WF_vars(Expire(c))

-----------------------------------------------------------------------------
(* Properties.                                                              *)

TypeOK ==
  /\ client \in [Calls -> {"joern", "model"}]
  /\ pc \in [Calls -> {"new", "sync", "check", "poll", "cancel", "end"}]
  /\ late \in [Calls -> BOOLEAN]
  /\ result \in [Calls -> Results]
  /\ job \in [Calls -> JobStates]
  /\ output \in [Calls -> Outputs]

\* A job goes on without a caller, and holds a worker, only when a request to
\* RunPod itself failed or the model client gave up: the joern client leaves
\* none behind at its limit, also when the job ends while it is cancelled.
NoAbandonedJob ==
  \A c \in Calls :
    pc[c] = "end" /\ job[c] \in Live =>
      \/ result[c] \in {"refused", "broken", "uncancelled"}
      \/ client[c] = "model" /\ result[c] = "timeout"

\* A call ends, although RunPod may never start its job, and jobs that nobody
\* waits for may keep all the workers.
CallsEnd == \A c \in Calls : pc[c] # "new" ~> pc[c] = "end"
=============================================================================
