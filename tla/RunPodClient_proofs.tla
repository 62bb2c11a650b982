-------------------------- MODULE RunPodClient_proofs --------------------------
(***************************************************************************)
(* Proofs about RunPodClient, for any calls of both clients and any number *)
(* of workers.                                                             *)
(***************************************************************************)
EXTENDS RunPodClient, TLAPS

\* A client that looks at its job has one: every status it may read is then
\* covered by one of the cases it distinguishes.
JobSubmitted ==
  \A c \in Calls : pc[c] \in {"sync", "check", "poll", "cancel"} => job[c] # "none"

Inv == TypeOK /\ JobSubmitted

\* What reading a status does to a call, whichever client reads.
Read(c) ==
  \/ pc' = [pc EXCEPT ![c] = "check"] /\ result' = result
  \/ /\ \E what \in Results : result' = [result EXCEPT ![c] = what]
     /\ pc' = [pc EXCEPT ![c] = "end"]
     /\ job[c] \notin Live

LEMMA JoernRead ==
  ASSUME Inv, NEW c \in Calls, JoernReads(c)
  PROVE  Read(c)
  <1>1. job[c] \in JobStates /\ output[c] \in Outputs
    BY DEF Inv, TypeOK
  <1>2. CASE job[c] = "completed"
    <2>1. \E what \in {"answer", "payload", "empty"} : Ends(c, what)
      BY <1>1, <1>2 DEF JoernReads, Outputs, Dead
    <2>2. QED BY <1>2, <2>1 DEF Ends, Read, Results, Live
  <1>3. CASE job[c] \in Dead
    BY <1>3 DEF JoernReads, Dead, Live, Ends, Read, Results
  <1>4. CASE job[c] # "completed" /\ job[c] \notin Dead
    BY <1>4 DEF JoernReads, Goto, Read
  <1>5. QED BY <1>2, <1>3, <1>4

LEMMA ModelRead ==
  ASSUME Inv, NEW c \in Calls, job[c] # "none", ModelReads(c)
  PROVE  Read(c)
  <1>1. job[c] \in JobStates /\ output[c] \in Outputs
    BY DEF Inv, TypeOK
  <1>2. CASE job[c] = "completed"
    <2>1. \E what \in {"answer", "workererror", "empty"} : Ends(c, what)
      BY <1>1, <1>2 DEF ModelReads, Outputs, Live, Dead
    <2>2. QED BY <1>2, <2>1 DEF Ends, Read, Results, Live
  <1>3. CASE job[c] \in Dead
    BY <1>3 DEF ModelReads, Dead, Live, Ends, Read, Results
  <1>4. CASE job[c] \in Live
    BY <1>4 DEF ModelReads, Goto, Read, Live, Dead
  <1>5. QED BY <1>1, <1>2, <1>3, <1>4 DEF JobStates

\* One step of a client: where it takes the call, and what the job has to do
\* with it.
Advance(c) ==
  \/ Read(c) /\ job' = job
  \/ \E p \in {"poll", "cancel"} :
       pc' = [pc EXCEPT ![c] = p] /\ result' = result /\ job' = job
  \/ /\ \E what \in {"broken", "uncancelled"} : result' = [result EXCEPT ![c] = what]
     /\ pc' = [pc EXCEPT ![c] = "end"] /\ job' = job
  \/ /\ client[c] = "model" /\ result' = [result EXCEPT ![c] = "timeout"]
     /\ pc' = [pc EXCEPT ![c] = "end"] /\ job' = job
  \/ /\ result' = [result EXCEPT ![c] = "timeout"]
     /\ pc' = [pc EXCEPT ![c] = "end"]
     /\ job' = [job EXCEPT ![c] = IF @ \in Live THEN "cancelled" ELSE @]

LEMMA StepAdvances ==
  ASSUME Inv, NEW c \in Calls, Step(c)
  PROVE  /\ Advance(c) /\ UNCHANGED <<client, late, output>>
         /\ pc[c] \in {"sync", "check", "poll", "cancel"} /\ job[c] # "none"
  <1>1. pc[c] \in {"sync", "check", "poll", "cancel"} /\ UNCHANGED <<client, late, output>>
    BY DEF Step, Return, InTime, Late, Poll, Cancel
  <1>2. job[c] # "none" /\ client[c] \in {"joern", "model"}
    BY <1>1 DEF Inv, JobSubmitted, TypeOK
  <1>3. CASE Return(c) \/ Poll(c)
    <2>1. job' = job /\ (JoernReads(c) \/ ModelReads(c) \/ Ends(c, "broken"))
      BY <1>3 DEF Return, Poll
    <2>2. Read(c) \/ Ends(c, "broken")
      BY <1>2, <2>1, JoernRead, ModelRead
    <2>3. QED BY <1>1, <1>2, <2>1, <2>2 DEF Advance, Ends
  <1>4. CASE InTime(c)
    BY <1>1, <1>2, <1>4 DEF InTime, Goto, Advance
  <1>5. CASE Late(c)
    BY <1>1, <1>2, <1>5 DEF Late, Goto, Ends, Advance
  <1>6. CASE Cancel(c)
    BY <1>1, <1>2, <1>6 DEF Cancel, Ends, Advance
  <1>7. QED BY <1>3, <1>4, <1>5, <1>6 DEF Step

LEMMA ClientStep ==
  ASSUME Inv, NoAbandonedJob, NEW c \in Calls, Step(c)
  PROVE  Inv' /\ NoAbandonedJob'
  <1>1. /\ Advance(c) /\ UNCHANGED <<client, late, output>>
        /\ pc[c] \in {"sync", "check", "poll", "cancel"} /\ job[c] # "none"
    BY StepAdvances
  <1>2. CASE Read(c) /\ job' = job
    BY <1>1, <1>2 DEF Read, Inv, TypeOK, JobSubmitted, NoAbandonedJob
  <1>3. CASE \E p \in {"poll", "cancel"} :
               pc' = [pc EXCEPT ![c] = p] /\ result' = result /\ job' = job
    BY <1>1, <1>3 DEF Inv, TypeOK, JobSubmitted, NoAbandonedJob
  <1>4. CASE /\ \E what \in {"broken", "uncancelled"} : result' = [result EXCEPT ![c] = what]
             /\ pc' = [pc EXCEPT ![c] = "end"] /\ job' = job
    BY <1>1, <1>4 DEF Inv, TypeOK, JobSubmitted, NoAbandonedJob, Results
  <1>5. CASE /\ client[c] = "model" /\ result' = [result EXCEPT ![c] = "timeout"]
             /\ pc' = [pc EXCEPT ![c] = "end"] /\ job' = job
    BY <1>1, <1>5 DEF Inv, TypeOK, JobSubmitted, NoAbandonedJob, Results
  <1>6. CASE /\ result' = [result EXCEPT ![c] = "timeout"]
             /\ pc' = [pc EXCEPT ![c] = "end"]
             /\ job' = [job EXCEPT ![c] = IF @ \in Live THEN "cancelled" ELSE @]
    <2>1. job'[c] \in JobStates /\ job'[c] \notin Live
      BY <1>6 DEF Inv, TypeOK, JobStates, Live, Dead
    <2>2. QED
      BY <1>1, <1>6, <2>1 DEF Inv, TypeOK, JobSubmitted, NoAbandonedJob, Results
  <1>7. QED BY <1>1, <1>2, <1>3, <1>4, <1>5, <1>6 DEF Advance

LEMMA SubmitStep ==
  ASSUME Inv, NoAbandonedJob, NEW c \in Calls, Submit(c)
  PROVE  Inv' /\ NoAbandonedJob'
  <1>1. UNCHANGED <<client, late, output>>
    BY DEF Submit
  <1>2. /\ job' \in [Calls -> JobStates]
        /\ \A d \in Calls : d # c => job'[d] = job[d]
    BY DEF Submit, Inv, TypeOK, JobStates, Live
  <1>3. CASE /\ Goto(c, IF client[c] = "joern" THEN "check" ELSE "sync")
             /\ job' = [job EXCEPT ![c] = "queue"]
    <2>1. PICK p \in {"check", "sync"} : pc' = [pc EXCEPT ![c] = p] /\ result' = result
      BY <1>3 DEF Goto
    <2>2. job'[c] = "queue"
      BY <1>3 DEF Inv, TypeOK
    <2>3. QED BY <1>1, <1>2, <2>1, <2>2 DEF Inv, TypeOK, JobSubmitted, NoAbandonedJob
  <1>4. CASE Ends(c, "refused")
    BY <1>1, <1>2, <1>4 DEF Ends, Inv, TypeOK, JobSubmitted, NoAbandonedJob, Results
  <1>5. QED BY <1>3, <1>4 DEF Submit

LEMMA EndpointStep ==
  ASSUME Inv, NoAbandonedJob, NEW c \in Calls,
         Start(c) \/ Complete(c) \/ Fail(c) \/ Expire(c)
  PROVE  Inv' /\ NoAbandonedJob'
  <1>1. UNCHANGED <<client, pc, result>>
    BY DEF Start, Complete, Fail, Expire
  <1>2. /\ job' \in [Calls -> JobStates] /\ output' \in [Calls -> Outputs]
        /\ late' \in [Calls -> BOOLEAN]
    BY DEF Start, Complete, Fail, Expire, Inv, TypeOK, JobStates, Live, Dead
  <1>3. \A d \in Calls : /\ job'[d] = "none" => job[d] = "none"
                         /\ job'[d] \in Live => job[d] \in Live
    BY DEF Start, Complete, Fail, Expire, Inv, TypeOK, Live
  <1>4. QED BY <1>1, <1>2, <1>3 DEF Inv, TypeOK, JobSubmitted, NoAbandonedJob

LEMMA InvAlways == Spec => [](Inv /\ NoAbandonedJob)
  <1>1. Init => Inv /\ NoAbandonedJob
    BY DEF Init, Inv, TypeOK, JobSubmitted, NoAbandonedJob, Results, JobStates, Outputs, Live
  <1>2. Inv /\ NoAbandonedJob /\ [Next]_vars => Inv' /\ NoAbandonedJob'
    <2> SUFFICES ASSUME Inv, NoAbandonedJob, [Next]_vars PROVE Inv' /\ NoAbandonedJob'
      OBVIOUS
    <2>1. ASSUME NEW c \in Calls, Submit(c) \/ Step(c) PROVE Inv' /\ NoAbandonedJob'
      BY <2>1, SubmitStep, ClientStep
    <2>2. ASSUME NEW c \in Calls, Start(c) \/ Complete(c) \/ Fail(c) \/ Expire(c)
          PROVE  Inv' /\ NoAbandonedJob'
      BY <2>2, EndpointStep
    <2>3. CASE UNCHANGED vars
      BY <2>3 DEF vars, Inv, TypeOK, JobSubmitted, NoAbandonedJob
    <2>4. QED BY <2>1, <2>2, <2>3 DEF Next, Quiescent
  <1>3. QED BY <1>1, <1>2, PTL DEF Spec

\* Every reachable state of the two clients and the endpoint is in its domain.
THEOREM TypeCorrect == Spec => []TypeOK
  <1>1. Inv => TypeOK
    BY DEF Inv
  <1>2. QED BY <1>1, InvAlways, PTL

\* In no order of polls, time limits, cancellations and the endpoint's own
\* steps does the joern client leave a job behind, but by a request to RunPod
\* that failed.
THEOREM NoJobAbandoned == Spec => []NoAbandonedJob
  BY InvAlways, PTL

-----------------------------------------------------------------------------
(***************************************************************************)
(* The limit.  Once it has passed, a call makes at most one more poll and  *)
(* one cancellation, whatever RunPod says about its job.                   *)
(***************************************************************************)
LateStarted == \A c \in Calls : late[c] => pc[c] \in {"poll", "check", "cancel", "end"}

RequestsLeft(c) ==
  CASE pc[c] = "poll"   -> 3
    [] pc[c] = "check"  -> 2
    [] pc[c] = "cancel" -> 1
    [] OTHER            -> 0

\* A late call stays late, and stays where it is or comes nearer to its end.
Limited ==
  \A c \in Calls : late[c] =>
    /\ late'[c]
    /\ \/ pc'[c] = pc[c] /\ result'[c] = result[c]
       \/ RequestsLeft(c)' < RequestsLeft(c)

\* What the step of a client does to a call that is late.
LEMMA LateStep ==
  ASSUME Inv, NEW c \in Calls, late[c], Step(c)
  PROVE  \/ pc[c] = "poll" /\ pc'[c] \in {"check", "end"}
         \/ pc[c] = "check" /\ pc'[c] \in {"cancel", "end"}
         \/ pc[c] = "cancel" /\ pc'[c] = "end"
         \/ pc[c] = "sync"
  <1>1. CASE Poll(c)
    <2>1. job[c] # "none" /\ pc[c] = "poll"
      BY <1>1 DEF Poll, Inv, JobSubmitted
    <2>2. Read(c) \/ Ends(c, "broken")
      BY <1>1, <2>1, JoernRead, ModelRead DEF Poll
    <2>3. QED BY <2>1, <2>2 DEF Read, Ends, Inv, TypeOK
  <1>2. CASE Late(c)
    BY <1>2 DEF Late, Goto, Ends, Inv, TypeOK
  <1>3. CASE Cancel(c)
    BY <1>3 DEF Cancel, Ends, Inv, TypeOK
  <1>4. QED BY <1>1, <1>2, <1>3 DEF Step, Return, InTime

LEMMA LateFrame ==
  ASSUME Inv, NEW c \in Calls, Submit(c) \/ Step(c)
  PROVE  late' = late /\ \A d \in Calls : d # c => pc'[d] = pc[d] /\ result'[d] = result[d]
  <1>1. CASE Submit(c)
    BY <1>1 DEF Submit, Goto, Ends, Inv, TypeOK
  <1>2. CASE Step(c)
    BY <1>2, StepAdvances DEF Advance, Read, Inv, TypeOK
  <1>3. QED BY <1>1, <1>2

LEMMA LateNext ==
  ASSUME Inv, LateStarted, [Next]_vars
  PROVE  LateStarted' /\ Limited
  <1>1. ASSUME NEW c \in Calls, Submit(c) PROVE LateStarted' /\ Limited
    <2>1. pc[c] = "new"
      BY <1>1 DEF Submit
    <2>2. QED BY <1>1, <2>1, LateFrame DEF LateStarted, Limited
  <1>2. ASSUME NEW c \in Calls, Step(c) PROVE LateStarted' /\ Limited
    <2>1. late' = late /\ \A d \in Calls : d # c => pc'[d] = pc[d] /\ result'[d] = result[d]
      BY <1>2, LateFrame
    <2>2. late[c] => /\ pc'[c] \in {"check", "cancel", "end"}
                     /\ RequestsLeft(c)' < RequestsLeft(c)
      BY <1>2, LateStep DEF LateStarted, RequestsLeft
    <2>3. QED BY <2>1, <2>2 DEF LateStarted, Limited
  <1>3. ASSUME NEW c \in Calls, Expire(c) PROVE LateStarted' /\ Limited
    BY <1>3 DEF Expire, Inv, TypeOK, LateStarted, Limited
  <1>4. CASE UNCHANGED <<pc, late, result>>
    BY <1>4 DEF LateStarted, Limited
  <1>5. QED
    BY <1>1, <1>2, <1>3, <1>4 DEF Next, Start, Complete, Fail, Quiescent, vars

\* A limit that has passed is final: no answer of RunPod, and no job that
\* stays alive, starts another round of polls.  The safety half of CallsEnd.
THEOREM LimitHolds == Spec => [][Limited]_vars
  <1>1. Init => LateStarted
    BY DEF Init, LateStarted
  <1>2. Inv /\ LateStarted /\ [Next]_vars => LateStarted'
    BY LateNext
  <1>3. Inv /\ LateStarted /\ [Next]_vars => [Limited]_vars
    BY LateNext
  <1>4. QED BY <1>1, <1>2, <1>3, InvAlways, PTL DEF Spec
=============================================================================
