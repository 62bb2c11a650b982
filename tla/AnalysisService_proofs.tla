------------------------ MODULE AnalysisService_proofs ------------------------
(***************************************************************************)
(* Proofs about AnalysisService, for any clients, plans, slots and         *)
(* configurations, any worker and any of its bounds.  What JoernWorker     *)
(* guarantees is taken from its own proofs: the service's steps are the    *)
(* worker's or leave it alone.                                             *)
(***************************************************************************)
EXTENDS AnalysisService, FunctionTheorems, FiniteSetTheorems, TLAPS

Proved == INSTANCE JoernWorker_proofs

(***************************************************************************)
(* The worker inside the service is JoernWorker.                           *)
(***************************************************************************)
LEMMA SameAssumption == Proved!WorkerAssumption
  BY ServiceAssumption DEF Worker!WorkerAssumption, Proved!WorkerAssumption

LEMMA SameType == Worker!TypeOK <=> Proved!TypeOK
  BY DEF Worker!TypeOK, Worker!PCs, Worker!Outcomes, Worker!Chunks, Worker!Contents,
         Proved!TypeOK, Proved!PCs, Proved!Outcomes, Proved!Chunks, Proved!Contents

LEMMA SameStep ==
  ASSUME NEW r \in Requests, Worker!Step(r)
  PROVE  Proved!Step(r)
  <1>1. CASE \/ Worker!Arrive(r) \/ Worker!Accept(r) \/ Worker!Publish(r)
    BY <1>1 DEF Worker!Arrive, Worker!Accept, Worker!Publish,
                Proved!Arrive, Proved!Accept, Proved!Publish, Proved!Step
  <1>2. CASE \/ Worker!Refuse(r) \/ Worker!Register(r) \/ Worker!CheckDir(r)
             \/ Worker!MakeDir(r)
    BY <1>2 DEF Worker!Refuse, Worker!Register, Worker!CheckDir, Worker!MakeDir,
                Worker!Leave, Worker!After, Worker!Dir, Worker!EngineOf, Worker!Made,
                Worker!CanMake, Worker!HalfMade,
                Proved!Refuse, Proved!Register, Proved!CheckDir, Proved!MakeDir,
                Proved!Leave, Proved!After, Proved!Dir, Proved!EngineOf, Proved!Made,
                Proved!CanMake, Proved!HalfMade, Proved!Step
  <1>3. CASE Worker!SetupFails(r) \/ Worker!Launch(r) \/ Worker!RepoTimeout(r)
    BY <1>3 DEF Worker!SetupFails, Worker!Launch, Worker!RepoTimeout, Worker!Current,
                Proved!SetupFails, Proved!Launch, Proved!RepoTimeout, Proved!Current,
                Proved!Step
  <1>4. CASE Worker!Collect(r)
    <2>1. Worker!Current(r) = Proved!Current(r) /\ Worker!Dir(r) = Proved!Dir(r)
      BY DEF Worker!Current, Proved!Current, Worker!Dir, Worker!EngineOf,
             Proved!Dir, Proved!EngineOf
    <2>2. Worker!NextChunk(r) <=> Proved!NextChunk(r)
      BY DEF Worker!NextChunk, Proved!NextChunk
    <2>3. \A x : Worker!Parsed(x) = Proved!Parsed(x)
      BY DEF Worker!Parsed, Proved!Parsed
    <2>4. Proved!Collect(r)
      BY <1>4, <2>1, <2>2, <2>3 DEF Worker!Collect, Proved!Collect
    <2>5. QED BY <2>4 DEF Proved!Step
  <1>5. CASE Worker!ChunkTimeout(r) \/ Worker!Drained(r)
    BY <1>5 DEF Worker!ChunkTimeout, Worker!Drained, Worker!NextChunk, Worker!Current,
                Proved!ChunkTimeout, Proved!Drained, Proved!NextChunk, Proved!Current,
                Proved!Step
  <1>6. CASE Worker!Cleanup(r) \/ Worker!Unregister(r)
    BY <1>6 DEF Worker!Cleanup, Worker!Unregister, Worker!After, Worker!Dir,
                Worker!EngineOf, Worker!HasWriter, Worker!Chunks,
                Proved!Cleanup, Proved!Unregister, Proved!After, Proved!Dir,
                Proved!EngineOf, Proved!HasWriter, Proved!Chunks, Proved!Step
  <1>7. QED BY <1>1, <1>2, <1>3, <1>4, <1>5, <1>6 DEF Worker!Step

LEMMA SameEnvironment ==
  ASSUME Environment
  PROVE  Proved!Next
  BY DEF Environment, Worker!JoernWrites, Worker!JoernDies, Worker!Crash, Worker!Dir,
         Worker!EngineOf, Proved!JoernWrites, Proved!JoernDies, Proved!Crash, Proved!Dir,
         Proved!EngineOf, Proved!Next

\* A handler touches the worker only by sending a request there.
Sends(c) == Post(c) \/ AskFile(c)

LEMMA SendsOne ==
  ASSUME NEW c \in Clients, Sends(c)
  PROVE  /\ phase[c] \in {"call", "review"}
         /\ phase' = [phase EXCEPT ![c] = "wait"]
         /\ \E r \in Requests : Worker!Arrive(r) /\ call' = [call EXCEPT ![c] = r]
  BY DEF Sends, Post, AskFile, Send

LEMMA ApiLeavesWorker ==
  ASSUME NEW c \in Clients, ApiStep(c)
  PROVE  Sends(c) \/ UNCHANGED workerVars
  BY DEF ApiStep, Reject, Admit, RefuseEmpty, NoGraph, AnalyzeUnready, Post, Hear, GiveUp,
         Brings, AskFile, SkipFile, Review, ReviewFails, Respond, Sends

\* In everything the service does, its worker behaves as JoernWorker says, so
\* that what is proved of the worker holds under the API's calls.
THEOREM RunsWorker == Spec => Proved!Spec
  <1>1. Init => Proved!Init
    BY DEF Init, Worker!Init, Proved!Init, Worker!Chunks, Proved!Chunks
  <1>2. [Next]_vars => [Proved!Next]_(Proved!vars)
    <2> SUFFICES ASSUME [Next]_vars PROVE [Proved!Next]_(Proved!vars)
      OBVIOUS
    <2>1. ASSUME NEW c \in Clients, ApiStep(c) PROVE [Proved!Next]_(Proved!vars)
      <3>1. CASE Sends(c)
        <4>1. PICK r \in Requests : Worker!Arrive(r)
          BY <3>1, SendsOne
        <4>2. Proved!Step(r)
          BY <4>1, SameStep DEF Worker!Step
        <4>3. QED BY <4>2 DEF Proved!Next
      <3>2. CASE UNCHANGED workerVars
        BY <3>2 DEF workerVars, Proved!vars
      <3>3. QED BY <2>1, <3>1, <3>2, ApiLeavesWorker
    <2>2. ASSUME NEW r \in Requests, WorkerStep(r) PROVE [Proved!Next]_(Proved!vars)
      BY <2>2, SameStep DEF WorkerStep, Proved!Next
    <2>3. CASE Environment
      BY <2>3, SameEnvironment
    <2>4. CASE UNCHANGED vars
      BY <2>4 DEF vars, workerVars, Proved!vars
    <2>5. QED BY <2>1, <2>2, <2>3, <2>4 DEF Next, Quiescent
  <1>3. QED BY <1>1, <1>2, PTL DEF Spec, Proved!Spec

-----------------------------------------------------------------------------
(***************************************************************************)
(* The slots.  A client is in flight from its admission to its answer, and *)
(* every path through its handler crosses each of the two once.            *)
(***************************************************************************)
ApiType ==
  /\ config \in Deployments
  /\ plan \in [Clients -> Plans]
  /\ phase \in [Clients -> Phases]
  /\ group \in [Clients -> Nat \ {0}]
  /\ \A c \in Clients : group[c] \in DOMAIN plan[c].groups
  /\ stage \in [Clients -> Stages]
  /\ call \in [Clients -> Requests \cup {NoCall}]
  /\ heard \in [Clients -> [Frontends -> Answers]]
  /\ verdict \in [Clients -> [Frontends -> {"none", "safe", "vuln"}]]
  /\ status \in [Clients -> [Frontends -> {"none", "DONE", "PARTIAL"}]]
  /\ reply \in [Clients -> Replies]
  /\ free \in Nat

\* What a step of client c's handler may do to its phase and the slots, once
\* it is admitted.
Onward(c) ==
  \/ \E p \in {"call", "wait", "review", "respond"} : phase' = [phase EXCEPT ![c] = p]
                                                      /\ free' = free
  \/ phase' = [phase EXCEPT ![c] = "end"] /\ free' = free + 1

\* What the calls of a group may do.
GroupStep(c) ==
  /\ group' \in [Clients -> Nat \ {0}]
  /\ \A d \in Clients : group'[d] \in DOMAIN plan[d].groups
  /\ stage' \in [Clients -> Stages]
  /\ verdict' \in [Clients -> [Frontends -> {"none", "safe", "vuln"}]]
  /\ reply' \in [Clients -> Replies]
  /\ Onward(c)

LEMMA PlanType ==
  ASSUME ApiType, NEW c \in Clients
  PROVE  /\ plan[c].groups \in Seq(Frontends)
         /\ Front(c) \in Frontends
         /\ \A i, j \in DOMAIN plan[c].groups :
              plan[c].groups[i] = plan[c].groups[j] => i = j
  <1>1. plan[c] \in Plans
    BY DEF ApiType
  <1>2. plan[c] \in [endpoint : {"analyze", "batch", "pr"}, groups : Seq(Frontends)]
    BY <1>1 DEF Plans
  <1>3. plan[c].groups \in Seq(Frontends)
    BY <1>2
  <1>4. Front(c) \in Frontends
    BY <1>3 DEF ApiType, Front
  <1>5. QED BY <1>1, <1>3, <1>4 DEF Plans

LEMMA NextGroupType ==
  ASSUME ApiType, NEW c \in Clients, NextGroup(c)
  PROVE  /\ group' \in [Clients -> Nat \ {0}]
         /\ \A d \in Clients : group'[d] \in DOMAIN plan[d].groups
         /\ stage' \in [Clients -> Stages]
         /\ \E p \in {"call", "review"} : phase' = [phase EXCEPT ![c] = p]
  <1>1. plan[c].groups \in Seq(Frontends)
    BY PlanType
  <1>2. CASE group[c] < Len(plan[c].groups)
    <2>1. group[c] + 1 \in DOMAIN plan[c].groups
      BY <1>1, <1>2 DEF ApiType
    <2>2. /\ group' = [group EXCEPT ![c] = @ + 1]
          /\ stage' = [stage EXCEPT ![c] = FirstStage]
          /\ phase' = [phase EXCEPT ![c] = "call"]
      BY <1>2 DEF NextGroup
    <2>3. /\ group \in [Clients -> Nat \ {0}] /\ stage \in [Clients -> Stages]
          /\ \A d \in Clients : group[d] \in DOMAIN plan[d].groups
      BY DEF ApiType
    <2>4. FirstStage \in Stages
      BY DEF FirstStage, Stages
    <2>5. \A d \in Clients : group'[d] \in DOMAIN plan[d].groups
      BY <2>1, <2>2, <2>3
    <2>6. group' \in [Clients -> Nat \ {0}] /\ stage' \in [Clients -> Stages]
      BY <2>2, <2>3, <2>4
    <2>7. QED BY <2>2, <2>5, <2>6
  <1>3. CASE ~(group[c] < Len(plan[c].groups))
    BY <1>3 DEF NextGroup, ApiType
  <1>4. QED BY <1>2, <1>3

LEMMA GroupFailsType ==
  ASSUME ApiType, NEW c \in Clients, GroupFails(c)
  PROVE  GroupStep(c)
  <1>1. CASE plan[c].endpoint = "pr"
    BY <1>1 DEF GroupFails, Leave, ApiType, GroupStep, Onward, Replies
  <1>2. CASE plan[c].endpoint # "pr"
    BY <1>2, NextGroupType DEF GroupFails, ApiType, GroupStep, Onward
  <1>3. QED BY <1>1, <1>2

LEMMA GroupReturnsType ==
  ASSUME ApiType, NEW c \in Clients, NEW what \in {"safe", "vuln"}, GroupReturns(c, what)
  PROVE  GroupStep(c)
  <1>1. verdict' \in [Clients -> [Frontends -> {"none", "safe", "vuln"}]]
    BY PlanType DEF GroupReturns, ApiType
  <1>2. NextGroup(c) /\ UNCHANGED <<reply, free>>
    BY DEF GroupReturns
  <1>3. Onward(c)
    <2>1. \E p \in {"call", "review"} : phase' = [phase EXCEPT ![c] = p]
      BY <1>2, NextGroupType
    <2>2. QED BY <1>2, <2>1 DEF Onward
  <1>4. reply' \in [Clients -> Replies]
    BY <1>2 DEF ApiType
  <1>5. QED BY <1>1, <1>2, <1>3, <1>4, NextGroupType DEF GroupStep

Results == {"import", "clean", "findings", "empty", "badjson", "timeout", "http"}

\* The taint call ends its group.
LEMMA TaintEnds ==
  ASSUME NEW c \in Clients, NEW what \in Results, TaintBrings(c, what)
  PROVE  \/ GroupFails(c)
         \/ /\ \E kept \in {"safe", "vuln"} : GroupReturns(c, kept)
            /\ Strict(c) => what \in {"empty", "clean", "findings"}
  <1>1. Kept(what) \subseteq {"safe", "vuln"}
    BY DEF Kept
  <1>2. QED BY <1>1 DEF TaintBrings, Results

LEMMA BringsType ==
  ASSUME ApiType, NEW c \in Clients, NEW what \in Results, Brings(c, what)
  PROVE  /\ GroupStep(c)
         /\ heard' \in [Clients -> [Frontends -> Answers]]
         /\ call' = [call EXCEPT ![c] = NoCall]
         /\ UNCHANGED <<config, plan, status, workerVars>>
  <1>1. heard' \in [Clients -> [Frontends -> Answers]]
    <2>1. what \in Answers
      BY DEF Results, Answers
    <2>2. QED BY <2>1, PlanType DEF Brings, ApiType
  <1>2. ASSUME stage[c] = "candidates" PROVE GroupStep(c)
    <2>1. CandidatesBring(c, what)
      BY <1>2 DEF Brings
    <2>2. CASE GroupFails(c)
      BY <2>2, GroupFailsType
    <2>3. CASE ~GroupFails(c)
      <3>1. /\ stage' = [stage EXCEPT ![c] = "taint"]
            /\ phase' = [phase EXCEPT ![c] = "call"]
            /\ UNCHANGED <<group, verdict, reply, free>>
        BY <2>1, <2>3 DEF CandidatesBring
      <3>2. Onward(c)
        BY <3>1 DEF Onward
      <3>3. stage' \in [Clients -> Stages]
        BY <3>1 DEF ApiType, Stages
      <3>4. QED BY <3>1, <3>2, <3>3 DEF GroupStep, ApiType
    <2>4. QED BY <2>2, <2>3
  <1>3. ASSUME stage[c] = "taint" PROVE GroupStep(c)
    <2>1. TaintBrings(c, what)
      BY <1>3 DEF Brings
    <2>2. QED BY <2>1, TaintEnds, GroupFailsType, GroupReturnsType
  <1>4. ASSUME stage[c] = "context" PROVE GroupStep(c)
    <2>1. ContextBrings(c)
      BY <1>4 DEF Brings
    <2>2. Onward(c)
      BY <2>1 DEF ContextBrings, Onward
    <2>3. QED BY <2>1, <2>2 DEF ContextBrings, GroupStep, ApiType
  <1>5. ASSUME stage[c] = "file" PROVE GroupStep(c)
    <2>1. FileBrings(c, what)
      BY <1>5 DEF Brings
    <2>2. verdict' \in [Clients -> [Frontends -> {"none", "safe", "vuln"}]]
      BY <2>1 DEF FileBrings, ApiType
    <2>3. Onward(c)
      BY <2>1 DEF FileBrings, Onward
    <2>4. QED BY <2>1, <2>2, <2>3 DEF FileBrings, GroupStep, ApiType
  <1>6. GroupStep(c)
    BY <1>2, <1>3, <1>4, <1>5 DEF ApiType, Stages
  <1>7. QED BY <1>1, <1>6 DEF Brings

LEMMA HeardResults ==
  ASSUME NEW r
  PROVE  Received(r) \subseteq Results
  BY DEF Received, Results

\* A worker call ends: by its answer or by the client's time limit.
LEMMA CallEndsType ==
  ASSUME ApiType, NEW c \in Clients, Hear(c) \/ GiveUp(c)
  PROVE  /\ phase[c] = "wait"
         /\ \E what \in Results : Brings(c, what)
  BY HeardResults DEF Hear, GiveUp, Results

LEMMA ReviewType ==
  ASSUME ApiType, NEW c \in Clients, Review(c)
  PROVE  /\ status' \in [Clients -> [Frontends -> {"none", "DONE", "PARTIAL"}]]
         /\ stage' \in [Clients -> Stages]
         /\ reply' \in [Clients -> Replies]
         /\ Onward(c)
         /\ UNCHANGED <<config, plan, group, call, heard, verdict, workerVars>>
  <1>1. status' \in [Clients -> [Frontends -> {"none", "DONE", "PARTIAL"}]]
    BY DEF Review, StatusOf, ApiType
  <1>2. stage' \in [Clients -> Stages] /\ reply' \in [Clients -> Replies] /\ Onward(c)
    BY DEF Review, Leave, Onward, ApiType, Stages, Replies
  <1>3. QED BY <1>1, <1>2 DEF Review

\* Where a step of a handler takes it, its slot with it.
SlotStep(c) ==
  /\ \A d \in Clients : d # c => phase'[d] = phase[d]
  /\ \/ free' = free /\ (c \in InFlight <=> phase'[c] \notin {"new", "end"})
     \/ c \notin InFlight /\ phase'[c] \notin {"new", "end"} /\ free # 0 /\ free' = free - 1
     \/ c \in InFlight /\ phase'[c] = "end" /\ free' = free + 1

LEMMA OnwardSlots ==
  ASSUME ApiType, NEW c \in Clients, phase[c] \notin {"new", "end"}, Onward(c)
  PROVE  SlotStep(c) /\ phase' \in [Clients -> Phases] /\ free' \in Nat
  <1>1. phase \in [Clients -> Phases] /\ free \in Nat
    BY DEF ApiType
  <1>2. CASE \E p \in {"call", "wait", "review", "respond"} :
                phase' = [phase EXCEPT ![c] = p] /\ free' = free
    <2>1. PICK p \in {"call", "wait", "review", "respond"} :
                phase' = [phase EXCEPT ![c] = p] /\ free' = free
      BY <1>2
    <2>2. p \in Phases /\ p \notin {"new", "end"}
      BY DEF Phases
    <2>3. QED BY <1>1, <2>1, <2>2 DEF SlotStep, InFlight
  <1>3. CASE phase' = [phase EXCEPT ![c] = "end"] /\ free' = free + 1
    <2>1. phase' \in [Clients -> Phases] /\ phase'[c] = "end"
      BY <1>1, <1>3 DEF Phases
    <2>2. QED BY <1>1, <1>3, <2>1 DEF SlotStep, InFlight
  <1>4. QED BY <1>2, <1>3 DEF Onward

LEMMA ApiStepType ==
  ASSUME ApiType, NEW c \in Clients, ApiStep(c)
  PROVE  ApiType' /\ SlotStep(c)
  <1>1. CASE Reject(c)
    BY <1>1 DEF Reject, ApiType, SlotStep, InFlight, Phases, Replies
  <1>2. CASE Admit(c)
    <2>1. phase \in [Clients -> Phases] /\ free \in Nat /\ reply \in [Clients -> Replies]
      BY DEF ApiType
    <2>2. CASE free = 0
      <3>1. /\ phase' = [phase EXCEPT ![c] = "end"]
            /\ reply' = [reply EXCEPT ![c] = "busy"]
            /\ UNCHANGED <<config, plan, group, stage, call, heard, verdict, status, free>>
        BY <1>2, <2>2 DEF Admit
      <3>2. phase[c] = "new"
        BY <1>2 DEF Admit
      <3>3. phase' \in [Clients -> Phases] /\ reply' \in [Clients -> Replies]
        BY <2>1, <3>1 DEF Phases, Replies
      <3>4. SlotStep(c)
        BY <2>1, <3>1, <3>2 DEF SlotStep, InFlight
      <3>5. QED BY <3>1, <3>3, <3>4 DEF ApiType
    <2>3. CASE free # 0
      <3>1. /\ phase' = [phase EXCEPT ![c] = "call"]
            /\ free' = free - 1
            /\ UNCHANGED <<config, plan, group, stage, call, heard, verdict, status, reply>>
        BY <1>2, <2>3 DEF Admit
      <3>2. phase[c] = "new"
        BY <1>2 DEF Admit
      <3>3. phase' \in [Clients -> Phases] /\ free' \in Nat
        BY <2>1, <2>3, <3>1 DEF Phases
      <3>4. SlotStep(c)
        BY <2>1, <2>3, <3>1, <3>2 DEF SlotStep, InFlight
      <3>5. QED BY <3>1, <3>3, <3>4 DEF ApiType
    <2>4. QED BY <2>2, <2>3
  <1>3. CASE RefuseEmpty(c) \/ ReviewFails(c) \/ Respond(c)
    <2>1. PICK what \in {"failed", "ok"} : Leave(c, what)
      BY <1>3 DEF RefuseEmpty, ReviewFails, Respond
    <2>2. /\ phase[c] \in {"call", "review", "respond"}
          /\ UNCHANGED <<config, plan, group, stage, call, heard, verdict, status>>
      BY <1>3 DEF RefuseEmpty, ReviewFails, Respond
    <2>3. Onward(c) /\ reply' \in [Clients -> Replies]
      BY <2>1 DEF Leave, Onward, ApiType, Replies
    <2>4. QED BY <2>2, <2>3, OnwardSlots DEF ApiType
  <1>4. CASE AnalyzeUnready(c)
    <2>1. GroupStep(c)
      BY <1>4, GroupFailsType, GroupReturnsType DEF AnalyzeUnready
    <2>2. phase[c] = "call" /\ UNCHANGED <<config, plan, call, heard, status>>
      BY <1>4 DEF AnalyzeUnready
    <2>3. QED BY <2>1, <2>2, OnwardSlots DEF ApiType, GroupStep
  <1>5. CASE Sends(c)
    <2>1. /\ phase[c] \in {"call", "review"} /\ phase' = [phase EXCEPT ![c] = "wait"]
          /\ \E r \in Requests : call' = [call EXCEPT ![c] = r]
          /\ UNCHANGED <<config, plan, group, heard, verdict, status, reply, free>>
      BY <1>5, SendsOne DEF Sends, Post, AskFile
    <2>2. stage' \in [Clients -> Stages]
      BY <1>5 DEF Sends, Post, AskFile, ApiType, Stages
    <2>5. call' \in [Clients -> Requests \cup {NoCall}]
      BY <2>1 DEF ApiType
    <2>3. Onward(c)
      BY <2>1 DEF Onward
    <2>4. QED BY <2>1, <2>2, <2>3, <2>5, OnwardSlots DEF ApiType
  <1>6. CASE Hear(c) \/ GiveUp(c)
    <2>1. PICK what \in Results : Brings(c, what)
      BY <1>6, CallEndsType
    <2>2. /\ GroupStep(c) /\ heard' \in [Clients -> [Frontends -> Answers]]
          /\ call' = [call EXCEPT ![c] = NoCall]
          /\ UNCHANGED <<config, plan, status>>
      BY <2>1, BringsType
    <2>3. phase[c] = "wait"
      BY <1>6, CallEndsType
    <2>4. QED BY <2>2, <2>3, OnwardSlots DEF ApiType, GroupStep
  <1>7. CASE Review(c)
    <2>1. phase[c] = "review"
      BY <1>7 DEF Review
    <2>2. QED BY <1>7, <2>1, ReviewType, OnwardSlots DEF ApiType
  <1>8. CASE NoGraph(c)
    <2>1. /\ phase[c] = "call" /\ NextGroup(c)
          /\ UNCHANGED <<config, plan, call, heard, verdict, status, reply, free>>
      BY <1>8 DEF NoGraph
    <2>2. Onward(c)
      <3>1. \E p \in {"call", "review"} : phase' = [phase EXCEPT ![c] = p]
        BY <2>1, NextGroupType
      <3>2. QED BY <2>1, <3>1 DEF Onward
    <2>3. QED BY <2>1, <2>2, NextGroupType, OnwardSlots DEF ApiType
  <1>9. CASE SkipFile(c)
    <2>1. /\ phase[c] = "review" /\ phase' = phase /\ free' = free
          /\ stage' = [stage EXCEPT ![c] = "file"]
          /\ UNCHANGED <<config, plan, group, call, heard, verdict, status, reply>>
      BY <1>9 DEF SkipFile
    <2>2. stage' \in [Clients -> Stages]
      BY <2>1 DEF ApiType, Stages
    <2>3. SlotStep(c)
      BY <2>1 DEF SlotStep, InFlight
    <2>4. QED BY <2>1, <2>2, <2>3 DEF ApiType
  <1>10. QED
    BY <1>1, <1>2, <1>3, <1>4, <1>5, <1>6, <1>7, <1>8, <1>9 DEF ApiStep, Sends

LEMMA ApiInit == Init => ApiType
  <1> SUFFICES ASSUME Init PROVE ApiType
    OBVIOUS
  <1>1. PICK l \in Loads :
          /\ config = l.config /\ plan = l.plan
          /\ phase = [c \in Clients |-> IF c \in l.asking THEN "new" ELSE "end"]
    BY DEF Init
  <1>2. config \in Deployments /\ plan \in [Clients -> Plans]
    BY <1>1, ServiceAssumption
  <1>3. phase \in [Clients -> Phases]
    BY <1>1 DEF Phases
  <1>4. \A c \in Clients : 1 \in DOMAIN plan[c].groups
    <2> SUFFICES ASSUME NEW c \in Clients PROVE 1 \in DOMAIN plan[c].groups
      OBVIOUS
    <2>1. plan[c].groups \in Seq(Frontends) /\ plan[c].groups # <<>>
      BY <1>2 DEF Plans
    <2>2. QED BY <2>1
  <1>5. QED
    BY <1>2, <1>3, <1>4, ServiceAssumption
    DEF Init, ApiType, Stages, FirstStage, Answers, Replies

SlotInv == ApiType /\ SlotsExact

LEMMA SlotsStep ==
  ASSUME SlotInv, NEW c \in Clients, SlotStep(c)
  PROVE  SlotsExact'
  <1>1. IsFiniteSet(InFlight) /\ Cardinality(InFlight) \in Nat
    BY ServiceAssumption, FS_Subset, FS_CardinalityType DEF InFlight
  <1>2. free \in Nat /\ free + Cardinality(InFlight) = Slots
    BY DEF SlotInv, ApiType, SlotsExact
  <1>3. CASE free' = free /\ (c \in InFlight <=> phase'[c] \notin {"new", "end"})
    <2>1. InFlight' = InFlight
      BY <1>3 DEF SlotStep, InFlight
    <2>2. QED BY <1>2, <1>3, <2>1 DEF SlotsExact
  <1>4. CASE c \notin InFlight /\ phase'[c] \notin {"new", "end"} /\ free # 0 /\ free' = free - 1
    <2>1. InFlight' = InFlight \cup {c}
      BY <1>4 DEF SlotStep, InFlight
    <2>2. Cardinality(InFlight') = Cardinality(InFlight) + 1
      BY <1>1, <1>4, <2>1, FS_AddElement
    <2>3. QED BY <1>1, <1>2, <1>4, <2>2 DEF SlotsExact
  <1>5. CASE c \in InFlight /\ phase'[c] = "end" /\ free' = free + 1
    <2>1. InFlight' = InFlight \ {c}
      BY <1>5 DEF SlotStep, InFlight
    <2>2. Cardinality(InFlight') = Cardinality(InFlight) - 1
      BY <1>1, <1>5, <2>1, FS_RemoveElement
    <2>3. QED BY <1>1, <1>2, <1>5, <2>2 DEF SlotsExact
  <1>6. QED BY <1>3, <1>4, <1>5 DEF SlotStep

LEMMA SlotAlways == Spec => []SlotInv
  <1>1. Init => SlotInv
    <2> SUFFICES ASSUME Init PROVE SlotsExact
      BY ApiInit DEF SlotInv
    <2>1. InFlight = {}
      BY DEF Init, InFlight
    <2>2. QED BY <2>1, ServiceAssumption, FS_EmptySet DEF Init, SlotsExact
  <1>2. SlotInv /\ [Next]_vars => SlotInv'
    <2> SUFFICES ASSUME SlotInv, [Next]_vars PROVE SlotInv'
      OBVIOUS
    <2>1. ASSUME NEW c \in Clients, ApiStep(c) PROVE SlotInv'
      BY <2>1, ApiStepType, SlotsStep DEF SlotInv
    <2>2. CASE UNCHANGED apiVars
      BY <2>2 DEF apiVars, SlotInv, ApiType, SlotsExact, InFlight, Front
    <2>3. QED
      BY <2>1, <2>2 DEF Next, WorkerStep, Environment, Quiescent, vars
  <1>3. QED BY <1>1, <1>2, PTL DEF Spec

\* No path through a handler keeps a slot or gives one back twice: answers,
\* refusals, time limits, model failures and worker restarts included.
THEOREM SlotsAreExact == Spec => []SlotsExact
  <1>1. SlotInv => SlotsExact
    BY DEF SlotInv
  <1>2. QED BY <1>1, SlotAlways, PTL

\* Every reachable state of the service, its worker included, is in its
\* domain.
THEOREM TypeCorrect == Spec => []TypeOK
  <1>1. Spec => []Proved!TypeOK
    <2>1. Proved!WorkerAssumption => (Proved!Spec => []Proved!TypeOK)
      BY Proved!TypeCorrect
    <2>2. QED BY <2>1, SameAssumption, RunsWorker, PTL
  <1>2. SlotInv /\ Proved!TypeOK => TypeOK
    <2> SUFFICES ASSUME SlotInv, Proved!TypeOK PROVE TypeOK
      OBVIOUS
    <2>1. Cardinality(InFlight) \in Nat
      BY ServiceAssumption, FS_Subset, FS_CardinalityType DEF InFlight
    <2>2. free \in 0 .. Slots
      BY <2>1, ServiceAssumption DEF SlotInv, ApiType, SlotsExact
    <2>3. QED BY <2>2, SameType DEF SlotInv, ApiType, TypeOK
  <1>3. QED BY <1>1, <1>2, SlotAlways, PTL

-----------------------------------------------------------------------------
(***************************************************************************)
(* The bound on Joern processes.  A slot stands for at most one of them    *)
(* because a client that neither gives up nor loses its worker waits until *)
(* its request has ended, and a request ends after its Joern.              *)
(***************************************************************************)

\* A group's request the worker is at has its client waiting for it.
ClientsWait ==
  config.patient /\ crashes = 0 =>
    \A r \in Requests :
      kind[r] = "repo" /\ pc[r] \notin {"idle", "end"} =>
        \E c \in Clients : phase[c] = "wait" /\ call[c] = r

\* A handler that is at a single file waits for no group's request.
FileApart ==
  \A c \in Clients :
    stage[c] = "file" => /\ phase[c] \notin {"new", "call"}
                         /\ phase[c] = "wait" => kind[call[c]] = "sync"

LEMMA WorkerMoves ==
  ASSUME Proved!TypeOK, NEW r \in Requests, Proved!Step(r)
  PROVE  /\ pc[r] # "end"
         /\ crashes' = crashes /\ kind' = kind
         /\ \A s \in Requests : s # r => pc'[s] = pc[s]
  <1> USE DEF Proved!TypeOK
  <1>1. CASE \/ Proved!Arrive(r) \/ Proved!Accept(r) \/ Proved!Refuse(r)
             \/ Proved!Register(r) \/ Proved!CheckDir(r) \/ Proved!MakeDir(r)
    BY <1>1 DEF Proved!Arrive, Proved!Accept, Proved!Refuse, Proved!Register,
                Proved!CheckDir, Proved!MakeDir, Proved!Leave
  <1>2. CASE \/ Proved!SetupFails(r) \/ Proved!Launch(r) \/ Proved!Cleanup(r)
             \/ Proved!Unregister(r) \/ Proved!Publish(r)
    BY <1>2 DEF Proved!SetupFails, Proved!Launch, Proved!Cleanup, Proved!Unregister,
                Proved!Publish
  <1>3. CASE \/ Proved!Collect(r) \/ Proved!RepoTimeout(r) \/ Proved!ChunkTimeout(r)
             \/ Proved!Drained(r)
    BY <1>3 DEF Proved!Collect, Proved!RepoTimeout, Proved!ChunkTimeout, Proved!Drained,
                Proved!NextChunk
  <1>4. QED BY <1>1, <1>2, <1>3 DEF Proved!Step

\* A client is left alone by the others' steps, and ends a call that is
\* running only when it is impatient or the call is for a single file.
LEMMA WaitersStay ==
  ASSUME ApiType, NEW c \in Clients, ApiStep(c)
  PROVE  /\ \A d \in Clients : d # c => phase'[d] = phase[d] /\ call'[d] = call[d]
         /\ config' = config
         /\ phase[c] = "wait" => pc[call[c]] = "end" \/ ~config.patient \/ stage[c] = "file"
  <1>1. \A d \in Clients : d # c => phase'[d] = phase[d]
    BY ApiStepType DEF SlotStep
  <1>2. \A d \in Clients : d # c => call'[d] = call[d]
    BY DEF ApiStep, Reject, Admit, RefuseEmpty, NoGraph, AnalyzeUnready, Post, Send, Hear,
           GiveUp, Brings, AskFile, SkipFile, Review, ReviewFails, Respond, ApiType
  <1>3. config' = config
    BY DEF ApiStep, Reject, Admit, RefuseEmpty, NoGraph, AnalyzeUnready, Post, Send, Hear,
           GiveUp, Brings, AskFile, SkipFile, Review, ReviewFails, Respond
  <1>4. phase[c] = "wait" => Hear(c) \/ GiveUp(c)
    BY DEF ApiStep, Reject, Admit, RefuseEmpty, NoGraph, AnalyzeUnready, Post, AskFile,
           SkipFile, Review, ReviewFails, Respond
  <1>5. QED BY <1>1, <1>2, <1>3, <1>4 DEF Hear, GiveUp

\* What ends a group, by an exception or with findings.
GroupDone(c) == GroupFails(c) \/ \E what \in {"safe", "vuln"} : GroupReturns(c, what)

\* A call that was answered or given up ends its group, brings the taint call
\* after the candidates, or ends the file's or the context's call.
LEMMA BringsCases ==
  ASSUME ApiType, NEW c \in Clients, NEW what \in Results, Brings(c, what)
  PROVE  \/ stage[c] \in {"candidates", "taint"} /\ GroupDone(c)
         \/ /\ stage[c] = "candidates" /\ stage' = [stage EXCEPT ![c] = "taint"]
            /\ phase' = [phase EXCEPT ![c] = "call"]
            /\ UNCHANGED <<group, verdict>>
         \/ stage[c] = "file" /\ FileBrings(c, what)
         \/ stage[c] = "context" /\ ContextBrings(c)
  <1>1. CASE stage[c] = "candidates"
    <2>1. CandidatesBring(c, what)
      BY <1>1 DEF Brings
    <2>2. CASE GroupFails(c)
      BY <1>1, <2>2 DEF GroupDone
    <2>3. CASE ~GroupFails(c)
      BY <1>1, <2>1, <2>3 DEF CandidatesBring
    <2>4. QED BY <2>2, <2>3
  <1>2. CASE stage[c] = "taint"
    <2>1. TaintBrings(c, what)
      BY <1>2 DEF Brings
    <2>2. QED BY <1>2, <2>1, TaintEnds DEF GroupDone
  <1>3. CASE stage[c] \in {"file", "context"}
    BY <1>3 DEF Brings
  <1>4. QED BY <1>1, <1>2, <1>3 DEF ApiType, Stages

LEMMA OthersLeftAlone ==
  ASSUME ApiType, NEW c \in Clients, ApiStep(c)
  PROVE  /\ plan' = plan
         /\ \A d \in Clients : d # c =>
              /\ phase'[d] = phase[d] /\ stage'[d] = stage[d] /\ group'[d] = group[d]
              /\ verdict'[d] = verdict[d] /\ heard'[d] = heard[d] /\ status'[d] = status[d]
  <1>1. plan' = plan
    BY DEF ApiStep, Reject, Admit, RefuseEmpty, NoGraph, AnalyzeUnready, Post, Send, Hear,
           GiveUp, Brings, AskFile, SkipFile, Review, ReviewFails, Respond
  <1>2. \A d \in Clients : d # c => phase'[d] = phase[d]
    BY ApiStepType DEF SlotStep
  <1>3. \A d \in Clients : d # c => status'[d] = status[d] /\ heard'[d] = heard[d]
    BY DEF ApiStep, Reject, Admit, RefuseEmpty, NoGraph, AnalyzeUnready, Post, Send, Hear,
           GiveUp, Brings, AskFile, SkipFile, Review, ReviewFails, Respond, ApiType
  <1>4. GroupDone(c) =>
          \A d \in Clients : d # c =>
            stage'[d] = stage[d] /\ group'[d] = group[d] /\ verdict'[d] = verdict[d]
    BY DEF GroupDone, GroupFails, GroupReturns, NextGroup, ApiType
  <1>5. \A d \in Clients : d # c =>
            stage'[d] = stage[d] /\ group'[d] = group[d] /\ verdict'[d] = verdict[d]
    <2>1. CASE \/ Reject(c) \/ Admit(c) \/ RefuseEmpty(c) \/ Post(c) \/ ReviewFails(c)
               \/ Respond(c)
      BY <2>1 DEF Reject, Admit, RefuseEmpty, Post, ReviewFails, Respond
    <2>2. CASE AnalyzeUnready(c)
      BY <1>4, <2>2 DEF AnalyzeUnready, GroupDone
    <2>3. CASE Review(c) \/ AskFile(c) \/ SkipFile(c)
      BY <2>3 DEF Review, AskFile, SkipFile, ApiType
    <2>4. CASE NoGraph(c)
      BY <2>4 DEF NoGraph, NextGroup, ApiType
    <2>5. CASE Hear(c) \/ GiveUp(c)
      <3>1. PICK what \in Results : Brings(c, what)
        BY <2>5, CallEndsType
      <3>2. CASE GroupDone(c)
        BY <1>4, <3>2
      <3>3. CASE FileBrings(c, what) \/ ContextBrings(c)
        BY <3>3 DEF FileBrings, ContextBrings, ApiType
      <3>4. CASE stage' = [stage EXCEPT ![c] = "taint"] /\ UNCHANGED <<group, verdict>>
        BY <3>4 DEF ApiType
      <3>5. QED BY <3>1, <3>2, <3>3, <3>4, BringsCases
    <2>6. QED BY <2>1, <2>2, <2>3, <2>4, <2>5 DEF ApiStep
  <1>6. QED BY <1>1, <1>2, <1>3, <1>5

\* A handler comes to a single file by these two steps only.
LEMMA FileEntered ==
  ASSUME ApiType, NEW c \in Clients, ApiStep(c), ~AskFile(c), ~SkipFile(c),
         stage[c] # "file"
  PROVE  stage'[c] # "file"
  <1>1. FirstStage # "file"
    BY DEF FirstStage
  <1>2. NextGroup(c) \/ GroupDone(c) => stage'[c] # "file"
    BY <1>1 DEF GroupDone, GroupFails, GroupReturns, NextGroup, ApiType
  <1>3. CASE \/ Reject(c) \/ Admit(c) \/ RefuseEmpty(c) \/ Post(c) \/ ReviewFails(c)
             \/ Respond(c)
    BY <1>3 DEF Reject, Admit, RefuseEmpty, Post, ReviewFails, Respond
  <1>4. CASE NoGraph(c) \/ AnalyzeUnready(c)
    BY <1>2, <1>4 DEF NoGraph, AnalyzeUnready, GroupDone
  <1>5. CASE Review(c)
    BY <1>5 DEF Review, ApiType
  <1>6. CASE Hear(c) \/ GiveUp(c)
    <2>1. PICK what \in Results : Brings(c, what)
      BY <1>6, CallEndsType
    <2>2. CASE GroupDone(c)
      BY <1>2, <2>2
    <2>3. CASE ContextBrings(c)
      BY <2>3 DEF ContextBrings
    <2>4. CASE stage' = [stage EXCEPT ![c] = "taint"]
      BY <2>4 DEF ApiType
    <2>5. QED BY <2>1, <2>2, <2>3, <2>4, BringsCases
  <1>7. QED BY <1>3, <1>4, <1>5, <1>6 DEF ApiStep

LEMMA WaitStep ==
  ASSUME ApiType, ClientsWait, FileApart, Proved!TypeOK, [Next]_vars
  PROVE  ClientsWait'
  <1>1. ASSUME NEW c \in Clients, ApiStep(c) PROVE ClientsWait'
    <2>1. CASE Sends(c)
      <3>1. PICK r \in Requests : Worker!Arrive(r) /\ call' = [call EXCEPT ![c] = r]
        BY <2>1, SendsOne
      <3>2. Proved!Step(r)
        BY <3>1, SameStep DEF Worker!Step
      <3>3. phase[c] # "wait" /\ phase'[c] = "wait" /\ call'[c] = r
        BY <2>1, <3>1, SendsOne DEF ApiType
      <3>4. QED
        BY <1>1, <3>2, <3>3, WorkerMoves, WaitersStay DEF ClientsWait
    <2>2. CASE UNCHANGED workerVars
      <3> SUFFICES ASSUME config'.patient, crashes' = 0, NEW r \in Requests,
                          kind'[r] = "repo", pc'[r] \notin {"idle", "end"}
                   PROVE  \E d \in Clients : phase'[d] = "wait" /\ call'[d] = r
        BY DEF ClientsWait
      <3>1. /\ config.patient /\ crashes = 0
            /\ kind[r] = "repo" /\ pc[r] \notin {"idle", "end"}
        BY <1>1, <2>2, WaitersStay DEF workerVars
      <3>2. PICK d \in Clients : phase[d] = "wait" /\ call[d] = r
        BY <3>1 DEF ClientsWait
      <3>3. d # c
        BY <1>1, <3>1, <3>2, WaitersStay DEF FileApart
      <3>4. QED BY <1>1, <3>2, <3>3, WaitersStay
    <2>3. QED BY <1>1, <2>1, <2>2, ApiLeavesWorker
  <1>2. ASSUME NEW r \in Requests, WorkerStep(r) PROVE ClientsWait'
    BY <1>2, SameStep, WorkerMoves DEF WorkerStep, apiVars, ClientsWait
  <1>3. CASE Environment
    <2>1. crashes \in Nat
      BY SameAssumption DEF Proved!WorkerAssumption, Proved!TypeOK
    <2>2. CASE Worker!Crash
      BY <2>1, <2>2 DEF Worker!Crash, ClientsWait
    <2>3. CASE \E e \in engines : Worker!JoernWrites(e) \/ Worker!JoernDies(e)
      BY <1>3, <2>3 DEF Environment, Worker!JoernWrites, Worker!JoernDies, apiVars, ClientsWait
    <2>4. QED BY <1>3, <2>2, <2>3 DEF Environment
  <1>4. CASE UNCHANGED vars
    BY <1>4 DEF vars, workerVars, apiVars, ClientsWait
  <1>5. QED BY <1>1, <1>2, <1>3, <1>4 DEF Next, Quiescent

LEMMA WorkerTyped == Spec => []Proved!TypeOK
  <1>1. Proved!WorkerAssumption => (Proved!Spec => []Proved!TypeOK)
    BY Proved!TypeCorrect
  <1>2. QED BY <1>1, SameAssumption, RunsWorker, PTL

LEMMA FileStep ==
  ASSUME ApiType, FileApart, Proved!TypeOK, NEW c \in Clients, ApiStep(c)
  PROVE  FileApart'
  <1>1. kind' = kind
    <2>1. CASE Sends(c)
      BY <2>1, SendsOne, SameStep, WorkerMoves DEF Worker!Step
    <2>2. CASE ~Sends(c)
      BY <2>2, ApiLeavesWorker DEF workerVars
    <2>3. QED BY <2>1, <2>2
  <1>2. ASSUME NEW d \in Clients, d # c, stage'[d] = "file"
        PROVE  /\ phase'[d] \notin {"new", "call"}
               /\ phase'[d] = "wait" => kind'[call'[d]] = "sync"
    BY <1>1, <1>2, WaitersStay, OthersLeftAlone DEF FileApart
  <1>3. ASSUME stage'[c] = "file"
        PROVE  /\ phase'[c] \notin {"new", "call"}
               /\ phase'[c] = "wait" => kind'[call'[c]] = "sync"
    <2>1. CASE AskFile(c)
      BY <1>1, <2>1 DEF AskFile, Send, ApiType
    <2>2. CASE SkipFile(c)
      BY <2>2 DEF SkipFile
    <2>3. CASE stage[c] # "file" /\ ~AskFile(c) /\ ~SkipFile(c)
      BY <1>3, <2>3, FileEntered
    <2>4. CASE stage[c] = "file" /\ ~AskFile(c) /\ ~SkipFile(c)
      <3>1. phase[c] \notin {"new", "call"}
        BY <2>4 DEF FileApart
      <3>2. CASE ReviewFails(c) \/ Respond(c)
        BY <3>2 DEF ReviewFails, Respond, Leave, ApiType
      <3>3. CASE Review(c)
        BY <1>3, <3>3 DEF Review, Leave, ApiType
      <3>4. CASE Hear(c) \/ GiveUp(c)
        <4>1. PICK what \in Results : Brings(c, what)
          BY <3>4, CallEndsType
        <4>2. FileBrings(c, what)
          BY <2>4, <4>1 DEF Brings
        <4>3. QED BY <4>2 DEF FileBrings, ApiType
      <3>5. QED
        BY <1>1, <2>4, <3>1, <3>2, <3>3, <3>4
        DEF ApiStep, Reject, Admit, RefuseEmpty, NoGraph, AnalyzeUnready, Post
    <2>5. QED BY <2>1, <2>2, <2>3, <2>4
  <1>4. QED BY <1>2, <1>3 DEF FileApart

LEMMA WaitAlways == Spec => []ClientsWait
  <1>1. Init => ClientsWait /\ FileApart
    BY DEF Init, Worker!Init, ClientsWait, FileApart, FirstStage
  <1>2. SlotInv /\ Proved!TypeOK /\ FileApart /\ [Next]_vars => FileApart'
    <2> SUFFICES ASSUME SlotInv, Proved!TypeOK, FileApart, [Next]_vars PROVE FileApart'
      OBVIOUS
    <2>1. ASSUME NEW c \in Clients, ApiStep(c) PROVE FileApart'
      BY <2>1, FileStep DEF SlotInv
    <2>2. CASE UNCHANGED apiVars /\ kind' = kind
      BY <2>2 DEF apiVars, FileApart
    <2>3. ASSUME NEW r \in Requests, WorkerStep(r) PROVE kind' = kind
      BY <2>3, SameStep, WorkerMoves DEF WorkerStep
    <2>4. Environment => kind' = kind
      BY DEF Environment, Worker!Crash, Worker!JoernWrites, Worker!JoernDies
    <2>5. QED
      BY <2>1, <2>2, <2>3, <2>4
      DEF Next, WorkerStep, Environment, Quiescent, vars, workerVars
  <1>3. SlotInv /\ Proved!TypeOK /\ ClientsWait /\ FileApart /\ [Next]_vars => ClientsWait'
    BY WaitStep DEF SlotInv
  <1>4. QED BY <1>1, <1>2, <1>3, SlotAlways, WorkerTyped, PTL DEF Spec

\* Of the calls for groups and contexts: where the containers of repo jobs that
\* time out are removed, and as long as no client gives up on such a call and
\* the worker is not restarted, no interleaving of any number of clients and
\* requests, those for single files among them, has more of their Joern
\* processes alive than slots.
THEOREM JoernIsBounded ==
  ASSUME Proved!ContainersRemoved
  PROVE  Spec => []JoernBounded
  <1>1. /\ SlotInv /\ ClientsWait /\ Proved!TypeOK /\ Proved!EngineInv /\ Proved!NothingLost
        => JoernBounded
    <2> SUFFICES ASSUME SlotInv, ClientsWait, Proved!TypeOK, Proved!EngineInv,
                        Proved!NothingLost, config.patient, crashes = 0
                 PROVE  Cardinality(RepoEngines) <= Slots
      BY DEF JoernBounded
    <2> DEFINE Waits(e, c) == phase[c] = "wait" /\ call[c] = e[1]
               Holder == [e \in RepoEngines |-> CHOOSE c \in Clients : Waits(e, c)]
    <2>1. ASSUME NEW e \in RepoEngines
          PROVE  /\ e[1] \in Requests /\ e = <<e[1], chunk[e[1]]>>
                 /\ pc[e[1]] = "running" /\ kind[e[1]] = "repo"
      <3>1. e \in engines /\ e[1] \in Requests /\ kind[e[1]] = "repo"
        BY DEF Proved!TypeOK, RepoEngines
      <3>2. Proved!WaitedFor(e)
        BY <3>1 DEF Proved!EngineInv, Proved!NothingLost
      <3>3. QED BY <3>1, <3>2 DEF Proved!WaitedFor, Proved!Current
    <2>2. ASSUME NEW e \in RepoEngines
          PROVE  Holder[e] \in Clients /\ Waits(e, Holder[e])
      <3>1. \E c \in Clients : Waits(e, c)
        BY <2>1 DEF ClientsWait
      <3>2. QED BY <3>1
    <2>3. \A e \in RepoEngines : Holder[e] \in InFlight
      BY <2>2 DEF InFlight
    <2>4. \A e, f \in RepoEngines : Holder[e] = Holder[f] => e = f
      BY <2>1, <2>2
    <2>5. Holder \in Injection(RepoEngines, InFlight)
      <3>1. Holder \in [RepoEngines -> InFlight]
        BY <2>3
      <3> HIDE DEF Holder
      <3>2. QED BY <2>4, <3>1 DEF Injection, IsInjective
    <2>6. IsFiniteSet(InFlight) /\ Cardinality(InFlight) \in Nat
      BY ServiceAssumption, FS_Subset, FS_CardinalityType DEF InFlight
    <2>7. Cardinality(RepoEngines) <= Cardinality(InFlight) /\ Cardinality(RepoEngines) \in Nat
      BY <2>5, <2>6, FS_Injection, FS_CardinalityType
    <2>8. free \in Nat /\ free + Cardinality(InFlight) = Slots
      BY DEF SlotInv, ApiType, SlotsExact
    <2>9. QED BY <2>6, <2>7, <2>8
  <1>2. Spec => [](Proved!EngineInv /\ Proved!NothingLost)
    <2>1. Proved!WorkerAssumption => (Proved!Spec => []Proved!EngineInv)
      BY Proved!EngineAlways
    <2>2. Proved!WorkerAssumption => (Proved!Spec => []Proved!NothingLost)
      BY Proved!NothingLostAlways
    <2>3. QED BY <2>1, <2>2, SameAssumption, RunsWorker, PTL
  <1>3. QED BY <1>1, <1>2, SlotAlways, WaitAlways, WorkerTyped, PTL

-----------------------------------------------------------------------------
(***************************************************************************)
(* What DONE says of a Java file.  FailureNotClean is not inductive: it    *)
(* needs that a group is analysed once (its taint call is not overwritten) *)
(* and that the override and the call it comes from agree.                 *)
(***************************************************************************)
Analysed == {"empty", "clean", "findings"}

\* The groups from the current one on have no override yet.
StillOpen(c) ==
  stage[c] \in {"candidates", "taint"} /\ phase[c] \in {"new", "call", "wait"} =>
    \A k \in DOMAIN plan[c].groups : k >= group[c] => verdict[c][plan[c].groups[k]] = "none"

CleanInv(c) ==
  /\ StillOpen(c)
  /\ verdict[c]["java"] # "none" => heard[c]["java"] \in Analysed
  /\ status[c]["java"] = "DONE" => verdict[c]["java"] # "none"

LEMMA OpenGroup ==
  ASSUME ApiType, NEW c \in Clients, CleanInv(c),
         stage[c] \in {"candidates", "taint"}, phase[c] \in {"call", "wait"}
  PROVE  /\ verdict[c][Front(c)] = "none"
         /\ \A k \in DOMAIN plan[c].groups :
              k > group[c] => /\ plan[c].groups[k] # Front(c)
                              /\ verdict[c][plan[c].groups[k]] = "none"
  <1>1. group[c] \in DOMAIN plan[c].groups /\ group[c] \in Nat
    BY DEF ApiType
  <1>2. plan[c].groups \in Seq(Frontends)
    BY PlanType
  <1>3. \A k \in DOMAIN plan[c].groups : k >= group[c] => verdict[c][plan[c].groups[k]] = "none"
    BY DEF CleanInv, StillOpen
  <1>4. \A k \in DOMAIN plan[c].groups : k > group[c] => k >= group[c] /\ k # group[c]
    BY <1>1, <1>2
  <1>5. group[c] >= group[c]
    BY <1>1
  <1>6. QED BY <1>1, <1>3, <1>4, <1>5, PlanType DEF Front

\* Where NextGroup leads, the groups ahead are open if they were.
LEMMA NextOpen ==
  ASSUME ApiType, NEW c \in Clients, NextGroup(c), plan' = plan,
         \A k \in DOMAIN plan[c].groups :
           k > group[c] => verdict'[c][plan[c].groups[k]] = "none"
  PROVE  StillOpen(c)'
  <1>1. group[c] \in Nat /\ group \in [Clients -> Nat \ {0}] /\ phase \in [Clients -> Phases]
    BY DEF ApiType
  <1>2. plan[c].groups \in Seq(Frontends)
    BY PlanType
  <1>3. CASE group[c] < Len(plan[c].groups)
    <2>1. group'[c] = group[c] + 1
      BY <1>1, <1>3 DEF NextGroup
    <2>2. \A k \in DOMAIN plan[c].groups : k >= group'[c] => k > group[c]
      BY <1>1, <1>2, <2>1
    <2>3. QED BY <2>2 DEF StillOpen
  <1>4. CASE ~(group[c] < Len(plan[c].groups))
    <2>1. phase'[c] = "review"
      BY <1>1, <1>4 DEF NextGroup
    <2>2. QED BY <2>1 DEF StillOpen
  <1>5. QED BY <1>3, <1>4

\* The analysis of a group ends, by an exception or with findings.
LEMMA GroupEnds ==
  ASSUME ApiType, NEW c \in Clients, CleanInv(c),
         stage[c] \in {"candidates", "taint"}, phase[c] \in {"call", "wait"},
         plan' = plan, status' = status,
         \A f \in Frontends : f # Front(c) => heard'[c][f] = heard[c][f],
         GroupDone(c),
         ~GroupFails(c) /\ Front(c) = "java" => heard'[c]["java"] \in Analysed
  PROVE  CleanInv(c)'
  <1>1. /\ Front(c) \in Frontends /\ "java" \in Frontends
        /\ verdict \in [Clients -> [Frontends -> {"none", "safe", "vuln"}]]
    BY PlanType DEF ApiType, Frontends
  <1>2. verdict[c]["java"] # "none" => Front(c) # "java"
    BY OpenGroup
  <1>3. CASE GroupFails(c)
    <2>1. verdict' = verdict
      BY <1>3 DEF GroupFails
    <2>2. StillOpen(c)'
      <3>1. CASE NextGroup(c)
        BY <2>1, <3>1, OpenGroup, NextOpen
      <3>2. CASE ~NextGroup(c)
        <4>1. phase' = [phase EXCEPT ![c] = "end"]
          BY <1>3, <3>2 DEF GroupFails, Leave
        <4>2. phase'[c] = "end"
          BY <4>1 DEF ApiType
        <4>3. QED BY <4>2 DEF StillOpen
      <3>3. QED BY <3>1, <3>2
    <2>3. QED BY <1>1, <1>2, <2>1, <2>2 DEF CleanInv
  <1>4. CASE ~GroupFails(c)
    <2>1. PICK what \in {"safe", "vuln"} : GroupReturns(c, what)
      BY <1>4 DEF GroupDone
    <2>2. NextGroup(c) /\ verdict' = [verdict EXCEPT ![c][Front(c)] = what]
      BY <2>1 DEF GroupReturns
    <2>3. /\ verdict'[c][Front(c)] = what
          /\ \A f \in Frontends : f # Front(c) => verdict'[c][f] = verdict[c][f]
      BY <1>1, <2>2
    <2>4. StillOpen(c)'
      <3>1. \A k \in DOMAIN plan[c].groups : plan[c].groups[k] \in Frontends
        BY PlanType
      <3>2. QED BY <2>2, <2>3, <3>1, OpenGroup, NextOpen
    <2>5. Front(c) = "java" => heard'[c]["java"] \in Analysed
      BY <1>4
    <2>6. QED BY <1>1, <1>2, <2>3, <2>4, <2>5 DEF CleanInv
  <1>5. QED BY <1>3, <1>4

LEMMA BringsClean ==
  ASSUME ApiType, NEW c \in Clients, CleanInv(c), phase[c] = "wait",
         NEW what \in Results, Brings(c, what)
  PROVE  CleanInv(c)'
  <1>1. plan' = plan /\ status' = status
    BY DEF Brings
  <1>2. /\ heard \in [Clients -> [Frontends -> Answers]] /\ Front(c) \in Frontends
        /\ stage \in [Clients -> Stages] /\ phase \in [Clients -> Phases]
    BY PlanType DEF ApiType
  <1>3. \A f \in Frontends : f # Front(c) => heard'[c][f] = heard[c][f]
    BY <1>2 DEF Brings
  <1>4. CASE stage[c] = "candidates"
    <2>1. CandidatesBring(c, what) /\ heard' = heard
      BY <1>4 DEF Brings
    <2>2. CASE GroupFails(c)
      BY <1>1, <1>3, <1>4, <2>2, GroupEnds DEF GroupDone
    <2>3. CASE ~GroupFails(c)
      <3>1. /\ stage' = [stage EXCEPT ![c] = "taint"]
            /\ phase' = [phase EXCEPT ![c] = "call"]
            /\ group' = group /\ verdict' = verdict
        BY <2>1, <2>3 DEF CandidatesBring
      <3>2. StillOpen(c)'
        BY <1>1, <1>4, <3>1 DEF CleanInv, StillOpen
      <3>3. QED BY <1>1, <2>1, <3>1, <3>2 DEF CleanInv
    <2>4. QED BY <2>2, <2>3
  <1>5. CASE stage[c] = "taint"
    <2>1. TaintBrings(c, what) /\ heard' = [heard EXCEPT ![c][Front(c)] = what]
      BY <1>5 DEF Brings
    <2>2. heard'[c][Front(c)] = what
      BY <1>2, <2>1
    <2>3. GroupDone(c) /\ (~GroupFails(c) /\ Front(c) = "java" => what \in Analysed)
      BY <2>1, TaintEnds DEF GroupDone, Strict, Analysed
    <2>4. QED BY <1>1, <1>3, <1>5, <2>2, <2>3, GroupEnds
  <1>6. CASE stage[c] = "context"
    <2>1. ContextBrings(c) /\ heard' = heard
      BY <1>6 DEF Brings
    <2>2. phase'[c] = "respond" /\ verdict' = verdict
      BY <1>2, <2>1 DEF ContextBrings
    <2>3. QED BY <1>1, <2>1, <2>2 DEF CleanInv, StillOpen
  <1>7. CASE stage[c] = "file"
    <2>1. FileBrings(c, what) /\ heard' = heard
      BY <1>7 DEF Brings
    <2>2. phase'[c] = "review" /\ verdict'[c]["java"] = verdict[c]["java"]
      BY <1>2, <2>1 DEF FileBrings, ApiType, Frontends
    <2>3. QED BY <1>1, <2>1, <2>2 DEF CleanInv, StillOpen
  <1>8. QED BY <1>2, <1>4, <1>5, <1>6, <1>7 DEF Stages

LEMMA ReviewClean ==
  ASSUME ApiType, NEW c \in Clients, CleanInv(c), Review(c)
  PROVE  CleanInv(c)'
  <1>1. /\ plan' = plan /\ group' = group /\ heard' = heard /\ verdict' = verdict
        /\ phase \in [Clients -> Phases] /\ stage \in [Clients -> Stages]
        /\ "java" \in Frontends
    BY DEF Review, ApiType, Frontends
  <1>2. \/ phase'[c] \in {"end", "respond"}
        \/ stage'[c] = "context"
    BY <1>1 DEF Review, Leave
  <1>3. StillOpen(c)'
    BY <1>2 DEF StillOpen
  <1>4. status'[c]["java"] = "DONE" => verdict[c]["java"] # "none"
    <2>1. PICK reviewed \in BOOLEAN :
            status' = [status EXCEPT ![c] =
                        [f \in Frontends |->
                           IF f \in GroupsOf(c) THEN StatusOf(c, f, reviewed) ELSE "none"]]
      BY DEF Review
    <2>2. status'[c]["java"] = IF "java" \in GroupsOf(c) THEN StatusOf(c, "java", reviewed)
                                                         ELSE "none"
      BY <1>1, <2>1 DEF ApiType
    <2>3. QED BY <2>2 DEF StatusOf
  <1>5. QED BY <1>1, <1>3, <1>4 DEF CleanInv

LEMMA CleanStep ==
  ASSUME ApiType, NEW c \in Clients, ApiStep(c), \A d \in Clients : CleanInv(d)
  PROVE  \A d \in Clients : CleanInv(d)'
  <1>1. ASSUME NEW d \in Clients, d # c PROVE CleanInv(d)'
    <2>1. /\ plan' = plan /\ CleanInv(d)
          /\ phase'[d] = phase[d] /\ stage'[d] = stage[d] /\ group'[d] = group[d]
          /\ verdict'[d] = verdict[d] /\ heard'[d] = heard[d] /\ status'[d] = status[d]
      BY <1>1, OthersLeftAlone
    <2>2. QED BY <2>1 DEF CleanInv, StillOpen
  <1>2. CleanInv(c)'
    <2>1. CASE \/ Reject(c) \/ Admit(c) \/ RefuseEmpty(c) \/ Post(c) \/ ReviewFails(c)
               \/ Respond(c)
      <3>1. UNCHANGED <<plan, group, stage, heard, verdict, status>>
        BY <2>1 DEF Reject, Admit, RefuseEmpty, Post, ReviewFails, Respond
      <3>2. phase'[c] \in {"new", "call", "wait"} => phase[c] \in {"new", "call", "wait"}
        BY <2>1 DEF Reject, Admit, RefuseEmpty, Post, Send, ReviewFails, Respond, Leave,
                    ApiType
      <3>3. QED BY <3>1, <3>2 DEF CleanInv, StillOpen
    <2>2. CASE AnalyzeUnready(c)
      <3>1. /\ phase[c] = "call" /\ plan' = plan /\ status' = status /\ heard' = heard
            /\ stage[c] \in {"candidates", "taint"}
        BY <2>2 DEF AnalyzeUnready, FirstStage
      <3>2. GroupDone(c) /\ (Front(c) = "java" => GroupFails(c))
        BY <2>2 DEF AnalyzeUnready, Strict, GroupDone
      <3>3. QED BY <3>1, <3>2, GroupEnds
    <2>3. CASE Review(c)
      BY <2>3, ReviewClean
    <2>4. CASE Hear(c) \/ GiveUp(c)
      BY <2>4, CallEndsType, BringsClean
    <2>5. CASE NoGraph(c)
      <3>1. /\ phase[c] = "call" /\ stage[c] \in {"candidates", "taint"} /\ NextGroup(c)
            /\ UNCHANGED <<plan, verdict, heard, status>>
        BY <2>5 DEF NoGraph, FirstStage
      <3>2. \A k \in DOMAIN plan[c].groups :
              k > group[c] => verdict'[c][plan[c].groups[k]] = "none"
        BY <3>1, OpenGroup
      <3>3. StillOpen(c)'
        BY <3>1, <3>2, NextOpen
      <3>4. QED BY <3>1, <3>3 DEF CleanInv
    <2>6. CASE AskFile(c) \/ SkipFile(c)
      <3>1. stage'[c] = "file" /\ UNCHANGED <<plan, group, verdict, heard, status>>
        BY <2>6 DEF AskFile, SkipFile, ApiType
      <3>2. QED BY <3>1 DEF CleanInv, StillOpen
    <2>7. QED BY <2>1, <2>2, <2>3, <2>4, <2>5, <2>6 DEF ApiStep
  <1>3. QED BY <1>1, <1>2

\* A Java file whose taint call raised, timed out or failed in the worker is
\* delivered as DONE in no order of the group's calls, of worker and client,
\* of time limits and of restarts.
THEOREM FailuresNotClean == Spec => []FailureNotClean
  <1> DEFINE AllClean == \A c \in Clients : CleanInv(c)
  <1>1. Init => AllClean
    <2> SUFFICES ASSUME Init, NEW c \in Clients PROVE CleanInv(c)
      OBVIOUS
    <2>1. \A f \in Frontends : verdict[c][f] = "none" /\ status[c][f] = "none"
      BY DEF Init
    <2>2. \A k \in DOMAIN plan[c].groups : plan[c].groups[k] \in Frontends
      BY ApiInit, PlanType
    <2>3. QED BY <2>1, <2>2 DEF CleanInv, StillOpen, Frontends
  <1>2. SlotInv /\ AllClean /\ [Next]_vars => AllClean'
    <2> SUFFICES ASSUME SlotInv, AllClean, [Next]_vars PROVE AllClean'
      OBVIOUS
    <2>1. ASSUME NEW c \in Clients, ApiStep(c) PROVE AllClean'
      BY <2>1, CleanStep DEF SlotInv
    <2>2. CASE UNCHANGED apiVars
      BY <2>2 DEF apiVars, CleanInv, StillOpen
    <2>3. QED
      BY <2>1, <2>2 DEF Next, WorkerStep, Environment, Quiescent, vars
  <1>3. AllClean => FailureNotClean
    BY DEF CleanInv, Analysed, FailureNotClean
  <1>4. QED
    <2> HIDE DEF AllClean
    <2> QED BY <1>1, <1>2, <1>3, SlotAlways, PTL DEF Spec

-----------------------------------------------------------------------------
(***************************************************************************)
(* Whose answer a handler hears.  A handler that waits has a request of    *)
(* its own at the worker: it is the one that made it arrive, and a request *)
(* arrives once.                                                           *)
(***************************************************************************)
OwnCall ==
  /\ \A c \in Clients : phase[c] = "wait" => call[c] \in Requests /\ pc[call[c]] # "idle"
  /\ \A c, d \in Clients :
       c # d /\ phase[c] = "wait" /\ phase[d] = "wait" => call[c] # call[d]

\* A thread leaves "idle" and never comes back to it.
LEMMA ThreadStarted ==
  ASSUME Proved!TypeOK, NEW r \in Requests, Proved!Step(r)
  PROVE  pc'[r] # "idle"
  <1> USE DEF Proved!TypeOK
  <1>1. CASE \/ Proved!Arrive(r) \/ Proved!Accept(r) \/ Proved!Refuse(r)
             \/ Proved!Register(r) \/ Proved!CheckDir(r) \/ Proved!MakeDir(r)
    BY <1>1 DEF Proved!Arrive, Proved!Accept, Proved!Refuse, Proved!Register,
                Proved!CheckDir, Proved!MakeDir, Proved!Leave, Proved!After
  <1>2. CASE \/ Proved!SetupFails(r) \/ Proved!Launch(r) \/ Proved!Cleanup(r)
             \/ Proved!Unregister(r) \/ Proved!Publish(r)
    BY <1>2 DEF Proved!SetupFails, Proved!Launch, Proved!Cleanup, Proved!Unregister,
                Proved!Publish, Proved!After
  <1>3. CASE \/ Proved!Collect(r) \/ Proved!RepoTimeout(r) \/ Proved!ChunkTimeout(r)
             \/ Proved!Drained(r)
    BY <1>3 DEF Proved!Collect, Proved!RepoTimeout, Proved!ChunkTimeout, Proved!Drained,
                Proved!NextChunk
  <1>4. QED BY <1>1, <1>2, <1>3 DEF Proved!Step

\* A handler comes to wait by sending a request only.
LEMMA WaitsBySending ==
  ASSUME ApiType, NEW c \in Clients, ApiStep(c), ~Sends(c)
  PROVE  phase'[c] # "wait"
  <1>1. CASE \/ Reject(c) \/ Admit(c) \/ RefuseEmpty(c) \/ SkipFile(c) \/ ReviewFails(c)
             \/ Respond(c)
    BY <1>1 DEF Reject, Admit, RefuseEmpty, SkipFile, ReviewFails, Respond, Leave, ApiType
  <1>2. CASE Review(c)
    BY <1>2 DEF Review, Leave, ApiType
  <1>3. NextGroup(c) \/ GroupDone(c) => phase'[c] # "wait"
    BY DEF GroupDone, GroupFails, GroupReturns, NextGroup, Leave, ApiType
  <1>4. CASE NoGraph(c) \/ AnalyzeUnready(c)
    BY <1>3, <1>4 DEF NoGraph, AnalyzeUnready, GroupDone
  <1>5. CASE Hear(c) \/ GiveUp(c)
    <2>1. PICK what \in Results : Brings(c, what)
      BY <1>5, CallEndsType
    <2>2. CASE GroupDone(c)
      BY <1>3, <2>2
    <2>3. CASE FileBrings(c, what) \/ ContextBrings(c)
      BY <2>3 DEF FileBrings, ContextBrings, ApiType
    <2>4. CASE phase' = [phase EXCEPT ![c] = "call"]
      BY <2>4 DEF ApiType
    <2>5. QED BY <2>1, <2>2, <2>3, <2>4, BringsCases
  <1>6. QED BY <1>1, <1>2, <1>4, <1>5 DEF ApiStep, Sends

LEMMA OwnCallStep ==
  ASSUME ApiType, OwnCall, Proved!TypeOK, [Next]_vars
  PROVE  OwnCall'
  <1>1. ASSUME NEW c \in Clients, ApiStep(c) PROVE OwnCall'
    <2>1. \A d \in Clients : d # c => phase'[d] = phase[d] /\ call'[d] = call[d]
      BY <1>1, WaitersStay
    <2>2. CASE Sends(c)
      <3>1. PICK r \in Requests : Worker!Arrive(r) /\ call' = [call EXCEPT ![c] = r]
        BY <2>2, SendsOne
      <3>2. call'[c] = r /\ pc[r] = "idle"
        BY <3>1 DEF Worker!Arrive, ApiType
      <3>3. Proved!Step(r)
        BY <3>1, SameStep DEF Worker!Step
      <3>4. pc'[r] # "idle" /\ \A s \in Requests : s # r => pc'[s] = pc[s]
        BY <3>3, ThreadStarted, WorkerMoves
      <3>5. \A d \in Clients : d # c /\ phase[d] = "wait" => call[d] \in Requests /\ call[d] # r
        BY <3>2 DEF OwnCall
      <3>6. QED BY <2>1, <3>2, <3>4, <3>5 DEF OwnCall
    <2>3. CASE ~Sends(c)
      <3>1. phase'[c] # "wait" /\ pc' = pc
        BY <1>1, <2>3, WaitsBySending, ApiLeavesWorker DEF workerVars
      <3>2. QED BY <2>1, <3>1 DEF OwnCall
    <2>4. QED BY <2>2, <2>3
  <1>2. ASSUME NEW r \in Requests, WorkerStep(r) PROVE OwnCall'
    <2>1. phase' = phase /\ call' = call
      BY <1>2 DEF WorkerStep, apiVars
    <2>2. pc'[r] # "idle" /\ \A s \in Requests : s # r => pc'[s] = pc[s]
      BY <1>2, SameStep, ThreadStarted, WorkerMoves DEF WorkerStep
    <2>3. QED BY <2>1, <2>2 DEF OwnCall
  <1>3. CASE Environment
    <2>1. phase' = phase /\ call' = call
      BY <1>3 DEF Environment, apiVars
    <2>2. \A r \in Requests : pc[r] # "idle" => pc'[r] # "idle"
      BY <1>3 DEF Environment, Worker!Crash, Worker!JoernWrites, Worker!JoernDies
    <2>3. QED BY <2>1, <2>2 DEF OwnCall
  <1>4. CASE UNCHANGED vars
    BY <1>4 DEF vars, workerVars, apiVars, OwnCall
  <1>5. QED BY <1>1, <1>2, <1>3, <1>4 DEF Next, Quiescent

\* A handler hears the answer to its own call: no two of them wait for one
\* request, also when clients gave up, ids collided or the worker was restarted
\* in between, and what it waits for has been started.
THEOREM CallsAreOwn == Spec => []OwnCall
  <1>1. Init => OwnCall
    BY DEF Init, OwnCall
  <1>2. SlotInv /\ Proved!TypeOK /\ OwnCall /\ [Next]_vars => OwnCall'
    BY OwnCallStep DEF SlotInv
  <1>3. QED BY <1>1, <1>2, SlotAlways, WorkerTyped, PTL DEF Spec

-----------------------------------------------------------------------------
(***************************************************************************)
(* How far a handler is from its answer: two calls for each group still to *)
(* come, a post and a wait each, the single file, the review, the context  *)
(* and the answer.                                                         *)
(***************************************************************************)
CallWork(c) ==
  CASE stage[c] = "context"    -> 2
    [] stage[c] = "file"       -> 5
    [] stage[c] = "taint"      -> 7 + 4 * (Len(plan[c].groups) - group[c])
    [] stage[c] = "candidates" -> 9 + 4 * (Len(plan[c].groups) - group[c])

HandlerWork(c) ==
  CASE phase[c] = "new"     -> 7 + 4 * Len(plan[c].groups)
    [] phase[c] = "call"    -> 1 + CallWork(c)
    [] phase[c] = "wait"    -> CallWork(c)
    [] phase[c] = "review"  -> IF stage[c] = "file" THEN 4 ELSE 6
    [] phase[c] = "respond" -> 1
    [] phase[c] = "end"     -> 0

Stands(c) ==
  plan'[c] = plan[c] /\ phase'[c] = phase[c] /\ stage'[c] = stage[c] /\ group'[c] = group[c]

HandlersNearer == \A c \in Clients : Stands(c) \/ HandlerWork(c)' < HandlerWork(c)

LEMMA GroupRange ==
  ASSUME ApiType, NEW c \in Clients
  PROVE  /\ Len(plan[c].groups) \in Nat
         /\ group[c] \in Nat /\ 1 <= group[c] /\ group[c] <= Len(plan[c].groups)
  <1>1. plan[c].groups \in Seq(Frontends)
    BY PlanType
  <1>2. group[c] \in DOMAIN plan[c].groups
    BY DEF ApiType
  <1>3. QED BY <1>1, <1>2

LEMMA GroupsLeft ==
  ASSUME ApiType, NEW c \in Clients
  PROVE  4 * (Len(plan[c].groups) - group[c]) \in 0 .. 4 * Len(plan[c].groups) - 4
  <1>1. \A n, k \in Nat : 1 <= k /\ k <= n => 4 * (n - k) \in 0 .. 4 * n - 4
    OBVIOUS
  <1>2. QED BY <1>1, GroupRange

\* After a group the handler is closer than it is in any of its calls.
LEMMA GroupNearer ==
  ASSUME ApiType, NEW c \in Clients, stage[c] \in {"candidates", "taint"},
         plan' = plan, config' = config, NextGroup(c) \/ GroupDone(c)
  PROVE  HandlerWork(c)' < CallWork(c) /\ HandlerWork(c)' \in Int
  <1> DEFINE n == Len(plan[c].groups)
             k == group[c]
             m == 4 * (n - k)
  <1>1. n \in Nat /\ k \in Nat /\ m \in Nat
    BY GroupRange, GroupsLeft
  <1>2. CallWork(c) \in {7 + m, 9 + m}
    BY DEF CallWork
  <1>3. CASE phase'[c] \in {"end", "review"}
    <2>1. HandlerWork(c)' \in {0, 4, 6}
      BY <1>3 DEF HandlerWork
    <2> HIDE DEF m
    <2>2. QED BY <1>1, <1>2, <2>1
  <1>4. CASE phase'[c] \notin {"end", "review"}
    <2>1. NextGroup(c) /\ group[c] < Len(plan[c].groups)
      BY <1>4 DEF GroupDone, GroupFails, GroupReturns, Leave, NextGroup, ApiType
    <2>2. phase'[c] = "call" /\ stage'[c] = FirstStage /\ group'[c] = k + 1
      BY <2>1 DEF NextGroup, ApiType
    <2>3. FirstStage \in {"candidates", "taint"}
      BY DEF FirstStage
    <2>4. plan'[c] = plan[c]
      OBVIOUS
    <2>5. 4 * (n - (k + 1)) = m - 4
      <3>1. \A i, j \in Nat : 4 * (i - (j + 1)) = 4 * (i - j) - 4
        OBVIOUS
      <3>2. QED BY <1>1, <3>1
    <2>6. CallWork(c)' \in {7 + 4 * (n - (k + 1)), 9 + 4 * (n - (k + 1))}
      BY <2>2, <2>3, <2>4 DEF CallWork
    <2>7. HandlerWork(c)' = 1 + CallWork(c)'
      BY <2>2 DEF HandlerWork
    <2> HIDE DEF m
    <2>8. QED BY <1>1, <1>2, <2>5, <2>6, <2>7
  <1>5. QED BY <1>3, <1>4

LEMMA BringsNearer ==
  ASSUME ApiType, NEW c \in Clients, NEW what \in Results, Brings(c, what)
  PROVE  HandlerWork(c)' < CallWork(c)
  <1>1. plan' = plan /\ config' = config
    BY DEF Brings
  <1>2. CASE stage[c] \in {"candidates", "taint"} /\ GroupDone(c)
    BY <1>1, <1>2, GroupNearer
  <1>3. CASE /\ stage[c] = "candidates" /\ stage' = [stage EXCEPT ![c] = "taint"]
             /\ phase' = [phase EXCEPT ![c] = "call"]
             /\ UNCHANGED <<group, verdict>>
    <2> DEFINE m == 4 * (Len(plan[c].groups) - group[c])
    <2>1. phase'[c] = "call" /\ stage'[c] = "taint" /\ group' = group
      BY <1>3 DEF ApiType
    <2>2. HandlerWork(c)' = 1 + CallWork(c)' /\ CallWork(c) = 9 + m
      BY <1>3, <2>1 DEF HandlerWork, CallWork
    <2>3. CallWork(c)' = 7 + m
      BY <1>1, <2>1 DEF CallWork
    <2>4. m \in Nat
      BY GroupRange, GroupsLeft
    <2> HIDE DEF m
    <2>5. QED BY <2>2, <2>3, <2>4
  <1>4. CASE stage[c] = "file" /\ FileBrings(c, what)
    <2>1. phase'[c] = "review" /\ stage'[c] = "file"
      BY <1>4 DEF FileBrings, ApiType
    <2>2. HandlerWork(c)' = 4 /\ CallWork(c) = 5
      BY <1>4, <2>1 DEF HandlerWork, CallWork
    <2>3. QED BY <2>2
  <1>5. CASE stage[c] = "context" /\ ContextBrings(c)
    BY <1>5 DEF ContextBrings, HandlerWork, CallWork, ApiType
  <1>6. QED BY <1>2, <1>3, <1>4, <1>5, BringsCases

LEMMA CallWorkRange ==
  ASSUME ApiType, NEW c \in Clients
  PROVE  /\ CallWork(c) \in 2 .. 5 + 4 * Len(plan[c].groups)
         /\ HandlerWork(c) \in 0 .. 7 + 4 * Len(plan[c].groups)
         /\ HandlerWork(c) = 0 <=> phase[c] = "end"
  <1> DEFINE n == Len(plan[c].groups)
             m == 4 * (n - group[c])
  <1>1. n \in Nat /\ n >= 1 /\ m \in 0 .. 4 * n - 4
    BY GroupRange, GroupsLeft
  <1>2. CallWork(c) \in {2, 5, 7 + m, 9 + m}
    BY DEF CallWork, ApiType, Stages
  <1>3. CallWork(c) \in 2 .. 5 + 4 * n
    <2> HIDE DEF n, m
    <2> QED BY <1>1, <1>2
  <1>4. /\ HandlerWork(c) \in {7 + 4 * n, 1 + CallWork(c), CallWork(c), 6, 4, 1, 0}
        /\ phase[c] = "end" => HandlerWork(c) = 0
        /\ phase[c] # "end" =>
             HandlerWork(c) \in {7 + 4 * n, 1 + CallWork(c), CallWork(c), 6, 4, 1}
    <2>1. phase[c] \in Phases
      BY DEF ApiType
    <2> HIDE DEF n
    <2>2. QED BY <2>1 DEF HandlerWork, Phases, n
  <1>5. QED
    <2> HIDE DEF n, m
    <2>1. HandlerWork(c) \in 0 .. 7 + 4 * n
      BY <1>1, <1>3, <1>4
    <2>2. HandlerWork(c) = 0 <=> phase[c] = "end"
      BY <1>1, <1>3, <1>4
    <2>3. QED BY <1>3, <2>1, <2>2 DEF n

LEMMA HandlerNearer ==
  ASSUME ApiType, NEW c \in Clients, ApiStep(c)
  PROVE  HandlerWork(c)' < HandlerWork(c)
  <1> DEFINE n == Len(plan[c].groups)
             w == CallWork(c)
  <1>1. n \in Nat /\ n >= 1 /\ w \in 2 .. 5 + 4 * n /\ HandlerWork(c) \in Nat
        /\ (HandlerWork(c) = 0 <=> phase[c] = "end")
    BY GroupRange, CallWorkRange
  <1>2. plan' = plan
    BY OthersLeftAlone
  <1>3. CASE phase'[c] = "end" /\ phase[c] # "end"
    <2>1. HandlerWork(c)' = 0
      BY <1>3 DEF HandlerWork
    <2>2. HandlerWork(c) \in Nat /\ HandlerWork(c) # 0
      BY <1>1, <1>3
    <2>3. QED BY <2>1, <2>2
  <1>4. CASE Reject(c) \/ RefuseEmpty(c) \/ ReviewFails(c) \/ Respond(c)
    BY <1>3, <1>4 DEF Reject, RefuseEmpty, ReviewFails, Respond, Leave, ApiType
  <1>5. CASE Admit(c)
    <2>1. CASE phase'[c] # "end"
      <3>1. phase[c] = "new" /\ phase'[c] = "call" /\ stage' = stage /\ group' = group
        BY <1>5, <2>1 DEF Admit, ApiType
      <3>2. CallWork(c)' = w
        BY <1>2, <3>1 DEF CallWork
      <3>3. HandlerWork(c)' = 1 + w /\ HandlerWork(c) = 7 + 4 * n
        BY <3>1, <3>2 DEF HandlerWork
      <3> HIDE DEF n, w
      <3>4. QED BY <1>1, <3>3
    <2>2. QED BY <1>3, <1>5, <2>1 DEF Admit
  <1>6. CASE Post(c)
    <2>1. phase[c] = "call" /\ phase'[c] = "wait" /\ stage' = stage /\ group' = group
      BY <1>6 DEF Post, Send, ApiType
    <2>2. CallWork(c)' = w
      BY <1>2, <2>1 DEF CallWork
    <2>3. HandlerWork(c)' = w /\ HandlerWork(c) = 1 + w
      BY <2>1, <2>2 DEF HandlerWork
    <2> HIDE DEF w
    <2>4. QED BY <1>1, <2>3
  <1>7. CASE NoGraph(c) \/ AnalyzeUnready(c)
    <2>1. /\ phase[c] = "call" /\ stage[c] \in {"candidates", "taint"} /\ config' = config
          /\ NextGroup(c) \/ GroupDone(c)
      BY <1>7 DEF NoGraph, AnalyzeUnready, GroupDone, FirstStage
    <2>2. HandlerWork(c)' < w /\ HandlerWork(c)' \in Int /\ HandlerWork(c) = 1 + w
      BY <1>2, <2>1, GroupNearer DEF HandlerWork
    <2> HIDE DEF w
    <2>3. QED BY <1>1, <2>2
  <1>8. CASE Hear(c) \/ GiveUp(c)
    <2>1. phase[c] = "wait" /\ HandlerWork(c) = w
      BY <1>8, CallEndsType DEF HandlerWork
    <2>2. QED BY <1>8, <2>1, CallEndsType, BringsNearer
  <1>9. CASE Review(c)
    <2>1. phase[c] = "review"
      BY <1>9 DEF Review
    <2>2. \/ phase'[c] \in {"end", "respond"}
          \/ phase'[c] = "call" /\ stage'[c] = "context"
      BY <1>9 DEF Review, Leave, ApiType
    <2>3. HandlerWork(c)' \in {0, 1, 3} /\ HandlerWork(c) \in {4, 6}
      BY <2>1, <2>2 DEF HandlerWork, CallWork
    <2>4. QED BY <2>3
  <1>10. CASE AskFile(c) \/ SkipFile(c)
    <2>1. /\ phase[c] = "review" /\ stage[c] # "file" /\ stage'[c] = "file"
          /\ phase'[c] \in {"wait", "review"}
      BY <1>10 DEF AskFile, SkipFile, FileOpen, Send, ApiType
    <2>2. HandlerWork(c)' \in {4, 5} /\ HandlerWork(c) = 6
      BY <2>1 DEF HandlerWork, CallWork
    <2>3. QED BY <2>2
  <1>11. QED BY <1>4, <1>5, <1>6, <1>7, <1>8, <1>9, <1>10 DEF ApiStep

\* The work left is never more than this, and is none exactly when the
\* handler has answered.
THEOREM HandlerWorkBounded ==
  Spec => [](\A c \in Clients :
               /\ HandlerWork(c) \in 0 .. 7 + 4 * Len(plan[c].groups)
               /\ HandlerWork(c) = 0 <=> phase[c] = "end")
  <1>1. SlotInv => \A c \in Clients : /\ HandlerWork(c) \in 0 .. 7 + 4 * Len(plan[c].groups)
                                      /\ HandlerWork(c) = 0 <=> phase[c] = "end"
    BY CallWorkRange DEF SlotInv
  <1>2. QED BY <1>1, SlotAlways, PTL

\* Every step of a handler brings it nearer to its answer, and no step of
\* another handler, of the worker or of a restart takes it back: no failure of
\* a call is answered by calling again.  The safety half of AdmittedAnswered.
THEOREM HandlersAdvance == Spec => [][HandlersNearer]_vars
  <1>1. ASSUME ApiType, Next PROVE [HandlersNearer]_vars
    <2>1. ASSUME NEW c \in Clients, ApiStep(c) PROVE HandlersNearer
      BY <1>1, <2>1, HandlerNearer, OthersLeftAlone DEF HandlersNearer, Stands
    <2>2. CASE UNCHANGED apiVars
      BY <2>2 DEF apiVars, HandlersNearer, Stands
    <2>3. QED BY <1>1, <2>1, <2>2 DEF Next, WorkerStep, Environment, Quiescent
  <1>2. SlotInv /\ [Next]_vars => [HandlersNearer]_vars
    BY <1>1 DEF SlotInv
  <1>3. QED BY <1>2, SlotAlways, PTL DEF Spec
=============================================================================
