-------------------------- MODULE JoernWorker_proofs --------------------------
(***************************************************************************)
(* Proofs about JoernWorker, for any number of requests, ids, paths,       *)
(* chunks and restarts.                                                    *)
(***************************************************************************)
EXTENDS JoernWorker, TLAPS

(***************************************************************************)
(* The state stays in its domain.                                          *)
(***************************************************************************)
LEMMA InitType == Init => TypeOK
  BY WorkerAssumption DEF Init, TypeOK, PCs, Outcomes, Chunks, Contents

LEMMA DirType ==
  ASSUME TypeOK, NEW r \in Requests
  PROVE  Dir(r) \in Dirs
  BY WorkerAssumption DEF TypeOK, Dir, EngineOf

LEMMA AfterType ==
  ASSUME NEW r \in Requests
  PROVE  After(r) \in PCs
  BY DEF After, PCs

LEMMA NextChunkType ==
  ASSUME TypeOK, NEW r \in Requests, NextChunk(r)
  PROVE  /\ chunk' \in [Requests -> Chunks]
         /\ pc' \in [Requests -> PCs]
         /\ outcome' \in [Requests -> Outcomes]
  <1>1. chunk[r] < MaxChunks => chunk[r] + 1 \in Chunks
    <2>1. chunk[r] \in 1 .. MaxChunks
      BY DEF TypeOK, Chunks
    <2>2. MaxChunks \in Nat
      BY WorkerAssumption
    <2>3. QED BY <2>1, <2>2 DEF Chunks
  <1>2. chunk' \in [Requests -> Chunks]
    BY <1>1 DEF NextChunk, TypeOK
  <1>3. pc' \in [Requests -> PCs]
    BY DEF NextChunk, TypeOK, PCs
  <1>4. outcome' \in [Requests -> Outcomes]
    BY DEF NextChunk, TypeOK, Outcomes
  <1>5. QED BY <1>2, <1>3, <1>4

LEMMA StepType ==
  ASSUME TypeOK, NEW r \in Requests, Step(r)
  PROVE  TypeOK'
  <1>a. Dir(r) \in Dirs
    BY DirType
  <1>b. After(r) \in PCs
    BY AfterType
  <1>c. \A what \in Outcomes :
          Leave(r, what) => pc' \in [Requests -> PCs] /\ outcome' \in [Requests -> Outcomes]
    BY <1>b DEF Leave, TypeOK
  <1>d. "exists" \in Outcomes /\ "nodir" \in Outcomes /\ "checked" \in PCs /\ "setup" \in PCs
    BY DEF Outcomes, PCs
  <1> USE <1>a, <1>b DEF TypeOK
  <1>1. CASE Arrive(r)
    BY <1>1 DEF Arrive, PCs, Outcomes
  <1>2. CASE Accept(r)
    BY <1>2 DEF Accept, PCs
  <1>3. CASE Refuse(r)
    BY <1>3 DEF Refuse, Leave, Outcomes
  <1>4. CASE Register(r)
    <2>1. active' \subseteq JobIds
      BY <1>4 DEF Register
    <2>2. pc' \in [Requests -> PCs] /\ outcome' \in [Requests -> Outcomes]
      BY <1>4 DEF Register, Leave, PCs, Outcomes
    <2>3. QED BY <1>4, <2>1, <2>2 DEF Register
  <1>5. CASE CheckDir(r)
    <2>1. pc' \in [Requests -> PCs] /\ outcome' \in [Requests -> Outcomes]
      BY <1>5, <1>c, <1>d DEF CheckDir
    <2>2. UNCHANGED <<kind, job, chunk, used, active, tree, out, engines, store, crashes>>
      BY <1>5 DEF CheckDir
    <2>3. QED BY <2>1, <2>2
  <1>6. CASE MakeDir(r)
    <2>1. pc' \in [Requests -> PCs] /\ outcome' \in [Requests -> Outcomes]
      BY <1>6, <1>c, <1>d DEF MakeDir
    <2>2. Made(r) \in {"root", "repo"} /\ HalfMade(r) \subseteq {"absent", "root", "repo"}
      BY DEF Made, HalfMade
    <2>3. tree' \in [Dirs -> {"absent", "root", "repo"}]
      BY <1>6, <2>2 DEF MakeDir
    <2>4. UNCHANGED <<kind, job, chunk, used, active, out, engines, store, crashes>>
      BY <1>6 DEF MakeDir
    <2>5. QED BY <2>1, <2>3, <2>4
  <1>7. CASE SetupFails(r)
    BY <1>7 DEF SetupFails, PCs, Outcomes
  <1>8. CASE Launch(r)
    BY <1>8 DEF Launch, Current, PCs
  <1>9. CASE Collect(r)
    <2>1. used' \in [Requests -> SUBSET Requests]
      BY <1>9 DEF Collect
    <2>2. CASE kind[r] = "repo"
      <3>1. \A content : Parsed(content) \in Outcomes
        BY DEF Parsed, Outcomes
      <3>2. outcome' \in [Requests -> Outcomes]
        BY <1>9, <2>2, <3>1 DEF Collect
      <3>3. pc' \in [Requests -> PCs]
        BY <1>9, <2>2 DEF Collect, PCs
      <3>4. QED BY <1>9, <2>1, <2>2, <3>2, <3>3 DEF Collect
    <2>3. CASE kind[r] # "repo"
      BY <1>9, <2>1, <2>3, NextChunkType DEF Collect
    <2>4. QED BY <2>2, <2>3
  <1>10. CASE RepoTimeout(r)
    BY <1>10 DEF RepoTimeout, PCs, Outcomes
  <1>11. CASE ChunkTimeout(r)
    BY <1>11, NextChunkType DEF ChunkTimeout, PCs
  <1>12. CASE Drained(r)
    BY <1>12, NextChunkType DEF Drained
  <1>13. CASE Cleanup(r)
    <2>1. pc' \in [Requests -> PCs]
      BY <1>13 DEF Cleanup, PCs
    <2>2. tree' \in [Dirs -> {"absent", "root", "repo"}]
      BY <1>13 DEF Cleanup
    <2>3. out' \in [Dirs -> [Chunks -> Contents]]
      BY <1>13 DEF Cleanup, Contents
    <2>4. QED BY <1>13, <2>1, <2>2, <2>3 DEF Cleanup
  <1>14. CASE Unregister(r)
    BY <1>14 DEF Unregister
  <1>15. CASE Publish(r)
    BY <1>15 DEF Publish, PCs
  <1>16. QED
    BY <1>1, <1>2, <1>3, <1>4, <1>5, <1>6, <1>7, <1>8, <1>9, <1>10, <1>11,
       <1>12, <1>13, <1>14, <1>15 DEF Step

LEMMA NextType == TypeOK /\ [Next]_vars => TypeOK'
  <1> SUFFICES ASSUME TypeOK, [Next]_vars PROVE TypeOK'
    OBVIOUS
  <1>1. ASSUME NEW r \in Requests, Step(r) PROVE TypeOK'
    BY <1>1, StepType
  <1>2. ASSUME NEW e \in engines, JoernWrites(e) PROVE TypeOK'
    BY <1>2, DirType DEF TypeOK, JoernWrites, Contents
  <1>3. ASSUME NEW e \in engines, JoernDies(e) PROVE TypeOK'
    <2>1. e \in Requests \X Chunks
      BY DEF TypeOK
    <2>2. Dir(e[1]) \in Dirs
      BY <2>1, DirType
    <2>3. out' \in [Dirs -> [Chunks -> Contents]]
      <3>1. CASE UNCHANGED out
        BY <3>1 DEF TypeOK
      <3>2. CASE out' = [out EXCEPT ![Dir(e[1])][e[2]] = BadFile]
        BY <2>1, <2>2, <3>2 DEF TypeOK, Contents
      <3>3. QED BY <1>3, <3>1, <3>2 DEF JoernDies
    <2>4. QED BY <1>3, <2>3 DEF TypeOK, JoernDies
  <1>4. CASE Crash
    BY <1>4, WorkerAssumption DEF TypeOK, Crash, PCs, Outcomes
  <1>5. CASE UNCHANGED vars
    BY <1>5 DEF TypeOK, vars
  <1>6. QED
    BY <1>1, <1>2, <1>3, <1>4, <1>5 DEF Next, Quiescent

\* Every reachable state of the worker is in its domain.
THEOREM TypeCorrect == Spec => []TypeOK
  BY InitType, NextType, PTL DEF Spec
-----------------------------------------------------------------------------
(***************************************************************************)
(* One job per id.  The registry alone decides it: Registered makes the    *)
(* test in Register meaningful, and a discard removes only the id of the   *)
(* job that leaves.                                                        *)
(***************************************************************************)
IdInv == Registered /\ OneJobPerId

\* A step after which no new job is locked and no id has left the registry.
LEMMA IdFrame ==
  ASSUME IdInv, job' = job, active \subseteq active',
         \A s \in Requests : Locked(s)' => Locked(s)
  PROVE  IdInv'
  BY DEF IdInv, Registered, OneJobPerId

LEMMA IdStep ==
  ASSUME TypeOK, IdInv, NEW r \in Requests, Step(r)
  PROVE  IdInv'
  <1>0. pc \in [Requests -> PCs]
    BY DEF TypeOK
  <1>1. CASE Register(r)
    <2>1. CASE job[r] \in active
      <3>1. \A s \in Requests : Locked(s)' => Locked(s)
        BY <1>0, <1>1, <2>1 DEF Register, Leave, After, Locked
      <3>2. QED BY <1>1, <2>1, <3>1, IdFrame DEF Register
    <2>2. CASE job[r] \notin active
      <3>1. /\ active' = active \cup {job[r]}
            /\ job' = job
            /\ \A s \in Requests : Locked(s)' => Locked(s) \/ s = r
        BY <1>0, <1>1, <2>2 DEF Register, Locked
      <3>2. Registered'
        BY <3>1 DEF IdInv, Registered
      <3>3. \A s \in Requests : Locked(s) => job[s] # job[r]
        BY <2>2 DEF IdInv, Registered
      <3>4. OneJobPerId'
        BY <3>1, <3>3 DEF IdInv, OneJobPerId
      <3>5. QED BY <3>2, <3>4 DEF IdInv
    <2>3. QED BY <2>1, <2>2
  <1>2. CASE Unregister(r)
    <2>1. /\ active' = active \ {job[r]}
          /\ job' = job
          /\ Locked(r)
          /\ \A s \in Requests : Locked(s)' => Locked(s) /\ s # r
      BY <1>0, <1>2 DEF Unregister, Locked, After
    <2>2. OneJobPerId'
      BY <2>1 DEF IdInv, OneJobPerId
    <2>3. Registered'
      BY <2>1 DEF IdInv, Registered, OneJobPerId
    <2>4. QED BY <2>2, <2>3 DEF IdInv
  <1>3. CASE \/ Arrive(r) \/ Accept(r) \/ Refuse(r) \/ Publish(r)
    <2>1. \A s \in Requests : Locked(s)' => Locked(s)
      BY <1>0, <1>3 DEF Arrive, Accept, Refuse, Publish, Leave, After, Locked
    <2>2. QED
      BY <1>3, <2>1, IdFrame DEF Arrive, Accept, Refuse, Publish
  <1>4. CASE \/ CheckDir(r) \/ MakeDir(r) \/ SetupFails(r) \/ Launch(r)
             \/ RepoTimeout(r) \/ Cleanup(r)
    <2>1. \A s \in Requests : Locked(s)' => Locked(s)
      BY <1>0, <1>4 DEF CheckDir, MakeDir, SetupFails, Launch, RepoTimeout,
                        Cleanup, Leave, After, Locked
    <2>2. QED
      BY <1>4, <2>1, IdFrame
      DEF CheckDir, MakeDir, SetupFails, Launch, RepoTimeout, Cleanup
  <1>5. CASE Collect(r) \/ ChunkTimeout(r) \/ Drained(r)
    <2>1. \A s \in Requests : Locked(s)' => Locked(s)
      BY <1>0, <1>5 DEF Collect, ChunkTimeout, Drained, NextChunk, Locked
    <2>2. QED
      BY <1>5, <2>1, IdFrame DEF Collect, ChunkTimeout, Drained
  <1>6. QED
    BY <1>1, <1>2, <1>3, <1>4, <1>5 DEF Step

LEMMA IdNext == TypeOK /\ IdInv /\ [Next]_vars => IdInv'
  <1> SUFFICES ASSUME TypeOK, IdInv, [Next]_vars PROVE IdInv'
    OBVIOUS
  <1>1. ASSUME NEW r \in Requests, Step(r) PROVE IdInv'
    BY <1>1, IdStep
  <1>2. ASSUME NEW e \in engines, JoernWrites(e) \/ JoernDies(e) PROVE IdInv'
    BY <1>2, IdFrame DEF JoernWrites, JoernDies, Locked
  <1>3. CASE Crash
    BY <1>3 DEF Crash, Locked, IdInv, Registered, OneJobPerId
  <1>4. CASE UNCHANGED vars
    BY <1>4 DEF vars, Locked, IdInv, Registered, OneJobPerId
  <1>5. QED
    BY <1>1, <1>2, <1>3, <1>4 DEF Next, Quiescent

\* No two jobs with one id ever run together, in whatever order their threads
\* register, are refused, fail and discard, and across restarts.
THEOREM RegistryExclusive == Spec => []OneJobPerId
  <1>1. Init => IdInv
    BY DEF Init, IdInv, Registered, OneJobPerId, Locked
  <1>2. IdInv => OneJobPerId
    BY DEF IdInv
  <1>3. QED
    BY <1>1, <1>2, TypeCorrect, IdNext, PTL DEF Spec

-----------------------------------------------------------------------------
(***************************************************************************)
(* One job per work directory.  The registry does not decide this one: two *)
(* ids may share a path.  mkdir does, because it refuses a directory that  *)
(* is there and a holder's directory is there (WorkDirPresent).            *)
(***************************************************************************)
DirInv == WorkDirPresent /\ WorkDirExclusive

\* A step that makes nobody a holder and leaves the directories alone.
LEMMA DirFrame ==
  ASSUME DirInv, kind' = kind, job' = job, tree' = tree,
         \A s \in Requests : Holding(s)' => Holding(s)
  PROVE  DirInv'
  BY DEF DirInv, WorkDirPresent, WorkDirExclusive, Dir, EngineOf, Made

\* Holders of one path use one entry, so that they made it alike.
LEMMA SameMade ==
  ASSUME EnginesApart, TypeOK, NEW r \in Requests, NEW s \in Requests,
         Dir(r) = Dir(s)
  PROVE  Made(r) = Made(s) /\ (kind[r] = "repo" <=> kind[s] = "repo")
  BY DEF EnginesApart, TypeOK, Dir, EngineOf, Made

LEMMA DirStep ==
  ASSUME EnginesApart, TypeOK, DirInv, NEW r \in Requests, Step(r)
  PROVE  DirInv'
  <1>0. /\ pc \in [Requests -> PCs]
        /\ tree \in [Dirs -> {"absent", "root", "repo"}]
        /\ \A s \in Requests : Dir(s) \in Dirs
    BY DirType DEF TypeOK
  <1>1. CASE MakeDir(r)
    <2>1. CASE CanMake(r) /\ tree' = [tree EXCEPT ![Dir(r)] = Made(r)] /\ pc' = [pc EXCEPT ![r] = "setup"]
      <3>1. /\ kind' = kind /\ job' = job
            /\ \A s \in Requests : Holding(s)' => Holding(s) \/ s = r
        BY <1>0, <1>1, <2>1 DEF MakeDir, Holding
      <3>2. \A s \in Requests : Dir(s)' = Dir(s) /\ Made(s)' = Made(s)
        BY <3>1 DEF Dir, EngineOf, Made
      <3>3. \A s \in Requests : Holding(s) => Dir(s) # Dir(r)
        <4> SUFFICES ASSUME NEW s \in Requests, Holding(s), Dir(s) = Dir(r)
                     PROVE  FALSE
          OBVIOUS
        <4>1. tree[Dir(r)] = Made(r)
          BY SameMade DEF DirInv, WorkDirPresent
        <4>2. QED BY <2>1, <4>1 DEF CanMake, Made
      <3>4. WorkDirExclusive'
        BY <3>1, <3>2, <3>3 DEF DirInv, WorkDirExclusive
      <3>5. WorkDirPresent'
        BY <1>0, <2>1, <3>1, <3>2, <3>3 DEF DirInv, WorkDirPresent
      <3>6. QED BY <3>4, <3>5 DEF DirInv
    <2>2. CASE Leave(r, "exists") /\ tree' = tree
      <3>1. \A s \in Requests : Holding(s)' => Holding(s)
        BY <1>0, <2>2 DEF Leave, After, Holding
      <3>2. QED BY <1>1, <2>2, <3>1, DirFrame DEF MakeDir
    <2>3. ASSUME NEW made \in HalfMade(r), Leave(r, "nodir"),
                 tree' = [tree EXCEPT ![Dir(r)] = made]
          PROVE  DirInv'
      <3>1. /\ kind' = kind /\ job' = job
            /\ \A s \in Requests : Holding(s)' => Holding(s)
        BY <1>0, <1>1, <2>3 DEF MakeDir, Leave, After, Holding
      <3>2. CASE made = tree[Dir(r)]
        <4>1. tree' = tree
          BY <1>0, <2>3, <3>2
        <4>2. QED BY <3>1, <4>1, DirFrame
      <3>3. CASE tree[Dir(r)] = "absent"
        <4>1. \A s \in Requests : Holding(s) => Dir(s) # Dir(r)
          BY <3>3 DEF DirInv, WorkDirPresent, Made
        <4>2. \A s \in Requests : Dir(s)' = Dir(s) /\ Made(s)' = Made(s)
          BY <3>1 DEF Dir, EngineOf, Made
        <4>3. QED
          BY <1>0, <2>3, <3>1, <4>1, <4>2 DEF DirInv, WorkDirPresent, WorkDirExclusive
      <3>4. QED BY <3>2, <3>3 DEF HalfMade
    <2>4. QED BY <1>1, <2>1, <2>2, <2>3 DEF MakeDir
  <1>2. CASE Cleanup(r)
    <2>1. /\ kind' = kind /\ job' = job
          /\ \A d \in Dirs : d # Dir(r) => tree'[d] = tree[d]
          /\ Holding(r)
          /\ \A s \in Requests : Holding(s)' => Holding(s) /\ s # r
      BY <1>0, <1>2 DEF Cleanup, Holding
    <2>2. \A s \in Requests : Dir(s)' = Dir(s) /\ Made(s)' = Made(s)
      BY <2>1 DEF Dir, EngineOf, Made
    <2>3. WorkDirExclusive'
      BY <2>1, <2>2 DEF DirInv, WorkDirExclusive
    <2>4. WorkDirPresent'
      BY <1>0, <2>1, <2>2 DEF DirInv, WorkDirPresent, WorkDirExclusive
    <2>5. QED BY <2>3, <2>4 DEF DirInv
  <1>3. CASE \/ Arrive(r) \/ Accept(r) \/ Refuse(r) \/ Publish(r)
             \/ Register(r) \/ Unregister(r) \/ CheckDir(r)
    <2>1. \A s \in Requests : Holding(s)' => Holding(s)
      BY <1>0, <1>3 DEF Arrive, Accept, Refuse, Publish, Register, Unregister,
                        CheckDir, Leave, After, Holding
    <2>2. QED
      BY <1>3, <2>1, DirFrame
      DEF Arrive, Accept, Refuse, Publish, Register, Unregister, CheckDir
  <1>4. CASE \/ SetupFails(r) \/ Launch(r) \/ RepoTimeout(r) \/ Collect(r)
             \/ ChunkTimeout(r) \/ Drained(r)
    <2>1. \A s \in Requests : Holding(s)' => Holding(s)
      BY <1>0, <1>4 DEF SetupFails, Launch, RepoTimeout, Collect, ChunkTimeout,
                        Drained, NextChunk, Holding
    <2>2. QED
      BY <1>4, <2>1, DirFrame
      DEF SetupFails, Launch, RepoTimeout, Collect, ChunkTimeout, Drained
  <1>5. QED
    BY <1>1, <1>2, <1>3, <1>4 DEF Step

LEMMA DirNext ==
  ASSUME EnginesApart
  PROVE  TypeOK /\ DirInv /\ [Next]_vars => DirInv'
  <1> SUFFICES ASSUME TypeOK, DirInv, [Next]_vars PROVE DirInv'
    OBVIOUS
  <1>1. ASSUME NEW r \in Requests, Step(r) PROVE DirInv'
    BY <1>1, DirStep
  <1>2. ASSUME NEW e \in engines, JoernWrites(e) \/ JoernDies(e) PROVE DirInv'
    BY <1>2, DirFrame DEF JoernWrites, JoernDies, Holding
  <1>3. CASE Crash
    BY <1>3 DEF Crash, Holding, DirInv, WorkDirPresent, WorkDirExclusive
  <1>4. CASE UNCHANGED vars
    BY <1>4, DirFrame DEF vars, Holding
  <1>5. QED
    BY <1>1, <1>2, <1>3, <1>4 DEF Next, Quiescent

LEMMA DirAlways ==
  ASSUME EnginesApart
  PROVE  Spec => []DirInv
  <1>1. Init => DirInv
    BY DEF Init, DirInv, WorkDirPresent, WorkDirExclusive, Holding
  <1>2. TypeOK /\ DirInv /\ [Next]_vars => DirInv'
    BY DirNext
  <1>3. QED
    BY <1>1, <1>2, TypeCorrect, PTL DEF Spec

\* Where no id makes the two engines' paths meet, a running job has its work
\* directory to itself until its own clean-up.
THEOREM WorkDirsApart ==
  ASSUME EnginesApart
  PROVE  Spec => []WorkDirExclusive
  <1>1. DirInv => WorkDirExclusive
    BY DEF DirInv
  <1>2. QED BY <1>1, DirAlways, PTL

\* The directory of a running job stays as the job made it: what others refuse,
\* make or clean up, even after a time-out, is never it.
THEOREM OwnDirStays ==
  ASSUME EnginesApart
  PROVE  Spec => []WorkDirPresent
  <1>1. DirInv => WorkDirPresent
    BY DEF DirInv
  <1>2. QED BY <1>1, DirAlways, PTL

-----------------------------------------------------------------------------
(***************************************************************************)
(* The Joern of a repo request, where killing a container is certain to    *)
(* remove it.  It runs only while its request waits for it, or after a     *)
(* restart of the worker cut the request off.                              *)
(***************************************************************************)
ContainersRemoved == Launcher = "docker" /\ RemovalFails = FALSE

LostAtEnd == \A r \in Requests : outcome[r] = "lost" => pc[r] = "end"

WaitedFor(e) == pc[e[1]] = "running" /\ e = Current(e[1])

EngineInv ==
  /\ LostAtEnd
  /\ \A e \in engines : kind[e[1]] = "repo" => WaitedFor(e) \/ outcome[e[1]] = "lost"

LEMMA LostStep ==
  ASSUME TypeOK, LostAtEnd, NEW r \in Requests, Step(r)
  PROVE  /\ LostAtEnd'
         /\ outcome[r] # "lost" \/ pc[r] = "end"
         /\ \A s \in Requests : outcome'[s] = "lost" <=> outcome[s] = "lost"
         /\ \A s \in Requests : s # r => pc'[s] = pc[s]
  <1> USE DEF TypeOK, LostAtEnd
  <1>1. CASE \/ Arrive(r) \/ Accept(r) \/ Refuse(r) \/ Register(r) \/ CheckDir(r)
             \/ MakeDir(r) \/ SetupFails(r) \/ Launch(r)
    BY <1>1 DEF Arrive, Accept, Refuse, Register, CheckDir, MakeDir, SetupFails, Launch,
                Leave, After
  <1>2. CASE \/ Collect(r) \/ RepoTimeout(r) \/ ChunkTimeout(r) \/ Drained(r)
    BY <1>2 DEF Collect, RepoTimeout, ChunkTimeout, Drained, NextChunk, Parsed
  <1>3. CASE \/ Cleanup(r) \/ Unregister(r) \/ Publish(r)
    BY <1>3 DEF Cleanup, Unregister, Publish, After
  <1>4. QED BY <1>1, <1>2, <1>3 DEF Step

\* Only a restart loses a request.
NothingLost == crashes = 0 => \A r \in Requests : outcome[r] # "lost"

LEMMA NothingLostAlways == Spec => []NothingLost
  <1> DEFINE LostInv == LostAtEnd /\ NothingLost
  <1>1. Init => LostInv
    BY DEF Init, LostAtEnd, NothingLost
  <1>2. TypeOK /\ LostInv /\ [Next]_vars => LostInv'
    <2> SUFFICES ASSUME TypeOK, LostInv, [Next]_vars PROVE LostInv'
      OBVIOUS
    <2>1. ASSUME NEW r \in Requests, Step(r) PROVE LostInv'
      <3>1. crashes' = crashes
        BY <2>1 DEF Step, Arrive, Accept, Refuse, Register, CheckDir, MakeDir, SetupFails,
                    Launch, Collect, RepoTimeout, ChunkTimeout, Drained, Cleanup, Unregister,
                    Publish
      <3>2. QED BY <2>1, <3>1, LostStep DEF NothingLost
    <2>2. ASSUME NEW e \in engines, JoernWrites(e) \/ JoernDies(e) PROVE LostInv'
      BY <2>2 DEF JoernWrites, JoernDies, LostAtEnd, NothingLost
    <2>3. CASE Crash
      BY <2>3 DEF Crash, LostAtEnd, NothingLost, TypeOK
    <2>4. CASE UNCHANGED vars
      BY <2>4 DEF vars, LostAtEnd, NothingLost
    <2>5. QED BY <2>1, <2>2, <2>3, <2>4 DEF Next, Quiescent
  <1>3. LostInv => NothingLost
    OBVIOUS
  <1>4. QED
    <2> HIDE DEF LostInv
    <2> QED BY <1>1, <1>2, <1>3, TypeCorrect, PTL DEF Spec

LEMMA EngineStep ==
  ASSUME ContainersRemoved, TypeOK, EngineInv, NEW r \in Requests, Step(r)
  PROVE  EngineInv'
  <1>0. /\ LostAtEnd'
        /\ \A s \in Requests : outcome'[s] = "lost" <=> outcome[s] = "lost"
        /\ \A s \in Requests : s # r => pc'[s] = pc[s]
    BY LostStep DEF EngineInv
  <1>1. kind' = kind /\ \A s \in Requests : s # r => chunk'[s] = chunk[s]
    BY DEF Step, Arrive, Accept, Refuse, Register, CheckDir, MakeDir, SetupFails, Launch,
           Collect, RepoTimeout, ChunkTimeout, Drained, NextChunk, Cleanup, Unregister,
           Publish, Leave, TypeOK
  <1>2. engines' \subseteq engines \/ Launch(r)
    BY DEF Step, Arrive, Accept, Refuse, Register, CheckDir, MakeDir, SetupFails,
           Collect, RepoTimeout, ChunkTimeout, Drained, Cleanup, Unregister, Publish
  <1>3. ASSUME NEW e \in engines', kind[e[1]] = "repo", outcome[e[1]] # "lost"
        PROVE  WaitedFor(e)'
    <2>1. CASE e \in engines
      <3>1. e \in Requests \X Chunks /\ WaitedFor(e)
        BY <1>3, <2>1 DEF EngineInv, TypeOK
      <3>2. CASE e[1] # r
        BY <1>0, <1>1, <3>1, <3>2 DEF WaitedFor, Current
      <3>3. CASE e[1] = r
        <4>1. /\ pc[r] = "running" /\ Current(r) \in engines /\ kind[r] = "repo"
          BY <1>3, <2>1, <3>1, <3>3 DEF WaitedFor, Current
        <4>2. RepoTimeout(r)
          BY <4>1 DEF Step, Arrive, Accept, Refuse, Register, CheckDir, MakeDir, SetupFails,
                      Launch, Collect, ChunkTimeout, Drained, Cleanup, Unregister, Publish
        <4>3. e \notin engines'
          BY <3>1, <3>3, <4>2 DEF RepoTimeout, ContainersRemoved, WaitedFor, Current
        <4>4. QED BY <1>3, <4>3
      <3>4. QED BY <3>2, <3>3
    <2>2. CASE e \notin engines
      <3>1. Launch(r) /\ e = Current(r)
        BY <1>2, <1>3, <2>2 DEF Launch
      <3>2. QED BY <3>1 DEF Launch, Current, WaitedFor, TypeOK
    <2>3. QED BY <2>1, <2>2
  <1>4. \A e \in engines' : e[1] \in Requests
    BY <1>2 DEF TypeOK, Launch, Current
  <1>5. QED BY <1>0, <1>1, <1>3, <1>4 DEF EngineInv

LEMMA EngineNext ==
  ASSUME ContainersRemoved
  PROVE  TypeOK /\ EngineInv /\ [Next]_vars => EngineInv'
  <1> SUFFICES ASSUME TypeOK, EngineInv, [Next]_vars PROVE EngineInv'
    OBVIOUS
  <1>1. ASSUME NEW r \in Requests, Step(r) PROVE EngineInv'
    BY <1>1, EngineStep
  <1>2. ASSUME NEW e \in engines, JoernWrites(e) \/ JoernDies(e) PROVE EngineInv'
    BY <1>2 DEF JoernWrites, JoernDies, EngineInv, LostAtEnd, WaitedFor, Current
  <1>3. CASE Crash
    <2>1. \A r \in Requests :
            /\ outcome'[r] = "lost" => pc'[r] = "end"
            /\ pc[r] = "running" \/ outcome[r] = "lost" => outcome'[r] = "lost"
      BY <1>3 DEF Crash, EngineInv, LostAtEnd, TypeOK
    <2>2. engines' = engines /\ kind' = kind /\ \A e \in engines : e[1] \in Requests
      BY <1>3 DEF Crash, TypeOK
    <2>3. QED BY <2>1, <2>2 DEF EngineInv, LostAtEnd, WaitedFor
  <1>4. CASE UNCHANGED vars
    BY <1>4 DEF vars, EngineInv, LostAtEnd, WaitedFor, Current
  <1>5. QED
    BY <1>1, <1>2, <1>3, <1>4 DEF Next, Quiescent

LEMMA EngineAlways ==
  ASSUME ContainersRemoved
  PROVE  Spec => []EngineInv
  <1>1. Init => EngineInv
    BY DEF Init, EngineInv, LostAtEnd
  <1>2. TypeOK /\ EngineInv /\ [Next]_vars => EngineInv'
    BY EngineNext
  <1>3. QED BY <1>1, <1>2, TypeCorrect, PTL DEF Spec

\* However a repo request ends, by its result, a failure or its time limit,
\* its Joern is gone; a Joern without a request is one of a restart.
THEOREM EnginesWaitedFor ==
  ASSUME ContainersRemoved
  PROVE  Spec => []NoOrphanEngine
  <1>1. TypeOK /\ EngineInv => NoOrphanEngine
    BY DEF TypeOK, EngineInv, WaitedFor, NoOrphanEngine, Locked
  <1>2. QED BY <1>1, EngineAlways, TypeCorrect, PTL

-----------------------------------------------------------------------------
(***************************************************************************)
(* What a repo request reads.  A Joern that a restart orphaned keeps the   *)
(* directory it works in from everybody else: nobody removes it, and mkdir *)
(* refuses it.                                                             *)
(***************************************************************************)
\* Where the Joern of a lost repo request works, nobody else does.
OrphanApart ==
  \A e \in engines : kind[e[1]] = "repo" /\ outcome[e[1]] = "lost" =>
    /\ tree[Dir(e[1])] = "repo"
    /\ \A s \in Requests : Holding(s) => Dir(s) # Dir(e[1])

\* A path that is gone has no output in it.
NothingStale == \A d \in Dirs : tree[d] = "absent" => out[d] = [c \in Chunks |-> NoFile]

\* A root without its repo directory, which a mkdir that failed half-way leaves
\* behind, has no output in it.
BareRootEmpty ==
  \A r \in Requests : kind[r] = "repo" /\ tree[Dir(r)] = "root" =>
    out[Dir(r)] = [c \in Chunks |-> NoFile]

Theirs(r) == {r, NoFile, BadFile}

OwnOutput ==
  \A r \in Requests : kind[r] = "repo" /\ Holding(r) =>
    \A c \in Chunks : out[Dir(r)][c] \in Theirs(r)

OutInv == OrphanApart /\ NothingStale /\ BareRootEmpty /\ OwnOutput /\ OwnResult

\* A step that leaves the directories alone, makes nobody a holder and orphans
\* no Joern.
LEMMA OutFrame ==
  ASSUME OutInv, kind' = kind, job' = job, tree' = tree, out' = out, used' = used,
         engines' \subseteq engines,
         \A e \in engines : e[1] \in Requests,
         \A s \in Requests : Holding(s)' => Holding(s),
         \A s \in Requests : outcome'[s] = "lost" => outcome[s] = "lost"
  PROVE  OutInv'
  BY DEF OutInv, OrphanApart, NothingStale, BareRootEmpty, OwnOutput, OwnResult, Dir, EngineOf,
         Theirs

\* The Joern at work in the directory of a running repo request is its own.
LEMMA WriterIsOwn ==
  ASSUME EnginesApart, TypeOK, EngineInv, DirInv, OrphanApart,
         NEW r \in Requests, Holding(r), NEW e \in engines, Dir(e[1]) = Dir(r),
         kind[r] = "repo" \/ kind[e[1]] = "repo"
  PROVE  e[1] = r /\ e = Current(r) /\ pc[r] = "running"
  <1>1. e[1] \in Requests
    BY DEF TypeOK
  <1>2. kind[e[1]] = "repo" /\ kind[r] = "repo"
    BY <1>1, SameMade
  <1>3. outcome[e[1]] # "lost"
    BY <1>2 DEF OrphanApart
  <1>4. WaitedFor(e)
    BY <1>2, <1>3 DEF EngineInv
  <1>5. Holding(e[1])
    BY <1>4 DEF WaitedFor, Holding
  <1>6. e[1] = r
    BY <1>1, <1>5 DEF DirInv, WorkDirExclusive
  <1>7. QED BY <1>4, <1>6 DEF WaitedFor

LEMMA RepoEngineHasDir ==
  ASSUME TypeOK, DirInv, EngineInv, OutInv, NEW e \in engines, kind[e[1]] = "repo"
  PROVE  tree[Dir(e[1])] = "repo"
  <1>1. e[1] \in Requests
    BY DEF TypeOK
  <1>2. CASE outcome[e[1]] = "lost"
    BY <1>2 DEF OutInv, OrphanApart
  <1>3. CASE WaitedFor(e)
    BY <1>1, <1>3 DEF WaitedFor, Holding, DirInv, WorkDirPresent, Made
  <1>4. QED BY <1>2, <1>3 DEF EngineInv

\* MakeDir without a directory in the end.
NoDirectory(r) ==
  /\ pc[r] = "checked"
  /\ \/ tree' = tree
     \/ tree[Dir(r)] = "absent" /\ tree' = [tree EXCEPT ![Dir(r)] = "root"] /\ kind[r] = "repo"
  /\ \E what \in {"exists", "nodir"} : Leave(r, what)
  /\ UNCHANGED <<kind, job, chunk, used, active, out, engines, store, crashes>>

LEMMA MakesOrNot ==
  ASSUME TypeOK, NEW r \in Requests, MakeDir(r)
  PROVE  (CanMake(r) /\ tree' = [tree EXCEPT ![Dir(r)] = Made(r)] /\ outcome' = outcome
            /\ pc' = [pc EXCEPT ![r] = "setup"])
         \/ NoDirectory(r)
  <1>1. CASE \E made \in HalfMade(r) :
               tree' = [tree EXCEPT ![Dir(r)] = made] /\ Leave(r, "nodir")
    <2>1. PICK made \in HalfMade(r) :
            tree' = [tree EXCEPT ![Dir(r)] = made] /\ Leave(r, "nodir")
      BY <1>1
    <2>2. CASE made = tree[Dir(r)]
      BY <2>1, <2>2 DEF TypeOK, MakeDir, NoDirectory
    <2>3. CASE made # tree[Dir(r)]
      BY <2>1, <2>3 DEF HalfMade, MakeDir, NoDirectory
    <2>4. QED BY <2>2, <2>3
  <1>2. CASE ~CanMake(r) /\ Leave(r, "exists") /\ UNCHANGED tree
    BY <1>2 DEF MakeDir, NoDirectory
  <1>3. QED BY <1>1, <1>2 DEF MakeDir

LEMMA OutStep ==
  ASSUME EnginesApart, ContainersRemoved, TypeOK, DirInv, EngineInv, OutInv,
         NEW r \in Requests, Step(r)
  PROVE  OutInv'
  <1>0. /\ pc \in [Requests -> PCs]
        /\ tree \in [Dirs -> {"absent", "root", "repo"}]
        /\ out \in [Dirs -> [Chunks -> Contents]]
        /\ \A s \in Requests : Dir(s) \in Dirs
        /\ \A e \in engines : e[1] \in Requests
    BY DirType DEF TypeOK
  <1>a. /\ outcome[r] # "lost" \/ pc[r] = "end"
        /\ \A s \in Requests : outcome'[s] = "lost" <=> outcome[s] = "lost"
    BY LostStep DEF EngineInv
  <1>1. CASE /\ MakeDir(r) /\ CanMake(r) /\ tree' = [tree EXCEPT ![Dir(r)] = Made(r)]
             /\ outcome' = outcome /\ pc' = [pc EXCEPT ![r] = "setup"]
    <2>1. /\ tree' = [tree EXCEPT ![Dir(r)] = Made(r)]
          /\ kind' = kind /\ job' = job /\ out' = out /\ used' = used /\ engines' = engines
          /\ \A s \in Requests : Holding(s)' => Holding(s) \/ s = r
      BY <1>0, <1>1 DEF MakeDir, Holding
    <2>2. \A s \in Requests : Dir(s)' = Dir(s)
      BY <2>1 DEF Dir, EngineOf
    <2>3. kind[r] = "repo" => out[Dir(r)] = [c \in Chunks |-> NoFile]
      BY <1>0, <1>1 DEF CanMake, OutInv, BareRootEmpty, NothingStale
    <2>4. tree[Dir(r)] # "repo"
      BY <1>1 DEF CanMake
    <2>5. OrphanApart'
      BY <1>0, <1>a, <2>1, <2>2, <2>4 DEF OutInv, OrphanApart
    <2>6. NothingStale'
      BY <1>0, <2>1 DEF OutInv, NothingStale, Made
    <2>7. BareRootEmpty'
      BY <1>0, <2>1, <2>2, SameMade DEF OutInv, BareRootEmpty, Made
    <2>8. OwnOutput'
      BY <1>0, <2>1, <2>2, <2>3 DEF OutInv, OwnOutput, NothingStale, Theirs
    <2>9. QED BY <2>1, <2>5, <2>6, <2>7, <2>8 DEF OutInv, OwnResult
  <1>2. CASE Cleanup(r)
    <2>1. /\ kind' = kind /\ job' = job /\ used' = used /\ engines' = engines
          /\ \A d \in Dirs : d # Dir(r) => tree'[d] = tree[d] /\ out'[d] = out[d]
          /\ Holding(r) /\ pc[r] = "cleanup"
          /\ \A s \in Requests : Holding(s)' => Holding(s) /\ s # r
      BY <1>0, <1>2 DEF Cleanup, Holding
    <2>2. \A s \in Requests : Dir(s)' = Dir(s)
      BY <2>1 DEF Dir, EngineOf
    <2>3. kind[r] = "repo" => ~HasWriter(Dir(r))
      BY <2>1, WriterIsOwn DEF HasWriter, OutInv
    <2>4. OrphanApart'
      BY <1>0, <1>a, <2>1, <2>2 DEF OutInv, OrphanApart
    <2>5. NothingStale'
      BY <1>0, <1>2, <2>1 DEF Cleanup, OutInv, NothingStale
    <2>6. BareRootEmpty'
      <3>1. kind[r] = "repo" => tree'[Dir(r)] = "absent"
        BY <1>0, <1>2, <2>3 DEF Cleanup
      <3>2. QED BY <1>0, <2>1, <2>2, <3>1, SameMade DEF OutInv, BareRootEmpty
    <2>7. OwnOutput'
      BY <1>0, <2>1, <2>2 DEF OutInv, OwnOutput, DirInv, WorkDirExclusive, Theirs
    <2>8. QED BY <2>1, <2>4, <2>5, <2>6, <2>7 DEF OutInv, OwnResult
  <1>3. CASE Launch(r)
    <2>1. /\ kind' = kind /\ job' = job /\ used' = used /\ tree' = tree /\ out' = out
          /\ engines' = engines \cup {Current(r)} /\ Current(r)[1] = r
          /\ \A s \in Requests : Holding(s)' => Holding(s)
          /\ outcome[r] # "lost"
      BY <1>0, <1>3, <1>a DEF Launch, Holding, Current
    <2>2. OrphanApart'
      BY <1>0, <1>a, <2>1 DEF OutInv, OrphanApart, Dir, EngineOf
    <2>3. QED
      BY <2>1, <2>2
      DEF OutInv, NothingStale, BareRootEmpty, OwnOutput, OwnResult, Dir, EngineOf, Theirs
  <1>4. CASE Collect(r)
    <2>1. /\ kind' = kind /\ job' = job /\ tree' = tree /\ out' = out /\ engines' = engines
          /\ \A s \in Requests : Holding(s)' => Holding(s)
          /\ used' = [used EXCEPT ![r] = @ \cup ({out[Dir(r)][chunk[r]]} \cap Requests)]
      BY <1>0, <1>4 DEF Collect, NextChunk, Holding
    <2>2. kind[r] = "repo" => out[Dir(r)][chunk[r]] \in Theirs(r)
      BY <1>4 DEF Collect, Holding, OutInv, OwnOutput, TypeOK
    <2>3. OwnResult'
      BY <2>1, <2>2, WorkerAssumption DEF OutInv, OwnResult, TypeOK, Theirs
    <2>4. QED
      BY <1>0, <1>a, <2>1, <2>3
      DEF OutInv, OrphanApart, NothingStale, BareRootEmpty, OwnOutput, Dir, EngineOf, Theirs
  <1>5. CASE \/ Arrive(r) \/ Accept(r) \/ Refuse(r) \/ Publish(r) \/ Register(r)
             \/ Unregister(r) \/ CheckDir(r)
    <2>1. \A s \in Requests : Holding(s)' => Holding(s)
      BY <1>0, <1>5 DEF Arrive, Accept, Refuse, Publish, Register, Unregister, CheckDir,
                        Leave, After, Holding
    <2>2. /\ kind' = kind /\ job' = job /\ tree' = tree /\ out' = out /\ used' = used
          /\ engines' = engines
      BY <1>5 DEF Arrive, Accept, Refuse, Publish, Register, Unregister, CheckDir
    <2>3. QED BY <1>0, <1>a, <2>1, <2>2, OutFrame
  <1>6. CASE \/ SetupFails(r) \/ RepoTimeout(r) \/ ChunkTimeout(r) \/ Drained(r)
    <2>1. \A s \in Requests : Holding(s)' => Holding(s)
      BY <1>0, <1>6 DEF SetupFails, RepoTimeout, ChunkTimeout, Drained, NextChunk, Holding
    <2>2. /\ kind' = kind /\ job' = job /\ tree' = tree /\ out' = out /\ used' = used
          /\ engines' \subseteq engines
      BY <1>6 DEF SetupFails, RepoTimeout, ChunkTimeout, Drained
    <2>3. QED BY <1>0, <1>a, <2>1, <2>2, OutFrame
  <1>7. CASE NoDirectory(r)
    <2>1. /\ kind' = kind /\ job' = job /\ out' = out /\ used' = used /\ engines' = engines
          /\ \A s \in Requests : Holding(s)' => Holding(s)
      BY <1>0, <1>7 DEF NoDirectory, Leave, After, Holding
    <2>2. CASE tree' = tree
      BY <1>0, <1>a, <2>1, <2>2, OutFrame
    <2>3. CASE tree' = [tree EXCEPT ![Dir(r)] = "root"] /\ tree[Dir(r)] = "absent"
      <3>1. \A s \in Requests : Dir(s)' = Dir(s)
        BY <2>1 DEF Dir, EngineOf
      <3>2. OrphanApart'
        BY <1>0, <1>a, <2>1, <2>3, <3>1 DEF OutInv, OrphanApart
      <3>3. NothingStale'
        BY <1>0, <2>1, <2>3 DEF OutInv, NothingStale
      <3>4. BareRootEmpty'
        BY <1>0, <2>1, <2>3, <3>1 DEF OutInv, BareRootEmpty, NothingStale
      <3>5. OwnOutput'
        BY <2>1, <3>1 DEF OutInv, OwnOutput, Theirs
      <3>6. QED BY <2>1, <3>2, <3>3, <3>4, <3>5 DEF OutInv, OwnResult
    <2>4. QED BY <1>7, <2>2, <2>3 DEF NoDirectory
  <1>8. QED
    BY <1>1, <1>2, <1>3, <1>4, <1>5, <1>6, <1>7, MakesOrNot DEF Step

LEMMA OutNext ==
  ASSUME EnginesApart, ContainersRemoved
  PROVE  TypeOK /\ DirInv /\ EngineInv /\ OutInv /\ [Next]_vars => OutInv'
  <1> SUFFICES ASSUME TypeOK, DirInv, EngineInv, OutInv, [Next]_vars PROVE OutInv'
    OBVIOUS
  <1>0. /\ \A s \in Requests : Dir(s) \in Dirs
        /\ \A e \in engines : e \in Requests \X Chunks
    BY DirType DEF TypeOK
  <1>1. ASSUME NEW r \in Requests, Step(r) PROVE OutInv'
    BY <1>1, OutStep
  <1>2. ASSUME NEW e \in engines, JoernWrites(e) \/ JoernDies(e) PROVE OutInv'
    <2>1. CASE out' = out
      BY <1>0, <1>2, <2>1, OutFrame DEF JoernWrites, JoernDies, Holding
    <2>2. CASE out' # out
      <3>1. PICK what \in {e[1], BadFile} :
              /\ out' = [out EXCEPT ![Dir(e[1])][e[2]] = what]
              /\ tree[Dir(e[1])] # "absent"
        BY <1>2, <2>2 DEF JoernWrites, JoernDies
      <3>2. /\ kind' = kind /\ job' = job /\ tree' = tree /\ used' = used /\ pc' = pc
            /\ outcome' = outcome /\ engines' = engines \ {e}
        BY <1>2 DEF JoernWrites, JoernDies
      <3>3. \A s \in Requests : Dir(s)' = Dir(s) /\ (Holding(s)' <=> Holding(s))
        BY <3>2 DEF Dir, EngineOf, Holding
      <3>4. OrphanApart' /\ OwnResult'
        BY <1>0, <3>2, <3>3 DEF OutInv, OrphanApart, OwnResult
      <3>a. kind[e[1]] = "repo" => tree[Dir(e[1])] = "repo"
        BY RepoEngineHasDir
      <3>b. BareRootEmpty'
        BY <1>0, <3>1, <3>2, <3>3, <3>a, SameMade DEF OutInv, BareRootEmpty
      <3>5. NothingStale'
        BY <1>0, <3>1, <3>2 DEF OutInv, NothingStale, TypeOK
      <3>6. ASSUME NEW r \in Requests, kind[r] = "repo", Holding(r), NEW c \in Chunks
            PROVE  out'[Dir(r)][c] \in Theirs(r)
        <4>1. out[Dir(r)][c] \in Theirs(r)
          BY <3>6 DEF OutInv, OwnOutput
        <4>2. Dir(r) = Dir(e[1]) => e[1] = r
          BY <3>6, WriterIsOwn DEF OutInv
        <4>3. out'[Dir(r)][c] = out[Dir(r)][c] \/ (Dir(r) = Dir(e[1]) /\ out'[Dir(r)][c] = what)
          BY <1>0, <3>1 DEF TypeOK
        <4>4. QED BY <3>1, <4>1, <4>2, <4>3 DEF Theirs
      <3>7. OwnOutput'
        BY <3>2, <3>3, <3>6 DEF OwnOutput, Theirs
      <3>8. QED BY <3>4, <3>b, <3>5, <3>7 DEF OutInv
    <2>3. QED BY <2>1, <2>2
  <1>3. CASE Crash
    <2>1. /\ kind' = kind /\ job' = job /\ tree' = tree /\ out' = out /\ used' = used
          /\ engines' = engines
          /\ \A s \in Requests : ~Holding(s)'
      BY <1>3 DEF Crash, Holding
    <2>2. \A s \in Requests : Dir(s)' = Dir(s)
      BY <2>1 DEF Dir, EngineOf
    <2>3. \A e \in engines : kind[e[1]] = "repo" => tree[Dir(e[1])] = "repo"
      BY RepoEngineHasDir
    <2>4. OrphanApart'
      BY <1>0, <2>1, <2>2, <2>3 DEF OrphanApart
    <2>5. QED
      BY <2>1, <2>2, <2>4 DEF OutInv, NothingStale, BareRootEmpty, OwnOutput, OwnResult
  <1>4. CASE UNCHANGED vars
    BY <1>0, <1>4, OutFrame DEF vars, Holding
  <1>5. QED
    BY <1>1, <1>2, <1>3, <1>4 DEF Next, Quiescent

LEMMA OutInit == Init => OutInv
  <1> SUFFICES ASSUME Init PROVE OutInv
    OBVIOUS
  <1>1. \A r \in Requests : Dir(r) \in Dirs
    BY WorkerAssumption DEF Init, Dir, EngineOf
  <1>2. QED
    BY <1>1 DEF Init, OutInv, OrphanApart, NothingStale, BareRootEmpty, OwnOutput, OwnResult,
                Holding

LEMMA OutAlways ==
  ASSUME EnginesApart, ContainersRemoved
  PROVE  Spec => []OutInv
  <1>1. TypeOK /\ DirInv /\ EngineInv /\ OutInv /\ [Next]_vars => OutInv'
    BY OutNext
  <1>2. QED BY <1>1, OutInit, TypeCorrect, DirAlways, EngineAlways, PTL DEF Spec

\* Also after time-outs and restarts, and although jobs that are gone may have
\* used its path, a repo request reads what its own Joern wrote or nothing.
THEOREM OwnResultOnly ==
  ASSUME EnginesApart, ContainersRemoved
  PROVE  Spec => []OwnResult
  <1>1. OutInv => OwnResult
    BY DEF OutInv
  <1>2. QED BY <1>1, OutAlways, PTL

-----------------------------------------------------------------------------
(***************************************************************************)
(* What the registry holds.  An id stays behind when CheckDir or MakeDir   *)
(* turns its job away; nothing the job does later undoes that it was.      *)
(***************************************************************************)
\* A job that was turned away has nothing left to do but to say so.
TurnedAtEnd ==
  \A r \in Requests : outcome[r] \in {"exists", "nodir"} => pc[r] \in {"publish", "end"}

RegInv == TurnedAtEnd /\ RegistryExact

\* A step that adds nothing to the registry, ends no job that was let in and
\* forgets nobody who was turned away.
LEMMA RegFrame ==
  ASSUME RegInv, job' = job, active' \subseteq active,
         \A s \in Requests : Locked(s) => Locked(s)',
         \A s \in Requests : outcome[s] \in {"exists", "nodir"} => outcome'[s] = outcome[s]
  PROVE  RegistryExact'
  BY DEF RegInv, RegistryExact, TurnedAway

LEMMA RegStep ==
  ASSUME TypeOK, IdInv, RegInv, NEW r \in Requests, Step(r)
  PROVE  RegInv'
  <1>0. /\ pc \in [Requests -> PCs]
        /\ outcome \in [Requests -> Outcomes]
        /\ job \in [Requests -> JobIds]
        /\ active \subseteq JobIds
    BY DEF TypeOK
  <1>1. CASE Register(r)
    <2>1. TurnedAtEnd'
      BY <1>0, <1>1 DEF Register, Leave, After, RegInv, TurnedAtEnd
    <2>2. \A s \in Requests : Locked(s) => Locked(s)'
      BY <1>0, <1>1 DEF Register, Leave, Locked
    <2>3. \A s \in Requests : outcome[s] \in {"exists", "nodir"} => outcome'[s] = outcome[s]
      BY <1>0, <1>1 DEF Register, Leave, RegInv, TurnedAtEnd
    <2>4. job[r] \notin active => active' = active \cup {job[r]} /\ Locked(r)'
      BY <1>0, <1>1 DEF Register, Locked
    <2>5. RegistryExact'
      BY <1>1, <2>2, <2>3, <2>4 DEF Register, RegInv, RegistryExact, TurnedAway
    <2>6. QED BY <2>1, <2>5 DEF RegInv
  <1>2. CASE CheckDir(r) \/ MakeDir(r)
    <2>1. PICK what \in {"exists", "nodir"} :
            \/ Leave(r, what)
            \/ outcome' = outcome /\ pc' \in {[pc EXCEPT ![r] = "checked"], [pc EXCEPT ![r] = "setup"]}
      BY <1>2 DEF CheckDir, MakeDir
    <2>2. /\ job' = job /\ active' = active /\ kind' = kind
          /\ pc[r] \in {"registered", "checked"}
      BY <1>2 DEF CheckDir, MakeDir
    <2>3. TurnedAtEnd'
      BY <1>0, <2>1, <2>2 DEF Leave, After, RegInv, TurnedAtEnd
    <2>4. RegistryExact'
      <3>1. CASE Leave(r, what)
        <4>1. \A s \in Requests : s # r => (Locked(s) => Locked(s)') /\ outcome'[s] = outcome[s]
          BY <1>0, <3>1 DEF Leave, Locked
        <4>2. TurnedAway(job[r])'
          BY <1>0, <2>2, <3>1 DEF Leave, TurnedAway
        <4>3. \A i \in active : TurnedAway(i) => TurnedAway(i)'
          BY <2>2, <4>1, <4>2 DEF TurnedAway
        <4>4. QED BY <2>2, <4>1, <4>2, <4>3 DEF RegInv, RegistryExact
      <3>2. CASE outcome' = outcome /\ pc' \in {[pc EXCEPT ![r] = "checked"], [pc EXCEPT ![r] = "setup"]}
        <4>1. \A s \in Requests : Locked(s) => Locked(s)'
          BY <1>0, <3>2 DEF Locked
        <4>2. QED BY <2>2, <3>2, <4>1, RegFrame
      <3>3. QED BY <2>1, <3>1, <3>2
    <2>5. QED BY <2>3, <2>4 DEF RegInv
  <1>3. CASE Unregister(r)
    <2>1. /\ job' = job /\ outcome' = outcome /\ active' = active \ {job[r]}
          /\ \A s \in Requests : s # r /\ Locked(s) => Locked(s)'
      BY <1>0, <1>3 DEF Unregister, Locked
    <2>2. TurnedAtEnd'
      BY <1>0, <1>3 DEF Unregister, After, RegInv, TurnedAtEnd
    <2>3. QED BY <2>1, <2>2 DEF RegInv, RegistryExact, TurnedAway
  <1>4. CASE Arrive(r) \/ Accept(r) \/ Refuse(r) \/ Publish(r)
    <2>1. /\ \A s \in Requests : Locked(s) => Locked(s)'
          /\ \A s \in Requests : outcome[s] \in {"exists", "nodir"} => outcome'[s] = outcome[s]
      BY <1>0, <1>4 DEF Arrive, Accept, Refuse, Publish, Leave, Locked, RegInv, TurnedAtEnd
    <2>2. TurnedAtEnd'
      BY <1>0, <1>4 DEF Arrive, Accept, Refuse, Publish, Leave, After, RegInv, TurnedAtEnd
    <2>3. QED BY <1>4, <2>1, <2>2, RegFrame DEF Arrive, Accept, Refuse, Publish, RegInv
  <1>5. CASE \/ Cleanup(r) \/ SetupFails(r) \/ Launch(r) \/ RepoTimeout(r) \/ Collect(r)
             \/ ChunkTimeout(r) \/ Drained(r)
    <2>1. /\ pc[r] \notin {"publish", "end"} /\ job' = job /\ active' = active
          /\ \A s \in Requests : s # r => pc'[s] = pc[s] /\ outcome'[s] = outcome[s]
      BY <1>0, <1>5 DEF Cleanup, SetupFails, Launch, RepoTimeout, Collect, ChunkTimeout, Drained,
                        NextChunk
    <2>2. outcome'[r] = outcome[r] \/ outcome'[r] \notin {"exists", "nodir"}
      BY <1>0, <1>5 DEF Cleanup, SetupFails, Launch, RepoTimeout, Collect, ChunkTimeout, Drained,
                        NextChunk, Parsed
    <2>3. TurnedAtEnd'
      BY <2>1, <2>2 DEF RegInv, TurnedAtEnd
    <2>4. \A s \in Requests : Locked(s) => Locked(s)'
      BY <1>0, <1>5 DEF Cleanup, SetupFails, Launch, RepoTimeout, Collect, ChunkTimeout, Drained,
                        NextChunk, Locked
    <2>5. \A s \in Requests : outcome[s] \in {"exists", "nodir"} => outcome'[s] = outcome[s]
      BY <2>1 DEF RegInv, TurnedAtEnd
    <2>6. QED BY <2>1, <2>3, <2>4, <2>5, RegFrame DEF RegInv
  <1>6. QED
    BY <1>1, <1>2, <1>3, <1>4, <1>5 DEF Step

LEMMA RegNext == TypeOK /\ IdInv /\ RegInv /\ [Next]_vars => RegInv'
  <1> SUFFICES ASSUME TypeOK, IdInv, RegInv, [Next]_vars
               PROVE  RegInv'
    OBVIOUS
  <1>1. ASSUME NEW r \in Requests, Step(r) PROVE RegInv'
    BY <1>1, RegStep
  <1>2. ASSUME NEW e \in engines, JoernWrites(e) \/ JoernDies(e) PROVE RegInv'
    BY <1>2 DEF JoernWrites, JoernDies, RegInv, TurnedAtEnd, RegistryExact, TurnedAway, Locked
  <1>3. CASE Crash
    <2>1. active' = {} /\ TurnedAtEnd'
      BY <1>3 DEF Crash, TypeOK, RegInv, TurnedAtEnd
    <2>2. QED BY <2>1 DEF RegInv, RegistryExact
  <1>4. CASE UNCHANGED vars
    BY <1>4 DEF vars, RegInv, TurnedAtEnd, RegistryExact, TurnedAway, Locked
  <1>5. QED
    BY <1>1, <1>2, <1>3, <1>4 DEF Next, Quiescent

LEMMA IdAlways == Spec => []IdInv
  <1>1. Init => IdInv
    BY DEF Init, IdInv, Registered, OneJobPerId, Locked
  <1>2. QED BY <1>1, TypeCorrect, IdNext, PTL DEF Spec

\* A running job's id is in the registry: a clean-up or a refusal of another
\* never takes it out.
THEOREM RunningRegistered == Spec => []Registered
  <1>1. IdInv => Registered
    BY DEF IdInv
  <1>2. QED BY <1>1, IdAlways, PTL

\* An id without a running job belongs to a job that got no directory; jobs that
\* got one, refused duplicates and restarts leave none behind, whatever the ids,
\* the launcher and the order of the steps.
THEOREM RegistryIsExact == Spec => []RegistryExact
  <1>1. Init => RegInv
    BY DEF Init, RegInv, TurnedAtEnd, RegistryExact
  <1>2. RegInv => RegistryExact
    BY DEF RegInv
  <1>3. QED
    BY <1>1, <1>2, RegNext, TypeCorrect, IdAlways, PTL DEF Spec

-----------------------------------------------------------------------------
(***************************************************************************)
(* What is published.  A status in _store is RUNNING only while a thread   *)
(* is under way that will replace it, however submits of one id overlap;   *)
(* and another status is what some job with this id came to.               *)
(***************************************************************************)
StatusHeld ==
  \A i \in JobIds : store[i] = "RUNNING" =>
    \E r \in Requests : kind[r] = "submit" /\ job[r] = i /\ pc[r] \notin {"idle", "accept", "end"}

Came(i, ends) ==
  \E r \in Requests : kind[r] = "submit" /\ job[r] = i /\ pc[r] = "end" /\ outcome[r] \in ends

Failures == {"duplicate", "exists", "nodir", "failed"}

StatusReal ==
  \A i \in JobIds :
    /\ store[i] = "DONE"   => Came(i, {"done", "unsupported"})
    /\ store[i] = "FAILED" => Came(i, Failures)

\* What a submitted job has come to before it publishes that.
DecidedBy(r) ==
  /\ pc[r] \in {"accept", "publish"} => kind[r] = "submit"
  /\ kind[r] = "submit" =>
       /\ pc[r] \in {"cleanup", "unregister"} => outcome[r] \in {"done", "failed"}
       /\ pc[r] = "publish" => outcome[r] \in Failures \cup {"done", "unsupported"}

Decided == \A r \in Requests : DecidedBy(r)

StatusInv == StatusHeld /\ Decided /\ StatusReal

\* What a step of the thread of r does to its own place and to the store.
LEMMA ThreadStep ==
  ASSUME TypeOK, NEW r \in Requests, Step(r)
  PROVE  /\ kind' = kind /\ job' = job /\ pc[r] # "end"
         /\ \A s \in Requests : s # r => pc'[s] = pc[s] /\ outcome'[s] = outcome[s]
         /\ Accept(r) \/ Publish(r) \/ store' = store
  BY DEF Step, Arrive, Accept, Refuse, Register, CheckDir, MakeDir, SetupFails, Launch,
           Collect, RepoTimeout, ChunkTimeout, Drained, NextChunk, Cleanup, Unregister,
           Publish, Leave, TypeOK

LEMMA DecidedStep ==
  ASSUME TypeOK, NEW r \in Requests, DecidedBy(r), Step(r)
  PROVE  DecidedBy(r)'
  <1>1. CASE Arrive(r) \/ Accept(r) \/ Publish(r)
    BY <1>1 DEF Arrive, Accept, Publish, DecidedBy, TypeOK
  <1>2. CASE Refuse(r) \/ Register(r) \/ CheckDir(r) \/ MakeDir(r) \/ SetupFails(r)
    <2>1. \A what \in Failures \cup {"unsupported"} : Leave(r, what) => DecidedBy(r)'
      BY <1>2, ThreadStep DEF Leave, After, DecidedBy, TypeOK, Failures
    <2>2. CASE SetupFails(r)
      BY <2>2 DEF SetupFails, DecidedBy, TypeOK
    <2>3. CASE pc' = [pc EXCEPT ![r] = "registered"] \/ pc' = [pc EXCEPT ![r] = "checked"]
               \/ pc' = [pc EXCEPT ![r] = "setup"]
      BY <1>2, <2>3, ThreadStep DEF DecidedBy, TypeOK
    <2>4. \/ SetupFails(r)
          \/ pc' = [pc EXCEPT ![r] = "registered"] \/ pc' = [pc EXCEPT ![r] = "checked"]
          \/ pc' = [pc EXCEPT ![r] = "setup"]
          \/ \E what \in Failures \cup {"unsupported"} : Leave(r, what)
      <3>1. CASE Refuse(r) \/ Register(r)
        BY <3>1 DEF Refuse, Register, Failures
      <3>2. CASE CheckDir(r)
        BY <3>2 DEF CheckDir, Failures
      <3>3. CASE MakeDir(r)
        BY <3>3 DEF MakeDir, Failures
      <3>4. QED BY <1>2, <3>1, <3>2, <3>3
    <2>5. QED BY <2>1, <2>2, <2>3, <2>4
  <1>3. CASE Launch(r) \/ RepoTimeout(r) \/ Cleanup(r) \/ Unregister(r)
    BY <1>3 DEF Launch, RepoTimeout, Cleanup, Unregister, After, DecidedBy, TypeOK, Failures
  <1>4. CASE Collect(r) \/ ChunkTimeout(r) \/ Drained(r)
    BY <1>4 DEF Collect, ChunkTimeout, Drained, NextChunk, DecidedBy, TypeOK
  <1>5. QED BY <1>1, <1>2, <1>3, <1>4 DEF Step

\* A submitted job that has been accepted ends only by publishing.
LEMMA OnlyPublishEnds ==
  ASSUME TypeOK, NEW r \in Requests, Step(r), kind[r] = "submit",
         pc[r] \notin {"idle", "accept", "end"}, ~Publish(r)
  PROVE  pc'[r] \notin {"idle", "accept", "end"}
  <1>1. CASE Refuse(r) \/ Register(r) \/ CheckDir(r) \/ MakeDir(r) \/ SetupFails(r)
    BY <1>1 DEF Refuse, Register, CheckDir, MakeDir, SetupFails, Leave, After, TypeOK
  <1>2. CASE Launch(r) \/ RepoTimeout(r) \/ Cleanup(r) \/ Unregister(r)
    BY <1>2 DEF Launch, RepoTimeout, Cleanup, Unregister, After, TypeOK
  <1>3. CASE Collect(r) \/ ChunkTimeout(r) \/ Drained(r)
    BY <1>3 DEF Collect, ChunkTimeout, Drained, NextChunk, TypeOK
  <1>4. QED BY <1>1, <1>2, <1>3 DEF Step, Arrive, Accept

LEMMA StatusStep ==
  ASSUME TypeOK, StatusInv, NEW r \in Requests, Step(r)
  PROVE  StatusInv'
  <1>1. /\ kind' = kind /\ job' = job /\ pc[r] # "end"
        /\ \A s \in Requests : s # r => pc'[s] = pc[s] /\ outcome'[s] = outcome[s]
    BY ThreadStep
  <1>2. Decided'
    <2>1. DecidedBy(r)'
      BY DecidedStep DEF StatusInv, Decided
    <2>2. QED BY <1>1, <2>1 DEF StatusInv, Decided, DecidedBy
  <1>3. \A i \in JobIds : \A ends : Came(i, ends) => Came(i, ends)'
    BY <1>1 DEF Came
  <1>4. CASE Accept(r)
    <2>1. /\ store' = [store EXCEPT ![job[r]] = "RUNNING"]
          /\ pc[r] = "accept" /\ pc'[r] = "start" /\ job[r] \in JobIds
      BY <1>4 DEF Accept, TypeOK
    <2>2. kind[r] = "submit"
      BY <2>1 DEF StatusInv, Decided, DecidedBy
    <2>3. StatusHeld'
      BY <1>1, <2>1, <2>2 DEF StatusInv, StatusHeld, TypeOK
    <2>4. StatusReal'
      BY <1>3, <2>1 DEF StatusInv, StatusReal, TypeOK
    <2>5. QED BY <1>2, <2>3, <2>4 DEF StatusInv
  <1>5. CASE Publish(r)
    <2>1. /\ pc[r] = "publish" /\ pc'[r] = "end" /\ outcome' = outcome /\ job[r] \in JobIds
          /\ store' = [store EXCEPT ![job[r]] =
                         IF outcome[r] \in {"done", "unsupported"} THEN "DONE" ELSE "FAILED"]
      BY <1>5 DEF Publish, TypeOK
    <2>2. StatusHeld'
      BY <1>1, <2>1 DEF StatusInv, StatusHeld, TypeOK
    <2>3. StatusReal'
      <3>1. kind[r] = "submit"
        BY <2>1 DEF StatusInv, Decided, DecidedBy
      <3>2. outcome[r] \in Failures \cup {"done", "unsupported"}
        BY <2>1, <3>1 DEF StatusInv, Decided, DecidedBy
      <3>3. Came(job[r], {outcome[r]})'
        BY <1>1, <2>1, <3>1 DEF Came
      <3>4. ASSUME NEW i \in JobIds
            PROVE  /\ store'[i] = "DONE"   => Came(i, {"done", "unsupported"})'
                   /\ store'[i] = "FAILED" => Came(i, Failures)'
        <4>1. CASE i = job[r]
          BY <1>1, <2>1, <3>1, <3>2, <4>1 DEF Came, TypeOK
        <4>2. CASE i # job[r]
          BY <1>3, <2>1, <4>2 DEF StatusInv, StatusReal, TypeOK
        <4>3. QED BY <4>1, <4>2
      <3>5. QED BY <3>4 DEF StatusReal
    <2>4. QED BY <1>2, <2>2, <2>3 DEF StatusInv
  <1>6. CASE ~Accept(r) /\ ~Publish(r)
    <2>1. store' = store
      BY <1>6, ThreadStep
    <2>2. StatusHeld'
      BY <1>1, <1>6, <2>1, OnlyPublishEnds DEF StatusInv, StatusHeld
    <2>3. StatusReal'
      BY <1>3, <2>1 DEF StatusInv, StatusReal
    <2>4. QED BY <1>2, <2>2, <2>3 DEF StatusInv
  <1>7. QED BY <1>4, <1>5, <1>6

LEMMA StatusAlways == Spec => []StatusInv
  <1>1. Init => StatusInv
    BY DEF Init, StatusInv, StatusHeld, Decided, DecidedBy, StatusReal
  <1>2. TypeOK /\ StatusInv /\ [Next]_vars => StatusInv'
    <2> SUFFICES ASSUME TypeOK, StatusInv, [Next]_vars PROVE StatusInv'
      OBVIOUS
    <2>1. ASSUME NEW r \in Requests, Step(r) PROVE StatusInv'
      BY <2>1, StatusStep
    <2>2. CASE UNCHANGED <<kind, job, pc, outcome, store>>
      BY <2>2 DEF StatusInv, StatusHeld, Decided, DecidedBy, StatusReal, Came
    <2>3. CASE Crash
      BY <2>3 DEF Crash, StatusInv, StatusHeld, Decided, DecidedBy, StatusReal, TypeOK
    <2>4. QED BY <2>1, <2>2, <2>3 DEF Next, JoernWrites, JoernDies, Quiescent, vars
  <1>3. QED BY <1>1, <1>2, TypeCorrect, PTL DEF Spec

\* A job that is RUNNING for those who poll it has a thread that will replace
\* the status, also when two submits of its id have written the same entry and
\* when the worker was restarted.
THEOREM RunningHasThread == Spec => []StatusHeld
  <1>1. StatusInv => StatusHeld
    BY DEF StatusInv
  <1>2. QED BY <1>1, StatusAlways, PTL

\* A status of DONE or FAILED is what a submitted job of this id really ended
\* with: none is published before the end, or for a job that was cut off.
THEOREM StatusIsReal == Spec => []StatusReal
  <1>1. StatusInv => StatusReal
    BY DEF StatusInv
  <1>2. QED BY <1>1, StatusAlways, PTL

-----------------------------------------------------------------------------
(***************************************************************************)
(* A request has so many steps left, whatever it meets: one for each place *)
(* it still can be at, and three for each further chunk.                   *)
(***************************************************************************)
Place(p) ==
  CASE p = "idle"       -> 11
    [] p = "accept"     -> 10
    [] p = "start"      -> 9
    [] p = "registered" -> 8
    [] p = "checked"    -> 7
    [] p = "setup"      -> 6
    [] p = "running"    -> 5
    [] p = "draining"   -> 4
    [] p = "cleanup"    -> 3
    [] p = "unregister" -> 2
    [] p = "publish"    -> 1
    [] p = "end"        -> 0

StepsLeft(r) ==
  Place(pc[r]) + IF Place(pc[r]) > 3 THEN 3 * (MaxChunks - chunk[r]) ELSE 0

\* A step of any thread, of a Joern or of the worker process leaves a request
\* where it is or brings it nearer to its end.
Nearer ==
  \A r \in Requests : (pc'[r] = pc[r] /\ chunk'[r] = chunk[r]) \/ StepsLeft(r)' < StepsLeft(r)

LEMMA ThreadNearer ==
  ASSUME TypeOK, NEW r \in Requests, Step(r)
  PROVE  StepsLeft(r)' < StepsLeft(r)
  <1> USE DEF Place
  <1>1. /\ MaxChunks \in Nat \ {0} /\ chunk[r] \in Nat /\ chunk[r] >= 1 /\ chunk[r] <= MaxChunks
        /\ MaxChunks' = MaxChunks
    BY WorkerAssumption DEF TypeOK, Chunks
  <1>2. CASE chunk' = chunk /\ Place(pc'[r]) < Place(pc[r])
    <2>1. pc[r] \in PCs /\ pc'[r] \in PCs
      BY StepType DEF TypeOK
    <2>2. Place(pc[r]) \in 0 .. 11 /\ Place(pc'[r]) \in 0 .. 11
      BY <2>1 DEF PCs
    <2>3. 3 * (MaxChunks - chunk[r]) \in Nat /\ chunk'[r] = chunk[r]
      BY <1>1, <1>2
    <2>4. QED
      <3> DEFINE now == Place(pc[r])
                 after == Place(pc'[r])
                 more == 3 * (MaxChunks - chunk[r])
      <3>1. /\ StepsLeft(r) = now + IF now > 3 THEN more ELSE 0
            /\ StepsLeft(r)' = after + IF after > 3 THEN more ELSE 0
        BY <2>3 DEF StepsLeft
      <3>2. now \in 0 .. 11 /\ after \in 0 .. 11 /\ after < now /\ more \in Nat
        BY <1>2, <2>2, <2>3
      <3> HIDE DEF now, after, more
      <3>3. QED BY <3>1, <3>2
  <1>3. CASE /\ chunk' = [chunk EXCEPT ![r] = @ + 1] /\ chunk[r] < MaxChunks
             /\ pc[r] \in {"running", "draining"} /\ pc'[r] = "setup"
    <2>1. chunk'[r] = chunk[r] + 1
      BY <1>3 DEF TypeOK
    <2>2. QED BY <1>1, <1>3, <2>1 DEF StepsLeft
  <1>4. CASE Arrive(r) \/ Accept(r) \/ Publish(r)
    BY <1>2, <1>4 DEF Arrive, Accept, Publish, TypeOK
  <1>5. CASE Refuse(r) \/ Register(r) \/ CheckDir(r) \/ MakeDir(r) \/ SetupFails(r)
    BY <1>2, <1>5 DEF Refuse, Register, CheckDir, MakeDir, SetupFails, Leave, After, TypeOK
  <1>6. CASE Launch(r) \/ RepoTimeout(r) \/ Cleanup(r) \/ Unregister(r)
    BY <1>2, <1>6 DEF Launch, RepoTimeout, Cleanup, Unregister, After, TypeOK
  <1>7. CASE Collect(r) \/ ChunkTimeout(r) \/ Drained(r)
    BY <1>2, <1>3, <1>7 DEF Collect, ChunkTimeout, Drained, NextChunk, TypeOK
  <1>8. QED BY <1>4, <1>5, <1>6, <1>7 DEF Step

LEMMA StepsBounded ==
  TypeOK => \A r \in Requests :
    StepsLeft(r) \in 0 .. 3 * MaxChunks + 8 /\ (StepsLeft(r) = 0 <=> pc[r] = "end")
  <1> SUFFICES ASSUME TypeOK, NEW r \in Requests
               PROVE  StepsLeft(r) \in 0 .. 3 * MaxChunks + 8 /\ (StepsLeft(r) = 0 <=> pc[r] = "end")
    OBVIOUS
  <1>1. MaxChunks \in Nat \ {0} /\ chunk[r] \in Nat /\ chunk[r] >= 1 /\ chunk[r] <= MaxChunks
    BY WorkerAssumption DEF TypeOK, Chunks
  <1>2. Place(pc[r]) \in 0 .. 11 /\ (Place(pc[r]) = 0 <=> pc[r] = "end")
    <2>1. pc[r] \in PCs
      BY DEF TypeOK
    <2>2. pc[r] = "end" => Place(pc[r]) = 0
      BY DEF Place
    <2>3. pc[r] # "end" => Place(pc[r]) \in 1 .. 11
      BY <2>1 DEF PCs, Place
    <2>4. QED BY <2>2, <2>3
  <1> DEFINE place == Place(pc[r])
             more  == 3 * (MaxChunks - chunk[r])
  <1>3. more \in 0 .. 3 * MaxChunks - 3
    <2>1. \A m \in Nat \ {0}, c \in Nat : 1 <= c /\ c <= m => 3 * (m - c) \in 0 .. 3 * m - 3
      OBVIOUS
    <2>2. QED BY <1>1, <2>1
  <1>4. StepsLeft(r) = place + IF place > 3 THEN more ELSE 0
    BY DEF StepsLeft
  <1>5. place \in 0 .. 11 /\ (place = 0 <=> pc[r] = "end")
    BY <1>2
  <1> HIDE DEF place, more
  <1>6. QED BY <1>1, <1>3, <1>4, <1>5

\* The waits of a request have an end: it is never more than so many steps of
\* its own from its answer, and has none left exactly when it is answered.
THEOREM StepsAreBounded ==
  Spec => [](\A r \in Requests :
               StepsLeft(r) \in 0 .. 3 * MaxChunks + 8 /\ (StepsLeft(r) = 0 <=> pc[r] = "end"))
  BY StepsBounded, TypeCorrect, PTL

\* Nothing sends a request back: neither another thread, nor a Joern that
\* writes late or dies, nor a restart.  Only a step of its own moves it, and
\* each brings it nearer to its end; the safety half of RequestsEnd.
THEOREM RequestsAdvance == Spec => [][Nearer]_vars
  <1>1. ASSUME TypeOK, Next PROVE Nearer
    <2>1. ASSUME NEW r \in Requests, Step(r) PROVE Nearer
      <3>1. \A s \in Requests : s # r => pc'[s] = pc[s]
        BY <1>1, <2>1, ThreadStep
      <3>2. \A s \in Requests : s # r => chunk'[s] = chunk[s]
        BY <1>1, <2>1
        DEF Step, Arrive, Accept, Refuse, Register, CheckDir, MakeDir, SetupFails, Launch,
            Collect, RepoTimeout, ChunkTimeout, Drained, NextChunk, Cleanup, Unregister,
            Publish, Leave, TypeOK
      <3>3. StepsLeft(r)' < StepsLeft(r)
        BY <1>1, <2>1, ThreadNearer
      <3>4. QED BY <3>1, <3>2, <3>3 DEF Nearer
    <2>2. CASE UNCHANGED <<pc, chunk>>
      BY <2>2 DEF Nearer
    <2>3. CASE Crash
      <3> SUFFICES ASSUME NEW r \in Requests, pc'[r] # pc[r]
                   PROVE  StepsLeft(r)' < StepsLeft(r)
        BY <2>3 DEF Crash, Nearer
      <3>1. pc[r] # "end" /\ pc'[r] = "end"
        BY <2>3 DEF Crash
      <3>2. StepsLeft(r)' = 0
        BY <3>1 DEF StepsLeft, Place
      <3>3. StepsLeft(r) \in Nat /\ StepsLeft(r) # 0
        BY <1>1, <3>1, StepsBounded, WorkerAssumption
      <3>4. QED BY <3>2, <3>3
    <2>4. QED
      BY <1>1, <2>1, <2>2, <2>3 DEF Next, JoernWrites, JoernDies, Quiescent, vars
  <1>2. QED BY <1>1, TypeCorrect, PTL DEF Spec

=============================================================================
