------------------------ MODULE SubAgentsInputProofs ------------------------
(***************************************************************************)
(* What a child does with its input and with its status file, for every    *)
(* set of children and of callers and every bound.  Both rest on the       *)
(* inductive invariant of SubAgentsProofs: only the last run of a child is *)
(* alive, and a finished child has none.                                   *)
(***************************************************************************)
EXTENDS SubAgentsProofs

(* Unless its write failed, the verdict a task is about to put in the      *)
(* table is in the file already, and so is that of the first run in the    *)
(* table; and no other verdict is ever there.                              *)
FileOK(a) ==
  origin[a] = "spawn_agent" =>
    /\ task[a][1] = "completing" => file[a].missed \/ file[a].says = "Completed"
    /\ task[a][1] = "failing" => file[a].missed \/ file[a].says = "Failed"
    /\ runs[a] = 1 /\ state[a] \in Resumable => file[a].missed \/ file[a].says = state[a]
    /\ file[a].says = "Completed" => task[a][1] \in {"completing", "done"}
    /\ file[a].says = "Failed" => task[a][1] \in {"failing", "failed"}

FileInv == \A a \in Agents : FileOK(a)

(* A task that has left its input loop was cancelled, or has read all of   *)
(* its input and nobody is left to send more.                              *)
DrainOK(a, r) ==
  /\ task[a][r] \in {"ending", "completing"} =>
       r \in cancelled[a] \/ (queue[a][r] = 0 /\ ~HasSender(a, r))
  /\ task[a][r] = "done" => r \in cancelled[a] \/ queue[a][r] = 0

DrainInv ==
  /\ \A a \in Agents, r \in Runs : DrainOK(a, r)
  /\ \A c \in Callers : call[c].at = "insert" => call[c].run = 1

-----------------------------------------------------------------------------
(* A task that takes a step is that of the last run, and its child is not  *)
(* finished.                                                               *)
LEMMA StepOfLastRun ==
  ASSUME NEW a \in Agents, NEW r \in Runs, IInv, task[a][r] \in TaskSteps
  PROVE  r = runs[a] /\ state[a] \notin Resumable
<1>1. Alive(a, r)
  BY DEF Alive, HoldsReceiver, TaskSteps, TaskEnded
<1> QED BY <1>1 DEF IInv, TaskInv, EntryInv

(* A step that writes neither the file nor a verdict keeps what is said of *)
(* the file.                                                               *)
LEMMA FileKept ==
  ASSUME FileInv, UNCHANGED <<origin, file>>,
         \A b \in Agents :
           /\ task'[b][1] \in {"completing", "failing"} => task[b][1] = task'[b][1]
           /\ task[b][1] \in {"completing", "failing", "done", "failed"} =>
                task'[b][1] = task[b][1]
           /\ runs'[b] = 1 /\ state'[b] \in Resumable => runs[b] = 1 /\ state[b] = state'[b]
  PROVE  FileInv'
  BY DEF FileInv, FileOK

(* The steps of a task: the file is written before the table.              *)
LEMMA FileTaskStep ==
  ASSUME NEW a \in Agents, NEW r \in Runs, IInv, FileInv, TaskStep(a, r)
  PROVE  FileInv'
<1> USE DEF entry
<1>0. /\ state \in [Agents -> AgentStates]
      /\ task \in [Agents -> [Runs -> TaskPlaces]]
      /\ file \in [Agents -> Files]
      /\ 1 \in Runs
  BY BoundsAssumption DEF IInv, TypeOK, Runs
<1>11. task[a][r] \in TaskSteps
  BY DEF TaskStep, TaskStart, TaskPanics, RoundEnds, UpdateOutput, MarkAwaitingInput, ReceiveInput,
         ReceiveNothing, MarkRunningAgain, WriteFinalStatus, MarkCompleted, MarkFailed, TaskSteps
<1>1. r = runs[a] /\ state[a] \notin Resumable
  BY <1>11, StepOfLastRun
<1>2. ASSUME NEW place \in TaskPlaces, Goto(a, r, place)
      PROVE  \A b \in Agents, q \in Runs :
               task'[b][q] = IF b = a /\ q = r THEN place ELSE task[b][q]
  BY <1>0, <1>2, GotoPlaces
<1>3. ASSUME NEW place \in TaskPlaces \ {"completing", "failing"}, Goto(a, r, place),
             task[a][r] \notin {"completing", "failing"},
             UNCHANGED <<origin, runs, file>>,
             \A b \in Agents : state'[b] = state[b] \/ state'[b] \notin Resumable
      PROVE  FileInv'
  <2>1. \A b \in Agents :
          task'[b][1] = task[b][1] \/ (b = a /\ r = 1 /\ task'[b][1] = place)
    BY <1>0, <1>2, <1>3
  <2>2. task[a][r] \notin {"completing", "failing", "done", "failed"}
    BY <1>3, <1>11 DEF TaskSteps
  <2> QED BY <1>0, <1>3, <2>1, <2>2, FileKept
<1>4. {"working", "reporting", "aborting", "pausing", "waiting", "rearming", "ending",
       "done", "failed", "dropped"} \subseteq TaskPlaces \ {"completing", "failing"}
  BY DEF TaskPlaces, TaskSteps, TaskEnded
<1>5. ASSUME NEW place \in {"working", "pausing"}, Goto(a, r, place),
             task[a][r] \in {"starting", "reporting"},
             WriteStatus(a, r, "Running") \/ UNCHANGED file,
             UNCHANGED <<origin, runs, state>>
      PROVE  FileInv'
  <2>1. \A b \in Agents :
          task'[b][1] = task[b][1] \/ (b = a /\ r = 1 /\ task'[b][1] = place)
    BY <1>0, <1>2, <1>4, <1>5
  <2>2. \A b \in Agents :
          \/ file'[b] = file[b]
          \/ b = a /\ r = 1 /\ file'[b].missed /\ file'[b].says = file[b].says
          \/ b = a /\ r = 1 /\ file'[b].says = "Running"
    <3>1. CASE WriteStatus(a, r, "Running")
      BY <1>0, <3>1, FileWritten DEF WritesFile
    <3> QED BY <1>5, <3>1
  <2>3. ASSUME NEW b \in Agents PROVE FileOK(b)'
    <3>1. FileOK(b)
      BY DEF FileInv
    <3>2. CASE b # a \/ r # 1
      BY <1>5, <2>1, <2>2, <3>1, <3>2 DEF FileOK
    <3>3. CASE b = a /\ r = 1
      BY <1>1, <1>5, <2>1, <2>2, <3>1, <3>3 DEF FileOK
    <3> QED BY <3>2, <3>3
  <2> QED BY <2>3 DEF FileInv
<1>6. CASE TaskStart(a, r) \/ UpdateOutput(a, r)
  <2>1. \E place \in {"working", "pausing"} :
          /\ Goto(a, r, place)
          /\ task[a][r] \in {"starting", "reporting"}
          /\ WriteStatus(a, r, "Running") \/ UNCHANGED file
          /\ UNCHANGED <<origin, runs, state>>
    BY <1>6 DEF TaskStart, UpdateOutput
  <2> QED BY <1>5, <2>1
<1>7. CASE RoundEnds(a, r) \/ ReceiveInput(a, r) \/ ReceiveNothing(a, r) \/ TaskPanics(a, r)
  <2>1. /\ \E place \in {"reporting", "aborting", "rearming", "working", "ending", "dropped"} :
             Goto(a, r, place)
        /\ task[a][r] \in {"starting", "working", "waiting"}
        /\ UNCHANGED <<origin, runs, file, state>>
    BY <1>7 DEF RoundEnds, ReceiveInput, ReceiveNothing, TaskPanics
  <2> QED BY <1>3, <1>4, <2>1
<1>8. CASE MarkAwaitingInput(a, r) \/ MarkRunningAgain(a, r)
  <2>1. \A b \in Agents : state'[b] = state[b] \/ state'[b] \notin Resumable
    BY <1>0, <1>8 DEF MarkAwaitingInput, MarkRunningAgain, Resumable
  <2>2. /\ \E place \in {"waiting", "working"} : Goto(a, r, place)
        /\ task[a][r] \in {"pausing", "rearming"}
        /\ UNCHANGED <<origin, runs, file>>
    BY <1>8 DEF MarkAwaitingInput, MarkRunningAgain
  <2> QED BY <1>3, <1>4, <2>1, <2>2
<1>9. CASE WriteFinalStatus(a, r)
  <2> DEFINE verdict == IF task[a][r] = "ending" THEN "Completed" ELSE "Failed"
             place == IF task[a][r] = "ending" THEN "completing" ELSE "failing"
  <2>1. \A b \in Agents :
          task'[b][1] = IF b = a /\ r = 1 THEN place ELSE task[b][1]
    BY <1>0, <1>2, <1>9 DEF WriteFinalStatus, TaskPlaces, TaskSteps
  <2>2. \A b \in Agents :
          \/ file'[b] = file[b] /\ ~(b = a /\ WritesFile(a, r))
          \/ b = a /\ r = 1 /\ file'[b].missed /\ file'[b].says = file[b].says
          \/ b = a /\ r = 1 /\ file'[b].says = verdict
    <3>1. WriteStatus(a, r, verdict)
      BY <1>9 DEF WriteFinalStatus
    <3>2. CASE WritesFile(a, r)
      <4>1. PICK missed \in BOOLEAN :
              file' = [file EXCEPT ![a] = [says   |-> IF missed THEN @.says ELSE verdict,
                                           missed |-> missed]]
        BY <3>1, <3>2 DEF WriteStatus
      <4>2. /\ file'[a] = [says |-> IF missed THEN file[a].says ELSE verdict,
                           missed |-> missed]
            /\ \A b \in Agents : b # a => file'[b] = file[b]
        BY <1>0, <4>1
      <4>3. \/ file'[a].missed /\ file'[a].says = file[a].says
            \/ file'[a].says = verdict
        BY <4>2
      <4> QED BY <3>2, <4>2, <4>3 DEF WritesFile
    <3>3. CASE ~WritesFile(a, r)
      BY <3>1, <3>3 DEF WriteStatus
    <3> QED BY <3>2, <3>3
  <2>3. UNCHANGED <<origin, runs, state>> /\ task[a][r] \in {"ending", "aborting"}
    BY <1>9 DEF WriteFinalStatus
  <2>4. ASSUME NEW b \in Agents PROVE FileOK(b)'
    <3>1. FileOK(b)
      BY DEF FileInv
    <3>2. CASE b # a \/ r # 1
      <4>1. task'[b][1] = task[b][1] /\ file'[b] = file[b]
        BY <2>1, <2>2, <3>2
      <4> QED BY <2>3, <3>1, <4>1 DEF FileOK
    <3>3. CASE b = a /\ r = 1
      <4>1. /\ task'[a][1] = place
            /\ origin[a] = "spawn_agent" =>
                 \/ file'[a].missed /\ file'[a].says = file[a].says
                 \/ file'[a].says = verdict
        BY <2>1, <2>2, <3>3 DEF WritesFile
      <4> QED BY <1>1, <2>3, <3>1, <3>3, <4>1 DEF FileOK
    <3> QED BY <3>2, <3>3
  <2> QED BY <2>4 DEF FileInv
<1>10. CASE MarkCompleted(a, r) \/ MarkFailed(a, r)
  <2> DEFINE ok == task[a][r] = "completing"
             verdict == IF ok THEN "Completed" ELSE "Failed"
             place == IF ok THEN "done" ELSE "failed"
  <2>1. /\ \A b \in Agents : state'[b] = state[b] \/ (b = a /\ state'[b] = verdict)
        /\ UNCHANGED <<origin, runs, file>>
        /\ task[a][r] \in {"completing", "failing"}
    BY <1>0, <1>10 DEF MarkCompleted, MarkFailed
  <2>2. \A b \in Agents :
          task'[b][1] = IF b = a /\ r = 1 THEN place ELSE task[b][1]
    BY <1>0, <1>2, <1>4, <1>10 DEF MarkCompleted, MarkFailed
  <2> QED BY <1>0, <1>1, <2>1, <2>2 DEF FileInv, FileOK
<1> QED BY <1>6, <1>7, <1>8, <1>9, <1>10 DEF TaskStep

(* No call writes a verdict; the file is written by the one that spawns.   *)
LEMMA FileCallStep ==
  ASSUME NEW c \in Callers, IInv, FileInv, CallStep(c)
  PROVE  FileInv'
<1> DEFINE a == call[c].agent
           r == call[c].run
<1> USE DEF entry
<1>0. /\ state \in [Agents -> AgentStates]
      /\ task \in [Agents -> [Runs -> TaskPlaces]]
      /\ runs \in [Agents -> RunOrNone]
      /\ 1 \in Runs
      /\ call[c].at # "idle" => a \in Agents
  BY BoundsAssumption DEF IInv, TypeOK, Runs, CallInv, CallOK
<1>1. CASE UNCHANGED <<origin, runs, task, file>>
           /\ \A b \in Agents : state'[b] = state[b] \/ state'[b] \notin Resumable
  BY <1>1, FileKept
<1>2. CASE CloseCancel(c)
  <2>1. a \in Agents /\ CancelEntry(a) /\ UNCHANGED <<origin, runs, task, file>>
    BY <1>0, <1>2 DEF CloseCancel
  <2> QED BY <1>1, <2>1, CancelKeeps DEF EntryChange, Resumable
<1>3. CASE SpawnInsert(c) \/ CloseRemove(c)
  <2>1. \A b \in Agents : state'[b] = state[b] \/ state'[b] \notin Resumable
    BY <1>0, <1>3 DEF SpawnInsert, CloseRemove, Resumable
  <2> QED BY <1>1, <1>3, <2>1 DEF SpawnInsert, CloseRemove
<1>4. CASE ResumePrepare(c) /\ state[a] \in Resumable /\ runs[a] < MaxRuns
  <2>1. a \in Agents /\ runs[a] + 1 \in Runs /\ runs[a] > 0
    BY <1>0, <1>4, BoundsAssumption DEF ResumePrepare, IInv, EntryInv, Resumable, Runs, RunOrNone
  <2>2. \A b \in Agents : task'[b][1] = task[b][1]
    <3>1. Goto(a, runs[a] + 1, "pending")
      BY <1>4 DEF ResumePrepare
    <3>2. runs[a] + 1 # 1
      BY <1>0, <2>1 DEF RunOrNone
    <3> QED BY <1>0, <2>1, <3>1, <3>2, GotoPlaces DEF TaskPlaces
  <2>3. /\ UNCHANGED <<origin, file>>
        /\ \A b \in Agents : /\ runs'[b] = IF b = a THEN runs[a] + 1 ELSE runs[b]
                             /\ state'[b] = IF b = a THEN "Running" ELSE state[b]
    BY <1>0, <1>4 DEF ResumePrepare, Reregister
  <2> QED BY <1>0, <2>1, <2>2, <2>3, FileKept DEF Resumable
<1>5. CASE ResumeSpawn(c) \/ ResumeFails(c)
  <2>1. a \in Agents /\ r \in Runs
    BY <1>0, <1>5 DEF ResumeSpawn, ResumeFails, IInv, CallInv, CallOK
  <2>2. /\ Goto(a, r, "working") \/ Goto(a, r, "dropped")
        /\ UNCHANGED <<origin, runs, state, file>>
    BY <1>5 DEF ResumeSpawn, ResumeFails
  <2>3. \A b \in Agents, q \in Runs :
          \/ task'[b][q] = task[b][q]
          \/ task[b][q] = "pending" /\ task'[b][q] \in {"working", "dropped"}
    BY <1>0, <1>5, <2>1, <2>2, GotoPlaces
    DEF TaskPlaces, TaskSteps, TaskEnded, ResumeSpawn, ResumeFails, IInv, CallInv, CallOK
  <2> QED BY <1>0, <2>2, <2>3, FileKept
<1>6. CASE SendGetTx(c) \/ SendMessage(c) \/ WaitSees(c) \/ WaitOutput(c) \/ WaitReturn(c)
  BY <1>1, <1>6 DEF SendGetTx, SendMessage, WaitSees, WaitOutput, WaitReturn
<1>7. CASE ResumePrepare(c) /\ ~(state[a] \in Resumable /\ runs[a] < MaxRuns)
  BY <1>1, <1>7 DEF ResumePrepare
<1> QED BY <1>2, <1>3, <1>4, <1>5, <1>6, <1>7 DEF CallStep

(* A child that is spawned has no verdict yet.                             *)
LEMMA FileCallBegins ==
  ASSUME NEW c \in Callers, NEW a \in Agents, IInv, FileInv, CallBegins(c, a)
  PROVE  FileInv'
<1> USE DEF entry
<1>0. /\ task \in [Agents -> [Runs -> TaskPlaces]]
      /\ file \in [Agents -> Files]
      /\ origin \in [Agents -> {"none", "spawn_agent", "team_create"}]
      /\ runs \in [Agents -> RunOrNone]
      /\ 1 \in Runs
  BY BoundsAssumption DEF IInv, TypeOK, Runs
<1>1. CASE UNCHANGED <<origin, runs, task, state, file>>
  BY <1>1, FileKept
<1>2. ASSUME NEW tool \in {"spawn_agent", "team_create"}, SpawnTask(c, a, tool)
      PROVE  FileInv'
  <2>1. state[a] = "Absent"
    BY <1>2 DEF SpawnTask, IInv, TaskInv, EntryInv
  <2>2. \A b \in Agents, q \in Runs :
          task'[b][q] = IF b = a /\ q = 1 THEN task'[a][1] ELSE task[b][q]
    BY <1>0, <1>2, GotoPlaces DEF SpawnTask, TaskPlaces, TaskSteps
  <2>3. task'[a][1] \in {"starting", "working"}
    BY <1>0, <1>2, GotoPlaces DEF SpawnTask, TaskPlaces, TaskSteps
  <2>4. /\ state' = state
        /\ \A b \in Agents : b # a =>
             runs'[b] = runs[b] /\ file'[b] = file[b] /\ origin'[b] = origin[b]
    BY <1>0, <1>2 DEF SpawnTask
  <2>5. origin'[a] = "spawn_agent" => file'[a].says = "Pending"
    <3>1. origin'[a] = tool
      BY <1>0, <1>2 DEF SpawnTask
    <3>2. CASE tool = "spawn_agent"
      <4>1. file' = [file EXCEPT ![a].says = "Pending"]
        BY <1>2, <3>2 DEF SpawnTask
      <4>2. file'[a] = [file[a] EXCEPT !.says = "Pending"]
        BY <1>0, <4>1
      <4> QED BY <1>0, <4>2 DEF Files
    <3> QED BY <3>1, <3>2
  <2>6. \A b \in Agents : b # a => task'[b][1] = task[b][1]
    BY <1>0, <2>2
  <2>7. ASSUME NEW b \in Agents PROVE FileOK(b)'
    <3>1. CASE b = a
      BY <2>1, <2>3, <2>4, <2>5, <3>1 DEF FileOK, Resumable
    <3>2. CASE b # a
      BY <2>4, <2>6, <3>2 DEF FileInv, FileOK
    <3> QED BY <3>1, <3>2
  <2> QED BY <2>7 DEF FileInv
<1>3. CASE TeamDeleteCancel(c, a)
  <2>1. \A b \in Agents : state'[b] = state[b] \/ state'[b] \notin Resumable
    BY <1>3, CancelKeeps DEF TeamDeleteCancel, EntryChange, Resumable
  <2> QED BY <1>3, <2>1, FileKept DEF TeamDeleteCancel
<1> QED
  BY <1>1, <1>2, <1>3
  DEF CallBegins, SendCheck, BroadcastGetTx, CloseCheck, ResumeCheck, WaitBegin

(* Whoever finds a spawned child finished finds its status file agreeing   *)
(* unless the last write of it failed, and a verdict found in the file is  *)
(* the one the task has come to.                                           *)
THEOREM FileFirst == Spec => []FileLeadsTable
<1>1. Init => FileInv
  BY BoundsAssumption DEF Init, FileInv, FileOK, Runs
<1>2. IInv /\ FileInv /\ [Next]_vars => FileInv'
  <2> SUFFICES ASSUME IInv, FileInv, [Next]_vars PROVE FileInv'
    OBVIOUS
  <2>1. CASE UNCHANGED vars
    BY <2>1 DEF vars, FileInv, FileOK
  <2> QED
    BY <2>1, FileTaskStep, FileCallStep, FileCallBegins DEF Next, AllGone
<1>3. FileInv => FileLeadsTable
  BY DEF FileInv, FileOK, FileLeadsTable
<1> QED BY <1>1, <1>2, <1>3, InductiveInvariant, PTL DEF Spec

-----------------------------------------------------------------------------
(* A step that gives nobody a sender and sends nothing to a task without   *)
(* senders keeps what is said of drained channels.                         *)
LEMMA DrainKept ==
  ASSUME NEW a \in Agents, NEW r \in Runs, DrainOK(a, r),
         cancelled[a] \subseteq cancelled'[a],
         task'[a][r] \in {"ending", "completing", "done"} =>
           \/ task'[a][r] = task[a][r]
           \/ task'[a][r] = "completing" /\ task[a][r] = "ending"
           \/ task'[a][r] = "done" /\ task[a][r] = "completing",
         task[a][r] \in {"ending", "completing"} => (HasSender(a, r)' => HasSender(a, r)),
         queue'[a][r] = queue[a][r]
           \/ (task[a][r] # "done" /\ (task[a][r] \in {"ending", "completing"} => HasSender(a, r)))
  PROVE  DrainOK(a, r)'
  BY DEF DrainOK

(* The steps of a task: it leaves its loop when it is cancelled, or when   *)
(* the channel is empty and closed.                                        *)
LEMMA DrainTaskStep ==
  ASSUME NEW a \in Agents, NEW r \in Runs, IInv, DrainInv, TaskStep(a, r)
  PROVE  DrainInv'
<1> USE DEF entry
<1>0. /\ inputTx \in [Agents -> RunOrNone]
      /\ task \in [Agents -> [Runs -> TaskPlaces]]
      /\ queue \in [Agents -> [Runs -> 0 .. MaxQueue]]
      /\ 0 \notin Runs
  BY DEF IInv, TypeOK, Runs
<1>1. /\ call' = call /\ cancelled' = cancelled
      /\ \A b \in Agents : inputTx'[b] = inputTx[b] \/ inputTx'[b] = 0
  BY <1>0 DEF TaskStep, TaskStart, TaskPanics, RoundEnds, UpdateOutput, MarkAwaitingInput, ReceiveInput,
         ReceiveNothing, MarkRunningAgain, WriteFinalStatus, MarkCompleted, MarkFailed
<1>2. \A b \in Agents, q \in Runs : HasSender(b, q)' => HasSender(b, q)
  BY <1>0, <1>1 DEF HasSender
<1>3. ASSUME NEW place \in TaskPlaces, Goto(a, r, place)
      PROVE  \A b \in Agents, q \in Runs :
               task'[b][q] = IF b = a /\ q = r THEN place ELSE task[b][q]
  BY <1>0, <1>3, GotoPlaces
<1>4. ASSUME NEW b \in Agents, NEW q \in Runs
      PROVE  DrainOK(b, q)'
  <2>0. DrainOK(b, q)
    BY DEF DrainInv
  <2>1. ASSUME UNCHANGED queue,
               NEW place \in TaskPlaces, Goto(a, r, place),
               place \in {"ending", "completing", "done"} =>
                 \/ place = "completing" /\ task[a][r] = "ending"
                 \/ place = "done" /\ task[a][r] = "completing"
        PROVE  DrainOK(b, q)'
    <3>1. task'[b][q] = IF b = a /\ q = r THEN place ELSE task[b][q]
      BY <1>3, <2>1
    <3> QED BY <1>1, <1>2, <2>0, <2>1, <3>1 DEF DrainOK
  <2>2. CASE ReceiveNothing(a, r)
    <3>1. task'[b][q] = IF b = a /\ q = r THEN "ending" ELSE task[b][q]
      BY <1>3, <2>2 DEF ReceiveNothing, TaskPlaces, TaskSteps
    <3>2. UNCHANGED queue /\ (r \in cancelled[a] \/ (queue[a][r] = 0 /\ ~HasSender(a, r)))
      BY <2>2 DEF ReceiveNothing
    <3> QED BY <1>1, <1>2, <2>0, <3>1, <3>2 DEF DrainOK
  <2>3. CASE ReceiveInput(a, r)
    <3>1. PICK place \in {"rearming", "working"} : Goto(a, r, place)
      BY <2>3 DEF ReceiveInput
    <3>2. task'[b][q] = IF b = a /\ q = r THEN place ELSE task[b][q]
      BY <1>3, <3>1 DEF TaskPlaces, TaskSteps
    <3>3. b # a \/ q # r => queue'[b][q] = queue[b][q]
      BY <1>0, <2>3 DEF ReceiveInput
    <3> QED BY <1>1, <1>2, <2>0, <3>1, <3>2, <3>3 DEF DrainOK
  <2>4. CASE \/ TaskStart(a, r) \/ TaskPanics(a, r) \/ RoundEnds(a, r) \/ UpdateOutput(a, r)
             \/ MarkAwaitingInput(a, r) \/ MarkRunningAgain(a, r) \/ MarkFailed(a, r)
    <3>1. /\ UNCHANGED queue
          /\ \E place \in {"working", "reporting", "aborting", "pausing", "waiting", "failed",
                            "dropped"} :
               Goto(a, r, place)
      BY <2>4
      DEF TaskStart, TaskPanics, RoundEnds, UpdateOutput, MarkAwaitingInput, MarkRunningAgain,
          MarkFailed
    <3> QED BY <2>1, <3>1 DEF TaskPlaces, TaskSteps, TaskEnded
  <2>5. CASE WriteFinalStatus(a, r) \/ MarkCompleted(a, r)
    <3>1. /\ UNCHANGED queue
          /\ \/ Goto(a, r, "completing") /\ task[a][r] = "ending"
             \/ Goto(a, r, "failing")
             \/ Goto(a, r, "done") /\ task[a][r] = "completing"
      BY <2>5 DEF WriteFinalStatus, MarkCompleted
    <3> QED BY <2>1, <3>1 DEF TaskPlaces, TaskSteps, TaskEnded
  <2> QED BY <2>2, <2>3, <2>4, <2>5 DEF TaskStep
<1> QED BY <1>1, <1>4 DEF DrainInv

(* The steps of a call that has begun: a sender is handed out only from    *)
(* the table, and the table gets one only for a run that works.            *)
LEMMA DrainCallStep ==
  ASSUME NEW c \in Callers, IInv, DrainInv, CallStep(c)
  PROVE  DrainInv'
<1> DEFINE a == call[c].agent
           r == call[c].run
<1> USE DEF entry
<1>0. /\ call \in [Callers -> Calls]
      /\ inputTx \in [Agents -> RunOrNone]
      /\ task \in [Agents -> [Runs -> TaskPlaces]]
      /\ queue \in [Agents -> [Runs -> 0 .. MaxQueue]]
      /\ cancelled \in [Agents -> SUBSET Runs]
      /\ 0 \notin Runs
      /\ call[c].at # "idle" => a \in Agents
      /\ Idle.at = "idle"
  BY IdleRecord DEF IInv, TypeOK, Runs, CallInv, CallOK
<1>1. /\ \A d \in Callers : d # c => call'[d] = call[d]
      /\ call'[c].at # "insert"
  BY <1>0 DEF CallStep, SpawnInsert, SendGetTx, TakeSender, SendMessage, CloseCancel, CloseRemove,
              ResumePrepare, ResumeSpawn, ResumeFails, WaitSees, WaitOutput, WaitReturn,
              Return, Continue, Calls
<1>2. \A d \in Callers : call'[d].at = "insert" => call'[d].run = 1
  BY <1>1 DEF DrainInv
<1>3. ASSUME NEW b \in Agents, NEW q \in Runs
      PROVE  DrainOK(b, q)'
  <2>0. DrainOK(b, q)
    BY DEF DrainInv
  <2>1. ASSUME UNCHANGED <<task, queue, cancelled>>, HasSender(b, q)' => HasSender(b, q)
        PROVE  DrainOK(b, q)'
    BY <2>0, <2>1 DEF DrainOK
  <2>2. CASE SpawnInsert(c)
    <3>1. /\ inputTx'[b] = IF b = a THEN 1 ELSE inputTx[b]
          /\ call'[c].at = "idle"
          /\ b = a => HasSender(b, 1)
      BY <1>0, <2>2 DEF SpawnInsert, Return, HasSender, DrainInv
    <3>2. HasSender(b, q)' => HasSender(b, q)
      BY <1>1, <3>1 DEF HasSender
    <3> QED BY <2>1, <2>2, <3>2 DEF SpawnInsert
  <2>3. CASE SendGetTx(c)
    <3>1. /\ inputTx' = inputTx
          /\ call'[c].at = "idle" \/ (call'[c].agent = a /\ call'[c].run = inputTx[a])
      BY <1>0, <2>3 DEF SendGetTx, TakeSender, Return
    <3>2. HasSender(b, q)' => HasSender(b, q)
      BY <1>1, <3>1 DEF HasSender
    <3> QED BY <2>1, <2>3, <3>2 DEF SendGetTx
  <2>4. CASE SendMessage(c)
    <3>1. r \in Runs /\ HasSender(a, r)
      BY <2>4 DEF SendMessage, HasSender, IInv, CallInv, CallOK
    <3>2. /\ b # a \/ q # r \/ task[b][q] = "done" => queue'[b][q] = queue[b][q]
          /\ UNCHANGED <<task, cancelled, inputTx>>
          /\ call'[c].at = "idle"
      BY <1>0, <2>4 DEF SendMessage, Return, HoldsReceiver, TaskEnded
    <3>3. HasSender(b, q)' => HasSender(b, q)
      BY <1>1, <3>2 DEF HasSender
    <3> QED BY <2>0, <3>1, <3>2, <3>3, DrainKept
  <2>5. CASE CloseCancel(c)
    <3>1. /\ a \in Agents /\ CancelEntry(a) /\ UNCHANGED <<task, queue>>
          /\ call'[c].at \in {"close_remove", "idle"}
      BY <1>0, <2>5 DEF CloseCancel, Continue, Return, Calls
    <3>2. /\ cancelled[b] \subseteq cancelled'[b]
          /\ inputTx'[b] = inputTx[b] \/ inputTx'[b] = 0
      BY <1>0, <3>1 DEF CancelEntry
    <3>3. HasSender(b, q)' => HasSender(b, q)
      BY <1>0, <1>1, <3>1, <3>2 DEF HasSender
    <3> QED BY <2>0, <3>1, <3>2, <3>3 DEF DrainOK
  <2>6. CASE CloseRemove(c)
    <3>1. /\ inputTx'[b] = inputTx[b] \/ inputTx'[b] = 0
          /\ call'[c].at = "idle"
      BY <1>0, <2>6 DEF CloseRemove, Return
    <3>2. HasSender(b, q)' => HasSender(b, q)
      BY <1>0, <1>1, <3>1 DEF HasSender
    <3> QED BY <2>1, <2>6, <3>2 DEF CloseRemove
  <2>7. CASE ResumePrepare(c) /\ state[a] \in Resumable /\ runs[a] < MaxRuns
    <3> DEFINE n == runs[a] + 1
    <3>1. a \in Agents /\ n \in Runs /\ task[a][n] = "none"
      <4>1. a \in Agents
        BY <1>0, <2>7 DEF ResumePrepare
      <4>2. n \in Runs
        <5>1. runs[a] \in 0 .. MaxRuns /\ runs[a] < MaxRuns
          BY <2>7, <4>1 DEF IInv, TypeOK, RunOrNone
        <5> QED BY <5>1, BoundsAssumption DEF Runs
      <4>3. n > runs[a]
        BY <4>1, BoundsAssumption DEF IInv, TypeOK, RunOrNone
      <4> QED BY <4>1, <4>2, <4>3 DEF IInv, TaskInv
    <3>2. /\ Goto(a, n, "pending")
          /\ UNCHANGED <<queue, cancelled>>
          /\ inputTx'[b] = IF b = a THEN n ELSE inputTx[b]
          /\ call'[c].at = "resume_build"
      BY <1>0, <2>7 DEF ResumePrepare, Reregister, Calls
    <3>3. task'[b][q] = IF b = a /\ q = n THEN "pending" ELSE task[b][q]
      BY <1>0, <3>1, <3>2, GotoPlaces DEF TaskPlaces
    <3>4. (b = a /\ q = n) \/ (HasSender(b, q)' => HasSender(b, q))
      BY <1>1, <3>2 DEF HasSender
    <3> QED BY <2>0, <3>1, <3>2, <3>3, <3>4 DEF DrainOK
  <2>8. CASE ResumeSpawn(c) \/ ResumeFails(c)
    <3>1. a \in Agents /\ r \in Runs
      BY <1>0, <2>8 DEF ResumeSpawn, ResumeFails, IInv, CallInv, CallOK
    <3>2. /\ Goto(a, r, "working") \/ Goto(a, r, "dropped")
          /\ UNCHANGED <<queue, cancelled, inputTx>>
          /\ call'[c].at = "idle"
      BY <1>0, <2>8 DEF ResumeSpawn, ResumeFails, Return
    <3>3. task'[b][q] = task[b][q] \/ task'[b][q] \in {"working", "dropped"}
      <4>1. PICK place \in {"working", "dropped"} : Goto(a, r, place)
        BY <3>2
      <4>2. place \in TaskPlaces
        BY DEF TaskPlaces, TaskSteps, TaskEnded
      <4> QED BY <1>0, <3>1, <4>1, <4>2, GotoPlaces
    <3>4. HasSender(b, q)' => HasSender(b, q)
      BY <1>1, <3>2 DEF HasSender
    <3> QED BY <2>0, <3>2, <3>3, <3>4 DEF DrainOK
  <2>9. CASE \/ WaitSees(c) \/ WaitOutput(c) \/ WaitReturn(c)
             \/ ResumePrepare(c) /\ ~(state[a] \in Resumable /\ runs[a] < MaxRuns)
    <3>1. /\ UNCHANGED <<task, queue, cancelled, inputTx>>
          /\ call'[c].at \in {"idle", "wait_output", "wait_done"}
      BY <1>0, <2>9 DEF WaitSees, WaitOutput, WaitReturn, ResumePrepare, Return, Continue, Calls
    <3>2. HasSender(b, q)' => HasSender(b, q)
      BY <1>1, <3>1 DEF HasSender
    <3> QED BY <2>1, <3>1, <3>2
  <2> QED
    BY <2>2, <2>3, <2>4, <2>5, <2>6, <2>7, <2>8, <2>9 DEF CallStep
<1> QED BY <1>2, <1>3 DEF DrainInv

(* A call that begins: a broadcast takes the sender of the table, and a    *)
(* spawn has one for a run that starts.                                    *)
LEMMA DrainCallBegins ==
  ASSUME NEW c \in Callers, NEW a \in Agents, IInv, DrainInv, CallBegins(c, a)
  PROVE  DrainInv'
<1> USE DEF entry
<1>0. /\ call \in [Callers -> Calls]
      /\ inputTx \in [Agents -> RunOrNone]
      /\ task \in [Agents -> [Runs -> TaskPlaces]]
      /\ cancelled \in [Agents -> SUBSET Runs]
      /\ 0 \notin Runs /\ 1 \in Runs
      /\ Idle.at = "idle"
  BY IdleRecord, BoundsAssumption DEF IInv, TypeOK, Runs
<1>1. \A d \in Callers : d # c => call'[d] = call[d]
  BY <1>0 DEF CallBegins, SpawnTask, SendCheck, BroadcastGetTx, TakeSender, CloseCheck,
              TeamDeleteCancel, ResumeCheck, WaitBegin, Start, Return
<1>2. CASE /\ UNCHANGED <<task, queue, cancelled, inputTx>>
           /\ call'[c].at \notin {"insert", "send"} \/ BroadcastGetTx(c, a)
  <2>1. \/ call'[c].at \notin {"insert", "send"}
        \/ call'[c].at = "send" /\ call'[c].agent = a /\ call'[c].run = inputTx[a]
    BY <1>0, <1>2 DEF BroadcastGetTx, TakeSender
  <2>2. \A b \in Agents, q \in Runs : HasSender(b, q)' => HasSender(b, q)
    BY <1>1, <1>2, <2>1 DEF HasSender
  <2>3. ASSUME NEW b \in Agents, NEW q \in Runs
        PROVE  DrainOK(b, q)'
    BY <1>2, <2>2 DEF DrainInv, DrainOK
  <2> QED BY <1>1, <2>1, <2>3 DEF DrainInv
<1>3. CASE \/ SendCheck(c, a) \/ \E remove \in BOOLEAN : CloseCheck(c, a, remove)
           \/ ResumeCheck(c, a) \/ WaitBegin(c, a)
  <2>1. /\ UNCHANGED <<task, queue, cancelled, inputTx>>
        /\ call'[c].at \in {"send_tx", "close_cancel", "close_remove", "resume_prepare", "wait_state"}
    BY <1>0, <1>3 DEF SendCheck, CloseCheck, ResumeCheck, WaitBegin, Start
  <2> QED BY <1>2, <2>1
<1>4. CASE BroadcastGetTx(c, a)
  BY <1>2, <1>4 DEF BroadcastGetTx
<1>5. CASE TeamDeleteCancel(c, a)
  <2>1. CancelEntry(a) /\ UNCHANGED <<task, queue, call>>
    BY <1>5 DEF TeamDeleteCancel
  <2>2. \A b \in Agents : /\ cancelled[b] \subseteq cancelled'[b]
                          /\ inputTx'[b] = inputTx[b] \/ inputTx'[b] = 0
    BY <1>0, <2>1 DEF CancelEntry
  <2>3. \A b \in Agents, q \in Runs : HasSender(b, q)' => HasSender(b, q)
    BY <1>0, <2>1, <2>2 DEF HasSender
  <2>4. ASSUME NEW b \in Agents, NEW q \in Runs
        PROVE  DrainOK(b, q)'
    BY <2>1, <2>2, <2>3 DEF DrainInv, DrainOK
  <2> QED BY <2>1, <2>4 DEF DrainInv
<1>6. ASSUME NEW tool \in {"spawn_agent", "team_create"}, SpawnTask(c, a, tool)
      PROVE  DrainInv'
  <2>1. /\ call'[c].at = "insert" /\ call'[c].agent = a /\ call'[c].run = 1
        /\ UNCHANGED <<inputTx, queue, cancelled>>
    BY <1>0, <1>6 DEF SpawnTask
  <2>2. \A b \in Agents, q \in Runs :
          /\ task'[b][q] = task[b][q] \/ task'[b][q] \in {"starting", "working"}
          /\ b = a /\ q = 1 => task'[b][q] \in {"starting", "working"}
    BY <1>0, <1>6, GotoPlaces DEF SpawnTask, TaskPlaces, TaskSteps
  <2>3. ASSUME NEW b \in Agents, NEW q \in Runs
        PROVE  DrainOK(b, q)'
    <3>1. (b = a /\ q = 1) \/ (HasSender(b, q)' => HasSender(b, q))
      BY <1>1, <2>1 DEF HasSender
    <3> QED BY <2>1, <2>2, <3>1 DEF DrainInv, DrainOK
  <2> QED BY <1>1, <2>1, <2>3 DEF DrainInv
<1> QED BY <1>3, <1>4, <1>5, <1>6 DEF CallBegins

(* A task that ends normally has read its input or was cancelled.          *)
THEOREM InputReadOrCancelled == Spec => []NoSilentInputLoss
<1>1. Init => DrainInv
  BY DEF Init, DrainInv, DrainOK, Idle
<1>2. IInv /\ DrainInv /\ [Next]_vars => DrainInv'
  <2> SUFFICES ASSUME IInv, DrainInv, [Next]_vars PROVE DrainInv'
    OBVIOUS
  <2>1. CASE UNCHANGED vars
    BY <2>1 DEF vars, entry, DrainInv, DrainOK, HasSender
  <2> QED
    BY <2>1, DrainTaskStep, DrainCallStep, DrainCallBegins DEF Next, AllGone
<1>3. IInv /\ DrainInv => NoSilentInputLoss
  BY DEF IInv, TypeOK, DrainInv, DrainOK, NoSilentInputLoss
<1> QED BY <1>1, <1>2, <1>3, InductiveInvariant, PTL DEF Spec

-----------------------------------------------------------------------------
(* Winding down.  UnwantedTasksEnd rests on fairness, which these proofs   *)
(* do not use, and on what they give: no call gives an unwanted child a    *)
(* sender, and each step of its run uses up what is left of it.            *)

(* The table has a sender for the last run of a live child and no other.   *)
InputOK(a) == inputTx[a] = IF state[a] \in Live THEN runs[a] ELSE 0

InputInv == \A a \in Agents : InputOK(a)

Unwanted(a) == state[a] = "Cancelled" \/ Removed(a)

(* The clones of the sender of a run that calls in flight hold.            *)
Senders(a, r) ==
  {c \in Callers : /\ call[c].at \in {"insert", "send"}
                   /\ call[c].agent = a
                   /\ call[c].run = r}

(* How far a task is from its end, one round of its loop at a time.        *)
StepsLeft(place) ==
  IF place \in TaskEnded THEN 0
  ELSE IF place \in {"completing", "failing"} THEN 1
  ELSE IF place \in {"ending", "aborting"} THEN 2
  ELSE IF place = "waiting" THEN 3
  ELSE IF place = "pausing" THEN 4
  ELSE IF place = "reporting" THEN 5
  ELSE IF place = "working" THEN 6
  ELSE 7

(* The run loses a sender, or reads a message, or comes nearer to the end  *)
(* of its round.                                                           *)
Nearer(a, r) ==
  \/ Senders(a, r)' \subseteq Senders(a, r) /\ Senders(a, r)' # Senders(a, r)
  \/ /\ Senders(a, r)' = Senders(a, r)
     /\ \/ queue'[a][r] < queue[a][r]
        \/ /\ queue'[a][r] = queue[a][r]
           /\ StepsLeft(task'[a][r]) < StepsLeft(task[a][r])

Still(a, r) ==
  /\ Senders(a, r)' = Senders(a, r)
  /\ queue'[a][r] = queue[a][r]
  /\ task'[a][r] = task[a][r]

(* A child that was cancelled, or removed while it ran, stays unwanted     *)
(* until its run is over; each step of the run brings that nearer, and no  *)
(* step of a call, whoever makes it, puts it off.                          *)
UnwantedRunsWindDown ==
  [][\A a \in Agents, r \in Runs :
       Unwanted(a) /\ Alive(a, r) =>
         /\ Unwanted(a)' \/ ~Alive(a, r)'
         /\ Nearer(a, r) \/ (Still(a, r) /\ ~TaskStep(a, r))]_vars

(* A cancelled child leaves that state when it is removed, or when the run *)
(* whose token was fired delivers its verdict; so a resume waits for that. *)
CancelledUntilVerdict ==
  [][\A a \in Agents :
       state[a] = "Cancelled" /\ state'[a] # "Cancelled" =>
         \/ state'[a] = "Absent"
         \/ /\ runs[a] \in cancelled[a]
            /\ \/ task[a][runs[a]] = "completing" /\ state'[a] = "Completed"
               \/ task[a][runs[a]] = "failing" /\ state'[a] = "Failed"]_vars

(* Whatever changes the state of a child changes its sender with it.       *)
LEMMA InputStep ==
  ASSUME IInv, InputInv, Next
  PROVE  InputInv'
<1> USE DEF entry
<1>0. /\ state \in [Agents -> AgentStates]
      /\ inputTx \in [Agents -> RunOrNone]
      /\ runs \in [Agents -> RunOrNone]
      /\ \A c \in Callers : call[c].at # "idle" => call[c].agent \in Agents
  BY CallHasAgent DEF IInv, TypeOK
<1>1. ASSUME NEW b \in Agents, runs'[b] = runs[b], inputTx'[b] = inputTx[b],
             state'[b] \in Live <=> state[b] \in Live
      PROVE  InputOK(b)'
  BY <1>1 DEF InputInv, InputOK
<1>2. ASSUME NEW a \in Agents, NEW r \in Runs, TaskStep(a, r), NEW b \in Agents
      PROVE  InputOK(b)'
  <2>1. CASE \/ TaskStart(a, r) \/ TaskPanics(a, r) \/ RoundEnds(a, r) \/ UpdateOutput(a, r)
             \/ ReceiveInput(a, r) \/ ReceiveNothing(a, r) \/ WriteFinalStatus(a, r)
    BY <1>1, <2>1 DEF TaskStart, TaskPanics, RoundEnds, UpdateOutput, ReceiveInput,
       ReceiveNothing, WriteFinalStatus
  <2>2. CASE MarkAwaitingInput(a, r) \/ MarkRunningAgain(a, r)
    BY <1>0, <1>1, <2>2 DEF MarkAwaitingInput, MarkRunningAgain, Live
  <2>3. CASE MarkCompleted(a, r) \/ MarkFailed(a, r)
    <3>1. \/ state'[b] = state[b] /\ inputTx'[b] = inputTx[b]
          \/ state'[b] \in Resumable /\ inputTx'[b] = 0
      BY <1>0, <2>3 DEF MarkCompleted, MarkFailed, Resumable
    <3>2. runs' = runs
      BY <2>3 DEF MarkCompleted, MarkFailed
    <3> QED BY <3>1, <3>2 DEF InputInv, InputOK, Live, Resumable
  <2> QED BY <1>2, <2>1, <2>2, <2>3 DEF TaskStep
<1>3. ASSUME NEW a \in Agents, CancelEntry(a), runs' = runs, NEW b \in Agents
      PROVE  InputOK(b)'
  <2>1. \/ state'[b] = state[b] /\ inputTx'[b] = inputTx[b]
        \/ state'[b] = "Cancelled" /\ inputTx'[b] = 0
    BY <1>0, <1>3 DEF CancelEntry
  <2> QED BY <1>3, <2>1 DEF InputInv, InputOK, Live
<1>4. ASSUME NEW c \in Callers, CallStep(c), NEW b \in Agents
      PROVE  InputOK(b)'
  <2> DEFINE a == call[c].agent
  <2>1. CASE SpawnInsert(c)
    <3>1. a \in Agents /\ runs[a] = 1
      BY <2>1 DEF SpawnInsert, IInv, CallInv, CallOK
    <3>2. /\ state'[b] = IF b = a THEN "Running" ELSE state[b]
          /\ inputTx'[b] = IF b = a THEN 1 ELSE inputTx[b]
          /\ runs' = runs
      BY <1>0, <2>1, <3>1 DEF SpawnInsert
    <3> QED BY <3>1, <3>2 DEF InputInv, InputOK, Live
  <2>2. CASE CloseRemove(c)
    <3>1. /\ state'[b] = IF b = a THEN "Absent" ELSE state[b]
          /\ inputTx'[b] = IF b = a THEN 0 ELSE inputTx[b]
          /\ runs' = runs
      BY <1>0, <2>2 DEF CloseRemove
    <3> QED BY <3>1 DEF InputInv, InputOK, Live
  <2>3. CASE CloseCancel(c)
    BY <1>0, <1>3, <2>3 DEF CloseCancel
  <2>4. CASE ResumePrepare(c) /\ state[a] \in Resumable /\ runs[a] < MaxRuns
    <3>1. a \in Agents
      BY <1>0, <2>4 DEF ResumePrepare
    <3>2. /\ state'[b] = IF b = a THEN "Running" ELSE state[b]
          /\ inputTx'[b] = IF b = a THEN runs[a] + 1 ELSE inputTx[b]
          /\ runs'[b] = IF b = a THEN runs[a] + 1 ELSE runs[b]
      BY <1>0, <2>4, <3>1 DEF ResumePrepare, Reregister
    <3> QED BY <3>2 DEF InputInv, InputOK, Live
  <2>5. CASE \/ SendGetTx(c) \/ SendMessage(c) \/ ResumeSpawn(c) \/ ResumeFails(c)
             \/ WaitSees(c) \/ WaitOutput(c) \/ WaitReturn(c)
             \/ ResumePrepare(c) /\ ~(state[a] \in Resumable /\ runs[a] < MaxRuns)
    BY <1>1, <2>5 DEF SendGetTx, SendMessage, ResumeSpawn, ResumeFails, WaitSees,
       WaitOutput, WaitReturn, ResumePrepare
  <2> QED BY <1>4, <2>1, <2>2, <2>3, <2>4, <2>5 DEF CallStep
<1>5. ASSUME NEW c \in Callers, NEW a \in Agents, CallBegins(c, a), NEW b \in Agents
      PROVE  InputOK(b)'
  <2>1. ASSUME NEW tool \in {"spawn_agent", "team_create"}, SpawnTask(c, a, tool)
        PROVE  InputOK(b)'
    <3>1. state[a] = "Absent" /\ UNCHANGED <<state, inputTx>>
      BY <2>1 DEF SpawnTask, IInv, TaskInv, EntryInv
    <3>2. b # a => runs'[b] = runs[b]
      BY <1>0, <2>1 DEF SpawnTask
    <3> QED BY <3>1, <3>2 DEF InputInv, InputOK, Live
  <2>2. CASE TeamDeleteCancel(c, a)
    BY <1>3, <2>2 DEF TeamDeleteCancel
  <2> QED
    BY <1>1, <1>5, <2>1, <2>2
    DEF CallBegins, SendCheck, BroadcastGetTx, CloseCheck, ResumeCheck, WaitBegin
<1> QED
  BY <1>1, <1>2, <1>4, <1>5 DEF Next, AllGone, vars, InputInv, InputOK

(* A sender can be fetched of the children that a message can reach, and   *)
(* of no other: whatever ends or cancels a child drops its sender.         *)
THEOREM LiveChildHasSender == Spec => []InputInv
<1>1. Init => InputInv
  BY DEF Init, InputInv, InputOK, Live
<1>2. IInv /\ InputInv /\ [Next]_vars => InputInv'
  BY InputStep DEF vars, entry, InputInv, InputOK
<1> QED BY <1>1, <1>2, InductiveInvariant, PTL DEF Spec

(* What holds of an unwanted child with a live run.                        *)
LEMMA UnwantedFacts ==
  ASSUME NEW a \in Agents, NEW r \in Runs, IInv, InputInv, Unwanted(a), Alive(a, r)
  PROVE  /\ r = runs[a] /\ inputTx[a] = 0 /\ origin[a] # "none"
         /\ state[a] \in {"Cancelled", "Absent"}
         /\ \A c \in Callers : ~(call[c].at = "insert" /\ call[c].agent = a)
<1>1. r = runs[a]
  BY DEF IInv, TaskInv
<1>2. state[a] \in {"Cancelled", "Absent"} /\ inputTx[a] = 0
  BY DEF Unwanted, Removed, InputInv, InputOK, Live
<1>3. origin[a] # "none"
  BY <1>1 DEF IInv, TaskInv, Runs
<1>4. \A c \in Callers : ~(call[c].at = "insert" /\ call[c].agent = a)
  BY DEF Unwanted, Removed, IInv, CallInv, CallOK
<1> QED BY <1>1, <1>2, <1>3, <1>4

(* A child that stays cancelled, or is removed, and that no call inserts,  *)
(* stays unwanted.                                                         *)
LEMMA UnwantedStays ==
  ASSUME NEW a \in Agents, Unwanted(a), origin[a] # "none", origin'[a] = origin[a],
         state'[a] = state[a] \/ state'[a] = "Absent",
         \A c \in Callers : ~(call'[c].at = "insert" /\ call'[c].agent = a)
  PROVE  Unwanted(a)'
  BY DEF Unwanted, Removed

(* The steps of the run itself.                                            *)
LEMMA RunWindsDown ==
  ASSUME NEW a \in Agents, NEW r \in Runs, IInv, InputInv, Unwanted(a), Alive(a, r),
         TaskStep(a, r)
  PROVE  (Unwanted(a)' \/ ~Alive(a, r)') /\ Nearer(a, r)
<1> USE DEF entry
<1>0. /\ state \in [Agents -> AgentStates]
      /\ task \in [Agents -> [Runs -> TaskPlaces]]
      /\ queue \in [Agents -> [Runs -> 0 .. MaxQueue]]
  BY DEF IInv, TypeOK
<1>1. /\ origin[a] # "none" /\ state[a] \in {"Cancelled", "Absent"}
      /\ \A c \in Callers : ~(call[c].at = "insert" /\ call[c].agent = a)
  BY UnwantedFacts
<1>2. call' = call /\ origin' = origin
  BY DEF TaskStep, TaskStart, TaskPanics, RoundEnds, UpdateOutput, MarkAwaitingInput, ReceiveInput,
     ReceiveNothing, MarkRunningAgain, WriteFinalStatus, MarkCompleted, MarkFailed
<1>3. Senders(a, r)' = Senders(a, r)
  BY <1>2 DEF Senders
<1>4. ASSUME NEW place \in TaskPlaces, Goto(a, r, place)
      PROVE  task'[a][r] = place
  BY <1>0, <1>4, GotoPlaces
<1>5. state'[a] = state[a] => Unwanted(a)'
  BY <1>1, <1>2, UnwantedStays
<1> USE DEF StepsLeft, TaskPlaces, TaskSteps, TaskEnded
<1>6. CASE ReceiveInput(a, r)
  <2>1. queue'[a][r] < queue[a][r] /\ state' = state
    BY <1>0, <1>6 DEF ReceiveInput
  <2> QED BY <1>3, <1>5, <2>1 DEF Nearer
<1>7. CASE \/ TaskStart(a, r) \/ RoundEnds(a, r) \/ UpdateOutput(a, r)
           \/ ReceiveNothing(a, r) \/ WriteFinalStatus(a, r)
  <2>1. \/ task[a][r] = "starting" /\ Goto(a, r, "working")
        \/ task[a][r] = "working" /\ (Goto(a, r, "reporting") \/ Goto(a, r, "aborting"))
        \/ task[a][r] = "reporting" /\ Goto(a, r, "pausing")
        \/ task[a][r] = "waiting" /\ Goto(a, r, "ending")
        \/ task[a][r] = "ending" /\ Goto(a, r, "completing")
        \/ task[a][r] = "aborting" /\ Goto(a, r, "failing")
    BY <1>7 DEF TaskStart, RoundEnds, UpdateOutput, ReceiveNothing, WriteFinalStatus
  <2>2. StepsLeft(task'[a][r]) < StepsLeft(task[a][r])
    BY <1>4, <2>1
  <2>3. UNCHANGED <<queue, state>>
    BY <1>7 DEF TaskStart, RoundEnds, UpdateOutput, ReceiveNothing, WriteFinalStatus
  <2> QED BY <1>3, <1>5, <2>2, <2>3 DEF Nearer
<1>8. CASE MarkAwaitingInput(a, r) \/ MarkRunningAgain(a, r)
  <2>1. \/ task[a][r] = "pausing" /\ Goto(a, r, "waiting")
        \/ task[a][r] = "rearming" /\ Goto(a, r, "working")
    BY <1>8 DEF MarkAwaitingInput, MarkRunningAgain
  <2>2. StepsLeft(task'[a][r]) < StepsLeft(task[a][r])
    BY <1>4, <2>1
  <2>3. UNCHANGED queue /\ state'[a] = state[a]
    BY <1>0, <1>1, <1>8 DEF MarkAwaitingInput, MarkRunningAgain
  <2> QED BY <1>3, <1>5, <2>2, <2>3 DEF Nearer
<1>9. CASE MarkCompleted(a, r) \/ MarkFailed(a, r)
  <2>1. \/ task[a][r] = "completing" /\ Goto(a, r, "done")
        \/ task[a][r] = "failing" /\ Goto(a, r, "failed")
    BY <1>9 DEF MarkCompleted, MarkFailed
  <2>2. StepsLeft(task'[a][r]) < StepsLeft(task[a][r]) /\ task'[a][r] \in TaskEnded
    BY <1>4, <2>1
  <2>3. UNCHANGED queue
    BY <1>9 DEF MarkCompleted, MarkFailed
  <2> QED BY <1>3, <2>2, <2>3 DEF Nearer, Alive, HoldsReceiver
<1>10. CASE TaskPanics(a, r)
  <2>1. task[a][r] = "starting" /\ Goto(a, r, "dropped") /\ UNCHANGED queue
    BY <1>10 DEF TaskPanics
  <2>2. StepsLeft(task'[a][r]) < StepsLeft(task[a][r]) /\ task'[a][r] \in TaskEnded
    BY <1>4, <2>1
  <2> QED BY <1>3, <2>1, <2>2 DEF Nearer, Alive, HoldsReceiver
<1> QED
  BY <1>6, <1>7, <1>8, <1>9, <1>10 DEF TaskStep

(* A step of the task of another child.                                    *)
LEMMA OthersLeaveRun ==
  ASSUME NEW a \in Agents, NEW r \in Runs, IInv, InputInv, Unwanted(a), Alive(a, r),
         NEW b \in Agents, NEW q \in Runs, TaskStep(b, q), ~TaskStep(a, r)
  PROVE  Unwanted(a)' /\ Still(a, r)
<1> USE DEF entry
<1>0. /\ state \in [Agents -> AgentStates]
      /\ task \in [Agents -> [Runs -> TaskPlaces]]
      /\ queue \in [Agents -> [Runs -> 0 .. MaxQueue]]
  BY DEF IInv, TypeOK
<1>1. task[b][q] \in TaskSteps
  BY DEF TaskStep, TaskStart, TaskPanics, RoundEnds, UpdateOutput, MarkAwaitingInput, ReceiveInput,
     ReceiveNothing, MarkRunningAgain, WriteFinalStatus, MarkCompleted, MarkFailed, TaskSteps
<1>2. b # a
  BY <1>1, StepOfLastRun, UnwantedFacts
<1>3. call' = call /\ origin' = origin
  BY DEF TaskStep, TaskStart, TaskPanics, RoundEnds, UpdateOutput, MarkAwaitingInput, ReceiveInput,
     ReceiveNothing, MarkRunningAgain, WriteFinalStatus, MarkCompleted, MarkFailed
<1>4. state'[a] = state[a] /\ task'[a] = task[a] /\ queue'[a] = queue[a]
  BY <1>0, <1>2
  DEF TaskStep, TaskStart, TaskPanics, RoundEnds, UpdateOutput, MarkAwaitingInput, ReceiveInput,
      ReceiveNothing, MarkRunningAgain, WriteFinalStatus, MarkCompleted, MarkFailed, Goto
<1>5. Still(a, r)
  BY <1>3, <1>4 DEF Still, Senders
<1> QED
  BY <1>3, <1>4, <1>5, UnwantedFacts, UnwantedStays

(* A call that neither holds a sender of the run nor gets one.             *)
LEMMA CallLeavesRun ==
  ASSUME NEW a \in Agents, NEW r \in Runs, IInv, InputInv, Unwanted(a), Alive(a, r),
         NEW c \in Callers, \A d \in Callers : d # c => call'[d] = call[d],
         c \notin Senders(a, r), c \notin Senders(a, r)',
         ~(call'[c].at = "insert" /\ call'[c].agent = a),
         queue'[a][r] = queue[a][r], origin'[a] = origin[a],
         state'[a] = state[a] \/ state'[a] = "Absent"
  PROVE  /\ Unwanted(a)'
         /\ Senders(a, r)' = Senders(a, r)
         /\ task'[a][r] = task[a][r] => Still(a, r)
<1>1. Senders(a, r)' = Senders(a, r)
  BY DEF Senders
<1>2. \A d \in Callers : ~(call'[d].at = "insert" /\ call'[d].agent = a)
  BY UnwantedFacts
<1>3. Unwanted(a)'
  BY <1>2, UnwantedFacts, UnwantedStays
<1> QED
  BY <1>1, <1>3 DEF Still

(* The steps of a call: it can only send what it has, start the task that  *)
(* is pending, or remove the child.                                        *)
LEMMA CallsWindDown ==
  ASSUME NEW a \in Agents, NEW r \in Runs, IInv, InputInv, Unwanted(a), Alive(a, r),
         NEW c \in Callers, CallStep(c)
  PROVE  Unwanted(a)' /\ (Nearer(a, r) \/ Still(a, r))
<1> DEFINE b == call[c].agent
           q == call[c].run
<1> USE DEF entry
<1>0. /\ call \in [Callers -> Calls]
      /\ state \in [Agents -> AgentStates]
      /\ task \in [Agents -> [Runs -> TaskPlaces]]
      /\ queue \in [Agents -> [Runs -> 0 .. MaxQueue]]
      /\ call[c].at # "idle" => b \in Agents
      /\ Idle.at = "idle" /\ Idle \in Calls
  BY IdleRecord, CallHasAgent DEF IInv, TypeOK
<1>1. /\ r = runs[a] /\ inputTx[a] = 0 /\ origin[a] # "none"
      /\ state[a] \in {"Cancelled", "Absent"}
      /\ \A d \in Callers : ~(call[d].at = "insert" /\ call[d].agent = a)
  BY UnwantedFacts
<1>2. ASSUME Return(c)
      PROVE  (\A d \in Callers : d # c => call'[d] = call[d]) /\ call'[c].at = "idle"
  BY <1>0, <1>2 DEF Return
<1>3. CASE SpawnInsert(c)
  <2>1. b # a /\ b \in Agents /\ call[c].at = "insert" /\ Return(c)
    BY <1>0, <1>1, <1>3 DEF SpawnInsert
  <2>2. /\ state'[a] = state[a] /\ UNCHANGED <<task, queue, origin>>
    BY <1>0, <1>3, <2>1 DEF SpawnInsert
  <2>3. c \notin Senders(a, r) /\ c \notin Senders(a, r)'
    BY <1>2, <2>1 DEF Senders
  <2> QED BY <1>2, <2>1, <2>2, <2>3, CallLeavesRun
<1>4. CASE SendGetTx(c)
  <2>1. /\ \A d \in Callers : d # c => call'[d] = call[d]
        /\ call'[c].at = "idle" \/ (call'[c].at = "send" /\ call'[c].agent = b /\ inputTx[b] # 0)
    BY <1>0, <1>2, <1>4 DEF SendGetTx, TakeSender
  <2>2. c \notin Senders(a, r) /\ c \notin Senders(a, r)'
    BY <1>1, <1>4, <2>1 DEF Senders, SendGetTx
  <2>3. UNCHANGED <<state, task, queue, origin>>
    BY <1>4 DEF SendGetTx
  <2> QED BY <2>1, <2>2, <2>3, CallLeavesRun
<1>5. CASE SendMessage(c) /\ b = a /\ q = r
  <2>1. c \in Senders(a, r) /\ c \notin Senders(a, r)'
    BY <1>2, <1>5 DEF SendMessage, Senders
  <2>2. Senders(a, r)' \subseteq Senders(a, r)
    BY <1>2, <1>5, <2>1 DEF SendMessage, Senders
  <2>3. Unwanted(a)'
    <3>1. UNCHANGED <<state, origin>>
      BY <1>5 DEF SendMessage
    <3>2. \A d \in Callers : ~(call'[d].at = "insert" /\ call'[d].agent = a)
      BY <1>1, <1>2, <1>5 DEF SendMessage
    <3> QED BY <1>1, <3>1, <3>2, UnwantedStays
  <2> QED BY <2>1, <2>2, <2>3 DEF Nearer
<1>6. CASE SendMessage(c) /\ ~(b = a /\ q = r)
  <2>1. c \notin Senders(a, r) /\ c \notin Senders(a, r)'
    BY <1>2, <1>6 DEF SendMessage, Senders
  <2>2. queue'[a][r] = queue[a][r] /\ UNCHANGED <<state, task, origin>>
    BY <1>0, <1>6 DEF SendMessage
  <2> QED BY <1>2, <1>6, <2>1, <2>2, CallLeavesRun DEF SendMessage
<1>7. CASE CloseCancel(c)
  <2>1. /\ \A d \in Callers : d # c => call'[d] = call[d]
        /\ call'[c].at \in {"idle", "close_remove"}
    BY <1>0, <1>2, <1>7 DEF CloseCancel, Continue, Calls
  <2>2. b \in Agents /\ CancelEntry(b) /\ UNCHANGED <<task, queue, origin>>
    BY <1>0, <1>7 DEF CloseCancel
  <2>3. state'[a] = state[a]
    BY <1>0, <1>1, <2>2 DEF CancelEntry, Live
  <2>4. c \notin Senders(a, r) /\ c \notin Senders(a, r)'
    BY <1>7, <2>1 DEF Senders, CloseCancel
  <2> QED BY <2>1, <2>2, <2>3, <2>4, CallLeavesRun
<1>8. CASE CloseRemove(c)
  <2>1. state'[a] \in {state[a], "Absent"} /\ UNCHANGED <<task, queue, origin>>
    BY <1>0, <1>8 DEF CloseRemove
  <2>2. c \notin Senders(a, r) /\ c \notin Senders(a, r)'
    BY <1>2, <1>8 DEF Senders, CloseRemove
  <2> QED BY <1>2, <1>8, <2>1, <2>2, CallLeavesRun DEF CloseRemove
<1>9. CASE ResumePrepare(c) /\ state[b] \in Resumable /\ runs[b] < MaxRuns
  <2>1. b # a /\ b \in Agents
    BY <1>0, <1>1, <1>9 DEF ResumePrepare, Resumable
  <2>2. /\ state'[a] = state[a] /\ task'[a] = task[a] /\ UNCHANGED <<queue, origin>>
    BY <1>0, <1>9, <2>1 DEF ResumePrepare, Reregister, Goto
  <2>3. /\ \A d \in Callers : d # c => call'[d] = call[d]
        /\ call'[c].at = "resume_build"
    BY <1>0, <1>9 DEF ResumePrepare, Calls
  <2>4. c \notin Senders(a, r) /\ c \notin Senders(a, r)'
    BY <1>9, <2>3 DEF Senders, ResumePrepare
  <2> QED BY <2>2, <2>3, <2>4, CallLeavesRun
<1>10. CASE ResumeSpawn(c) \/ ResumeFails(c)
  <2>1. b \in Agents /\ q \in Runs /\ task[b][q] = "pending"
    BY <1>0, <1>10 DEF ResumeSpawn, ResumeFails, IInv, CallInv, CallOK
  <2>2. PICK place \in {"working", "dropped"} : Goto(b, q, place)
    BY <1>10 DEF ResumeSpawn, ResumeFails
  <2>3. /\ \A d \in Callers : d # c => call'[d] = call[d]
        /\ call'[c].at = "idle"
        /\ UNCHANGED <<state, queue, origin>>
    BY <1>2, <1>10 DEF ResumeSpawn, ResumeFails
  <2>4. c \notin Senders(a, r) /\ c \notin Senders(a, r)'
    BY <1>10, <2>3 DEF Senders, ResumeSpawn, ResumeFails
  <2>5. Unwanted(a)' /\ Senders(a, r)' = Senders(a, r)
    BY <2>3, <2>4, CallLeavesRun
  <2>6. task'[a][r] = IF b = a /\ q = r THEN place ELSE task[a][r]
    <3>1. place \in TaskPlaces
      BY DEF TaskPlaces, TaskSteps, TaskEnded
    <3> QED BY <1>0, <2>1, <2>2, <3>1, GotoPlaces
  <2>7. CASE b = a /\ q = r
    <3>1. StepsLeft(task'[a][r]) < StepsLeft(task[a][r])
      BY <2>1, <2>6, <2>7 DEF StepsLeft, TaskEnded
    <3> QED BY <2>3, <2>5, <3>1 DEF Nearer
  <2> QED BY <2>3, <2>5, <2>6, <2>7 DEF Still
<1>11. CASE \/ WaitSees(c) \/ WaitOutput(c) \/ WaitReturn(c)
            \/ ResumePrepare(c) /\ ~(state[b] \in Resumable /\ runs[b] < MaxRuns)
  <2>1. /\ \A d \in Callers : d # c => call'[d] = call[d]
        /\ call'[c].at \in {"idle", "wait_output", "wait_done"}
        /\ call[c].at \in {"wait_state", "wait_output", "wait_done", "resume_prepare"}
        /\ UNCHANGED <<state, task, queue, origin>>
    BY <1>0, <1>2, <1>11 DEF WaitSees, WaitOutput, WaitReturn, ResumePrepare, Continue, Calls
  <2>2. c \notin Senders(a, r) /\ c \notin Senders(a, r)'
    BY <2>1 DEF Senders
  <2> QED BY <2>1, <2>2, CallLeavesRun
<1> QED
  BY <1>3, <1>4, <1>5, <1>6, <1>7, <1>8, <1>9, <1>10, <1>11 DEF CallStep

(* A call that begins finds no sender of an unwanted child.                *)
LEMMA BeginsWindDown ==
  ASSUME NEW a \in Agents, NEW r \in Runs, IInv, InputInv, Unwanted(a), Alive(a, r),
         NEW c \in Callers, NEW b \in Agents, CallBegins(c, b)
  PROVE  Unwanted(a)' /\ Still(a, r)
<1> USE DEF entry
<1>0. /\ call \in [Callers -> Calls]
      /\ state \in [Agents -> AgentStates]
      /\ task \in [Agents -> [Runs -> TaskPlaces]]
      /\ origin \in [Agents -> {"none", "spawn_agent", "team_create"}]
      /\ Idle.at = "idle"
  BY IdleRecord DEF IInv, TypeOK
<1>1. inputTx[a] = 0 /\ origin[a] # "none" /\ state[a] \in {"Cancelled", "Absent"}
  BY UnwantedFacts
<1>2. CASE TeamDeleteCancel(c, b)
  <2>1. state'[a] = state[a] /\ UNCHANGED <<origin, task, queue, call>>
    BY <1>0, <1>1, <1>2 DEF TeamDeleteCancel, CancelEntry, Live
  <2>2. Still(a, r)
    BY <2>1 DEF Still, Senders
  <2> QED BY <2>1, <2>2, UnwantedFacts, UnwantedStays
<1>3. ASSUME NEW tool \in {"spawn_agent", "team_create"}, SpawnTask(c, b, tool)
      PROVE  Unwanted(a)' /\ Still(a, r)
  <2>1. b # a /\ call[c].at = "idle"
    BY <1>1, <1>3 DEF SpawnTask
  <2>2. /\ \A d \in Callers : d # c => call'[d] = call[d]
        /\ call'[c].agent = b
        /\ origin'[a] = origin[a] /\ task'[a] = task[a] /\ UNCHANGED <<state, queue>>
    BY <1>0, <1>3, <2>1 DEF SpawnTask, Goto
  <2>3. c \notin Senders(a, r) /\ c \notin Senders(a, r)'
    BY <2>1, <2>2 DEF Senders
  <2> QED BY <2>1, <2>2, <2>3, CallLeavesRun
<1>4. CASE \/ SendCheck(c, b) \/ BroadcastGetTx(c, b) \/ ResumeCheck(c, b) \/ WaitBegin(c, b)
           \/ \E remove \in BOOLEAN : CloseCheck(c, b, remove)
  <2>1. /\ \A d \in Callers : d # c => call'[d] = call[d]
        /\ call[c].at = "idle"
        /\ \/ call'[c].at \in {"send_tx", "close_cancel", "close_remove", "resume_prepare",
                               "wait_state"}
           \/ call'[c].at = "send" /\ call'[c].agent = b /\ inputTx[b] # 0
        /\ UNCHANGED <<state, task, queue, origin>>
    BY <1>0, <1>4 DEF SendCheck, BroadcastGetTx, TakeSender, ResumeCheck, WaitBegin,
       CloseCheck, Start
  <2>2. c \notin Senders(a, r) /\ c \notin Senders(a, r)'
    BY <1>1, <2>1 DEF Senders
  <2> QED BY <2>1, <2>2, CallLeavesRun
<1> QED
  BY <1>2, <1>3, <1>4 DEF CallBegins

(* An unwanted child winds down: what is left of its run is used up.       *)
THEOREM UnwantedWindDown == Spec => UnwantedRunsWindDown
<1>1. ASSUME IInv, InputInv, [Next]_vars, NEW a \in Agents, NEW r \in Runs,
             Unwanted(a), Alive(a, r)
      PROVE  /\ Unwanted(a)' \/ ~Alive(a, r)'
             /\ Nearer(a, r) \/ (Still(a, r) /\ ~TaskStep(a, r))
  <2>1. CASE TaskStep(a, r)
    BY <1>1, <2>1, RunWindsDown
  <2>2. CASE ~TaskStep(a, r) /\ Next
    <3>1. CASE \E b \in Agents, q \in Runs : TaskStep(b, q)
      BY <1>1, <2>2, <3>1, OthersLeaveRun
    <3>2. CASE \E c \in Callers : CallStep(c)
      BY <1>1, <2>2, <3>2, CallsWindDown
    <3>3. CASE \E c \in Callers, b \in Agents : CallBegins(c, b)
      BY <1>1, <2>2, <3>3, BeginsWindDown
    <3>4. CASE UNCHANGED vars
      BY <1>1, <2>2, <3>4 DEF vars, entry, Unwanted, Removed, Still, Senders
    <3> QED BY <2>2, <3>1, <3>2, <3>3, <3>4 DEF Next, AllGone
  <2>3. CASE ~TaskStep(a, r) /\ UNCHANGED vars
    BY <1>1, <2>3 DEF vars, entry, Unwanted, Removed, Still, Senders
  <2> QED BY <1>1, <2>1, <2>2, <2>3
<1>2. IInv /\ InputInv /\ [Next]_vars =>
        \A a \in Agents, r \in Runs :
          Unwanted(a) /\ Alive(a, r) =>
            /\ Unwanted(a)' \/ ~Alive(a, r)'
            /\ Nearer(a, r) \/ (Still(a, r) /\ ~TaskStep(a, r))
  BY <1>1
<1> QED
  BY <1>2, InductiveInvariant, LiveChildHasSender, PTL DEF Spec, UnwantedRunsWindDown

(* Only a removal or the verdict of the cancelled run ends "Cancelled".    *)
THEOREM CancelledTillVerdict == Spec => CancelledUntilVerdict
<1> DEFINE Verdict(a) ==
      \/ state'[a] = "Absent"
      \/ /\ runs[a] \in cancelled[a]
         /\ \/ task[a][runs[a]] = "completing" /\ state'[a] = "Completed"
            \/ task[a][runs[a]] = "failing" /\ state'[a] = "Failed"
<1>1. ASSUME IInv, [Next]_vars, NEW a \in Agents, state[a] = "Cancelled",
             state'[a] # "Cancelled"
      PROVE  Verdict(a)
  <2> USE <1>1 DEF entry
  <2>0. /\ state \in [Agents -> AgentStates]
        /\ runs[a] \in cancelled[a]
        /\ \A c \in Callers : call[c].at # "idle" => call[c].agent \in Agents
    BY CallHasAgent DEF IInv, TypeOK, EntryInv
  <2>1. ASSUME NEW b \in Agents, NEW r \in Runs, TaskStep(b, r)
        PROVE  Verdict(a)
    <3>1. \/ MarkCompleted(b, r) /\ b = a /\ state'[a] = "Completed"
          \/ MarkFailed(b, r) /\ b = a /\ state'[a] = "Failed"
      BY <2>0, <2>1
      DEF TaskStep, TaskStart, TaskPanics, RoundEnds, UpdateOutput, MarkAwaitingInput, ReceiveInput,
          ReceiveNothing, MarkRunningAgain, WriteFinalStatus, MarkCompleted, MarkFailed
    <3>2. r = runs[a]
      BY <3>1, StepOfLastRun DEF MarkCompleted, MarkFailed, TaskSteps
    <3> QED BY <2>0, <3>1, <3>2 DEF MarkCompleted, MarkFailed
  <2>2. ASSUME NEW b \in Agents, CancelEntry(b)
        PROVE  FALSE
    BY <2>0, <2>2 DEF CancelEntry
  <2>3. ASSUME NEW c \in Callers, CallStep(c)
        PROVE  Verdict(a)
    <3>1. CASE CloseCancel(c)
      BY <2>0, <2>2, <3>1 DEF CloseCancel
    <3>2. CASE CloseRemove(c)
      BY <2>0, <3>2 DEF CloseRemove
    <3>3. CASE SpawnInsert(c)
      <4>1. call[c].agent # a
        BY <3>3 DEF SpawnInsert, IInv, CallInv, CallOK
      <4> QED BY <2>0, <3>3, <4>1 DEF SpawnInsert
    <3>4. CASE ResumePrepare(c)
      BY <2>0, <3>4 DEF ResumePrepare, Reregister, Resumable
    <3>5. CASE state' = state
      BY <3>5
    <3> QED
      BY <2>3, <3>1, <3>2, <3>3, <3>4, <3>5
      DEF CallStep, SendGetTx, SendMessage, ResumeSpawn, ResumeFails, WaitSees,
          WaitOutput, WaitReturn
  <2>4. ASSUME NEW c \in Callers, NEW b \in Agents, CallBegins(c, b)
        PROVE  Verdict(a)
    BY <2>2, <2>4
    DEF CallBegins, SpawnTask, SendCheck, BroadcastGetTx, CloseCheck, TeamDeleteCancel,
        ResumeCheck, WaitBegin
  <2> QED
    BY <2>1, <2>3, <2>4 DEF Next, AllGone, vars
<1>2. IInv /\ [Next]_vars =>
        \A a \in Agents : state[a] = "Cancelled" /\ state'[a] # "Cancelled" =>
          \/ state'[a] = "Absent"
          \/ /\ runs[a] \in cancelled[a]
             /\ \/ task[a][runs[a]] = "completing" /\ state'[a] = "Completed"
                \/ task[a][runs[a]] = "failing" /\ state'[a] = "Failed"
  BY <1>1
<1> QED
  BY <1>2, InductiveInvariant, PTL DEF Spec, CancelledUntilVerdict

=============================================================================
