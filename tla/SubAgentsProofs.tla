------------------------ MODULE SubAgentsProofs --------------------------
(***************************************************************************)
(* Proofs about SubAgents, for every set of children and of callers and    *)
(* every bound.  The inductive invariant says that the only run of a child *)
(* that can be alive is the last one, that the table points at that run,   *)
(* and what a call that is between two of its steps may rely on.           *)
(***************************************************************************)
EXTENDS SubAgents, TLAPS

(* Runs beyond the last have not begun, and only the last can be alive.    *)
TaskInv ==
  \A a \in Agents :
    /\ origin[a] = "none" <=> runs[a] = 0
    /\ \A r \in Runs : /\ r > runs[a] => task[a][r] = "none"
                       /\ Alive(a, r) => r = runs[a]

(* What an entry of the table says about the last run of its child.        *)
EntryInv ==
  \A a \in Agents :
    /\ state[a] # "Absent" => runs[a] > 0 /\ token[a] = runs[a]
    /\ state[a] \in Resumable => \A r \in Runs : ~Alive(a, r)
    /\ state[a] = "Cancelled" => token[a] \in cancelled[a]
    /\ output[a] \in {0, runs[a]}

(* A spawn call about to insert finds no entry, and a resume call about to *)
(* start its task finds that run registered and not begun.                 *)
CallOK(c) ==
  LET a == call[c].agent
      r == call[c].run IN
  /\ call[c].at # "idle" => a \in Agents
  /\ call[c].at = "insert" => runs[a] = 1 /\ state[a] = "Absent"
  /\ call[c].at = "resume_build" => r \in Runs /\ task[a][r] = "pending"
  /\ call[c].at = "send" => r \in Runs

(* No two calls are about to insert the same child or to start its task.   *)
OneStarter ==
  \A c, d \in Callers :
    /\ call[c].at \in {"insert", "resume_build"}
    /\ call[d].at = call[c].at
    /\ call[d].agent = call[c].agent
    => c = d

CallInv == OneStarter /\ \A c \in Callers : CallOK(c)

IInv == TypeOK /\ TaskInv /\ EntryInv /\ CallInv

(* The program starts with an empty table and no call in flight.           *)
LEMMA InitInv == Init => IInv
  BY BoundsAssumption, NoAgentAssumption
  DEF Init, IInv, TypeOK, TaskInv, EntryInv, CallInv, CallOK, OneStarter, Alive, HoldsReceiver,
      TaskEnded, Runs, RunOrNone, AgentStates, Live, Resumable, Files, TaskPlaces,
      TaskSteps, Calls, CallPlaces, Idle

(* What Goto does to the place of every task.                              *)
LEMMA GotoPlaces ==
  ASSUME NEW a \in Agents, NEW r \in Runs, NEW place \in TaskPlaces,
         task \in [Agents -> [Runs -> TaskPlaces]], Goto(a, r, place)
  PROVE  /\ task' \in [Agents -> [Runs -> TaskPlaces]]
         /\ \A b \in Agents, q \in Runs :
              task'[b][q] = IF b = a /\ q = r THEN place ELSE task[b][q]
  BY DEF Goto

(* A write of a status file leaves a status file.                          *)
LEMMA FileWritten ==
  ASSUME NEW a \in Agents, NEW r \in Runs, NEW says \in {"Running", "Completed", "Failed"},
         file \in [Agents -> Files], WriteStatus(a, r, says)
  PROVE  /\ file' \in [Agents -> Files]
         /\ \A b \in Agents : \/ file'[b] = file[b]
                              \/ /\ b = a /\ WritesFile(a, r)
                                 /\ \/ file'[b].missed /\ file'[b].says = file[b].says
                                    \/ ~file'[b].missed /\ file'[b].says = says
<1>1. CASE WritesFile(a, r)
  <2>1. PICK missed \in BOOLEAN :
          file' = [file EXCEPT ![a] = [says |-> IF missed THEN @.says ELSE says, missed |-> missed]]
    BY <1>1 DEF WriteStatus
  <2> DEFINE new == [says |-> IF missed THEN file[a].says ELSE says, missed |-> missed]
  <2>2. new \in Files /\ new.missed = missed /\ new.says = IF missed THEN file[a].says ELSE says
    BY DEF Files, Resumable
  <2>3. \A b \in Agents : file'[b] = IF b = a THEN new ELSE file[b]
    BY <2>1
  <2>4. file' \in [Agents -> Files]
    BY <2>1, <2>2
  <2> QED BY <1>1, <2>2, <2>3, <2>4
<1>2. CASE ~WritesFile(a, r)
  BY <1>2 DEF WriteStatus
<1> QED BY <1>1, <1>2

(* A task that moves on keeps the invariant of the runs and of the calls,  *)
(* brings no run to life, and leaves none alive when it ends.              *)
LEMMA TaskMoves ==
  ASSUME NEW a \in Agents, NEW r \in Runs, NEW place \in TaskSteps \cup TaskEnded,
         IInv, task[a][r] \in TaskSteps, Goto(a, r, place),
         UNCHANGED <<origin, runs, call>>,
         \A b \in Agents : state[b] = "Absent" => state'[b] = "Absent"
  PROVE  /\ task' \in [Agents -> [Runs -> TaskPlaces]]
         /\ TaskInv'
         /\ CallInv'
         /\ r = runs[a]
         /\ \A b \in Agents, q \in Runs : Alive(b, q)' => Alive(b, q)
         /\ place \in TaskEnded => \A q \in Runs : ~Alive(a, q)'
<1>1. /\ task' \in [Agents -> [Runs -> TaskPlaces]]
      /\ \A b \in Agents, q \in Runs :
           task'[b][q] = IF b = a /\ q = r THEN place ELSE task[b][q]
  <2>1. place \in TaskPlaces /\ task \in [Agents -> [Runs -> TaskPlaces]]
    BY DEF IInv, TypeOK, TaskPlaces
  <2> QED BY <2>1, GotoPlaces
<1>2. r = runs[a] /\ Alive(a, r)
  BY DEF IInv, TaskInv, Alive, HoldsReceiver, TaskSteps, TaskEnded
<1>3. \A b \in Agents, q \in Runs : Alive(b, q)' => Alive(b, q)
  BY <1>1, <1>2 DEF Alive, HoldsReceiver
<1>4. TaskInv'
  BY <1>1, <1>2, <1>3 DEF IInv, TaskInv, TypeOK, Runs, RunOrNone
<1>5. CallInv'
  <2>1. OneStarter'
    BY DEF IInv, CallInv, OneStarter
  <2>2. ASSUME NEW c \in Callers
        PROVE  CallOK(c)'
    BY <1>1 DEF IInv, CallInv, CallOK, TaskSteps
  <2> QED BY <2>1, <2>2 DEF CallInv
<1>6. place \in TaskEnded => \A q \in Runs : ~Alive(a, q)'
  BY <1>1, <1>2, <1>3 DEF IInv, TaskInv, Alive, HoldsReceiver
<1> QED BY <1>1, <1>2, <1>3, <1>4, <1>5, <1>6

(* Every step of a task keeps the invariant.                               *)
LEMMA TaskStepInv ==
  ASSUME NEW a \in Agents, NEW r \in Runs, IInv, TaskStep(a, r)
  PROVE  IInv'
<1> USE DEF entry
<1>1. CASE TaskStart(a, r)
  <2>1. Goto(a, r, "working") /\ task[a][r] \in TaskSteps
    BY <1>1 DEF TaskStart, TaskSteps
  <2>2. TaskInv' /\ CallInv' /\ task' \in [Agents -> [Runs -> TaskPlaces]]
        /\ \A b \in Agents, q \in Runs : Alive(b, q)' => Alive(b, q)
    BY <1>1, <2>1, TaskMoves DEF TaskStart, TaskSteps
  <2>5. file' \in [Agents -> Files]
    BY <1>1, FileWritten DEF TaskStart, IInv, TypeOK
  <2>3. TypeOK'
    BY <1>1, <2>2, <2>5 DEF TaskStart, IInv, TypeOK
  <2>4. EntryInv'
    BY <1>1, <2>2 DEF TaskStart, IInv, EntryInv
  <2> QED BY <2>2, <2>3, <2>4 DEF IInv
<1>11. CASE TaskPanics(a, r)
  <2>1. Goto(a, r, "dropped") /\ task[a][r] \in TaskSteps
    BY <1>11 DEF TaskPanics, TaskSteps
  <2>2. TaskInv' /\ CallInv' /\ task' \in [Agents -> [Runs -> TaskPlaces]]
        /\ \A b \in Agents, q \in Runs : Alive(b, q)' => Alive(b, q)
    BY <1>11, <2>1, TaskMoves DEF TaskPanics, TaskEnded
  <2>3. TypeOK'
    BY <1>11, <2>2 DEF TaskPanics, IInv, TypeOK
  <2>4. EntryInv'
    BY <1>11, <2>2 DEF TaskPanics, IInv, EntryInv
  <2> QED BY <2>2, <2>3, <2>4 DEF IInv
<1>2. CASE RoundEnds(a, r)
  <2>1. PICK place \in {"reporting", "aborting"} : Goto(a, r, place)
    BY <1>2 DEF RoundEnds
  <2>2. place \in TaskSteps /\ task[a][r] \in TaskSteps
    BY <1>2 DEF RoundEnds, TaskSteps
  <2>3. TaskInv' /\ CallInv' /\ task' \in [Agents -> [Runs -> TaskPlaces]]
        /\ \A b \in Agents, q \in Runs : Alive(b, q)' => Alive(b, q)
    BY <1>2, <2>1, <2>2, TaskMoves DEF RoundEnds
  <2>4. TypeOK'
    BY <1>2, <2>3 DEF RoundEnds, IInv, TypeOK
  <2>5. EntryInv'
    BY <1>2, <2>3 DEF RoundEnds, IInv, EntryInv
  <2> QED BY <2>3, <2>4, <2>5 DEF IInv
<1>3. CASE UpdateOutput(a, r)
  <2>1. Goto(a, r, "pausing") /\ task[a][r] \in TaskSteps
    BY <1>3 DEF UpdateOutput, TaskSteps
  <2>2. TaskInv' /\ CallInv' /\ task' \in [Agents -> [Runs -> TaskPlaces]]
        /\ \A b \in Agents, q \in Runs : Alive(b, q)' => Alive(b, q)
    BY <1>3, <2>1, TaskMoves DEF UpdateOutput, TaskSteps
  <2>3. r = runs[a]
    BY <1>3, <2>1, TaskMoves DEF UpdateOutput, TaskSteps
  <2>4. output' \in [Agents -> RunOrNone]
    <3>1. output \in [Agents -> RunOrNone] /\ r \in RunOrNone
      BY DEF IInv, TypeOK, Runs, RunOrNone
    <3> QED BY <1>3, <3>1 DEF UpdateOutput
  <2>7. file' \in [Agents -> Files]
    BY <1>3, FileWritten DEF UpdateOutput, IInv, TypeOK
  <2>6. TypeOK'
    BY <1>3, <2>2, <2>4, <2>7 DEF UpdateOutput, IInv, TypeOK
  <2>5. EntryInv'
    BY <1>3, <2>2, <2>3 DEF UpdateOutput, IInv, EntryInv, TypeOK
  <2> QED BY <2>2, <2>5, <2>6 DEF IInv
<1>4. CASE MarkAwaitingInput(a, r)
  <2>1. Goto(a, r, "waiting") /\ task[a][r] \in TaskSteps
    BY <1>4 DEF MarkAwaitingInput, TaskSteps
  <2>2. \A b \in Agents : state'[b] = state[b]
                          \/ (state[b] = "Running" /\ state'[b] = "AwaitingInput")
    <3>1. state \in [Agents -> AgentStates]
      BY DEF IInv, TypeOK
    <3> QED BY <1>4, <3>1 DEF MarkAwaitingInput
  <2>3. TaskInv' /\ CallInv' /\ task' \in [Agents -> [Runs -> TaskPlaces]]
        /\ \A b \in Agents, q \in Runs : Alive(b, q)' => Alive(b, q)
    BY <1>4, <2>1, <2>2, TaskMoves DEF MarkAwaitingInput, TaskSteps
  <2>4. TypeOK'
    BY <1>4, <2>3 DEF MarkAwaitingInput, IInv, TypeOK, AgentStates, Live
  <2>5. EntryInv'
    BY <1>4, <2>2, <2>3 DEF MarkAwaitingInput, IInv, EntryInv, Resumable
  <2> QED BY <2>3, <2>4, <2>5 DEF IInv
<1>5. CASE ReceiveInput(a, r)
  <2>1. PICK place \in {"rearming", "working"} : Goto(a, r, place)
    BY <1>5 DEF ReceiveInput
  <2>2. place \in TaskSteps /\ task[a][r] \in TaskSteps
    BY <1>5 DEF ReceiveInput, TaskSteps
  <2>3. TaskInv' /\ CallInv' /\ task' \in [Agents -> [Runs -> TaskPlaces]]
        /\ \A b \in Agents, q \in Runs : Alive(b, q)' => Alive(b, q)
    BY <1>5, <2>1, <2>2, TaskMoves DEF ReceiveInput
  <2>4. queue' \in [Agents -> [Runs -> 0 .. MaxQueue]]
    BY <1>5, BoundsAssumption DEF ReceiveInput, IInv, TypeOK
  <2>5. TypeOK'
    BY <1>5, <2>3, <2>4 DEF ReceiveInput, IInv, TypeOK
  <2>6. EntryInv'
    BY <1>5, <2>3 DEF ReceiveInput, IInv, EntryInv
  <2> QED BY <2>3, <2>5, <2>6 DEF IInv
<1>6. CASE ReceiveNothing(a, r)
  <2>1. Goto(a, r, "ending") /\ task[a][r] \in TaskSteps
    BY <1>6 DEF ReceiveNothing, TaskSteps
  <2>2. TaskInv' /\ CallInv' /\ task' \in [Agents -> [Runs -> TaskPlaces]]
        /\ \A b \in Agents, q \in Runs : Alive(b, q)' => Alive(b, q)
    BY <1>6, <2>1, TaskMoves DEF ReceiveNothing, TaskSteps
  <2>3. TypeOK'
    BY <1>6, <2>2 DEF ReceiveNothing, IInv, TypeOK
  <2>4. EntryInv'
    BY <1>6, <2>2 DEF ReceiveNothing, IInv, EntryInv
  <2> QED BY <2>2, <2>3, <2>4 DEF IInv
<1>7. CASE MarkRunningAgain(a, r)
  <2>1. Goto(a, r, "working") /\ task[a][r] \in TaskSteps
    BY <1>7 DEF MarkRunningAgain, TaskSteps
  <2>2. \A b \in Agents : state'[b] = state[b]
                          \/ (state[b] = "AwaitingInput" /\ state'[b] = "Running")
    <3>1. state \in [Agents -> AgentStates]
      BY DEF IInv, TypeOK
    <3> QED BY <1>7, <3>1 DEF MarkRunningAgain
  <2>3. TaskInv' /\ CallInv' /\ task' \in [Agents -> [Runs -> TaskPlaces]]
        /\ \A b \in Agents, q \in Runs : Alive(b, q)' => Alive(b, q)
    BY <1>7, <2>1, <2>2, TaskMoves DEF MarkRunningAgain, TaskSteps
  <2>4. TypeOK'
    BY <1>7, <2>3 DEF MarkRunningAgain, IInv, TypeOK, AgentStates, Live
  <2>5. EntryInv'
    BY <1>7, <2>2, <2>3 DEF MarkRunningAgain, IInv, EntryInv, Resumable
  <2> QED BY <2>3, <2>4, <2>5 DEF IInv
<1>8. CASE WriteFinalStatus(a, r)
  <2>1. PICK place \in {"completing", "failing"} : Goto(a, r, place)
    BY <1>8 DEF WriteFinalStatus
  <2>2. place \in TaskSteps /\ task[a][r] \in TaskSteps
    BY <1>8 DEF WriteFinalStatus, TaskSteps
  <2>3. TaskInv' /\ CallInv' /\ task' \in [Agents -> [Runs -> TaskPlaces]]
        /\ \A b \in Agents, q \in Runs : Alive(b, q)' => Alive(b, q)
    BY <1>8, <2>1, <2>2, TaskMoves DEF WriteFinalStatus
  <2>4. file' \in [Agents -> Files]
    BY <1>8, FileWritten DEF WriteFinalStatus, IInv, TypeOK
  <2>5. TypeOK'
    BY <1>8, <2>3, <2>4 DEF WriteFinalStatus, IInv, TypeOK
  <2>6. EntryInv'
    BY <1>8, <2>3 DEF WriteFinalStatus, IInv, EntryInv
  <2> QED BY <2>3, <2>5, <2>6 DEF IInv
<1>9. CASE MarkCompleted(a, r)
  <2>1. Goto(a, r, "done") /\ task[a][r] \in TaskSteps /\ "done" \in TaskEnded
    BY <1>9 DEF MarkCompleted, TaskSteps, TaskEnded
  <2>2. \A b \in Agents : state'[b] = state[b]
                          \/ (b = a /\ state[b] # "Absent" /\ state'[b] = "Completed")
    <3>1. state \in [Agents -> AgentStates]
      BY DEF IInv, TypeOK
    <3> QED BY <1>9, <3>1 DEF MarkCompleted
  <2>3. TaskInv' /\ CallInv' /\ task' \in [Agents -> [Runs -> TaskPlaces]]
        /\ r = runs[a]
        /\ \A b \in Agents, q \in Runs : Alive(b, q)' => Alive(b, q)
        /\ \A p \in Runs : ~Alive(a, p)'
    BY <1>9, <2>1, <2>2, TaskMoves DEF MarkCompleted
  <2>4. TypeOK'
    <3>1. /\ state \in [Agents -> AgentStates]
          /\ output \in [Agents -> RunOrNone]
          /\ inputTx \in [Agents -> RunOrNone]
          /\ r \in RunOrNone /\ 0 \in RunOrNone /\ "Completed" \in AgentStates
      BY BoundsAssumption DEF IInv, TypeOK, Runs, RunOrNone, AgentStates, Resumable
    <3>2. /\ state' \in [Agents -> AgentStates]
          /\ output' \in [Agents -> RunOrNone]
          /\ inputTx' \in [Agents -> RunOrNone]
      BY <1>9, <3>1 DEF MarkCompleted
    <3> QED BY <1>9, <2>3, <3>2 DEF MarkCompleted, IInv, TypeOK
  <2>5. output' = [output EXCEPT ![a] = r] \/ output' = output
    BY <1>9 DEF MarkCompleted
  <2>6. EntryInv'
    <3>1. \A b \in Agents : output'[b] = output[b] \/ (b = a /\ output'[b] = r)
      BY <2>5 DEF IInv, TypeOK
    <3> QED BY <1>9, <2>2, <2>3, <3>1 DEF MarkCompleted, IInv, EntryInv
  <2> QED BY <2>3, <2>4, <2>6 DEF IInv
<1>10. CASE MarkFailed(a, r)
  <2>1. Goto(a, r, "failed") /\ task[a][r] \in TaskSteps /\ "failed" \in TaskEnded
    BY <1>10 DEF MarkFailed, TaskSteps, TaskEnded
  <2>2. \A b \in Agents : state'[b] = state[b]
                          \/ (b = a /\ state[b] # "Absent" /\ state'[b] = "Failed")
    <3>1. state \in [Agents -> AgentStates]
      BY DEF IInv, TypeOK
    <3> QED BY <1>10, <3>1 DEF MarkFailed
  <2>3. TaskInv' /\ CallInv' /\ task' \in [Agents -> [Runs -> TaskPlaces]]
        /\ \A b \in Agents, q \in Runs : Alive(b, q)' => Alive(b, q)
        /\ \A p \in Runs : ~Alive(a, p)'
    BY <1>10, <2>1, <2>2, TaskMoves DEF MarkFailed
  <2>4. TypeOK'
    <3>1. /\ state \in [Agents -> AgentStates]
          /\ inputTx \in [Agents -> RunOrNone]
          /\ 0 \in RunOrNone /\ "Failed" \in AgentStates
      BY BoundsAssumption DEF IInv, TypeOK, Runs, RunOrNone, AgentStates, Resumable
    <3>2. state' \in [Agents -> AgentStates] /\ inputTx' \in [Agents -> RunOrNone]
      BY <1>10, <3>1 DEF MarkFailed
    <3> QED BY <1>10, <2>3, <3>2 DEF MarkFailed, IInv, TypeOK
  <2>5. EntryInv'
    BY <1>10, <2>2, <2>3 DEF MarkFailed, IInv, EntryInv
  <2> QED BY <2>3, <2>4, <2>5 DEF IInv
<1> QED
  BY <1>1, <1>2, <1>3, <1>4, <1>5, <1>6, <1>7, <1>8, <1>9, <1>10, <1>11 DEF TaskStep

-----------------------------------------------------------------------------
(* The record of a caller that is idle.                                    *)
LEMMA IdleRecord == Idle \in Calls /\ Idle.at = "idle"
  BY BoundsAssumption DEF Idle, Calls, CallPlaces, RunOrNone

(* A call that moves on to a step that is neither insert nor resume_build  *)
(* keeps the invariant of the runs and of the calls.                       *)
LEMMA CallMoves ==
  ASSUME NEW c \in Callers, NEW rec \in Calls, IInv,
         call' = [call EXCEPT ![c] = rec],
         rec.at \notin {"insert", "resume_build"},
         rec.at # "idle" => rec.agent \in Agents,
         rec.at = "send" => rec.run \in Runs,
         UNCHANGED <<origin, runs, task>>,
         \A b \in Agents : state[b] = "Absent" => state'[b] = "Absent"
  PROVE  /\ call' \in [Callers -> Calls]
         /\ TaskInv'
         /\ CallInv'
         /\ \A b \in Agents, q \in Runs : Alive(b, q)' <=> Alive(b, q)
<1>1. call \in [Callers -> Calls]
  BY DEF IInv, TypeOK
<1>2. \A d \in Callers : call'[d] = IF d = c THEN rec ELSE call[d]
  BY <1>1
<1>3. TaskInv'
  BY DEF IInv, TaskInv, Alive, HoldsReceiver
<1>4. OneStarter'
  BY <1>2 DEF IInv, CallInv, OneStarter
<1>5. ASSUME NEW d \in Callers
      PROVE  CallOK(d)'
  BY <1>2 DEF IInv, CallInv, CallOK
<1> QED BY <1>1, <1>3, <1>4, <1>5 DEF CallInv, Alive, HoldsReceiver

(* When nothing but the call and perhaps a queue changes, the whole        *)
(* invariant is kept.                                                      *)
LEMMA CallOnly ==
  ASSUME NEW c \in Callers, NEW rec \in Calls, IInv,
         call' = [call EXCEPT ![c] = rec],
         rec.at \notin {"insert", "resume_build"},
         rec.at # "idle" => rec.agent \in Agents,
         rec.at = "send" => rec.run \in Runs,
         UNCHANGED <<origin, runs, task, entry, cancelled, file>>,
         queue' \in [Agents -> [Runs -> 0 .. MaxQueue]]
  PROVE  IInv'
<1> USE DEF entry
<1>1. /\ call' \in [Callers -> Calls]
      /\ TaskInv'
      /\ CallInv'
      /\ \A b \in Agents, q \in Runs : Alive(b, q)' <=> Alive(b, q)
  BY CallMoves
<1>2. TypeOK'
  BY <1>1 DEF IInv, TypeOK
<1>3. EntryInv'
  BY <1>1 DEF IInv, EntryInv
<1> QED BY <1>1, <1>2, <1>3 DEF IInv

(* A call between two steps names a child.                                 *)
LEMMA CallHasAgent ==
  ASSUME NEW c \in Callers, IInv, call[c].at # "idle"
  PROVE  call[c].agent \in Agents
  BY DEF IInv, CallInv, CallOK

(* What cancel does to the entries and to the tokens.                      *)
EntryChange(a) ==
  /\ state' \in [Agents -> AgentStates]
  /\ inputTx' \in [Agents -> RunOrNone]
  /\ cancelled' \in [Agents -> SUBSET Runs]
  /\ UNCHANGED <<token, output>>
  /\ \A b \in Agents :
       /\ cancelled[b] \subseteq cancelled'[b]
       /\ \/ state'[b] = state[b]
          \/ /\ state[b] # "Absent"
             /\ state'[b] = "Cancelled"
             /\ token[b] \in cancelled'[b]

(* Cancelling a child keeps what the entries say: the token fired is the   *)
(* one of the child's last run.                                            *)
LEMMA CancelKeeps ==
  ASSUME NEW a \in Agents, IInv, CancelEntry(a)
  PROVE  EntryChange(a)
<1>1. /\ state \in [Agents -> AgentStates]
      /\ inputTx \in [Agents -> RunOrNone]
      /\ cancelled \in [Agents -> SUBSET Runs]
      /\ "Cancelled" \in AgentStates
      /\ 0 \in RunOrNone
  BY BoundsAssumption DEF IInv, TypeOK, AgentStates, RunOrNone
<1>2. CASE state[a] \in Live
  <2>1. token[a] \in Runs
    <3>1. token[a] \in RunOrNone
      BY DEF IInv, TypeOK
    <3>2. token[a] > 0
      BY <1>2 DEF IInv, EntryInv, Live
    <3> QED BY <3>1, <3>2, BoundsAssumption DEF Runs, RunOrNone
  <2> QED BY <1>1, <1>2, <2>1 DEF CancelEntry, EntryChange, Live
<1>3. CASE state[a] \notin Live
  BY <1>1, <1>3 DEF CancelEntry, EntryChange, entry
<1> QED BY <1>2, <1>3

(* A change of the table that keeps the entries' part of the invariant and *)
(* moves neither a run nor a task keeps the whole of it.                   *)
LEMMA EntryKeeps ==
  ASSUME NEW a \in Agents, IInv, EntryChange(a),
         UNCHANGED <<origin, runs, task, queue, file>>,
         call' \in [Callers -> Calls], TaskInv', CallInv',
         \A b \in Agents, q \in Runs : Alive(b, q)' <=> Alive(b, q)
  PROVE  IInv'
<1>1. TypeOK'
  BY DEF IInv, TypeOK, EntryChange
<1>2. EntryInv'
  BY DEF IInv, EntryInv, EntryChange, Resumable
<1> QED BY <1>1, <1>2 DEF IInv

(* prepare_resume: no run of the child is alive, so the new one is alone.  *)
LEMMA ResumePrepareInv ==
  ASSUME NEW c \in Callers, IInv, ResumePrepare(c),
         call[c].agent \in Agents,
         state[call[c].agent] \in Resumable,
         runs[call[c].agent] < MaxRuns
  PROVE  IInv'
<1> DEFINE a == call[c].agent
           r == runs[a] + 1
<1>1. /\ r \in Runs /\ r \in RunOrNone /\ 0 \in RunOrNone
      /\ "pending" \in TaskPlaces /\ "Running" \in AgentStates
      /\ a \in Agents
  BY BoundsAssumption DEF IInv, TypeOK, Runs, RunOrNone, TaskPlaces, AgentStates, Live
<1>2. /\ Reregister(a, r)
      /\ runs' = [runs EXCEPT ![a] = r]
      /\ Goto(a, r, "pending")
      /\ call' = [call EXCEPT ![c] = [call[c] EXCEPT !.at = "resume_build", !.run = r]]
      /\ UNCHANGED <<origin, cancelled, queue, file>>
  BY DEF ResumePrepare
<1>3. /\ call \in [Callers -> Calls]
      /\ task \in [Agents -> [Runs -> TaskPlaces]]
      /\ runs \in [Agents -> RunOrNone]
  BY DEF IInv, TypeOK
<1>4. /\ task' \in [Agents -> [Runs -> TaskPlaces]]
      /\ \A b \in Agents, q \in Runs :
           task'[b][q] = IF b = a /\ q = r THEN "pending" ELSE task[b][q]
  BY <1>1, <1>2, <1>3, GotoPlaces
<1>5. /\ \A q \in Runs : ~Alive(a, q)
      /\ runs[a] > 0
  BY DEF IInv, EntryInv, Resumable
<1>6. \A b \in Agents : /\ runs'[b] = IF b = a THEN r ELSE runs[b]
                        /\ state'[b] = IF b = a THEN "Running" ELSE state[b]
                        /\ token'[b] = IF b = a THEN r ELSE token[b]
                        /\ output'[b] = IF b = a THEN 0 ELSE output[b]
  BY <1>1, <1>2, <1>3 DEF Reregister, IInv, TypeOK
<1>7. /\ call' \in [Callers -> Calls]
      /\ \A d \in Callers : d # c => call'[d] = call[d]
      /\ call'[c].at = "resume_build" /\ call'[c].agent = a /\ call'[c].run = r
  BY <1>1, <1>2, <1>3 DEF Calls, CallPlaces
<1>8. TypeOK'
  BY <1>1, <1>2, <1>4, <1>7 DEF Reregister, IInv, TypeOK
<1>9. TaskInv'
  <2>1. ASSUME NEW b \in Agents, NEW q \in Runs, Alive(b, q)'
        PROVE  q = runs'[b]
    <3>1. CASE b = a
      BY <1>1, <1>4, <1>5, <1>6, <2>1, <3>1 DEF Alive, HoldsReceiver
    <3>2. CASE b # a
      BY <1>4, <1>6, <2>1, <3>2 DEF IInv, TaskInv, Alive, HoldsReceiver
    <3> QED BY <3>1, <3>2
  <2>2. ASSUME NEW b \in Agents, NEW q \in Runs, q > runs'[b]
        PROVE  task'[b][q] = "none"
    BY <1>3, <1>4, <1>6, <2>2 DEF IInv, TaskInv, Runs, RunOrNone
  <2>3. ASSUME NEW b \in Agents
        PROVE  origin'[b] = "none" <=> runs'[b] = 0
    BY <1>1, <1>2, <1>3, <1>5, <1>6 DEF IInv, TaskInv, RunOrNone
  <2> QED BY <2>1, <2>2, <2>3 DEF TaskInv
<1>10. EntryInv'
  <2>1. ASSUME NEW b \in Agents, NEW q \in Runs, b # a
        PROVE  Alive(b, q)' => Alive(b, q)
    BY <1>4, <2>1 DEF Alive, HoldsReceiver
  <2>2. r > 0
    BY <1>3, <1>5 DEF RunOrNone
  <2> QED BY <1>1, <1>2, <1>6, <2>1, <2>2 DEF IInv, EntryInv, Resumable
<1>11. ASSUME NEW d \in Callers, d # c, call[d].agent = a
       PROVE  call[d].at \notin {"insert", "resume_build"}
  BY <1>5, <1>11 DEF IInv, CallInv, CallOK, Alive, HoldsReceiver, TaskEnded, Resumable
<1>12. OneStarter'
  BY <1>7, <1>11 DEF IInv, CallInv, OneStarter
<1>13. ASSUME NEW d \in Callers
       PROVE  CallOK(d)'
  <2>1. CASE d = c
    BY <1>1, <1>4, <1>7, <2>1 DEF CallOK
  <2>2. CASE d # c
    BY <1>1, <1>4, <1>6, <1>7, <1>11, <2>2 DEF IInv, CallInv, CallOK
  <2> QED BY <2>1, <2>2
<1> QED BY <1>8, <1>9, <1>10, <1>12, <1>13 DEF IInv, CallInv

(* The places the two ends of resume_agent move a task to.                 *)
LEMMA TaskPlacesFacts ==
  /\ {"working", "dropped"} \subseteq TaskPlaces \ {"none"}
  /\ "working" \in TaskSteps
  BY DEF TaskPlaces, TaskSteps, TaskEnded

(* The resume call starts the task of the run it registered, or drops it.  *)
LEMMA ResumeEndsInv ==
  ASSUME NEW c \in Callers, NEW place \in {"working", "dropped"}, IInv,
         call[c].at = "resume_build",
         Goto(call[c].agent, call[c].run, place),
         Return(c),
         UNCHANGED <<origin, runs, entry, cancelled, queue, file>>
  PROVE  IInv'
<1> DEFINE a == call[c].agent
           r == call[c].run
<1> USE DEF entry
<1>1. /\ a \in Agents /\ r \in Runs
      /\ task[a][r] = "pending"
      /\ place \in TaskPlaces
  BY TaskPlacesFacts DEF IInv, CallInv, CallOK
<1>2. /\ call \in [Callers -> Calls]
      /\ task \in [Agents -> [Runs -> TaskPlaces]]
  BY DEF IInv, TypeOK
<1>3. /\ task' \in [Agents -> [Runs -> TaskPlaces]]
      /\ \A b \in Agents, q \in Runs :
           task'[b][q] = IF b = a /\ q = r THEN place ELSE task[b][q]
  BY <1>1, <1>2, GotoPlaces
<1>4. Idle \in Calls /\ Idle.at = "idle"
  BY IdleRecord
<1>5. /\ call' \in [Callers -> Calls]
      /\ \A d \in Callers : call'[d] = IF d = c THEN Idle ELSE call[d]
  BY <1>2, <1>4 DEF Return
<1>6. r = runs[a] /\ Alive(a, r)
  BY <1>1 DEF IInv, TaskInv, Alive, HoldsReceiver, TaskEnded
<1>7. \A b \in Agents, q \in Runs : Alive(b, q)' => Alive(b, q)
  BY <1>1, <1>3, <1>6 DEF Alive, HoldsReceiver
<1>8. TypeOK'
  BY <1>3, <1>5 DEF IInv, TypeOK
<1>9. TaskInv'
  BY <1>1, <1>3, <1>6, <1>7 DEF IInv, TaskInv, TypeOK, Runs, RunOrNone
<1>10. EntryInv'
  BY <1>7 DEF IInv, EntryInv
<1>11. OneStarter'
  BY <1>4, <1>5 DEF IInv, CallInv, OneStarter
<1>12. ASSUME NEW d \in Callers
       PROVE  CallOK(d)'
  <2>1. d # c /\ call[d].at = "resume_build" => ~(call[d].agent = a)
    BY DEF IInv, CallInv, OneStarter
  <2> QED BY <1>3, <1>4, <1>5, <2>1 DEF IInv, CallInv, CallOK
<1> QED BY <1>8, <1>9, <1>10, <1>11, <1>12 DEF IInv, CallInv

(* Every step of a call that has begun keeps the invariant.                *)
LEMMA CallStepInv ==
  ASSUME NEW c \in Callers, IInv, CallStep(c)
  PROVE  IInv'
<1> DEFINE a == call[c].agent
<1> USE DEF entry
<1>0. /\ call \in [Callers -> Calls]
      /\ queue \in [Agents -> [Runs -> 0 .. MaxQueue]]
      /\ inputTx \in [Agents -> RunOrNone]
      /\ state \in [Agents -> AgentStates]
  BY DEF IInv, TypeOK
<1>i. Idle \in Calls /\ Idle.at = "idle"
  BY IdleRecord
<1>1. CASE SpawnInsert(c)
  <2>1. /\ a \in Agents
        /\ runs[a] = 1
        /\ state[a] = "Absent"
        /\ 1 \in RunOrNone /\ 0 \in RunOrNone /\ "Running" \in AgentStates
    BY <1>1, BoundsAssumption
    DEF SpawnInsert, IInv, CallInv, CallOK, RunOrNone, AgentStates, Live
  <2>2. \A d \in Callers : call'[d] = IF d = c THEN Idle ELSE call[d]
    BY <1>0, <1>1 DEF SpawnInsert, Return
  <2>3. TypeOK'
    BY <1>i, <1>1, <2>1 DEF SpawnInsert, Return, IInv, TypeOK
  <2>4. TaskInv'
    BY <1>1 DEF SpawnInsert, IInv, TaskInv, Alive, HoldsReceiver
  <2>5. /\ \A b \in Agents : b # a => /\ state'[b] = state[b]
                                      /\ token'[b] = token[b]
                                      /\ output'[b] = output[b]
        /\ state'[a] = "Running" /\ token'[a] = 1 /\ output'[a] = 0
    BY <1>1, <2>1 DEF SpawnInsert, IInv, TypeOK
  <2>6. EntryInv'
    BY <1>1, <2>1, <2>5 DEF SpawnInsert, IInv, EntryInv, Alive, HoldsReceiver, Resumable
  <2>7. OneStarter'
    BY <1>i, <2>2 DEF IInv, CallInv, OneStarter
  <2>8. ASSUME NEW d \in Callers
        PROVE  CallOK(d)'
    <3>1. call[c].at = "insert"
      BY <1>1 DEF SpawnInsert
    <3>2. d # c /\ call[d].at = "insert" => call[d].agent # a
      BY <3>1 DEF IInv, CallInv, OneStarter
    <3> QED BY <1>i, <1>1, <2>2, <2>5, <3>2 DEF SpawnInsert, IInv, CallInv, CallOK
  <2> QED BY <2>3, <2>4, <2>6, <2>7, <2>8 DEF IInv, CallInv
<1>2. CASE SendGetTx(c)
  <2>1. CASE inputTx[a] # 0
    <3> DEFINE rec == [at |-> "send", agent |-> a, run |-> inputTx[a], remove |-> FALSE]
    <3>1. a \in Agents
      BY <1>2, CallHasAgent DEF SendGetTx
    <3>2. rec \in Calls /\ rec.run \in Runs
      BY <1>0, <2>1, <3>1, BoundsAssumption DEF Calls, CallPlaces, RunOrNone, Runs
    <3> QED BY <1>0, <1>2, <2>1, <3>1, <3>2, CallOnly DEF SendGetTx, TakeSender
  <2>2. CASE inputTx[a] = 0
    BY <1>0, <1>2, <1>i, <2>2, CallOnly DEF SendGetTx, TakeSender, Return
  <2> QED BY <2>1, <2>2
<1>3. CASE SendMessage(c)
  <2>1. /\ a \in Agents
        /\ call[c].run \in Runs
    BY <1>3 DEF SendMessage, IInv, CallInv, CallOK
  <2>2. queue' \in [Agents -> [Runs -> 0 .. MaxQueue]]
    BY <1>0, <1>3, <2>1, BoundsAssumption DEF SendMessage
  <2> QED BY <1>3, <1>i, <2>2, CallOnly DEF SendMessage, Return
<1>4. CASE CloseCancel(c)
  <2>1. a \in Agents
    BY <1>4, CallHasAgent DEF CloseCancel
  <2>2. PICK rec \in Calls : /\ call' = [call EXCEPT ![c] = rec]
                             /\ rec.at \in {"close_remove", "idle"}
                             /\ rec.at # "idle" => rec.agent = a
    <3>1. CASE Return(c)
      BY <1>i, <3>1 DEF Return
    <3>2. CASE Continue(c, "close_remove")
      <4> DEFINE rec == [call[c] EXCEPT !.at = "close_remove"]
      <4>1. rec \in Calls /\ rec.at = "close_remove" /\ rec.agent = a
        BY <1>0 DEF Calls, CallPlaces
      <4> QED BY <1>0, <3>2, <4>1 DEF Continue
    <3> QED BY <1>4, <3>1, <3>2 DEF CloseCancel
  <2>3. UNCHANGED <<origin, runs, task, queue, file>> /\ CancelEntry(a)
    BY <1>4 DEF CloseCancel
  <2>4. EntryChange(a)
    BY <2>1, <2>3, CancelKeeps
  <2>5. /\ call' \in [Callers -> Calls]
        /\ TaskInv'
        /\ CallInv'
        /\ \A b \in Agents, q \in Runs : Alive(b, q)' <=> Alive(b, q)
    BY <2>1, <2>2, <2>3, <2>4, CallMoves DEF EntryChange
  <2> QED BY <2>1, <2>3, <2>4, <2>5, EntryKeeps
<1>5. CASE CloseRemove(c)
  <2>1. a \in Agents /\ 0 \in RunOrNone /\ "Absent" \in AgentStates
    BY <1>5, CallHasAgent, BoundsAssumption DEF CloseRemove, RunOrNone, AgentStates
  <2>2. /\ call' \in [Callers -> Calls]
        /\ TaskInv'
        /\ CallInv'
        /\ \A b \in Agents, q \in Runs : Alive(b, q)' <=> Alive(b, q)
    BY <1>0, <1>5, <1>i, CallMoves DEF CloseRemove, Return
  <2>3. /\ \A b \in Agents : b # a => /\ state'[b] = state[b]
                                      /\ token'[b] = token[b]
                                      /\ output'[b] = output[b]
        /\ state'[a] = "Absent" /\ output'[a] = 0
    BY <1>5, <2>1 DEF CloseRemove, IInv, TypeOK
  <2>4. TypeOK'
    BY <1>5, <2>1, <2>2 DEF CloseRemove, IInv, TypeOK
  <2>5. EntryInv'
    BY <1>5, <2>1, <2>2, <2>3 DEF CloseRemove, IInv, EntryInv, Resumable
  <2> QED BY <2>2, <2>4, <2>5 DEF IInv
<1>6. CASE ResumePrepare(c)
  <2>1. a \in Agents
    BY <1>6, CallHasAgent DEF ResumePrepare
  <2>2. CASE state[a] \in Resumable /\ runs[a] < MaxRuns
    BY <1>6, <2>1, <2>2, ResumePrepareInv DEF ResumePrepare
  <2>3. CASE ~(state[a] \in Resumable /\ runs[a] < MaxRuns)
    BY <1>0, <1>6, <1>i, <2>3, CallOnly DEF ResumePrepare, Return
  <2> QED BY <2>2, <2>3
<1>7. CASE ResumeSpawn(c)
  BY <1>7, ResumeEndsInv, TaskPlacesFacts DEF ResumeSpawn
<1>8. CASE ResumeFails(c)
  BY <1>8, ResumeEndsInv, TaskPlacesFacts DEF ResumeFails
<1>9. CASE WaitSees(c)
  <2>1. a \in Agents
    BY <1>9, CallHasAgent DEF WaitSees
  <2>2. CASE Continue(c, "wait_output")
    <3> DEFINE rec == [call[c] EXCEPT !.at = "wait_output"]
    <3>1. rec \in Calls /\ rec.at = "wait_output" /\ rec.agent = a
      BY <1>0 DEF CallPlaces, Calls
    <3> QED BY <1>0, <1>9, <2>1, <2>2, <3>1, CallOnly DEF WaitSees, Continue
  <2>3. CASE Return(c)
    BY <1>0, <1>9, <1>i, <2>3, CallOnly DEF WaitSees, Return
  <2> QED BY <1>9, <2>2, <2>3 DEF WaitSees
<1>10. CASE WaitOutput(c)
  <2>1. a \in Agents /\ output[a] \in RunOrNone
    BY <1>10, CallHasAgent DEF WaitOutput, IInv, TypeOK
  <2> DEFINE rec == [call[c] EXCEPT !.at = "wait_done", !.run = output[a]]
  <2>2. rec \in Calls /\ rec.at = "wait_done" /\ rec.agent = a
    BY <1>0, <2>1 DEF Calls, CallPlaces
  <2> QED BY <1>0, <1>10, <2>1, <2>2, CallOnly DEF WaitOutput
<1>11. CASE WaitReturn(c)
  BY <1>0, <1>11, <1>i, CallOnly DEF WaitReturn, Return
<1> QED
  BY <1>1, <1>2, <1>3, <1>4, <1>5, <1>6, <1>7, <1>8, <1>9, <1>10, <1>11 DEF CallStep

(* spawn_agent and team_create: the id is new, so the run is the first.    *)
LEMMA SpawnTaskInv ==
  ASSUME NEW c \in Callers, NEW a \in Agents,
         NEW tool \in {"spawn_agent", "team_create"},
         IInv, SpawnTask(c, a, tool)
  PROVE  IInv'
<1> DEFINE rec == [at |-> "insert", agent |-> a, run |-> 1, remove |-> FALSE]
<1> USE DEF entry
<1>1. /\ 1 \in Runs /\ 1 \in RunOrNone
      /\ rec \in Calls
      /\ {"starting", "working"} \subseteq TaskPlaces \cap TaskSteps
  BY BoundsAssumption DEF Runs, RunOrNone, Calls, CallPlaces, TaskPlaces, TaskSteps
<1>2. PICK place \in {"starting", "working"} : Goto(a, 1, place)
  BY DEF SpawnTask
<1>3. /\ call \in [Callers -> Calls]
      /\ task \in [Agents -> [Runs -> TaskPlaces]]
      /\ runs \in [Agents -> RunOrNone]
      /\ origin \in [Agents -> {"none", "spawn_agent", "team_create"}]
      /\ file \in [Agents -> Files]
  BY DEF IInv, TypeOK
<1>4. /\ task' \in [Agents -> [Runs -> TaskPlaces]]
      /\ \A b \in Agents, q \in Runs :
           task'[b][q] = IF b = a /\ q = 1 THEN place ELSE task[b][q]
  BY <1>1, <1>2, <1>3, GotoPlaces
<1>5. /\ runs[a] = 0 /\ state[a] = "Absent" /\ output[a] = 0
      /\ \A q \in Runs : task[a][q] = "none"
  BY <1>3 DEF SpawnTask, IInv, TypeOK, TaskInv, EntryInv, Runs, RunOrNone
<1>6. \A b \in Agents : /\ runs'[b] = IF b = a THEN 1 ELSE runs[b]
                        /\ origin'[b] = IF b = a THEN tool ELSE origin[b]
  BY <1>3 DEF SpawnTask
<1>7. \A d \in Callers : call'[d] = IF d = c THEN rec ELSE call[d]
  BY <1>3 DEF SpawnTask
<1>8. TypeOK'
  <2>1. /\ call' \in [Callers -> Calls]
        /\ runs' \in [Agents -> RunOrNone]
        /\ origin' \in [Agents -> {"none", "spawn_agent", "team_create"}]
    BY <1>1, <1>3 DEF SpawnTask
  <2>2. file' \in [Agents -> Files]
    BY <1>3 DEF SpawnTask, Files
  <2> QED BY <1>4, <2>1, <2>2 DEF SpawnTask, IInv, TypeOK
<1>9. TaskInv'
  BY <1>1, <1>3, <1>4, <1>5, <1>6
  DEF IInv, TaskInv, Alive, HoldsReceiver, Runs, RunOrNone
<1>10. EntryInv'
  BY <1>4, <1>5, <1>6 DEF SpawnTask, IInv, EntryInv, Alive, HoldsReceiver, Resumable
<1>11. ASSUME NEW d \in Callers, call[d].agent = a
       PROVE  call[d].at \notin {"insert", "resume_build"}
  BY <1>5, <1>11 DEF IInv, CallInv, CallOK
<1>12. OneStarter'
  BY <1>7, <1>11 DEF IInv, CallInv, OneStarter
<1>13. ASSUME NEW d \in Callers
       PROVE  CallOK(d)'
  BY <1>4, <1>5, <1>6, <1>7, <1>11 DEF SpawnTask, IInv, CallInv, CallOK
<1> QED BY <1>8, <1>9, <1>10, <1>12, <1>13 DEF IInv, CallInv

(* Every call that begins keeps the invariant.                             *)
LEMMA CallBeginsInv ==
  ASSUME NEW c \in Callers, NEW a \in Agents, IInv, CallBegins(c, a)
  PROVE  IInv'
<1> USE DEF entry
<1>0. /\ call \in [Callers -> Calls]
      /\ queue \in [Agents -> [Runs -> 0 .. MaxQueue]]
      /\ inputTx \in [Agents -> RunOrNone]
      /\ Idle \in Calls /\ Idle.at = "idle"
  BY IdleRecord DEF IInv, TypeOK
<1>s. ASSUME NEW at \in {"send_tx", "resume_prepare", "wait_state"},
             Start(c, at, a),
             UNCHANGED <<origin, runs, entry, cancelled, task, queue, file>>
      PROVE  IInv'
  <2> DEFINE rec == [at |-> at, agent |-> a, run |-> 0, remove |-> FALSE]
  <2>1. rec \in Calls
    BY BoundsAssumption DEF Calls, CallPlaces, RunOrNone
  <2> QED BY <1>0, <1>s, <2>1, CallOnly DEF Start
<1>1. ASSUME NEW tool \in {"spawn_agent", "team_create"}, SpawnTask(c, a, tool)
      PROVE  IInv'
  BY <1>1, SpawnTaskInv
<1>2. CASE SendCheck(c, a)
  BY <1>2, <1>s DEF SendCheck
<1>3. CASE BroadcastGetTx(c, a)
  <2> DEFINE rec == [at |-> "send", agent |-> a, run |-> inputTx[a], remove |-> FALSE]
  <2>1. rec \in Calls /\ rec.run \in Runs
    BY <1>0, <1>3, BoundsAssumption DEF BroadcastGetTx, Calls, CallPlaces, RunOrNone, Runs
  <2> QED BY <1>0, <1>3, <2>1, CallOnly DEF BroadcastGetTx, TakeSender
<1>4. ASSUME NEW remove \in BOOLEAN, CloseCheck(c, a, remove)
      PROVE  IInv'
  <2> DEFINE rec == [at |-> IF state[a] \in Live THEN "close_cancel" ELSE "close_remove",
                     agent |-> a, run |-> 0, remove |-> remove]
  <2>1. rec \in Calls /\ rec.at \in {"close_cancel", "close_remove"}
    BY BoundsAssumption DEF Calls, CallPlaces, RunOrNone
  <2> QED BY <1>0, <1>4, <2>1, CallOnly DEF CloseCheck
<1>5. CASE TeamDeleteCancel(c, a)
  <2>1. EntryChange(a) /\ UNCHANGED <<origin, runs, task, queue, file, call>>
    BY <1>5, CancelKeeps DEF TeamDeleteCancel
  <2>2. \A b \in Agents : state[b] = "Absent" => state'[b] = "Absent"
    BY <2>1 DEF EntryChange
  <2>3. \A b \in Agents, q \in Runs : Alive(b, q)' <=> Alive(b, q)
    BY <2>1 DEF Alive, HoldsReceiver
  <2>4. TaskInv'
    BY <2>1, <2>3 DEF IInv, TaskInv
  <2>5. CallInv'
    BY <2>1, <2>2 DEF IInv, CallInv, OneStarter, CallOK
  <2> QED BY <1>0, <2>1, <2>3, <2>4, <2>5, EntryKeeps
<1>6. CASE ResumeCheck(c, a)
  BY <1>6, <1>s DEF ResumeCheck
<1>7. CASE WaitBegin(c, a)
  BY <1>7, <1>s DEF WaitBegin
<1> QED
  BY <1>1, <1>2, <1>3, <1>4, <1>5, <1>6, <1>7 DEF CallBegins

(* Every step of the runtime keeps the invariant.                          *)
LEMMA StepInv == IInv /\ [Next]_vars => IInv'
<1> SUFFICES ASSUME IInv, [Next]_vars PROVE IInv'
  OBVIOUS
<1>1. CASE \E a \in Agents, r \in Runs : TaskStep(a, r)
  BY <1>1, TaskStepInv
<1>2. CASE \E c \in Callers : CallStep(c)
  BY <1>2, CallStepInv
<1>3. CASE \E c \in Callers, a \in Agents : CallBegins(c, a)
  BY <1>3, CallBeginsInv
<1>4. CASE UNCHANGED vars
  BY <1>4 DEF vars, entry, IInv, TypeOK, TaskInv, EntryInv, CallInv, CallOK,
              OneStarter, Alive, HoldsReceiver
<1> QED BY <1>1, <1>2, <1>3, <1>4 DEF Next, AllGone

(* The inductive invariant holds in every state of every execution.        *)
THEOREM InductiveInvariant == Spec => []IInv
  BY InitInv, StepInv, PTL DEF Spec

-----------------------------------------------------------------------------
(* The values of the variables stay in their types.                        *)
THEOREM TypeCorrect == Spec => []TypeOK
  BY InductiveInvariant, PTL DEF IInv

(* At most one task works on the session of a child, whatever the number   *)
(* of sessions that spawn, close, resume and remove children concurrently. *)
THEOREM OneTaskPerChild == Spec => []SingleLiveTask
<1>1. IInv => SingleLiveTask
  BY DEF IInv, TaskInv, SingleLiveTask
<1> QED BY <1>1, InductiveInvariant, PTL

(* close_agent and team_delete fire the token the live task listens to.    *)
THEOREM CloseReachesTask == Spec => []TokenReachesTask
<1>1. IInv => TokenReachesTask
  BY DEF IInv, TaskInv, EntryInv, TokenReachesTask
<1> QED BY <1>1, InductiveInvariant, PTL

(* A finished child has no task left; a cancelled one was told to stop.    *)
THEOREM TerminalTruth == Spec => []TerminalStateIsTrue
<1>1. IInv => TerminalStateIsTrue
  BY DEF IInv, EntryInv, TerminalStateIsTrue
<1> QED BY <1>1, InductiveInvariant, PTL

(* A caller never reads the output of a run that has been superseded.      *)
THEOREM FreshOutput == Spec => []OutputOfCurrentRun
<1>1. IInv => OutputOfCurrentRun
  BY DEF IInv, EntryInv, OutputOfCurrentRun
<1> QED BY <1>1, InductiveInvariant, PTL

-----------------------------------------------------------------------------
(* The session lease.  holder is the set of live runs of each child.       *)
Holder == [a \in Agents |-> {r \in Runs : Alive(a, r)}]

(* The lease depends on which runs are alive and on nothing else.          *)
LEMMA SameHolder ==
  ASSUME \A b \in Agents, q \in Runs : Alive(b, q)' <=> Alive(b, q)
  PROVE  Holder' = Holder
  BY DEF Holder

(* A live run whose task ends gives the lease up.                          *)
LEMMA ReleaseLease ==
  ASSUME NEW a \in Agents, NEW r \in Runs, NEW place \in TaskEnded, IInv,
         Alive(a, r), runs' = runs, Goto(a, r, place)
  PROVE  Lease!Release(a)
<1>1. \A b \in Agents, q \in Runs :
        task'[b][q] = IF b = a /\ q = r THEN place ELSE task[b][q]
  <2>1. place \in TaskPlaces /\ task \in [Agents -> [Runs -> TaskPlaces]]
    BY DEF IInv, TypeOK, TaskPlaces
  <2> QED BY <2>1, GotoPlaces
<1>2. /\ \A q \in Runs : ~Alive(a, q)'
      /\ \A b \in Agents, q \in Runs : b # a => (Alive(b, q)' <=> Alive(b, q))
  BY <1>1 DEF IInv, TaskInv, Alive, HoldsReceiver
<1>3. Holder[a] # {}
  BY DEF Holder
<1>4. Holder' = [Holder EXCEPT ![a] = {}]
  BY <1>2 DEF Holder
<1> QED BY <1>3, <1>4 DEF Lease!Release, Holder

(* One step of a task either keeps the lease or gives it up.               *)
LEMMA TaskLease ==
  ASSUME NEW a \in Agents, NEW r \in Runs, IInv, TaskStep(a, r)
  PROVE  \/ runs' = runs /\ Holder' = Holder
         \/ Lease!Release(a)
<1>1. PICK place \in TaskSteps \cup TaskEnded :
        /\ task[a][r] \in TaskSteps
        /\ Goto(a, r, place)
        /\ place \in TaskEnded \/ place \in TaskSteps
        /\ UNCHANGED runs
  BY DEF TaskStep, TaskStart, TaskPanics, RoundEnds, UpdateOutput, MarkAwaitingInput,
         ReceiveInput, ReceiveNothing, MarkRunningAgain, WriteFinalStatus,
         MarkCompleted, MarkFailed, TaskSteps, TaskEnded
<1>2. /\ task' \in [Agents -> [Runs -> TaskPlaces]]
      /\ \A b \in Agents, q \in Runs :
           task'[b][q] = IF b = a /\ q = r THEN place ELSE task[b][q]
  <2>1. place \in TaskPlaces /\ task \in [Agents -> [Runs -> TaskPlaces]]
    BY DEF IInv, TypeOK, TaskPlaces
  <2> QED BY <1>1, <2>1, GotoPlaces
<1>3. r = runs[a] /\ Alive(a, r)
  BY <1>1 DEF IInv, TaskInv, Alive, HoldsReceiver, TaskSteps, TaskEnded
<1>4. CASE place \in TaskSteps
  <2>1. \A b \in Agents, q \in Runs : Alive(b, q)' <=> Alive(b, q)
    BY <1>2, <1>3, <1>4 DEF Alive, HoldsReceiver, TaskSteps, TaskEnded
  <2> QED BY <1>1, <2>1, SameHolder
<1>5. CASE place \in TaskEnded
  BY <1>1, <1>3, <1>5, ReleaseLease
<1> QED BY <1>1, <1>4, <1>5

(* A new run of a child none of whose runs is alive takes the lease.       *)
LEMMA AcquireLease ==
  ASSUME NEW a \in Agents, NEW place \in {"starting", "working", "pending"}, IInv,
         \A q \in Runs : ~Alive(a, q),
         runs[a] < MaxRuns,
         runs' = [runs EXCEPT ![a] = runs[a] + 1],
         Goto(a, runs[a] + 1, place)
  PROVE  Lease!Acquire(a)
<1> DEFINE r == runs[a] + 1
<1>1. r \in Runs
  BY BoundsAssumption DEF IInv, TypeOK, Runs, RunOrNone
<1>2. \A b \in Agents, q \in Runs :
        task'[b][q] = IF b = a /\ q = r THEN place ELSE task[b][q]
  <2>1. place \in TaskPlaces /\ task \in [Agents -> [Runs -> TaskPlaces]]
    BY DEF IInv, TypeOK, TaskPlaces, TaskSteps
  <2> QED BY <1>1, <2>1, GotoPlaces
<1>3. /\ \A q \in Runs : Alive(a, q)' <=> q = r
      /\ \A b \in Agents, q \in Runs : b # a => (Alive(b, q)' <=> Alive(b, q))
  BY <1>1, <1>2 DEF Alive, HoldsReceiver, TaskEnded
<1>4. Holder[a] = {}
  BY DEF Holder
<1>5. Holder' = [Holder EXCEPT ![a] = {r}]
  BY <1>1, <1>3 DEF Holder
<1> QED BY <1>4, <1>5 DEF Lease!Acquire, Holder

(* resume_agent takes the lease in prepare_resume and gives it up when the *)
(* provider cannot be built; no other step of a call touches it.           *)
LEMMA CallLease ==
  ASSUME NEW c \in Callers, IInv, CallStep(c)
  PROVE  \/ runs' = runs /\ Holder' = Holder
         \/ \E a \in Agents : Lease!Acquire(a) \/ Lease!Release(a)
<1> DEFINE a == call[c].agent
           r == call[c].run
<1>1. CASE UNCHANGED <<runs, task>>
  BY <1>1 DEF Holder, Alive, HoldsReceiver
<1>2. CASE ResumePrepare(c)
  <2>1. CASE state[a] \in Resumable /\ runs[a] < MaxRuns
    <3>1. a \in Agents /\ \A q \in Runs : ~Alive(a, q)
      BY <1>2, <2>1, CallHasAgent DEF ResumePrepare, IInv, EntryInv
    <3>2. /\ runs' = [runs EXCEPT ![a] = runs[a] + 1]
          /\ Goto(a, runs[a] + 1, "pending")
      BY <1>2, <2>1 DEF ResumePrepare
    <3>3. Lease!Acquire(a)
      BY <2>1, <3>1, <3>2, AcquireLease
    <3> QED BY <3>1, <3>3
  <2> QED BY <1>1, <1>2, <2>1 DEF ResumePrepare
<1>3. CASE call[c].at = "resume_build" /\ UNCHANGED runs
           /\ \E place \in {"working", "dropped"} : Goto(a, r, place)
  <2>1. /\ a \in Agents /\ r \in Runs /\ task[a][r] = "pending"
        /\ task \in [Agents -> [Runs -> TaskPlaces]]
    BY <1>3, CallHasAgent DEF IInv, CallInv, CallOK, TypeOK
  <2>2. PICK place \in {"working", "dropped"} : Goto(a, r, place)
    BY <1>3
  <2>3. \A b \in Agents, q \in Runs :
          task'[b][q] = IF b = a /\ q = r THEN place ELSE task[b][q]
    <3>1. place \in TaskPlaces
      BY DEF TaskPlaces, TaskSteps, TaskEnded
    <3> QED BY <2>1, <2>2, <3>1, GotoPlaces
  <2>4. Alive(a, r) /\ r = runs[a]
    BY <2>1 DEF IInv, TaskInv, Alive, HoldsReceiver, TaskEnded
  <2>5. CASE place = "working"
    <3>1. \A b \in Agents, q \in Runs : Alive(b, q)' <=> Alive(b, q)
      BY <2>1, <2>3, <2>5 DEF Alive, HoldsReceiver, TaskEnded
    <3> QED BY <1>3, <3>1, SameHolder
  <2>6. CASE place = "dropped"
    <3>1. "dropped" \in TaskEnded /\ Goto(a, r, "dropped")
      BY <2>2, <2>6 DEF TaskEnded
    <3>3. Lease!Release(a)
      BY <1>3, <2>1, <2>4, <3>1, ReleaseLease
    <3> QED BY <2>1, <3>3
  <2> QED BY <2>5, <2>6
<1> QED
  BY <1>1, <1>2, <1>3
  DEF CallStep, SpawnInsert, SendGetTx, SendMessage, CloseCancel, CloseRemove,
      ResumeSpawn, ResumeFails, WaitSees, WaitOutput, WaitReturn

(* spawn_agent and team_create take the lease of the child they create; no *)
(* other call touches a lease when it begins.                              *)
LEMMA BeginLease ==
  ASSUME NEW c \in Callers, NEW a \in Agents, IInv, CallBegins(c, a)
  PROVE  (runs' = runs /\ Holder' = Holder) \/ Lease!Acquire(a)
<1>1. CASE UNCHANGED <<runs, task>>
  BY <1>1 DEF Holder, Alive, HoldsReceiver
<1>2. ASSUME NEW tool \in {"spawn_agent", "team_create"}, SpawnTask(c, a, tool)
      PROVE  Lease!Acquire(a)
  <2>1. /\ runs[a] = 0 /\ runs[a] < MaxRuns
        /\ \A q \in Runs : ~Alive(a, q)
    BY <1>2, BoundsAssumption
    DEF SpawnTask, IInv, TaskInv, Alive, HoldsReceiver, Runs
  <2>2. PICK place \in {"starting", "working"} : Goto(a, runs[a] + 1, place)
    BY <1>2, <2>1 DEF SpawnTask
  <2>3. runs' = [runs EXCEPT ![a] = runs[a] + 1]
    BY <1>2, <2>1 DEF SpawnTask
  <2> QED BY <2>1, <2>2, <2>3, AcquireLease
<1> QED
  BY <1>1, <1>2
  DEF CallBegins, SendCheck, BroadcastGetTx, CloseCheck, TeamDeleteCancel,
      ResumeCheck, WaitBegin

(* The sub-agent runtime implements the session lease: spawning and        *)
(* resuming acquire the session of a child, the end of its task releases   *)
(* it, and nothing else touches it.                                        *)
THEOREM SessionLeaseImplemented == Spec => LeaseSpec
<1>1. Init => Lease!Init
  BY DEF Init, Lease!Init, Alive, HoldsReceiver, TaskEnded
<1>2. IInv /\ [Next]_vars => [Lease!Next]_(Lease!leaseVars)
  <2> SUFFICES ASSUME IInv, [Next]_vars
               PROVE  [Lease!Next]_(Lease!leaseVars)
    OBVIOUS
  <2>1. CASE runs' = runs /\ Holder' = Holder
    BY <2>1 DEF Lease!leaseVars, Holder
  <2>2. CASE \E a \in Agents : Lease!Acquire(a) \/ Lease!Release(a)
    BY <2>2 DEF Lease!Next
  <2>3. CASE \E a \in Agents, r \in Runs : TaskStep(a, r)
    BY <2>1, <2>2, <2>3, TaskLease
  <2>4. CASE \E c \in Callers : CallStep(c)
    BY <2>1, <2>2, <2>4, CallLease
  <2>5. CASE \E c \in Callers, a \in Agents : CallBegins(c, a)
    BY <2>1, <2>2, <2>5, BeginLease
  <2>6. CASE UNCHANGED vars
    BY <2>1, <2>6 DEF vars, Holder, Alive, HoldsReceiver
  <2> QED BY <2>3, <2>4, <2>5, <2>6 DEF Next, AllGone
<1> QED BY <1>1, <1>2, InductiveInvariant, PTL DEF Spec, LeaseSpec, Lease!Spec
=============================================================================
