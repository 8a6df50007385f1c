----------------------------- MODULE SubAgents -----------------------------
(***************************************************************************)
(* The sub-agent runtime (brain/tools/subagent): the table of child agents *)
(* behind one RwLock (SubAgentManager), the background task of every run   *)
(* of a child, and the tools that act on both.                             *)
(*                                                                         *)
(* One step is what the code does under one acquisition of the table's     *)
(* lock, or between two of them.  The tools take the lock several times    *)
(* per call (get_state, then get_input_tx, then cancel ...), and tools of  *)
(* different sessions share the table, so their steps interleave with each *)
(* other and with the tasks.                                               *)
(*                                                                         *)
(* Data is abstracted: an output is the number of the run that wrote it, a *)
(* queue is the number of messages in it, a cancellation token and the two *)
(* ends of an input channel are named by the run they were created for.    *)
(***************************************************************************)
EXTENDS Naturals

CONSTANTS
  Agents,     \* ids that generate_id may return; each one is used once
  Callers,    \* tool calls that may be in flight at the same time
  NoAgent,    \* the agent of a caller that is idle
  MaxRuns,    \* bound: a child is resumed at most MaxRuns - 1 times
  MaxQueue    \* bound: messages waiting in one input channel

ASSUME BoundsAssumption == MaxRuns \in Nat \ {0} /\ MaxQueue \in Nat
ASSUME NoAgentAssumption == NoAgent \notin Agents

VARIABLES
  origin,     \* who created the child: spawn_agent, team_create, or nobody yet
  runs,       \* how many runs (token and channel pairs) the child has had
  state,      \* SubAgent.state, "Absent" when the id is not in the table
  token,      \* the run whose token is in SubAgent.cancel_token
  inputTx,    \* the run whose sender is in SubAgent.input_tx, 0 for None
  output,     \* the run that wrote SubAgent.output, 0 for None
  cancelled,  \* the runs whose token has been cancelled
  task,       \* where the background task of each run is
  queue,      \* messages in the input channel of each run
  file,       \* the state in the child's status file, and whether the last
              \* write of it failed
  call        \* where each tool call is

vars == <<origin, runs, state, token, inputTx, output, cancelled, task,
          queue, file, call>>
entry == <<state, token, inputTx, output>>

Runs == 1 .. MaxRuns
RunOrNone == 0 .. MaxRuns

Live == {"Running", "AwaitingInput"}
(* Mutation: a cancelled child may be resumed as well.                     *)
Resumable_Any == {"Completed", "Failed", "Cancelled"}
Resumable == {"Completed", "Failed"}
AgentStates == Live \cup Resumable \cup {"Cancelled", "Absent"}

Files == [says : {"none", "Pending", "Running"} \cup Resumable, missed : BOOLEAN]

TaskEnded == {"done", "failed", "dropped"}
TaskSteps == {"starting", "working", "reporting", "pausing", "waiting",
              "rearming", "ending", "aborting", "completing", "failing"}
TaskPlaces == {"none", "pending"} \cup TaskSteps \cup TaskEnded

CallPlaces == {"idle", "insert", "send_tx", "send", "close_cancel",
               "close_remove", "resume_prepare", "resume_build",
               "wait_state", "wait_output", "wait_done"}
Calls == [at : CallPlaces, agent : Agents \cup {NoAgent},
          run : RunOrNone, remove : BOOLEAN]

Idle == [at |-> "idle", agent |-> NoAgent, run |-> 0, remove |-> FALSE]

(* A task or a pending task still owns the receiving end of its channel.   *)
HoldsReceiver(a, r) == task[a][r] \notin TaskEnded \cup {"none"}

(* Mutation: the task keeps a clone of its own sender.                     *)
HasSender_Own(a, r) == r \in Runs

(* Mutation: the clones handed out by get_input_tx are forgotten.          *)
HasSender_Table(a, r) == inputTx[a] = r

(* The senders of a channel: the table's, a spawn call's before insert,    *)
(* and the clones that get_input_tx has handed out.                        *)
HasSender(a, r) ==
  \/ inputTx[a] = r
  \/ \E c \in Callers : /\ call[c].agent = a
                        /\ call[c].run = r
                        /\ call[c].at \in {"insert", "send"}

(* Only the task that spawn_agent starts writes the status file.           *)
WritesFile(a, r) == origin[a] = "spawn_agent" /\ r = 1

(* AgentStatus::write brings the file up to date, or fails and leaves it;  *)
(* the task goes on either way, the error logged or not even that.         *)
WriteStatus(a, r, says) ==
  IF WritesFile(a, r)
    THEN \E missed \in BOOLEAN :
           file' = [file EXCEPT ![a] = [says   |-> IF missed THEN @.says ELSE says,
                                        missed |-> missed]]
    ELSE UNCHANGED file

(* Only the loop of spawn_agent flips the state back when input arrives.   *)
Rearms(a, r) == origin[a] = "spawn_agent" /\ r = 1

Goto(a, r, place) == task' = [task EXCEPT ![a][r] = place]

Continue(c, at) == call' = [call EXCEPT ![c].at = at]
Return(c) == call' = [call EXCEPT ![c] = Idle]
Start(c, at, a) ==
  call' = [call EXCEPT ![c] = [at |-> at, agent |-> a, run |-> 0, remove |-> FALSE]]

Init ==
  /\ origin = [a \in Agents |-> "none"]
  /\ runs = [a \in Agents |-> 0]
  /\ state = [a \in Agents |-> "Absent"]
  /\ token = [a \in Agents |-> 0]
  /\ inputTx = [a \in Agents |-> 0]
  /\ output = [a \in Agents |-> 0]
  /\ cancelled = [a \in Agents |-> {}]
  /\ task = [a \in Agents |-> [r \in Runs |-> "none"]]
  /\ queue = [a \in Agents |-> [r \in Runs |-> 0]]
  /\ file = [a \in Agents |-> [says |-> "none", missed |-> FALSE]]
  /\ call = [c \in Callers |-> Idle]

-----------------------------------------------------------------------------
(* spawn_agent and the member loop of team_create.  The task is started    *)
(* before the child is inserted into the table.                            *)

SpawnTask(c, a, tool) ==
  /\ call[c].at = "idle"
  /\ origin[a] = "none"
  /\ origin' = [origin EXCEPT ![a] = tool]
  /\ runs' = [runs EXCEPT ![a] = 1]
  /\ IF tool = "spawn_agent"
       THEN file' = [file EXCEPT ![a].says = "Pending"] /\ Goto(a, 1, "starting")
       ELSE UNCHANGED file /\ Goto(a, 1, "working")
  /\ call' = [call EXCEPT ![c] = [at |-> "insert", agent |-> a, run |-> 1,
                                  remove |-> FALSE]]
  /\ UNCHANGED <<entry, cancelled, queue>>

SpawnInsert(c) ==
  LET a == call[c].agent IN
  /\ call[c].at = "insert"
  /\ state' = [state EXCEPT ![a] = "Running"]
  /\ token' = [token EXCEPT ![a] = 1]
  /\ inputTx' = [inputTx EXCEPT ![a] = 1]
  /\ output' = [output EXCEPT ![a] = 0]
  /\ Return(c)
  /\ UNCHANGED <<origin, runs, cancelled, task, queue, file>>

-----------------------------------------------------------------------------
(* The background task of run r: send_message, report, wait for input.     *)

TaskStart(a, r) ==
  /\ task[a][r] = "starting"
  /\ Goto(a, r, "working")
  /\ IF file[a].says \in {"Completed", "Failed"}
       THEN UNCHANGED file ELSE WriteStatus(a, r, "Running")
  /\ UNCHANGED <<origin, runs, entry, cancelled, queue, call>>

(* The file can be neither read nor created anew: expect panics, and the   *)
(* table is not told.                                                      *)
TaskPanics(a, r) ==
  /\ task[a][r] = "starting"
  /\ Goto(a, r, "dropped")
  /\ UNCHANGED <<origin, runs, entry, cancelled, queue, file, call>>

(* send_message_with_tools_and_mode answers: with or without its token     *)
(* cancelled it may return the text so far or an error.                    *)
RoundEnds(a, r) ==
  /\ task[a][r] = "working"
  /\ \E place \in {"reporting", "aborting"} : Goto(a, r, place)
  /\ UNCHANGED <<origin, runs, entry, cancelled, queue, file, call>>

(* update_progress, which writes the state in hand again, and the output.  *)
UpdateOutput(a, r) ==
  /\ task[a][r] = "reporting"
  /\ WriteStatus(a, r, "Running")
  /\ output' = [output EXCEPT ![a] = IF state[a] = "Absent" THEN @ ELSE r]
  /\ Goto(a, r, "pausing")
  /\ UNCHANGED <<origin, runs, state, token, inputTx, cancelled, queue, call>>

MarkAwaitingInput(a, r) ==
  /\ task[a][r] = "pausing"
  /\ state' = [state EXCEPT ![a] = IF @ = "Running" THEN "AwaitingInput" ELSE @]
  /\ Goto(a, r, "waiting")
  /\ UNCHANGED <<origin, runs, token, inputTx, output, cancelled, queue, file, call>>

(* Mutation: a message is taken from an empty channel.                     *)
ReceiveInput_Empty(a, r) ==
  /\ task[a][r] = "waiting"
  /\ queue' = [queue EXCEPT ![a][r] = @ - 1]
  /\ Goto(a, r, "working")
  /\ UNCHANGED <<origin, runs, entry, cancelled, file, call>>

(* The two branches of tokio::select!, which picks either when both are    *)
(* ready; recv answers None only when the channel is empty and no sender   *)
(* is left.                                                                *)
ReceiveInput(a, r) ==
  /\ task[a][r] = "waiting"
  /\ queue[a][r] > 0
  /\ queue' = [queue EXCEPT ![a][r] = @ - 1]
  /\ Goto(a, r, IF Rearms(a, r) THEN "rearming" ELSE "working")
  /\ UNCHANGED <<origin, runs, entry, cancelled, file, call>>

ReceiveNothing(a, r) ==
  /\ task[a][r] = "waiting"
  /\ \/ r \in cancelled[a]
     \/ queue[a][r] = 0 /\ ~HasSender(a, r)
  /\ Goto(a, r, "ending")
  /\ UNCHANGED <<origin, runs, entry, cancelled, queue, file, call>>

MarkRunningAgain(a, r) ==
  /\ task[a][r] = "rearming"
  /\ state' = [state EXCEPT ![a] = IF @ = "AwaitingInput" THEN "Running" ELSE @]
  /\ Goto(a, r, "working")
  /\ UNCHANGED <<origin, runs, token, inputTx, output, cancelled, queue, file, call>>

(* Mutation: the early return of a failed round skips the status file.     *)
WriteFinalStatus_OkOnly(a, r) ==
  /\ task[a][r] \in {"ending", "aborting"}
  /\ LET ok == task[a][r] = "ending" IN
     /\ IF ok THEN WriteStatus(a, r, "Completed") ELSE UNCHANGED file
     /\ Goto(a, r, IF ok THEN "completing" ELSE "failing")
  /\ UNCHANGED <<origin, runs, entry, cancelled, queue, call>>

(* The status file is written before the table.                            *)
WriteFinalStatus(a, r) ==
  /\ task[a][r] \in {"ending", "aborting"}
  /\ LET ok == task[a][r] = "ending" IN
     /\ WriteStatus(a, r, IF ok THEN "Completed" ELSE "Failed")
     /\ Goto(a, r, IF ok THEN "completing" ELSE "failing")
  /\ UNCHANGED <<origin, runs, entry, cancelled, queue, call>>

(* mark_completed and mark_failed overwrite whatever state they find.      *)
MarkCompleted(a, r) ==
  /\ task[a][r] = "completing"
  /\ IF state[a] = "Absent"
       THEN UNCHANGED entry
       ELSE /\ state' = [state EXCEPT ![a] = "Completed"]
            /\ output' = [output EXCEPT ![a] = r]
            /\ inputTx' = [inputTx EXCEPT ![a] = 0]
            /\ UNCHANGED token
  /\ Goto(a, r, "done")
  /\ UNCHANGED <<origin, runs, cancelled, queue, file, call>>

MarkFailed(a, r) ==
  /\ task[a][r] = "failing"
  /\ IF state[a] = "Absent"
       THEN UNCHANGED entry
       ELSE /\ state' = [state EXCEPT ![a] = "Failed"]
            /\ inputTx' = [inputTx EXCEPT ![a] = 0]
            /\ UNCHANGED <<token, output>>
  /\ Goto(a, r, "failed")
  /\ UNCHANGED <<origin, runs, cancelled, queue, file, call>>

TaskStep(a, r) ==
  \/ TaskStart(a, r)
  \/ TaskPanics(a, r)
  \/ RoundEnds(a, r)
  \/ UpdateOutput(a, r)
  \/ MarkAwaitingInput(a, r)
  \/ ReceiveInput(a, r)
  \/ ReceiveNothing(a, r)
  \/ MarkRunningAgain(a, r)
  \/ WriteFinalStatus(a, r)
  \/ MarkCompleted(a, r)
  \/ MarkFailed(a, r)

-----------------------------------------------------------------------------
(* send_input: look at the state, fetch the sender, send.  team_broadcast  *)
(* fetches the sender of each member without looking at the state.         *)

SendCheck(c, a) ==
  /\ call[c].at = "idle"
  /\ state[a] \in Live
  /\ Start(c, "send_tx", a)
  /\ UNCHANGED <<origin, runs, entry, cancelled, task, queue, file>>

TakeSender(c, a) ==
  IF inputTx[a] # 0
    THEN call' = [call EXCEPT ![c] = [at |-> "send", agent |-> a,
                                      run |-> inputTx[a], remove |-> FALSE]]
    ELSE Return(c)

SendGetTx(c) ==
  /\ call[c].at = "send_tx"
  /\ TakeSender(c, call[c].agent)
  /\ UNCHANGED <<origin, runs, entry, cancelled, task, queue, file>>

BroadcastGetTx(c, a) ==
  /\ call[c].at = "idle"
  /\ inputTx[a] # 0
  /\ TakeSender(c, a)
  /\ UNCHANGED <<origin, runs, entry, cancelled, task, queue, file>>

SendMessage(c) ==
  LET a == call[c].agent
      r == call[c].run IN
  /\ call[c].at = "send"
  /\ queue[a][r] < MaxQueue \/ ~HoldsReceiver(a, r)
  /\ queue' = [queue EXCEPT ![a][r] = IF HoldsReceiver(a, r) THEN @ + 1 ELSE @]
  /\ Return(c)
  /\ UNCHANGED <<origin, runs, entry, cancelled, task, file>>

-----------------------------------------------------------------------------
(* close_agent: look at the state, cancel, remove.  team_delete cancels    *)
(* every member without looking first.                                     *)

(* Mutation: the state is set and nothing is told to stop.                 *)
CancelEntry_MarkOnly(a) ==
  /\ state' = [state EXCEPT ![a] = IF @ \in Live THEN "Cancelled" ELSE @]
  /\ UNCHANGED <<token, inputTx, output, cancelled>>

CancelEntry(a) ==
  IF state[a] \in Live
    THEN /\ state' = [state EXCEPT ![a] = "Cancelled"]
         /\ inputTx' = [inputTx EXCEPT ![a] = 0]
         /\ cancelled' = [cancelled EXCEPT ![a] = @ \cup {token[a]}]
         /\ UNCHANGED <<token, output>>
    ELSE UNCHANGED <<entry, cancelled>>

CloseCheck(c, a, remove) ==
  /\ call[c].at = "idle"
  /\ state[a] # "Absent"
  /\ state[a] \in Live \/ remove
  /\ call' = [call EXCEPT ![c] =
                [at |-> IF state[a] \in Live THEN "close_cancel" ELSE "close_remove",
                 agent |-> a, run |-> 0, remove |-> remove]]
  /\ UNCHANGED <<origin, runs, entry, cancelled, task, queue, file>>

CloseCancel(c) ==
  /\ call[c].at = "close_cancel"
  /\ CancelEntry(call[c].agent)
  /\ IF call[c].remove THEN Continue(c, "close_remove") ELSE Return(c)
  /\ UNCHANGED <<origin, runs, task, queue, file>>

CloseRemove(c) ==
  LET a == call[c].agent IN
  /\ call[c].at = "close_remove"
  /\ state' = [state EXCEPT ![a] = "Absent"]
  /\ token' = [token EXCEPT ![a] = 0]
  /\ inputTx' = [inputTx EXCEPT ![a] = 0]
  /\ output' = [output EXCEPT ![a] = 0]
  /\ Return(c)
  /\ UNCHANGED <<origin, runs, cancelled, task, queue, file>>

TeamDeleteCancel(c, a) ==
  /\ call[c].at = "idle"
  /\ origin[a] = "team_create"
  /\ CancelEntry(a)
  /\ UNCHANGED <<origin, runs, task, queue, file, call>>

-----------------------------------------------------------------------------
(* resume_agent: look at the state, re-register, then build the provider   *)
(* (which may fail) and start the task of the new run.                     *)

ResumeCheck(c, a) ==
  /\ call[c].at = "idle"
  /\ state[a] \in Resumable
  /\ runs[a] < MaxRuns
  /\ Start(c, "resume_prepare", a)
  /\ UNCHANGED <<origin, runs, entry, cancelled, task, queue, file>>

(* Mutation: the output of the previous run stays.                         *)
Reregister_KeepOutput(a, r) ==
  /\ state' = [state EXCEPT ![a] = "Running"]
  /\ token' = [token EXCEPT ![a] = r]
  /\ inputTx' = [inputTx EXCEPT ![a] = r]
  /\ UNCHANGED output

(* Mutation: the token of the previous run stays.                          *)
Reregister_KeepToken(a, r) ==
  /\ state' = [state EXCEPT ![a] = "Running"]
  /\ inputTx' = [inputTx EXCEPT ![a] = r]
  /\ output' = [output EXCEPT ![a] = 0]
  /\ UNCHANGED token

Reregister(a, r) ==
  /\ state' = [state EXCEPT ![a] = "Running"]
  /\ token' = [token EXCEPT ![a] = r]
  /\ inputTx' = [inputTx EXCEPT ![a] = r]
  /\ output' = [output EXCEPT ![a] = 0]

ResumePrepare(c) ==
  LET a == call[c].agent
      r == runs[a] + 1 IN
  /\ call[c].at = "resume_prepare"
  /\ IF state[a] \in Resumable /\ runs[a] < MaxRuns
       THEN /\ Reregister(a, r)
            /\ runs' = [runs EXCEPT ![a] = r]
            /\ Goto(a, r, "pending")
            /\ call' = [call EXCEPT ![c].at = "resume_build", ![c].run = r]
       ELSE /\ Return(c)
            /\ UNCHANGED <<entry, runs, task>>
  /\ UNCHANGED <<origin, cancelled, queue, file>>

ResumeSpawn(c) ==
  /\ call[c].at = "resume_build"
  /\ Goto(call[c].agent, call[c].run, "working")
  /\ Return(c)
  /\ UNCHANGED <<origin, runs, entry, cancelled, queue, file>>

ResumeFails(c) ==
  /\ call[c].at = "resume_build"
  /\ Goto(call[c].agent, call[c].run, "dropped")
  /\ Return(c)
  /\ UNCHANGED <<origin, runs, entry, cancelled, queue, file>>

-----------------------------------------------------------------------------
(* wait_agent polls the state; on a pause or completion it then fetches    *)
(* the output, and it gives up at its deadline.                            *)

WaitBegin(c, a) ==
  /\ call[c].at = "idle"
  /\ state[a] # "Absent"
  /\ Start(c, "wait_state", a)
  /\ UNCHANGED <<origin, runs, entry, cancelled, task, queue, file>>

WaitSees(c) ==
  LET s == state[call[c].agent] IN
  /\ call[c].at = "wait_state"
  /\ s \notin {"Running", "Absent"}
  /\ IF s \in {"Completed", "AwaitingInput"} THEN Continue(c, "wait_output") ELSE Return(c)
  /\ UNCHANGED <<origin, runs, entry, cancelled, task, queue, file>>

WaitOutput(c) ==
  /\ call[c].at = "wait_output"
  /\ call' = [call EXCEPT ![c].at = "wait_done", ![c].run = output[call[c].agent]]
  /\ UNCHANGED <<origin, runs, entry, cancelled, task, queue, file>>

WaitReturn(c) ==
  /\ call[c].at \in {"wait_state", "wait_done"}
  /\ Return(c)
  /\ UNCHANGED <<origin, runs, entry, cancelled, task, queue, file>>

-----------------------------------------------------------------------------
(* The steps a call takes on its own once it has begun.                    *)
CallStep(c) ==
  \/ SpawnInsert(c)
  \/ SendGetTx(c)
  \/ SendMessage(c)
  \/ CloseCancel(c)
  \/ CloseRemove(c)
  \/ ResumePrepare(c)
  \/ ResumeSpawn(c)
  \/ ResumeFails(c)
  \/ WaitSees(c)
  \/ WaitOutput(c)
  \/ WaitReturn(c)

(* The calls an orchestrating model may make at any time.                  *)
CallBegins(c, a) ==
  \/ \E tool \in {"spawn_agent", "team_create"} : SpawnTask(c, a, tool)
  \/ SendCheck(c, a)
  \/ BroadcastGetTx(c, a)
  \/ \E remove \in BOOLEAN : CloseCheck(c, a, remove)
  \/ TeamDeleteCancel(c, a)
  \/ ResumeCheck(c, a)
  \/ WaitBegin(c, a)

(* Every id of the pool has been used and every child is gone.             *)
AllGone ==
  /\ \A c \in Callers : call[c].at = "idle"
  /\ \A a \in Agents : /\ origin[a] # "none"
                       /\ state[a] = "Absent"
                       /\ \A r \in Runs : ~HoldsReceiver(a, r)
  /\ UNCHANGED vars

Next ==
  \/ \E a \in Agents, r \in Runs : TaskStep(a, r)
  \/ \E c \in Callers : CallStep(c)
  \/ \E c \in Callers, a \in Agents : CallBegins(c, a)
  \/ AllGone

Spec == Init /\ [][Next]_vars

(* Tokio keeps polling a task that can run, and a call that has begun goes *)
(* on to return; nobody is obliged to begin one.  A round is a whole turn  *)
(* of the tool loop, which only warns when it goes on for long: nothing    *)
(* but its token ends it (CancelEndsTurn of ToolLoop).                     *)
Steadily(a, r) == TaskStep(a, r) /\ (task[a][r] = "working" => r \in cancelled[a])

Fairness ==
  /\ \A a \in Agents, r \in Runs : WF_vars(Steadily(a, r))
  /\ \A c \in Callers : WF_vars(CallStep(c))

FairSpec == Spec /\ Fairness

-----------------------------------------------------------------------------
TypeOK ==
  /\ origin \in [Agents -> {"none", "spawn_agent", "team_create"}]
  /\ runs \in [Agents -> RunOrNone]
  /\ state \in [Agents -> AgentStates]
  /\ token \in [Agents -> RunOrNone]
  /\ inputTx \in [Agents -> RunOrNone]
  /\ output \in [Agents -> RunOrNone]
  /\ cancelled \in [Agents -> SUBSET Runs]
  /\ task \in [Agents -> [Runs -> TaskPlaces]]
  /\ queue \in [Agents -> [Runs -> 0 .. MaxQueue]]
  /\ file \in [Agents -> Files]
  /\ call \in [Callers -> Calls]

(* A run is alive from prepare_resume (or tokio::spawn) until its task has *)
(* made its last change to the table.                                      *)
Alive(a, r) == HoldsReceiver(a, r)

Removed(a) ==
  /\ origin[a] # "none"
  /\ state[a] = "Absent"
  /\ \A c \in Callers : ~(call[c].at = "insert" /\ call[c].agent = a)

(* At most one task works on a child's session.  prepare_resume creates a  *)
(* new run from the state alone: it is sound only because mark_completed   *)
(* and mark_failed are the last thing a task does to the table.            *)
SingleLiveTask ==
  \A a \in Agents : \A r, s \in Runs : Alive(a, r) /\ Alive(a, s) => r = s

(* close_agent and team_delete can always reach a live task: the token in  *)
(* the table is the one that task listens to.                              *)
TokenReachesTask ==
  \A a \in Agents, r \in Runs :
    Alive(a, r) /\ state[a] # "Absent" => token[a] = r

(* A child reported Completed or Failed has no task left, and a child      *)
(* reported Cancelled has had the token of its last run fired.             *)
TerminalStateIsTrue ==
  \A a \in Agents :
    /\ state[a] \in Resumable => \A r \in Runs : ~Alive(a, r)
    /\ state[a] = "Cancelled" => token[a] \in cancelled[a] /\ token[a] = runs[a]

(* The output a caller reads was written by the current run, never by one  *)
(* that the resume has superseded.                                         *)
OutputOfCurrentRun == \A a \in Agents : output[a] \in {0, runs[a]}

(* A task that ends normally leaves accepted input unread only when it was *)
(* cancelled: recv answers None only after the last sender is gone.        *)
NoSilentInputLoss ==
  \A a \in Agents, r \in Runs :
    task[a][r] = "done" /\ queue[a][r] > 0 => r \in cancelled[a]

(* Whoever sees a spawned child finish in the table finds the same verdict *)
(* in its status file, which is written first, unless that write failed;   *)
(* and whoever reads a verdict there, at any time, reads the one that the  *)
(* task has come to, whatever has happened to the child since.             *)
FileLeadsTable ==
  \A a \in Agents :
    origin[a] = "spawn_agent" =>
      /\ runs[a] = 1 /\ state[a] \in Resumable => file[a].missed \/ file[a].says = state[a]
      /\ file[a].says = "Completed" => task[a][1] \in {"completing", "done"}
      /\ file[a].says = "Failed" => task[a][1] \in {"failing", "failed"}

(* A child whose token was fired stops: its task ends whatever it was      *)
(* doing, also when select! keeps choosing queued input over the token.    *)
(* A child that was removed and not cancelled, whose token nobody can      *)
(* reach any more, never waits for input again: it comes to its end, or to *)
(* a round that goes on, since the table held the last lasting sender of   *)
(* its channel.                                                            *)
UnwantedTasksEnd ==
  \A a \in Agents :
    /\ \A r \in Runs : r \in cancelled[a] ~> ~Alive(a, r)
    /\ Removed(a) ~> [](\A r \in Runs : Alive(a, r) => task[a][r] = "working")

(* The promise to the owner of a child's session: runs are numbered, one   *)
(* at a time holds the session, and a run that let go never comes back.    *)
Lease == INSTANCE SessionLease
           WITH issued <- runs,
                holder <- [a \in Agents |-> {r \in Runs : Alive(a, r)}]
LeaseSpec == Lease!Spec

-----------------------------------------------------------------------------
(* What the tests say and the code does not keep.                          *)

(* resume.rs: a child that "was cancelled ... cannot be resumed".          *)
CancelledNotResumed ==
  \A a \in Agents : \A r \in cancelled[a] : runs[a] = r
=============================================================================
