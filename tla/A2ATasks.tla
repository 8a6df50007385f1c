------------------------------ MODULE A2ATasks ------------------------------
(***************************************************************************)
(* The tasks of the A2A gateway (a2a/handler, a2a/persistence): the store  *)
(* of tasks and the store of cancellation tokens, each behind its RwLock,  *)
(* the table a2a_tasks, the background process of every task, and the      *)
(* clients that create, cancel and abandon tasks while the server may      *)
(* crash and restart.                                                      *)
(*                                                                         *)
(* One step is what the code does under one lock, or between two awaits.   *)
(* A task is its state; messages and artifacts are left out.               *)
(***************************************************************************)
EXTENDS Naturals

CONSTANTS
  Tasks,      \* ids Uuid::new_v4 may return; each one is used once
  Clients,    \* calls of tasks/cancel in flight at the same time
  NoTask,     \* what an idle call is about to cancel
  MaxCrashes  \* bound: how often the server restarts

ASSUME MaxCrashesAssumption == MaxCrashes \in Nat
ASSUME NoTaskAssumption == NoTask \notin Tasks

VARIABLES
  kind,      \* the method that created the task
  store,     \* its state in the task store, "Absent" when it is not there
  db,        \* its state in a2a_tasks
  lost,      \* whether an upsert of it has failed, which is only logged
  worker,    \* where the handler, then the background process, of it is
  token,     \* whether the cancel store holds a token for it
  fired,     \* whether the token its agent listens to was cancelled
  known,     \* whether a client was told its id
  event,     \* the state in the final event of its stream
  canceled,  \* whether a tasks/cancel call answered success for it
  cancel,    \* the task each tasks/cancel call has signalled and not marked
  crashes    \* restarts so far

vars == <<kind, store, db, lost, worker, token, fired, known, event, canceled,
          cancel, crashes>>
table == <<db, lost>>
tokens == <<token, fired>>
clients == <<known, event, canceled, cancel>>

Terminal == {"Completed", "Failed", "Canceled"}
States == {"Absent", "Working"} \cup Terminal

Armed == {"running", "disarm_ok", "disarm_err"}
WorkerPlaces == {"none", "created", "starting", "arming", "finish_ok",
                 "finish_err", "final_ok"} \cup Armed

At(t, place) == worker' = [worker EXCEPT ![t] = place]

Upsert(t, s) ==
  \/ db' = [db EXCEPT ![t] = s] /\ UNCHANGED lost
  \/ lost' = [lost EXCEPT ![t] = TRUE] /\ UNCHANGED db

(* Every change of a task after its creation is made, and then upserted,   *)
(* under the write lock of the store.                                      *)
SetState(t, s) == store' = [store EXCEPT ![t] = s] /\ Upsert(t, s)

Init ==
  /\ kind = [t \in Tasks |-> "unused"]
  /\ store = [t \in Tasks |-> "Absent"]
  /\ db = [t \in Tasks |-> "Absent"]
  /\ lost = [t \in Tasks |-> FALSE]
  /\ worker = [t \in Tasks |-> "none"]
  /\ token = [t \in Tasks |-> FALSE]
  /\ fired = [t \in Tasks |-> FALSE]
  /\ known = [t \in Tasks |-> FALSE]
  /\ event = [t \in Tasks |-> "none"]
  /\ canceled = [t \in Tasks |-> FALSE]
  /\ cancel = [c \in Clients |-> NoTask]
  /\ crashes = 0

-----------------------------------------------------------------------------
(* message/send and message/stream: insert the task, upsert it after the   *)
(* lock is released, start the process and answer.                         *)

CreateTask(t, method) ==
  /\ kind[t] = "unused"
  /\ kind' = [kind EXCEPT ![t] = method]
  /\ store' = [store EXCEPT ![t] = "Working"]
  /\ At(t, "created")
  /\ UNCHANGED <<table, tokens, clients, crashes>>

StartProcess(t) ==
  /\ worker[t] = "created"
  /\ Upsert(t, "Working")
  /\ At(t, "starting")
  /\ known' = [known EXCEPT ![t] = TRUE]
  /\ UNCHANGED <<kind, store, tokens, event, canceled, cancel, crashes>>

(* The client hangs up and the handler is dropped during the upsert, which *)
(* runs on a thread of its own and may or may not have begun.              *)
ClientGone(t) ==
  /\ worker[t] = "created"
  /\ db' \in {db, [db EXCEPT ![t] = "Working"]}
  /\ At(t, "none")
  /\ UNCHANGED <<kind, store, lost, tokens, clients, crashes>>

-----------------------------------------------------------------------------
(* The background process: a session, a token, the agent, the verdict.     *)

SessionCreated(t) ==
  /\ worker[t] = "starting"
  /\ At(t, "arming")
  /\ UNCHANGED <<kind, store, table, tokens, clients, crashes>>

(* Mutation: an error of create_session just ends the process.             *)
SessionFails_Silent(t) ==
  /\ worker[t] = "starting"
  /\ At(t, "none")
  /\ UNCHANGED <<kind, store, table, tokens, clients, crashes>>

SessionFails(t) ==
  /\ worker[t] = "starting"
  /\ At(t, "finish_err")
  /\ UNCHANGED <<kind, store, table, tokens, clients, crashes>>

ArmToken(t) ==
  /\ worker[t] = "arming"
  /\ token' = [token EXCEPT ![t] = TRUE]
  /\ At(t, "running")
  /\ UNCHANGED <<kind, store, table, fired, clients, crashes>>

(* Cancelled or not, the agent may return what it has or an error.         *)
AgentReturns(t) ==
  /\ worker[t] = "running"
  /\ \E place \in {"disarm_ok", "disarm_err"} : At(t, place)
  /\ UNCHANGED <<kind, store, table, tokens, clients, crashes>>

(* Mutation: the token of a failed agent stays in the cancel store.        *)
DisarmToken_OkOnly(t) ==
  /\ worker[t] \in {"disarm_ok", "disarm_err"}
  /\ token' = [token EXCEPT ![t] = @ /\ worker[t] = "disarm_err"]
  /\ At(t, IF worker[t] = "disarm_ok" THEN "finish_ok" ELSE "finish_err")
  /\ UNCHANGED <<kind, store, table, fired, clients, crashes>>

DisarmToken(t) ==
  /\ worker[t] \in {"disarm_ok", "disarm_err"}
  /\ token' = [token EXCEPT ![t] = FALSE]
  /\ At(t, IF worker[t] = "disarm_ok" THEN "finish_ok" ELSE "finish_err")
  /\ UNCHANGED <<kind, store, table, fired, clients, crashes>>

(* The verdict is set whatever state the task is in.  A stream sets it a   *)
(* second time in send_final_status, which then sends the final event.     *)
FinishOk(t) ==
  /\ worker[t] = "finish_ok"
  /\ SetState(t, "Completed")
  /\ At(t, IF kind[t] = "stream" THEN "final_ok" ELSE "none")
  /\ UNCHANGED <<kind, tokens, clients, crashes>>

(* Mutation: the final event carries the state the task had before.        *)
FinishErr_OldState(t) ==
  /\ worker[t] = "finish_err"
  /\ SetState(t, "Failed")
  /\ event' = [event EXCEPT ![t] = IF kind[t] = "stream" THEN store[t] ELSE @]
  /\ At(t, "none")
  /\ UNCHANGED <<kind, tokens, known, canceled, cancel, crashes>>

FinishErr(t) ==
  /\ worker[t] = "finish_err"
  /\ SetState(t, "Failed")
  /\ event' = [event EXCEPT ![t] = IF kind[t] = "stream" THEN "Failed" ELSE @]
  /\ At(t, "none")
  /\ UNCHANGED <<kind, tokens, known, canceled, cancel, crashes>>

SendFinalStatus(t) ==
  /\ worker[t] = "final_ok"
  /\ SetState(t, "Completed")
  /\ event' = [event EXCEPT ![t] = "Completed"]
  /\ At(t, "none")
  /\ UNCHANGED <<kind, tokens, known, canceled, cancel, crashes>>

-----------------------------------------------------------------------------
(* tasks/cancel: cancel the token if there is one, then set the state.     *)

CancelSignal(c, t) ==
  /\ cancel[c] = NoTask
  /\ known[t]
  /\ fired' = [fired EXCEPT ![t] = @ \/ token[t]]
  /\ cancel' = [cancel EXCEPT ![c] = t]
  /\ UNCHANGED <<kind, store, table, worker, token, known, event, canceled, crashes>>

(* Mutation: tasks that have ended are not refused.                        *)
CancelMark_Ended(c) ==
  LET t == cancel[c] IN
  /\ t # NoTask
  /\ IF store[t] = "Absent"
       THEN UNCHANGED <<store, table, canceled>>
       ELSE SetState(t, "Canceled") /\ canceled' = [canceled EXCEPT ![t] = TRUE]
  /\ cancel' = [cancel EXCEPT ![c] = NoTask]
  /\ UNCHANGED <<kind, worker, tokens, known, event, crashes>>

(* Mutation: the state is set in memory only.                              *)
CancelMark_Unsaved(c) ==
  LET t == cancel[c] IN
  /\ t # NoTask
  /\ IF store[t] = "Working"
       THEN /\ store' = [store EXCEPT ![t] = "Canceled"]
            /\ canceled' = [canceled EXCEPT ![t] = TRUE]
       ELSE UNCHANGED <<store, canceled>>
  /\ cancel' = [cancel EXCEPT ![c] = NoTask]
  /\ UNCHANGED <<kind, table, worker, tokens, known, event, crashes>>

CancelMark(c) ==
  LET t == cancel[c] IN
  /\ t # NoTask
  /\ IF store[t] = "Working"
       THEN SetState(t, "Canceled") /\ canceled' = [canceled EXCEPT ![t] = TRUE]
       ELSE UNCHANGED <<store, table, canceled>>
  /\ cancel' = [cancel EXCEPT ![c] = NoTask]
  /\ UNCHANGED <<kind, worker, tokens, known, event, crashes>>

(* The client hangs up and the call is dropped at one of its awaits: before*)
(* the lock, or during the upsert, with nobody told of the outcome.        *)
CancelGone(c) ==
  LET t == cancel[c] IN
  /\ t # NoTask
  /\ \/ UNCHANGED <<store, table>>
     \/ /\ store[t] = "Working"
        /\ store' = [store EXCEPT ![t] = "Canceled"]
        /\ db' \in {db, [db EXCEPT ![t] = "Canceled"]}
        /\ UNCHANGED lost
  /\ cancel' = [cancel EXCEPT ![c] = NoTask]
  /\ UNCHANGED <<kind, worker, tokens, known, event, canceled, crashes>>

-----------------------------------------------------------------------------
(* Mutation: the restart loads every task and starts it over.              *)
Restart_All ==
  /\ crashes < MaxCrashes
  /\ crashes' = crashes + 1
  /\ store' = [t \in Tasks |-> IF db[t] = "Absent" THEN "Absent" ELSE "Working"]
  /\ worker' = [t \in Tasks |-> "none"]
  /\ token' = [t \in Tasks |-> FALSE]
  /\ cancel' = [c \in Clients |-> NoTask]
  /\ UNCHANGED <<kind, table, fired, known, event, canceled>>

(* The server goes down and comes up with load_active_tasks, which skips   *)
(* the rows it cannot parse, or returns nothing when the pool, the         *)
(* connection or the query fails; the rows stay where they are.            *)
Restart ==
  /\ crashes < MaxCrashes
  /\ crashes' = crashes + 1
  /\ \E skipped \in SUBSET Tasks :
       store' = [t \in Tasks |->
                   IF db[t] \in Terminal \/ t \in skipped THEN "Absent" ELSE db[t]]
  /\ worker' = [t \in Tasks |-> "none"]
  /\ token' = [t \in Tasks |-> FALSE]
  /\ cancel' = [c \in Clients |-> NoTask]
  /\ UNCHANGED <<kind, table, fired, known, event, canceled>>

-----------------------------------------------------------------------------
ProcessStep(t) ==
  \/ StartProcess(t)
  \/ SessionCreated(t)
  \/ SessionFails(t)
  \/ ArmToken(t)
  \/ AgentReturns(t)
  \/ DisarmToken(t)
  \/ FinishOk(t)
  \/ FinishErr(t)
  \/ SendFinalStatus(t)

ClientStep(t) ==
  \/ \E method \in {"send", "stream"} : CreateTask(t, method)
  \/ ClientGone(t)
  \/ \E c \in Clients : CancelSignal(c, t)

(* Every id of the pool has been used and nothing is in flight.            *)
AllUsed ==
  /\ \A t \in Tasks : kind[t] # "unused" /\ worker[t] = "none"
  /\ UNCHANGED vars

Next ==
  \/ \E t \in Tasks : ProcessStep(t) \/ ClientStep(t)
  \/ \E c \in Clients : CancelMark(c) \/ CancelGone(c)
  \/ Restart
  \/ AllUsed

Spec == Init /\ [][Next]_vars

(* Tokio keeps polling a process that can run; clients and crashes are     *)
(* under no obligation.  Nor is an agent to return, whose turn has no limit*)
(* that ends it (the tool loop only warns), until its token is fired.      *)
DueStep(t) == ProcessStep(t) /\ (worker[t] = "running" => fired[t])

FairSpec == Spec /\ \A t \in Tasks : WF_vars(DueStep(t))

-----------------------------------------------------------------------------
TypeOK ==
  /\ kind \in [Tasks -> {"unused", "send", "stream"}]
  /\ store \in [Tasks -> States]
  /\ db \in [Tasks -> States]
  /\ lost \in [Tasks -> BOOLEAN]
  /\ worker \in [Tasks -> WorkerPlaces]
  /\ token \in [Tasks -> BOOLEAN]
  /\ fired \in [Tasks -> BOOLEAN]
  /\ known \in [Tasks -> BOOLEAN]
  /\ event \in [Tasks -> {"none", "Completed", "Failed"}]
  /\ canceled \in [Tasks -> BOOLEAN]
  /\ cancel \in [Clients -> Tasks \cup {NoTask}]
  /\ crashes \in 0 .. MaxCrashes

(* The cancel store holds the token of a task exactly while its agent can  *)
(* be told to stop: nothing is left behind on any path out of the process. *)
TokenWhileArmed == \A t \in Tasks : token[t] <=> worker[t] \in Armed

(* The final event of a stream tells the state tasks/get answers from then *)
(* on, until a restart forgets the task, or brings it back because an      *)
(* upsert has failed.                                                      *)
FinalEventIsFinal ==
  \A t \in Tasks :
    event[t] # "none" /\ ~lost[t] => store[t] \in {event[t], "Absent"}

(* Unless an upsert of a task has failed the table holds what clients were *)
(* told: the state that is answered, except a cancellation whose client    *)
(* hung up before it was answered; the final event; and that the task was  *)
(* cancelled.  A restart may fail to load the task, or have no reason to,  *)
(* but the row it can be loaded from is never lost or behind.              *)
TableFollowsStore ==
  \A t \in Tasks :
    known[t] /\ ~lost[t] =>
      /\ \/ db[t] = store[t] /\ store[t] # "Absent"
         \/ db[t] = "Working" /\ store[t] = "Canceled" /\ ~canceled[t]
         \/ store[t] = "Absent" /\ db[t] # "Absent" /\ crashes > 0
      /\ event[t] # "none" => db[t] = event[t]
      /\ canceled[t] => db[t] \in Terminal

(* A task that is recorded as ended is never at work again, nor loaded as  *)
(* if it were by any restart; a restart may forget it.                     *)
EndedStaysEnded ==
  [][\A t \in Tasks : db[t] \in Terminal => store'[t] \in Terminal \cup {"Absent"}]_vars

(* Unless the server restarts, a task whose process has started comes to   *)
(* its end or to an agent that nobody has told to stop, and to its end once*)
(* the agent has returned, or was told to while it could be: no other place*)
(* of the process holds it up, whatever clients cancel in the meantime.    *)
StartedTaskEnds ==
  \A t \in Tasks, n \in 0 .. MaxCrashes :
    known[t] /\ worker[t] # "none" /\ crashes = n
      ~> \/ worker[t] = "none" /\ store[t] \in Terminal
         \/ worker[t] = "running" /\ ~fired[t]
         \/ crashes # n

-----------------------------------------------------------------------------
(* What a comment says and the code does not keep.                         *)

(* tasks.rs: tasks/cancel is to "cancel a running task".                   *)
CanceledStaysCanceled ==
  \A t \in Tasks : canceled[t] => store[t] \in {"Canceled", "Absent"}
=============================================================================
