----------------------------- MODULE A2AProofs -----------------------------
(***************************************************************************)
(* Proofs about A2ATasks, for any set of tasks, any number of cancelling   *)
(* clients, any number of restarts, and whatever upserts fail.  The        *)
(* inductive invariant says, for each place of a task's process, what the  *)
(* store and the table hold and whether the final event is out.            *)
(***************************************************************************)
EXTENDS A2ATasks, TLAPS

(* Before its process has started nobody knows the task, and it is in no   *)
(* table the restart reads.                                                *)
YoungInv(t) ==
  /\ kind[t] = "unused" => /\ store[t] = "Absent" /\ db[t] = "Absent"
                           /\ worker[t] = "none" /\ ~known[t] /\ event[t] = "none"
                           /\ ~canceled[t]
  /\ worker[t] = "created" => /\ store[t] = "Working" /\ db[t] = "Absent"
                              /\ kind[t] # "unused" /\ ~known[t]
                              /\ event[t] = "none" /\ ~canceled[t]

(* A process at work is the only one of its task and has not reported.     *)
BusyInv(t) ==
  /\ token[t] <=> worker[t] \in Armed
  /\ worker[t] \notin {"none", "created"} =>
       known[t] /\ store[t] # "Absent" /\ event[t] = "none" /\ kind[t] # "unused"
  /\ worker[t] = "final_ok" => store[t] = "Completed"

(* What is recorded as ended is not at work.  Unless an upsert of the task *)
(* has failed, the table is where a restart will find the state clients    *)
(* were told.                                                              *)
TableInv(t) ==
  /\ (event[t] # "none" \/ canceled[t]) => known[t]
  /\ db[t] \in Terminal => store[t] # "Working"
  /\ store[t] = "Absent" /\ kind[t] # "unused" => crashes > 0
  /\ known[t] /\ ~lost[t] =>
       /\ db[t] # "Absent"
       /\ store[t] # "Absent" =>
            \/ db[t] = store[t]
            \/ db[t] = "Working" /\ store[t] = "Canceled" /\ ~canceled[t]
       /\ event[t] # "none" => store[t] \in {event[t], "Absent"} /\ db[t] = event[t]
       /\ canceled[t] => store[t] # "Working" /\ db[t] \in Terminal

CancelInv == \A c \in Clients : cancel[c] # NoTask => known[cancel[c]]

TaskInv == \A t \in Tasks : YoungInv(t) /\ BusyInv(t) /\ TableInv(t)

IInv == TypeOK /\ CancelInv /\ TaskInv

(* At the start there is no task and no call.                              *)
LEMMA InitInv == Init => IInv
  BY NoTaskAssumption, MaxCrashesAssumption
  DEF Init, IInv, TypeOK, CancelInv, TaskInv, YoungInv, BusyInv, TableInv,
      States, Terminal, WorkerPlaces, Armed

(* A step of the process of task t keeps the types, ...                    *)
LEMMA ProcessStepType ==
  ASSUME NEW t \in Tasks, TypeOK, ProcessStep(t)
  PROVE  TypeOK'
<1> USE DEF tokens, clients, table, At, SetState, Upsert
<1>1. CASE StartProcess(t)
  BY <1>1 DEF StartProcess, TypeOK, WorkerPlaces, Armed, States
<1>2. CASE SessionCreated(t)
  BY <1>2 DEF SessionCreated, TypeOK, WorkerPlaces, Armed
<1>3. CASE SessionFails(t)
  BY <1>3 DEF SessionFails, TypeOK, WorkerPlaces, Armed
<1>4. CASE ArmToken(t)
  BY <1>4 DEF ArmToken, TypeOK, WorkerPlaces, Armed
<1>5. CASE AgentReturns(t)
  BY <1>5 DEF AgentReturns, TypeOK, WorkerPlaces, Armed
<1>6. CASE DisarmToken(t)
  BY <1>6 DEF DisarmToken, TypeOK, WorkerPlaces, Armed
<1>7. CASE FinishOk(t)
  BY <1>7 DEF FinishOk, TypeOK, WorkerPlaces, Armed, States, Terminal
<1>8. CASE FinishErr(t)
  BY <1>8 DEF FinishErr, TypeOK, WorkerPlaces, Armed, States, Terminal
<1>9. CASE SendFinalStatus(t)
  BY <1>9 DEF SendFinalStatus, TypeOK, WorkerPlaces, Armed, States, Terminal
<1> QED
  BY <1>1, <1>2, <1>3, <1>4, <1>5, <1>6, <1>7, <1>8, <1>9
  DEF ProcessStep

(* ... the invariant of every task, ...                                    *)
LEMMA ProcessStepTask ==
  ASSUME NEW t \in Tasks, IInv, ProcessStep(t), NEW u \in Tasks
  PROVE  YoungInv(u)' /\ BusyInv(u)' /\ TableInv(u)'
<1> USE DEF tokens, clients, table, At, SetState, Upsert
<1>0. TypeOK /\ YoungInv(u) /\ BusyInv(u) /\ TableInv(u)
  BY DEF IInv, TaskInv
<1>1. CASE StartProcess(t)
  BY <1>0, <1>1
  DEF StartProcess, TypeOK, YoungInv, BusyInv, TableInv, Armed, Terminal
<1>2. CASE SessionCreated(t)
  BY <1>0, <1>2
  DEF SessionCreated, TypeOK, YoungInv, BusyInv, TableInv, Armed, Terminal
<1>3. CASE SessionFails(t)
  BY <1>0, <1>3
  DEF SessionFails, TypeOK, YoungInv, BusyInv, TableInv, Armed, Terminal
<1>4. CASE ArmToken(t)
  BY <1>0, <1>4
  DEF ArmToken, TypeOK, YoungInv, BusyInv, TableInv, Armed, Terminal
<1>5. CASE AgentReturns(t)
  BY <1>0, <1>5
  DEF AgentReturns, TypeOK, YoungInv, BusyInv, TableInv, Armed, Terminal
<1>6. CASE DisarmToken(t)
  BY <1>0, <1>6
  DEF DisarmToken, TypeOK, YoungInv, BusyInv, TableInv, Armed, Terminal
<1>7. CASE FinishOk(t)
  BY <1>0, <1>7
  DEF FinishOk, TypeOK, YoungInv, BusyInv, TableInv, Armed, Terminal
<1>8. CASE FinishErr(t)
  BY <1>0, <1>8
  DEF FinishErr, TypeOK, YoungInv, BusyInv, TableInv, Armed, Terminal
<1>9. CASE SendFinalStatus(t)
  BY <1>0, <1>9
  DEF SendFinalStatus, TypeOK, YoungInv, BusyInv, TableInv, Armed, Terminal
<1> QED
  BY <1>1, <1>2, <1>3, <1>4, <1>5, <1>6, <1>7, <1>8, <1>9
  DEF ProcessStep

(* ... and what is known of the calls of tasks/cancel.                     *)
LEMMA ProcessStepCancel ==
  ASSUME NEW t \in Tasks, TypeOK, CancelInv, ProcessStep(t)
  PROVE  CancelInv'
<1>1. /\ cancel' = cancel
      /\ \/ known' = known
         \/ known' = [known EXCEPT ![t] = TRUE]
  BY DEF ProcessStep, StartProcess, SessionCreated, SessionFails, ArmToken,
         AgentReturns, DisarmToken, FinishOk, FinishErr, SendFinalStatus, clients
<1> QED BY <1>1 DEF CancelInv, TypeOK

(* A client that creates, signals or abandons a task keeps the invariant.  *)
LEMMA ClientStepInv ==
  ASSUME NEW t \in Tasks, IInv, ClientStep(t)
  PROVE  IInv'
<1> USE DEF tokens, clients, table, At
<1>0. TypeOK /\ CancelInv /\ \A u \in Tasks : YoungInv(u) /\ BusyInv(u) /\ TableInv(u)
  BY DEF IInv, TaskInv
<1>1. ASSUME NEW method \in {"send", "stream"}, CreateTask(t, method)
      PROVE  IInv'
  <2>1. TypeOK'
    BY <1>0, <1>1 DEF CreateTask, TypeOK, States, WorkerPlaces
  <2>2. CancelInv'
    BY <1>0, <1>1 DEF CreateTask, CancelInv
  <2>3. ASSUME NEW u \in Tasks PROVE YoungInv(u)' /\ BusyInv(u)' /\ TableInv(u)'
    BY <1>0, <1>1 DEF CreateTask, TypeOK, YoungInv, BusyInv, TableInv, Armed, Terminal
  <2> QED BY <2>1, <2>2, <2>3 DEF IInv, TaskInv
<1>2. CASE ClientGone(t)
  <2>1. TypeOK'
    BY <1>0, <1>2 DEF ClientGone, TypeOK, States, WorkerPlaces
  <2>2. CancelInv'
    BY <1>0, <1>2 DEF ClientGone, CancelInv
  <2>3. ASSUME NEW u \in Tasks PROVE YoungInv(u)' /\ BusyInv(u)' /\ TableInv(u)'
    BY <1>0, <1>2 DEF ClientGone, TypeOK, YoungInv, BusyInv, TableInv, Armed, Terminal
  <2> QED BY <2>1, <2>2, <2>3 DEF IInv, TaskInv
<1>3. ASSUME NEW c \in Clients, CancelSignal(c, t)
      PROVE  IInv'
  <2>1. TypeOK'
    BY <1>0, <1>3 DEF CancelSignal, TypeOK
  <2>2. CancelInv'
    BY <1>0, <1>3 DEF CancelSignal, CancelInv, TypeOK
  <2>3. ASSUME NEW u \in Tasks PROVE YoungInv(u)' /\ BusyInv(u)' /\ TableInv(u)'
    BY <1>0, <1>3 DEF CancelSignal, YoungInv, BusyInv, TableInv
  <2> QED BY <2>1, <2>2, <2>3 DEF IInv, TaskInv
<1> QED BY <1>1, <1>2, <1>3 DEF ClientStep

(* A cancellation only ends a task that is Working in both tables.         *)
LEMMA CancelStepInv ==
  ASSUME NEW c \in Clients, IInv, CancelMark(c) \/ CancelGone(c)
  PROVE  IInv'
<1> USE DEF tokens, table, SetState, Upsert
<1> DEFINE t == cancel[c]
<1>0. TypeOK /\ CancelInv /\ \A u \in Tasks : YoungInv(u) /\ BusyInv(u) /\ TableInv(u)
  BY DEF IInv, TaskInv
<1>1. t \in Tasks /\ known[t]
  BY <1>0 DEF CancelMark, CancelGone, TypeOK, CancelInv
<1>2. /\ cancel' = [cancel EXCEPT ![c] = NoTask]
      /\ UNCHANGED <<kind, worker, token, fired, known, event, crashes>>
  BY DEF CancelMark, CancelGone
<1>3. \/ UNCHANGED <<store, db, lost, canceled>>
      \/ /\ store[t] = "Working"
         /\ store' = [store EXCEPT ![t] = "Canceled"]
         /\ \/ /\ db' = [db EXCEPT ![t] = "Canceled"]
               /\ lost' = lost
               /\ \/ canceled' = canceled
                  \/ canceled' = [canceled EXCEPT ![t] = TRUE]
            \/ UNCHANGED <<db, lost, canceled>>
            \/ /\ lost' = [lost EXCEPT ![t] = TRUE]
               /\ canceled' = [canceled EXCEPT ![t] = TRUE]
               /\ db' = db
  BY DEF CancelMark, CancelGone
<1>4. TypeOK'
  BY <1>0, <1>1, <1>2, <1>3 DEF TypeOK, States, Terminal
<1>5. CancelInv'
  BY <1>0, <1>2 DEF CancelInv, TypeOK
<1>6. ASSUME NEW u \in Tasks PROVE YoungInv(u)' /\ BusyInv(u)' /\ TableInv(u)'
  <2> HIDE DEF t
  <2>1. CASE UNCHANGED <<store, db, lost, canceled>>
    BY <1>0, <1>2, <2>1 DEF YoungInv, BusyInv, TableInv
  <2>2. CASE ~UNCHANGED <<store, db, lost, canceled>>
    BY <1>0, <1>1, <1>2, <1>3, <2>2
    DEF TypeOK, YoungInv, BusyInv, TableInv, Terminal
  <2> QED BY <2>1, <2>2
<1> QED BY <1>4, <1>5, <1>6 DEF IInv, TaskInv

(* A restart forgets what has ended and keeps what a client may ask for.   *)
LEMMA RestartInv ==
  ASSUME IInv, Restart
  PROVE  IInv'
<1>0. TypeOK /\ CancelInv /\ \A u \in Tasks : YoungInv(u) /\ BusyInv(u) /\ TableInv(u)
  BY DEF IInv, TaskInv
<1>1. TypeOK'
  BY <1>0, MaxCrashesAssumption DEF Restart, table, TypeOK, States, WorkerPlaces
<1>2. CancelInv'
  BY DEF Restart, table, CancelInv
<1>3. ASSUME NEW u \in Tasks PROVE YoungInv(u)' /\ BusyInv(u)' /\ TableInv(u)'
  BY <1>0 DEF Restart, table, TypeOK, YoungInv, BusyInv, TableInv, Armed, Terminal, States
<1> QED BY <1>1, <1>2, <1>3 DEF IInv, TaskInv

(* Every step of the gateway keeps the invariant.                          *)
LEMMA StepInv ==
  IInv /\ [Next]_vars => IInv'
<1> SUFFICES ASSUME IInv, [Next]_vars PROVE IInv'
  OBVIOUS
<1>1. ASSUME NEW t \in Tasks, ProcessStep(t) PROVE IInv'
  <2>1. TypeOK /\ CancelInv
    BY DEF IInv
  <2> QED BY <1>1, <2>1, ProcessStepType, ProcessStepTask, ProcessStepCancel DEF IInv, TaskInv
<1>2. ASSUME NEW t \in Tasks, ClientStep(t) PROVE IInv'
  BY <1>2, ClientStepInv
<1>3. ASSUME NEW c \in Clients, CancelMark(c) \/ CancelGone(c) PROVE IInv'
  BY <1>3, CancelStepInv
<1>4. CASE Restart
  BY <1>4, RestartInv
<1>5. CASE UNCHANGED vars
  BY <1>5 DEF vars, IInv, TypeOK, CancelInv, TaskInv, YoungInv, BusyInv, TableInv
<1> QED BY <1>1, <1>2, <1>3, <1>4, <1>5 DEF Next, AllUsed

(* The inductive invariant holds in every state of every execution.        *)
THEOREM InductiveInvariant == Spec => []IInv
  BY InitInv, StepInv, PTL DEF Spec

-----------------------------------------------------------------------------
(* The values of the variables stay in their types.                        *)
THEOREM TypeCorrect == Spec => []TypeOK
  BY InductiveInvariant, PTL DEF IInv

(* Whatever becomes of a task, its token is in the cancel store exactly    *)
(* while its agent can be told to stop.                                    *)
THEOREM NoTokenLeft == Spec => []TokenWhileArmed
<1>1. IInv => TokenWhileArmed
  BY DEF IInv, TaskInv, BusyInv, TokenWhileArmed
<1> QED BY <1>1, InductiveInvariant, PTL

(* The final event of a stream tells the state the task keeps.             *)
THEOREM FinalEventHolds == Spec => []FinalEventIsFinal
<1>1. IInv => FinalEventIsFinal
  BY DEF IInv, TaskInv, TableInv, FinalEventIsFinal
<1> QED BY <1>1, InductiveInvariant, PTL

(* The table holds what clients were told, however clients, the processes  *)
(* of the tasks and restarts interleave, unless an upsert of the task has  *)
(* failed; only the copy in memory is lost when a restart cannot load it.  *)
THEOREM TableKeepsTheWord == Spec => []TableFollowsStore
<1>1. IInv => TableFollowsStore
  BY DEF IInv, TypeOK, States, TaskInv, YoungInv, TableInv, TableFollowsStore
<1> QED BY <1>1, InductiveInvariant, PTL

(* A task recorded as ended is never at work again.                        *)
THEOREM NoRevival == Spec => EndedStaysEnded
<1>1. ASSUME IInv, [Next]_vars, NEW t \in Tasks, db[t] \in Terminal
      PROVE  store'[t] \in Terminal \cup {"Absent"}
  <2>0. /\ TypeOK /\ TypeOK' /\ YoungInv(t) /\ BusyInv(t)
        /\ store[t] # "Working" /\ store[t] \in States
    BY <1>1, StepInv DEF IInv, TaskInv, TableInv, TypeOK
  <2>1. ASSUME NEW u \in Tasks, ProcessStep(u)
        PROVE  store'[t] \in Terminal \cup {"Absent"}
    BY <1>1, <2>0, <2>1
    DEF ProcessStep, StartProcess, SessionCreated, SessionFails, ArmToken,
        AgentReturns, DisarmToken, FinishOk, FinishErr, SendFinalStatus,
        SetState, TypeOK, Terminal, States
  <2>2. ASSUME NEW u \in Tasks, ClientStep(u)
        PROVE  store'[t] \in Terminal \cup {"Absent"}
    BY <1>1, <2>0, <2>2
    DEF ClientStep, CreateTask, ClientGone, CancelSignal, TypeOK, YoungInv, Terminal, States
  <2>3. ASSUME NEW c \in Clients, CancelMark(c) \/ CancelGone(c)
        PROVE  store'[t] \in Terminal \cup {"Absent"}
    BY <1>1, <2>0, <2>3 DEF CancelMark, CancelGone, SetState, TypeOK, Terminal, States
  <2>4. CASE Restart
    BY <1>1, <2>4 DEF Restart
  <2>5. CASE UNCHANGED vars
    BY <1>1, <2>0, <2>5 DEF vars, States
  <2> QED BY <1>1, <2>1, <2>2, <2>3, <2>4, <2>5 DEF Next, AllUsed
<1>2. IInv /\ [Next]_vars =>
        [\A t \in Tasks : db[t] \in Terminal => store'[t] \in Terminal \cup {"Absent"}]_vars
  BY <1>1
<1> QED BY <1>2, InductiveInvariant, PTL DEF Spec, EndedStaysEnded

-----------------------------------------------------------------------------
(* The life of a task, as its clients see it.                              *)
LifeOf(t) ==
  IF kind[t] = "unused" THEN "unborn"
  ELSE IF worker[t] = "created" THEN "asked"
  ELSE IF worker[t] = "final_ok" THEN "closing"
  ELSE IF worker[t] = "none" THEN "over"
  ELSE "working"

Ended == [t \in Tasks |-> db[t] \in Terminal]

Life == INSTANCE TaskLife
          WITH state <- store, life <- [t \in Tasks |-> LifeOf(t)], ended <- Ended

LifeSpec == Life!Spec

MappedLife == [t \in Tasks |-> LifeOf(t)]

(* A move of one task's life.                                              *)
LEMMA LifeMoves ==
  ASSUME NEW t \in Tasks, NEW to, LifeOf(t)' = to,
         \A u \in Tasks : u # t => kind'[u] = kind[u] /\ worker'[u] = worker[u]
  PROVE  MappedLife' = [MappedLife EXCEPT ![t] = to]
<1>1. \A u \in Tasks : u # t => LifeOf(u)' = LifeOf(u)
  BY DEF LifeOf
<1> QED BY <1>1 DEF MappedLife

(* The lives stay when each of them does.                                  *)
LEMMA SameLife ==
  ASSUME \A t \in Tasks : LifeOf(t)' = LifeOf(t)
  PROVE  MappedLife' = MappedLife
  BY DEF MappedLife

(* What is on record of ended tasks when a row is written.                 *)
LEMMA SameEnded ==
  ASSUME \A t \in Tasks : db'[t] = db[t] \/ {db[t], db'[t]} \cap Terminal = {}
  PROVE  Ended' = Ended
  BY DEF Ended

LEMMA EndRecorded ==
  ASSUME NEW t \in Tasks, NEW s \in Terminal, TypeOK, Upsert(t, s)
  PROVE  Life!Record(t)
<1>1. CASE UNCHANGED db
  BY <1>1 DEF Life!Record, Ended
<1>2. CASE db' = [db EXCEPT ![t] = s]
  <2>1. Ended' = [Ended EXCEPT ![t] = TRUE]
    BY <1>2 DEF TypeOK, Ended
  <2> QED BY <2>1 DEF Life!Record
<1> QED BY <1>1, <1>2 DEF Upsert

(* The steps of a process: it begins, judges the task once, and reports.   *)
LEMMA ProcessLife ==
  ASSUME NEW t \in Tasks, IInv, ProcessStep(t)
  PROVE  Life!Next \/ UNCHANGED <<store, MappedLife, event, Ended>>
<1> USE DEF tokens, clients, table, SetState, Upsert, At, MappedLife
<1>0. TypeOK /\ YoungInv(t) /\ BusyInv(t)
  BY DEF IInv, TaskInv
<1>1. CASE StartProcess(t)
  <2>1. LifeOf(t) = "asked" /\ LifeOf(t)' = "working"
    BY <1>0, <1>1 DEF StartProcess, LifeOf, TypeOK, YoungInv
  <2>2. \A u \in Tasks : u # t => kind'[u] = kind[u] /\ worker'[u] = worker[u]
    BY <1>0, <1>1 DEF StartProcess, TypeOK
  <2>3. Ended' = Ended
    BY <1>0, <1>1, SameEnded DEF StartProcess, TypeOK, YoungInv, Terminal
  <2>4. Life!Begin(t)
    BY <1>1, <2>1, <2>2, <2>3, LifeMoves DEF Life!Begin, Life!Move, StartProcess
  <2> QED BY <2>4 DEF Life!Next
<1>2. CASE \/ SessionCreated(t) \/ SessionFails(t) \/ ArmToken(t) \/ AgentReturns(t)
           \/ DisarmToken(t)
  <2>1. /\ worker[t] \in {"starting", "arming", "running", "disarm_ok", "disarm_err"}
        /\ worker'[t] \in {"arming", "finish_err", "running", "disarm_ok", "disarm_err",
                           "finish_ok"}
        /\ \A u \in Tasks : u # t => worker'[u] = worker[u]
        /\ UNCHANGED <<kind, store, event, db>>
    BY <1>0, <1>2
    DEF SessionCreated, SessionFails, ArmToken, AgentReturns, DisarmToken, TypeOK
  <2>2. \A u \in Tasks : LifeOf(u)' = LifeOf(u)
    BY <2>1 DEF LifeOf
  <2> QED BY <2>1, <2>2, SameLife DEF Ended
<1>3. CASE FinishOk(t)
  <2>1. LifeOf(t) = "working" /\ LifeOf(t)' \in {"over", "closing"}
    BY <1>0, <1>3 DEF FinishOk, LifeOf, TypeOK, BusyInv
  <2>2. \A u \in Tasks : u # t => kind'[u] = kind[u] /\ worker'[u] = worker[u]
    BY <1>0, <1>3 DEF FinishOk, TypeOK
  <2>3. event' = event /\ store' = [store EXCEPT ![t] = "Completed"]
    BY <1>3 DEF FinishOk
  <2>4. Life!Record(t)
    BY <1>0, <1>3, EndRecorded DEF FinishOk, Terminal
  <2>5. Life!Judge(t, "Completed")
    BY <2>1, <2>2, <2>3, <2>4, LifeMoves DEF Life!Judge, Life!Move
  <2> QED BY <2>5 DEF Life!Next
<1>4. CASE FinishErr(t)
  <2>1. LifeOf(t) = "working" /\ LifeOf(t)' = "over"
    BY <1>0, <1>4 DEF FinishErr, LifeOf, TypeOK, BusyInv
  <2>2. \A u \in Tasks : u # t => kind'[u] = kind[u] /\ worker'[u] = worker[u]
    BY <1>0, <1>4 DEF FinishErr, TypeOK
  <2>3. /\ store' = [store EXCEPT ![t] = "Failed"]
        /\ event' \in {event, [event EXCEPT ![t] = "Failed"]}
    BY <1>0, <1>4 DEF FinishErr, TypeOK
  <2>4. Life!Record(t)
    BY <1>0, <1>4, EndRecorded DEF FinishErr, Terminal
  <2>5. Life!Judge(t, "Failed")
    BY <2>1, <2>2, <2>3, <2>4, LifeMoves DEF Life!Judge, Life!Move
  <2> QED BY <2>5 DEF Life!Next
<1>5. CASE SendFinalStatus(t)
  <2>1. LifeOf(t) = "closing" /\ LifeOf(t)' = "over"
    BY <1>0, <1>5 DEF SendFinalStatus, LifeOf, TypeOK, BusyInv
  <2>2. \A u \in Tasks : u # t => kind'[u] = kind[u] /\ worker'[u] = worker[u]
    BY <1>0, <1>5 DEF SendFinalStatus, TypeOK
  <2>3. store[t] = "Completed"
    BY <1>0, <1>5 DEF SendFinalStatus, BusyInv
  <2>4. store' = store /\ event' = [event EXCEPT ![t] = store[t]]
    BY <1>0, <1>5, <2>3 DEF SendFinalStatus, TypeOK
  <2>5. Life!Record(t)
    BY <1>0, <1>5, EndRecorded DEF SendFinalStatus, Terminal
  <2>6. Life!Report(t)
    BY <2>1, <2>2, <2>4, <2>5, LifeMoves DEF Life!Report, Life!Move
  <2> QED BY <2>6 DEF Life!Next
<1> QED
  BY <1>1, <1>2, <1>3, <1>4, <1>5 DEF ProcessStep

(* The steps of clients: they create, give up and cancel.                  *)
LEMMA ClientLife ==
  ASSUME IInv,
         \/ \E t \in Tasks : ClientStep(t)
         \/ \E c \in Clients : CancelMark(c) \/ CancelGone(c)
  PROVE  Life!Next \/ UNCHANGED <<store, MappedLife, event, Ended>>
<1> USE DEF tokens, clients, table, SetState, Upsert, At, MappedLife
<1>0. TypeOK /\ CancelInv /\ \A t \in Tasks : YoungInv(t) /\ BusyInv(t)
  BY DEF IInv, TaskInv
<1>1. ASSUME NEW t \in Tasks, NEW method \in {"send", "stream"}, CreateTask(t, method)
      PROVE  Life!Next
  <2>1. LifeOf(t) = "unborn" /\ LifeOf(t)' = "asked"
    BY <1>0, <1>1 DEF CreateTask, LifeOf, TypeOK
  <2>2. \A u \in Tasks : u # t => kind'[u] = kind[u] /\ worker'[u] = worker[u]
    BY <1>0, <1>1 DEF CreateTask, TypeOK
  <2>3. Life!Create(t)
    BY <1>1, <2>1, <2>2, LifeMoves DEF Life!Create, Life!Move, CreateTask, Ended
  <2> QED BY <2>3 DEF Life!Next
<1>2. ASSUME NEW t \in Tasks, ClientGone(t)
      PROVE  Life!Next
  <2>1. LifeOf(t) = "asked" /\ LifeOf(t)' = "over"
    BY <1>0, <1>2 DEF ClientGone, LifeOf, TypeOK, YoungInv
  <2>2. \A u \in Tasks : u # t => kind'[u] = kind[u] /\ worker'[u] = worker[u]
    BY <1>0, <1>2 DEF ClientGone, TypeOK
  <2>3. Ended' = Ended
    BY <1>0, <1>2, SameEnded DEF ClientGone, TypeOK, YoungInv, Terminal
  <2>4. Life!Abandon(t)
    BY <1>2, <2>1, <2>2, <2>3, LifeMoves DEF Life!Abandon, Life!Move, ClientGone
  <2> QED BY <2>4 DEF Life!Next
<1>3. ASSUME NEW t \in Tasks, NEW c \in Clients, CancelSignal(c, t)
      PROVE  UNCHANGED <<store, MappedLife, event, Ended>>
  BY <1>3 DEF CancelSignal, LifeOf, Ended
<1>4. ASSUME NEW c \in Clients, CancelMark(c) \/ CancelGone(c)
      PROVE  Life!Next \/ UNCHANGED <<store, MappedLife, event, Ended>>
  <2> DEFINE t == cancel[c]
  <2>1. t \in Tasks /\ known[t]
    BY <1>0, <1>4 DEF CancelMark, CancelGone, TypeOK, CancelInv
  <2>2. UNCHANGED <<MappedLife, event>>
    BY <1>4 DEF CancelMark, CancelGone, LifeOf
  <2>3. CASE UNCHANGED <<store, db>>
    BY <2>2, <2>3 DEF Ended
  <2>4. CASE ~UNCHANGED <<store, db>>
    <3>1. store[t] = "Working" /\ store' = [store EXCEPT ![t] = "Canceled"]
      BY <1>4, <2>4 DEF CancelMark, CancelGone
    <3>4. Life!Record(t)
      <4>1. db' = db \/ db' = [db EXCEPT ![t] = "Canceled"]
        BY <1>4, <2>4 DEF CancelMark, CancelGone
      <4>2. CASE db' = db
        BY <4>2 DEF Life!Record, Ended
      <4>3. CASE db' = [db EXCEPT ![t] = "Canceled"]
        <5> HIDE DEF t
        <5>1. Ended' = [Ended EXCEPT ![t] = TRUE]
          BY <1>0, <2>1, <4>3 DEF TypeOK, Ended, Terminal
        <5> QED BY <5>1 DEF Life!Record
      <4> QED BY <4>1, <4>2, <4>3
    <3>2. LifeOf(t) \in {"working", "over"}
      BY <1>0, <2>1, <3>1 DEF LifeOf, YoungInv, BusyInv
    <3>3. Life!Cancel(t)
      BY <2>1, <2>2, <3>1, <3>2, <3>4 DEF Life!Cancel
    <3> QED BY <2>1, <3>3 DEF Life!Next
  <2> QED BY <2>3, <2>4
<1> QED
  BY <1>1, <1>2, <1>3, <1>4 DEF ClientStep

(* A restart leaves nothing at work and brings back nothing that is        *)
(* recorded as ended.                                                      *)
LEMMA RestartLife ==
  ASSUME IInv, Restart
  PROVE  Life!Restart
<1>0. TypeOK
  BY DEF IInv
<1>1. MappedLife' = [t \in Tasks |-> IF MappedLife[t] = "unborn" THEN "unborn" ELSE "over"]
  <2>1. \A t \in Tasks : LifeOf(t)' = IF LifeOf(t) = "unborn" THEN "unborn" ELSE "over"
    BY DEF Restart, LifeOf
  <2> QED BY <2>1 DEF MappedLife
<1>2. store' \in [Tasks -> {"Absent", "Working"}]
  BY <1>0 DEF Restart, TypeOK, States, Terminal
<1>3. \A t \in Tasks : MappedLife[t] = "unborn" \/ Ended[t] => store'[t] = "Absent"
  <2>1. \A t \in Tasks : LifeOf(t) = "unborn" => db[t] = "Absent"
    BY DEF LifeOf, IInv, TaskInv, YoungInv
  <2> QED BY <2>1 DEF Restart, MappedLife, Ended
<1>4. event' = event /\ Ended' = Ended
  BY DEF Restart, Ended, table
<1> QED
  BY <1>1, <1>2, <1>3, <1>4 DEF Life!Restart, MappedLife

(* The gateway implements the life of a task, whatever upserts fail, and   *)
(* however clients, processes and restarts interleave: a task has at most  *)
(* one process, that process judges it once, its final event is sent at    *)
(* most once and says what is answered then, a cancellation ends only what *)
(* has not ended, and a task whose end is on record never comes back.      *)
THEOREM TaskLifeImplemented == Spec => LifeSpec
<1>1. Init => Life!Init
  <2>1. ASSUME Init
        PROVE  /\ \A t \in Tasks : LifeOf(t) = "unborn" /\ ~(db[t] \in Terminal)
               /\ store = [t \in Tasks |-> "Absent"] /\ event = [t \in Tasks |-> "none"]
    BY <2>1 DEF Init, LifeOf, Terminal
  <2>2. ASSUME Init
        PROVE  /\ MappedLife = [t \in Tasks |-> "unborn"]
               /\ Ended = [t \in Tasks |-> FALSE]
    <3>1. ASSUME NEW t \in Tasks PROVE (db[t] \in Terminal) = FALSE
      <4>1. ~(db[t] \in Terminal)
        BY <2>1, <2>2
      <4> QED BY <4>1
    <3>2. Ended = [t \in Tasks |-> FALSE]
      BY <3>1, Zenon DEF Ended
    <3>3. MappedLife = [t \in Tasks |-> "unborn"]
      BY <2>1, <2>2 DEF MappedLife
    <3> QED BY <3>2, <3>3
  <2> QED BY <2>1, <2>2 DEF Life!Init, MappedLife
<1>2. ASSUME IInv, [Next]_vars PROVE [Life!Next]_(Life!lifeVars)
  <2>1. Life!Next \/ UNCHANGED <<store, MappedLife, event, Ended>>
    <3>1. CASE \E t \in Tasks : ProcessStep(t)
      BY <1>2, <3>1, ProcessLife
    <3>2. CASE \/ \E t \in Tasks : ClientStep(t)
               \/ \E c \in Clients : CancelMark(c) \/ CancelGone(c)
      BY <1>2, <3>2, ClientLife
    <3>3. CASE Restart
      BY <1>2, <3>3, RestartLife DEF Life!Next
    <3>4. CASE UNCHANGED vars
      BY <3>4 DEF vars, table, clients, MappedLife, LifeOf, Ended
    <3> QED BY <1>2, <3>1, <3>2, <3>3, <3>4 DEF Next, AllUsed
  <2> QED BY <2>1 DEF Life!lifeVars, MappedLife
<1> QED
  BY <1>1, <1>2, InductiveInvariant, PTL DEF Spec, LifeSpec, Life!Spec

-----------------------------------------------------------------------------
(* How far the process of a task is from its end.                          *)
StepsLeft(place) ==
  IF place = "none" THEN 0
  ELSE IF place = "final_ok" THEN 1
  ELSE IF place \in {"finish_ok", "finish_err"} THEN 2
  ELSE IF place \in {"disarm_ok", "disarm_err"} THEN 3
  ELSE IF place = "running" THEN 4
  ELSE IF place = "arming" THEN 5
  ELSE IF place = "starting" THEN 6
  ELSE 7

(* A process that has started is brought nearer to its end by each of its  *)
(* own steps, and held up by nobody else's but a restart; when it is over  *)
(* the task has ended, whatever the state clients have put it in.          *)
ProcessesAdvance ==
  [][\A t \in Tasks : known[t] /\ worker[t] # "none" =>
       \/ worker'[t] = worker[t] /\ ~ProcessStep(t)
       \/ /\ StepsLeft(worker'[t]) < StepsLeft(worker[t])
          /\ worker'[t] = "none" => store'[t] \in Terminal
       \/ crashes' # crashes]_vars

(* The measure at each place.                                              *)
LEMMA StepsLeftTable ==
  /\ StepsLeft("none") = 0 /\ StepsLeft("final_ok") = 1
  /\ StepsLeft("finish_ok") = 2 /\ StepsLeft("finish_err") = 2
  /\ StepsLeft("disarm_ok") = 3 /\ StepsLeft("disarm_err") = 3
  /\ StepsLeft("running") = 4 /\ StepsLeft("arming") = 5
  /\ StepsLeft("starting") = 6 /\ StepsLeft("created") = 7
  BY DEF StepsLeft

(* The places a step of the process leads from and to.                     *)
LEMMA ProcessMoves ==
  ASSUME NEW t \in Tasks, TypeOK, ProcessStep(t)
  PROVE  /\ \/ worker[t] = "created" /\ worker'[t] = "starting"
            \/ worker[t] = "starting" /\ worker'[t] \in {"arming", "finish_err"}
            \/ worker[t] = "arming" /\ worker'[t] = "running"
            \/ worker[t] = "running" /\ worker'[t] \in {"disarm_ok", "disarm_err"}
            \/ worker[t] = "disarm_ok" /\ worker'[t] = "finish_ok"
            \/ worker[t] = "disarm_err" /\ worker'[t] = "finish_err"
            \/ worker[t] = "finish_ok" /\ worker'[t] \in {"final_ok", "none"}
            \/ worker[t] \in {"finish_err", "final_ok"} /\ worker'[t] = "none"
         /\ worker'[t] = "none" => store'[t] \in Terminal
         /\ \A u \in Tasks : u # t => worker'[u] = worker[u]
<1> USE DEF At, SetState, TypeOK, Terminal
<1>1. CASE StartProcess(t) \/ SessionCreated(t) \/ SessionFails(t)
  BY <1>1 DEF StartProcess, SessionCreated, SessionFails
<1>2. CASE ArmToken(t) \/ AgentReturns(t) \/ DisarmToken(t)
  BY <1>2 DEF ArmToken, AgentReturns, DisarmToken
<1>3. CASE FinishOk(t)
  BY <1>3 DEF FinishOk
<1>4. CASE FinishErr(t) \/ SendFinalStatus(t)
  BY <1>4 DEF FinishErr, SendFinalStatus
<1> QED
  BY <1>1, <1>2, <1>3, <1>4 DEF ProcessStep

(* Each step of a process lowers the measure, and the last one leaves the  *)
(* task ended.                                                             *)
LEMMA ProcessAdvances ==
  ASSUME NEW t \in Tasks, TypeOK, ProcessStep(t)
  PROVE  /\ StepsLeft(worker'[t]) < StepsLeft(worker[t])
         /\ worker'[t] = "none" => store'[t] \in Terminal
<1>1. StepsLeft(worker'[t]) < StepsLeft(worker[t])
  BY ProcessMoves, StepsLeftTable
<1> QED BY <1>1, ProcessMoves

(* The part of StartedTaskEnds that needs no fairness: from its start to   *)
(* its end a process takes at most six steps.                              *)
THEOREM ProcessesEnd == Spec => ProcessesAdvance
<1> DEFINE Advance(t) == known[t] /\ worker[t] # "none" =>
             \/ worker'[t] = worker[t] /\ ~ProcessStep(t)
             \/ /\ StepsLeft(worker'[t]) < StepsLeft(worker[t])
                /\ worker'[t] = "none" => store'[t] \in Terminal
             \/ crashes' # crashes
<1>1. ASSUME IInv, Next, NEW t \in Tasks PROVE Advance(t)
  <2>0. TypeOK /\ YoungInv(t)
    BY <1>1 DEF IInv, TaskInv
  <2>1. ASSUME worker'[t] = worker[t] PROVE ~ProcessStep(t)
    BY <2>0, <2>1, ProcessMoves
  <2>2. CASE ProcessStep(t)
    BY <2>0, <2>2, ProcessAdvances
  <2>3. ASSUME NEW u \in Tasks, u # t, ProcessStep(u) PROVE worker'[t] = worker[t]
    BY <2>0, <2>3, ProcessMoves
  <2>4. ASSUME NEW u \in Tasks, ClientStep(u), known[t], worker[t] # "none"
        PROVE  worker'[t] = worker[t]
    BY <2>0, <2>4
    DEF ClientStep, CreateTask, ClientGone, CancelSignal, At, TypeOK, YoungInv
  <2>5. ASSUME NEW c \in Clients, CancelMark(c) \/ CancelGone(c)
        PROVE  worker'[t] = worker[t]
    BY <2>5 DEF CancelMark, CancelGone
  <2>6. CASE Restart
    BY <2>0, <2>6, MaxCrashesAssumption DEF Restart, TypeOK
  <2>7. CASE AllUsed
    BY <2>1, <2>7 DEF AllUsed, vars
  <2> QED BY <1>1, <2>1, <2>2, <2>3, <2>4, <2>5, <2>6, <2>7 DEF Next
<1>2. IInv /\ [Next]_vars => [\A t \in Tasks : Advance(t)]_vars
  BY <1>1
<1>3. IInv /\ [Next]_vars =>
        [\A t \in Tasks : known[t] /\ worker[t] # "none" =>
           \/ worker'[t] = worker[t] /\ ~ProcessStep(t)
           \/ /\ StepsLeft(worker'[t]) < StepsLeft(worker[t])
              /\ worker'[t] = "none" => store'[t] \in Terminal
           \/ crashes' # crashes]_vars
  BY <1>2
<1> QED BY <1>3, InductiveInvariant, PTL DEF Spec, ProcessesAdvance

=============================================================================
