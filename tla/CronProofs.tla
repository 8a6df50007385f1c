----------------------------- MODULE CronProofs -----------------------------
(***************************************************************************)
(* Proofs about CronScheduler for any jobs, schedules and bounds.          *)
(*                                                                         *)
(* NoRetrigger rests on Behind: every instant a job has run for lies       *)
(* before the one in its row, before the one the tick has read of it, and  *)
(* not after the tick's `now`; a new instant is always after that `now`.   *)
(* Punctual rests on Handled: what waits during the sleep came after the   *)
(* last tick had read the table, and what waits during a tick and is still *)
(* to be handled came after the tick before it had.                        *)
(***************************************************************************)
EXTENDS CronScheduler, TLAPS, WellFoundedInduction

LessThan == {p \in Nat \X Nat : p[1] < p[2]}

(* A set of instants that is not empty has a least one.                    *)
LEMMA LeastInstant ==
  ASSUME NEW S \in SUBSET Nat, S # {}
  PROVE  \E x \in S : \A y \in S : x <= y
<1>1. OpToRel(<, Nat) = LessThan
  BY Zenon DEF OpToRel, LessThan
<1>2. IsWellFoundedOn(LessThan, Nat)
  BY <1>1, NatLessThanWellFounded, Zenon
<1>3. PICK x \in S : \A y \in S : <<y, x>> \notin LessThan
  BY <1>2, WFMin
<1>4. ASSUME NEW y \in S PROVE x <= y
  <2>1. x \in Nat /\ y \in Nat
    OBVIOUS
  <2>2. <<y, x>> \notin LessThan
    BY <1>3
  <2> QED
    BY <2>1, <2>2 DEF LessThan
<1> QED
  BY <1>4

(* next_run_after names a later instant of the schedule, if it names one.  *)
LEMMA AfterIsLater ==
  ASSUME NEW j \in Jobs, NEW t \in Nat
  PROVE  /\ After(j, t) \in Time
         /\ After(j, t) # None => After(j, t) \in Nat /\ After(j, t) > t
<1> DEFINE later == {s \in Slots[j] : s > t}
<1>1. Slots[j] \subseteq Nat \ {0}
  BY CronAssumption
<1>2. CASE later = {}
  BY <1>2 DEF After, Time
<1>3. CASE later # {}
  <2>1. later \in SUBSET Nat
    BY <1>1
  <2>2. \E x \in later : \A y \in later : x <= y
    BY <1>3, <2>1, LeastInstant
  <2>3. After(j, t) = CHOOSE x \in later : \A y \in later : x <= y
    BY <1>3 DEF After
  <2>4. After(j, t) \in later
    BY <2>2, <2>3
  <2> QED
    BY <2>1, <2>4 DEF Time
<1> QED
  BY <1>2, <1>3

-----------------------------------------------------------------------------
(* The table is empty and the scheduler is down.                           *)
LEMMA TypeInit == Init => TypeOK
<1> SUFFICES ASSUME Init PROVE TypeOK
  OBVIOUS
<1>1. due \in [job : Jobs \cup {None}, run : Runs \cup {None}]
  BY DEF Init
<1>2. log \in [Jobs -> Seq(Runs)]
  BY DEF Init
<1>3. next \in [Jobs -> Time] /\ listed \in [Jobs -> Time]
  BY DEF Init, Time
<1>4. began \in 0..Horizon /\ now \in 1..Horizon /\ wake \in 0..(Horizon + Poll) /\ since \in [Jobs -> 0..Horizon]
  BY CronAssumption DEF Init
<1>5. crashes \in 0..MaxCrashes /\ failures \in 0..MaxFailures /\ calls \in 0..MaxCalls
  BY CronAssumption DEF Init
<1>6. status \in [Jobs -> {"unused", "enabled", "disabled", "removed"}] /\ todo \subseteq Jobs
  BY DEF Init
<1>7. place = "down" /\ session = FALSE
  BY DEF Init
<1> QED
  BY <1>1, <1>2, <1>3, <1>4, <1>5, <1>6, <1>7 DEF TypeOK

(* What a tick owes a job is a run.                                        *)
LEMMA OwedType ==
  ASSUME TypeOK, NEW j \in Jobs
  PROVE  Owed(j) \in Runs
<1>1. listed[j] \in Time /\ After(j, now) \in Time
  BY AfterIsLater DEF TypeOK
<1> QED
  BY <1>1 DEF Owed, Runs, Whys

(* Every step keeps the types.                                             *)
LEMMA TypeStep == TypeOK /\ [Next]_vars => TypeOK'
<1> SUFFICES ASSUME TypeOK, [Next]_vars PROVE TypeOK'
  OBVIOUS
<1> USE CronAssumption
<1>1. ASSUME NEW j \in Jobs, Add(j) PROVE TypeOK'
  BY <1>1 DEF Add, TypeOK, local, bounds
<1>2. ASSUME NEW j \in Jobs, Remove(j) PROVE TypeOK'
  BY <1>2 DEF Remove, Call, TypeOK, local
<1>3. ASSUME NEW j \in Jobs, TriggerNow(j) PROVE TypeOK'
  BY <1>3 DEF TriggerNow, Call, TypeOK, local, Time, Past
<1>4. ASSUME NEW j \in Jobs, NEW on \in BOOLEAN, SetEnabled(j, on) PROVE TypeOK'
  BY <1>4 DEF SetEnabled, Call, TypeOK, local
<1>5. ASSUME NEW found \in BOOLEAN, Boot(found) PROVE TypeOK'
  BY <1>5 DEF Boot, TypeOK, table
<1>6. CASE List
  BY <1>6 DEF List, TypeOK, table, bounds
<1>7. ASSUME NEW j \in Jobs, NotDue(j) PROVE TypeOK'
  BY <1>7 DEF NotDue, TypeOK, table, bounds
<1>8. ASSUME NEW j \in Jobs, UpdateLastRun(j) PROVE TypeOK'
  <2>1. After(j, began) \in Time
    BY AfterIsLater DEF TypeOK
  <2>2. next' \in [Jobs -> Time]
    BY <1>8, <2>1 DEF UpdateLastRun, TypeOK
  <2>3. due' = [job |-> j, run |-> Owed(j)] /\ Owed(j) \in Runs /\ j \in todo
    BY <1>8, OwedType DEF UpdateLastRun
  <2>4. due' \in [job : Jobs \cup {None}, run : Runs \cup {None}] /\ due.job' \in todo /\ due.run' \in Runs
    BY <2>3
  <2> QED
    BY <1>8, <2>2, <2>4 DEF UpdateLastRun, TypeOK, bounds
<1>9. CASE Execute
  <2>1. due.job \in Jobs /\ due.run \in Runs
    BY <1>9 DEF Execute, TypeOK
  <2>2. Append(log[due.job], due.run) \in Seq(Runs)
    BY <2>1 DEF TypeOK
  <2>3. log' \in [Jobs -> Seq(Runs)]
    BY <1>9, <2>2 DEF Execute, TypeOK
  <2> QED
    BY <1>9, <2>3 DEF Execute, TypeOK, table, bounds
<1>10. CASE EndTick
  BY <1>10 DEF EndTick, Sleep, TypeOK, table, bounds, Time
<1>11. CASE Fail
  BY <1>11 DEF Fail, Sleep, TypeOK, table, Time
<1>12. CASE Crash
  <2>1. crashes' \in 0..MaxCrashes
    BY <1>12 DEF Crash, TypeOK
  <2>2. due' \in [job : Jobs \cup {None}, run : Runs \cup {None}]
    BY <1>12 DEF Crash
  <2>3. listed' \in [Jobs -> Time]
    BY <1>12 DEF Crash, Time
  <2>4. began' \in 0..Horizon /\ wake' \in 0..(Horizon + Poll)
    BY <1>12 DEF Crash
  <2>5. place' = "down" /\ session' = FALSE /\ todo' = {}
    BY <1>12 DEF Crash
  <2> QED
    BY <1>12, <2>1, <2>2, <2>3, <2>4, <2>5 DEF Crash, TypeOK, table
<1>13. CASE Tick
  BY <1>13 DEF Tick, TypeOK, table, local, bounds
<1>14. CASE UNCHANGED vars
  BY <1>14 DEF TypeOK, vars, table, local, bounds
<1> QED
  BY <1>1, <1>2, <1>3, <1>4, <1>5, <1>6, <1>7, <1>8, <1>9, <1>10, <1>11, <1>12, <1>13, <1>14
  DEF Next, Stop

(* Every variable of the scheduler keeps its type (scheduler.rs, cron_job.rs). *)
THEOREM TypeCorrect == Spec => []TypeOK
BY TypeInit, TypeStep, PTL DEF Spec
-----------------------------------------------------------------------------
(* The instants j has run for lie before t, if t is an instant.            *)
Ahead(j, t) ==
  t \in Nat \ {0} => \A i \in Scheduled(j) : log[j][i].slot < t

(* The run that is about to start is of an instant not run for, which has  *)
(* come, and the row is past it already.                                   *)
Pending ==
  place = "updated" /\ due.run.why = "schedule" =>
    /\ due.run.slot = listed[due.job]
    /\ due.run.slot \in Nat \ {0} /\ due.run.slot <= began
    /\ status[due.job] # "removed" /\ next[due.job] \in Nat \ {0} => due.run.slot < next[due.job]

Come ==
  \A j \in Jobs : \A i \in Scheduled(j) :
    /\ log[j][i].slot \in Nat /\ log[j][i].slot <= now
    /\ place \in {"tick", "updated"} => log[j][i].slot <= began

Behind ==
  /\ began <= now
  /\ Pending /\ Come
  /\ \A j \in Jobs : status[j] # "removed" => Ahead(j, next[j])
  /\ \A j \in todo : Ahead(j, listed[j])
  /\ NoRetrigger

(* Nothing has run at the start.                                           *)
LEMMA BehindInit == Init => Behind
<1> SUFFICES ASSUME Init PROVE Behind
  OBVIOUS
<1>1. \A j \in Jobs : log[j] = << >> /\ next[j] = None
  BY DEF Init
<1>2. \A j \in Jobs : Scheduled(j) = {}
  <2>1. DOMAIN << >> = {}
    OBVIOUS
  <2> QED
    BY <1>1, <2>1, Zenon DEF Scheduled
<1>3. began <= now /\ place = "down" /\ todo = {}
  BY DEF Init
<1> QED
  BY <1>1, <1>2, <1>3, CronAssumption DEF Behind, Pending, Come, Ahead, NoRetrigger

(* A step that starts no run keeps what is said of the runs so far.        *)
LEMMA RunsKept ==
  ASSUME TypeOK, Behind, log' = log, now' \in Nat, now' >= now,
         place' \in {"tick", "updated"} =>
            began' = now \/ (began' = began /\ place \in {"tick", "updated"})
  PROVE  /\ Come' /\ NoRetrigger'
         /\ \A j \in Jobs : Scheduled(j)' = Scheduled(j)
<1>1. \A j \in Jobs : Scheduled(j)' = Scheduled(j)
  BY DEF Scheduled
<1>2. NoRetrigger'
  BY <1>1 DEF Behind, NoRetrigger
<1>3. ASSUME NEW j \in Jobs, NEW i \in Scheduled(j)'
      PROVE  /\ log'[j][i].slot \in Nat /\ log'[j][i].slot <= now'
             /\ place' \in {"tick", "updated"} => log'[j][i].slot <= began'
  <2>1. i \in Scheduled(j) /\ log'[j][i].slot = log[j][i].slot
    BY <1>1, <1>3
  <2>2. /\ log[j][i].slot \in Nat /\ log[j][i].slot <= now
        /\ place \in {"tick", "updated"} => log[j][i].slot <= began
    BY <2>1 DEF Behind, Come
  <2>3. now \in Nat
    BY DEF TypeOK
  <2> QED
    BY <2>1, <2>2, <2>3
<1> QED
  BY <1>1, <1>2, <1>3 DEF Come

(* Rows that are unchanged, or lead to an instant after the tick's `now`,  *)
(* stay ahead of the runs.                                                 *)
LEMMA RowsKept ==
  ASSUME TypeOK, Behind, log' = log,
         \A j \in Jobs : Scheduled(j)' = Scheduled(j),
         \A j \in Jobs : status'[j] # "removed" =>
            \/ status[j] # "removed" /\ next'[j] = next[j]
            \/ next'[j] \in {None, Past}
            \/ place \in {"tick", "updated"} /\ next'[j] \in Nat /\ next'[j] > began
  PROVE  \A j \in Jobs : status'[j] # "removed" => Ahead(j, next[j])'
<1> SUFFICES ASSUME NEW j \in Jobs, status'[j] # "removed", next'[j] \in Nat \ {0},
                    NEW i \in Scheduled(j)
             PROVE  log[j][i].slot < next'[j]
  BY DEF Ahead
<1>1. CASE status[j] # "removed" /\ next'[j] = next[j]
  BY <1>1 DEF Behind, Ahead
<1>2. CASE next'[j] \in {None, Past}
  BY <1>2, CronAssumption DEF Past
<1>3. CASE place \in {"tick", "updated"} /\ next'[j] \in Nat /\ next'[j] > began
  <2>1. log[j][i].slot \in Nat /\ log[j][i].slot <= began /\ began \in Nat
    BY <1>3 DEF Behind, Come, TypeOK
  <2> QED
    BY <1>3, <2>1
<1> QED
  BY <1>1, <1>2, <1>3

(* Jobs the tick has still to come to keep what it has read of them.       *)
LEMMA ListedKept ==
  ASSUME Behind, log' = log, listed' = listed, todo' \subseteq todo,
         \A j \in Jobs : Scheduled(j)' = Scheduled(j), TypeOK
  PROVE  \A j \in todo' : Ahead(j, listed[j])'
BY DEF Behind, Ahead, TypeOK

(* A run is for the instant in the row, and the new one lies after it.     *)
LEMMA BehindStep == TypeOK /\ TypeOK' /\ Behind /\ [Next]_vars => Behind'
<1> SUFFICES ASSUME TypeOK, TypeOK', Behind, [Next]_vars PROVE Behind'
  OBVIOUS
<1> USE CronAssumption
<1>0. now \in Nat /\ now' \in Nat /\ began \in Nat /\ began' \in Nat /\ began <= now
  BY DEF TypeOK, Behind
(* Rows written from outside. *)
<1>1. ASSUME NEW j \in Jobs,
             \/ Add(j) \/ Remove(j) \/ TriggerNow(j)
             \/ \E on \in BOOLEAN : SetEnabled(j, on)
      PROVE  Behind'
  <2>1. /\ log' = log /\ now' = now /\ place' = place /\ began' = began
        /\ todo' = todo /\ listed' = listed /\ due' = due
    BY <1>1 DEF Add, Remove, TriggerNow, SetEnabled, Call, local
  <2>2. \A k \in Jobs : status'[k] # "removed" =>
          status[k] # "removed" /\ next'[k] \in {next[k], Past}
    BY <1>1 DEF Add, Remove, TriggerNow, SetEnabled, Call, TypeOK
  <2>3. Come' /\ NoRetrigger' /\ \A k \in Jobs : Scheduled(k)' = Scheduled(k)
    BY <1>0, <2>1, RunsKept
  <2>4. \A k \in Jobs : status'[k] # "removed" => Ahead(k, next[k])'
    BY <2>1, <2>2, <2>3, RowsKept
  <2>5. \A k \in todo' : Ahead(k, listed[k])'
    BY <2>1, <2>3, ListedKept
  <2>6. Pending'
    <3>1. place = "updated" => due.job \in Jobs
      BY DEF TypeOK
    <3> QED
      BY <2>1, <2>2, <3>1 DEF Behind, Pending, Past
  <2> QED
    BY <1>0, <2>1, <2>3, <2>4, <2>5, <2>6 DEF Behind
(* Steps of the scheduler and of the clock that write no row. *)
<1>2. CASE \/ \E found \in BOOLEAN : Boot(found)
           \/ \E j \in Jobs : NotDue(j)
           \/ EndTick \/ Fail \/ Crash \/ Tick \/ UNCHANGED vars
  <2>1. /\ log' = log /\ status' = status /\ next' = next /\ now' >= now
        /\ place' \in {"tick", "updated"} => began' = began /\ place' = place
    BY <1>2, <1>0 DEF Boot, NotDue, EndTick, Fail, Sleep, Crash, Tick, vars, table, local
  <2>2. /\ todo' \subseteq todo /\ (listed' = listed \/ todo' = {})
        /\ place' = "updated" => due' = due /\ listed' = listed
    BY <1>2 DEF Boot, NotDue, EndTick, Fail, Sleep, Crash, Tick, vars, table, local
  <2>3. Come' /\ NoRetrigger' /\ \A k \in Jobs : Scheduled(k)' = Scheduled(k)
    BY <1>0, <2>1, RunsKept
  <2>4. \A k \in Jobs : status'[k] # "removed" => Ahead(k, next[k])'
    BY <2>1, <2>3, RowsKept
  <2>5. \A k \in todo' : Ahead(k, listed[k])'
    BY <2>1, <2>2, <2>3, ListedKept
  <2>6. Pending'
    BY <2>1, <2>2 DEF Behind, Pending
  <2>7. began' <= now'
    BY <1>2, <1>0 DEF Boot, NotDue, EndTick, Fail, Sleep, Crash, Tick, vars, table, local
  <2> QED
    BY <2>3, <2>4, <2>5, <2>6, <2>7 DEF Behind
<1>3. CASE List
  <2>1. /\ log' = log /\ status' = status /\ next' = next /\ now' = now /\ began' = now
        /\ place' = "tick" /\ listed' = next /\ todo' = {j \in Jobs : status[j] = "enabled"}
    BY <1>3 DEF List, table
  <2>2. Come' /\ NoRetrigger' /\ \A k \in Jobs : Scheduled(k)' = Scheduled(k)
    BY <1>0, <2>1, RunsKept
  <2>3. \A k \in Jobs : status'[k] # "removed" => Ahead(k, next[k])'
    BY <2>1, <2>2, RowsKept
  <2>4. \A k \in todo' : Ahead(k, listed[k])'
    BY <2>1, <2>2 DEF Behind, Ahead
  <2> QED
    BY <1>0, <2>1, <2>2, <2>3, <2>4 DEF Behind, Pending
<1>4. ASSUME NEW j \in Jobs, UpdateLastRun(j) PROVE Behind'
  <2>1. /\ log' = log /\ status' = status /\ now' = now /\ began' = began /\ todo' = todo
        /\ listed' = listed /\ place = "tick" /\ place' = "updated" /\ j \in todo /\ IsDue(j)
        /\ due' = [job |-> j, run |-> Owed(j)]
    BY <1>4 DEF UpdateLastRun, bounds
  <2>2. After(j, began) = None \/ (After(j, began) \in Nat /\ After(j, began) > began)
    BY <1>0, AfterIsLater
  <2>3. \A k \in Jobs : next'[k] = IF k = j /\ status[j] # "removed" THEN After(j, began) ELSE next[k]
    BY <1>4 DEF UpdateLastRun, TypeOK
  <2>4. Come' /\ NoRetrigger' /\ \A k \in Jobs : Scheduled(k)' = Scheduled(k)
    BY <1>0, <2>1, RunsKept
  <2>5. \A k \in Jobs : status'[k] # "removed" => Ahead(k, next[k])'
    BY <2>1, <2>2, <2>3, <2>4, RowsKept
  <2>6. \A k \in todo' : Ahead(k, listed[k])'
    BY <2>1, <2>4, ListedKept
  <2>7. Owed(j).why = "schedule" => Owed(j).slot = listed[j] /\ listed[j] # None /\ listed[j] # Past
    BY DEF Owed
  <2>8. listed[j] \in Nat \cup {None}
    BY DEF TypeOK, Time
  <2>9. listed[j] # None => listed[j] <= began
    BY <2>1 DEF IsDue
  <2>10. Pending'
    BY <1>0, <2>1, <2>2, <2>3, <2>7, <2>8, <2>9 DEF Pending, Past
  <2> QED
    BY <1>0, <2>1, <2>4, <2>5, <2>6, <2>10 DEF Behind
<1>5. CASE Execute
  <2>0. PICK j \in Jobs : j = due.job
    BY <1>5 DEF Execute, TypeOK
  <2>1. /\ status' = status /\ next' = next /\ now' = now /\ began' = began
        /\ listed' = listed /\ place = "updated" /\ place' = "tick" /\ todo' = todo \ {j}
    BY <1>5, <2>0 DEF Execute, table
  <2>2. j \in Jobs /\ j \in todo /\ due.run \in Runs
    BY <2>0, <2>1 DEF TypeOK
  <2>3. \A k \in Jobs : log[k] \in Seq(Runs)
    BY DEF TypeOK
  <2>4. \A k \in Jobs \ {j} : log'[k] = log[k] /\ Scheduled(k)' = Scheduled(k)
    BY <1>5, <2>0, <2>2 DEF Execute, Scheduled, TypeOK
  <2>5. CASE log' = log
    <3>1. Come' /\ NoRetrigger' /\ \A k \in Jobs : Scheduled(k)' = Scheduled(k)
      BY <1>0, <2>1, <2>5, RunsKept
    <3>2. \A k \in Jobs : status'[k] # "removed" => Ahead(k, next[k])'
      BY <2>1, <2>5, <3>1, RowsKept
    <3>3. \A k \in todo' : Ahead(k, listed[k])'
      BY <2>1, <2>5, <3>1, ListedKept
    <3> QED
      BY <1>0, <2>1, <3>1, <3>2, <3>3 DEF Behind, Pending
  <2>6. CASE log' = [log EXCEPT ![j] = Append(@, due.run)]
    <3> DEFINE n == Len(log[j]) + 1
    <3>1. log'[j] = Append(log[j], due.run) /\ n \in Nat
      BY <2>2, <2>3, <2>6 DEF TypeOK
    <3>2. /\ DOMAIN log[j] = 1..(n - 1) /\ DOMAIN log'[j] = 1..n
          /\ log'[j][n] = due.run /\ \A i \in 1..(n - 1) : log'[j][i] = log[j][i]
      BY <2>2, <2>3, <3>1
    <3>3. \A i \in Scheduled(j)' : \/ i = n /\ due.run.why = "schedule"
                                   \/ i \in Scheduled(j) /\ i < n /\ log'[j][i] = log[j][i]
      <4>1. ASSUME NEW i \in Scheduled(j)' PROVE i \in 1..n /\ log'[j][i].why = "schedule"
        BY <3>2 DEF Scheduled
      <4>2. ASSUME NEW i \in Scheduled(j)', i # n
            PROVE  i \in Scheduled(j) /\ i < n /\ log'[j][i] = log[j][i]
        <5>1. i \in 1..n /\ i \in 1..(n - 1)
          BY <3>1, <4>1, <4>2
        <5>2. log'[j][i] = log[j][i] /\ i \in DOMAIN log[j]
          BY <3>2, <5>1
        <5> QED
          BY <4>1, <5>1, <5>2 DEF Scheduled
      <4> QED
        <5>1. ASSUME NEW i \in Scheduled(j)', i = n PROVE due.run.why = "schedule"
          BY <3>2, <4>1, <5>1
        <5> QED
          BY <4>2, <5>1
    <3>4. due.run.why = "schedule" =>
            /\ due.run.slot = listed[j] /\ due.run.slot \in Nat \ {0} /\ due.run.slot <= began
            /\ status[j] # "removed" /\ next[j] \in Nat \ {0} => due.run.slot < next[j]
      BY <2>0, <2>1 DEF Behind, Pending
    <3>5. \A i \in Scheduled(j) : /\ log[j][i].slot \in Nat /\ log[j][i].slot <= began /\ log[j][i].slot <= now
                                  /\ due.run.why = "schedule" => log[j][i].slot < due.run.slot
      BY <2>1, <2>2, <3>4 DEF Behind, Come, Ahead
    <3>6. Come'
      <4>1. ASSUME NEW k \in Jobs, NEW i \in Scheduled(k)'
            PROVE  log'[k][i].slot \in Nat /\ log'[k][i].slot <= now' /\ log'[k][i].slot <= began'
        <5>1. CASE k = j
          <6>1. i \in Scheduled(j)'
            BY <4>1, <5>1 DEF Scheduled
          <6> QED
            BY <1>0, <2>1, <3>2, <3>3, <3>4, <3>5, <5>1, <6>1
        <5>2. CASE k # j
          BY <2>1, <2>4, <4>1, <5>2 DEF Behind, Come
        <5> QED
          BY <5>1, <5>2
      <4> QED
        BY <4>1 DEF Come
    <3>7. NoRetrigger'
      <4>1. ASSUME NEW k \in Jobs, NEW a \in Scheduled(k)', NEW b \in Scheduled(k)', a < b
            PROVE  log'[k][a].slot < log'[k][b].slot
        <5>1. CASE k = j
          <6>0. a \in Scheduled(j)' /\ b \in Scheduled(j)'
            BY <4>1, <5>1 DEF Scheduled
          <6>1. a \in 1..n /\ b \in 1..n
            BY <3>2, <6>0 DEF Scheduled
          <6>2. a # n
            BY <3>1, <4>1, <6>1
          <6>3. a \in Scheduled(j) /\ log'[j][a] = log[j][a]
            BY <3>3, <6>0, <6>2
          <6>4. CASE b = n
            <7>1. log'[j][b] = due.run /\ due.run.why = "schedule"
              BY <3>2, <3>3, <6>0, <6>4
            <7> QED
              BY <3>5, <5>1, <6>3, <7>1
          <6>5. CASE b # n
            <7>1. b \in Scheduled(j) /\ log'[j][b] = log[j][b]
              BY <3>3, <6>0, <6>5
            <7> QED
              BY <2>2, <4>1, <5>1, <6>3, <7>1 DEF Behind, NoRetrigger
          <6> QED
            BY <6>4, <6>5
        <5>2. CASE k # j
          BY <2>4, <4>1, <5>2 DEF Behind, NoRetrigger
        <5> QED
          BY <5>1, <5>2
      <4> QED
        BY <4>1 DEF NoRetrigger
    <3>8. \A k \in Jobs : status'[k] # "removed" => Ahead(k, next[k])'
      <4>1. ASSUME NEW k \in Jobs, status[k] # "removed", next[k] \in Nat \ {0}, NEW i \in Scheduled(k)'
            PROVE  log'[k][i].slot < next[k]
        <5>1. CASE k = j
          <6>1. i \in Scheduled(j)'
            BY <4>1, <5>1 DEF Scheduled
          <6> QED
            BY <2>2, <3>2, <3>3, <3>4, <4>1, <5>1, <6>1 DEF Behind, Ahead
        <5>2. CASE k # j
          BY <2>4, <4>1, <5>2 DEF Behind, Ahead
        <5> QED
          BY <5>1, <5>2
      <4> QED
        BY <2>1, <4>1 DEF Ahead
    <3>9. \A k \in todo' : Ahead(k, listed[k])'
      <4>1. ASSUME NEW k \in todo' PROVE Ahead(k, listed[k])'
        <5>1. k \in Jobs \ {j} /\ k \in todo
          BY <2>1, <4>1 DEF TypeOK
        <5> QED
          BY <2>1, <2>4, <5>1 DEF Behind, Ahead
      <4> QED
        BY <4>1
    <3> QED
      BY <1>0, <2>1, <3>6, <3>7, <3>8, <3>9 DEF Behind, Pending
  <2> QED
    BY <1>5, <2>0, <2>5, <2>6 DEF Execute
<1> QED
  BY <1>1, <1>2, <1>3, <1>4, <1>5 DEF Next, Stop

(* The instants a job has waited for each start one run, in their order:   *)
(* "so we don't re-trigger" (scheduler.rs:118), also across a crash.       *)
THEOREM InstantsRunOnce == Spec => []NoRetrigger
<1>1. Init => TypeOK /\ Behind
  BY TypeInit, BehindInit
<1>2. TypeOK /\ Behind /\ [Next]_vars => (TypeOK /\ Behind)'
  BY TypeStep, BehindStep
<1>3. Behind => NoRetrigger
  BY DEF Behind
<1> QED
  BY <1>1, <1>2, <1>3, PTL DEF Spec

-----------------------------------------------------------------------------
(* The clock never leaves the scheduler behind.                            *)
Timely ==
  /\ place = "asleep" => wake - Poll <= now /\ now <= wake + Slack
  /\ place \in {"tick", "updated"} => began <= now /\ now <= began + Slack
  /\ place \in {"down", "asleep"} => todo = {}

(* A job the tick is still to come to has the row the tick has read, or    *)
(* was triggered since.                                                    *)
AsRead(j) == next[j] = listed[j] \/ since[j] >= began
FreshJob(j) ==
  /\ status[j] = "unused" => next[j] = None /\ j \notin todo
  /\ place = "tick" /\ j \in todo => AsRead(j)
  /\ place = "updated" /\ j \in todo /\ j # due.job => AsRead(j)
Fresh == \A j \in Jobs : FreshJob(j)

(* What waits has come, or was excused, after the table was read last.     *)
HandledJob(j) ==
  Waiting(j) =>
    /\ place = "asleep" => From(j) >= wake - Poll - Slack
    /\ place \in {"tick", "updated"} => From(j) + Poll + 2 * Slack >= began
    /\ place = "tick" /\ j \notin todo => From(j) >= began
    /\ place = "updated" /\ (j \notin todo \/ j = due.job) => From(j) >= began
Handled == \A j \in Jobs : HandledJob(j)

OnTime == Timely /\ Fresh /\ Handled

(* Nothing waits at the start.                                             *)
LEMMA OnTimeInit == Init => OnTime
<1> SUFFICES ASSUME Init PROVE OnTime
  OBVIOUS
<1>1. place = "down" /\ todo = {} /\ \A j \in Jobs : next[j] = None
  BY DEF Init
<1> QED
  BY <1>1 DEF OnTime, Timely, Fresh, FreshJob, Handled, HandledJob, Waiting

(* The numbers of a state.                                                 *)
LEMMA Numbers ==
  ASSUME TypeOK
  PROVE  /\ Poll \in Nat /\ Slack \in Nat /\ Horizon \in Nat
         /\ now \in Nat /\ began \in Nat /\ wake \in Nat
         /\ \A j \in Jobs : since[j] \in Nat /\ since[j] <= Horizon /\ next[j] \in Time /\ listed[j] \in Time
         /\ \A j \in Jobs : next[j] # None => next[j] \in Nat /\ From(j) \in Nat
                                           /\ From(j) >= next[j] /\ From(j) >= since[j]
BY CronAssumption DEF TypeOK, Time, From

(* The clock waits for a tick at work and for a sleep that is over.        *)
LEMMA TimelyStep == TypeOK /\ TypeOK' /\ Timely /\ [Next]_vars => Timely'
<1> SUFFICES ASSUME TypeOK, TypeOK', Timely, [Next]_vars PROVE Timely'
  OBVIOUS
<1>0. /\ Poll \in Nat /\ Slack \in Nat
      /\ now \in Nat /\ began \in Nat /\ wake \in Nat
      /\ now' \in Nat /\ began' \in Nat /\ wake' \in Nat
      /\ place \in {"down", "asleep", "tick", "updated"}
  BY CronAssumption DEF TypeOK
<1>1. CASE \E j \in Jobs : \/ Add(j) \/ Remove(j) \/ TriggerNow(j)
                          \/ \E on \in BOOLEAN : SetEnabled(j, on)
  BY <1>1 DEF Add, Remove, TriggerNow, SetEnabled, Call, local, Timely
<1>2. CASE \E found \in BOOLEAN : Boot(found)
  BY <1>0, <1>2 DEF Boot, Timely
<1>3. CASE List
  BY <1>0, <1>3 DEF List, Timely
<1>4. CASE \E j \in Jobs : NotDue(j) \/ UpdateLastRun(j)
  BY <1>0, <1>4 DEF NotDue, UpdateLastRun, Timely
<1>5. CASE Execute
  BY <1>0, <1>5 DEF Execute, Timely
<1>6. CASE EndTick \/ Fail
  <2>1. place' = "asleep" /\ wake' = now + Poll /\ todo' = {} /\ now' = now
    BY <1>6 DEF EndTick, Fail, Sleep
  <2> QED
    BY <1>0, <2>1 DEF Timely
<1>7. CASE Crash
  BY <1>7 DEF Crash, Timely
<1>8. CASE Tick
  BY <1>0, <1>8 DEF Tick, local, Timely
<1>9. CASE UNCHANGED vars
  BY <1>9 DEF vars, local, Timely
<1> QED
  BY <1>1, <1>2, <1>3, <1>4, <1>5, <1>6, <1>7, <1>8, <1>9 DEF Next, Stop

(* A row a tick has read changes under it only by being triggered.         *)
LEMMA FreshStep == TypeOK /\ TypeOK' /\ Timely /\ Fresh /\ [Next]_vars => Fresh'
<1> SUFFICES ASSUME TypeOK, TypeOK', Timely, Fresh, [Next]_vars, NEW k \in Jobs PROVE FreshJob(k)'
  BY DEF Fresh
<1>0. FreshJob(k)
  BY DEF Fresh
<1>a. now \in Nat /\ began \in Nat /\ (place \in {"tick", "updated"} => began <= now) /\ since[k] \in Nat
  BY Numbers DEF Timely
<1>1. ASSUME NEW j \in Jobs, Add(j) \/ Remove(j) PROVE FreshJob(k)'
  BY <1>0, <1>1 DEF Add, Remove, Call, local, TypeOK, FreshJob, AsRead
<1>2. ASSUME NEW j \in Jobs, NEW on \in BOOLEAN, SetEnabled(j, on) PROVE FreshJob(k)'
  BY <1>0, <1>a, <1>2 DEF SetEnabled, Call, local, TypeOK, FreshJob, AsRead
<1>3. ASSUME NEW j \in Jobs, TriggerNow(j) PROVE FreshJob(k)'
  BY <1>0, <1>a, <1>3 DEF TriggerNow, Call, local, TypeOK, FreshJob, AsRead
<1>4. CASE \E found \in BOOLEAN : Boot(found)
  BY <1>0, <1>4 DEF Boot, table, FreshJob
<1>5. CASE List
  BY <1>0, <1>5 DEF List, table, FreshJob, AsRead
<1>6. ASSUME NEW j \in Jobs, NotDue(j) PROVE FreshJob(k)'
  BY <1>0, <1>6 DEF NotDue, table, FreshJob, AsRead
<1>7. ASSUME NEW j \in Jobs, UpdateLastRun(j) PROVE FreshJob(k)'
  BY <1>0, <1>7 DEF UpdateLastRun, TypeOK, FreshJob, AsRead
<1>8. CASE Execute
  BY <1>0, <1>8 DEF Execute, table, FreshJob, AsRead
<1>9. CASE EndTick \/ Fail \/ Crash
  BY <1>0, <1>9 DEF EndTick, Fail, Crash, Sleep, table, FreshJob
<1>10. CASE Tick \/ UNCHANGED vars
  BY <1>0, <1>10 DEF Tick, vars, table, local, FreshJob, AsRead
<1> QED
  BY <1>1, <1>2, <1>3, <1>4, <1>5, <1>6, <1>7, <1>8, <1>9, <1>10 DEF Next, Stop

(* A tick leaves behind no job that had come when it read the table.       *)
LEMMA HandledStep ==
  TypeOK /\ TypeOK' /\ OnTime /\ Timely' /\ [Next]_vars => Handled'
<1> SUFFICES ASSUME TypeOK, TypeOK', OnTime, Timely', [Next]_vars, NEW k \in Jobs, Waiting(k)'
             PROVE  HandledJob(k)'
  BY DEF Handled, HandledJob
<1>0. HandledJob(k) /\ FreshJob(k) /\ Timely
  BY DEF OnTime, Handled, Fresh
<1>a. /\ Poll \in Nat /\ Slack \in Nat
      /\ now \in Nat /\ began \in Nat /\ wake \in Nat /\ since[k] \in Nat /\ next[k] \in Time /\ listed[k] \in Time
      /\ next[k] # None => next[k] \in Nat /\ From(k) \in Nat /\ From(k) >= next[k] /\ From(k) >= since[k]
  BY Numbers
<1>b. /\ now' \in Nat /\ began' \in Nat /\ wake' \in Nat /\ since'[k] \in Nat
      /\ next'[k] \in Nat /\ From(k)' \in Nat /\ From(k)' >= next'[k] /\ From(k)' >= since'[k]
      /\ status'[k] = "enabled"
  <2>1. next'[k] # None
    BY DEF Waiting
  <2>2. next'[k] \in Nat /\ since'[k] \in Nat /\ now' \in Nat /\ began' \in Nat /\ wake' \in Nat
    BY <2>1, CronAssumption DEF TypeOK, Time
  <2>3. status'[k] = "enabled"
    BY DEF Waiting
  <2> QED
    BY <2>2, <2>3 DEF From
(* Waiting anew since now is always in time. *)
<1>c. ASSUME From(k)' >= now, place' = place, began' = began, wake' = wake PROVE HandledJob(k)'
  BY <1>0, <1>a, <1>b, <1>c DEF HandledJob, Timely
<1>1. ASSUME NEW j \in Jobs,
             \/ Add(j) \/ Remove(j) \/ TriggerNow(j)
             \/ \E on \in BOOLEAN : SetEnabled(j, on)
      PROVE  HandledJob(k)'
  <2>1. place' = place /\ began' = began /\ wake' = wake /\ todo' = todo /\ due' = due /\ now' = now
    BY <1>1 DEF Add, Remove, TriggerNow, SetEnabled, Call, local
  <2>2. \/ since'[k] = now
        \/ status[k] = "unused" /\ next'[k] = next[k]
        \/ status'[k] = status[k] /\ next'[k] = next[k] /\ since'[k] = since[k]
    BY <1>1, <1>b DEF Add, Remove, TriggerNow, SetEnabled, Call, TypeOK
  <2>3. CASE since'[k] = now
    BY <1>b, <1>c, <2>1, <2>3
  <2>4. CASE status[k] = "unused" /\ next'[k] = next[k]
    BY <1>0, <1>b, <2>4, CronAssumption DEF FreshJob
  <2>5. CASE status'[k] = status[k] /\ next'[k] = next[k] /\ since'[k] = since[k]
    BY <1>0, <2>1, <2>5 DEF HandledJob, Waiting, From
  <2> QED
    BY <2>2, <2>3, <2>4, <2>5
<1>2. CASE \E found \in BOOLEAN : Boot(found)
  <2>1. place' = "asleep" /\ wake' = now /\ since'[k] = now
    BY <1>2 DEF Boot
  <2> QED
    BY <1>a, <1>b, <2>1 DEF HandledJob
<1>3. CASE List
  <2>1. /\ place = "asleep" /\ place' = "tick" /\ began' = now /\ k \in todo'
        /\ Waiting(k) /\ From(k)' = From(k)
    BY <1>3, <1>b DEF List, table, Waiting, From
  <2> QED
    BY <1>0, <1>a, <1>b, <2>1 DEF HandledJob, Timely, Waiting
<1>4. ASSUME NEW j \in Jobs, NotDue(j) PROVE HandledJob(k)'
  <2>1. /\ place = "tick" /\ place' = "tick" /\ began' = began /\ todo' = todo \ {j} /\ j \in todo
        /\ ~ IsDue(j) /\ Waiting(k) /\ From(k)' = From(k)
    BY <1>4 DEF NotDue, table, Waiting, From
  <2>2. CASE k # j
    BY <1>0, <2>1, <2>2 DEF HandledJob
  <2>3. CASE k = j
    <3>1. next[k] = listed[k] \/ since[k] >= began
      BY <1>0, <2>1, <2>3 DEF FreshJob, AsRead
    <3>2. From(k) >= began
      BY <1>a, <2>1, <2>3, <3>1, CronAssumption DEF IsDue, Waiting, Time
    <3>3. From(k)' >= began' /\ From(k)' + Poll + 2 * Slack >= began'
      BY <1>a, <1>b, <2>1, <3>2
    <3> QED
      BY <2>1, <3>3 DEF HandledJob
  <2> QED
    BY <2>2, <2>3
<1>5. ASSUME NEW j \in Jobs, UpdateLastRun(j) PROVE HandledJob(k)'
  <2>1. /\ place = "tick" /\ place' = "updated" /\ began' = began /\ todo' = todo /\ due.job' = j
        /\ status' = status /\ since' = since /\ now' = now
        /\ next' = [next EXCEPT ![j] = IF status[j] = "removed" THEN @ ELSE After(j, began)]
    BY <1>5 DEF UpdateLastRun
  <2>2. CASE k # j
    <3>1. Waiting(k) /\ From(k)' = From(k)
      BY <2>1, <2>2 DEF Waiting, From, TypeOK
    <3> QED
      BY <1>0, <2>1, <2>2, <3>1 DEF HandledJob
  <2>3. CASE k = j
    <3>1. next'[k] = After(k, began)
      BY <1>b, <2>1, <2>3 DEF TypeOK
    <3>2. next'[k] > began
      BY <1>a, <1>b, <3>1, AfterIsLater, CronAssumption
    <3> QED
      BY <1>a, <1>b, <2>1, <3>2 DEF HandledJob
  <2> QED
    BY <2>2, <2>3
<1>6. CASE Execute
  <2>1. /\ place = "updated" /\ place' = "tick" /\ began' = began /\ todo' = todo \ {due.job}
        /\ Waiting(k) /\ From(k)' = From(k)
    BY <1>6 DEF Execute, table, Waiting, From
  <2> QED
    BY <1>0, <2>1 DEF HandledJob
<1>7. CASE EndTick
  <2>1. /\ place = "tick" /\ place' = "asleep" /\ wake' = now + Poll /\ k \notin todo
        /\ Waiting(k) /\ From(k)' = From(k)
    BY <1>7 DEF EndTick, Sleep, table, Waiting, From
  <2>2. From(k) >= began /\ now <= began + Slack
    BY <1>0, <2>1 DEF HandledJob, Timely
  <2>3. From(k)' >= wake' - Poll - Slack
    BY <1>a, <1>b, <2>1, <2>2
  <2> QED
    BY <2>1, <2>3 DEF HandledJob
<1>8. CASE Fail
  <2>1. place' = "asleep" /\ wake' = now + Poll /\ since'[k] = now
    BY <1>8 DEF Fail, Sleep
  <2> QED
    BY <1>a, <1>b, <2>1 DEF HandledJob
<1>9. CASE Crash
  BY <1>9 DEF Crash, HandledJob
<1>10. CASE Tick
  <2>1. /\ place' = place /\ began' = began /\ wake' = wake /\ todo' = todo /\ due' = due
        /\ status' = status /\ next' = next /\ since' = since /\ now' = now + 1
        /\ From(k)' = From(k)
    BY <1>10 DEF Tick, table, local, From
  <2>2. CASE next[k] <= now
    BY <1>0, <2>1, <2>2 DEF HandledJob, Waiting
  <2>3. CASE ~ (next[k] <= now)
    BY <1>a, <1>b, <1>c, <2>1, <2>3
  <2> QED
    BY <2>2, <2>3
<1>11. CASE UNCHANGED vars
  BY <1>0, <1>11 DEF vars, table, local, HandledJob, Waiting, From
<1> QED
  BY <1>1, <1>2, <1>3, <1>4, <1>5, <1>6, <1>7, <1>8, <1>9, <1>10, <1>11 DEF Next, Stop

(* The three invariants bound how long a job waits.                        *)
LEMMA OnTimeIsPunctual == TypeOK /\ OnTime => Punctual
<1> SUFFICES ASSUME TypeOK, OnTime, NEW j \in Jobs, Waiting(j)
             PROVE  now - From(j) <= Poll + 3 * Slack
  BY DEF Punctual
<1>1. /\ Poll \in Nat /\ Slack \in Nat /\ now \in Nat /\ began \in Nat /\ wake \in Nat /\ From(j) \in Nat
  BY Numbers DEF Waiting
<1>2. HandledJob(j) /\ Timely
  BY DEF OnTime, Handled
<1>3. place \in {"asleep", "tick", "updated"}
  BY DEF TypeOK, Waiting
<1> QED
  BY <1>1, <1>2, <1>3 DEF HandledJob, Timely

(* "It will execute on the next scheduler tick" (cli/cron.rs:163): a job   *)
(* that has come waits no longer than a sleep and the statements around it. *)
THEOREM PickedUpInTime == Spec => []Punctual
<1>1. Init => TypeOK /\ OnTime
  BY TypeInit, OnTimeInit
<1>2. TypeOK /\ OnTime /\ [Next]_vars => (TypeOK /\ OnTime)'
  BY TypeStep, TimelyStep, FreshStep, HandledStep DEF OnTime
<1>3. TypeOK /\ OnTime => Punctual
  BY OnTimeIsPunctual
<1> QED
  BY <1>1, <1>2, <1>3, PTL DEF Spec

-----------------------------------------------------------------------------
(* The runs of a job, as its owner counts them.                            *)
Enabled == {j \in Jobs : status[j] = "enabled"}
Claimed == IF place = "updated" THEN {<<due.job, due.run>>} ELSE {}

Owner == INSTANCE JobRuns WITH enabled <- Enabled, turn <- todo, claim <- Claimed

OwnerSpec == Owner!Spec

(* What the table's other writers and the clock do.                        *)
LEMMA OutsideRuns ==
  ASSUME TypeOK,
         \/ \E j \in Jobs : \/ Add(j) \/ Remove(j) \/ TriggerNow(j)
                           \/ \E on \in BOOLEAN : SetEnabled(j, on)
         \/ \E found \in BOOLEAN : Boot(found)
         \/ Tick \/ UNCHANGED vars
  PROVE  Owner!Next \/ UNCHANGED <<Enabled, todo, Claimed, log>>
<1>1. UNCHANGED <<todo, log, Claimed>> \/ \E found \in BOOLEAN : Boot(found)
  BY DEF Add, Remove, TriggerNow, SetEnabled, Call, Tick, vars, local, Claimed
<1>2. ASSUME NEW found \in BOOLEAN, Boot(found)
      PROVE  UNCHANGED <<Enabled, todo, Claimed, log>>
  BY <1>2 DEF Boot, table, Enabled, Claimed
<1>3. CASE status' = status
  BY <1>1, <1>2, <1>3 DEF Enabled
<1>4. ASSUME NEW j \in Jobs, NEW st, status' = [status EXCEPT ![j] = st], UNCHANGED <<todo, log, Claimed>>
      PROVE  Owner!Next
  <2>1. Enabled' = Enabled \cup {j} \/ Enabled' = Enabled \ {j}
    BY <1>4 DEF Enabled, TypeOK
  <2>2. Owner!Configure(j)
    BY <1>4, <2>1 DEF Owner!Configure
  <2> QED BY <2>2 DEF Owner!Next
<1>5. \/ status' = status
      \/ \E j \in Jobs : \E st \in {"enabled", "disabled", "removed"} :
           status' = [status EXCEPT ![j] = st]
  <2>1. ASSUME NEW j \in Jobs, Add(j) \/ Remove(j) \/ TriggerNow(j)
        PROVE  \E st \in {"enabled", "disabled", "removed"} : status' = [status EXCEPT ![j] = st]
    BY <2>1 DEF Add, Remove, TriggerNow
  <2>2. ASSUME NEW j \in Jobs, NEW on \in BOOLEAN, SetEnabled(j, on)
        PROVE  \E st \in {"enabled", "disabled", "removed"} : status' = [status EXCEPT ![j] = st]
    BY <2>2 DEF SetEnabled
  <2> QED BY <2>1, <2>2 DEF Boot, Tick, vars, table
<1>6. (\E found \in BOOLEAN : Boot(found)) => status' = status
  BY DEF Boot, table
<1> QED BY <1>1, <1>3, <1>4, <1>5, <1>6

(* What the scheduler does.                                                *)
LEMMA SchedulerRuns ==
  ASSUME TypeOK, Behind, Timely,
         \/ List \/ (\E j \in Jobs : NotDue(j) \/ UpdateLastRun(j))
         \/ Execute \/ EndTick \/ Fail \/ Crash
  PROVE  Owner!Next
<1>1. CASE List
  <2>1. /\ todo = {} /\ todo' = Enabled /\ Claimed = {} /\ Claimed' = {}
        /\ Enabled' = Enabled /\ log' = log
    BY <1>1 DEF List, Timely, Enabled, Claimed, table
  <2> QED BY <2>1 DEF Owner!Next, Owner!List
<1>2. ASSUME NEW j \in Jobs, NotDue(j) PROVE Owner!Next
  <2>1. /\ Claimed = {} /\ Claimed' = {} /\ todo' = todo \ {j}
        /\ Enabled' = Enabled /\ log' = log
    BY <1>2 DEF NotDue, Claimed, Enabled, table
  <2>2. Owner!Skip(j)
    BY <2>1 DEF Owner!Skip
  <2> QED BY <2>2 DEF Owner!Next
<1>3. ASSUME NEW j \in Jobs, UpdateLastRun(j) PROVE Owner!Next
  <2> DEFINE run == Owed(j)
  <2>1. run \in Runs /\ j \in todo /\ due' = [job |-> j, run |-> run] /\ place = "tick"
    BY <1>3, OwedType DEF UpdateLastRun
  <2>2. ASSUME run.why = "schedule" PROVE Owner!InOrder(j, run)
    <3>1. run.slot = listed[j] /\ listed[j] \in Nat \ {0}
      BY <2>2 DEF Owed, Past, TypeOK, Time
    <3>2. Ahead(j, listed[j])
      BY <2>1 DEF Behind
    <3>3. \A i \in Scheduled(j) : log[j][i].slot < run.slot
      BY <3>1, <3>2 DEF Ahead
    <3> HIDE DEF run
    <3> QED BY <3>3 DEF Owner!InOrder, Scheduled
  <2>3. Claimed = {} /\ Claimed' = {<<j, run>>}
    <3> HIDE DEF run
    <3> QED BY <1>3, <2>1 DEF UpdateLastRun, Claimed
  <2>4. UNCHANGED <<Enabled, todo, log>>
    BY <1>3 DEF UpdateLastRun, Enabled
  <2> HIDE DEF run
  <2>5. Owner!Claim(j, run)
    BY <2>1, <2>2, <2>3, <2>4 DEF Owner!Claim
  <2> QED BY <2>1, <2>5 DEF Owner!Next
<1>4. CASE Execute
  <2> DEFINE j == due.job
             run == due.run
  <2>1. j \in Jobs /\ run \in Runs
    BY <1>4 DEF Execute, TypeOK
  <2>2. /\ Claimed = {<<j, run>>} /\ Claimed' = {} /\ todo' = todo \ {j}
        /\ Enabled' = Enabled
        /\ log' = log \/ log' = [log EXCEPT ![j] = Append(@, run)]
    BY <1>4 DEF Execute, Claimed, Enabled, table
  <2> HIDE DEF j, run
  <2>3. Owner!Start(j, run) \/ Owner!Forgo(j, run)
    BY <2>2 DEF Owner!Start, Owner!Forgo
  <2> QED BY <2>1, <2>3 DEF Owner!Next
<1>5. CASE EndTick \/ Fail \/ Crash
  <2>1. todo' = {} /\ Claimed' = {} /\ Enabled' = Enabled /\ log' = log
    BY <1>5 DEF EndTick, Fail, Crash, Sleep, Claimed, Enabled, table
  <2> QED BY <2>1 DEF Owner!Next, Owner!GiveUp
<1> QED BY <1>1, <1>2, <1>3, <1>4, <1>5

(* The scheduler implements what the owner of a job counts on, whoever     *)
(* writes the table between its statements, whatever fails, and wherever   *)
(* it crashes: at most one run for each listing of an enabled job, claimed *)
(* in the row before it starts, and the instants in their order.           *)
THEOREM JobRunsImplemented == Spec => OwnerSpec
<1>1. Init => TypeOK /\ Behind /\ Timely /\ Owner!Init
  <2> SUFFICES ASSUME Init PROVE Owner!Init
    BY TypeInit, BehindInit, OnTimeInit DEF OnTime
  <2> QED BY DEF Init, Owner!Init, Enabled, Claimed
<1>2. TypeOK /\ Behind /\ Timely /\ [Next]_vars => (TypeOK /\ Behind /\ Timely)'
  BY TypeStep, BehindStep, TimelyStep
<1>3. ASSUME TypeOK, Behind, Timely, [Next]_vars
      PROVE  [Owner!Next]_(Owner!runVars)
  <2>1. Owner!Next \/ UNCHANGED <<Enabled, todo, Claimed, log>>
    BY <1>3, OutsideRuns, SchedulerRuns DEF Next, Stop
  <2> QED BY <2>1 DEF Owner!runVars
<1>4. TypeOK /\ Behind /\ Timely /\ [Next]_vars => [Owner!Next]_(Owner!runVars)
  BY <1>3
<1> QED
  BY <1>1, <1>2, <1>4, PTL DEF Spec, OwnerSpec, Owner!Spec

-----------------------------------------------------------------------------
(* A schedule that is over stays over.                                     *)
LEMMA StaysOver ==
  ASSUME NEW j \in Jobs, NEW t \in Nat, NEW u \in Nat, t <= u, After(j, t) = None
  PROVE  After(j, u) = None
<1>1. Slots[j] \subseteq Nat \ {0}
  BY CronAssumption
<1>2. {s \in Slots[j] : s > t} = {}
  <2> DEFINE later == {s \in Slots[j] : s > t}
  <2>1. SUFFICES ASSUME later # {} PROVE FALSE
    OBVIOUS
  <2>2. later \in SUBSET Nat
    BY <1>1
  <2>3. \E x \in later : \A y \in later : x <= y
    BY <2>1, <2>2, LeastInstant
  <2>4. After(j, t) = CHOOSE x \in later : \A y \in later : x <= y
    BY <2>1 DEF After
  <2>5. After(j, t) \in Nat
    BY <2>2, <2>3, <2>4
  <2> QED
    BY <2>5, CronAssumption
<1>3. {s \in Slots[j] : s > u} = {}
  BY <1>1, <1>2
<1> QED
  BY <1>3 DEF After

Over(j) == After(j, now) = None

(* A row without an instant is of a job that never ran, that is gone, or   *)
(* whose schedule is over; so is what the tick has read of it, and what    *)
(* the run about to start will leave behind.                               *)
Spent(j) == next[j] = None => log[j] = << >> \/ status[j] = "removed" \/ Over(j)
Read(j) == j \in todo /\ listed[j] = None => log[j] = << >> \/ Over(j)
Starting ==
  place = "updated" =>
    /\ due.run.why = "first" => log[due.job] = << >>
    /\ next[due.job] # None \/ status[due.job] = "removed" \/ Over(due.job)

FirstIsFirst ==
  \A j \in Jobs : \A k \in DOMAIN log[j] : log[j][k].why = "first" => k = 1

Firsts ==
  /\ FirstIsFirst
  /\ \A j \in Jobs : Spent(j) /\ Read(j)
  /\ Starting

(* No job has run at the start.                                            *)
LEMMA FirstsInit == Init => Firsts
<1> SUFFICES ASSUME Init PROVE Firsts
  OBVIOUS
<1>1. /\ \A j \in Jobs : log[j] = << >>
      /\ place = "down"
  BY DEF Init
<1>2. DOMAIN << >> = {}
  OBVIOUS
<1>3. FirstIsFirst
  BY <1>1, <1>2, Zenon DEF FirstIsFirst
<1> QED
  BY <1>1, <1>3 DEF Firsts, Spent, Read, Starting

(* Steps that start no run, and write only instants into the rows.         *)
LEMMA FirstsKept ==
  ASSUME TypeOK, TypeOK', Firsts, log' = log, now' >= now,
         (todo' \subseteq todo /\ listed' = listed) \/ todo' = {},
         \A j \in Jobs : /\ next'[j] = None => next[j] = None
                         /\ status[j] = "removed" => status'[j] = "removed",
         place' = "updated" => place = "updated" /\ due' = due
  PROVE  Firsts'
<1>1. \A j \in Jobs : Over(j) => Over(j)'
  <2>1. now \in Nat /\ now' \in Nat
    BY CronAssumption DEF TypeOK
  <2>2. SUFFICES ASSUME NEW j \in Jobs, After(j, now) = None PROVE After(j, now') = None
    BY DEF Over, After
  <2> QED
    BY <2>1, <2>2, StaysOver
<1>2. FirstIsFirst'
  BY DEF Firsts, FirstIsFirst
<1>3. ASSUME NEW j \in Jobs PROVE Spent(j)' /\ Read(j)'
  BY <1>1 DEF Firsts, Spent, Read
<1>4. Starting'
  <2>1. place = "updated" => due.job \in Jobs
    BY DEF TypeOK
  <2> QED
    BY <1>1, <2>1 DEF Firsts, Starting
<1> QED
  BY <1>2, <1>3, <1>4 DEF Firsts

(* Only a job that never ran is started before its instant.                *)
LEMMA FirstsStep ==
  TypeOK /\ TypeOK' /\ Behind /\ Timely /\ Firsts /\ [Next]_vars => Firsts'
<1> SUFFICES ASSUME TypeOK, TypeOK', Behind, Timely, Firsts, [Next]_vars PROVE Firsts'
  OBVIOUS
<1>0. now \in Nat /\ now' \in Nat /\ began \in Nat /\ began <= now
  BY CronAssumption DEF TypeOK, Behind
<1>1. CASE \E j \in Jobs : \/ Add(j) \/ Remove(j) \/ TriggerNow(j)
                          \/ \E on \in BOOLEAN : SetEnabled(j, on)
  <2>1. /\ log' = log /\ now' = now /\ todo' = todo /\ listed' = listed
        /\ place' = place /\ due' = due
    BY <1>1 DEF Add, Remove, TriggerNow, SetEnabled, Call, local
  <2>2. \A k \in Jobs : /\ next'[k] \in {next[k], Past}
                        /\ status[k] = "removed" => status'[k] = "removed"
    BY <1>1 DEF Add, Remove, TriggerNow, SetEnabled, Call, TypeOK
  <2>3. \A k \in Jobs : next'[k] = None => next[k] = None
    BY <2>2, CronAssumption DEF Past
  <2> QED
    BY <1>0, <2>1, <2>2, <2>3, FirstsKept
<1>2. CASE \/ \E found \in BOOLEAN : Boot(found)
           \/ \E j \in Jobs : NotDue(j)
           \/ EndTick \/ Fail \/ Crash \/ Tick \/ UNCHANGED vars
  <2>1. /\ log' = log /\ now' >= now /\ next' = next /\ status' = status
        /\ place' = "updated" => place = "updated" /\ due' = due
    BY <1>0, <1>2 DEF Boot, NotDue, EndTick, Fail, Sleep, Crash, Tick, vars, table, local
  <2>2. (todo' \subseteq todo /\ listed' = listed) \/ todo' = {}
    BY <1>2 DEF Boot, NotDue, EndTick, Fail, Sleep, Crash, Tick, vars, table, local
  <2> QED
    BY <2>1, <2>2, FirstsKept
<1>3. CASE List
  <2>1. /\ log' = log /\ status' = status /\ next' = next /\ now' = now
        /\ place' = "tick" /\ listed' = next /\ todo' = {j \in Jobs : status[j] = "enabled"}
    BY <1>3 DEF List, table
  <2>2. \A j \in Jobs : Over(j)' = Over(j)
    BY <2>1 DEF Over, After
  <2>3. FirstIsFirst' /\ Starting'
    BY <2>1 DEF Firsts, FirstIsFirst, Starting
  <2>4. ASSUME NEW j \in Jobs PROVE Spent(j)' /\ Read(j)'
    BY <2>1, <2>2 DEF Firsts, Spent, Read
  <2> QED
    BY <2>3, <2>4 DEF Firsts
<1>4. ASSUME NEW j \in Jobs, UpdateLastRun(j) PROVE Firsts'
  <2>1. /\ log' = log /\ status' = status /\ now' = now /\ todo' = todo /\ listed' = listed
        /\ place' = "updated" /\ j \in todo /\ IsDue(j) /\ due' = [job |-> j, run |-> Owed(j)]
    BY <1>4 DEF UpdateLastRun
  <2>2. \A k \in Jobs : next'[k] = IF k = j /\ status[j] # "removed" THEN After(j, began) ELSE next[k]
    BY <1>4 DEF UpdateLastRun, TypeOK
  <2>3. \A k \in Jobs : Over(k)' = Over(k)
    BY <2>1 DEF Over, After
  <2>4. After(j, began) = None => Over(j)
    BY <1>0, StaysOver DEF Over
  <2>5. FirstIsFirst'
    BY <2>1 DEF Firsts, FirstIsFirst
  <2>6. ASSUME NEW k \in Jobs PROVE Spent(k)' /\ Read(k)'
    BY <2>1, <2>2, <2>3, <2>4 DEF Firsts, Spent, Read
  <2>7. Owed(j).why = "first" => log[j] = << >>
    <3>1. Owed(j).why = "first" => listed[j] = None
      BY DEF Owed
    <3>2. listed[j] = None => ~ Over(j)
      BY <2>1 DEF IsDue, Over
    <3> QED
      BY <2>1, <3>1, <3>2 DEF Firsts, Read
  <2>8. due'.job = j /\ due'.run = Owed(j)
    BY <2>1
  <2>9. next'[j] # None \/ status'[j] = "removed" \/ Over(j)'
    BY <2>1, <2>2, <2>3, <2>4
  <2>10. Starting'
    BY <2>1, <2>7, <2>8, <2>9 DEF Starting
  <2> QED
    BY <2>5, <2>6, <2>10 DEF Firsts
<1>5. CASE Execute
  <2>0. PICK j \in Jobs : j = due.job
    BY <1>5 DEF Execute, TypeOK
  <2>1. /\ status' = status /\ next' = next /\ now' = now /\ listed' = listed
        /\ place = "updated" /\ place' = "tick" /\ todo' = todo \ {j}
    BY <1>5, <2>0 DEF Execute, table
  <2>2. \A k \in Jobs : Over(k)' = Over(k)
    BY <2>1 DEF Over, After
  <2>3. \A k \in Jobs \ {j} : log'[k] = log[k]
    BY <1>5, <2>0 DEF Execute, TypeOK
  <2>4. log'[j] = log[j] \/ log'[j] = Append(log[j], due.run)
    BY <1>5, <2>0 DEF Execute, TypeOK
  <2>5. /\ due.run.why = "first" => log[j] = << >>
        /\ next[j] # None \/ status[j] = "removed" \/ Over(j)
    BY <2>0, <2>1 DEF Firsts, Starting
  <2>6. ASSUME NEW k \in Jobs PROVE Spent(k)' /\ Read(k)'
    BY <2>1, <2>2, <2>3, <2>5 DEF Firsts, Spent, Read
  <2>7. ASSUME NEW k \in DOMAIN log'[j], log'[j][k].why = "first" PROVE k = 1
    <3>1. CASE log'[j] = log[j]
      BY <2>7, <3>1 DEF Firsts, FirstIsFirst
    <3>2. CASE log'[j] = Append(log[j], due.run)
      <4> DEFINE n == Len(log[j])
      <4>1. log[j] \in Seq(Runs)
        BY DEF TypeOK
      <4>2. /\ n \in Nat /\ DOMAIN log[j] = 1..n /\ DOMAIN log'[j] = 1..(n + 1)
            /\ log'[j][n + 1] = due.run /\ \A i \in 1..n : log'[j][i] = log[j][i]
        BY <3>2, <4>1
      <4>3. CASE k \in 1..n
        BY <2>7, <4>2, <4>3 DEF Firsts, FirstIsFirst
      <4>4. CASE k = n + 1
        <5>1. log[j] = << >>
          BY <2>5, <2>7, <4>2, <4>4
        <5>2. n = 0
          BY <5>1
        <5> QED
          BY <4>4, <5>2
      <4> QED
        BY <4>2, <4>3, <4>4
    <3> QED
      BY <2>4, <3>1, <3>2
  <2>8. FirstIsFirst'
    BY <2>3, <2>7 DEF Firsts, FirstIsFirst
  <2> QED
    BY <2>1, <2>6, <2>8 DEF Firsts, Starting
<1> QED
  BY <1>1, <1>2, <1>3, <1>4, <1>5 DEF Next, Stop

(* How far "so we don't re-trigger" (scheduler.rs:118) goes: two runs of a *)
(* job for one instant are its very first, started up to a poll early, and *)
(* one that has waited for that instant.                                   *)
TwiceOnlyAtFirst ==
  \A j \in Jobs : \A i, k \in DOMAIN log[j] :
    /\ i < k /\ log[j][i].slot = log[j][k].slot
    /\ log[j][i].why # "asked" /\ log[j][k].why # "asked"
    => i = 1 /\ log[j][1].why = "first" /\ log[j][k].why = "schedule"

(* No job runs twice for one instant except a new one, once, whatever      *)
(* crashes, fails, or is triggered, enabled and removed in between.        *)
THEOREM OnlyNewJobsRunTwice == Spec => []TwiceOnlyAtFirst
<1>1. Init => TypeOK /\ Behind /\ Timely /\ Firsts
  BY TypeInit, BehindInit, OnTimeInit, FirstsInit DEF OnTime
<1>2. TypeOK /\ Behind /\ Timely /\ Firsts /\ [Next]_vars
        => (TypeOK /\ Behind /\ Timely /\ Firsts)'
  BY TypeStep, BehindStep, TimelyStep, FirstsStep
<1>3. TypeOK /\ Behind /\ Firsts => TwiceOnlyAtFirst
  <2> SUFFICES ASSUME TypeOK, Come, NoRetrigger, FirstIsFirst, NEW j \in Jobs,
                      NEW i \in DOMAIN log[j], NEW k \in DOMAIN log[j],
                      i < k, log[j][i].slot = log[j][k].slot,
                      log[j][i].why # "asked", log[j][k].why # "asked"
               PROVE  i = 1 /\ log[j][1].why = "first" /\ log[j][k].why = "schedule"
    BY DEF TwiceOnlyAtFirst, Behind, Firsts
  <2>1. log[j] \in Seq(Runs)
    BY DEF TypeOK
  <2>2. /\ i \in Nat \ {0} /\ k \in Nat \ {0}
        /\ log[j][i].why \in {"first", "schedule"} /\ log[j][k].why \in {"first", "schedule"}
    <3>1. i \in Nat \ {0} /\ k \in Nat \ {0} /\ log[j][i] \in Runs /\ log[j][k] \in Runs
      BY <2>1
    <3> QED
      BY <3>1 DEF Runs, Whys
  <2>3. log[j][k].why = "schedule"
    BY <2>2 DEF FirstIsFirst
  <2>4. log[j][i].why = "first"
    <3>1. SUFFICES ASSUME log[j][i].why = "schedule" PROVE FALSE
      BY <2>2
    <3>2. log[j][i].slot < log[j][k].slot
      BY <2>3, <3>1 DEF NoRetrigger, Scheduled
    <3>3. log[j][i].slot \in Nat
      BY <3>1 DEF Come, Scheduled
    <3> QED
      BY <3>2, <3>3
  <2> QED
    BY <2>3, <2>4 DEF FirstIsFirst
<1> QED
  BY <1>1, <1>2, <1>3, PTL DEF Spec

=============================================================================
