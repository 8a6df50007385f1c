--------------------------- MODULE CronScheduler ----------------------------
(***************************************************************************)
(* The scheduler of cron jobs (src/cron/scheduler.rs) over its table       *)
(* (src/db/repository/cron_job.rs).  One task of the interface's process   *)
(* looks at the table, starts the jobs that are due and sleeps a minute.   *)
(* Between two of its statements the agent's cron_manage tool and the      *)
(* command line, which is a process of its own, write the same rows.       *)
(*                                                                         *)
(* Time is explicit.  A cron expression is the set of instants it names,   *)
(* the zero of time stands for the year 2000 of trigger_now, and every     *)
(* run of a job is the start of its background task.                       *)
(***************************************************************************)
EXTENDS Integers, Sequences

CONSTANTS
  Jobs,         \* the jobs that may be created
  Slots,        \* the instants the cron expression of each job names
  Poll,         \* the sleep between two ticks
  Slack,        \* how long listing, and how long the rest of a tick, may take
  None,         \* NULL, and the end of a schedule
  Horizon,      \* bound: the last instant
  MaxCrashes,   \* bound: exits of the process
  MaxFailures,  \* bound: statements of the scheduler that fail
  MaxCalls      \* bound: rows removed, enabled, disabled or triggered

ASSUME CronAssumption ==
  /\ Slots \in [Jobs -> SUBSET (Nat \ {0})]
  /\ None \notin Nat
  /\ Poll \in Nat \ {0}
  /\ Slack \in Nat
  /\ Horizon \in Nat \ {0}
  /\ MaxCrashes \in Nat /\ MaxFailures \in Nat /\ MaxCalls \in Nat

VARIABLES
  status,    \* of each job: unused, enabled, disabled or removed
  next,      \* next_run_at of each job
  place,     \* of the scheduler: down, asleep, tick or updated
  session,   \* the cron session was found or created at boot
  began,     \* `now` of the current tick, or of the last one
  wake,      \* when the sleep ends
  todo,      \* listed jobs the tick has not come to
  listed,    \* next_run_at of each job as the tick has read it
  due,       \* the run the tick is about to start
  now,       \* the clock
  log,       \* history: the runs of each job
  since,     \* history: when the wait of each job was last excused
  crashes, failures, calls

table == <<status, next>>
local == <<session, began, wake, todo, listed, due>>
bounds == <<crashes, failures, calls>>
vars == <<table, place, local, now, log, since, bounds>>

Past == 0
Time == Nat \cup {None}
Whys == {"first", "schedule", "asked"}
Runs == [slot : Time, why : Whys]

(* Mutation: the instant itself counts as after it.                        *)
After_Inclusive(j, t) ==
  LET later == {s \in Slots[j] : s >= t}
  IN  IF later = {} THEN None ELSE CHOOSE s \in later : \A r \in later : s <= r
(* The first instant of the schedule of j after t.                         *)
After(j, t) ==
  LET later == {s \in Slots[j] : s > t}
  IN  IF later = {} THEN None ELSE CHOOSE s \in later : \A r \in later : s <= r

(* A job that never ran is due when its next instant, counted from the     *)
(* clock and not from the `now` of the tick, is at most a poll away.       *)
IsDue(j) ==
  IF listed[j] = None
  THEN After(j, now) # None /\ After(j, now) - began <= Poll
  ELSE listed[j] <= began

(* The run a due job is owed, for the history.                             *)
Owed(j) ==
  [slot |-> IF listed[j] = None THEN After(j, now) ELSE listed[j],
   why  |-> CASE listed[j] = None -> "first"
              [] listed[j] = Past -> "asked"
              [] OTHER            -> "schedule"]

Init ==
  /\ status = [j \in Jobs |-> "unused"] /\ next = [j \in Jobs |-> None]
  /\ place = "down" /\ session = FALSE
  /\ began = 0 /\ wake = 0 /\ todo = {} /\ listed = [j \in Jobs |-> None]
  /\ due = [job |-> None, run |-> None]
  /\ now = 1
  /\ log = [j \in Jobs |-> << >>] /\ since = [j \in Jobs |-> 0]
  /\ crashes = 0 /\ failures = 0 /\ calls = 0

-----------------------------------------------------------------------------
(* The rows, written by the tool and by the command line at any moment.    *)

Add(j) ==
  /\ status[j] = "unused"
  /\ status' = [status EXCEPT ![j] = "enabled"]
  /\ UNCHANGED <<next, place, local, now, log, since, bounds>>

Call(j) ==
  /\ status[j] \in {"enabled", "disabled"}
  /\ calls < MaxCalls /\ calls' = calls + 1
  /\ UNCHANGED <<place, local, now, log, crashes, failures>>

Remove(j) ==
  /\ Call(j)
  /\ status' = [status EXCEPT ![j] = "removed"]
  /\ UNCHANGED <<next, since>>

SetEnabled(j, on) ==
  /\ Call(j)
  /\ status' = [status EXCEPT ![j] = IF on THEN "enabled" ELSE "disabled"]
  /\ since' = [since EXCEPT ![j] = IF status[j] = "disabled" THEN now ELSE @]
  /\ UNCHANGED next

TriggerNow(j) ==
  /\ Call(j)
  /\ status' = [status EXCEPT ![j] = "enabled"]
  /\ next' = [next EXCEPT ![j] = Past]
  /\ since' = [since EXCEPT ![j] = now]

-----------------------------------------------------------------------------
(* The scheduler.                                                          *)

(* spawn: without a session the loop runs all the same.                    *)
Boot(found) ==
  /\ place = "down"
  /\ place' = "asleep"
  /\ session' = found
  /\ wake' = now
  /\ since' = [j \in Jobs |-> now]
  /\ failures' = IF found THEN failures ELSE failures + 1
  /\ failures' <= MaxFailures
  /\ UNCHANGED <<table, began, todo, listed, due, now, log, crashes, calls>>

(* list_enabled, then the `now` of the tick.                               *)
List ==
  /\ place = "asleep" /\ now >= wake
  /\ place' = "tick"
  /\ began' = now
  /\ todo' = {j \in Jobs : status[j] = "enabled"}
  /\ listed' = next
  /\ UNCHANGED <<table, session, wake, due, now, log, since, bounds>>

NotDue(j) ==
  /\ place = "tick" /\ j \in todo /\ ~ IsDue(j)
  /\ todo' = todo \ {j}
  /\ UNCHANGED <<table, place, session, began, wake, listed, due, now, log, since, bounds>>

(* next_run_after and update_last_run, before the run: the row is written  *)
(* whether it is still enabled or not, if it is still there.               *)
UpdateLastRun(j) ==
  /\ place = "tick" /\ j \in todo /\ IsDue(j)
  /\ next' = [next EXCEPT ![j] = IF status[j] = "removed" THEN @ ELSE After(j, began)]
  /\ due' = [job |-> j, run |-> Owed(j)]
  /\ place' = "updated"
  /\ UNCHANGED <<status, session, began, wake, todo, listed, now, log, since, bounds>>

(* The run is spawned, or skipped for want of a session.                   *)
Execute ==
  /\ place = "updated"
  /\ log' = IF session
            THEN [log EXCEPT ![due.job] = Append(@, due.run)]
            ELSE log
  /\ todo' = todo \ {due.job}
  /\ place' = "tick"
  /\ UNCHANGED <<table, session, began, wake, listed, due, now, since, bounds>>

(* Mutation: it sleeps before and after the error is logged.               *)
Sleep_Twice ==
  /\ place' = "asleep"
  /\ wake' = now + Poll + Poll
  /\ todo' = {} /\ listed' = [j \in Jobs |-> None] /\ due' = [job |-> None, run |-> None]
Sleep ==
  /\ place' = "asleep"
  /\ wake' = now + Poll
  /\ todo' = {} /\ listed' = [j \in Jobs |-> None] /\ due' = [job |-> None, run |-> None]

EndTick ==
  /\ place = "tick" /\ todo = {}
  /\ Sleep
  /\ UNCHANGED <<table, session, began, now, log, since, bounds>>

(* Mutation: the error of a tick ends the loop.                            *)
Fail_Dies ==
  /\ failures < MaxFailures /\ failures' = failures + 1
  /\ \/ place = "asleep" /\ now >= wake
     \/ place = "tick" /\ \E j \in todo : IsDue(j)
  /\ place' = "asleep" /\ wake' = Horizon + Poll
  /\ todo' = {} /\ listed' = [j \in Jobs |-> None] /\ due' = [job |-> None, run |-> None]
  /\ since' = [j \in Jobs |-> now]
  /\ UNCHANGED <<table, session, began, now, log, crashes, calls>>
(* A statement fails: the rest of the tick is given up.                    *)
Fail ==
  /\ failures < MaxFailures /\ failures' = failures + 1
  /\ \/ place = "asleep" /\ now >= wake
     \/ place = "tick" /\ \E j \in todo : IsDue(j)
  /\ Sleep
  /\ since' = [j \in Jobs |-> now]
  /\ UNCHANGED <<table, session, began, now, log, crashes, calls>>

(* Exit of the process, or the exec of its restart.                        *)
Crash ==
  /\ place # "down"
  /\ crashes < MaxCrashes /\ crashes' = crashes + 1
  /\ place' = "down"
  /\ session' = FALSE /\ began' = 0 /\ wake' = 0
  /\ todo' = {} /\ listed' = [j \in Jobs |-> None] /\ due' = [job |-> None, run |-> None]
  /\ UNCHANGED <<table, now, log, since, failures, calls>>

(* The clock, held back by what the scheduler has to do first.             *)
Tick ==
  /\ now < Horizon
  /\ place = "asleep" => now < wake + Slack
  /\ place \in {"tick", "updated"} => now < began + Slack
  /\ now' = now + 1
  /\ UNCHANGED <<table, place, local, log, since, bounds>>

Stop ==
  /\ now = Horizon
  /\ UNCHANGED vars

Next ==
  \/ \E j \in Jobs : \/ Add(j) \/ Remove(j) \/ TriggerNow(j)
                     \/ \E on \in BOOLEAN : SetEnabled(j, on)
  \/ \E found \in BOOLEAN : Boot(found)
  \/ List
  \/ \E j \in Jobs : NotDue(j) \/ UpdateLastRun(j)
  \/ Execute \/ EndTick \/ Fail
  \/ Crash
  \/ Tick \/ Stop

Spec == Init /\ [][Next]_vars

-----------------------------------------------------------------------------
(* Every variable has its type.                                            *)
TypeOK ==
  /\ status \in [Jobs -> {"unused", "enabled", "disabled", "removed"}]
  /\ next \in [Jobs -> Time] /\ listed \in [Jobs -> Time]
  /\ place \in {"down", "asleep", "tick", "updated"}
  /\ session \in BOOLEAN
  /\ began \in 0..Horizon /\ now \in 1..Horizon /\ wake \in 0..(Horizon + Poll)
  /\ todo \subseteq Jobs
  /\ due \in [job : Jobs \cup {None}, run : Runs \cup {None}]
  /\ place = "updated" => due.job \in todo /\ due.run \in Runs
  /\ log \in [Jobs -> Seq(Runs)]
  /\ since \in [Jobs -> 0..Horizon]
  /\ crashes \in 0..MaxCrashes /\ failures \in 0..MaxFailures /\ calls \in 0..MaxCalls

(* "Calculate next run time before executing (so we don't re-trigger)"     *)
(* (scheduler.rs:118): an instant of the schedule that was waited for      *)
(* starts one run, and later runs are for later instants, whatever the     *)
(* crashes, the failed statements and the triggers in between.             *)
Scheduled(j) == {i \in DOMAIN log[j] : log[j][i].why = "schedule"}
NoRetrigger ==
  \A j \in Jobs : \A i, k \in Scheduled(j) : i < k => log[j][i].slot < log[j][k].slot

(* A job is picked up: while the scheduler lives, an enabled job whose     *)
(* next_run_at has come is not left waiting longer than a sleep and the    *)
(* statements before and after it, counted from the last time it was       *)
(* enabled, triggered, or given up by a statement that failed.             *)
Waiting(j) ==
  /\ place # "down" /\ status[j] = "enabled"
  /\ next[j] # None /\ next[j] <= now
From(j) == IF next[j] > since[j] THEN next[j] ELSE since[j]
Punctual == \A j \in Jobs : Waiting(j) => now - From(j) <= Poll + 3 * Slack

(* The same comment read for every run: no two runs of a job are for one   *)
(* instant of its schedule.  The first run comes up to a poll before its   *)
(* instant, and next_run_after then names that instant again.              *)
NoSlotTwice ==
  \A j \in Jobs : \A i, k \in DOMAIN log[j] :
    log[j][i].why # "asked" /\ log[j][k].why # "asked" /\ i # k
      => log[j][i].slot # log[j][k].slot
=============================================================================
