------------------------------- MODULE JobRuns -------------------------------
(* What the owner of a cron job can count on: a run is started at most once*)
(* each time the scheduler has listed the job as enabled, so that a job    *)
(* that is disabled or removed starts at most one more; it is claimed      *)
(* before it starts, and a claim that is lost is not taken up again; and   *)
(* runs the schedule has asked for are claimed in the order of their       *)
(* instants.                                                               *)
EXTENDS Naturals, Sequences

CONSTANTS
  Jobs,
  Runs  \* records with a slot and the reason why the run is due

VARIABLES
  enabled,  \* jobs that are enabled in the table
  turn,     \* jobs that may still start a run before the next listing
  claim,    \* the run that is about to start, if any
  log       \* runs started so far

runVars == <<enabled, turn, claim, log>>

Init ==
  /\ enabled = {} /\ turn = {} /\ claim = {}
  /\ log = [j \in Jobs |-> << >>]

Configure(j) ==
  /\ enabled' \in {enabled \cup {j}, enabled \ {j}}
  /\ UNCHANGED <<turn, claim, log>>

List ==
  /\ turn = {} /\ claim = {}
  /\ turn' = enabled
  /\ UNCHANGED <<enabled, claim, log>>

Skip(j) ==
  /\ claim = {}
  /\ turn' = turn \ {j}
  /\ UNCHANGED <<enabled, claim, log>>

InOrder(j, run) ==
  \A i \in DOMAIN log[j] : log[j][i].why = "schedule" => log[j][i].slot < run.slot

Claim(j, run) ==
  /\ j \in turn /\ claim = {}
  /\ run.why = "schedule" => InOrder(j, run)
  /\ claim' = {<<j, run>>}
  /\ UNCHANGED <<enabled, turn, log>>

Start(j, run) ==
  /\ claim = {<<j, run>>}
  /\ log' = [log EXCEPT ![j] = Append(@, run)]
  /\ turn' = turn \ {j} /\ claim' = {}
  /\ UNCHANGED enabled

(* Nobody can run it: only this run is lost.                               *)
Forgo(j, run) ==
  /\ claim = {<<j, run>>}
  /\ turn' = turn \ {j} /\ claim' = {}
  /\ UNCHANGED <<enabled, log>>

(* A crash, or a statement that has failed.                                *)
GiveUp ==
  /\ turn' = {} /\ claim' = {}
  /\ UNCHANGED <<enabled, log>>

Next ==
  \/ \E j \in Jobs :
       \/ Configure(j) \/ Skip(j)
       \/ \E run \in Runs : Claim(j, run) \/ Start(j, run) \/ Forgo(j, run)
  \/ List
  \/ GiveUp

Spec == Init /\ [][Next]_runVars
=============================================================================
