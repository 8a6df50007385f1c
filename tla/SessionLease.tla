---------------------------- MODULE SessionLease ----------------------------
(***************************************************************************)
(* What the sub-agent runtime promises about the session of a child: work  *)
(* on it comes in numbered runs, and a run begins only when no run holds   *)
(* the session.  holder[a] is the set of runs that hold the session of a.  *)
(***************************************************************************)
EXTENDS Naturals

CONSTANTS Agents, MaxRuns

VARIABLES issued, holder

leaseVars == <<issued, holder>>

Init ==
  /\ issued = [a \in Agents |-> 0]
  /\ holder = [a \in Agents |-> {}]

Acquire(a) ==
  /\ holder[a] = {}
  /\ issued[a] < MaxRuns
  /\ issued' = [issued EXCEPT ![a] = @ + 1]
  /\ holder' = [holder EXCEPT ![a] = {issued[a] + 1}]

Release(a) ==
  /\ holder[a] # {}
  /\ holder' = [holder EXCEPT ![a] = {}]
  /\ UNCHANGED issued

Next == \E a \in Agents : Acquire(a) \/ Release(a)

Spec == Init /\ [][Next]_leaseVars
=============================================================================
