----------------------------- MODULE TaskLife -----------------------------
(* What a client of the gateway can count on in the life of a task: it is  *)
(* created once and gets at most one process, only that process judges it, *)
(* and once, the final event comes after the verdict and agrees with it, a *)
(* cancellation ends only what has not ended, and a task whose end is on   *)
(* record does not come back.  A restart may forget any task, and one whose*)
(* end is not on record may come back by a later one.                      *)
CONSTANT Tasks

VARIABLES
  state,  \* what tasks/get answers, "Absent" for an error
  life,   \* how far the work on the task is
  event,  \* the state in the final event of its stream
  ended   \* whether its end is on record

lifeVars == <<state, life, event, ended>>

Init ==
  /\ state = [t \in Tasks |-> "Absent"]
  /\ life = [t \in Tasks |-> "unborn"]
  /\ event = [t \in Tasks |-> "none"]
  /\ ended = [t \in Tasks |-> FALSE]

(* A record of the end is tried, and may fail.                             *)
Record(t) == ended' \in {ended, [ended EXCEPT ![t] = TRUE]}

Move(t, from, to) == life[t] = from /\ life' = [life EXCEPT ![t] = to]

Create(t) ==
  /\ Move(t, "unborn", "asked")
  /\ state' = [state EXCEPT ![t] = "Working"]
  /\ UNCHANGED <<event, ended>>

Begin(t) ==
  /\ Move(t, "asked", "working")
  /\ UNCHANGED <<state, event, ended>>

(* The client is gone before anything has begun.                           *)
Abandon(t) ==
  /\ Move(t, "asked", "over")
  /\ UNCHANGED <<state, event, ended>>

(* The verdict, for whoever asks, and at once or later for a stream.       *)
Judge(t, verdict) ==
  /\ \/ /\ Move(t, "working", "over")
        /\ event' \in {event, [event EXCEPT ![t] = verdict]}
     \/ /\ verdict = "Completed"
        /\ Move(t, "working", "closing")
        /\ UNCHANGED event
  /\ state' = [state EXCEPT ![t] = verdict]
  /\ Record(t)

Report(t) ==
  /\ Move(t, "closing", "over")
  /\ event' = [event EXCEPT ![t] = state[t]]
  /\ Record(t)
  /\ UNCHANGED state

Cancel(t) ==
  /\ life[t] \in {"working", "over"}
  /\ state[t] = "Working"
  /\ state' = [state EXCEPT ![t] = "Canceled"]
  /\ Record(t)
  /\ UNCHANGED <<life, event>>

(* Nothing is at work any more; what has not ended, as far as the record   *)
(* goes, may be asked for again.                                           *)
Restart ==
  /\ life' = [t \in Tasks |-> IF life[t] = "unborn" THEN "unborn" ELSE "over"]
  /\ state' \in [Tasks -> {"Absent", "Working"}]
  /\ \A t \in Tasks : life[t] = "unborn" \/ ended[t] => state'[t] = "Absent"
  /\ UNCHANGED <<event, ended>>

Next ==
  \/ \E t \in Tasks :
       Create(t) \/ Begin(t) \/ Abandon(t) \/ Report(t) \/ Cancel(t)
       \/ \E verdict \in {"Completed", "Failed"} : Judge(t, verdict)
  \/ Restart

Spec == Init /\ [][Next]_lifeVars
=============================================================================
