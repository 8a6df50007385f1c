------------------------------ MODULE Mailbox ------------------------------
(* What the user can count on for the messages typed while a turn runs:    *)
(* each waits in the queue of one session, is taken by a turn of that      *)
(* session with all that waits there, and is given to no second turn, not  *)
(* even across a restart; the user may take a queue back, and a restart or *)
(* the end of a turn may empty it.                                         *)
CONSTANTS Sessions, Turns, Messages

VARIABLES
  queue,  \* the messages that wait in each session
  given   \* the turn that has each message, with its session

mailVars == <<queue, given>>

Init ==
  /\ queue = [s \in Sessions |-> {}]
  /\ given = [m \in Messages |-> {}]

(* Messages nobody has and that wait nowhere: not typed yet, being edited, *)
(* or lost.                                                                *)
Free == {m \in Messages : given[m] = {} /\ \A s \in Sessions : m \notin queue[s]}

Give(M, t, s) == given' = [m \in Messages |-> IF m \in M THEN {<<t, s>>} ELSE given[m]]

Put(M, s) ==
  /\ M \subseteq Free
  /\ queue' = [queue EXCEPT ![s] = @ \cup M]
  /\ UNCHANGED given

Empty(s) ==
  /\ queue' = [queue EXCEPT ![s] = {}]
  /\ UNCHANGED given

Take(t, s) ==
  /\ \A m \in queue[s] : given[m] = {}
  /\ Give(queue[s], t, s)
  /\ queue' = [queue EXCEPT ![s] = {}]

(* What was being edited is the prompt of a turn.                          *)
Prompt(t, s) ==
  /\ \E M \in SUBSET Free : Give(M, t, s)
  /\ UNCHANGED queue

Restart ==
  /\ queue' = [s \in Sessions |-> {}]
  /\ UNCHANGED given

Next ==
  \/ \E s \in Sessions :
       \/ \E M \in SUBSET Messages : Put(M, s)
       \/ Empty(s)
       \/ \E t \in Turns : Take(t, s) \/ Prompt(t, s)
  \/ Restart

Spec == Init /\ [][Next]_mailVars
=============================================================================
