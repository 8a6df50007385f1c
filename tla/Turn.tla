-------------------------------- MODULE Turn --------------------------------
(* What a turn of the agent promises about the tool calls of the model: it *)
(* performs the calls of one answer before it asks again, never two at a   *)
(* time, and nothing is performed once the turn is over.                   *)
CONSTANT Calls

VARIABLES
  phase,   \* "asking" the model, "acting" on its calls, or "over"
  open,    \* the calls of the last answer that have no result yet
  running  \* the call being performed

vars == <<phase, open, running>>

Init ==
  /\ phase = "asking"
  /\ open = {}
  /\ running = {}

Answered(S) ==
  /\ phase = "asking"
  /\ phase' = "acting"
  /\ open' = S
  /\ UNCHANGED running

Perform(c) ==
  /\ phase = "acting"
  /\ c \in open
  /\ running = {}
  /\ running' = {c}
  /\ UNCHANGED <<phase, open>>

(* A call that was refused gets its result without being performed.        *)
Result(c) ==
  /\ phase = "acting"
  /\ c \in open
  /\ running \subseteq {c}
  /\ open' = open \ {c}
  /\ running' = {}
  /\ UNCHANGED phase

Interrupt ==
  /\ phase = "acting"
  /\ running' = {}
  /\ UNCHANGED <<phase, open>>

AskAgain ==
  /\ phase = "acting"
  /\ open = {}
  /\ phase' = "asking"
  /\ UNCHANGED <<open, running>>

Stop ==
  /\ phase # "over"
  /\ running = {}
  /\ phase' = "over"
  /\ open' = {}
  /\ UNCHANGED running

Next ==
  \/ \E S \in (SUBSET Calls) \ {{}} : Answered(S)
  \/ \E c \in Calls : Perform(c) \/ Result(c)
  \/ Interrupt
  \/ AskAgain
  \/ Stop

Spec == Init /\ [][Next]_vars
=============================================================================
