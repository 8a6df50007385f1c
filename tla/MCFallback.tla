----------------------------- MODULE MCFallback -----------------------------
(* FallbackProvider with the history its comments speak of: whether the    *)
(* index moved between the two loads of a request, whether two promotes    *)
(* have overlapped, and what users were last told.                         *)
EXTENDS FallbackProvider

VARIABLES
  moved,    \* for each request, whether the index moved between its loads
  crossed,  \* the last swap came before the event of another was recorded
  told      \* the provider named by the last event that was collected

history == <<moved, crossed, told>>

MCInit ==
  /\ Init
  /\ moved = [t \in Turns |-> FALSE]
  /\ crossed = FALSE
  /\ told = active

Recording(t) == turn[t].at = "record"

MCNext ==
  /\ Next
  /\ moved' = [t \in Turns |->
       IF turn'[t].at = "load_active"
         THEN turn[t].at = "load_active" /\ (moved[t] \/ active' # active)
         ELSE moved[t] /\ turn'[t].at \in {"try_active", "try_next", "failed"}]
  /\ crossed' = IF active' # active THEN \E t \in Turns : Recording(t) ELSE crossed
  /\ told' = IF pending # NoEvent /\ pending' = NoEvent THEN pending.to ELSE told

MCSpec ==
  /\ MCInit
  /\ [][MCNext]_<<vars, history>>
  /\ \A t \in Turns : WF_vars(TurnStep(t))

-----------------------------------------------------------------------------
(* "The next provider in the chain is tried": a request that gives up has  *)
(* asked every provider from the one that was active when it began to the  *)
(* last, whatever other turns do to the chain meanwhile.  Only that first  *)
(* one may be left out, when the index moved between the two loads.        *)
ErrorMeansExhausted ==
  \A t \in Turns :
    turn[t].at = "failed" =>
      /\ (turn[t].start + 1) .. Fallbacks \subseteq turn[t].tried
      /\ turn[t].start \in turn[t].tried \/ moved[t]

(* "So the user sees which provider/model is now active": the last word on *)
(* the chain, still in the one slot or told to whoever collected it, names *)
(* the active provider, whichever turn made the swap and however its own   *)
(* stream ended; but for promotes that overlapped, whose events may be     *)
(* recorded in the other order than their swaps.                           *)
LastWordNamesActive ==
  ~crossed /\ (\A t \in Turns : ~Recording(t)) =>
    active = (IF pending # NoEvent THEN pending.to ELSE told)
=============================================================================
