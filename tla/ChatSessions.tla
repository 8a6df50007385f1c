---------------------------- MODULE ChatSessions ----------------------------
(* The sessions of the terminal interface (tui/app/): the user types,      *)
(* queues, cancels and switches between sessions while turns of the agent  *)
(* run in tasks of their own and report through one channel of events.     *)
(* What the process loses in a crash or an exec() restart is taken up from *)
(* the table of pending requests (cli/ui.rs).                              *)
EXTENDS Naturals, Sequences, FiniteSets

CONSTANTS
  Sessions,    \* sessions of the user
  Turns,       \* identities of turns, taken in any order
  Messages,    \* messages typed while a turn runs
  NoTurn,      \* no token, no handle
  MaxRestarts, \* crashes and exec() restarts
  MaxEffort    \* turns, panics and failed statements together

ASSUME NoTurnAssumption == NoTurn \notin Turns
ASSUME MaxRestartsAssumption == MaxRestarts \in Nat
ASSUME MaxEffortAssumption == MaxEffort \in Nat

VARIABLES
  boot,        \* "up", "down", or a step of the way up
  wake,        \* resume_session_id was given: the restart was an exec()
  resumable,   \* sessions whose interrupted request is still to be resumed
  restarts,
  current,     \* current_session
  spinner,     \* is_processing
  token,       \* cancel_token
  handle,      \* task_abort_handle
  processing,  \* processing_sessions
  stash,       \* session_cancel_tokens
  sidecar,     \* background_sessions: whether there is one, and its is_processing
  queue,       \* queued_messages
  draft,       \* messages moved back to the input buffer
  taken,       \* the turn a message was given to
  events,      \* the channel of TuiEvents
  at,          \* what each turn is doing
  home,        \* the session of each turn
  stopped,     \* turns whose token was cancelled
  watched,     \* turns whose task has a watcher for panics
  rows,        \* pending_requests
  kept,        \* requests whose delete has failed
  faults       \* panics and failed statements

bootVars == <<boot, wake, resumable, restarts>>
uiVars == <<current, spinner, token, handle, processing, stash, sidecar>>
textVars == <<queue, draft, taken>>
turnVars == <<at, home, stopped, watched>>
tableVars == <<rows, kept, faults>>
vars == <<bootVars, uiVars, textVars, events, turnVars, tableVars>>

Working == {"running", "unlisted"}
Alive == {"starting", "leaving"} \cup Working
NoStash == [s \in Sessions |-> NoTurn]

Init ==
  /\ boot = "up"
  /\ wake = FALSE
  /\ resumable = {}
  /\ restarts = 0
  /\ current \in Sessions
  /\ spinner = FALSE
  /\ token = NoTurn
  /\ handle = NoTurn
  /\ processing = {}
  /\ stash = NoStash
  /\ sidecar = [s \in Sessions |-> "none"]
  /\ queue = [s \in Sessions |-> {}]
  /\ draft = {}
  /\ taken = [m \in Messages |-> NoTurn]
  /\ events = <<>>
  /\ at = [t \in Turns |-> "unused"]
  /\ home \in [Turns -> {current}]
  /\ stopped = {}
  /\ watched = {}
  /\ rows = {}
  /\ kept = {}
  /\ faults = 0

Emit(kind, t) == events' = Append(events, [kind |-> kind, turn |-> t])

(* The bound that turns and faults share.                                  *)
Effort == Cardinality({t \in Turns : at[t] # "unused"}) + faults

Fault ==
  /\ Effort < MaxEffort
  /\ faults' = faults + 1

(* A turn begins in session s; its task has not run yet.                   *)
Begin(t, s) ==
  /\ Effort < MaxEffort
  /\ at[t] = "unused"
  /\ at' = [at EXCEPT ![t] = "starting"]
  /\ home' = [home EXCEPT ![t] = s]

-----------------------------------------------------------------------------
(* The user.                                                               *)

(* A message to an idle session becomes the prompt of a turn, and a second *)
(* task waits for the task of the turn.                                    *)
Send(t) ==
  /\ boot = "up"
  /\ current \notin processing
  /\ Begin(t, current)
  /\ processing' = processing \cup {current}
  /\ spinner' = TRUE
  /\ token' = t
  /\ handle' = t
  /\ watched' = watched \cup {t}
  /\ taken' = [m \in Messages |-> IF m \in draft THEN t ELSE taken[m]]
  /\ draft' = {}
  /\ UNCHANGED <<bootVars, current, stash, sidecar, queue, events, stopped, tableVars>>

Unsent == {m \in Messages : taken[m] = NoTurn /\ \A s \in Sessions : m \notin queue[s]}

(* A message to a session at work joins its queue; what the input buffer   *)
(* holds is sent as one.                                                   *)
Enqueue(M) ==
  /\ boot = "up"
  /\ current \in processing
  /\ M # {} /\ M \subseteq Unsent
  /\ IF draft = {} THEN Cardinality(M) = 1 ELSE M = draft
  /\ queue' = [queue EXCEPT ![current] = @ \cup M]
  /\ draft' = {}
  /\ UNCHANGED <<bootVars, uiVars, taken, events, turnVars, tableVars>>

(* Arrow up: the queue goes back into the input buffer.                    *)
Dequeue ==
  /\ boot = "up"
  /\ queue[current] # {}
  /\ draft' = queue[current]
  /\ queue' = [queue EXCEPT ![current] = {}]
  /\ UNCHANGED <<bootVars, uiVars, taken, events, turnVars, tableVars>>

(* An aborted task is dropped at its next await.  The database finishes    *)
(* the statement it has begun.                                             *)
Abort(t) ==
  IF t \in Turns /\ at[t] \in {"starting"} \cup Working
  THEN /\ at' = [at EXCEPT ![t] = "dead"]
       /\ \/ UNCHANGED rows
          \/ at[t] = "starting" /\ rows' = rows \cup {t}
          \/ at[t] = "running" /\ rows' = rows \ {t}
  ELSE UNCHANGED <<at, rows>>

(* Mutation: Escape takes it that there are tokens to cancel.              *)
Escape_Unwrap ==
  /\ boot = "up"
  /\ spinner
  /\ stopped' = stopped \cup {token, stash[current]}
  /\ Abort(handle)
  /\ handle' = NoTurn
  /\ token' = NoTurn
  /\ stash' = [stash EXCEPT ![current] = NoTurn]
  /\ processing' = processing \ {current}
  /\ spinner' = FALSE
  /\ queue' = [queue EXCEPT ![current] = {}]
  /\ UNCHANGED <<bootVars, current, sidecar, draft, taken, events, home, watched, kept, faults>>

(* Escape twice.                                                           *)
Escape ==
  /\ boot = "up"
  /\ spinner
  /\ stopped' = stopped \cup ({token, stash[current]} \ {NoTurn})
  /\ Abort(handle)
  /\ handle' = NoTurn
  /\ token' = NoTurn
  /\ stash' = [stash EXCEPT ![current] = NoTurn]
  /\ processing' = processing \ {current}
  /\ spinner' = FALSE
  /\ queue' = [queue EXCEPT ![current] = {}]
  /\ UNCHANGED <<bootVars, current, sidecar, draft, taken, events, home, watched, kept, faults>>

(* load_session: the token of the old session is stashed while it works,   *)
(* its live state goes to the sidecar, unless nothing of it is visible,    *)
(* and a sidecar of the new one overrides is_processing.                   *)
Stashed(busy) ==
  [stash EXCEPT ![current] = IF token # NoTurn /\ current \in busy THEN token ELSE @]

LiveState == IF spinner THEN {"on"} ELSE {"none", "off"}

Demoted(left) == [sidecar EXCEPT ![current] = left]

Promoted(there, busy) == IF there = "none" THEN busy ELSE there = "on"

Load(s, busy) ==
  \E left \in LiveState :
    /\ sidecar' = [Demoted(left) EXCEPT ![s] = "none"]
    /\ spinner' = Promoted(Demoted(left)[s], s \in busy)
    /\ current' = s
    /\ token' = NoTurn

SwitchTo(s) ==
  /\ boot = "up"
  /\ s # current
  /\ stash' = Stashed(processing)
  /\ Load(s, processing)
  /\ UNCHANGED <<bootVars, handle, processing, textVars, events, turnVars, tableVars>>

(* Ctrl+N: a session nothing has happened in.  Neither the token nor the   *)
(* live state of the old one is put aside.                                 *)
NewSession(s) ==
  /\ boot = "up"
  /\ s # current
  /\ s \notin processing /\ \A t \in Turns : at[t] # "unused" => home[t] # s
  /\ current' = s
  /\ spinner' = FALSE
  /\ UNCHANGED <<bootVars, token, handle, processing, stash, sidecar, textVars,
                 events, turnVars, tableVars>>

-----------------------------------------------------------------------------
(* The task of a turn.                                                     *)

(* A failed insert is logged, and the turn runs without a row.             *)
InsertRow(t) ==
  /\ at[t] = "starting"
  /\ \/ /\ at' = [at EXCEPT ![t] = "running"]
        /\ rows' = rows \cup {t}
        /\ UNCHANGED faults
     \/ /\ Fault
        /\ at' = [at EXCEPT ![t] = "unlisted"]
        /\ UNCHANGED rows
  /\ UNCHANGED <<bootVars, uiVars, textVars, events, home, stopped, watched, kept>>

(* Mutation: the queue keeps what was read from it.                        *)
DrainQueue_Keep(t) ==
  /\ at[t] \in Working
  /\ queue[home[t]] # {}
  /\ taken' = [m \in Messages |-> IF m \in queue[home[t]] THEN t ELSE taken[m]]
  /\ Emit("drained", t)
  /\ UNCHANGED <<bootVars, uiVars, queue, draft, turnVars, tableVars>>

(* Mutation: one queue for all sessions.                                   *)
DrainQueue_Any(t) ==
  /\ at[t] \in Working
  /\ \E s \in Sessions :
       /\ queue[s] # {}
       /\ taken' = [m \in Messages |-> IF m \in queue[s] THEN t ELSE taken[m]]
       /\ queue' = [queue EXCEPT ![s] = {}]
  /\ Emit("drained", t)
  /\ UNCHANGED <<bootVars, uiVars, draft, turnVars, tableVars>>

(* The message queue callback takes the whole queue of the session, under  *)
(* its lock, and the interface is told.                                    *)
DrainQueue(t) ==
  /\ at[t] \in Working
  /\ queue[home[t]] # {}
  /\ taken' = [m \in Messages |-> IF m \in queue[home[t]] THEN t ELSE taken[m]]
  /\ queue' = [queue EXCEPT ![home[t]] = {}]
  /\ Emit("drained", t)
  /\ UNCHANGED <<bootVars, uiVars, draft, turnVars, tableVars>>

(* A failed delete is logged, and the turn reports all the same.           *)
DeleteRow(t) ==
  /\ at[t] \in Working
  /\ at' = [at EXCEPT ![t] = "leaving"]
  /\ \/ rows' = rows \ {t} /\ UNCHANGED <<kept, faults>>
     \/ Fault /\ kept' = kept \cup {t} /\ UNCHANGED rows
  /\ UNCHANGED <<bootVars, uiVars, textVars, events, home, stopped, watched>>

Report(t) ==
  /\ at[t] = "leaving"
  /\ at' = [at EXCEPT ![t] = "reported"]
  /\ \/ Emit("complete", t)
     \/ t \notin stopped /\ Emit("error", t)
     \/ t \in stopped /\ Emit("cancelled", t)
  /\ UNCHANGED <<bootVars, uiVars, textVars, home, stopped, watched, tableVars>>

(* A panic ends the task where it is.  The watcher of a message that was   *)
(* sent reports it; a turn that was resumed or woken has none.             *)
Panic(t) ==
  /\ at[t] \in Alive
  /\ Fault
  /\ at' = [at EXCEPT ![t] = "dead"]
  /\ IF t \in watched THEN Emit("error", t) ELSE UNCHANGED events
  /\ UNCHANGED <<bootVars, uiVars, textVars, home, stopped, watched, rows, kept>>

-----------------------------------------------------------------------------
(* The event loop.                                                         *)

Next1 == Head(events)
Of == home[Next1.turn]

Received(kind) ==
  /\ boot = "up"
  /\ events # <<>>
  /\ Next1.kind = kind
  /\ events' = Tail(events)

(* complete_response, for the session on the screen.                       *)
OnComplete ==
  /\ Received("complete")
  /\ Of = current /\ spinner
  /\ processing' = processing \ {current}
  /\ stash' = [stash EXCEPT ![current] = NoTurn]
  /\ spinner' = FALSE
  /\ token' = NoTurn
  /\ handle' = NoTurn
  /\ queue' = [queue EXCEPT ![current] = {}]
  /\ UNCHANGED <<bootVars, current, sidecar, draft, taken, turnVars, tableVars>>

(* The turn was cancelled meanwhile: the session is loaded again.          *)
OnCompleteAfterCancel ==
  /\ Received("complete")
  /\ Of = current /\ ~spinner
  /\ stash' = Stashed(processing)
  /\ Load(current, processing)
  /\ UNCHANGED <<bootVars, handle, processing, textVars, turnVars, tableVars>>

OnCompleteBehind ==
  /\ Received("complete")
  /\ Of # current
  /\ processing' = processing \ {Of}
  /\ stash' = [stash EXCEPT ![Of] = NoTurn]
  /\ sidecar' = [sidecar EXCEPT ![Of] = "none"]
  /\ UNCHANGED <<bootVars, current, spinner, token, handle, textVars, turnVars, tableVars>>

(* Mutation: an error leaves the stashed token of its session.             *)
OnError_KeepStash ==
  /\ Received("error") \/ Received("cancelled")
  /\ processing' = processing \ {Of}
  /\ IF Of = current /\ Next1.kind = "error"
     THEN /\ sidecar' = [sidecar EXCEPT ![current] = "none"]
          /\ spinner' = FALSE
          /\ token' = NoTurn
          /\ handle' = NoTurn
     ELSE UNCHANGED <<sidecar, spinner, token, handle>>
  /\ UNCHANGED <<bootVars, current, stash, textVars, turnVars, tableVars>>

(* An error is shown after a reload, a cancellation leaves the screen, and *)
(* behind it nothing else is touched.                                      *)
OnError ==
  /\ Received("error") \/ Received("cancelled")
  /\ processing' = processing \ {Of}
  /\ stash' = [stash EXCEPT ![Of] = NoTurn]
  /\ IF Of = current /\ Next1.kind = "error"
     THEN /\ sidecar' = [sidecar EXCEPT ![current] = "none"]
          /\ spinner' = FALSE
          /\ token' = NoTurn
          /\ handle' = NoTurn
     ELSE UNCHANGED <<sidecar, spinner, token, handle>>
  /\ UNCHANGED <<bootVars, current, textVars, turnVars, tableVars>>

(* An event of a session that is not on the screen gets it a sidecar.      *)
Lazily(s) == [sidecar EXCEPT ![s] = IF s # current /\ @ = "none" THEN "off" ELSE @]

(* Chunks, calls and notices of a turn, until its report is handled.       *)
OnChunk(t) ==
  /\ boot = "up"
  /\ \/ at[t] \in Working \cup {"leaving"}
     \/ at[t] \in {"reported", "dead"} /\ \E i \in DOMAIN events : events[i].turn = t
  /\ sidecar' = Lazily(home[t])
  /\ UNCHANGED <<bootVars, current, spinner, token, handle, processing, stash,
                 textVars, events, turnVars, tableVars>>

OnDrained ==
  /\ Received("drained")
  /\ sidecar' = Lazily(Of)
  /\ IF Of = current
     THEN /\ queue' = [queue EXCEPT ![current] = {}]
          /\ draft' = {}
     ELSE UNCHANGED <<queue, draft>>
  /\ UNCHANGED <<bootVars, current, spinner, token, handle, processing, stash,
                 taken, turnVars, tableVars>>

(* A request was resumed at startup: its token is wired to the session.    *)
OnResumed ==
  /\ Received("resumed")
  /\ processing' = processing \cup {Of}
  /\ IF Of = current
     THEN spinner' = TRUE /\ token' = Next1.turn /\ UNCHANGED stash
     ELSE stash' = [stash EXCEPT ![Of] = Next1.turn] /\ UNCHANGED <<spinner, token>>
  /\ UNCHANGED <<bootVars, current, handle, sidecar, textVars, turnVars, tableVars>>

-----------------------------------------------------------------------------
(* Restarts.                                                               *)

(* The process is gone: it crashes, or replaces itself by the program a    *)
(* turn has rebuilt.  The tables and the last session remain.              *)
Restart(exec) ==
  /\ restarts < MaxRestarts
  /\ exec => boot = "up" /\ \E t \in Turns : at[t] \in Working
  /\ restarts' = restarts + 1
  /\ boot' = "down"
  /\ wake' = exec
  /\ resumable' = {}
  /\ spinner' = FALSE
  /\ token' = NoTurn
  /\ handle' = NoTurn
  /\ processing' = {}
  /\ stash' = NoStash
  /\ sidecar' = [s \in Sessions |-> "none"]
  /\ queue' = [s \in Sessions |-> {}]
  /\ draft' = {}
  /\ events' = <<>>
  /\ at' = [t \in Turns |-> IF at[t] \in Alive THEN "dead" ELSE at[t]]
  /\ stopped' = {}
  /\ watched' = {}
  /\ UNCHANGED <<current, taken, home, tableVars>>

(* get_interrupted deletes the requests that began long ago and returns    *)
(* the others, or fails and none is resumed.                               *)
ReadRows ==
  /\ boot = "down"
  /\ rows' \in SUBSET rows
  /\ \/ /\ resumable' = {home[t] : t \in rows'}
        /\ boot' = IF rows' = {} THEN "ready" ELSE "read"
        /\ UNCHANGED faults
     \/ /\ Fault
        /\ boot' = "ready"
        /\ UNCHANGED resumable
  /\ UNCHANGED <<wake, restarts, uiVars, textVars, events, turnVars, kept>>

(* Mutation: the table is cleared when all requests have been resumed.     *)
ClearRows_Late ==
  /\ boot \in {"read", "resuming"}
  /\ boot = "resuming" => resumable = {}
  /\ boot' = IF boot = "read" THEN "resuming" ELSE "ready"
  /\ rows' = IF boot = "read" THEN rows ELSE {}
  /\ UNCHANGED <<wake, resumable, restarts, uiVars, textVars, events, turnVars, kept, faults>>

(* Nobody looks whether clear_all has failed.                              *)
ClearRows ==
  /\ boot = "read"
  /\ boot' = "resuming"
  /\ \/ rows' = {} /\ UNCHANGED faults
     \/ Fault /\ UNCHANGED rows
  /\ UNCHANGED <<wake, resumable, restarts, uiVars, textVars, events, turnVars, kept>>

Resume(t, s) ==
  /\ boot = "resuming"
  /\ s \in resumable
  /\ Begin(t, s)
  /\ resumable' = resumable \ {s}
  /\ Emit("resumed", t)
  /\ UNCHANGED <<boot, wake, restarts, uiVars, textVars, stopped, watched, tableVars>>

(* The last session is loaded.                                             *)
Initialize ==
  /\ boot \in {"resuming", "ready"}
  /\ resumable = {}
  /\ ~wake
  /\ boot' = "up"
  /\ UNCHANGED <<wake, resumable, restarts, uiVars, textVars, events, turnVars, tableVars>>

(* After an exec() the session that asked for it is woken by a new turn.   *)
InitializeAwake(t) ==
  /\ boot \in {"resuming", "ready"}
  /\ resumable = {}
  /\ wake
  /\ boot' = "up"
  /\ Begin(t, current)
  /\ processing' = processing \cup {current}
  /\ spinner' = TRUE
  /\ token' = t
  /\ UNCHANGED <<wake, resumable, restarts, current, handle, stash, sidecar, textVars,
                 events, stopped, watched, tableVars>>

-----------------------------------------------------------------------------
TurnStep(t) == InsertRow(t) \/ DrainQueue(t) \/ DeleteRow(t) \/ Report(t) \/ Panic(t)

OnEvent ==
  \/ OnComplete
  \/ OnCompleteAfterCancel
  \/ OnCompleteBehind
  \/ OnError
  \/ \E t \in Turns : OnChunk(t)
  \/ OnDrained
  \/ OnResumed

UserStep ==
  \/ \E t \in Turns : Send(t)
  \/ \E M \in SUBSET Messages : Enqueue(M)
  \/ Dequeue
  \/ Escape
  \/ \E s \in Sessions : SwitchTo(s) \/ NewSession(s)

RestartStep ==
  \/ \E exec \in BOOLEAN : Restart(exec)
  \/ ReadRows
  \/ ClearRows
  \/ \E t \in Turns, s \in Sessions : Resume(t, s)
  \/ Initialize
  \/ \E t \in Turns : InitializeAwake(t)

Next ==
  \/ UserStep
  \/ \E t \in Turns : TurnStep(t)
  \/ OnEvent
  \/ RestartStep

Spec == Init /\ [][Next]_vars

-----------------------------------------------------------------------------
Kinds == {"drained", "complete", "error", "cancelled", "resumed"}

TypeOK ==
  /\ boot \in {"up", "down", "read", "resuming", "ready"}
  /\ wake \in BOOLEAN
  /\ resumable \subseteq Sessions
  /\ restarts \in 0 .. MaxRestarts
  /\ current \in Sessions
  /\ spinner \in BOOLEAN
  /\ token \in Turns \cup {NoTurn}
  /\ handle \in Turns \cup {NoTurn}
  /\ processing \subseteq Sessions
  /\ stash \in [Sessions -> Turns \cup {NoTurn}]
  /\ sidecar \in [Sessions -> {"none", "on", "off"}]
  /\ queue \in [Sessions -> SUBSET Messages]
  /\ draft \subseteq Messages
  /\ taken \in [Messages -> Turns \cup {NoTurn}]
  /\ events \in Seq([kind : Kinds, turn : Turns])
  /\ at \in [Turns -> Alive \cup {"unused", "reported", "dead"}]
  /\ home \in [Turns -> Sessions]
  /\ stopped \subseteq Turns
  /\ watched \subseteq Turns
  /\ rows \subseteq Turns
  /\ kept \subseteq Turns
  /\ faults \in Nat

(* A turn that did not come to its end in order: its task was cut off by a *)
(* panic, by Escape or with its process, or could not write its row.       *)
CutOff(t) == at[t] = "dead" \/ t \in kept

(* A turn at work has its row in pending_requests, whatever happens while  *)
(* the requests of an earlier process are read, cleared and resumed: a     *)
(* crash now would find it.  A row is of a turn at work or of one that was *)
(* cut off, and no session is resumed but for one that was: a request that *)
(* was answered is never taken for an interrupted one.  A row whose insert *)
(* failed is missing, and one whose delete failed is left.                 *)
RowsFollowTurns ==
  /\ \A t \in Turns : at[t] = "running" => t \in rows
  /\ \A t \in rows : at[t] = "running" \/ CutOff(t)
  /\ \A s \in resumable : \E t \in Turns : home[t] = s /\ CutOff(t)

(* A follow-up is in one place: it is not queued or back in the input      *)
(* buffer once a turn has it, and in no two queues ("appearing as a        *)
(* duplicate in chat").                                                    *)
HeldOnce ==
  \A m \in Messages :
    /\ \A s \in Sessions : m \in queue[s] =>
         /\ m \notin draft /\ taken[m] = NoTurn
         /\ \A r \in Sessions : m \in queue[r] => r = s
    /\ m \in draft => taken[m] = NoTurn

(* A follow-up queued in one session is never given to a turn of another.  *)
TakenAtHome ==
  [][\A m \in Messages, s \in Sessions :
       m \in queue[s] /\ taken'[m] # taken[m] => home'[taken'[m]] = s]_vars

(* Escape cancels through the token of the session on the screen, and the  *)
(* stash of a session holds a token of its own, only while it is at work.  *)
TokensAtHome ==
  /\ spinner /\ token # NoTurn => home[token] = current
  /\ \A s \in Sessions : stash[s] # NoTurn => home[stash[s]] = s /\ s \in processing

-----------------------------------------------------------------------------
(* What the comments say and the code does not keep.                       *)

(* state.rs: "Sessions currently processing (have in-flight agent tasks)". *)
(* Until its report is handled, a session at work has a turn.              *)
ProcessingHasTask ==
  \A s \in processing :
    \/ \E t \in Turns : home[t] = s /\ at[t] \in Alive
    \/ \E i \in DOMAIN events : home[events[i].turn] = s
=============================================================================
