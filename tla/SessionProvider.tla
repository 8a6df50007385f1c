-------------------------- MODULE SessionProvider ---------------------------
(***************************************************************************)
(* The provider each session is pinned to (src/brain/agent/service):       *)
(* builder.rs keeps the pins, and five arms of tool_loop.rs borrow or      *)
(* replace the pin of a session to rescue a request its provider has       *)
(* failed.  Meanwhile the interface restores pins when a session is        *)
(* shown, handles the switches that turns announce, and replaces the whole *)
(* service when the user picks a provider; turns at work stay with the     *)
(* service they began in.                                                  *)
(*                                                                         *)
(* A turn awaits the first try of a request, the retries and the rescues,  *)
(* and may be dropped at each of these awaits.  A provider that is pinned  *)
(* is wrapped in a chain with the fallbacks (FallbackProvider); the pin    *)
(* stands for the provider its chain is at, and remembers whether a turn   *)
(* has still to announce that the chain has moved.  Two services do not    *)
(* share the chain of a pin that was copied.                               *)
(***************************************************************************)
EXTENDS Naturals, Sequences

CONSTANTS
  Sessions,
  Providers,
  Fallbacks,     \* the configured fallback providers
  First,         \* the provider of the configuration at the start
  None,
  Threshold,     \* STICKY_FALLBACK_THRESHOLD
  MaxRebuilds,   \* bound: providers picked by the user
  MaxTries       \* bound: first tries of requests

ASSUME ProviderAssumption ==
  /\ Fallbacks \subseteq Providers /\ First \in Providers
  /\ None \notin Providers /\ None \notin Nat /\ None \notin Sessions
  /\ Providers \cap Nat = {}
  /\ Threshold \in Nat /\ MaxRebuilds \in Nat /\ MaxTries \in Nat

VARIABLES
  current,   \* the service the interface uses
  primary,   \* the provider each service is configured with
  global,    \* where the default chain of each service is
  moved,     \* whether that chain has a swap event nobody has taken
  pin,       \* session_providers of each service
  streak,    \* session_primary_failure_streak of each service
  turn,      \* the turn of each session
  announced, \* ProviderSwitched events the interface has not handled
  row,       \* the provider in the row of each session
  ui,        \* the statement of the interface that is under way
  tries

turns == <<turn, tries>>
services == <<current, primary, global, moved>>
screen == <<row, ui, announced>>
vars == <<turns, services, screen, pin, streak>>

Services == 0..MaxRebuilds

(* Who has set a pin is history: a lent pin is the one a guard is to take  *)
(* back, and names the service of that guard.  A pin to the default chain  *)
(* of a service is the number of that service.                             *)
Pins == [to : Providers \cup Services \cup {None}, lender : Services \cup {None}, moved : BOOLEAN]
Own(p) == [to |-> p, lender |-> None, moved |-> FALSE]
Lent(p, v) == [to |-> p, lender |-> v, moved |-> FALSE]

(* The errors of a request, each with an arm of its own.                   *)
Arms == {"quota", "stream", "server", "other", "silent"}

ASSUME NoneAssumption == None \notin Arms \cup Pins

(* provider_for_session.                                                   *)
Chain(v, s) == IF pin[v][s].to = None THEN v ELSE pin[v][s].to
Serving(v, s) == IF Chain(v, s) \in Services THEN global[Chain(v, s)] ELSE Chain(v, s)

(* left: the candidates of a rescue that are not asked yet; chain: the     *)
(* fallbacks the chain of the request may still move on to, the provider   *)
(* it is at having refused or not.                                         *)
Idle == [at |-> "idle", svc |-> 0, arm |-> None, fallback |-> None, left |-> {}, guard |-> None,
         chain |-> {}, refused |-> FALSE]
UiIdle == [at |-> "idle", session |-> None, to |-> None]

Init ==
  /\ current = 0
  /\ primary = [v \in Services |-> First]
  /\ global = [v \in Services |-> First]
  /\ moved = [v \in Services |-> FALSE]
  /\ pin = [v \in Services |-> [s \in Sessions |-> Own(None)]]
  /\ streak = [v \in Services |-> [s \in Sessions |-> 0]]
  /\ turn = [s \in Sessions |-> Idle]
  /\ announced = << >>
  /\ row = [s \in Sessions |-> First]
  /\ ui = UiIdle
  /\ tries = 0

-----------------------------------------------------------------------------
(* A turn.                                                                 *)

SetPin(v, s, p) == pin' = [pin EXCEPT ![v][s] = p]
Switch(s, p) == <<[session |-> s, to |-> p]>>

(* FallbackProvider::promote, in the chain that serves the session.        *)
MoveOn(v, s, p) ==
  LET c == Chain(v, s)
  IN  IF Serving(v, s) = p
      THEN UNCHANGED <<global, moved, pin>>
      ELSE IF c \in Services
      THEN global' = [global EXCEPT ![c] = p] /\ moved' = [moved EXCEPT ![c] = TRUE] /\ UNCHANGED pin
      ELSE SetPin(v, s, [pin[v][s] EXCEPT !.to = p, !.moved = TRUE]) /\ UNCHANGED <<global, moved>>

(* The pin is x when the answer is there, after the switches said: the     *)
(* event of its chain is taken and announced as well.                      *)
TakeSwapEvent(v, s, x, said) ==
  LET c == IF x.to = None THEN v ELSE x.to
  IN  /\ SetPin(v, s, [x EXCEPT !.moved = FALSE])
      /\ IF c \in Services
         THEN /\ moved' = [moved EXCEPT ![c] = FALSE]
              /\ announced' = announced \o said \o (IF moved[c] THEN Switch(s, global[c]) ELSE << >>)
         ELSE /\ UNCHANGED moved
              /\ announced' = announced \o said \o (IF x.moved THEN Switch(s, c) ELSE << >>)

(* The next request of the turn, or its end.                               *)
Asking(v) == [Idle EXCEPT !.at = "asking", !.svc = v]
Ask(s) ==
  /\ tries < MaxTries /\ tries' = tries + 1
  /\ turn' = [turn EXCEPT ![s] = Asking(turn[s].svc)]
End(s) ==
  /\ turn' = [turn EXCEPT ![s] = Idle]
  /\ UNCHANGED tries
GoOn(s) == Ask(s) \/ End(s)

Start(s) ==
  /\ turn[s].at = "idle"
  /\ tries < MaxTries /\ tries' = tries + 1
  /\ turn' = [turn EXCEPT ![s] = Asking(current)]
  /\ UNCHANGED <<services, screen, pin, streak>>

(* The first try succeeds: the streak is over.                             *)
Answer(s) ==
  LET v == turn[s].svc
  IN  /\ turn[s].at = "asking"
      /\ streak' = [streak EXCEPT ![v][s] = 0]
      /\ TakeSwapEvent(v, s, pin[v][s], << >>)
      /\ GoOn(s)
      /\ UNCHANGED <<current, primary, global, row, ui>>

(* The chain of the pin has moved on to another provider, of itself, and   *)
(* that is announced.                                                      *)
AnswerSwitched(s, p) ==
  LET v == turn[s].svc
      c == Chain(v, s)
  IN  /\ turn[s].at \in {"asking", "retrying"}
      /\ p \in Fallbacks \ {Serving(v, s)}
      /\ streak' = IF turn[s].at = "asking" THEN [streak EXCEPT ![v][s] = 0] ELSE streak
      /\ IF c \in Services
         THEN /\ global' = [global EXCEPT ![c] = p] /\ moved' = [moved EXCEPT ![c] = FALSE]
              /\ UNCHANGED pin
         ELSE /\ SetPin(v, s, [pin[v][s] EXCEPT !.to = p, !.moved = FALSE])
              /\ UNCHANGED <<global, moved>>
      /\ announced' = announced \o Switch(s, p)
      /\ GoOn(s)
      /\ UNCHANGED <<current, primary, row, ui>>

(* Arms that put a guard on the pin they borrow.                           *)
Guarded == {"quota", "stream", "silent"}

(* A candidate is asked, in a new chain with the other fallbacks behind    *)
(* it.  The arm of server errors asks the session's own chain in its name; *)
(* the arm of other errors replaces the pin.                               *)
Try(s, arm, p, left, before) ==
  LET v == turn[s].svc
  IN  /\ turn' = [turn EXCEPT ![s] = [at |-> "rescue", svc |-> v, arm |-> arm, fallback |-> p, left |-> left,
                                      guard |-> IF arm \in Guarded THEN before ELSE None,
                                      chain |-> Fallbacks \ {IF arm = "server" THEN Serving(v, s) ELSE p},
                                      refused |-> FALSE]]
      /\ CASE arm \in Guarded  -> SetPin(v, s, Lent(p, v))
           [] arm = "other"    -> SetPin(v, s, Own(p))
           [] arm = "server"   -> UNCHANGED pin

(* What a guard is to put back: the pin, or the default chain it hid.      *)
Original(v, s) == [pin[v][s] EXCEPT !.to = Chain(v, s)]

(* FallbackProviderGuard is dropped while it is armed.                     *)
Restored(s) ==
  IF turn[s].guard = None THEN pin[turn[s].svc][s] ELSE turn[s].guard

(* Mutation: "the line after .await never ran": nothing is put back when   *)
(* the turn is dropped.                                                    *)
Drop_Unguarded(s) ==
  /\ turn[s].at # "idle"
  /\ turn' = [turn EXCEPT ![s] = Idle]
  /\ UNCHANGED <<services, screen, pin, streak, tries>>

(* The turn is dropped at an await.                                        *)
Drop(s) ==
  /\ turn[s].at # "idle"
  /\ SetPin(turn[s].svc, s, Restored(s))
  /\ turn' = [turn EXCEPT ![s] = Idle]
  /\ UNCHANGED <<services, screen, streak, tries>>

(* Mutation: the guard outlives the walk.                                  *)
Walk_Leaks(s, arm, left, before) ==
  /\ IF left = {}
     THEN /\ SetPin(turn[s].svc, s, Restored(s))
          /\ turn' = [turn EXCEPT ![s].at = "idle"]
     ELSE \E p \in left : Try(s, arm, p, left \ {p}, before)
  /\ UNCHANGED <<services, screen, tries>>

(* The next of the fallbacks that are left; after the last the turn ends.  *)
Walk(s, arm, left, before) ==
  /\ IF left = {}
     THEN /\ SetPin(turn[s].svc, s, Restored(s))
          /\ turn' = [turn EXCEPT ![s] = Idle]
     ELSE \E p \in left : Try(s, arm, p, left \ {p}, before)
  /\ UNCHANGED <<services, screen, tries>>

(* Limits, keys and other errors of the first try: the walk skips the      *)
(* session's provider.                                                     *)
FirstTryFails(s, arm) ==
  /\ turn[s].at = "asking" /\ arm \in {"quota", "other"}
  /\ Walk(s, arm, Fallbacks \ {Serving(turn[s].svc, s)}, Original(turn[s].svc, s))
  /\ UNCHANGED streak

(* Reasoning without an answer, after the nudges: the request itself was   *)
(* a success, and the answers before it have announced what there was.     *)
NoAnswer(s) ==
  /\ turn[s].at = "asking"
  /\ streak' = [streak EXCEPT ![turn[s].svc][s] = 0]
  /\ Walk(s, "silent", Fallbacks \ {Serving(turn[s].svc, s)}, Original(turn[s].svc, s))

(* Dropped streams and server errors are tried again first.                *)
Retry(s, arm) ==
  /\ turn[s].at = "asking" /\ arm \in {"stream", "server"}
  /\ turn' = [turn EXCEPT ![s].at = "retrying", ![s].arm = arm]
  /\ UNCHANGED <<services, screen, pin, streak, tries>>

RetrySucceeds(s) ==
  /\ turn[s].at = "retrying"
  /\ TakeSwapEvent(turn[s].svc, s, pin[turn[s].svc][s], << >>)
  /\ GoOn(s)
  /\ UNCHANGED <<current, primary, global, row, ui, streak>>

(* The walk skips the provider the service was configured with, whoever    *)
(* serves the session.                                                     *)
RetriesFail(s) ==
  /\ turn[s].at = "retrying"
  /\ Walk(s, turn[s].arm, Fallbacks \ {primary[turn[s].svc]}, Original(turn[s].svc, s))
  /\ UNCHANGED streak

(* A continuation of a truncated answer is not given to another provider.  *)
ContinuationFails(s) ==
  /\ turn[s].at = "retrying" /\ turn[s].arm = "stream"
  /\ End(s)
  /\ UNCHANGED <<services, screen, pin, streak>>

(* The rescue has an answer.  Limits and silence switch the session at     *)
(* once, streams and servers after Threshold rescues in a row, and other   *)
(* errors have switched it already, unannounced.                           *)
Sticks(s) ==
  \/ turn[s].arm \in {"quota", "silent"}
  \/ turn[s].arm \in {"stream", "server"} /\ streak[turn[s].svc][s] + 1 >= Threshold

(* The pin that stays: the candidate's chain, wherever it is.              *)
Staying(s) ==
  IF turn[s].arm = "server" THEN Own(turn[s].fallback) ELSE [pin[turn[s].svc][s] EXCEPT !.lender = None]

(* Silence is rescued after the event of the answer was taken.             *)
RescueSucceeds(s) ==
  LET v == turn[s].svc
      p == turn[s].fallback
  IN  /\ turn[s].at = "rescue" /\ ~turn[s].refused
      /\ streak' = IF turn[s].arm \in {"stream", "server"} THEN [streak EXCEPT ![v][s] = @ + 1] ELSE streak
      /\ CASE turn[s].arm = "silent" -> /\ SetPin(v, s, Staying(s))
                                         /\ announced' = announced \o Switch(s, p) /\ UNCHANGED moved
           [] turn[s].arm # "silent" /\ Sticks(s)  -> TakeSwapEvent(v, s, Staying(s), Switch(s, p))
           [] turn[s].arm # "silent" /\ ~Sticks(s) -> TakeSwapEvent(v, s, Restored(s), << >>)
      /\ GoOn(s)
      /\ UNCHANGED <<current, primary, global, row, ui>>

(* Both go down the chain of the request: a fallback opens its stream,     *)
(* which may break off yet, or refuses.                                    *)
MovesOn(s, p) ==
  /\ turn[s].at = "rescue" /\ p \in turn[s].chain
  /\ MoveOn(turn[s].svc, s, p)
  /\ turn' = [turn EXCEPT ![s].chain = {}, ![s].refused = FALSE]
  /\ UNCHANGED <<current, primary, screen, streak, tries>>

Refuses(s, p) ==
  /\ turn[s].at = "rescue" /\ p \in turn[s].chain
  /\ turn' = [turn EXCEPT ![s].chain = @ \ {p}, ![s].refused = TRUE]
  /\ UNCHANGED <<services, screen, pin, streak, tries>>

(* The guard restores the provider, and the next candidate is asked.       *)
RescueFails(s) ==
  /\ turn[s].at = "rescue" /\ (turn[s].refused => turn[s].chain = {})
  /\ Walk(s, turn[s].arm, turn[s].left, turn[s].guard)
  /\ UNCHANGED streak

-----------------------------------------------------------------------------
(* The interface: one handler at a time, each with an await in it.         *)

(* load_session: the pin is brought back to the row.                       *)
Load(s) ==
  /\ ui.at = "idle"
  /\ row[s] # Serving(current, s)
  /\ ui' = [at |-> "loading", session |-> s, to |-> row[s]]
  /\ UNCHANGED <<turns, services, announced, row, pin, streak>>

(* ProviderSwitched: the row, and then the pin of the current service.     *)
Switched ==
  /\ ui.at = "idle" /\ announced # << >>
  /\ announced' = Tail(announced)
  /\ row' = [row EXCEPT ![Head(announced).session] = Head(announced).to]
  /\ ui' = [at |-> "switching", session |-> Head(announced).session, to |-> Head(announced).to]
  /\ UNCHANGED <<turns, services, pin, streak>>

(* save_provider_settings: a new service with the pins of the old one, the *)
(* row, and then the pin.                                                  *)
Rebuild(s, p) ==
  /\ ui.at = "idle"
  /\ current < MaxRebuilds /\ current' = current + 1
  /\ primary' = [primary EXCEPT ![current + 1] = p]
  /\ global' = [global EXCEPT ![current + 1] = p] /\ UNCHANGED moved
  /\ pin' = [pin EXCEPT ![current + 1] = pin[current]]
  /\ ui' = [at |-> "picking", session |-> s, to |-> p]
  /\ UNCHANGED <<turns, announced, row, streak>>

Store ==
  /\ ui.at = "picking"
  /\ row' = [row EXCEPT ![ui.session] = ui.to]
  /\ ui' = [ui EXCEPT !.at = "picked"]
  /\ UNCHANGED <<turns, services, announced, pin, streak>>

(* The pin, unless the provider cannot be built.                           *)
Pin ==
  /\ ui.at \in {"loading", "switching", "picked"}
  /\ SetPin(current, ui.session, Own(ui.to))
  /\ ui' = UiIdle
  /\ UNCHANGED <<turns, services, announced, row, streak>>

PinFails ==
  /\ ui.at \in {"loading", "switching"}
  /\ ui' = UiIdle
  /\ UNCHANGED <<turns, services, announced, row, pin, streak>>

Next ==
  \/ \E s \in Sessions :
       \/ Start(s) \/ Answer(s) \/ NoAnswer(s)
       \/ \E p \in Fallbacks : AnswerSwitched(s, p) \/ MovesOn(s, p) \/ Refuses(s, p)
       \/ \E arm \in {"quota", "other"} : FirstTryFails(s, arm)
       \/ \E arm \in {"stream", "server"} : Retry(s, arm)
       \/ RetrySucceeds(s) \/ RetriesFail(s) \/ ContinuationFails(s)
       \/ RescueSucceeds(s) \/ RescueFails(s)
       \/ Drop(s)
  \/ \E s \in Sessions : Load(s) \/ \E p \in Providers : Rebuild(s, p)
  \/ Switched \/ Store \/ Pin \/ PinFails

Spec == Init /\ [][Next]_vars

-----------------------------------------------------------------------------
(* Every variable has its type, and an armed guard is one of a rescue.     *)
TypeOK ==
  /\ current \in Services
  /\ primary \in [Services -> Providers] /\ global \in [Services -> Providers]
  /\ moved \in [Services -> BOOLEAN]
  /\ pin \in [Services -> [Sessions -> Pins]]
  /\ streak \in [Services -> [Sessions -> 0..MaxTries]]
  /\ turn \in [Sessions -> [at : {"idle", "asking", "retrying", "rescue"}, svc : Services,
                            arm : Arms \cup {None}, fallback : Providers \cup {None},
                            left : SUBSET Fallbacks, guard : Pins \cup {None},
                            chain : SUBSET Fallbacks, refused : BOOLEAN]]
  /\ \A s \in Sessions :
       /\ turn[s].guard # None <=> turn[s].at = "rescue" /\ turn[s].arm \in Guarded
       /\ turn[s].at = "retrying" => turn[s].arm \in {"stream", "server"}
       /\ turn[s].at = "rescue" => turn[s].arm # None /\ turn[s].fallback # None
       /\ turn[s].refused => turn[s].at = "rescue"
  /\ announced \in Seq([session : Sessions, to : Providers])
  /\ row \in [Sessions -> Providers]
  /\ ui \in [at : {"idle", "loading", "switching", "picking", "picked"},
             session : Sessions \cup {None}, to : Providers \cup {None}]
  /\ ui.at # "idle" => ui.session \in Sessions /\ ui.to \in Providers
  /\ tries \in 0..MaxTries

(* "Drop runs whether the future completes, errors, or is cancelled"       *)
(* (tool_loop.rs:127): a provider that was borrowed for a rescue serves    *)
(* its session, in the service of the rescue, only while that rescue is    *)
(* under way with its guard armed.                                         *)
NoLentPinLeft ==
  \A s \in Sessions : \A v \in Services :
    pin[v][s].lender = v =>
      turn[s].at = "rescue" /\ turn[s].svc = v /\ turn[s].guard # None
=============================================================================
