----------------------- MODULE SessionProviderProofs ------------------------
(***************************************************************************)
(* Proofs about SessionProvider for any sessions, providers and bounds.    *)
(*                                                                         *)
(* NoLentPinLeft is inductive once it is known what a guard puts back: a   *)
(* pin that an older service has lent, or none at all (TurnOK).  A new     *)
(* service may start with lent pins, but only of services older than       *)
(* itself (PinOK), so none of its own guards is missing.                   *)
(***************************************************************************)
EXTENDS SessionProvider, TLAPS

Turns == [at : {"idle", "asking", "retrying", "rescue"}, svc : Services, arm : Arms \cup {None},
          fallback : Providers \cup {None}, left : SUBSET Fallbacks, guard : Pins \cup {None},
          chain : SUBSET Fallbacks, refused : BOOLEAN]
Switches == [session : Sessions, to : Providers]
Statements == [at : {"idle", "loading", "switching", "picking", "picked"},
               session : Sessions \cup {None}, to : Providers \cup {None}]

(* A guard is armed during a rescue, for a pin its service has not lent.   *)
TurnOK(t) ==
  /\ t \in Turns
  /\ t.guard # None <=> t.at = "rescue" /\ t.arm \in Guarded
  /\ t.at = "retrying" => t.arm \in {"stream", "server"}
  /\ t.at = "rescue" => t.arm # None /\ t.fallback # None
  /\ t.refused => t.at = "rescue"
  /\ t.guard # None => t.guard.lender = None \/ t.guard.lender < t.svc

(* A pin of service v that v or an older service has lent, the turn of its *)
(* session being t.                                                        *)
PinOK(v, p, t) ==
  /\ p \in Pins
  /\ p.lender # None => p.lender <= v
  /\ p.lender = v => t.at = "rescue" /\ t.svc = v /\ t.guard # None

TurnsOK ==
  /\ turn = [s \in Sessions |-> turn[s]]
  /\ \A s \in Sessions : TurnOK(turn[s])

PinsOK ==
  /\ pin \in [Services -> [Sessions -> Pins]]
  /\ \A v \in Services : \A s \in Sessions : PinOK(v, pin[v][s], turn[s])

(* A rescue needs a try of its own.                                        *)
StreaksOK ==
  /\ tries \in 0..MaxTries
  /\ streak \in [Services -> [Sessions -> 0..MaxTries]]
  /\ \A v \in Services : \A s \in Sessions :
       /\ streak[v][s] <= tries
       /\ turn[s].at # "idle" => streak[v][s] < tries

ServicesOK ==
  /\ current \in Services
  /\ primary \in [Services -> Providers] /\ global \in [Services -> Providers]
  /\ moved \in [Services -> BOOLEAN]

ScreenOK ==
  /\ announced \in Seq(Switches)
  /\ row \in [Sessions -> Providers]
  /\ ui \in Statements
  /\ ui.at # "idle" => ui.session \in Sessions /\ ui.to \in Providers

IInv == TurnsOK /\ PinsOK /\ StreaksOK /\ ServicesOK /\ ScreenOK

-----------------------------------------------------------------------------
(* A session at rest has no guard.                                         *)
LEMMA IdleIsTurn == TurnOK(Idle)
<1>1. 0 \in Services
  BY ProviderAssumption DEF Services
<1> QED
  BY <1>1, ProviderAssumption DEF TurnOK, Idle, Turns

(* At the start nothing is lent.                                           *)
LEMMA InitInv == Init => IInv
<1> SUFFICES ASSUME Init PROVE IInv
  OBVIOUS
<1>1. 0 \in Services /\ Services \subseteq Nat
  BY ProviderAssumption DEF Services
<1>2. Own(None) \in Pins /\ Own(None).lender = None
  BY DEF Own, Pins
<1>3. TurnsOK
  BY IdleIsTurn DEF Init, TurnsOK
<1>4. PinsOK
  BY <1>1, <1>2, ProviderAssumption DEF Init, PinsOK, PinOK
<1>5. StreaksOK
  BY ProviderAssumption DEF Init, StreaksOK, Idle
<1>6. ServicesOK
  BY <1>1, ProviderAssumption DEF Init, ServicesOK
<1>7. ScreenOK
  BY ProviderAssumption DEF Init, ScreenOK, UiIdle, Statements, Switches
<1> QED
  BY <1>3, <1>4, <1>5, <1>6, <1>7 DEF IInv

(* A session whose turn holds no guard has no pin lent by its own service. *)
LEMMA Unlent ==
  ASSUME IInv, NEW s \in Sessions, NEW t, turn[s].guard = None, NEW v \in Services
  PROVE  PinOK(v, pin[v][s], t)
  BY DEF IInv, PinsOK, PinOK

(* A step of the turn of session s that leaves the pins alone.             *)
LEMMA TurnAlone ==
  ASSUME IInv, NEW s \in Sessions, NEW t, TurnOK(t),
         turn[s].guard = None, turn' = [turn EXCEPT ![s] = t], pin' = pin
  PROVE  TurnsOK' /\ PinsOK'
<1>1. TurnsOK'
  BY DEF IInv, TurnsOK
<1>2. ASSUME NEW v \in Services, NEW r \in Sessions
      PROVE  PinOK(v, pin'[v][r], turn'[r])
  <2>1. CASE r = s
    <3>1. turn'[r] = t
      BY <2>1 DEF IInv, TurnsOK
    <3> QED
      BY <2>1, <3>1, Unlent
  <2>2. CASE r # s
    <3>1. turn'[r] = turn[r]
      BY <2>2 DEF IInv, TurnsOK
    <3> QED
      BY <3>1 DEF IInv, PinsOK
  <2> QED
    BY <2>1, <2>2
<1> QED
  BY <1>1, <1>2 DEF IInv, PinsOK

(* A step of the turn of session s that replaces its pin in the service of *)
(* the turn.                                                               *)
LEMMA TurnAndPin ==
  ASSUME IInv, NEW s \in Sessions, NEW t, NEW x, TurnOK(t),
         PinOK(turn[s].svc, x, t), SetPin(turn[s].svc, s, x),
         turn' = [turn EXCEPT ![s] = t]
  PROVE  TurnsOK' /\ PinsOK'
<1>0. turn[s].svc \in Services /\ x \in Pins
  BY DEF IInv, TurnsOK, TurnOK, Turns, PinOK
<1>1. TurnsOK'
  BY DEF IInv, TurnsOK
<1>2. pin' \in [Services -> [Sessions -> Pins]]
  BY <1>0 DEF IInv, PinsOK, SetPin
<1>3. ASSUME NEW v \in Services, NEW r \in Sessions
      PROVE  PinOK(v, pin'[v][r], turn'[r])
  <2>1. CASE r = s /\ v = turn[s].svc
    <3>1. pin'[v][r] = x
      BY <1>0, <2>1 DEF IInv, PinsOK, SetPin
    <3>2. turn'[r] = t
      BY <2>1 DEF IInv, TurnsOK
    <3> QED
      BY <2>1, <3>1, <3>2
  <2>2. CASE r = s /\ v # turn[s].svc
    <3>1. pin'[v][r] = pin[v][r]
      BY <1>0, <2>2 DEF IInv, PinsOK, SetPin
    <3> QED
      BY <2>2, <3>1 DEF IInv, PinsOK, PinOK
  <2>3. CASE r # s
    <3>1. pin'[v][r] = pin[v][r]
      BY <1>0, <2>3 DEF IInv, PinsOK, SetPin
    <3>2. turn'[r] = turn[r]
      BY <2>3 DEF IInv, TurnsOK
    <3> QED
      BY <3>1, <3>2 DEF IInv, PinsOK
  <2> QED
    BY <2>1, <2>2, <2>3
<1> QED
  BY <1>1, <1>2, <1>3 DEF PinsOK

(* A step within a request: the pin stays, or what changes of it is where  *)
(* its chain is.                                                           *)
LEMMA WithinRequest ==
  ASSUME IInv, NEW s \in Sessions, NEW t, TurnOK(t),
         t.at = turn[s].at, t.svc = turn[s].svc, t.guard = turn[s].guard,
         turn' = [turn EXCEPT ![s] = t],
         \/ pin' = pin
         \/ \E p \in Providers :
              SetPin(turn[s].svc, s, [pin[turn[s].svc][s] EXCEPT !.to = p, !.moved = TRUE])
  PROVE  TurnsOK' /\ PinsOK'
<1> DEFINE v == turn[s].svc
<1>1. v \in Services
  BY DEF IInv, TurnsOK, TurnOK, Turns
<1>2. PinOK(v, pin[v][s], t)
  BY <1>1 DEF IInv, PinsOK, PinOK
<1>3. CASE pin' = pin
  <2>1. pin' = [pin EXCEPT ![v][s] = pin[v][s]]
    BY <1>1, <1>3 DEF IInv, PinsOK
  <2>2. SetPin(turn[s].svc, s, pin[v][s])
    BY <2>1 DEF SetPin
  <2> QED
    BY <1>2, <2>2, TurnAndPin
<1>4. ASSUME NEW p \in Providers,
             SetPin(v, s, [pin[v][s] EXCEPT !.to = p, !.moved = TRUE])
      PROVE  TurnsOK' /\ PinsOK'
  <2>1. PinOK(v, [pin[v][s] EXCEPT !.to = p, !.moved = TRUE], t)
    BY <1>2 DEF PinOK, Pins
  <2> QED
    BY <1>4, <2>1, TurnAndPin
<1> QED
  BY <1>3, <1>4

-----------------------------------------------------------------------------
(* What a guard puts back is a pin for a session without a rescue.         *)
LEMMA RestoredOK ==
  ASSUME IInv, NEW s \in Sessions, NEW t
  PROVE  PinOK(turn[s].svc, Restored(s), t)
<1>1. turn[s].svc \in Services /\ TurnOK(turn[s])
  BY DEF IInv, TurnsOK, TurnOK, Turns
<1>2. CASE turn[s].guard = None
  BY <1>1, <1>2, Unlent DEF Restored
<1>3. CASE turn[s].guard # None
  <2>1. turn[s].guard \in Pins
    BY <1>1, <1>3 DEF TurnOK, Turns
  <2>2. turn[s].guard.lender # None => turn[s].guard.lender \in Services
    BY <2>1 DEF Pins
  <2>3. turn[s].guard.lender # turn[s].svc
    BY <1>1, <1>3, <2>2, ProviderAssumption DEF TurnOK, Services
  <2>4. turn[s].guard.lender # None => turn[s].guard.lender <= turn[s].svc
    BY <1>1, <1>3, <2>2, ProviderAssumption DEF TurnOK, Services
  <2> QED
    BY <1>3, <2>1, <2>3, <2>4 DEF Restored, PinOK
<1> QED
  BY <1>2, <1>3

(* What may be put back by a guard of service v.                           *)
Returnable(v, p) == p \in Pins /\ (p.lender = None \/ p.lender < v)

(* Without a guard the pin, or the default chain it hid, may.              *)
LEMMA OriginalReturns ==
  ASSUME IInv, NEW s \in Sessions, turn[s].guard = None
  PROVE  Returnable(turn[s].svc, Original(turn[s].svc, s))
<1> DEFINE v == turn[s].svc
           p == pin[v][s]
<1>1. v \in Services
  BY DEF IInv, TurnsOK, TurnOK, Turns
<1>2. p \in Pins /\ (p.lender # None => p.lender <= v) /\ p.lender # v
  BY <1>1 DEF IInv, PinsOK, PinOK
<1>3. Chain(v, s) \in Providers \cup Services \cup {None}
  BY <1>1, <1>2 DEF Chain, Pins
<1>4. Original(v, s) \in Pins /\ Original(v, s).lender = p.lender
  BY <1>2, <1>3 DEF Original, Pins
<1>5. p.lender # None => p.lender \in Services
  BY <1>2 DEF Pins
<1>6. p.lender = None \/ p.lender < v
  BY <1>1, <1>2, <1>5, ProviderAssumption DEF Services
<1> QED
  BY <1>4, <1>6 DEF Returnable

(* A candidate is asked: by a guarded arm with something to put back, or   *)
(* by another one without a guard.                                         *)
LEMMA TryOK ==
  ASSUME IInv, NEW s \in Sessions, NEW arm \in Arms, NEW p \in Fallbacks,
         NEW left \in SUBSET Fallbacks, NEW before,
         IF arm \in Guarded THEN Returnable(turn[s].svc, before) ELSE turn[s].guard = None,
         Try(s, arm, p, left, before)
  PROVE  TurnsOK' /\ PinsOK'
<1> DEFINE v == turn[s].svc
           g == IF arm \in Guarded THEN before ELSE None
           c == Fallbacks \ {IF arm = "server" THEN Serving(v, s) ELSE p}
           t == [at |-> "rescue", svc |-> v, arm |-> arm, fallback |-> p, left |-> left, guard |-> g,
                 chain |-> c, refused |-> FALSE]
<1>1. v \in Services /\ p \in Providers /\ p # None /\ arm # None
  BY ProviderAssumption, NoneAssumption DEF IInv, TurnsOK, TurnOK, Turns
<1>2. g \in Pins \cup {None} /\ (g # None <=> arm \in Guarded)
  BY NoneAssumption DEF Returnable
<1>3. g # None => g.lender = None \/ g.lender < v
  BY DEF Returnable
<1>4. t \in Turns
  <2>1. c \in SUBSET Fallbacks
    OBVIOUS
  <2> HIDE DEF c, g
  <2> QED
    BY <1>1, <1>2, <2>1 DEF Turns
<1>5. TurnOK(t)
  BY <1>1, <1>2, <1>3, <1>4 DEF TurnOK
<1>6. turn' = [turn EXCEPT ![s] = t]
  BY DEF Try
<1>7. CASE arm \in Guarded
  <2>1. SetPin(v, s, Lent(p, v))
    BY <1>7 DEF Try, Guarded
  <2>2. v # None /\ v <= v
    BY <1>1, ProviderAssumption DEF Services
  <2>3. PinOK(v, Lent(p, v), t)
    BY <1>1, <1>2, <1>7, <2>2 DEF PinOK, Lent, Pins
  <2> QED
    BY <1>5, <1>6, <2>1, <2>3, TurnAndPin
<1>8. CASE arm = "other"
  <2>1. SetPin(v, s, Own(p))
    BY <1>8 DEF Try, Guarded
  <2>2. PinOK(v, Own(p), t)
    BY <1>1, ProviderAssumption DEF PinOK, Own, Pins, Services
  <2> QED
    BY <1>5, <1>6, <2>1, <2>2, TurnAndPin
<1>9. CASE arm = "server"
  <2>1. pin' = pin
    BY <1>9 DEF Try, Guarded
  <2> QED
    BY <1>5, <1>6, <1>9, <2>1, TurnAlone DEF Guarded
<1> QED
  BY <1>7, <1>8, <1>9 DEF Arms, Guarded

(* Going through the candidates lends the pin to one, or gives it back.    *)
LEMMA WalkOK ==
  ASSUME IInv, NEW s \in Sessions, NEW arm \in Arms,
         NEW left \in SUBSET Fallbacks, NEW before,
         IF arm \in Guarded THEN Returnable(turn[s].svc, before) ELSE turn[s].guard = None,
         Walk(s, arm, left, before)
  PROVE  TurnsOK' /\ PinsOK'
<1>1. CASE left = {}
  BY <1>1, IdleIsTurn, RestoredOK, TurnAndPin DEF Walk
<1>2. CASE left # {}
  <2>1. PICK p \in left : Try(s, arm, p, left \ {p}, before)
    BY <1>2 DEF Walk
  <2> QED
    BY <2>1, TryOK
<1> QED
  BY <1>1, <1>2

-----------------------------------------------------------------------------
(* The steps of a turn.                                                    *)
TurnStep(s) ==
  \/ Start(s) \/ Answer(s) \/ NoAnswer(s)
  \/ \E p \in Fallbacks : AnswerSwitched(s, p) \/ MovesOn(s, p) \/ Refuses(s, p)
  \/ \E arm \in {"quota", "other"} : FirstTryFails(s, arm)
  \/ \E arm \in {"stream", "server"} : Retry(s, arm)
  \/ RetrySucceeds(s) \/ RetriesFail(s) \/ ContinuationFails(s)
  \/ RescueSucceeds(s) \/ RescueFails(s)
  \/ Drop(s)

(* A turn that asks its own provider has no guard.                         *)
LEMMA AskingIsTurn ==
  ASSUME NEW v \in Services
  PROVE  TurnOK(Asking(v))
<1>1. TurnOK(Idle)
  BY IdleIsTurn
<1> QED
  BY <1>1 DEF TurnOK, Asking, Idle, Turns

(* The turn asks again or ends.                                            *)
LEMMA Continued ==
  ASSUME IInv, NEW s \in Sessions, GoOn(s)
  PROVE  \E t : TurnOK(t) /\ turn' = [turn EXCEPT ![s] = t]
<1>1. turn[s].svc \in Services
  BY DEF IInv, TurnsOK, TurnOK, Turns
<1>2. CASE Ask(s)
  BY <1>1, <1>2, AskingIsTurn DEF Ask
<1>3. CASE End(s)
  BY <1>3, IdleIsTurn DEF End
<1> QED
  BY <1>2, <1>3 DEF GoOn

(* A chain that is pinned may move on, and its event be taken.             *)
LEMMA SwitchedPin ==
  ASSUME IInv, NEW s \in Sessions, NEW p \in Providers, NEW t, turn[s].guard = None
  PROVE  PinOK(turn[s].svc, [pin[turn[s].svc][s] EXCEPT !.to = p, !.moved = FALSE], t)
<1>1. turn[s].svc \in Services
  BY DEF IInv, TurnsOK, TurnOK, Turns
<1>2. PinOK(turn[s].svc, pin[turn[s].svc][s], t)
  BY <1>1, Unlent
<1> QED
  BY <1>2 DEF PinOK, Pins

LEMMA EventTaken ==
  ASSUME NEW v, NEW x, NEW t, PinOK(v, x, t)
  PROVE  PinOK(v, [x EXCEPT !.moved = FALSE], t)
  BY DEF PinOK, Pins

(* Answers of the own provider lend nothing.                               *)
LEMMA AnswersOK ==
  ASSUME IInv, NEW s \in Sessions,
         \/ Start(s) \/ Answer(s) \/ RetrySucceeds(s) \/ ContinuationFails(s)
         \/ \E p \in Fallbacks : AnswerSwitched(s, p)
         \/ \E arm \in {"stream", "server"} : Retry(s, arm)
  PROVE  TurnsOK' /\ PinsOK'
<1>1. TurnOK(turn[s]) /\ current \in Services
  BY DEF IInv, TurnsOK, ServicesOK
<1>2. CASE Start(s)
  <2>1. turn[s].guard = None
    BY <1>1, <1>2 DEF Start, TurnOK
  <2> QED
    BY <1>1, <1>2, <2>1, AskingIsTurn, TurnAlone DEF Start
<1>3. CASE Answer(s) \/ RetrySucceeds(s)
  <2>1. turn[s].guard = None
    BY <1>1, <1>3 DEF Answer, RetrySucceeds, TurnOK
  <2>2. GoOn(s) /\ SetPin(turn[s].svc, s, [pin[turn[s].svc][s] EXCEPT !.moved = FALSE])
    BY <1>3 DEF Answer, RetrySucceeds, TakeSwapEvent
  <2>3. PICK t : TurnOK(t) /\ turn' = [turn EXCEPT ![s] = t]
    BY <2>2, Continued
  <2>4. turn[s].svc \in Services
    BY <1>1 DEF TurnOK, Turns
  <2>5. PinOK(turn[s].svc, [pin[turn[s].svc][s] EXCEPT !.moved = FALSE], t)
    BY <2>1, <2>4, Unlent, EventTaken
  <2> QED
    BY <2>2, <2>3, <2>5, TurnAndPin
<1>4. CASE ContinuationFails(s)
  <2>1. turn[s].guard = None
    BY <1>1, <1>4 DEF ContinuationFails, TurnOK
  <2> QED
    BY <1>4, <2>1, IdleIsTurn, TurnAlone DEF ContinuationFails, End
<1>5. ASSUME NEW p \in Fallbacks, AnswerSwitched(s, p)
      PROVE  TurnsOK' /\ PinsOK'
  <2>1. turn[s].guard = None
    BY <1>1, <1>5 DEF AnswerSwitched, TurnOK
  <2>2. GoOn(s)
    BY <1>5 DEF AnswerSwitched
  <2>3. PICK t : TurnOK(t) /\ turn' = [turn EXCEPT ![s] = t]
    BY <2>2, Continued
  <2>4. CASE pin' = pin
    BY <2>1, <2>3, <2>4, TurnAlone
  <2>5. CASE SetPin(turn[s].svc, s, [pin[turn[s].svc][s] EXCEPT !.to = p, !.moved = FALSE])
    <3>1. p \in Providers
      BY ProviderAssumption
    <3>2. PinOK(turn[s].svc, [pin[turn[s].svc][s] EXCEPT !.to = p, !.moved = FALSE], t)
      BY <2>1, <3>1, SwitchedPin
    <3> QED
      BY <2>3, <2>5, <3>2, TurnAndPin
  <2> QED
    BY <1>5, <2>4, <2>5 DEF AnswerSwitched
<1>6. ASSUME NEW arm \in {"stream", "server"}, Retry(s, arm)
      PROVE  TurnsOK' /\ PinsOK'
  <2> DEFINE t == [turn[s] EXCEPT !.at = "retrying", !.arm = arm]
  <2>1. turn[s].guard = None
    BY <1>1, <1>6 DEF Retry, TurnOK
  <2>2. arm \in Arms
    BY DEF Arms
  <2>3. TurnOK(t)
    <3>1. turn[s] \in Turns /\ turn[s].at = "asking" /\ ~turn[s].refused
      BY <1>1, <1>6 DEF Retry, TurnOK, Turns
    <3>2. /\ t \in Turns /\ t.at = "retrying" /\ t.arm = arm /\ t.guard = turn[s].guard
          /\ ~t.refused
      BY <2>2, <3>1 DEF Turns
    <3> HIDE DEF t
    <3> QED
      BY <2>1, <3>2 DEF TurnOK
  <2>4. turn' = [turn EXCEPT ![s] = t] /\ pin' = pin
    BY <1>6 DEF Retry, IInv, TurnsOK
  <2> QED
    BY <2>1, <2>3, <2>4, TurnAlone
<1> QED
  BY <1>2, <1>3, <1>4, <1>5, <1>6

(* A failure that is rescued lends the pin under a guard.                  *)
LEMMA RescuesBeginOK ==
  ASSUME IInv, NEW s \in Sessions,
         \/ NoAnswer(s) \/ RetriesFail(s)
         \/ \E arm \in {"quota", "other"} : FirstTryFails(s, arm)
  PROVE  TurnsOK' /\ PinsOK'
<1>1. TurnOK(turn[s])
  BY DEF IInv, TurnsOK
<1>2. turn[s].guard = None
  BY <1>1 DEF TurnOK, NoAnswer, RetriesFail, FirstTryFails
<1>3. Returnable(turn[s].svc, Original(turn[s].svc, s))
  BY <1>2, OriginalReturns
<1>4. CASE NoAnswer(s)
  BY <1>2, <1>3, <1>4, WalkOK DEF NoAnswer, Arms
<1>5. CASE RetriesFail(s)
  <2>1. turn[s].arm \in Arms
    BY <1>1, <1>5 DEF RetriesFail, TurnOK, Arms
  <2> QED
    BY <1>2, <1>3, <1>5, <2>1, WalkOK DEF RetriesFail
<1>6. ASSUME NEW arm \in {"quota", "other"}, FirstTryFails(s, arm)
      PROVE  TurnsOK' /\ PinsOK'
  BY <1>2, <1>3, <1>6, WalkOK DEF FirstTryFails, Arms
<1> QED
  BY <1>4, <1>5, <1>6

(* A rescue gives the pin back, or goes on with the next candidate.        *)
LEMMA RescuesEndOK ==
  ASSUME IInv, NEW s \in Sessions,
         \/ RescueSucceeds(s) \/ RescueFails(s) \/ Drop(s)
         \/ \E p \in Fallbacks : MovesOn(s, p) \/ Refuses(s, p)
  PROVE  TurnsOK' /\ PinsOK'
<1>1. TurnOK(turn[s])
  BY DEF IInv, TurnsOK
<1>2. CASE RescueSucceeds(s)
  <2> DEFINE v == turn[s].svc
             p == turn[s].fallback
  <2>1. GoOn(s) /\ turn[s].at = "rescue"
    BY <1>2 DEF RescueSucceeds
  <2>2. PICK t : TurnOK(t) /\ turn' = [turn EXCEPT ![s] = t]
    BY <2>1, Continued
  <2>3. v \in Services /\ p \in Providers /\ pin[v][s] \in Pins /\ None \notin Services
    BY <1>1, <2>1, ProviderAssumption DEF TurnOK, Turns, IInv, PinsOK, Services
  <2>4. PinOK(v, Staying(s), t)
    BY <2>3 DEF PinOK, Staying, Own, Pins
  <2>5. PinOK(v, Restored(s), t)
    BY RestoredOK
  <2>6. \E x \in {Staying(s), Restored(s)} : SetPin(v, s, x) \/ SetPin(v, s, [x EXCEPT !.moved = FALSE])
    <3>1. CASE turn[s].arm = "silent"
      BY <1>2, <3>1 DEF RescueSucceeds
    <3>2. CASE turn[s].arm # "silent" /\ Sticks(s)
      BY <1>2, <3>2 DEF RescueSucceeds, TakeSwapEvent
    <3>3. CASE turn[s].arm # "silent" /\ ~Sticks(s)
      BY <1>2, <3>3 DEF RescueSucceeds, TakeSwapEvent
    <3> QED
      BY <3>1, <3>2, <3>3
  <2>7. PICK x \in {Staying(s), Restored(s)} :
          SetPin(v, s, x) \/ SetPin(v, s, [x EXCEPT !.moved = FALSE])
    BY <2>6
  <2>8. PinOK(v, x, t) /\ PinOK(v, [x EXCEPT !.moved = FALSE], t)
    BY <2>4, <2>5, EventTaken
  <2> QED
    BY <2>2, <2>7, <2>8, TurnAndPin
<1>3. CASE RescueFails(s)
  <2>1. turn[s].arm \in Arms /\ turn[s].left \in SUBSET Fallbacks
    BY <1>1, <1>3 DEF RescueFails, TurnOK, Turns
  <2>2. CASE turn[s].arm \in Guarded
    <3>1. turn[s].guard # None /\ turn[s].guard \in Pins
      BY <1>1, <1>3, <2>2 DEF RescueFails, TurnOK, Turns
    <3>2. Returnable(turn[s].svc, turn[s].guard)
      BY <1>1, <3>1 DEF TurnOK, Returnable
    <3> QED
      BY <1>3, <2>1, <2>2, <3>2, WalkOK DEF RescueFails
  <2>3. CASE turn[s].arm \notin Guarded
    <3>1. turn[s].guard = None
      BY <1>1, <2>3 DEF TurnOK
    <3> QED
      BY <1>3, <2>1, <2>3, <3>1, WalkOK DEF RescueFails
  <2> QED
    BY <2>2, <2>3
<1>4. CASE Drop(s)
  BY <1>4, IdleIsTurn, RestoredOK, TurnAndPin DEF Drop
<1>5. ASSUME NEW p \in Fallbacks, MovesOn(s, p)
      PROVE  TurnsOK' /\ PinsOK'
  <2> DEFINE t == [turn[s] EXCEPT !.chain = {}, !.refused = FALSE]
  <2>1. TurnOK(t) /\ t.at = turn[s].at /\ t.svc = turn[s].svc /\ t.guard = turn[s].guard
    BY <1>1 DEF TurnOK, Turns
  <2>2. turn' = [turn EXCEPT ![s] = t]
    BY <1>5 DEF MovesOn, IInv, TurnsOK
  <2>3. p \in Providers
    BY ProviderAssumption
  <2>4. \/ pin' = pin
        \/ SetPin(turn[s].svc, s, [pin[turn[s].svc][s] EXCEPT !.to = p, !.moved = TRUE])
    BY <1>5 DEF MovesOn, MoveOn
  <2> HIDE DEF t
  <2> QED
    BY <2>1, <2>2, <2>3, <2>4, WithinRequest
<1>6. ASSUME NEW p \in Fallbacks, Refuses(s, p)
      PROVE  TurnsOK' /\ PinsOK'
  <2> DEFINE t == [turn[s] EXCEPT !.chain = @ \ {p}, !.refused = TRUE]
  <2>1. TurnOK(t) /\ t.at = turn[s].at /\ t.svc = turn[s].svc /\ t.guard = turn[s].guard
    BY <1>1, <1>6 DEF TurnOK, Turns, Refuses
  <2>2. turn' = [turn EXCEPT ![s] = t] /\ pin' = pin
    BY <1>6 DEF Refuses, IInv, TurnsOK
  <2> HIDE DEF t
  <2> QED
    BY <2>1, <2>2, WithinRequest
<1> QED
  BY <1>2, <1>3, <1>4, <1>5, <1>6

(* A try gives each session of a service at most one rescue: what a turn   *)
(* adds to its streak it has paid for with the try it is at.               *)
LEMMA StreaksKept ==
  ASSUME IInv, NEW s \in Sessions, TurnStep(s)
  PROVE  StreaksOK'
<1> DEFINE v == turn[s].svc
<1>1. v \in Services /\ MaxTries \in Nat
  BY ProviderAssumption DEF IInv, TurnsOK, TurnOK, Turns
<1>2. /\ streak[v][s] \in 0..MaxTries /\ streak[v][s] <= tries
      /\ turn[s].at # "idle" => streak[v][s] + 1 <= tries
  BY <1>1 DEF IInv, StreaksOK
<1>3. CASE Start(s)
  BY <1>1, <1>3 DEF Start, Asking, IInv, StreaksOK, TurnsOK, Idle
<1>4. ASSUME \/ Ask(s)
             \/ End(s)
             \/ UNCHANGED tries /\ turn' = [turn EXCEPT ![s] = Idle],
             turn[s].at # "idle",
             \/ streak' = streak
             \/ streak' = [streak EXCEPT ![v][s] = 0]
             \/ streak' = [streak EXCEPT ![v][s] = @ + 1]
      PROVE  StreaksOK'
  <2>1. streak' \in [Services -> [Sessions -> 0..MaxTries]]
    <3>1. /\ streak \in [Services -> [Sessions -> 0..MaxTries]]
          /\ tries \in 0..MaxTries
      BY DEF IInv, StreaksOK
    <3>2. ASSUME NEW n \in 0..MaxTries
          PROVE  [streak EXCEPT ![v][s] = n] \in [Services -> [Sessions -> 0..MaxTries]]
      <4> HIDE DEF v
      <4> QED
        BY <1>1, <3>1
    <3>3. 0 \in 0..MaxTries /\ streak[v][s] + 1 \in 0..MaxTries
      BY <1>1, <1>2, <1>4, <3>1
    <3> HIDE DEF v
    <3> QED
      BY <1>4, <3>1, <3>2, <3>3
  <2>2. ASSUME NEW w \in Services, NEW r \in Sessions
        PROVE  streak'[w][r] <= tries /\ (turn[r].at # "idle" /\ r # s => streak'[w][r] < tries)
    BY <1>1, <1>2, <1>4 DEF IInv, StreaksOK
  <2>3. CASE Ask(s)
    BY <1>1, <2>1, <2>2, <2>3 DEF Ask, Asking, IInv, StreaksOK, TurnsOK
  <2>4. CASE UNCHANGED tries /\ turn' = [turn EXCEPT ![s] = Idle]
    BY <2>1, <2>2, <2>4 DEF Idle, IInv, StreaksOK, TurnsOK
  <2> QED
    BY <1>4, <2>3, <2>4 DEF End
<1>5. CASE Answer(s) \/ RetrySucceeds(s) \/ ContinuationFails(s) \/ RescueSucceeds(s) \/ Drop(s)
  <2>1. CASE Answer(s)
    <3>1. turn[s].at # "idle" /\ streak' = [streak EXCEPT ![v][s] = 0] /\ GoOn(s)
      BY <2>1 DEF Answer
    <3> QED
      BY <1>4, <3>1 DEF GoOn
  <2>2. CASE RetrySucceeds(s) \/ ContinuationFails(s)
    <3>1. turn[s].at # "idle" /\ streak' = streak /\ (GoOn(s) \/ End(s))
      BY <2>2 DEF RetrySucceeds, ContinuationFails
    <3> QED
      BY <1>4, <3>1 DEF GoOn
  <2>3. CASE RescueSucceeds(s)
    <3>1. /\ turn[s].at # "idle" /\ GoOn(s)
          /\ streak' = streak \/ streak' = [streak EXCEPT ![v][s] = @ + 1]
      BY <2>3 DEF RescueSucceeds
    <3> QED
      BY <1>4, <3>1 DEF GoOn
  <2>4. CASE Drop(s)
    <3>1. /\ turn[s].at # "idle" /\ streak' = streak
          /\ UNCHANGED tries /\ turn' = [turn EXCEPT ![s] = Idle]
      BY <2>4 DEF Drop
    <3> QED
      BY <1>4, <3>1
  <2> QED
    BY <1>5, <2>1, <2>2, <2>3, <2>4
<1>6. ASSUME NEW p \in Fallbacks, AnswerSwitched(s, p)
      PROVE  StreaksOK'
  <2>1. /\ turn[s].at # "idle" /\ GoOn(s)
        /\ streak' = [streak EXCEPT ![v][s] = 0] \/ streak' = streak
    BY <1>6 DEF AnswerSwitched
  <2> QED
    BY <1>4, <2>1 DEF GoOn
<1>7. ASSUME NEW t, turn' = [turn EXCEPT ![s] = t], turn[s].at # "idle", tries' = tries,
             streak' = streak \/ streak' = [streak EXCEPT ![v][s] = 0]
      PROVE  StreaksOK'
  <2>1. streak' \in [Services -> [Sessions -> 0..MaxTries]]
    <3>1. 0 \in 0..MaxTries /\ streak \in [Services -> [Sessions -> 0..MaxTries]]
      BY <1>1 DEF IInv, StreaksOK
    <3> HIDE DEF v
    <3> QED
      BY <1>1, <1>7, <3>1
  <2>2. ASSUME NEW w \in Services, NEW r \in Sessions
        PROVE  streak'[w][r] <= tries /\ (turn'[r].at # "idle" => streak'[w][r] < tries)
    BY <1>1, <1>2, <1>7 DEF IInv, StreaksOK, TurnsOK
  <2> QED
    BY <1>7, <2>1, <2>2 DEF IInv, StreaksOK
<1>8. ASSUME NEW arm \in {"stream", "server"}, Retry(s, arm)
      PROVE  StreaksOK'
  <2>1. turn' = [turn EXCEPT ![s] = [turn[s] EXCEPT !.at = "retrying", !.arm = arm]]
    BY <1>8 DEF Retry, IInv, TurnsOK
  <2> QED
    BY <1>7, <1>8, <2>1 DEF Retry
<1>9. ASSUME NEW arm, NEW left, NEW before, Walk(s, arm, left, before), turn[s].at # "idle",
             streak' = streak \/ streak' = [streak EXCEPT ![v][s] = 0]
      PROVE  StreaksOK'
  BY <1>7, <1>9 DEF Walk, Try
<1>10. CASE NoAnswer(s) \/ RetriesFail(s) \/ RescueFails(s)
  BY <1>9, <1>10 DEF NoAnswer, RetriesFail, RescueFails
<1>11. ASSUME NEW arm \in {"quota", "other"}, FirstTryFails(s, arm)
       PROVE  StreaksOK'
  BY <1>9, <1>11 DEF FirstTryFails
<1>12. ASSUME NEW p \in Fallbacks, MovesOn(s, p) \/ Refuses(s, p)
       PROVE  StreaksOK'
  <2>1. \/ turn' = [turn EXCEPT ![s] = [turn[s] EXCEPT !.chain = {}, !.refused = FALSE]]
        \/ turn' = [turn EXCEPT ![s] = [turn[s] EXCEPT !.chain = @ \ {p}, !.refused = TRUE]]
    BY <1>12 DEF MovesOn, Refuses, IInv, TurnsOK
  <2>2. turn[s].at # "idle" /\ tries' = tries /\ streak' = streak
    BY <1>12 DEF MovesOn, Refuses
  <2> QED
    BY <1>7, <2>1, <2>2
<1> QED
  BY <1>3, <1>5, <1>6, <1>8, <1>10, <1>11, <1>12 DEF TurnStep

(* What a turn changes elsewhere.                                          *)
LEMMA OthersKept ==
  ASSUME IInv, NEW s \in Sessions, TurnStep(s)
  PROVE  ServicesOK' /\ ScreenOK'
<1>1. TurnOK(turn[s])
  BY DEF IInv, TurnsOK
<1>2. ASSUME NEW q \in Seq(Switches), NEW p \in Providers
      PROVE  q \o Switch(s, p) \in Seq(Switches)
  <2>1. [session |-> s, to |-> p] \in Switches
    BY DEF Switches
  <2> HIDE DEF Switches
  <2> QED
    BY <2>1 DEF Switch
<1>3. CASE services' = services /\ screen' = screen
  BY <1>3 DEF services, screen, IInv, ServicesOK, ScreenOK
<1>4. turn[s].svc \in Services /\ announced \in Seq(Switches) /\ Services \cap Providers = {}
  BY <1>1, ProviderAssumption DEF TurnOK, Turns, IInv, ScreenOK, Services
<1>5. ASSUME NEW x \in Pins, NEW said, announced \o said \in Seq(Switches),
             TakeSwapEvent(turn[s].svc, s, x, said)
      PROVE  announced' \in Seq(Switches) /\ moved' \in [Services -> BOOLEAN]
  <2> DEFINE c == IF x.to = None THEN turn[s].svc ELSE x.to
  <2>1. c \in Services \cup Providers
    BY <1>4 DEF Pins
  <2>2. moved \in [Services -> BOOLEAN] /\ global \in [Services -> Providers]
    BY DEF IInv, ServicesOK
  <2>3. moved' \in [Services -> BOOLEAN]
    BY <1>5, <2>2 DEF TakeSwapEvent
  <2>4. \E p \in Providers : announced' \in {announced \o said \o << >>, announced \o said \o Switch(s, p)}
    <3>1. CASE c \in Services
      <4>1. global[c] \in Providers
        BY <2>2, <3>1
      <4>2. announced' \in {announced \o said \o << >>, announced \o said \o Switch(s, global[c])}
        BY <1>5, <3>1 DEF TakeSwapEvent
      <4> QED
        BY <4>1, <4>2
    <3>2. CASE c \notin Services
      <4>1. c \in Providers
        BY <2>1, <3>2
      <4>2. announced' \in {announced \o said \o << >>, announced \o said \o Switch(s, c)}
        BY <1>5, <3>2 DEF TakeSwapEvent
      <4> QED
        BY <4>1, <4>2
    <3> QED
      BY <3>1, <3>2
  <2>5. announced \o said \o << >> \in Seq(Switches)
    <3> HIDE DEF Switches
    <3> QED
      BY <1>5
  <2> QED
    BY <1>2, <1>5, <2>3, <2>4, <2>5
<1>6. announced \o << >> \in Seq(Switches)
  <2> HIDE DEF Switches
  <2> QED
    BY <1>4
<1>7. pin[turn[s].svc][s] \in Pins
  BY <1>4 DEF IInv, PinsOK
<1>8. CASE Answer(s) \/ RetrySucceeds(s)
  <2>1. TakeSwapEvent(turn[s].svc, s, pin[turn[s].svc][s], << >>)
    BY <1>8 DEF Answer, RetrySucceeds
  <2>2. announced' \in Seq(Switches) /\ moved' \in [Services -> BOOLEAN]
    BY <1>5, <1>6, <1>7, <2>1
  <2> QED
    BY <1>8, <2>2 DEF Answer, RetrySucceeds, IInv, ServicesOK, ScreenOK
<1>9. ASSUME NEW p \in Fallbacks, AnswerSwitched(s, p)
      PROVE  ServicesOK' /\ ScreenOK'
  <2>1. p \in Providers
    BY ProviderAssumption
  <2>2. announced' \in Seq(Switches)
    BY <1>2, <1>4, <1>9, <2>1 DEF AnswerSwitched
  <2>3. global' \in [Services -> Providers] /\ moved' \in [Services -> BOOLEAN]
    BY <1>9, <2>1 DEF AnswerSwitched, IInv, ServicesOK
  <2> QED
    BY <1>9, <2>2, <2>3 DEF AnswerSwitched, IInv, ServicesOK, ScreenOK
<1>10. CASE RescueSucceeds(s)
  <2>1. turn[s].fallback \in Providers
    BY <1>1, <1>10 DEF RescueSucceeds, TurnOK, Turns
  <2>2. announced \o Switch(s, turn[s].fallback) \in Seq(Switches)
    BY <1>2, <1>4, <2>1
  <2>3. Staying(s) \in Pins /\ Restored(s) \in Pins
    BY <1>1, <1>7, <2>1 DEF Staying, Restored, Own, Pins, TurnOK, Turns
  <2>4. announced' \in Seq(Switches) /\ moved' \in [Services -> BOOLEAN]
    <3>1. CASE turn[s].arm = "silent"
      BY <1>10, <2>2, <3>1 DEF RescueSucceeds, IInv, ServicesOK
    <3>2. CASE turn[s].arm # "silent" /\ Sticks(s)
      <4>1. TakeSwapEvent(turn[s].svc, s, Staying(s), Switch(s, turn[s].fallback))
        BY <1>10, <3>2 DEF RescueSucceeds
      <4> QED
        BY <1>5, <2>2, <2>3, <4>1
    <3>3. CASE turn[s].arm # "silent" /\ ~Sticks(s)
      <4>1. TakeSwapEvent(turn[s].svc, s, Restored(s), << >>)
        BY <1>10, <3>3 DEF RescueSucceeds
      <4> QED
        BY <1>5, <1>6, <2>3, <4>1
    <3> QED
      BY <3>1, <3>2, <3>3
  <2> QED
    BY <1>10, <2>4 DEF RescueSucceeds, IInv, ServicesOK, ScreenOK
<1>11. ASSUME NEW p \in Fallbacks, MovesOn(s, p)
       PROVE  ServicesOK' /\ ScreenOK'
  <2>1. p \in Providers
    BY ProviderAssumption
  <2>2. global' \in [Services -> Providers] /\ moved' \in [Services -> BOOLEAN]
    BY <1>11, <2>1 DEF MovesOn, MoveOn, IInv, ServicesOK
  <2> QED
    BY <1>11, <2>2 DEF MovesOn, screen, IInv, ServicesOK, ScreenOK
<1>12. CASE \/ Start(s) \/ NoAnswer(s)
            \/ \E p \in Fallbacks : Refuses(s, p)
            \/ \E arm \in {"quota", "other"} : FirstTryFails(s, arm)
            \/ \E arm \in {"stream", "server"} : Retry(s, arm)
            \/ RetriesFail(s) \/ ContinuationFails(s)
            \/ RescueFails(s) \/ Drop(s)
  BY <1>3, <1>12
  DEF Start, NoAnswer, Refuses, FirstTryFails, Retry, RetriesFail,
      ContinuationFails, RescueFails, Drop, Walk
<1> QED
  BY <1>8, <1>9, <1>10, <1>11, <1>12 DEF TurnStep

(* The steps of the interface.                                             *)
LEMMA InterfaceOK ==
  ASSUME IInv,
         \/ \E s \in Sessions : Load(s) \/ \E p \in Providers : Rebuild(s, p)
         \/ Switched \/ Store \/ Pin \/ PinFails
  PROVE  IInv'
<1> USE DEF turns, services, screen
<1>1. current \in Services /\ Services \subseteq Nat /\ None \notin Services
  BY ProviderAssumption DEF IInv, ServicesOK, Services
<1>2. CASE \/ \E s \in Sessions : Load(s)
           \/ Switched \/ Store \/ PinFails
  <2>1. TurnsOK' /\ PinsOK' /\ StreaksOK' /\ ServicesOK'
    BY <1>2 DEF Load, Switched, Store, PinFails, IInv, TurnsOK, PinsOK, StreaksOK, ServicesOK
  <2>2. ASSUME NEW s \in Sessions, Load(s) PROVE ScreenOK'
    BY <2>2 DEF Load, IInv, ScreenOK, Statements
  <2>3. CASE Switched
    <3>1. Head(announced) \in Switches /\ Tail(announced) \in Seq(Switches)
      <4>1. announced \in Seq(Switches) /\ announced # << >>
        BY <2>3 DEF Switched, IInv, ScreenOK
      <4> HIDE DEF Switches
      <4> QED
        BY <4>1
    <3>2. Head(announced).session \in Sessions /\ Head(announced).to \in Providers
      BY <3>1 DEF Switches
    <3>3. ui' \in Statements /\ row' \in [Sessions -> Providers]
      BY <2>3, <3>2 DEF Switched, Statements, IInv, ScreenOK
    <3>4. announced' = Tail(announced) /\ ui'.session \in Sessions /\ ui'.to \in Providers
      BY <2>3, <3>2 DEF Switched
    <3> QED
      BY <2>1, <3>1, <3>3, <3>4 DEF IInv, ScreenOK
  <2>4. CASE Store
    <3>1. ui.session \in Sessions /\ ui.to \in Providers /\ ui \in Statements
      BY <2>4 DEF Store, IInv, ScreenOK
    <3>2. ui' \in Statements /\ ui'.session = ui.session /\ ui'.to = ui.to
      BY <2>4, <3>1 DEF Store, Statements
    <3>3. row' \in [Sessions -> Providers] /\ announced' = announced
      BY <2>4, <3>1 DEF Store, IInv, ScreenOK
    <3> QED
      BY <2>1, <3>1, <3>2, <3>3 DEF IInv, ScreenOK
  <2>5. CASE PinFails
    <3>1. ui' \in Statements /\ ui'.at = "idle"
      BY <2>5 DEF PinFails, UiIdle, Statements
    <3>2. row' = row /\ announced' = announced
      BY <2>5 DEF PinFails
    <3> QED
      BY <2>1, <3>1, <3>2 DEF IInv, ScreenOK
  <2> QED
    BY <1>2, <2>1, <2>2, <2>3, <2>4, <2>5 DEF IInv
<1>3. CASE Pin
  <2>1. ui.session \in Sessions /\ ui.to \in Providers
    BY <1>3 DEF Pin, IInv, ScreenOK
  <2>2. PinOK(current, Own(ui.to), turn[ui.session])
    BY <1>1, <2>1 DEF PinOK, Own, Pins
  <2>3. pin' \in [Services -> [Sessions -> Pins]]
    BY <1>1, <1>3, <2>2 DEF Pin, SetPin, IInv, PinsOK, PinOK
  <2>4. ASSUME NEW v \in Services, NEW s \in Sessions
        PROVE  PinOK(v, pin'[v][s], turn[s])
    <3>1. pin'[v][s] = IF v = current /\ s = ui.session THEN Own(ui.to) ELSE pin[v][s]
      BY <1>1, <1>3, <2>1 DEF Pin, SetPin, IInv, PinsOK
    <3>2. PinOK(v, pin[v][s], turn[s])
      BY DEF IInv, PinsOK
    <3> QED
      BY <2>2, <3>1, <3>2
  <2>5. PinsOK'
    BY <1>3, <2>3, <2>4 DEF Pin, PinsOK
  <2>6. TurnsOK' /\ StreaksOK' /\ ServicesOK'
    BY <1>3 DEF Pin, IInv, TurnsOK, StreaksOK, ServicesOK
  <2>7. ScreenOK'
    BY <1>3 DEF Pin, UiIdle, IInv, ScreenOK, Statements
  <2> QED
    BY <2>5, <2>6, <2>7 DEF IInv
<1>4. ASSUME NEW s \in Sessions, NEW p \in Providers, Rebuild(s, p)
      PROVE  IInv'
  <2>1. current + 1 \in Services
    BY <1>1, <1>4, ProviderAssumption DEF Rebuild, Services
  <2>2. ASSUME NEW v \in Services, NEW r \in Sessions
        PROVE  PinOK(v, pin'[v][r], turn[r])
    <3>1. CASE v = current + 1
      <4>1. pin'[v][r] = pin[current][r]
        BY <1>1, <1>4, <3>1 DEF Rebuild, IInv, PinsOK
      <4>2. pin[current][r] \in Pins
        BY <1>1 DEF IInv, PinsOK
      <4>3. pin[current][r].lender # None => pin[current][r].lender \in Nat /\ pin[current][r].lender <= current
        BY <1>1, <4>2 DEF IInv, PinsOK, PinOK, Pins
      <4>4. /\ pin[current][r].lender # v
            /\ pin[current][r].lender # None => pin[current][r].lender <= v
        BY <1>1, <3>1, <4>3
      <4> QED
        BY <4>1, <4>2, <4>4 DEF PinOK
    <3>2. CASE v # current + 1
      <4>1. pin'[v][r] = pin[v][r]
        BY <1>4, <3>2 DEF Rebuild, IInv, PinsOK
      <4> QED
        BY <4>1 DEF IInv, PinsOK
    <3> QED
      BY <3>1, <3>2
  <2>3. pin' \in [Services -> [Sessions -> Pins]]
    BY <1>1, <1>4 DEF Rebuild, IInv, PinsOK
  <2>4. PinsOK'
    BY <1>4, <2>2, <2>3 DEF Rebuild, PinsOK
  <2>5. TurnsOK' /\ StreaksOK'
    BY <1>4 DEF Rebuild, IInv, TurnsOK, StreaksOK
  <2>6. ServicesOK'
    BY <1>4, <2>1 DEF Rebuild, IInv, ServicesOK
  <2>7. ScreenOK'
    BY <1>4 DEF Rebuild, IInv, ScreenOK, Statements
  <2> QED
    BY <2>4, <2>5, <2>6, <2>7 DEF IInv
<1> QED
  BY <1>2, <1>3, <1>4

-----------------------------------------------------------------------------
(* Every step of turns and interface keeps the invariant.                  *)
LEMMA StepInv == IInv /\ [Next]_vars => IInv'
<1> SUFFICES ASSUME IInv, [Next]_vars PROVE IInv'
  OBVIOUS
<1>1. ASSUME NEW s \in Sessions, TurnStep(s) PROVE IInv'
  <2>1. TurnsOK' /\ PinsOK'
    BY <1>1, AnswersOK, RescuesBeginOK, RescuesEndOK DEF TurnStep
  <2> QED
    BY <1>1, <2>1, StreaksKept, OthersKept DEF IInv
<1>2. CASE UNCHANGED vars
  BY <1>2 DEF vars, turns, services, screen, IInv, TurnsOK, PinsOK, StreaksOK, ServicesOK, ScreenOK
<1> QED
  BY <1>1, <1>2, InterfaceOK DEF Next, TurnStep

(* The inductive invariant holds in every state of every execution.        *)
THEOREM Invariance == Spec => []IInv
  BY InitInv, StepInv, PTL DEF Spec

(* Every variable keeps its type, and a guard is armed exactly while a     *)
(* rescue that borrows the pin is under way.                               *)
THEOREM TypeCorrect == Spec => []TypeOK
<1>1. IInv => TypeOK
  <2> SUFFICES ASSUME IInv PROVE TypeOK
    OBVIOUS
  <2>1. turn \in [Sessions -> Turns]
    BY DEF IInv, TurnsOK, TurnOK
  <2>2. \A s \in Sessions :
          /\ turn[s].guard # None <=> turn[s].at = "rescue" /\ turn[s].arm \in Guarded
          /\ turn[s].at = "retrying" => turn[s].arm \in {"stream", "server"}
          /\ turn[s].at = "rescue" => turn[s].arm # None /\ turn[s].fallback # None
          /\ turn[s].refused => turn[s].at = "rescue"
    BY DEF IInv, TurnsOK, TurnOK
  <2> QED
    BY <2>1, <2>2 DEF TypeOK, IInv, PinsOK, StreaksOK, ServicesOK, ScreenOK, Turns, Switches, Statements
<1> QED
  BY <1>1, Invariance, PTL

(* However turns are dropped, rescues fail and the service is replaced: a  *)
(* provider borrowed for a rescue does not outlive it in its service.      *)
THEOREM PinsGivenBack == Spec => []NoLentPinLeft
<1>1. IInv => NoLentPinLeft
  BY DEF IInv, PinsOK, PinOK, NoLentPinLeft
<1> QED
  BY <1>1, Invariance, PTL

-----------------------------------------------------------------------------
(* The next of the candidates that are left is asked, in the same rescue,  *)
(* with the other fallbacks behind it.                                     *)
NextCandidate(s) ==
  /\ turn'[s].at = "rescue"
  /\ turn'[s].svc = turn[s].svc /\ turn'[s].arm = turn[s].arm
  /\ turn'[s].guard = turn[s].guard
  /\ turn'[s].fallback \in turn[s].left
  /\ turn'[s].left = turn[s].left \ {turn'[s].fallback}
  /\ turn'[s].arm # "server" => turn'[s].chain = Fallbacks \ {turn'[s].fallback}

(* Another fallback is asked in the chain of the same candidate.           *)
DownTheChain(s) ==
  /\ turn'[s].at = "rescue"
  /\ turn'[s].svc = turn[s].svc /\ turn'[s].arm = turn[s].arm
  /\ turn'[s].guard = turn[s].guard
  /\ turn'[s].fallback = turn[s].fallback /\ turn'[s].left = turn[s].left
  /\ \E p \in turn[s].chain : turn'[s].chain \subseteq turn[s].chain \ {p}

(* The session stays with the chain that has rescued it.  The candidate is *)
(* announced, and where its chain has moved on, so is the provider the     *)
(* chain is at, now or, the event being kept, with the next answer.        *)
Kept(s) ==
  LET x == pin[turn[s].svc][s]
      y == pin'[turn[s].svc][s]
  IN  /\ Sticks(s)
      /\ y.to = x.to /\ y.lender = None
      /\ \E told \in {<< >>} \cup {Switch(s, p) : p \in Providers} :
           /\ announced' = announced \o Switch(s, turn[s].fallback) \o told
           /\ x.moved /\ x.to \in Providers => y.moved \/ told = Switch(s, x.to)

(* The pin is as it was found, and an event of its chain may be taken.     *)
GivenBack(s) ==
  pin'[turn[s].svc][s] \in {turn[s].guard, [turn[s].guard EXCEPT !.moved = FALSE]}

(* What a guard does in a step.                                            *)
GuardMoves(s) ==
  LET v == turn[s].svc IN
  /\ turn[s].guard = None /\ turn'[s].guard # None =>
       turn'[s].guard = Original(v, s) /\ turn'[s].svc = v
  /\ turn[s].guard # None =>
       \/ turn'[s] = turn[s]
       \/ DownTheChain(s) /\ pin'[v][s].lender = pin[v][s].lender
       \/ NextCandidate(s) /\ pin'[v][s] = Lent(turn'[s].fallback, v)
       \/ turn'[s].guard = None /\ (GivenBack(s) \/ Kept(s))

(* A guard remembers the pin it found, or the default chain the pin's      *)
(* absence stood for, and remembers the same through every candidate that  *)
(* fails and every provider of a candidate's chain; when the rescue is     *)
(* over, however it ends, the guard has put that back, or the session was  *)
(* switched and that is announced.                                         *)
GivenBackAsFound == [][\A s \in Sessions : GuardMoves(s)]_vars

(* A rescue takes up each candidate at most once, and asks each of the     *)
(* other fallbacks at most once in the chain of that candidate: its        *)
(* requests are bounded, though not by the number of fallbacks.            *)
RescueMoves(s) ==
  turn[s].at = "rescue" =>
    turn'[s] = turn[s] \/ DownTheChain(s) \/ NextCandidate(s) \/ turn'[s].at # "rescue"

CandidatesRunOut == [][\A s \in Sessions : RescueMoves(s)]_vars

(* What going through the candidates comes to: the turn ends with the pin  *)
(* restored, or one of them is asked.                                      *)
Asked(s, arm, p, left, before) ==
  turn'[s] = [at |-> "rescue", svc |-> turn[s].svc, arm |-> arm, fallback |-> p,
              left |-> left \ {p}, guard |-> IF arm \in Guarded THEN before ELSE None,
              chain |-> Fallbacks \ {IF arm = "server" THEN Serving(turn[s].svc, s) ELSE p},
              refused |-> FALSE]

Over(s) == turn'[s] = Idle /\ pin'[turn[s].svc][s] = Restored(s)

(* Going through the candidates ends the turn or asks one of them.         *)
LEMMA WalkMoves ==
  ASSUME IInv, NEW s \in Sessions, NEW arm \in Arms, NEW left, NEW before,
         Walk(s, arm, left, before)
  PROVE  \/ Over(s)
         \/ \E p \in left :
              /\ Asked(s, arm, p, left, before)
              /\ arm \in Guarded => pin'[turn[s].svc][s] = Lent(p, turn[s].svc)
<1>0. /\ turn = [u \in Sessions |-> turn[u]] /\ turn[s].svc \in Services
      /\ pin \in [Services -> [Sessions -> Pins]]
  BY DEF IInv, TurnsOK, PinsOK, TurnOK, Turns
<1>1. CASE left = {}
  <2>1. turn' = [turn EXCEPT ![s] = Idle] /\ pin' = [pin EXCEPT ![turn[s].svc][s] = Restored(s)]
    BY <1>1 DEF Walk, SetPin
  <2>2. turn'[s] = Idle /\ pin'[turn[s].svc][s] = Restored(s)
    BY <1>0, <2>1
  <2> QED BY <2>2 DEF Over
<1>2. CASE left # {}
  <2>1. PICK p \in left : Try(s, arm, p, left \ {p}, before)
    BY <1>2 DEF Walk
  <2>2. Asked(s, arm, p, left, before)
    BY <1>0, <2>1 DEF Try, Asked
  <2>3. ASSUME arm \in Guarded PROVE pin'[turn[s].svc][s] = Lent(p, turn[s].svc)
    <3>1. SetPin(turn[s].svc, s, Lent(p, turn[s].svc))
      BY <2>1, <2>3 DEF Try, Guarded
    <3>2. pin' = [pin EXCEPT ![turn[s].svc][s] = Lent(p, turn[s].svc)]
      BY <3>1 DEF SetPin
    <3> QED BY <1>0, <3>2
  <2> QED BY <2>2, <2>3
<1> QED BY <1>1, <1>2

(* A turn that goes on, or ends, has no guard and no rescue.               *)
LEMMA GoOnMoves ==
  ASSUME IInv, NEW s \in Sessions, GoOn(s) \/ Start(s)
  PROVE  turn'[s].at \in {"asking", "idle"} /\ turn'[s].guard = None
<1>1. turn = [u \in Sessions |-> turn[u]]
  BY DEF IInv, TurnsOK
<1>2. /\ Idle.at = "idle" /\ Idle.guard = None
      /\ \A v : Asking(v).at = "asking" /\ Asking(v).guard = None
  BY DEF Idle, Asking
<1>3. \/ turn' = [turn EXCEPT ![s] = Idle]
      \/ turn' = [turn EXCEPT ![s] = Asking(turn[s].svc)]
      \/ turn' = [turn EXCEPT ![s] = Asking(current)]
  BY DEF GoOn, Ask, End, Start
<1>4. \/ turn'[s] = Idle
      \/ \E v : turn'[s] = Asking(v)
  BY <1>1, <1>3
<1> QED BY <1>2, <1>4

(* A candidate that stays is announced, and where its chain is, too.       *)
LEMMA StaysAnnounced ==
  ASSUME IInv, NEW s \in Sessions, RescueSucceeds(s), Sticks(s), turn[s].arm # "server"
  PROVE  Kept(s)
<1> DEFINE v == turn[s].svc
           f == turn[s].fallback
           x == pin[v][s]
<1>1. /\ v \in Services /\ pin \in [Services -> [Sessions -> Pins]] /\ x \in Pins
      /\ announced \in Seq(Switches) /\ f \in Providers
  BY DEF IInv, TurnsOK, TurnOK, Turns, PinsOK, ScreenOK, RescueSucceeds
<1>2. Staying(s) = [x EXCEPT !.lender = None]
  BY DEF Staying
<1>3. Staying(s).to = x.to /\ Staying(s).lender = None /\ Staying(s).moved = x.moved
  BY <1>1, <1>2 DEF Pins
<1>4. announced \o Switch(s, f) \in Seq(Switches)
  <2>1. [session |-> s, to |-> f] \in Switches
    BY <1>1 DEF Switches
  <2> HIDE DEF Switches, f
  <2> QED BY <1>1, <2>1 DEF Switch
<1>5. announced \o Switch(s, f) = announced \o Switch(s, f) \o << >>
  <2> HIDE DEF Switches
  <2> QED BY <1>4
<1>6. CASE turn[s].arm = "silent"
  <2>1. SetPin(v, s, Staying(s)) /\ announced' = announced \o Switch(s, f)
    BY <1>6 DEF RescueSucceeds
  <2>2. pin'[v][s] = Staying(s)
    BY <1>1, <2>1 DEF SetPin
  <2>3. announced' = announced \o Switch(s, f) \o << >>
    BY <1>5, <2>1
  <2>4. x.moved => pin'[v][s].moved
    BY <1>3, <2>2
  <2> QED BY <1>3, <2>2, <2>3, <2>4 DEF Kept
<1>7. CASE turn[s].arm # "silent"
  <2>1. TakeSwapEvent(v, s, Staying(s), Switch(s, f))
    BY <1>7 DEF RescueSucceeds
  <2>2. pin'[v][s] = [Staying(s) EXCEPT !.moved = FALSE]
    BY <1>1, <2>1 DEF TakeSwapEvent, SetPin
  <2>3. pin'[v][s].to = x.to /\ pin'[v][s].lender = None
    BY <1>1, <1>2, <2>2 DEF Pins
  <2>4. CASE x.to \in Providers
    <3>1. x.to \notin Services /\ x.to # None
      BY <2>4, ProviderAssumption DEF Services
    <3>2. announced' = announced \o Switch(s, f) \o (IF x.moved THEN Switch(s, x.to) ELSE << >>)
      BY <1>3, <2>1, <3>1 DEF TakeSwapEvent
    <3>3. PICK told \in {<< >>, Switch(s, x.to)} :
            announced' = announced \o Switch(s, f) \o told /\ (x.moved => told = Switch(s, x.to))
      BY <3>2
    <3> QED BY <2>3, <2>4, <3>3 DEF Kept
  <2>5. CASE x.to \notin Providers
    <3>1. (IF x.to = None THEN v ELSE x.to) \in Services
      BY <1>1, <2>5 DEF Pins
    <3>2. PICK c \in Services :
            announced' = announced \o Switch(s, f) \o (IF moved[c] THEN Switch(s, global[c]) ELSE << >>)
      BY <1>3, <2>1, <3>1 DEF TakeSwapEvent
    <3>3. global[c] \in Providers
      BY DEF IInv, ServicesOK
    <3>4. PICK told \in {<< >>, Switch(s, global[c])} :
            announced' = announced \o Switch(s, f) \o told
      BY <3>2
    <3> QED BY <2>3, <2>5, <3>3, <3>4 DEF Kept
  <2> QED BY <2>4, <2>5
<1> QED BY <1>6, <1>7

(* A rescue begins from a turn without a guard ...                         *)
LEMMA RescueBegins ==
  ASSUME IInv, NEW s \in Sessions,
         \/ \E arm \in {"quota", "other"} : FirstTryFails(s, arm)
         \/ NoAnswer(s) \/ RetriesFail(s)
  PROVE  GuardMoves(s) /\ RescueMoves(s)
<1> DEFINE v == turn[s].svc
<1>1. TurnOK(turn[s])
  BY DEF IInv, TurnsOK
<1>2. turn[s].at # "rescue" /\ turn[s].guard = None
  BY <1>1 DEF FirstTryFails, NoAnswer, RetriesFail, TurnOK
<1>3. \E arm \in Arms : \E left : Walk(s, arm, left, Original(v, s))
  <2>1. ASSUME NEW arm \in {"quota", "other"}, FirstTryFails(s, arm)
        PROVE  Walk(s, arm, Fallbacks \ {Serving(v, s)}, Original(v, s)) /\ arm \in Arms
    BY <2>1 DEF FirstTryFails, Arms
  <2>2. ASSUME NoAnswer(s)
        PROVE  Walk(s, "silent", Fallbacks \ {Serving(v, s)}, Original(v, s)) /\ "silent" \in Arms
    BY <2>2 DEF NoAnswer, Arms
  <2>3. ASSUME RetriesFail(s)
        PROVE  Walk(s, turn[s].arm, Fallbacks \ {primary[v]}, Original(v, s)) /\ turn[s].arm \in Arms
    BY <1>1, <2>3 DEF RetriesFail, TurnOK, Arms
  <2> QED BY <2>1, <2>2, <2>3
<1>4. PICK arm \in Arms : \E left : Walk(s, arm, left, Original(v, s))
  BY <1>3
<1>5. PICK left : Walk(s, arm, left, Original(v, s))
  BY <1>4
<1>6. Over(s) \/ \E p \in left : Asked(s, arm, p, left, Original(v, s))
  BY <1>5, WalkMoves
<1>7. turn'[s].guard # None => turn'[s].guard = Original(v, s) /\ turn'[s].svc = v
  <2>1. CASE Over(s)
    BY <2>1 DEF Over, Idle
  <2>2. ASSUME NEW p \in left, Asked(s, arm, p, left, Original(v, s))
        PROVE  turn'[s].svc = v /\ turn'[s].guard \in {Original(v, s), None}
    BY <2>2 DEF Asked
  <2> QED BY <1>6, <2>1, <2>2
<1>8. GuardMoves(s)
  BY <1>2, <1>7 DEF GuardMoves
<1>9. RescueMoves(s)
  BY <1>2 DEF RescueMoves
<1> QED BY <1>8, <1>9

(* ... and ends with the pin given back, or the session switched.          *)
LEMMA RescueEnds ==
  ASSUME IInv, NEW s \in Sessions,
         \/ RescueSucceeds(s) \/ RescueFails(s) \/ Drop(s)
         \/ \E p \in Fallbacks : MovesOn(s, p) \/ Refuses(s, p)
  PROVE  GuardMoves(s) /\ RescueMoves(s)
<1> DEFINE v == turn[s].svc
<1>0. /\ turn = [u \in Sessions |-> turn[u]] /\ v \in Services /\ TurnOK(turn[s])
      /\ pin \in [Services -> [Sessions -> Pins]]
  BY DEF IInv, TurnsOK, PinsOK, TurnOK, Turns
<1>1. Idle.at = "idle" /\ Idle.guard = None
  BY DEF Idle
<1>2. turn[s].guard # None => Restored(s) = turn[s].guard
  BY DEF Restored
<1>3. CASE Drop(s)
  <2>1. turn'[s] = Idle /\ pin'[v][s] = Restored(s)
    <3>1. turn' = [turn EXCEPT ![s] = Idle] /\ pin' = [pin EXCEPT ![v][s] = Restored(s)]
      BY <1>3 DEF Drop, SetPin
    <3> QED BY <1>0, <3>1
  <2> QED BY <1>1, <1>2, <2>1 DEF GuardMoves, GivenBack, RescueMoves
<1>4. CASE RescueFails(s)
  <2>1. /\ Walk(s, turn[s].arm, turn[s].left, turn[s].guard) /\ turn[s].at = "rescue"
        /\ turn[s].arm \in Arms /\ (turn[s].guard # None <=> turn[s].arm \in Guarded)
    BY <1>0, <1>4 DEF RescueFails, TurnOK, Turns
  <2>2. \/ Over(s)
        \/ \E p \in turn[s].left :
             /\ Asked(s, turn[s].arm, p, turn[s].left, turn[s].guard)
             /\ turn[s].arm \in Guarded => pin'[v][s] = Lent(p, v)
    BY <2>1, WalkMoves
  <2>3. CASE Over(s)
    BY <1>1, <1>2, <2>3 DEF Over, GuardMoves, GivenBack, RescueMoves
  <2>4. ASSUME NEW p \in turn[s].left, Asked(s, turn[s].arm, p, turn[s].left, turn[s].guard),
               turn[s].arm \in Guarded => pin'[v][s] = Lent(p, v)
        PROVE  GuardMoves(s) /\ RescueMoves(s)
    <3>1. /\ turn'[s].at = "rescue" /\ turn'[s].svc = v /\ turn'[s].arm = turn[s].arm
          /\ turn'[s].fallback = p /\ turn'[s].left = turn[s].left \ {p}
          /\ turn'[s].guard = IF turn[s].arm \in Guarded THEN turn[s].guard ELSE None
          /\ turn[s].arm # "server" => turn'[s].chain = Fallbacks \ {p}
      BY <2>4 DEF Asked
    <3>2. NextCandidate(s)
      BY <2>1, <3>1 DEF NextCandidate
    <3>3. turn[s].guard # None => pin'[v][s] = Lent(turn'[s].fallback, v)
      BY <2>1, <2>4, <3>1
    <3>4. turn'[s].guard = turn[s].guard
      BY <3>2 DEF NextCandidate
    <3>5. GuardMoves(s)
      BY <3>2, <3>3, <3>4 DEF GuardMoves
    <3>6. RescueMoves(s)
      BY <3>2 DEF RescueMoves
    <3> QED BY <3>5, <3>6
  <2> QED BY <2>2, <2>3, <2>4
<1>5. CASE RescueSucceeds(s)
  <2>1. turn'[s].at \in {"asking", "idle"} /\ turn'[s].guard = None
    BY <1>5, GoOnMoves DEF RescueSucceeds
  <2>2. ASSUME turn[s].guard # None
        PROVE  GivenBack(s) \/ Kept(s)
    <3>1. turn[s].arm # "server"
      BY <1>0, <2>2 DEF TurnOK, Guarded
    <3>2. CASE Sticks(s)
      BY <1>0, <1>5, <3>1, <3>2, StaysAnnounced
    <3>3. CASE ~Sticks(s)
      <4>1. SetPin(v, s, [Restored(s) EXCEPT !.moved = FALSE])
        BY <1>5, <3>3 DEF RescueSucceeds, TakeSwapEvent, Sticks
      <4>2. pin' = [pin EXCEPT ![v][s] = [Restored(s) EXCEPT !.moved = FALSE]]
        BY <4>1 DEF SetPin
      <4> QED BY <1>0, <1>2, <2>2, <4>2 DEF GivenBack
    <3> QED BY <3>2, <3>3
  <2> QED BY <2>1, <2>2 DEF GuardMoves, RescueMoves
<1>6. ASSUME NEW p \in Fallbacks, MovesOn(s, p) \/ Refuses(s, p)
      PROVE  GuardMoves(s) /\ RescueMoves(s)
  <2>1. turn[s].at = "rescue" /\ p \in turn[s].chain /\ turn[s] \in Turns
    BY <1>0, <1>6 DEF MovesOn, Refuses, TurnOK
  <2>2. turn'[s] \in {[turn[s] EXCEPT !.chain = {}, !.refused = FALSE],
                     [turn[s] EXCEPT !.chain = @ \ {p}, !.refused = TRUE]}
    BY <1>0, <1>6 DEF MovesOn, Refuses
  <2>3. DownTheChain(s)
    <3>1. PICK c \in SUBSET (turn[s].chain \ {p}), b \in BOOLEAN :
            turn'[s] = [turn[s] EXCEPT !.chain = c, !.refused = b]
      BY <2>2
    <3>2. /\ turn'[s].at = "rescue"
          /\ turn'[s].svc = turn[s].svc /\ turn'[s].arm = turn[s].arm
          /\ turn'[s].guard = turn[s].guard
          /\ turn'[s].fallback = turn[s].fallback /\ turn'[s].left = turn[s].left
          /\ turn'[s].chain = c
      BY <2>1, <3>1 DEF Turns
    <3> QED BY <2>1, <3>2 DEF DownTheChain
  <2>4. pin'[v][s].lender = pin[v][s].lender
    <3>1. pin[v][s] \in Pins
      BY <1>0
    <3>2. \/ pin' = pin
          \/ pin' = [pin EXCEPT ![v][s] = [pin[v][s] EXCEPT !.to = p, !.moved = TRUE]]
      BY <1>6 DEF MovesOn, MoveOn, Refuses, SetPin
    <3>3. CASE pin' = pin
      BY <3>3
    <3>4. CASE pin' = [pin EXCEPT ![v][s] = [pin[v][s] EXCEPT !.to = p, !.moved = TRUE]]
      <4>1. pin'[v][s] = [pin[v][s] EXCEPT !.to = p, !.moved = TRUE]
        BY <1>0, <3>4
      <4> QED BY <3>1, <4>1 DEF Pins
    <3> QED BY <3>2, <3>3, <3>4
  <2>5. turn[s].guard # None => DownTheChain(s) /\ pin'[v][s].lender = pin[v][s].lender
    BY <2>3, <2>4
  <2>6. turn'[s].guard = turn[s].guard
    BY <2>3 DEF DownTheChain
  <2> QED BY <2>3, <2>5, <2>6 DEF GuardMoves, RescueMoves
<1> QED BY <1>3, <1>4, <1>5, <1>6

(* Every step, of this session's turn or of anybody else.                  *)
LEMMA StepMoves ==
  ASSUME IInv, Next, NEW s \in Sessions
  PROVE  GuardMoves(s) /\ RescueMoves(s)
<1>0. turn = [u \in Sessions |-> turn[u]] /\ TurnOK(turn[s])
  BY DEF IInv, TurnsOK
<1>1. ASSUME turn'[s] = turn[s] PROVE GuardMoves(s) /\ RescueMoves(s)
  BY <1>1 DEF GuardMoves, RescueMoves
<1>2. ASSUME turn[s].guard = None, turn'[s].guard = None, turn[s].at # "rescue"
      PROVE  GuardMoves(s) /\ RescueMoves(s)
  BY <1>2 DEF GuardMoves, RescueMoves
<1>3. ASSUME NEW u \in Sessions, TurnStep(u), u # s PROVE turn'[s] = turn[s]
  BY <1>0, <1>3
  DEF TurnStep, Start, Answer, AnswerSwitched, MovesOn, Refuses, NoAnswer, FirstTryFails, Retry, RetrySucceeds,
      RetriesFail, ContinuationFails, RescueSucceeds, RescueFails, Drop, Walk, Try, GoOn, Ask, End
<1>4. CASE TurnStep(s)
  <2>1. CASE \/ \E arm \in {"quota", "other"} : FirstTryFails(s, arm)
             \/ NoAnswer(s) \/ RetriesFail(s)
    BY <2>1, RescueBegins
  <2>2. CASE \/ RescueSucceeds(s) \/ RescueFails(s) \/ Drop(s)
             \/ \E p \in Fallbacks : MovesOn(s, p) \/ Refuses(s, p)
    BY <2>2, RescueEnds
  <2>3. CASE \/ Start(s) \/ Answer(s) \/ \E p \in Fallbacks : AnswerSwitched(s, p)
             \/ RetrySucceeds(s) \/ ContinuationFails(s)
    <3>1. turn[s].at # "rescue" /\ turn[s].guard = None
      BY <1>0, <2>3
      DEF Start, Answer, AnswerSwitched, RetrySucceeds, ContinuationFails, TurnOK
    <3>2. GoOn(s) \/ Start(s)
      BY <2>3 DEF Answer, AnswerSwitched, RetrySucceeds, ContinuationFails, GoOn
    <3> QED BY <1>2, <3>1, <3>2, GoOnMoves
  <2>4. ASSUME NEW arm \in {"stream", "server"}, Retry(s, arm)
        PROVE  GuardMoves(s) /\ RescueMoves(s)
    <3>1. turn[s].at = "asking" /\ turn[s].guard = None /\ turn[s] \in Turns
      BY <1>0, <2>4 DEF Retry, TurnOK
    <3>2. turn'[s] = [turn[s] EXCEPT !.at = "retrying", !.arm = arm]
      BY <1>0, <2>4 DEF Retry
    <3>3. turn'[s].guard = None
      BY <3>1, <3>2 DEF Turns
    <3> QED BY <1>2, <3>1, <3>3
  <2> QED BY <1>4, <2>1, <2>2, <2>3, <2>4 DEF TurnStep
<1>5. CASE \/ \E u \in Sessions : Load(u) \/ \E p \in Providers : Rebuild(u, p)
           \/ Switched \/ Store \/ Pin \/ PinFails
  <2>1. turn' = turn
    BY <1>5 DEF Load, Rebuild, Switched, Store, Pin, PinFails, turns
  <2> QED BY <1>1, <2>1
<1> QED BY <1>1, <1>3, <1>4, <1>5 DEF Next, TurnStep

(* What a guard gives back is what it found, however many candidates were  *)
(* lent the pin in between, and it does on every way out of a rescue       *)
(* (FallbackProviderGuard, tool_loop.rs).                                  *)
THEOREM PinsAsFound == Spec => GivenBackAsFound
<1>1. IInv /\ [Next]_vars => [\A s \in Sessions : GuardMoves(s)]_vars
  BY StepMoves
<1> QED BY <1>1, Invariance, PTL DEF Spec, GivenBackAsFound

(* The walks over the fallbacks end (the five arms of tool_loop.rs).       *)
THEOREM RescuesEnd == Spec => CandidatesRunOut
<1>1. IInv /\ [Next]_vars => [\A s \in Sessions : RescueMoves(s)]_vars
  BY StepMoves
<1> QED BY <1>1, Invariance, PTL DEF Spec, CandidatesRunOut
=============================================================================
