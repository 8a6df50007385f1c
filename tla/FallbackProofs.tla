-------------------------- MODULE FallbackProofs --------------------------
(***************************************************************************)
(* Proofs about FallbackProvider, for any number of overlapping turns and  *)
(* any length of the chain.  The inductive invariant adds to the types     *)
(* that what a turn is about to write to `active` is a fallback, never the *)
(* primary.  A second invariant, about the history of MCFallback, says     *)
(* what a request has asked and how far events lag behind the index.       *)
(***************************************************************************)
EXTENDS MCFallback, TLAPS

(* A provider tried after the active one, or promoted, is a fallback.      *)
TargetInv ==
  \A t \in Turns : turn[t].at \in {"try_next", "swap", "record"} => turn[t].current > 0

IInv == TypeOK /\ TargetInv

(* At the start no turn is about to write.                                 *)
LEMMA InitInv == Init => IInv
  BY FallbacksAssumption, RetriesAssumption
  DEF Init, IInv, TypeOK, TargetInv, IdleTurn, NoEvent, TurnRecords, Events,
      TurnPlaces, Providers

LEMMA IdleRecord == IdleTurn \in TurnRecords
  BY FallbacksAssumption, RetriesAssumption
  DEF IdleTurn, TurnRecords, TurnPlaces, Providers

(* The record of a turn whose request is over.                             *)
LEMMA BeyondRecord ==
  ASSUME NEW t \in Turns, turn[t] \in TurnRecords, NEW at \in TurnPlaces
  PROVE  /\ Beyond(t, at) \in TurnRecords
         /\ Beyond(t, at).at = at
         /\ ~Beyond(t, at).forced
         /\ Beyond(t, at).retries = turn[t].retries
         /\ Beyond(t, at).drops = turn[t].drops
<1>1. turn[t].retries \in 0 .. MaxRetries /\ turn[t].drops \in 0 .. MaxDrops
  BY DEF TurnRecords
<1>2. Beyond(t, at) \in TurnRecords
  BY <1>1, IdleRecord DEF Beyond, TurnRecords
<1>3. ~IdleTurn.forced
  BY DEF IdleTurn
<1> QED BY <1>2, <1>3, IdleRecord DEF Beyond, TurnRecords

(* What the new record and the new `active` of a step must satisfy.        *)
GoodStep(t, record) ==
  /\ record \in TurnRecords
  /\ record.at \in {"try_next", "swap", "record"} => record.current > 0
  /\ \/ active' = active
     \/ /\ turn[t].at = "swap" /\ active' = turn[t].current
        /\ ReachOf(record) = Fallbacks
  /\ pending' \in Events
  /\ \A p \in Providers :
       active + 1 >= p /\ ReachOf(turn[t]) >= p => ReachOf(record) >= p

(* A failed provider is followed by the next one, which lies further on.   *)
LEMMA TryNextGood ==
  ASSUME NEW t \in Turns, NEW p \in Nat \ {0}, IInv, TryNext(t, p),
         UNCHANGED <<active, pending>>,
         \/ turn[t].at = "try_active" /\ p = turn[t].start + 1
         \/ turn[t].at = "try_next" /\ p = turn[t].current + 1
  PROVE  \E record : Become(t, record) /\ GoodStep(t, record)
<1> DEFINE tried == turn[t].tried \cup {turn[t].current}
           more == [turn[t] EXCEPT !.at = "try_next", !.current = p, !.tried = tried]
           last == [turn[t] EXCEPT !.at = "failed", !.tried = tried]
<1>1. turn[t] \in TurnRecords /\ pending \in Events /\ tried \subseteq Providers
  BY DEF IInv, TypeOK, TurnRecords
<1>2. CASE p <= Fallbacks
  <2>1. more \in TurnRecords /\ more.at = "try_next" /\ more.current = p
    <3>1. p \in Providers /\ "try_next" \in TurnPlaces
      BY <1>2, FallbacksAssumption DEF Providers, TurnPlaces
    <3> HIDE DEF tried
    <3>2. more.at = "try_next" /\ more.current = p
      BY <1>1 DEF TurnRecords
    <3>3. more \in TurnRecords
      BY <1>1, <3>1 DEF TurnRecords
    <3> QED BY <3>2, <3>3
  <2>2. ReachOf(more) >= ReachOf(turn[t])
    BY <1>1, <2>1, FallbacksAssumption DEF ReachOf, TurnRecords, Providers
  <2>3. GoodStep(t, more)
    BY <1>1, <2>1, <2>2, FallbacksAssumption DEF GoodStep, Providers, ReachOf, TurnRecords
  <2> QED BY <1>2, <2>3 DEF TryNext
<1>3. CASE p > Fallbacks
  <2>1. last \in TurnRecords /\ last.at = "failed"
    BY <1>1 DEF TurnRecords, TurnPlaces
  <2>2. ReachOf(last) = Fallbacks
    BY <2>1 DEF ReachOf
  <2>3. GoodStep(t, last)
    BY <1>1, <2>1, <2>2, FallbacksAssumption DEF GoodStep, Providers
  <2> QED BY <1>3, <2>3, FallbacksAssumption DEF TryNext
<1> QED BY <1>2, <1>3, FallbacksAssumption

(* Going idle writes nothing to the chain.                                 *)
LEMMA IdleGood ==
  ASSUME NEW t \in Turns, IInv, UNCHANGED <<active, pending>>
  PROVE  GoodStep(t, IdleTurn)
  BY FallbacksAssumption, RetriesAssumption
  DEF IInv, TypeOK, GoodStep, IdleTurn, TurnRecords, TurnPlaces, Providers, ReachOf

(* A step to a place where nothing is about to be written.                 *)
LEMMA MoveGood ==
  ASSUME NEW t \in Turns, NEW record \in TurnRecords, IInv,
         record.at \in {"idle", "load_start", "stream", "take", "taken", "error"}
           \/ (record.at = "record" /\ record.current > 0),
         active' = active \/ (turn[t].at = "swap" /\ active' = turn[t].current),
         pending' \in Events
  PROVE  GoodStep(t, record)
  BY FallbacksAssumption DEF GoodStep, ReachOf, Providers

(* Every step of a turn writes a record that keeps the invariant and that  *)
(* reaches no further back than the chain and the turn did.                *)
LEMMA StepGood ==
  ASSUME NEW t \in Turns, IInv, Begin(t) \/ TurnStep(t)
  PROVE  \E record : Become(t, record) /\ GoodStep(t, record)
<1> DEFINE R == turn[t]
<1>0. /\ R \in TurnRecords /\ pending \in Events /\ active \in Providers
      /\ Fallbacks \in Nat \ {0}
  BY FallbacksAssumption DEF IInv, TypeOK
<1>1. CASE Begin(t)
  <2>1. [IdleTurn EXCEPT !.at = "load_start"] \in TurnRecords
    BY IdleRecord DEF TurnRecords, TurnPlaces
  <2>2. [IdleTurn EXCEPT !.at = "load_start"].at = "load_start"
    BY DEF IdleTurn
  <2> QED BY <1>0, <1>1, <2>1, <2>2, MoveGood DEF Begin
<1>2. CASE LoadStart(t)
  <2> DEFINE N == [R EXCEPT !.at = "load_active", !.start = active, !.tried = {},
                     !.forced = FALSE]
  <2>1. N \in TurnRecords /\ N.at = "load_active" /\ N.start = active
    BY <1>0 DEF TurnRecords, TurnPlaces
  <2>2. ReachOf(N) > active
    BY <1>0, <2>1 DEF ReachOf, Providers
  <2>3. GoodStep(t, N)
    BY <1>0, <1>2, <2>1, <2>2 DEF LoadStart, GoodStep, Providers, ReachOf, TurnRecords
  <2> QED BY <1>2, <2>3 DEF LoadStart
<1>3. CASE LoadActive(t)
  <2> DEFINE N == [R EXCEPT !.at = "try_active", !.current = active]
  <2>1. N \in TurnRecords /\ N.at = "try_active" /\ N.start = R.start
    BY <1>0 DEF TurnRecords, TurnPlaces
  <2>2. ReachOf(N) = ReachOf(R)
    BY <1>3, <2>1 DEF ReachOf, LoadActive
  <2>3. GoodStep(t, N)
    BY <1>0, <1>3, <2>1, <2>2 DEF LoadActive, GoodStep
  <2> QED BY <1>3, <2>3 DEF LoadActive
<1>4. ASSUME NEW at \in {"stream", "error", "take", "taken", "load_start"},
             Become(t, Beyond(t, at)), pending' \in Events,
             active' = active \/ (R.at = "swap" /\ active' = R.current)
      PROVE  \E record : Become(t, record) /\ GoodStep(t, record)
  <2>1. Beyond(t, at) \in TurnRecords /\ Beyond(t, at).at = at
    BY <1>0, BeyondRecord DEF TurnPlaces
  <2> QED BY <1>4, <2>1, MoveGood
<1>5. CASE GiveUp(t) \/ Leave(t) \/ AnswerUsed(t)
  BY <1>5, IdleGood DEF GiveUp, Leave, AnswerUsed, EndTurn
<1>6. CASE ActiveFails(t)
  <2>1. R.start + 1 \in Nat \ {0}
    BY <1>0 DEF TurnRecords, Providers
  <2> QED BY <1>6, <2>1, TryNextGood DEF ActiveFails
<1>7. CASE FallbackAnswers(t)
  <2> DEFINE N == [R EXCEPT !.at = "swap"]
  <2>1. N \in TurnRecords /\ N.at = "swap" /\ N.current = R.current
    BY <1>0 DEF TurnRecords, TurnPlaces
  <2>2. R.current > 0 /\ ReachOf(N) = ReachOf(R)
    BY <1>7, <2>1 DEF ReachOf, FallbackAnswers, IInv, TargetInv
  <2> QED BY <1>0, <1>7, <2>1, <2>2 DEF FallbackAnswers, GoodStep
<1>8. CASE FallbackFails(t)
  <2>1. R.current + 1 \in Nat \ {0}
    BY <1>0 DEF TurnRecords, Providers
  <2> QED BY <1>8, <2>1, TryNextGood DEF FallbackFails
<1>9. CASE PromoteSwap(t)
  <2>1. CASE active # R.current
    <3> DEFINE N == [R EXCEPT !.at = "record", !.old = active]
    <3>1. N \in TurnRecords /\ N.at = "record" /\ N.current = R.current
      BY <1>0 DEF TurnRecords, TurnPlaces
    <3>2. R.current > 0
      BY <1>9 DEF PromoteSwap, IInv, TargetInv
    <3> QED BY <1>0, <1>9, <2>1, <3>1, <3>2, MoveGood DEF PromoteSwap
  <2>2. CASE active = R.current
    <3>1. \E at \in {"load_start", "stream"} : Become(t, Beyond(t, at))
      BY <1>9, <2>2 DEF PromoteSwap, AfterPromote
    <3> QED BY <1>0, <1>4, <1>9, <2>2, <3>1 DEF PromoteSwap
  <2> QED BY <2>1, <2>2
<1>10. CASE PromoteRecord(t)
  <2>1. \E at \in {"load_start", "stream"} : Become(t, Beyond(t, at))
    BY <1>10 DEF PromoteRecord, AfterPromote
  <2>2. pending' \in Events /\ active' = active
    BY <1>0, <1>10 DEF PromoteRecord, Events, TurnRecords
  <2> QED BY <1>4, <2>1, <2>2
<1>11. CASE TakeSwapEvent(t)
  <2>1. pending' \in Events /\ active' = active
    BY <1>0, <1>11 DEF TakeSwapEvent, Events, NoEvent, Providers
  <2> QED BY <1>4, <1>11, <2>1 DEF TakeSwapEvent
<1>12. CASE ForceNextFallback(t)
  <2> DEFINE N == [IdleTurn EXCEPT !.at = "swap", !.current = active + 1, !.forced = TRUE]
  <2>1. active + 1 \in Providers
    BY <1>0, <1>12 DEF ForceNextFallback, Providers
  <2>2. N \in TurnRecords /\ N.at = "swap" /\ N.current = active + 1
    BY <2>1, IdleRecord DEF TurnRecords, TurnPlaces
  <2>3. GoodStep(t, N)
    <3>1. ReachOf(N) = active + 1
      BY <2>2 DEF ReachOf
    <3> QED BY <1>0, <1>12, <2>2, <3>1 DEF ForceNextFallback, GoodStep, Providers
  <2> QED BY <1>12, <2>3 DEF ForceNextFallback
<1>13. CASE \/ ActiveAnswers(t) \/ ActiveRefuses(t) \/ HandshakeTimesOut(t) \/ StreamEnds(t)
            \/ StreamBreaks(t) \/ Rescued(t)
  <2>1. /\ \E at \in {"stream", "error", "take"} : Become(t, Beyond(t, at))
        /\ UNCHANGED <<active, pending>>
    BY <1>13 DEF ActiveAnswers, ActiveRefuses, HandshakeTimesOut, StreamEnds, StreamBreaks, Rescued
  <2> QED BY <1>0, <1>4, <2>1
<1>14. CASE RetryAfterError(t)
  <2> DEFINE N == [Beyond(t, "load_start") EXCEPT !.retries = @ + 1]
  <2>1. N \in TurnRecords /\ N.at = "load_start"
    <3>1. /\ Beyond(t, "load_start") \in TurnRecords
          /\ Beyond(t, "load_start").at = "load_start"
          /\ Beyond(t, "load_start").retries = R.retries
      BY <1>0, BeyondRecord DEF TurnPlaces
    <3>2. R.retries + 1 \in 0 .. MaxRetries
      BY <1>0, <1>14, RetriesAssumption DEF RetryAfterError, TurnRecords
    <3> QED BY <3>1, <3>2 DEF TurnRecords
  <2> QED BY <1>0, <1>14, <2>1, MoveGood DEF RetryAfterError
<1>15. CASE RetryDropped(t)
  <2> DEFINE N == [IdleTurn EXCEPT !.at = "load_start", !.drops = R.drops + 1]
  <2>1. N \in TurnRecords /\ N.at = "load_start"
    <3>1. R.drops + 1 \in 0 .. MaxDrops
      BY <1>0, <1>15, RetriesAssumption DEF RetryDropped, TurnRecords
    <3> QED BY <3>1, IdleRecord DEF TurnRecords, TurnPlaces
  <2> QED BY <1>0, <1>15, <2>1, MoveGood DEF RetryDropped
<1> QED
  BY <1>1, <1>2, <1>3, <1>5, <1>6, <1>7, <1>8, <1>9, <1>10, <1>11, <1>12, <1>13, <1>14, <1>15
  DEF TurnStep

(* Every step of the chain keeps the invariant.                            *)
LEMMA StepInv == IInv /\ [Next]_vars => IInv'
<1> SUFFICES ASSUME IInv, [Next]_vars PROVE IInv'
  OBVIOUS
<1>1. ASSUME NEW t \in Turns, Begin(t) \/ TurnStep(t)
      PROVE  IInv'
  <2>1. PICK record : Become(t, record) /\ GoodStep(t, record)
    BY <1>1, StepGood
  <2>2. active' \in Providers
    BY <2>1 DEF IInv, TypeOK, GoodStep, TurnRecords
  <2> QED BY <2>1, <2>2 DEF GoodStep, Become, IInv, TypeOK, TargetInv
<1>2. CASE UNCHANGED vars
  BY <1>2 DEF vars, IInv, TypeOK, TargetInv
<1> QED BY <1>1, <1>2 DEF Next

(* The inductive invariant holds in every state of every execution.        *)
THEOREM InductiveInvariant == Spec => []IInv
  BY InitInv, StepInv, PTL DEF Spec

(* `active` stays an index of the chain, however turns overlap: the        *)
(* indexing of the fallbacks never goes out of bounds.                     *)
THEOREM TypeCorrect == Spec => []TypeOK
  BY InductiveInvariant, PTL DEF IInv

(* A provider the chain and every request in flight have passed is never   *)
(* made active again.                                                      *)
THEOREM NoWayBack == Spec => LeftBehindForEver
<1>1. ASSUME IInv, [Next]_vars, NEW p \in Providers, LeftBehind(p)
      PROVE  LeftBehind(p)'
  <2>1. ASSUME NEW t \in Turns, Begin(t) \/ TurnStep(t)
        PROVE  LeftBehind(p)'
    <3>1. PICK record : Become(t, record) /\ GoodStep(t, record)
      BY <1>1, <2>1, StepGood
    <3>2. ReachOf(record) >= p
      BY <1>1, <3>1 DEF GoodStep, LeftBehind, IInv, TypeOK, Providers
    <3>3. turn[t].at = "swap" => ReachOf(turn[t]) = turn[t].current
      BY DEF ReachOf
    <3>4. active' >= p
      BY <1>1, <3>1, <3>3 DEF GoodStep, LeftBehind
    <3>5. \A u \in Turns : turn'[u] = IF u = t THEN record ELSE turn[u]
      BY <1>1, <3>1 DEF Become, IInv, TypeOK
    <3>6. ASSUME NEW u \in Turns PROVE ReachOf(turn'[u]) >= p
      BY <1>1, <3>2, <3>5 DEF LeftBehind
    <3>7. LeftBehind(p)' <=> (active' >= p /\ \A u \in Turns : ReachOf(turn'[u]) >= p)
      BY DEF LeftBehind, ReachOf
    <3> QED BY <3>4, <3>6, <3>7
  <2>2. CASE UNCHANGED vars
    BY <1>1, <2>2 DEF vars, LeftBehind, ReachOf
  <2> QED BY <1>1, <2>1, <2>2 DEF Next
<1>2. IInv /\ [Next]_vars => [\A p \in Providers : LeftBehind(p) => LeftBehind(p)']_vars
  BY <1>1
<1> QED BY <1>2, InductiveInvariant, PTL DEF Spec, LeftBehindForEver

(* Once any fallback has become active the primary is never used again.    *)
THEOREM PrimarySkipped == Spec => PrimaryNeverReturns
<1>1. ASSUME IInv, [Next]_vars, active # 0 PROVE active' # 0
  <2>1. ASSUME NEW t \in Turns, Begin(t) \/ TurnStep(t) PROVE active' # 0
    <3>1. PICK record : GoodStep(t, record)
      BY <1>1, <2>1, StepGood
    <3> QED BY <1>1, <3>1 DEF GoodStep, IInv, TargetInv
  <2> QED BY <1>1, <2>1 DEF Next, vars
<1>2. IInv /\ [Next]_vars => [active # 0 => active' # 0]_vars
  BY <1>1
<1> QED BY <1>2, InductiveInvariant, PTL DEF Spec, PrimaryNeverReturns
-----------------------------------------------------------------------------
(* What a request has asked so far, and what it read of the index.         *)
RequestOK(t) ==
  LET r == turn[t] IN
  /\ r.at = "load_active" => r.start = active \/ moved[t]
  /\ r.at = "try_active" => r.current = r.start \/ moved[t]
  /\ r.at = "try_next" =>
       /\ r.current > r.start
       /\ \A p \in Providers : p > r.start /\ p < r.current => p \in r.tried
       /\ r.start \in r.tried \/ moved[t]
  /\ r.at = "failed" =>
       /\ \A p \in Providers : p > r.start => p \in r.tried
       /\ r.start \in r.tried \/ moved[t]

RequestInv == \A t \in Turns : RequestOK(t)

LastWord == IF pending # NoEvent THEN pending.to ELSE told

(* Unless promotes have overlapped, at most one event is still to be       *)
(* recorded, that of the last swap, and otherwise the last word is right.  *)
WordInv ==
  ~crossed =>
    /\ \A t \in Turns : Recording(t) => turn[t].current = active
    /\ \A t, u \in Turns : Recording(t) /\ Recording(u) => t = u
    /\ (\A t \in Turns : ~Recording(t)) => active = LastWord

HistoryTypes == moved \in [Turns -> BOOLEAN]

(* The next provider of the chain, after the ones that have failed.        *)
LEMMA TryNextAsks ==
  ASSUME NEW t \in Turns, NEW p \in Nat, IInv, TryNext(t, p), NEW m \in BOOLEAN,
         p > turn[t].start,
         \A q \in Providers : q > turn[t].start /\ q < p =>
           q \in turn[t].tried \cup {turn[t].current},
         turn[t].start \in turn[t].tried \cup {turn[t].current} \/ m
  PROVE  LET r == turn'[t] IN
         /\ r.at \in {"try_next", "failed"}
         /\ r.start = turn[t].start
         /\ r.at = "try_next" =>
              /\ r.current > r.start
              /\ \A q \in Providers : q > r.start /\ q < r.current => q \in r.tried
              /\ r.start \in r.tried \/ m
         /\ r.at = "failed" =>
              /\ \A q \in Providers : q > r.start => q \in r.tried
              /\ r.start \in r.tried \/ m
<1> DEFINE tried == turn[t].tried \cup {turn[t].current}
<1>0. turn \in [Turns -> TurnRecords] /\ turn[t] \in TurnRecords /\ Fallbacks \in Nat
  BY FallbacksAssumption DEF IInv, TypeOK
<1>1. CASE p <= Fallbacks
  <2>1. turn'[t] = [turn[t] EXCEPT !.at = "try_next", !.current = p, !.tried = tried]
    BY <1>0, <1>1 DEF TryNext, Become
  <2> HIDE DEF tried
  <2>2. /\ turn'[t].at = "try_next" /\ turn'[t].current = p
        /\ turn'[t].tried = tried /\ turn'[t].start = turn[t].start
    BY <1>0, <2>1 DEF TurnRecords
  <2> USE DEF tried
  <2> QED BY <2>2
<1>2. CASE p > Fallbacks
  <2>1. turn'[t] = [turn[t] EXCEPT !.at = "failed", !.tried = tried]
    BY <1>0, <1>2 DEF TryNext, Become
  <2> HIDE DEF tried
  <2>2. /\ turn'[t].at = "failed" /\ turn'[t].tried = tried
        /\ turn'[t].start = turn[t].start
    BY <1>0, <2>1 DEF TurnRecords
  <2> USE DEF tried
  <2>3. \A q \in Providers : q < p
    BY <1>0, <1>2 DEF Providers
  <2> QED BY <2>2, <2>3
<1> QED BY <1>0, <1>1, <1>2

(* A step keeps what it says of the turn that takes it.                    *)
LEMMA OwnRequest ==
  ASSUME NEW t \in Turns, IInv, HistoryTypes, RequestOK(t), Begin(t) \/ TurnStep(t), MCNext
  PROVE  RequestOK(t)'
<1> DEFINE R == turn[t]
<1>0. /\ turn \in [Turns -> TurnRecords] /\ R \in TurnRecords /\ active \in Providers
      /\ Fallbacks \in Nat \ {0} /\ moved[t] \in BOOLEAN
      /\ IdleTurn.at = "idle"
  BY FallbacksAssumption DEF IInv, TypeOK, HistoryTypes, IdleTurn
<1>1. moved'[t] = IF turn'[t].at = "load_active"
                    THEN R.at = "load_active" /\ (moved[t] \/ active' # active)
                    ELSE moved[t] /\ turn'[t].at \in {"try_active", "try_next", "failed"}
  BY DEF MCNext
<1>2. ASSUME turn'[t].at \notin {"load_active", "try_active", "try_next", "failed"}
      PROVE  RequestOK(t)'
  BY <1>2 DEF RequestOK
<1>3. ASSUME NEW at \in {"stream", "error", "take", "taken", "load_start"},
             Become(t, Beyond(t, at))
      PROVE  RequestOK(t)'
  <2>1. turn'[t].at = at
    BY <1>0, <1>3, BeyondRecord DEF Become, TurnPlaces
  <2> QED BY <1>2, <2>1
<1>4. CASE LoadStart(t)
  <2>1. turn'[t] = [R EXCEPT !.at = "load_active", !.start = active, !.tried = {},
                             !.forced = FALSE]
    BY <1>0, <1>4 DEF LoadStart, Become
  <2>2. turn'[t].at = "load_active" /\ turn'[t].start = active'
    BY <1>0, <1>4, <2>1 DEF LoadStart, TurnRecords
  <2> QED BY <2>2 DEF RequestOK
<1>5. CASE LoadActive(t)
  <2>1. turn'[t] = [R EXCEPT !.at = "try_active", !.current = active]
    BY <1>0, <1>5 DEF LoadActive, Become
  <2>2. /\ turn'[t].at = "try_active" /\ turn'[t].start = R.start
        /\ turn'[t].current = active
    BY <1>0, <2>1 DEF TurnRecords
  <2>3. R.start = active \/ moved'[t]
    BY <1>1, <1>5, <2>2 DEF RequestOK, LoadActive
  <2> QED BY <2>2, <2>3 DEF RequestOK
<1>6. CASE ActiveFails(t)
  <2>0. R.start \in Nat /\ R.at = "try_active" /\ TryNext(t, R.start + 1)
    BY <1>0, <1>6 DEF ActiveFails, TurnRecords, Providers
  <2>1. R.start \in R.tried \cup {R.current} \/ moved[t]
    BY <1>6, <2>0 DEF RequestOK
  <2>2. \A q \in Providers : ~(q > R.start /\ q < R.start + 1)
    BY <2>0 DEF Providers
  <2>3. LET r == turn'[t] IN
        /\ r.at \in {"try_next", "failed"}
        /\ r.at = "try_next" =>
             /\ r.current > r.start
             /\ \A q \in Providers : q > r.start /\ q < r.current => q \in r.tried
             /\ r.start \in r.tried \/ moved[t]
        /\ r.at = "failed" =>
             /\ \A q \in Providers : q > r.start => q \in r.tried
             /\ r.start \in r.tried \/ moved[t]
    BY <1>0, <2>0, <2>1, <2>2, TryNextAsks
  <2> QED BY <1>1, <2>3 DEF RequestOK, Providers
<1>7. CASE FallbackFails(t)
  <2>0. /\ R.current \in Nat /\ R.start \in Nat /\ R.at = "try_next"
        /\ TryNext(t, R.current + 1)
    BY <1>0, <1>7 DEF FallbackFails, TurnRecords, Providers
  <2>1. /\ R.current > R.start
        /\ \A p \in Providers : p > R.start /\ p < R.current => p \in R.tried
        /\ R.start \in R.tried \/ moved[t]
    BY <2>0 DEF RequestOK
  <2>2. \A q \in Providers : q > R.start /\ q < R.current + 1 =>
          q \in R.tried \cup {R.current}
    BY <2>0, <2>1 DEF Providers
  <2>3. LET r == turn'[t] IN
        /\ r.at \in {"try_next", "failed"}
        /\ r.at = "try_next" =>
             /\ r.current > r.start
             /\ \A q \in Providers : q > r.start /\ q < r.current => q \in r.tried
             /\ r.start \in r.tried \/ moved[t]
        /\ r.at = "failed" =>
             /\ \A q \in Providers : q > r.start => q \in r.tried
             /\ r.start \in r.tried \/ moved[t]
    <3>1. R.current + 1 \in Nat /\ R.current + 1 > R.start
      BY <2>0, <2>1
    <3> QED BY <1>0, <2>0, <2>1, <2>2, <3>1, TryNextAsks
  <2> QED BY <1>1, <2>3 DEF RequestOK, Providers
<1>8. CASE FallbackAnswers(t)
  <2>1. turn'[t].at = "swap"
    BY <1>0, <1>8 DEF FallbackAnswers, Become, TurnRecords
  <2> QED BY <1>2, <2>1
<1>9. CASE PromoteSwap(t)
  <2>1. turn'[t].at = "record" \/ \E at \in {"load_start", "stream"} : Become(t, Beyond(t, at))
    BY <1>0, <1>9 DEF PromoteSwap, AfterPromote, Become, TurnRecords
  <2> QED BY <1>2, <1>3, <2>1
<1>10. CASE PromoteRecord(t)
  <2>1. \E at \in {"load_start", "stream"} : Become(t, Beyond(t, at))
    BY <1>10 DEF PromoteRecord, AfterPromote
  <2> QED BY <1>3, <2>1
<1>11. CASE \/ ActiveAnswers(t) \/ ActiveRefuses(t) \/ HandshakeTimesOut(t) \/ StreamEnds(t)
            \/ StreamBreaks(t) \/ Rescued(t) \/ TakeSwapEvent(t)
  <2>1. \E at \in {"stream", "error", "take", "taken"} : Become(t, Beyond(t, at))
    BY <1>11
    DEF ActiveAnswers, ActiveRefuses, HandshakeTimesOut, StreamEnds, StreamBreaks, Rescued,
        TakeSwapEvent
  <2> QED BY <1>3, <2>1
<1>12. CASE GiveUp(t) \/ Leave(t) \/ AnswerUsed(t)
  <2>1. turn'[t].at = "idle"
    BY <1>0, <1>12 DEF GiveUp, Leave, AnswerUsed, EndTurn, Become
  <2> QED BY <1>2, <2>1
<1>13. CASE Begin(t) \/ RetryDropped(t) \/ ForceNextFallback(t)
  <2>1. turn'[t].at \in {"load_start", "swap"}
    BY <1>0, <1>13 DEF Begin, RetryDropped, ForceNextFallback, Become, IdleTurn
  <2> QED BY <1>2, <2>1
<1>14. CASE RetryAfterError(t)
  <2>1. turn'[t] = [Beyond(t, "load_start") EXCEPT !.retries = @ + 1]
    BY <1>0, <1>14 DEF RetryAfterError, Become
  <2>2. turn'[t].at = "load_start"
    BY <1>0, <2>1, BeyondRecord DEF TurnPlaces, TurnRecords
  <2> QED BY <1>2, <2>2
<1> QED
  BY <1>4, <1>5, <1>6, <1>7, <1>8, <1>9, <1>10, <1>11, <1>12, <1>13, <1>14 DEF TurnStep

(* A step keeps what it says of other turns: they see the index move.      *)
LEMMA OthersRequest ==
  ASSUME NEW t \in Turns, IInv, HistoryTypes, RequestOK(t), turn'[t] = turn[t], MCNext
  PROVE  RequestOK(t)'
<1>1. moved'[t] = IF turn'[t].at = "load_active"
                    THEN turn[t].at = "load_active" /\ (moved[t] \/ active' # active)
                    ELSE moved[t] /\ turn'[t].at \in {"try_active", "try_next", "failed"}
  BY DEF MCNext
<1>2. moved[t] \in BOOLEAN
  BY DEF HistoryTypes
<1> QED BY <1>1, <1>2 DEF RequestOK, Providers

(* What the steps of a turn do to the index, to the slot and to the events *)
(* that are still to be recorded.                                          *)
LEMMA SwapSteps ==
  ASSUME NEW t \in Turns, IInv, Begin(t) \/ TurnStep(t)
  PROVE  \/ /\ turn[t].at # "record" /\ turn'[t].at # "record"
            /\ active' = active
            /\ pending' = pending \/ pending' = NoEvent
         \/ /\ turn[t].at = "swap" /\ active # turn[t].current
            /\ active' = turn[t].current /\ pending' = pending
            /\ turn'[t].at = "record" /\ turn'[t].current = turn[t].current
         \/ /\ turn[t].at = "record" /\ turn'[t].at # "record" /\ active' = active
            /\ pending' # NoEvent /\ pending'.to = turn[t].current
<1> DEFINE R == turn[t]
<1>0. turn \in [Turns -> TurnRecords] /\ R \in TurnRecords /\ IdleTurn.at = "idle"
  BY DEF IInv, TypeOK, IdleTurn
<1>1. ASSUME NEW at \in {"stream", "error", "take", "taken", "load_start"},
             Become(t, Beyond(t, at))
      PROVE  turn'[t].at # "record"
  BY <1>0, <1>1, BeyondRecord DEF Become, TurnPlaces
<1>2. CASE PromoteSwap(t)
  <2>1. CASE active # R.current
    <3>1. turn'[t] = [R EXCEPT !.at = "record", !.old = active]
      BY <1>0, <1>2, <2>1 DEF PromoteSwap, Become
    <3>2. turn'[t].at = "record" /\ turn'[t].current = R.current
      BY <1>0, <3>1 DEF TurnRecords
    <3> QED BY <1>2, <2>1, <3>2 DEF PromoteSwap
  <2>2. CASE active = R.current
    <3>1. \E at \in {"load_start", "stream"} : Become(t, Beyond(t, at))
      BY <1>2, <2>2 DEF PromoteSwap, AfterPromote
    <3> QED BY <1>1, <1>2, <2>2, <3>1 DEF PromoteSwap
  <2> QED BY <2>1, <2>2
<1>3. CASE PromoteRecord(t)
  <2>1. \E at \in {"load_start", "stream"} : Become(t, Beyond(t, at))
    BY <1>3 DEF PromoteRecord, AfterPromote
  <2>2. pending'.to = R.current /\ R.current > 0
    BY <1>3 DEF PromoteRecord, IInv, TargetInv
  <2> QED BY <1>1, <1>3, <2>1, <2>2 DEF PromoteRecord, NoEvent
<1>4. CASE \/ ActiveAnswers(t) \/ ActiveRefuses(t) \/ HandshakeTimesOut(t) \/ StreamEnds(t)
           \/ StreamBreaks(t) \/ Rescued(t) \/ TakeSwapEvent(t)
  <2>1. \E at \in {"stream", "error", "take", "taken"} : Become(t, Beyond(t, at))
    BY <1>4
    DEF ActiveAnswers, ActiveRefuses, HandshakeTimesOut, StreamEnds, StreamBreaks, Rescued,
        TakeSwapEvent
  <2>2. R.at # "record" /\ active' = active /\ (pending' = pending \/ pending' = NoEvent)
    BY <1>4
    DEF ActiveAnswers, ActiveRefuses, HandshakeTimesOut, StreamEnds, StreamBreaks, Rescued,
        TakeSwapEvent
  <2> QED BY <1>1, <2>1, <2>2
<1>5. CASE GiveUp(t) \/ Leave(t) \/ AnswerUsed(t)
  BY <1>0, <1>5 DEF GiveUp, Leave, AnswerUsed, EndTurn, Become
<1>6. CASE Begin(t) \/ RetryDropped(t) \/ ForceNextFallback(t)
  BY <1>0, <1>6 DEF Begin, RetryDropped, ForceNextFallback, Become, IdleTurn
<1>7. CASE RetryAfterError(t)
  <2>1. turn'[t] = [Beyond(t, "load_start") EXCEPT !.retries = @ + 1]
    BY <1>0, <1>7 DEF RetryAfterError, Become
  <2>2. turn'[t].at = "load_start"
    BY <1>0, <2>1, BeyondRecord DEF TurnPlaces, TurnRecords
  <2> QED BY <1>7, <2>2 DEF RetryAfterError
<1>8. CASE LoadStart(t) \/ LoadActive(t) \/ FallbackAnswers(t)
  <2>1. turn'[t].at \in {"load_active", "try_active", "swap"}
    BY <1>0, <1>8 DEF LoadStart, LoadActive, FallbackAnswers, Become, TurnRecords
  <2> QED BY <1>8, <2>1 DEF LoadStart, LoadActive, FallbackAnswers
<1>9. CASE ActiveFails(t) \/ FallbackFails(t)
  <2>1. turn'[t].at \in {"try_next", "failed"}
    BY <1>0, <1>9 DEF ActiveFails, FallbackFails, TryNext, Become, TurnRecords
  <2> QED BY <1>9, <2>1 DEF ActiveFails, FallbackFails
<1> QED
  BY <1>2, <1>3, <1>4, <1>5, <1>6, <1>7, <1>8, <1>9 DEF TurnStep

(* A swap that nobody is about to overwrite has the last word.             *)
LEMMA WordStep ==
  ASSUME NEW t \in Turns, IInv, WordInv, Begin(t) \/ TurnStep(t), MCNext
  PROVE  WordInv'
<1>0. /\ \A u \in Turns : u # t => turn'[u] = turn[u]
      /\ turn \in [Turns -> TurnRecords]
  BY StepGood DEF Become, IInv, TypeOK
<1>1. /\ crossed' = IF active' # active THEN \E u \in Turns : Recording(u) ELSE crossed
      /\ told' = IF pending # NoEvent /\ pending' = NoEvent THEN pending.to ELSE told
  BY DEF MCNext
<1>2. CASE /\ turn[t].at # "record" /\ turn'[t].at # "record" /\ active' = active
           /\ pending' = pending \/ pending' = NoEvent
  <2>1. \A u \in Turns : /\ Recording(u)' <=> Recording(u)
                         /\ Recording(u) => turn'[u] = turn[u]
    BY <1>0, <1>2 DEF Recording
  <2>2. LastWord' = LastWord
    BY <1>1, <1>2 DEF LastWord
  <2> QED BY <1>1, <1>2, <2>1, <2>2 DEF WordInv
<1>3. CASE /\ turn[t].at = "swap" /\ active # turn[t].current
           /\ active' = turn[t].current /\ pending' = pending
           /\ turn'[t].at = "record" /\ turn'[t].current = turn[t].current
  <2>1. ~crossed' => \A u \in Turns : Recording(u)' => u = t
    BY <1>0, <1>1, <1>3 DEF Recording
  <2>2. Recording(t)' /\ turn'[t].current = active'
    BY <1>3 DEF Recording
  <2> QED BY <2>1, <2>2 DEF WordInv
<1>4. CASE /\ turn[t].at = "record" /\ turn'[t].at # "record" /\ active' = active
           /\ pending' # NoEvent /\ pending'.to = turn[t].current
  <2>1. \A u \in Turns : Recording(u)' <=> u # t /\ Recording(u)
    BY <1>0, <1>4 DEF Recording
  <2>2. LastWord' = turn[t].current /\ Recording(t)
    BY <1>4 DEF LastWord, Recording
  <2>3. crossed' = crossed
    BY <1>1, <1>4
  <2>4. ~crossed => \A u \in Turns : ~Recording(u)'
    BY <2>1, <2>2 DEF WordInv
  <2>5. ~crossed => active' = LastWord'
    BY <1>4, <2>2 DEF WordInv
  <2> QED BY <2>3, <2>4, <2>5 DEF WordInv
<1> QED BY <1>2, <1>3, <1>4, SwapSteps

(* Both hold in every state of every execution.                            *)
THEOREM HistoryInvariant == MCSpec => [](IInv /\ RequestInv /\ WordInv)
<1>1. MCInit => IInv /\ RequestInv /\ WordInv /\ HistoryTypes
  <2> SUFFICES ASSUME MCInit PROVE IInv /\ RequestInv /\ WordInv /\ HistoryTypes
    OBVIOUS
  <2>1. IInv
    BY InitInv DEF MCInit
  <2>2. RequestInv /\ HistoryTypes
    BY DEF MCInit, Init, RequestInv, RequestOK, HistoryTypes, IdleTurn
  <2>3. WordInv
    BY DEF MCInit, Init, WordInv, Recording, LastWord, IdleTurn
  <2> QED BY <2>1, <2>2, <2>3
<1>2. IInv /\ RequestInv /\ WordInv /\ HistoryTypes /\ [MCNext]_<<vars, history>> =>
        (IInv /\ RequestInv /\ WordInv /\ HistoryTypes)'
  <2> SUFFICES ASSUME IInv, RequestInv, WordInv, HistoryTypes, [MCNext]_<<vars, history>>
               PROVE  (IInv /\ RequestInv /\ WordInv /\ HistoryTypes)'
    OBVIOUS
  <2>1. CASE MCNext
    <3>1. PICK t \in Turns : Begin(t) \/ TurnStep(t)
      BY <2>1 DEF MCNext, Next
    <3>2. IInv'
      BY <2>1, StepInv DEF MCNext
    <3>3. HistoryTypes'
      BY <2>1 DEF MCNext, HistoryTypes
    <3>4. ASSUME NEW u \in Turns PROVE RequestOK(u)'
      <4>1. CASE u = t
        BY <2>1, <3>1, <4>1, OwnRequest DEF RequestInv
      <4>2. CASE u # t
        <5>1. turn'[u] = turn[u]
          BY <3>1, <4>2, StepGood DEF Become, IInv, TypeOK
        <5> QED BY <2>1, <5>1, OthersRequest DEF RequestInv
      <4> QED BY <4>1, <4>2
    <3> QED BY <2>1, <3>1, <3>2, <3>3, <3>4, WordStep DEF RequestInv
  <2>2. CASE UNCHANGED <<vars, history>>
    <3>1. UNCHANGED <<active, pending, turn, moved, crossed, told>>
      BY <2>2 DEF vars, history
    <3> QED BY <3>1 DEF IInv, TypeOK, TargetInv, RequestInv, RequestOK, WordInv, Recording,
                        LastWord, HistoryTypes
  <2> QED BY <2>1, <2>2
<1> QED BY <1>1, <1>2, PTL DEF MCSpec

(* A request that gives up has asked every provider from the one that was  *)
(* active to the last, but for the first when the index moved meanwhile.   *)
THEOREM ChainExhausted == MCSpec => []ErrorMeansExhausted
<1>1. IInv /\ RequestInv => ErrorMeansExhausted
  <2> SUFFICES ASSUME IInv, RequestInv, NEW t \in Turns, turn[t].at = "failed"
               PROVE  /\ (turn[t].start + 1) .. Fallbacks \subseteq turn[t].tried
                      /\ turn[t].start \in turn[t].tried \/ moved[t]
    BY DEF ErrorMeansExhausted
  <2>1. turn[t].start \in Nat /\ Fallbacks \in Nat
    BY FallbacksAssumption DEF IInv, TypeOK, TurnRecords, Providers
  <2>2. \A p \in (turn[t].start + 1) .. Fallbacks : p \in Providers /\ p > turn[t].start
    BY <2>1 DEF Providers
  <2> QED BY <2>2 DEF RequestInv, RequestOK
<1> QED BY <1>1, HistoryInvariant, PTL

(* The last word on the chain names the active provider, however streams   *)
(* end and whichever turn collects the events, unless promotes overlapped. *)
THEOREM LastWordIsTrue == MCSpec => []LastWordNamesActive
<1>1. WordInv => LastWordNamesActive
  BY DEF WordInv, LastWordNamesActive, LastWord
<1> QED BY <1>1, HistoryInvariant, PTL

-----------------------------------------------------------------------------
(* What TurnsEnd owes to the code and not to the scheduler.  A turn asks   *)
(* again after every forced fallback, and other turns may set the chain    *)
(* back in the meantime, so nothing the turn itself does bounds its life;  *)
(* but a turn that sets the chain back to p or before must have read it    *)
(* before it was there, and no turn reads it so while it is at p or after. *)
Behind(p) == {t \in Turns : ReachOf(turn[t]) <= p}

(* While the chain is at p or after, no turn joins those that may set it   *)
(* to p or before, and each time it comes back to p or before one leaves.  *)
RelapsesRunOut ==
  [][\A p \in Providers \ {Fallbacks} : active >= p =>
       /\ Behind(p)' \subseteq Behind(p)
       /\ active > p /\ active' <= p => Behind(p)' # Behind(p)]_vars

(* One step, and what it does to one level of the chain.                   *)
LEMMA RelapseStep ==
  ASSUME IInv, NEW t \in Turns, Begin(t) \/ TurnStep(t),
         NEW p \in Providers, p # Fallbacks, active >= p
  PROVE  /\ Behind(p)' \subseteq Behind(p)
         /\ active > p /\ active' <= p => Behind(p)' # Behind(p)
<1>0. /\ active \in Nat /\ p \in Nat /\ p + 1 \in Providers /\ p < Fallbacks
      /\ turn \in [Turns -> TurnRecords]
  BY FallbacksAssumption DEF IInv, TypeOK, Providers
<1>1. PICK record : Become(t, record) /\ GoodStep(t, record)
  BY StepGood
<1>2. \A r \in TurnRecords : ReachOf(r) \in Nat
  BY FallbacksAssumption DEF ReachOf, TurnRecords, Providers
<1>3. \A u \in Turns : turn'[u] = IF u = t THEN record ELSE turn[u]
  BY <1>0, <1>1 DEF Become
<1>4. Behind(p)' = {u \in Turns : ReachOf(turn'[u]) <= p}
  BY DEF Behind, ReachOf
<1>5. ReachOf(record) <= p => ReachOf(turn[t]) <= p
  BY <1>0, <1>1, <1>2 DEF GoodStep
<1>6. Behind(p)' \subseteq Behind(p)
  BY <1>3, <1>4, <1>5 DEF Behind
<1>7. ASSUME active > p, active' <= p PROVE Behind(p)' # Behind(p)
  <2>1. turn[t].at = "swap" /\ active' = turn[t].current /\ ReachOf(record) = Fallbacks
    BY <1>0, <1>1, <1>7 DEF GoodStep
  <2>2. ReachOf(turn[t]) = active'
    BY <2>1 DEF ReachOf
  <2>3. t \in Behind(p) /\ t \notin Behind(p)'
    BY <1>0, <1>3, <1>4, <1>7, <2>1, <2>2, FallbacksAssumption DEF Behind
  <2> QED BY <2>3
<1> QED BY <1>6, <1>7

(* The chain comes back to a provider it has left only as often as there   *)
(* were turns, when it last arrived there, that were still to try it: the  *)
(* promotes of force_next_fallback and of overlapping requests wear out.   *)
THEOREM ChainSettles == Spec => RelapsesRunOut
<1>1. ASSUME IInv, Next, NEW p \in Providers \ {Fallbacks}, active >= p
      PROVE  /\ Behind(p)' \subseteq Behind(p)
             /\ active > p /\ active' <= p => Behind(p)' # Behind(p)
  BY <1>1, RelapseStep DEF Next
<1>2. IInv /\ [Next]_vars =>
        [\A p \in Providers \ {Fallbacks} : active >= p =>
           /\ Behind(p)' \subseteq Behind(p)
           /\ active > p /\ active' <= p => Behind(p)' # Behind(p)]_vars
  BY <1>1
<1> QED BY <1>2, InductiveInvariant, PTL DEF Spec, RelapsesRunOut

(* How far a request is from its end: the forced swap it began with, the   *)
(* active provider, each of the fallbacks after it, the swap, the event,   *)
(* the stream.                                                             *)
StepsLeft(r) ==
  IF r.at = "idle" THEN 0
  ELSE IF r.at = "taken" THEN 1
  ELSE IF r.at = "take" THEN 2
  ELSE IF r.at \in {"failed", "error"} THEN 3
  ELSE IF r.at = "stream" THEN 4
  ELSE IF r.at = "record" /\ ~r.forced THEN 5
  ELSE IF r.at = "swap" /\ ~r.forced THEN 6
  ELSE IF r.at = "try_next" THEN 7 + (Fallbacks - r.current)
  ELSE IF r.at = "try_active" THEN 7 + Fallbacks
  ELSE IF r.at = "load_active" THEN 8 + Fallbacks
  ELSE IF r.at = "load_start" THEN 9 + Fallbacks
  ELSE IF r.at = "record" THEN 10 + Fallbacks
  ELSE 11 + Fallbacks

(* Dropped streams that may be asked for again, then retries of errors,    *)
(* then steps of the request: a natural number each.                       *)
Shorter(s, r) ==
  \/ MaxDrops - s.drops < MaxDrops - r.drops
  \/ /\ s.drops = r.drops
     /\ \/ MaxRetries - s.retries < MaxRetries - r.retries
        \/ s.retries = r.retries /\ StepsLeft(s) < StepsLeft(r)

(* A turn forces a fallback only while the chain is not at its end, and    *)
(* then promotes the provider after the one it has seen.                   *)
Forces(t) ==
  /\ turn[t].at = "taken" /\ active < Fallbacks
  /\ turn'[t].at = "swap" /\ turn'[t].forced /\ turn'[t].current = active + 1

(* Each step of a turn, whatever the other turns do, ends it, forces the   *)
(* next fallback, or uses up what is left: MaxDrops + 1 answers that are   *)
(* cut off, MaxRetries + 1 requests for each, Fallbacks + 11 steps a       *)
(* request.                                                                *)
RequestsAdvance ==
  [][\A t \in Turns : turn[t].at # "idle" =>
       \/ turn'[t] = turn[t] /\ ~TurnStep(t)
       \/ turn'[t].at = "idle"
       \/ Shorter(turn'[t], turn[t])
       \/ Forces(t)]_vars

(* A promote is forced only before the request that follows it.            *)
UnforcedInv ==
  \A t \in Turns :
    turn[t].at \in {"load_active", "try_active", "try_next"} => ~turn[t].forced

UnforcedOK(r) == r.at \in {"load_active", "try_active", "try_next"} => ~r.forced

(* What a step of a turn may do to its record.                             *)
Advance(t) ==
  /\ UnforcedOK(turn'[t])
  /\ turn'[t].at = "idle" \/ Shorter(turn'[t], turn[t]) \/ Forces(t)

(* To ask the next provider, or to have asked the last, is to advance.     *)
LEMMA TryNextAdvances ==
  ASSUME NEW t \in Turns, NEW p \in Nat \ {0}, IInv, UnforcedOK(turn[t]), TryNext(t, p),
         \/ turn[t].at = "try_active"
         \/ turn[t].at = "try_next" /\ p = turn[t].current + 1
  PROVE  Advance(t)
<1> DEFINE tried == turn[t].tried \cup {turn[t].current}
<1>0. /\ turn \in [Turns -> TurnRecords] /\ turn[t] \in TurnRecords
      /\ Fallbacks \in Nat \ {0} /\ turn[t].current \in 0 .. Fallbacks
  BY FallbacksAssumption DEF IInv, TypeOK, TurnRecords, Providers
<1>1. CASE p <= Fallbacks
  <2>1. turn'[t] = [turn[t] EXCEPT !.at = "try_next", !.current = p, !.tried = tried]
    BY <1>0, <1>1 DEF TryNext, Become
  <2>2. /\ turn'[t].at = "try_next" /\ turn'[t].current = p
        /\ turn'[t].forced = turn[t].forced /\ turn'[t].drops = turn[t].drops
        /\ turn'[t].retries = turn[t].retries
    BY <1>0, <2>1 DEF TurnRecords
  <2>3. StepsLeft(turn'[t]) = 7 + (Fallbacks - p)
    BY <2>2 DEF StepsLeft
  <2>4. \/ StepsLeft(turn[t]) = 7 + Fallbacks
        \/ StepsLeft(turn[t]) = 7 + (Fallbacks - turn[t].current) /\ p = turn[t].current + 1
    BY <1>0 DEF StepsLeft
  <2>5. StepsLeft(turn'[t]) < StepsLeft(turn[t])
    BY <1>0, <1>1, <2>3, <2>4
  <2> QED BY <2>2, <2>5 DEF Advance, UnforcedOK, Shorter
<1>2. CASE p > Fallbacks
  <2>1. turn'[t] = [turn[t] EXCEPT !.at = "failed", !.tried = tried]
    BY <1>0, <1>2 DEF TryNext, Become
  <2>2. /\ turn'[t].at = "failed" /\ turn'[t].drops = turn[t].drops
        /\ turn'[t].retries = turn[t].retries
    BY <1>0, <2>1 DEF TurnRecords
  <2>3. StepsLeft(turn'[t]) < StepsLeft(turn[t])
    BY <1>0, <2>2 DEF StepsLeft
  <2> QED BY <2>2, <2>3 DEF Advance, UnforcedOK, Shorter
<1> QED BY <1>0, <1>1, <1>2

(* A move to a place from which the rest of the request is shorter.        *)
LEMMA MoveAdvances ==
  ASSUME NEW t \in Turns, IInv, UnforcedOK(turn[t]),
         turn'[t].forced \in BOOLEAN, turn'[t].drops = turn[t].drops,
         turn'[t].retries = turn[t].retries,
         \/ turn[t].at = "load_start" /\ turn'[t].at = "load_active" /\ ~turn'[t].forced
         \/ /\ turn[t].at = "load_active" /\ turn'[t].at = "try_active"
            /\ turn'[t].forced = turn[t].forced
         \/ turn[t].at \in {"try_active", "try_next"} /\ turn'[t].at \in {"stream", "error"}
         \/ turn[t].at \in {"swap", "record"} /\ turn'[t].at = "stream"
         \/ /\ turn[t].at = "try_next" /\ turn'[t].at = "swap"
            /\ turn'[t].forced = turn[t].forced
         \/ /\ turn[t].at = "swap" /\ turn'[t].at = "record"
            /\ turn'[t].forced = turn[t].forced
         \/ /\ turn[t].at \in {"swap", "record"} /\ turn'[t].at = "load_start"
            /\ turn[t].forced
         \/ turn[t].at = "stream" /\ turn'[t].at \in {"take", "error"}
         \/ turn[t].at \in {"failed", "error"} /\ turn'[t].at = "take"
         \/ turn[t].at = "take" /\ turn'[t].at = "taken"
  PROVE  Advance(t)
<1>0. /\ turn[t].current \in 0 .. Fallbacks /\ Fallbacks \in Nat
      /\ turn[t].forced \in BOOLEAN /\ turn[t].at \in TurnPlaces
  BY FallbacksAssumption DEF IInv, TypeOK, TurnRecords, Providers
<1>1. UnforcedOK(turn'[t])
  BY DEF UnforcedOK
<1>2. StepsLeft(turn'[t]) < StepsLeft(turn[t])
  BY <1>0 DEF StepsLeft, UnforcedOK, TurnPlaces
<1> QED BY <1>1, <1>2 DEF Advance, Shorter

(* Every step of a turn ends its request, shortens it, asks again within   *)
(* its count, or forces the next fallback.                                 *)
LEMMA StepAdvances ==
  ASSUME NEW t \in Turns, IInv, UnforcedOK(turn[t]), TurnStep(t)
  PROVE  Advance(t)
<1> DEFINE R == turn[t]
<1>0. /\ turn \in [Turns -> TurnRecords] /\ R \in TurnRecords /\ active \in Providers
      /\ Fallbacks \in Nat \ {0} /\ R.forced \in BOOLEAN
      /\ R.retries \in 0 .. MaxRetries /\ R.drops \in 0 .. MaxDrops
  BY FallbacksAssumption DEF IInv, TypeOK, TurnRecords
<1>1. CASE ActiveFails(t)
  <2>1. R.start + 1 \in Nat \ {0}
    BY <1>0 DEF TurnRecords, Providers
  <2> QED BY <1>1, <2>1, TryNextAdvances DEF ActiveFails
<1>2. CASE FallbackFails(t)
  <2>1. R.current + 1 \in Nat \ {0}
    BY <1>0 DEF TurnRecords, Providers
  <2> QED BY <1>2, <2>1, TryNextAdvances DEF FallbackFails
<1>3. CASE GiveUp(t) \/ Leave(t) \/ AnswerUsed(t)
  <2>1. turn'[t] = IdleTurn
    BY <1>0, <1>3 DEF GiveUp, Leave, AnswerUsed, EndTurn, Become
  <2>2. IdleTurn.at = "idle"
    BY DEF IdleTurn
  <2> QED BY <2>1, <2>2 DEF Advance, UnforcedOK
<1>4. ASSUME NEW at \in {"stream", "error", "take", "taken", "load_start"},
             Become(t, Beyond(t, at)),
             \/ R.at \in {"try_active", "try_next"} /\ at \in {"stream", "error"}
             \/ R.at \in {"swap", "record"} /\ at = "stream"
             \/ R.at \in {"swap", "record"} /\ at = "load_start" /\ R.forced
             \/ R.at = "stream" /\ at \in {"take", "error"}
             \/ R.at \in {"failed", "error"} /\ at = "take"
             \/ R.at = "take" /\ at = "taken"
      PROVE  Advance(t)
  <2>1. turn'[t] = Beyond(t, at)
    BY <1>0, <1>4 DEF Become
  <2>2. /\ turn'[t].at = at /\ turn'[t].forced = FALSE
        /\ turn'[t].retries = R.retries /\ turn'[t].drops = R.drops
    BY <1>0, <2>1, BeyondRecord DEF TurnPlaces, TurnRecords
  <2> QED BY <1>4, <2>2, MoveAdvances
<1>5. CASE LoadStart(t)
  <2>1. turn'[t] = [R EXCEPT !.at = "load_active", !.start = active, !.tried = {},
                             !.forced = FALSE]
    BY <1>0, <1>5 DEF LoadStart, Become
  <2>2. /\ turn'[t].at = "load_active" /\ turn'[t].forced = FALSE
        /\ turn'[t].retries = R.retries /\ turn'[t].drops = R.drops
    BY <1>0, <2>1 DEF TurnRecords
  <2>3. R.at = "load_start"
    BY <1>5 DEF LoadStart
  <2> QED BY <2>2, <2>3, MoveAdvances
<1>6. CASE LoadActive(t)
  <2>1. turn'[t] = [R EXCEPT !.at = "try_active", !.current = active]
    BY <1>0, <1>6 DEF LoadActive, Become
  <2>2. /\ turn'[t].at = "try_active" /\ turn'[t].forced = R.forced
        /\ turn'[t].retries = R.retries /\ turn'[t].drops = R.drops
    BY <1>0, <2>1 DEF TurnRecords
  <2>3. R.at = "load_active"
    BY <1>6 DEF LoadActive
  <2> QED BY <1>0, <2>2, <2>3, MoveAdvances
<1>7. CASE FallbackAnswers(t)
  <2>1. turn'[t] = [R EXCEPT !.at = "swap"] /\ R.at = "try_next"
    BY <1>0, <1>7 DEF FallbackAnswers, Become
  <2>2. /\ turn'[t].at = "swap" /\ turn'[t].forced = R.forced
        /\ turn'[t].retries = R.retries /\ turn'[t].drops = R.drops
    BY <1>0, <2>1 DEF TurnRecords
  <2> QED BY <1>0, <2>1, <2>2, MoveAdvances
<1>8. CASE PromoteSwap(t)
  <2>1. CASE active # R.current
    <3>1. turn'[t] = [R EXCEPT !.at = "record", !.old = active] /\ R.at = "swap"
      BY <1>0, <1>8, <2>1 DEF PromoteSwap, Become
    <3>2. /\ turn'[t].at = "record" /\ turn'[t].forced = R.forced
          /\ turn'[t].retries = R.retries /\ turn'[t].drops = R.drops
      BY <1>0, <3>1 DEF TurnRecords
    <3> QED BY <1>0, <3>1, <3>2, MoveAdvances
  <2>2. CASE active = R.current
    BY <1>0, <1>4, <1>8, <2>2 DEF PromoteSwap, AfterPromote
  <2> QED BY <2>1, <2>2
<1>9. CASE PromoteRecord(t)
  BY <1>0, <1>4, <1>9 DEF PromoteRecord, AfterPromote
<1>10. CASE \/ ActiveAnswers(t) \/ ActiveRefuses(t) \/ HandshakeTimesOut(t) \/ StreamEnds(t)
            \/ StreamBreaks(t) \/ Rescued(t) \/ TakeSwapEvent(t)
  BY <1>4, <1>10
  DEF ActiveAnswers, ActiveRefuses, HandshakeTimesOut, StreamEnds, StreamBreaks, Rescued,
      TakeSwapEvent
<1>11. CASE RetryAfterError(t)
  <2>1. turn'[t] = [Beyond(t, "load_start") EXCEPT !.retries = @ + 1]
    BY <1>0, <1>11 DEF RetryAfterError, Become
  <2>2. /\ turn'[t].at = "load_start"
        /\ turn'[t].retries = R.retries + 1 /\ turn'[t].drops = R.drops
    BY <1>0, <2>1, BeyondRecord DEF TurnPlaces, TurnRecords
  <2> QED BY <1>0, <2>2, RetriesAssumption DEF Advance, UnforcedOK, Shorter
<1>12. CASE RetryDropped(t)
  <2>1. turn'[t].at = "load_start" /\ turn'[t].drops = R.drops + 1
    BY <1>0, <1>12 DEF RetryDropped, Become, IdleTurn
  <2> QED BY <1>0, <2>1, RetriesAssumption DEF Advance, UnforcedOK, Shorter
<1>13. CASE ForceNextFallback(t)
  <2>1. /\ turn'[t].at = "swap" /\ turn'[t].forced /\ turn'[t].current = active + 1
        /\ R.at = "taken" /\ active < Fallbacks
    BY <1>0, <1>13 DEF ForceNextFallback, Become, IdleTurn
  <2> QED BY <2>1 DEF Advance, Forces, UnforcedOK
<1> QED
  BY <1>1, <1>2, <1>3, <1>5, <1>6, <1>7, <1>8, <1>9, <1>10, <1>11, <1>12, <1>13 DEF TurnStep

(* The inductive part: forced is over when a request has begun.            *)
LEMMA Unforced == Spec => []UnforcedInv
<1>1. Init => UnforcedInv
  BY DEF Init, UnforcedInv, IdleTurn
<1>2. IInv /\ UnforcedInv /\ [Next]_vars => UnforcedInv'
  <2> SUFFICES ASSUME IInv, UnforcedInv, [Next]_vars, NEW u \in Turns
               PROVE  UnforcedOK(turn'[u])
    BY DEF UnforcedInv, UnforcedOK
  <2>1. UnforcedOK(turn[u]) /\ turn \in [Turns -> TurnRecords]
    BY DEF UnforcedInv, UnforcedOK, IInv, TypeOK
  <2>2. ASSUME NEW t \in Turns, Begin(t) \/ TurnStep(t), t # u PROVE turn'[u] = turn[u]
    BY <2>1, <2>2, StepGood DEF Become
  <2>3. CASE TurnStep(u)
    BY <2>1, <2>3, StepAdvances DEF Advance
  <2>4. CASE Begin(u)
    BY <2>1, <2>4 DEF Begin, Become, IdleTurn, UnforcedOK
  <2> QED BY <2>1, <2>2, <2>3, <2>4 DEF Next, vars
<1> QED BY <1>1, <1>2, InductiveInvariant, PTL DEF Spec

(* A turn that asks and asks again, after errors and dropped streams, runs *)
(* out of attempts, or goes on behind a fallback it has just promoted      *)
(* (complete and stream, the arms of errors and the loop around a dropped  *)
(* stream in tool_loop.rs).                                                *)
THEOREM RequestsRunOut == Spec => RequestsAdvance
<1>1. ASSUME IInv, UnforcedInv, Next, NEW u \in Turns, turn[u].at # "idle"
      PROVE  \/ turn'[u] = turn[u] /\ ~TurnStep(u)
             \/ turn'[u].at = "idle"
             \/ Shorter(turn'[u], turn[u])
             \/ Forces(u)
  <2>1. UnforcedOK(turn[u]) /\ turn \in [Turns -> TurnRecords]
    BY <1>1 DEF UnforcedInv, UnforcedOK, IInv, TypeOK
  <2>2. ASSUME NEW t \in Turns, Begin(t) \/ TurnStep(t), t # u PROVE turn'[u] = turn[u]
    BY <1>1, <2>1, <2>2, StepGood DEF Become
  <2>3. TurnStep(u) => turn'[u].at = "idle" \/ Shorter(turn'[u], turn[u]) \/ Forces(u)
    BY <1>1, <2>1, StepAdvances DEF Advance
  <2>4. ~Begin(u)
    BY <1>1 DEF Begin
  <2> QED BY <1>1, <2>2, <2>3, <2>4 DEF Next
<1>2. IInv /\ UnforcedInv /\ [Next]_vars =>
        [\A t \in Turns : turn[t].at # "idle" =>
           \/ turn'[t] = turn[t] /\ ~TurnStep(t)
           \/ turn'[t].at = "idle"
           \/ Shorter(turn'[t], turn[t])
           \/ Forces(t)]_vars
  BY <1>1
<1> QED BY <1>2, InductiveInvariant, Unforced, PTL DEF Spec, RequestsAdvance

=============================================================================
