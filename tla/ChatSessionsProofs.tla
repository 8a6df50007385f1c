------------------------- MODULE ChatSessionsProofs -------------------------
(* Proofs about ChatSessions, for any sessions, turns, messages and number *)
(* of restarts.  Three invariants carry the argument: while the table of   *)
(* requests is read and cleared no turn works; a follow-up is held once;   *)
(* and every token the interface holds for a session was made for a turn   *)
(* of that session.                                                        *)
EXTENDS ChatSessions, TLAPS

(* The types a step of the other invariants needs.                         *)
Types ==
  /\ current \in Sessions
  /\ token \in Turns \cup {NoTurn}
  /\ stash \in [Sessions -> Turns \cup {NoTurn}]
  /\ processing \subseteq Sessions
  /\ queue \in [Sessions -> SUBSET Messages]
  /\ taken \in [Messages -> Turns \cup {NoTurn}]
  /\ events \in Seq([kind : Kinds, turn : Turns])
  /\ at \in [Turns -> Alive \cup {"unused", "reported", "dead"}]
  /\ home \in [Turns -> Sessions]
  /\ resumable \subseteq Sessions
  /\ rows \subseteq Turns
  /\ kept \subseteq Turns

(* No turn works before the table was cleared; a delete that failed is of  *)
(* a turn that has begun.                                                  *)
RowInv ==
  /\ boot \in {"down", "read"} => \A t \in Turns : at[t] \notin Alive
  /\ \A t \in kept : at[t] # "unused"
  /\ RowsFollowTurns

(* At the start nothing works, is recorded or is held.                     *)
LEMMA InitTypes == Init => Types /\ RowInv /\ HeldOnce
<1> SUFFICES ASSUME Init PROVE Types /\ RowInv /\ HeldOnce
  OBVIOUS
<1>1. events \in Seq([kind : Kinds, turn : Turns])
  BY DEF Init
<1>2. Types
  BY <1>1 DEF Init, Types, NoStash
<1> QED
  BY <1>2 DEF Init, RowInv, RowsFollowTurns, HeldOnce, Alive, Working

(* The first event of the channel.                                         *)
LEMMA HeadType ==
  ASSUME Types, events # <<>>
  PROVE  /\ Next1 \in [kind : Kinds, turn : Turns] /\ Of \in Sessions
         /\ Tail(events) \in Seq([kind : Kinds, turn : Turns])
<1> DEFINE E == [kind : Kinds, turn : Turns]
<1>1. events \in Seq(E)
  BY DEF Types
<1> HIDE DEF E
<1>2. Head(events) \in E /\ Tail(events) \in Seq(E)
  BY <1>1
<1> QED
  BY <1>2 DEF Types, Next1, Of, E

(* An event that is sent is one of the channel.                            *)
LEMMA EmitType ==
  ASSUME Types, NEW t \in Turns, NEW k \in Kinds, Emit(k, t)
  PROVE  events' \in Seq([kind : Kinds, turn : Turns])
  BY DEF Types, Emit

(* A turn that begins takes an unused identity and a session.              *)
LEMMA BeginType ==
  ASSUME Types, NEW t \in Turns, NEW s \in Sessions, Begin(t, s)
  PROVE  /\ at' \in [Turns -> Alive \cup {"unused", "reported", "dead"}]
         /\ home' \in [Turns -> Sessions]
         /\ \A u \in Turns \ {t} : at'[u] = at[u] /\ home'[u] = home[u]
         /\ at[t] = "unused" /\ at'[t] = "starting" /\ home'[t] = s
  BY DEF Types, Begin, Alive, Working

(* Aborting changes the place of a turn and nothing of its session.        *)
LEMMA AbortType ==
  ASSUME Types, NEW t \in Turns \cup {NoTurn}, Abort(t)
  PROVE  /\ at' \in [Turns -> Alive \cup {"unused", "reported", "dead"}]
         /\ rows' \subseteq Turns
  BY DEF Types, Abort, Alive, Working

(* Every step keeps the types.                                             *)
LEMMA TypesStep ==
  ASSUME Types, Next
  PROVE  Types'
<1> USE DEF bootVars, uiVars, textVars, turnVars, tableVars
<1> USE DEF Types
<1>1. ASSUME NEW t \in Turns, Send(t) PROVE Types'
  <2>1. /\ at' \in [Turns -> Alive \cup {"unused", "reported", "dead"}]
        /\ home' \in [Turns -> Sessions]
    BY <1>1, BeginType DEF Send
  <2> QED BY <1>1, <2>1 DEF Send
<1>2. ASSUME NEW M \in SUBSET Messages, Enqueue(M) PROVE Types'
  BY <1>2 DEF Enqueue
<1>3. CASE Dequeue
  BY <1>3 DEF Dequeue
<1>4. CASE Escape
  <2>1. Abort(handle)
    BY <1>4 DEF Escape
  <2>2. /\ at' \in [Turns -> Alive \cup {"unused", "reported", "dead"}]
        /\ rows' \subseteq Turns
    BY <2>1 DEF Abort, Alive, Working
  <2> QED BY <1>4, <2>2 DEF Escape
<1>5. ASSUME NEW s \in Sessions, SwitchTo(s) \/ NewSession(s) PROVE Types'
  BY <1>5 DEF SwitchTo, NewSession, Stashed, Load
<1>6. ASSUME NEW t \in Turns, InsertRow(t) \/ DeleteRow(t) PROVE Types'
  BY <1>6 DEF InsertRow, DeleteRow, Alive, Working
<1>7. ASSUME NEW t \in Turns, DrainQueue(t) PROVE Types'
  <2>1. events' \in Seq([kind : Kinds, turn : Turns])
    BY <1>7, EmitType DEF DrainQueue, Kinds
  <2> QED BY <1>7, <2>1 DEF DrainQueue
<1>8. ASSUME NEW t \in Turns, Report(t) PROVE Types'
  <2>1. events' \in Seq([kind : Kinds, turn : Turns])
    BY <1>8, EmitType DEF Report, Kinds
  <2> QED BY <1>8, <2>1 DEF Report, Alive, Working
<1>15. ASSUME NEW t \in Turns, Panic(t) PROVE Types'
  <2>1. events' \in Seq([kind : Kinds, turn : Turns])
    <3>1. CASE Emit("error", t)
      BY <3>1, EmitType DEF Kinds
    <3>2. CASE events' = events
      BY <3>2
    <3> QED BY <1>15, <3>1, <3>2 DEF Panic
  <2> QED BY <1>15, <2>1 DEF Panic, Alive, Working
<1>9. ASSUME OnComplete \/ OnCompleteAfterCancel \/ OnCompleteBehind \/ OnError \/ OnDrained
             \/ OnResumed
      PROVE  Types'
  <2>1. events # <<>> /\ events' = Tail(events)
    BY <1>9 DEF OnComplete, OnCompleteAfterCancel, OnCompleteBehind, OnError, OnDrained,
       OnResumed, Received
  <2>2. /\ Next1 \in [kind : Kinds, turn : Turns] /\ Of \in Sessions
        /\ events' \in Seq([kind : Kinds, turn : Turns])
    BY <2>1, HeadType
  <2>3. Next1.turn \in Turns
    BY <2>2
  <2>4. CASE OnComplete \/ OnCompleteBehind
    BY <2>2, <2>4 DEF OnComplete, OnCompleteBehind
  <2>5. CASE OnCompleteAfterCancel
    BY <2>2, <2>5 DEF OnCompleteAfterCancel, Stashed, Load
  <2>6. CASE OnError
    BY <2>2, <2>6 DEF OnError
  <2>7. CASE OnDrained
    BY <2>2, <2>7 DEF OnDrained
  <2>8. CASE OnResumed
    BY <2>2, <2>3, <2>8 DEF OnResumed
  <2> QED BY <1>9, <2>4, <2>5, <2>6, <2>7, <2>8
<1>10. ASSUME NEW t \in Turns, OnChunk(t) PROVE Types'
  BY <1>10 DEF OnChunk
<1>11. ASSUME NEW exec \in BOOLEAN, Restart(exec) PROVE Types'
  <2>1. events' \in Seq([kind : Kinds, turn : Turns])
    BY <1>11 DEF Restart
  <2> QED BY <1>11, <2>1 DEF Restart, NoStash
<1>12. CASE ReadRows \/ ClearRows \/ Initialize
  BY <1>12 DEF ReadRows, ClearRows, Initialize
<1>13. ASSUME NEW t \in Turns, NEW s \in Sessions, Resume(t, s) PROVE Types'
  <2>1. /\ at' \in [Turns -> Alive \cup {"unused", "reported", "dead"}]
        /\ home' \in [Turns -> Sessions]
    BY <1>13, BeginType DEF Resume
  <2>2. events' \in Seq([kind : Kinds, turn : Turns])
    BY <1>13, EmitType DEF Resume, Kinds
  <2> QED BY <1>13, <2>1, <2>2 DEF Resume
<1>14. ASSUME NEW t \in Turns, InitializeAwake(t) PROVE Types'
  <2>1. /\ at' \in [Turns -> Alive \cup {"unused", "reported", "dead"}]
        /\ home' \in [Turns -> Sessions]
    BY <1>14, BeginType DEF InitializeAwake
  <2> QED BY <1>14, <2>1 DEF InitializeAwake
<1> HIDE DEF Types
<1> QED
  BY <1>1, <1>2, <1>3, <1>4, <1>5, <1>6, <1>7, <1>8, <1>9, <1>10, <1>11, <1>12, <1>13,
     <1>14, <1>15
  DEF Next, UserStep, TurnStep, OnEvent, RestartStep

(* Every step keeps the table of requests in line with the turns.          *)
LEMMA RowStep ==
  ASSUME Types, RowInv, Next
  PROVE  RowInv'
<1> USE DEF bootVars, uiVars, textVars, turnVars, tableVars, Types, RowInv, RowsFollowTurns, CutOff, Alive, Working
<1>1. ASSUME NEW t \in Turns, Send(t) \/ InitializeAwake(t) PROVE RowInv'
  BY <1>1 DEF Send, InitializeAwake, Begin
<1>2. CASE (\E M \in SUBSET Messages : Enqueue(M)) \/ Dequeue
  BY <1>2 DEF Enqueue, Dequeue
<1>3. CASE Escape
  BY <1>3 DEF Escape, Abort
<1>4. ASSUME NEW s \in Sessions, SwitchTo(s) \/ NewSession(s) PROVE RowInv'
  BY <1>4 DEF SwitchTo, NewSession
<1>5. ASSUME NEW t \in Turns, TurnStep(t) PROVE RowInv'
  <2>1. at[t] \in Alive
    BY <1>5 DEF TurnStep, InsertRow, DrainQueue, DeleteRow, Report, Panic
  <2>2. boot \notin {"down", "read"} /\ boot' = boot
    BY <1>5, <2>1 DEF TurnStep, InsertRow, DrainQueue, DeleteRow, Report, Panic
  <2> QED
    BY <1>5, <2>2 DEF TurnStep, InsertRow, DrainQueue, DeleteRow, Report, Panic
<1>6. CASE OnEvent
  BY <1>6 DEF OnEvent, OnComplete, OnCompleteAfterCancel, OnCompleteBehind, OnError, OnDrained,
     OnResumed, OnChunk
<1>7. ASSUME NEW exec \in BOOLEAN, Restart(exec) PROVE RowInv'
  BY <1>7 DEF Restart
<1>8. CASE ReadRows \/ ClearRows \/ Initialize
  BY <1>8 DEF ReadRows, ClearRows, Initialize
<1>9. ASSUME NEW t \in Turns, NEW s \in Sessions, Resume(t, s) PROVE RowInv'
  BY <1>9 DEF Resume, Begin
<1> HIDE DEF Types, RowInv, RowsFollowTurns, CutOff, Alive, Working
<1> QED
  BY <1>1, <1>2, <1>3, <1>4, <1>5, <1>6, <1>7, <1>8, <1>9 DEF Next, UserStep, RestartStep

(* A follow-up leaves its queue for a turn of the session it was queued in. *)
GivenAtHome ==
  \A m \in Messages, s \in Sessions :
    m \in queue[s] /\ taken'[m] # taken[m] => home'[taken'[m]] = s

(* Every step holds a follow-up in one place, and gives it to a turn of    *)
(* the session it was queued in.                                           *)
LEMMA HeldStep ==
  ASSUME Types, HeldOnce, Next
  PROVE  HeldOnce' /\ GivenAtHome
<1> USE DEF bootVars, uiVars, textVars, turnVars, tableVars, Types, HeldOnce, GivenAtHome
<1>1. ASSUME NEW t \in Turns, Send(t) PROVE HeldOnce' /\ GivenAtHome
  BY <1>1 DEF Send
<1>2. ASSUME NEW M \in SUBSET Messages, Enqueue(M) PROVE HeldOnce' /\ GivenAtHome
  BY <1>2 DEF Enqueue, Unsent
<1>3. CASE Dequeue
  BY <1>3 DEF Dequeue
<1>4. CASE Escape \/ OnComplete \/ OnDrained
  BY <1>4 DEF Escape, OnComplete, OnDrained
<1>5. ASSUME NEW t \in Turns, DrainQueue(t) PROVE HeldOnce' /\ GivenAtHome
  BY <1>5 DEF DrainQueue
<1>6. ASSUME NEW exec \in BOOLEAN, Restart(exec) PROVE HeldOnce' /\ GivenAtHome
  BY <1>6 DEF Restart
<1>7. ASSUME queue' = queue, draft' = draft, taken' = taken
      PROVE  HeldOnce' /\ GivenAtHome
  BY <1>7
<1> HIDE DEF Types, HeldOnce, GivenAtHome
<1>8. CASE UserStep
  BY <1>1, <1>2, <1>3, <1>4, <1>7, <1>8 DEF UserStep, SwitchTo, NewSession
<1>9. CASE \E t \in Turns : TurnStep(t)
  BY <1>5, <1>7, <1>9 DEF TurnStep, InsertRow, DeleteRow, Report, Panic
<1>10. CASE OnEvent
  BY <1>4, <1>7, <1>10 DEF OnEvent, OnCompleteAfterCancel, OnCompleteBehind, OnError, OnResumed,
     OnChunk
<1>11. CASE RestartStep
  BY <1>6, <1>7, <1>11 DEF RestartStep, ReadRows, ClearRows, Resume, Initialize, InitializeAwake
<1> QED
  BY <1>8, <1>9, <1>10, <1>11 DEF Next

-----------------------------------------------------------------------------
(* A turn whose token the interface has seen has begun, so that no later   *)
(* beginning gives it another session.                                     *)
Begun ==
  /\ token # NoTurn => at[token] # "unused"
  /\ \A s \in Sessions : stash[s] # NoTurn => at[stash[s]] # "unused"
  /\ \A i \in DOMAIN events : at[events[i].turn] # "unused"

(* The token in hand is of the session on the screen when that session is  *)
(* at work; without this, switching away would stash another's.            *)
TokenInv ==
  /\ token # NoTurn /\ (spinner \/ current \in processing) => home[token] = current
  /\ \A s \in Sessions : stash[s] # NoTurn => home[stash[s]] = s /\ s \in processing

(* No step lets the interface see the token of an unused turn.             *)
LEMMA BegunStep ==
  ASSUME Types, Begun, Next
  PROVE  Begun'
<1> DEFINE E == [kind : Kinds, turn : Turns]
<1> USE DEF bootVars, uiVars, textVars, turnVars, tableVars
<1>1. events \in Seq(E) /\ \A i \in DOMAIN events : events[i].turn \in Turns
  <2>1. events \in Seq(E) /\ \A e \in E : e.turn \in Turns
    BY DEF Types
  <2> HIDE DEF E
  <2> QED BY <2>1
<1>2. ASSUME \A t \in Turns : at'[t] = "unused" => at[t] = "unused",
             token' \in {NoTurn, token} \/ at'[token'] # "unused",
             \A s \in Sessions : \/ stash'[s] \in {NoTurn, token, stash[s]}
                                \/ at'[stash'[s]] # "unused",
             \A i \in DOMAIN events' :
               \/ \E j \in DOMAIN events : events'[i] = events[j]
               \/ at'[events'[i].turn] # "unused"
      PROVE  Begun'
  BY <1>1, <1>2 DEF Begun, Types
<1>3. ASSUME NEW t \in Turns, NEW k \in Kinds, Emit(k, t), at'[t] # "unused"
      PROVE  \A i \in DOMAIN events' :
               \/ \E j \in DOMAIN events : events'[i] = events[j]
               \/ at'[events'[i].turn] # "unused"
  <2> HIDE DEF E
  <2>1. [kind |-> k, turn |-> t] \in E /\ events' = Append(events, [kind |-> k, turn |-> t])
    BY <1>3 DEF Emit, E
  <2> QED BY <1>1, <1>3, <2>1
<1>4. ASSUME NEW kind, Received(kind)
      PROVE  /\ \A i \in DOMAIN events' : \E j \in DOMAIN events : events'[i] = events[j]
             /\ Next1.turn \in Turns /\ at[Next1.turn] # "unused"
  <2> HIDE DEF E
  <2>1. events # <<>> /\ events' = Tail(events) /\ Next1 = events[1] /\ 1 \in DOMAIN events
    BY <1>1, <1>4 DEF Received, Next1
  <2>2. \A i \in DOMAIN Tail(events) : i + 1 \in DOMAIN events /\ Tail(events)[i] = events[i + 1]
    BY <1>1, <2>1
  <2> QED BY <1>1, <2>1, <2>2 DEF Begun
<1> HIDE DEF E
<1>5. ASSUME NEW t \in Turns, Send(t) \/ InitializeAwake(t) PROVE Begun'
  BY <1>2, <1>5 DEF Send, InitializeAwake, Begin, Types
<1>6. CASE Escape
  BY <1>2, <1>6 DEF Escape, Abort, Types
<1>7. ASSUME NEW s \in Sessions, SwitchTo(s) \/ NewSession(s) PROVE Begun'
  BY <1>2, <1>7 DEF SwitchTo, NewSession, Load, Stashed, Types
<1>8. ASSUME NEW t \in Turns, TurnStep(t) PROVE Begun'
  <2>1. CASE InsertRow(t) \/ DeleteRow(t)
    BY <1>2, <2>1 DEF InsertRow, DeleteRow, Types
  <2>2. CASE DrainQueue(t)
    BY <1>2, <1>3, <2>2 DEF DrainQueue, Types, Kinds, Working
  <2>3. CASE Report(t)
    <3>1. at'[t] # "unused" /\ \A u \in Turns : at'[u] = "unused" => at[u] = "unused"
      BY <2>3 DEF Report, Types
    <3> QED BY <1>2, <1>3, <2>3, <3>1 DEF Report, Kinds
  <2>4. CASE Panic(t)
    <3>1. at'[t] # "unused" /\ \A u \in Turns : at'[u] = "unused" => at[u] = "unused"
      BY <2>4 DEF Panic, Types
    <3>2. CASE Emit("error", t)
      BY <1>2, <1>3, <2>4, <3>1, <3>2 DEF Panic, Kinds
    <3>3. CASE events' = events
      BY <1>2, <2>4, <3>1, <3>3 DEF Panic
    <3> QED BY <2>4, <3>2, <3>3 DEF Panic
  <2> QED BY <1>8, <2>1, <2>2, <2>3, <2>4 DEF TurnStep
<1>9. CASE OnComplete \/ OnCompleteAfterCancel \/ OnCompleteBehind \/ OnError \/ OnDrained
  BY <1>2, <1>4, <1>9 DEF OnComplete, OnCompleteAfterCancel, OnCompleteBehind, OnError, OnDrained,
     Load, Stashed, Types
<1>10. CASE OnResumed
  BY <1>2, <1>4, <1>10 DEF OnResumed, Types
<1>11. ASSUME NEW exec \in BOOLEAN, Restart(exec) PROVE Begun'
  BY <1>2, <1>11 DEF Restart, NoStash
<1>12. ASSUME NEW t \in Turns, NEW s \in Sessions, Resume(t, s) PROVE Begun'
  <2>1. at'[t] # "unused" /\ \A u \in Turns : at'[u] = "unused" => at[u] = "unused"
    BY <1>12 DEF Resume, Begin, Types
  <2> QED BY <1>2, <1>3, <1>12, <2>1 DEF Resume, Kinds
<1>13. ASSUME at' = at, events' = events, token' = token, stash' = stash PROVE Begun'
  BY <1>13 DEF Begun
<1> HIDE DEF Begun
<1> QED
  BY <1>5, <1>6, <1>7, <1>8, <1>9, <1>10, <1>11, <1>12, <1>13
  DEF Next, UserStep, OnEvent, RestartStep, Enqueue, Dequeue, OnChunk, ReadRows, ClearRows,
     Initialize

(* Every step leaves the token in hand with the session on the screen.     *)
LEMMA TokenStep ==
  ASSUME Types, Begun, TokenInv, Next
  PROVE  TokenInv'
<1> USE DEF bootVars, uiVars, textVars, turnVars, tableVars, Types, TokenInv
<1>0. NoTurn \notin Turns
  BY NoTurnAssumption
<1>1. ASSUME NEW t \in Turns, Send(t) \/ InitializeAwake(t) PROVE TokenInv'
  BY <1>0, <1>1 DEF Send, InitializeAwake, Begin, Begun
<1>2. CASE Escape
  BY <1>2 DEF Escape
<1>3. ASSUME NEW s \in Sessions, SwitchTo(s) \/ NewSession(s) PROVE TokenInv'
  BY <1>3 DEF SwitchTo, NewSession, Load, Stashed
<1>4. CASE OnComplete \/ OnCompleteAfterCancel \/ OnCompleteBehind \/ OnError
  BY <1>4 DEF OnComplete, OnCompleteAfterCancel, OnCompleteBehind, OnError, Load, Stashed
<1>5. CASE OnResumed
  BY <1>5 DEF OnResumed, Of
<1>6. ASSUME NEW exec \in BOOLEAN, Restart(exec) PROVE TokenInv'
  BY <1>6 DEF Restart, NoStash
<1>7. ASSUME NEW t \in Turns, NEW s \in Sessions, Resume(t, s) PROVE TokenInv'
  BY <1>0, <1>7 DEF Resume, Begin, Begun
<1>8. ASSUME token' = token, spinner' = spinner, current' = current, processing' = processing,
             home' = home, stash' = stash
      PROVE  TokenInv'
  BY <1>8
<1> HIDE DEF Types, TokenInv
<1> QED
  BY <1>1, <1>2, <1>3, <1>4, <1>5, <1>6, <1>7, <1>8
  DEF Next, UserStep, OnEvent, RestartStep, TurnStep, Enqueue, Dequeue, OnDrained, OnChunk,
     ReadRows, ClearRows, Initialize, InsertRow, DrainQueue, DeleteRow, Report, Panic

(* The types no other invariant needs.                                     *)
OtherTypes ==
  /\ boot \in {"up", "down", "read", "resuming", "ready"}
  /\ wake \in BOOLEAN
  /\ restarts \in 0 .. MaxRestarts
  /\ spinner \in BOOLEAN
  /\ handle \in Turns \cup {NoTurn}
  /\ sidecar \in [Sessions -> {"none", "on", "off"}]
  /\ draft \subseteq Messages
  /\ stopped \subseteq Turns
  /\ watched \subseteq Turns
  /\ faults \in Nat

(* Loading a session takes its token and its sidecar.                      *)
LEMMA LoadType ==
  ASSUME Types, OtherTypes, NEW s \in Sessions, Load(s, processing)
  PROVE  spinner' \in BOOLEAN /\ sidecar' \in [Sessions -> {"none", "on", "off"}]
<1>1. PICK left \in {"on", "none", "off"} :
        /\ sidecar' = [Demoted(left) EXCEPT ![s] = "none"]
        /\ spinner' = Promoted(Demoted(left)[s], s \in processing)
  BY DEF Load, LiveState
<1>2. spinner' \in BOOLEAN
  <2> DEFINE there == Demoted(left)[s]
  <2>1. spinner' = IF there = "none" THEN s \in processing ELSE there = "on"
    BY <1>1 DEF Promoted
  <2> HIDE DEF there
  <2>2. CASE there = "none"
    <3>1. spinner' = (s \in processing)
      BY <2>1, <2>2, Zenon
    <3>2. s \in processing \/ s \notin processing
      OBVIOUS
    <3>3. CASE s \in processing
      BY <3>1, <3>3
    <3>4. CASE s \notin processing
      BY <3>1, <3>4
    <3> QED BY <3>2, <3>3, <3>4
  <2>3. CASE there # "none"
    <3>1. spinner' = (there = "on")
      BY <2>1, <2>3, Zenon
    <3> QED BY <3>1, Zenon
  <2> QED BY <2>2, <2>3
<1>3. sidecar' \in [Sessions -> {"none", "on", "off"}]
  BY <1>1 DEF OtherTypes, Demoted
<1> QED
  BY <1>2, <1>3

(* Every step keeps the types the other invariants do not need.            *)
LEMMA OtherTypesStep ==
  ASSUME Types, OtherTypes, Next
  PROVE  OtherTypes'
<1> USE DEF bootVars, uiVars, textVars, turnVars, tableVars, OtherTypes
<1>1. CASE UserStep
  <2>1. ASSUME NEW t \in Turns, Send(t) PROVE OtherTypes'
    BY <2>1 DEF Send
  <2>2. ASSUME NEW M \in SUBSET Messages, Enqueue(M) PROVE OtherTypes'
    BY <2>2 DEF Enqueue
  <2>3. CASE Dequeue
    BY <2>3 DEF Dequeue, Types
  <2>4. CASE Escape
    BY <2>4 DEF Escape, Types
  <2>5. ASSUME NEW s \in Sessions, SwitchTo(s) \/ NewSession(s) PROVE OtherTypes'
    <3>1. CASE SwitchTo(s)
      <4>1. spinner' \in BOOLEAN /\ sidecar' \in [Sessions -> {"none", "on", "off"}]
        BY <3>1, LoadType DEF SwitchTo
      <4> QED BY <3>1, <4>1 DEF SwitchTo
    <3>2. CASE NewSession(s)
      BY <3>2 DEF NewSession
    <3> QED BY <2>5, <3>1, <3>2
  <2> QED BY <1>1, <2>1, <2>2, <2>3, <2>4, <2>5 DEF UserStep
<1>2. CASE \E t \in Turns : TurnStep(t)
  BY <1>2 DEF TurnStep, InsertRow, DrainQueue, DeleteRow, Report, Panic, Fault
<1>3. CASE OnEvent
  <2>1. CASE OnComplete \/ OnCompleteAfterCancel \/ OnCompleteBehind \/ OnError
    <3>1. CASE OnComplete \/ OnCompleteBehind \/ OnError
      BY <3>1 DEF OnComplete, OnCompleteBehind, OnError
    <3>2. CASE OnCompleteAfterCancel
      <4>1. spinner' \in BOOLEAN /\ sidecar' \in [Sessions -> {"none", "on", "off"}]
        BY <3>2, LoadType DEF OnCompleteAfterCancel, Types
      <4> QED BY <3>2, <4>1 DEF OnCompleteAfterCancel
    <3> QED BY <2>1, <3>1, <3>2
  <2>2. CASE OnDrained \/ OnResumed \/ \E t \in Turns : OnChunk(t)
    BY <2>2 DEF OnDrained, OnResumed, OnChunk, Lazily
  <2> QED BY <1>3, <2>1, <2>2 DEF OnEvent
<1>4. CASE RestartStep
  <2>1. ASSUME NEW exec \in BOOLEAN, Restart(exec) PROVE OtherTypes'
    <3>1. restarts' \in 0 .. MaxRestarts
      BY <2>1, MaxRestartsAssumption DEF Restart
    <3> QED BY <2>1, <3>1 DEF Restart
  <2>2. CASE ReadRows \/ ClearRows \/ Initialize
    BY <2>2 DEF ReadRows, ClearRows, Initialize, Fault
  <2>3. ASSUME NEW t \in Turns, NEW s \in Sessions, Resume(t, s) \/ InitializeAwake(t)
        PROVE  OtherTypes'
    BY <2>3 DEF Resume, InitializeAwake
  <2> QED BY <1>4, <2>1, <2>2, <2>3 DEF RestartStep, Types
<1> QED
  BY <1>1, <1>2, <1>3, <1>4 DEF Next

-----------------------------------------------------------------------------
IInv == Types /\ OtherTypes /\ RowInv /\ HeldOnce /\ Begun /\ TokenInv

(* The invariants hold together in every state of every execution.         *)
LEMMA InductiveInvariant == Spec => []IInv
<1>1. Init => IInv
  <2> SUFFICES ASSUME Init PROVE IInv
    OBVIOUS
  <2>1. Begun /\ TokenInv
    BY DEF Init, Begun, TokenInv, NoStash
  <2>2. OtherTypes
    <3>1. restarts \in 0 .. MaxRestarts
      BY MaxRestartsAssumption DEF Init
    <3> QED BY <3>1 DEF Init, OtherTypes
  <2> QED BY <2>1, <2>2, InitTypes DEF IInv
<1>2. IInv /\ [Next]_vars => IInv'
  <2> SUFFICES ASSUME IInv, [Next]_vars PROVE IInv'
    OBVIOUS
  <2>1. CASE Next
    BY <2>1, TypesStep, RowStep, HeldStep, BegunStep, TokenStep, OtherTypesStep
    DEF IInv
  <2>2. CASE UNCHANGED vars
    BY <2>2 DEF IInv, Types, OtherTypes, RowInv, RowsFollowTurns, CutOff, HeldOnce, Begun, TokenInv, vars, bootVars, uiVars, textVars,
       turnVars, tableVars
  <2> QED BY <2>1, <2>2
<1> QED
  BY <1>1, <1>2, PTL DEF Spec

(* Every variable stays in its type.                                       *)
THEOREM TypeCorrect == Spec => []TypeOK
<1>1. IInv => TypeOK
  BY DEF IInv, Types, OtherTypes, TypeOK
<1> QED
  BY <1>1, InductiveInvariant, PTL

(* A turn at work has its row in pending_requests, unless the insert       *)
(* failed, as the table is cleared before any turn of the new process      *)
(* begins (cli/ui.rs).  A row, or a session to be resumed, is of a turn    *)
(* that works, was cut off, or could not delete it (tool_loop.rs): never   *)
(* of one that came to its end in order.                                   *)
THEOREM RowsAreOfWork == Spec => []RowsFollowTurns
<1>1. IInv => RowsFollowTurns
  BY DEF IInv, RowInv, RowsFollowTurns
<1> QED
  BY <1>1, InductiveInvariant, PTL

(* A follow-up is in one queue, or in the input buffer, or given to a      *)
(* turn (the message queue callback of cli/ui.rs).                         *)
THEOREM HeldInOnePlace == Spec => []HeldOnce
<1>1. IInv => HeldOnce
  BY DEF IInv
<1> QED
  BY <1>1, InductiveInvariant, PTL

(* A follow-up is never given to a turn of another session (cli/ui.rs).    *)
THEOREM FollowUpsStayHome == Spec => TakenAtHome
<1>1. IInv /\ [Next]_vars => [GivenAtHome]_vars
  BY HeldStep DEF IInv
<1> QED
  BY <1>1, InductiveInvariant, PTL DEF Spec, TakenAtHome, GivenAtHome

(* Escape reaches a turn of the session on the screen, and no session's    *)
(* stash holds another's token (load_session, PendingResumed).             *)
THEOREM TokensStayHome == Spec => []TokensAtHome
<1>1. IInv => TokensAtHome
  BY DEF IInv, TokenInv, TokensAtHome
<1> QED
  BY <1>1, InductiveInvariant, PTL

-----------------------------------------------------------------------------
(* The queues, as the user sees them.  A turn that has a message has       *)
(* begun, so that the session it has it for stays the same.                *)
TakenBegun == \A m \in Messages : taken[m] # NoTurn => at[taken[m]] # "unused"

GivenTo(m) == IF taken[m] = NoTurn THEN {} ELSE {<<taken[m], home[taken[m]]>>}

Mail == INSTANCE Mailbox WITH given <- [m \in Messages |-> GivenTo(m)]

MailSpec == Mail!Spec

Given == [m \in Messages |-> GivenTo(m)]

(* A used identity is used for good, and of one session.                   *)
LEMMA UsedStaysUsed ==
  ASSUME Types, Next
  PROVE  \A t \in Turns : at[t] # "unused" => at'[t] # "unused" /\ home'[t] = home[t]
<1> USE DEF bootVars, uiVars, textVars, turnVars, tableVars, Types
<1>1. ASSUME NEW t \in Turns, NEW s \in Sessions, Begin(t, s)
      PROVE  \A u \in Turns : at[u] # "unused" => at'[u] # "unused" /\ home'[u] = home[u]
  BY <1>1 DEF Begin
<1>2. CASE UserStep
  <2>1. CASE Escape
    BY <2>1 DEF Escape, Abort
  <2> QED
    BY <1>1, <1>2, <2>1 DEF UserStep, Send, Enqueue, Dequeue, SwitchTo, NewSession
<1>3. CASE \E t \in Turns : TurnStep(t)
  BY <1>3 DEF TurnStep, InsertRow, DrainQueue, DeleteRow, Report, Panic
<1>4. CASE OnEvent
  BY <1>4 DEF OnEvent, OnComplete, OnCompleteAfterCancel, OnCompleteBehind, OnError, OnDrained,
     OnResumed, OnChunk
<1>5. CASE RestartStep
  <2>1. ASSUME NEW exec \in BOOLEAN, Restart(exec)
        PROVE  \A u \in Turns : at[u] # "unused" => at'[u] # "unused" /\ home'[u] = home[u]
    BY <2>1 DEF Restart
  <2> QED
    BY <1>1, <1>5, <2>1 DEF RestartStep, ReadRows, ClearRows, Resume, Initialize, InitializeAwake
<1> QED BY <1>2, <1>3, <1>4, <1>5 DEF Next

(* A step that gives no message away.                                      *)
LEMMA SameGiven ==
  ASSUME Types, TakenBegun, Next, taken' = taken
  PROVE  TakenBegun' /\ Given' = Given
<1>1. \A m \in Messages : taken[m] # NoTurn =>
         at'[taken[m]] # "unused" /\ home'[taken[m]] = home[taken[m]]
  BY UsedStaysUsed DEF TakenBegun, Types
<1>2. TakenBegun'
  BY <1>1 DEF TakenBegun
<1>3. \A m \in Messages : GivenTo(m)' = GivenTo(m)
  BY <1>1 DEF GivenTo
<1> QED BY <1>2, <1>3 DEF Given

(* A step that gives messages to a turn.                                   *)
LEMMA MoreGiven ==
  ASSUME Types, TakenBegun, Next, NEW t \in Turns, NEW s \in Sessions, NEW M,
         taken' = [m \in Messages |-> IF m \in M THEN t ELSE taken[m]],
         at'[t] # "unused", home'[t] = s
  PROVE  TakenBegun' /\ Mail!Give(M, t, s)
<1>0. t # NoTurn
  BY NoTurnAssumption
<1>1. \A m \in Messages : taken[m] # NoTurn =>
         at'[taken[m]] # "unused" /\ home'[taken[m]] = home[taken[m]]
  BY UsedStaysUsed DEF TakenBegun, Types
<1>2. \A m \in Messages : taken'[m] = IF m \in M THEN t ELSE taken[m]
  OBVIOUS
<1>3. TakenBegun'
  BY <1>1, <1>2 DEF TakenBegun
<1>4. \A m \in Messages : GivenTo(m)' = IF m \in M THEN {<<t, s>>} ELSE GivenTo(m)
  BY <1>0, <1>1, <1>2 DEF GivenTo
<1> QED BY <1>3, <1>4 DEF Mail!Give

(* Each step of the interface is one of the mailbox.                       *)
LEMMA MailStep ==
  ASSUME IInv, TakenBegun, Next
  PROVE  TakenBegun' /\ (Mail!Next \/ UNCHANGED <<queue, Given>>)
<1> USE DEF bootVars, uiVars, textVars, turnVars, tableVars
<1>0. Types /\ HeldOnce /\ current \in Sessions
  BY DEF IInv, Types
<1>1. ASSUME NEW t \in Turns, Send(t) PROVE TakenBegun' /\ Mail!Next
  <2>1. at'[t] # "unused" /\ home'[t] = current
    BY <1>0, <1>1, BeginType DEF Send
  <2>2. TakenBegun' /\ Mail!Give(draft, t, current) /\ queue' = queue
    BY <1>0, <1>1, <2>1, MoreGiven DEF Send
  <2>3. draft \in SUBSET Mail!Free
    BY <1>0 DEF IInv, OtherTypes, HeldOnce, Mail!Free, GivenTo
  <2>4. Mail!Prompt(t, current)
    BY <2>2, <2>3 DEF Mail!Prompt
  <2> QED BY <1>0, <2>2, <2>4 DEF Mail!Next
<1>2. ASSUME NEW M \in SUBSET Messages, Enqueue(M) PROVE TakenBegun' /\ Mail!Next
  <2>1. TakenBegun' /\ Given' = Given
    BY <1>0, <1>2, SameGiven DEF Enqueue
  <2>2. M \subseteq Mail!Free
    BY <1>2 DEF Enqueue, Unsent, Mail!Free, GivenTo
  <2>3. Mail!Put(M, current)
    BY <1>2, <2>1, <2>2 DEF Enqueue, Mail!Put, Given
  <2> QED BY <1>0, <2>1, <2>3 DEF Mail!Next
<1>3. ASSUME taken' = taken, queue' = [queue EXCEPT ![current] = {}]
      PROVE  TakenBegun' /\ Mail!Next
  <2>1. TakenBegun' /\ Given' = Given
    BY <1>0, <1>3, SameGiven
  <2>2. Mail!Empty(current)
    BY <1>3, <2>1 DEF Mail!Empty, Given
  <2> QED BY <1>0, <2>1, <2>2 DEF Mail!Next
<1>4. ASSUME NEW t \in Turns, DrainQueue(t) PROVE TakenBegun' /\ Mail!Next
  <2> DEFINE s == home[t]
  <2>1. s \in Sessions /\ at'[t] # "unused" /\ home'[t] = s
    BY <1>0, <1>4 DEF DrainQueue, Types, Working
  <2>2. taken' = [m \in Messages |-> IF m \in queue[s] THEN t ELSE taken[m]]
    BY <1>4 DEF DrainQueue
  <2>3. queue' = [queue EXCEPT ![s] = {}]
    BY <1>4 DEF DrainQueue
  <2> HIDE DEF s
  <2>4. TakenBegun' /\ Mail!Give(queue[s], t, s)
    BY <1>0, <2>1, <2>2, MoreGiven
  <2>5. \A m \in queue[s] : m \in Messages /\ taken[m] = NoTurn
    BY <1>0, <2>1 DEF HeldOnce, Types
  <2>6. Mail!Take(t, s)
    BY <2>3, <2>4, <2>5 DEF Mail!Take, GivenTo
  <2> QED BY <2>1, <2>4, <2>6 DEF Mail!Next
<1>5. ASSUME NEW exec \in BOOLEAN, Restart(exec) PROVE TakenBegun' /\ Mail!Next
  <2>1. TakenBegun' /\ Given' = Given
    BY <1>0, <1>5, SameGiven DEF Restart
  <2>2. Mail!Restart
    BY <1>5, <2>1 DEF Restart, Mail!Restart, Given
  <2> QED BY <2>1, <2>2 DEF Mail!Next
<1>6. ASSUME taken' = taken, queue' = queue
      PROVE  TakenBegun' /\ UNCHANGED <<queue, Given>>
  BY <1>0, <1>6, SameGiven
<1>7. CASE UserStep
  BY <1>1, <1>2, <1>3, <1>6, <1>7 DEF UserStep, Dequeue, Escape, SwitchTo, NewSession
<1>8. CASE \E t \in Turns : TurnStep(t)
  BY <1>4, <1>6, <1>8 DEF TurnStep, InsertRow, DeleteRow, Report, Panic
<1>9. CASE OnEvent
  BY <1>3, <1>6, <1>9 DEF OnEvent, OnComplete, OnCompleteAfterCancel, OnCompleteBehind, OnError,
     OnDrained, OnResumed, OnChunk
<1>10. CASE RestartStep
  BY <1>5, <1>6, <1>10 DEF RestartStep, ReadRows, ClearRows, Resume, Initialize, InitializeAwake
<1> QED BY <1>7, <1>8, <1>9, <1>10 DEF Next

(* The interface implements the mailbox: a follow-up is given to one turn  *)
(* in its life, of the session whose queue it was in, however the user     *)
(* switches, edits and cancels while turns of several sessions drain their *)
(* queues, are aborted, report, or are cut off by a restart (the message   *)
(* queue callback of cli/ui.rs and tui/app/).                              *)
THEOREM MailboxImplemented == Spec => MailSpec
<1>1. Init => TakenBegun /\ Mail!Init
  BY DEF Init, TakenBegun, Mail!Init, GivenTo
<1>2. ASSUME IInv, TakenBegun, [Next]_vars
      PROVE  TakenBegun' /\ [Mail!Next]_(Mail!mailVars)
  <2>1. CASE Next
    BY <1>2, <2>1, MailStep DEF Mail!mailVars, Given
  <2>2. CASE UNCHANGED vars
    BY <1>2, <2>2 DEF vars, textVars, turnVars, TakenBegun, Mail!mailVars, GivenTo
  <2> QED BY <1>2, <2>1, <2>2
<1>3. IInv /\ TakenBegun /\ [Next]_vars => TakenBegun' /\ [Mail!Next]_(Mail!mailVars)
  BY <1>2
<1> QED
  BY <1>1, <1>3, InductiveInvariant, PTL DEF Spec, MailSpec, Mail!Spec

-----------------------------------------------------------------------------
(* How far the statement of processing_sessions holds.  A turn owes its    *)
(* session a report while it works and until the report is handled; a      *)
(* session is stuck when it is marked at work and no turn owes it one.     *)
Reports == {"complete", "error", "cancelled"}

Sent(t) == \E i \in DOMAIN events : events[i].kind \in Reports /\ events[i].turn = t

Owing(t) == at[t] \in Alive \/ Sent(t)

Stuck(s) == s \in processing /\ \A t \in Turns : home[t] = s => ~Owing(t)

(* There are four ways into it, and no other, restarts included: Escape    *)
(* aborts the turn of a session that is not on the screen, through the one *)
(* handle there is; the completion of a session that is on the screen, but *)
(* not shown at work, is taken for one that comes after an Escape; a turn  *)
(* panics that nobody watches, as it was resumed or woken; or the notice   *)
(* of a resumed turn is read when the turn has been cut off already.       *)
StuckInFourWays ==
  [][\A s \in Sessions : ~Stuck(s) /\ Stuck(s)' =>
       \/ Escape /\ handle \in Turns /\ home[handle] = s /\ s # current
       \/ OnCompleteAfterCancel /\ Of = s /\ s \in processing
       \/ \E t \in Turns \ watched : Panic(t) /\ home[t] = s
       \/ OnResumed /\ Of = s /\ at[Next1.turn] = "dead"]_vars

(* A turn that was resumed is still at work, or was cut off, or has sent   *)
(* its report after the notice, when the interface reads that it was.      *)
ResumedInv ==
  \A i \in DOMAIN events : events[i].kind = "resumed" =>
    \/ at[events[i].turn] \in Alive \cup {"dead"}
    \/ \E k \in DOMAIN events :
         i < k /\ events[k].kind \in Reports /\ events[k].turn = events[i].turn

(* What is left of the channel when its first event is taken.              *)
LEMMA ChannelPops ==
  ASSUME Types, NEW kind, Received(kind)
  PROVE  /\ 1 \in DOMAIN events /\ Next1 = events[1] /\ Next1.kind = kind
         /\ Next1.turn \in Turns
         /\ \A i \in DOMAIN events' : /\ i \in Nat /\ i + 1 \in DOMAIN events
                                      /\ events'[i] = events[i + 1]
         /\ \A i \in DOMAIN events : i \in Nat /\ (i > 1 =>
              i - 1 \in DOMAIN events' /\ events'[i - 1] = events[i])
<1> DEFINE E == [kind : Kinds, turn : Turns]
<1>1. events \in Seq(E) /\ events # <<>> /\ events' = Tail(events) /\ Next1 = Head(events)
  BY DEF Types, Received, Next1
<1>2. Next1.turn \in Turns /\ Next1.kind = kind
  BY HeadType, <1>1 DEF Received
<1> HIDE DEF E
<1>3. DOMAIN events = 1 .. Len(events) /\ Len(events) \in Nat /\ Len(events) >= 1
  BY <1>1
<1>4. /\ DOMAIN events' = 1 .. (Len(events) - 1)
      /\ \A i \in DOMAIN events' : events'[i] = events[i + 1]
  BY <1>1, <1>3
<1>5. Next1 = events[1]
  BY <1>1
<1> QED BY <1>2, <1>3, <1>4, <1>5

(* The channel when an event is sent.                                      *)
LEMMA ChannelGrows ==
  ASSUME Types, NEW k \in Kinds, NEW t \in Turns, Emit(k, t)
  PROVE  /\ DOMAIN events \subseteq Nat /\ DOMAIN events' \subseteq Nat
         /\ DOMAIN events \subseteq DOMAIN events'
         /\ \A i \in DOMAIN events : events'[i] = events[i] /\ i < Len(events')
         /\ Len(events') \in DOMAIN events'
         /\ events'[Len(events')] = [kind |-> k, turn |-> t]
         /\ \A i \in DOMAIN events' : i \in DOMAIN events \/ i = Len(events')
<1> DEFINE E == [kind : Kinds, turn : Turns]
           e == [kind |-> k, turn |-> t]
<1>1. events \in Seq(E) /\ e \in E /\ events' = Append(events, e)
  BY DEF Types, Emit
<1> HIDE DEF E, e
<1>2. /\ DOMAIN events = 1 .. Len(events) /\ Len(events) \in Nat
      /\ Len(events') = Len(events) + 1 /\ DOMAIN events' = 1 .. (Len(events) + 1)
      /\ events'[Len(events) + 1] = e
      /\ \A i \in DOMAIN events : events'[i] = events[i]
  BY <1>1
<1> QED BY <1>2 DEF e

(* A step does not send and take, nor send and leave the channel alone.    *)
LEMMA ChannelMovesOnce ==
  ASSUME Types, NEW k \in Kinds, NEW t \in Turns, Emit(k, t)
  PROVE  events' # events /\ \A kind : ~Received(kind)
<1> DEFINE E == [kind : Kinds, turn : Turns]
           e == [kind |-> k, turn |-> t]
<1>1. events \in Seq(E) /\ e \in E /\ events' = Append(events, e)
  BY DEF Types, Emit
<1> HIDE DEF E, e
<1>2. Len(events') = Len(events) + 1 /\ Len(events) \in Nat
  BY <1>1
<1>3. events # <<>> => Len(Tail(events)) = Len(events) - 1
  BY <1>1
<1>4. events' # events
  BY <1>2
<1>5. ASSUME NEW kind, Received(kind) PROVE FALSE
  <2>1. events # <<>> /\ events' = Tail(events)
    BY <1>5 DEF Received
  <2> QED BY <1>2, <1>3, <2>1
<1> QED BY <1>4, <1>5

(* Taking an event changes the channel.                                    *)
LEMMA TailShorter ==
  ASSUME Types, events # <<>>
  PROVE  Tail(events) # events
<1> DEFINE E == [kind : Kinds, turn : Turns]
<1>1. events \in Seq(E)
  BY DEF Types
<1> HIDE DEF E
<1> QED BY <1>1

(* A turn stops owing a report when it is aborted, when it panics and      *)
(* nobody watches, when the process ends, and when its report is taken     *)
(* from the channel.                                                       *)
LEMMA OwingEnds ==
  ASSUME Types, Next, NEW t \in Turns, Owing(t), ~Owing(t)'
  PROVE  \/ Escape /\ handle = t
         \/ Panic(t) /\ t \notin watched
         \/ \E exec \in BOOLEAN : Restart(exec)
         \/ \E kind \in Reports : Received(kind) /\ Next1.turn = t
<1> USE DEF bootVars, uiVars, textVars, turnVars, tableVars
<1>1. CASE at[t] \in Alive
  <2>1. at'[t] \notin Alive /\ ~Sent(t)'
    BY DEF Owing, Alive, Working
  <2>2. CASE Report(t)
    <3>1. PICK k \in Reports : Emit(k, t)
      BY <2>2 DEF Report, Reports
    <3>2. /\ Len(events') \in DOMAIN events'
          /\ events'[Len(events')] = [kind |-> k, turn |-> t]
      BY <3>1, ChannelGrows DEF Reports, Kinds
    <3>3. events'[Len(events')].kind \in Reports /\ events'[Len(events')].turn = t
      BY <3>2
    <3>4. Sent(t)'
      BY <3>2, <3>3 DEF Sent
    <3> QED BY <2>1, <3>4
  <2>3. CASE Escape
    BY <1>1, <2>1, <2>3 DEF Escape, Abort, Types, Alive, Working
  <2>4. ASSUME NEW u \in Turns, NEW s \in Sessions, Begin(u, s) PROVE FALSE
    BY <1>1, <2>1, <2>4 DEF Begin, Types, Alive, Working
  <2>7. CASE Panic(t) /\ t \in watched
    <3>1. Emit("error", t)
      BY <2>7 DEF Panic
    <3>2. /\ Len(events') \in DOMAIN events'
          /\ events'[Len(events')] = [kind |-> "error", turn |-> t]
      BY <3>1, ChannelGrows DEF Kinds
    <3>3. Sent(t)'
      BY <3>2 DEF Sent, Reports
    <3> QED BY <2>1, <3>3
  <2>5. ASSUME NEW u \in Turns, TurnStep(u), ~Report(t), ~Panic(t) PROVE FALSE
    BY <1>1, <2>1, <2>5 DEF TurnStep, InsertRow, DrainQueue, DeleteRow, Report, Panic, Types, Alive, Working
  <2>6. CASE at' = at
    BY <1>1, <2>1, <2>6
  <2> HIDE DEF Owing
  <2> QED
    BY <2>2, <2>3, <2>4, <2>5, <2>6, <2>7
    DEF Next, UserStep, Send, Enqueue, Dequeue, SwitchTo, NewSession, OnEvent, OnChunk, OnComplete,
        OnCompleteAfterCancel, OnCompleteBehind, OnError, OnDrained, OnResumed, RestartStep,
        ReadRows, ClearRows, Resume, Initialize, InitializeAwake, Types
<1>2. CASE Sent(t)
  <2>1. ~Sent(t)'
    BY DEF Owing, Alive, Working
  <2>2. PICK i \in DOMAIN events : events[i].kind \in Reports /\ events[i].turn = t
    BY <1>2 DEF Sent
  <2>3. ASSUME NEW k \in Kinds, NEW u \in Turns, Emit(k, u) PROVE FALSE
    BY <2>1, <2>2, <2>3, ChannelGrows DEF Sent
  <2>4. ASSUME events' = events PROVE FALSE
    BY <2>1, <2>2, <2>4 DEF Sent
  <2>5. ASSUME NEW kind, Received(kind)
        PROVE  kind \in Reports /\ Next1.turn = t
    <3>1. CASE i = 1
      BY <2>2, <2>5, <3>1, ChannelPops
    <3>2. CASE i # 1
      <4>1. i - 1 \in DOMAIN events' /\ events'[i - 1] = events[i]
        <5>1. i \in Nat /\ i >= 1
          BY <2>2 DEF Types
        <5> QED BY <2>5, <3>2, <5>1, ChannelPops
      <4> QED BY <2>1, <2>2, <4>1 DEF Sent
    <3> QED BY <3>1, <3>2
  <2>6. CASE \E u \in Turns : TurnStep(u)
    BY <2>3, <2>4, <2>6 DEF TurnStep, InsertRow, DrainQueue, DeleteRow, Report, Panic, Kinds
  <2>7. CASE OnEvent
    BY <2>4, <2>5, <2>7
    DEF OnEvent, OnChunk, OnComplete, OnCompleteAfterCancel, OnCompleteBehind, OnError, OnDrained,
        OnResumed, Reports
  <2>8. CASE UserStep
    BY <2>4, <2>8 DEF UserStep, Send, Enqueue, Dequeue, Escape, SwitchTo, NewSession
  <2>9. CASE RestartStep
    BY <2>3, <2>4, <2>9
    DEF RestartStep, ReadRows, ClearRows, Resume, Initialize, InitializeAwake, Kinds
  <2> QED BY <2>6, <2>7, <2>8, <2>9 DEF Next
<1> QED BY <1>1, <1>2 DEF Owing

(* A turn that is at work, or was cut off, stays so unless it reports.     *)
LEMMA AliveEnds ==
  ASSUME Types, Next, NEW t \in Turns,
         at[t] \in Alive \cup {"dead"}, at'[t] \notin Alive \cup {"dead"}
  PROVE  Report(t)
<1> USE DEF bootVars, uiVars, textVars, turnVars, tableVars
<1>1. ASSUME Escape PROVE FALSE
  BY <1>1 DEF Escape, Abort, Types, Alive, Working
<1>2. ASSUME NEW u \in Turns, NEW s \in Sessions, Begin(u, s) PROVE FALSE
  BY <1>2 DEF Begin, Types, Alive, Working
<1>3. ASSUME NEW u \in Turns, TurnStep(u), ~Report(t) PROVE FALSE
  BY <1>3 DEF TurnStep, InsertRow, DrainQueue, DeleteRow, Report, Panic, Types, Alive, Working
<1>4. ASSUME at' = at PROVE FALSE
  BY <1>4
<1>5. ASSUME NEW exec \in BOOLEAN, Restart(exec) PROVE FALSE
  BY <1>5 DEF Restart, Types
<1> QED
  BY <1>1, <1>2, <1>3, <1>4, <1>5
  DEF Next, UserStep, Send, Enqueue, Dequeue, SwitchTo, NewSession, OnEvent, OnChunk, OnComplete,
      OnCompleteAfterCancel, OnCompleteBehind, OnError, OnDrained, OnResumed, RestartStep,
      ReadRows, ClearRows, Resume, Initialize, InitializeAwake, Types

(* What becomes of the channel in a step.                                  *)
LEMMA ChannelMoves ==
  ASSUME Next
  PROVE  \/ events' = events
         \/ events' = <<>>
         \/ \E kind \in Kinds : Received(kind)
         \/ \E t \in Turns, kind \in Kinds \ {"resumed"} : Emit(kind, t)
         \/ \E t \in Turns : /\ Emit("resumed", t) /\ at[t] = "unused"
                             /\ at' = [at EXCEPT ![t] = "starting"]
<1> USE DEF bootVars, uiVars, textVars, turnVars, tableVars
<1>1. CASE UserStep
  BY <1>1 DEF UserStep, Send, Enqueue, Dequeue, Escape, SwitchTo, NewSession
<1>2. CASE \E t \in Turns : TurnStep(t)
  BY <1>2 DEF TurnStep, InsertRow, DrainQueue, DeleteRow, Report, Panic, Kinds
<1>3. CASE OnEvent
  BY <1>3 DEF OnEvent, OnChunk, OnComplete, OnCompleteAfterCancel, OnCompleteBehind, OnError,
     OnDrained, OnResumed, Kinds
<1>4. CASE RestartStep
  BY <1>4 DEF RestartStep, Restart, ReadRows, ClearRows, Resume, Begin, Initialize, InitializeAwake
<1> QED BY <1>1, <1>2, <1>3, <1>4 DEF Next

(* Every step keeps what is known of the turns that were resumed.          *)
LEMMA ResumedStep ==
  ASSUME Types, OtherTypes, Begun, ResumedInv, Next
  PROVE  ResumedInv'
<1> DEFINE Ends(i) == \E k \in DOMAIN events :
                        i < k /\ events[k].kind \in Reports /\ events[k].turn = events[i].turn
<1>0. \A i \in DOMAIN events : /\ i \in Nat /\ i <= Len(events) /\ events[i].turn \in Turns
                               /\ at[events[i].turn] # "unused"
  <2>1. \A e \in [kind : Kinds, turn : Turns] : e.turn \in Turns
    OBVIOUS
  <2>2. \A i \in DOMAIN events : i \in Nat /\ i <= Len(events)
                                 /\ events[i] \in [kind : Kinds, turn : Turns]
    <3> DEFINE E == [kind : Kinds, turn : Turns]
    <3>1. events \in Seq(E)
      BY DEF Types
    <3> HIDE DEF E
    <3>2. \A i \in DOMAIN events : i \in Nat /\ i <= Len(events) /\ events[i] \in E
      BY <3>1
    <3> QED BY <3>2 DEF E
  <2> QED BY <2>1, <2>2 DEF Begun
<1>3. ASSUME NEW i \in DOMAIN events, events[i].kind = "resumed"
      PROVE  \/ at'[events[i].turn] \in Alive \cup {"dead"}
             \/ Ends(i)
             \/ events' = <<>>
             \/ Report(events[i].turn)
  <2>1. CASE at[events[i].turn] \in Alive \cup {"dead"} /\ at'[events[i].turn] \notin Alive \cup {"dead"}
    BY <1>0, <2>1, AliveEnds
  <2> QED BY <1>3, <2>1 DEF ResumedInv
<1>4. ASSUME NEW j \in DOMAIN events', events'[j].kind = "resumed"
      PROVE  \/ at'[events'[j].turn] \in Alive \cup {"dead"}
             \/ \E k \in DOMAIN events' :
                  j < k /\ events'[k].kind \in Reports /\ events'[k].turn = events'[j].turn
  <2>1. CASE events' = events
    <3>1. ~Report(events[j].turn)
      <4>1. SUFFICES ASSUME Report(events[j].turn) PROVE FALSE
        OBVIOUS
      <4>2. PICK k \in Kinds : Emit(k, events[j].turn)
        BY <4>1 DEF Report, Kinds
      <4> QED BY <1>0, <2>1, <4>2, ChannelMovesOnce
    <3> QED BY <1>3, <1>4, <2>1, <3>1
  <2>2. CASE events' = <<>>
    BY <1>4, <2>2
  <2>3. ASSUME NEW kind \in Kinds, Received(kind)
        PROVE  \/ at'[events'[j].turn] \in Alive \cup {"dead"}
               \/ \E k \in DOMAIN events' :
                    j < k /\ events'[k].kind \in Reports /\ events'[k].turn = events'[j].turn
    <3>1. j \in Nat /\ j + 1 \in DOMAIN events /\ events'[j] = events[j + 1]
      BY <2>3, ChannelPops
    <3>2. ~Report(events[j + 1].turn)
      <4>1. SUFFICES ASSUME Report(events[j + 1].turn) PROVE FALSE
        OBVIOUS
      <4>2. PICK k \in Kinds : Emit(k, events[j + 1].turn)
        BY <4>1 DEF Report, Kinds
      <4> QED BY <1>0, <2>3, <3>1, <4>2, ChannelMovesOnce
    <3>3. CASE Ends(j + 1)
      <4>1. PICK k \in DOMAIN events :
              j + 1 < k /\ events[k].kind \in Reports /\ events[k].turn = events[j + 1].turn
        BY <3>3
      <4>2. k - 1 \in DOMAIN events' /\ events'[k - 1] = events[k] /\ j < k - 1
        BY <1>0, <2>3, <3>1, <4>1, ChannelPops
      <4> QED BY <1>4, <3>1, <4>1, <4>2
    <3>4. CASE at'[events[j + 1].turn] \in Alive \cup {"dead"}
      BY <1>4, <3>1, <3>4
    <3> QED BY <1>3, <1>4, <3>1, <3>2, <3>3, <3>4
  <2>4. ASSUME NEW k \in Kinds, NEW t \in Turns, Emit(k, t), j \in DOMAIN events
        PROVE  \/ at'[events'[j].turn] \in Alive \cup {"dead"}
               \/ \E i \in DOMAIN events' :
                    j < i /\ events'[i].kind \in Reports /\ events'[i].turn = events'[j].turn
    <3>1. events'[j] = events[j] /\ DOMAIN events \subseteq DOMAIN events'
      BY <2>4, ChannelGrows
    <3>2. CASE Report(events[j].turn)
      <4>1. PICK r \in Reports : Emit(r, events[j].turn)
        BY <3>2 DEF Report, Reports
      <4>2. /\ Len(events') \in DOMAIN events' /\ j < Len(events')
            /\ events'[Len(events')] = [kind |-> r, turn |-> events[j].turn]
        BY <1>0, <2>4, <4>1, ChannelGrows DEF Reports, Kinds
      <4>3. /\ events'[Len(events')].kind \in Reports
            /\ events'[Len(events')].turn = events[j].turn
        BY <4>2
      <4> QED BY <1>4, <2>4, <3>1, <4>2, <4>3
    <3>3. CASE Ends(j)
      <4>1. PICK i \in DOMAIN events :
              j < i /\ events[i].kind \in Reports /\ events[i].turn = events[j].turn
        BY <3>3
      <4>2. i \in DOMAIN events' /\ events'[i] = events[i]
        BY <2>4, <4>1, ChannelGrows
      <4> QED BY <1>4, <2>4, <3>1, <4>1, <4>2
    <3>4. CASE at'[events[j].turn] \in Alive \cup {"dead"}
      BY <1>4, <2>4, <3>1, <3>4
    <3>5. events' # <<>>
      BY <2>4, <3>1
    <3> QED BY <1>3, <1>4, <2>4, <3>1, <3>2, <3>3, <3>4, <3>5
  <2>5. ASSUME NEW t \in Turns, NEW k \in Kinds, Emit(k, t), j \notin DOMAIN events
        PROVE  k = "resumed" /\ events'[j].turn = t
    <3>1. events'[j] = [kind |-> k, turn |-> t]
      BY <2>5, ChannelGrows
    <3> QED BY <1>4, <3>1
  <2>6. ASSUME NEW t \in Turns, Emit("resumed", t), at[t] = "unused",
               at' = [at EXCEPT ![t] = "starting"], j \notin DOMAIN events
        PROVE  at'[events'[j].turn] \in Alive \cup {"dead"}
    BY <2>5, <2>6 DEF ResumedInv, Types, Alive, Working, Kinds
  <2> HIDE DEF Ends
  <2>7. "resumed" \in Kinds
    BY DEF Kinds
  <2>8. ASSUME NEW t \in Turns, NEW k \in Kinds \ {"resumed"}, Emit(k, t)
        PROVE  j \in DOMAIN events
    BY <2>5, <2>8
  <2> QED BY <2>1, <2>2, <2>3, <2>4, <2>6, <2>7, <2>8, ChannelMoves
<1> QED BY <1>4 DEF ResumedInv

(* It holds in every state.                                                *)
LEMMA ResumedKnown == Spec => []ResumedInv
<1>1. Init => ResumedInv
  BY NoTurnAssumption DEF Init, ResumedInv
<1>2. IInv /\ ResumedInv /\ [Next]_vars => ResumedInv'
  <2> SUFFICES ASSUME IInv, ResumedInv, [Next]_vars PROVE ResumedInv'
    OBVIOUS
  <2>1. CASE UNCHANGED vars
    BY <2>1 DEF vars, uiVars, turnVars, ResumedInv
  <2> QED BY <2>1, ResumedStep DEF IInv
<1> QED BY <1>1, <1>2, InductiveInvariant, PTL DEF Spec

(* One step, and one session that it leaves stuck.                         *)
LEMMA StuckStep ==
  ASSUME IInv, ResumedInv, Next, NEW s \in Sessions, ~Stuck(s), Stuck(s)'
  PROVE  \/ Escape /\ handle \in Turns /\ home[handle] = s /\ s # current
         \/ OnCompleteAfterCancel /\ Of = s /\ s \in processing
         \/ \E t \in Turns \ watched : Panic(t) /\ home[t] = s
         \/ OnResumed /\ Of = s /\ at[Next1.turn] = "dead"
<1> USE DEF bootVars, uiVars, textVars, turnVars, tableVars
<1>0. /\ s \in processing' /\ \A t \in Turns : home'[t] = s => ~Owing(t)'
      /\ Types /\ OtherTypes /\ Begun
  BY DEF Stuck, IInv
<1>1. CASE s \notin processing
  <2>1. ASSUME NEW t \in Turns, Begin(t, s) PROVE FALSE
    BY <1>0, <2>1 DEF Begin, Owing, Alive, Working, Types
  <2>2. CASE OnResumed
    <3>1. Received("resumed") /\ Of = s /\ at' = at /\ home' = home
      BY <1>0, <1>1, <2>2 DEF OnResumed
    <3>2. /\ 1 \in DOMAIN events /\ Next1 = events[1] /\ Next1.kind = "resumed"
          /\ Next1.turn \in Turns /\ home[Next1.turn] = s
      BY <1>0, <3>1, ChannelPops DEF Of
    <3>3. CASE at[Next1.turn] \in Alive
      BY <1>0, <3>1, <3>2, <3>3 DEF Owing
    <3>4. CASE \E k \in DOMAIN events : 1 < k /\ events[k].kind \in Reports /\ events[k].turn = Next1.turn
      <4>1. PICK k \in DOMAIN events : 1 < k /\ events[k].kind \in Reports /\ events[k].turn = Next1.turn
        BY <3>4
      <4>2. k - 1 \in DOMAIN events' /\ events'[k - 1] = events[k]
        BY <1>0, <3>1, <4>1, ChannelPops
      <4> QED BY <1>0, <3>1, <3>2, <4>1, <4>2 DEF Owing, Sent
    <3>5. CASE at[Next1.turn] = "dead"
      BY <2>2, <3>1, <3>5
    <3> QED BY <3>2, <3>3, <3>4, <3>5 DEF ResumedInv
  <2>3. ASSUME NEW t \in Turns, Send(t) \/ InitializeAwake(t) PROVE FALSE
    BY <1>0, <1>1, <2>1, <2>3 DEF Send, InitializeAwake
  <2> HIDE DEF Stuck
  <2> QED
    BY <1>0, <1>1, <2>2, <2>3
    DEF Next, UserStep, Enqueue, Dequeue, Escape, SwitchTo, NewSession, OnEvent, OnChunk,
        OnComplete, OnCompleteAfterCancel, OnCompleteBehind, OnError, OnDrained, RestartStep,
        TurnStep, InsertRow, DrainQueue, DeleteRow, Report, Panic, Restart, ReadRows, ClearRows, Resume,
        Initialize
<1>2. CASE s \in processing
  <2>1. PICK t \in Turns : home[t] = s /\ Owing(t)
    BY <1>2 DEF Stuck
  <2>2. at[t] # "unused"
    BY <1>0, <2>1 DEF Owing, Sent, Alive, Working, Begun
  <2>3. home'[t] = s
    BY <1>0, <2>1, <2>2, UsedStaysUsed
  <2>4. ~Owing(t)'
    BY <1>0, <2>3
  <2>5. CASE Escape /\ handle = t
    BY <1>0, <2>1, <2>5 DEF Escape
  <2>6. ASSUME NEW exec \in BOOLEAN, Restart(exec) PROVE FALSE
    BY <1>0, <2>6 DEF Restart
  <2>7. ASSUME NEW kind \in Reports, Received(kind), Next1.turn = t
        PROVE  OnCompleteAfterCancel
    <3>1. Of = s /\ Next1.kind = kind /\ events # <<>> /\ events' = Tail(events)
      BY <2>1, <2>7 DEF Of, Received
    <3>2. OnEvent
      <4>1. ASSUME events' = events PROVE FALSE
        BY <1>0, <3>1, <4>1, TailShorter
      <4>2. ASSUME NEW k \in Kinds, NEW u \in Turns, Emit(k, u) PROVE FALSE
        BY <1>0, <2>7, <4>2, ChannelMovesOnce
      <4> QED
        BY <2>6, <4>1, <4>2
        DEF Next, UserStep, Send, Enqueue, Dequeue, Escape, SwitchTo, NewSession, RestartStep,
            TurnStep, InsertRow, DrainQueue, DeleteRow, Report, Panic, ReadRows, ClearRows, Resume,
            Initialize, InitializeAwake, Kinds
    <3>3. ~OnComplete /\ ~OnCompleteBehind /\ ~OnError
      BY <1>0, <3>1 DEF OnComplete, OnCompleteBehind, OnError
    <3>4. ~OnDrained /\ ~OnResumed
      BY <2>7, <3>1 DEF OnDrained, OnResumed, Received, Reports
    <3>5. ASSUME NEW u \in Turns, OnChunk(u) PROVE FALSE
      BY <1>0, <3>1, <3>5, TailShorter DEF OnChunk
    <3> QED BY <3>2, <3>3, <3>4, <3>5 DEF OnEvent
  <2>8. CASE Panic(t) /\ t \notin watched
    BY <2>1, <2>8
  <2> QED BY <1>0, <1>2, <2>1, <2>4, <2>5, <2>6, <2>7, <2>8, OwingEnds DEF Of
<1> QED BY <1>1, <1>2

(* The sessions that the comment of processing_sessions is wrong about are *)
(* those of Escape pressed in another session, of completions that find    *)
(* the spinner off (state.rs, input.rs), and of resumed and woken turns    *)
(* that panic (only messaging.rs has a watcher), and there are no others.  *)
THEOREM StuckOnlyInFourWays == Spec => StuckInFourWays
<1>1. ASSUME IInv, ResumedInv, Next, NEW s \in Sessions, ~Stuck(s), Stuck(s)'
      PROVE  \/ Escape /\ handle \in Turns /\ home[handle] = s /\ s # current
             \/ OnCompleteAfterCancel /\ Of = s /\ s \in processing
             \/ \E t \in Turns \ watched : Panic(t) /\ home[t] = s
             \/ OnResumed /\ Of = s /\ at[Next1.turn] = "dead"
  BY <1>1, StuckStep
<1>2. IInv /\ ResumedInv /\ [Next]_vars =>
        [\A s \in Sessions : ~Stuck(s) /\ Stuck(s)' =>
           \/ Escape /\ handle \in Turns /\ home[handle] = s /\ s # current
           \/ OnCompleteAfterCancel /\ Of = s /\ s \in processing
           \/ \E t \in Turns \ watched : Panic(t) /\ home[t] = s
           \/ OnResumed /\ Of = s /\ at[Next1.turn] = "dead"]_vars
  BY <1>1
<1> QED BY <1>2, InductiveInvariant, ResumedKnown, PTL DEF Spec, StuckInFourWays

=============================================================================
