------------------------- MODULE FallbackProvider -------------------------
(***************************************************************************)
(* The fallback chain (brain/provider/fallback.rs): provider 0 is the      *)
(* primary and 1 .. Fallbacks are its fallbacks.  The chain is shared by   *)
(* the turns of all sessions, which read and write `active` without a lock *)
(* around what they do with it, and by the tool loop, which collects the   *)
(* swap event, asks again and may force the next fallback.                 *)
(*                                                                         *)
(* One step is one access to shared state or one answer of a provider.  A  *)
(* turn is here what one round of the loop does to the chain: it asks and  *)
(* asks again, after errors and after dropped streams, until an answer is  *)
(* used or the round is given up.                                          *)
(***************************************************************************)
EXTENDS Naturals

CONSTANTS
  Turns,      \* agent turns that may use the chain at the same time
  Fallbacks,  \* the number of fallbacks
  MaxRetries, \* how often the arms of errors ask the same chain again
  MaxDrops    \* MAX_STREAM_RETRIES: streams that may drop before the next fallback

ASSUME FallbacksAssumption == Fallbacks \in Nat \ {0}
ASSUME RetriesAssumption == MaxRetries \in Nat /\ MaxDrops \in Nat

VARIABLES
  active,   \* FallbackProvider.active
  pending,  \* FallbackProvider.pending_swap
  turn      \* where each turn is and what it has read

vars == <<active, pending, turn>>

Providers == 0 .. Fallbacks

TurnPlaces == {"idle", "load_start", "load_active", "try_active", "try_next",
               "swap", "record", "stream", "take", "taken", "failed", "error"}

(* start: start_idx.  current: the provider being tried, or the new_idx of *)
(* a promote in progress, whose old_idx is old.  tried: the providers that *)
(* failed this request.  forced: the promote is one of force_next_fallback.*)
(* retries: attempts of the arm of an error.  drops: stream_retry_count.   *)
TurnRecords ==
  [at : TurnPlaces, start : Providers, current : Providers, old : Providers,
   tried : SUBSET Providers, forced : BOOLEAN,
   retries : 0 .. MaxRetries, drops : 0 .. MaxDrops]

IdleTurn == [at |-> "idle", start |-> 0, current |-> 0, old |-> 0,
             tried |-> {}, forced |-> FALSE, retries |-> 0, drops |-> 0]

(* The request is over, and with it its locals.                            *)
Beyond(t, at) ==
  [IdleTurn EXCEPT !.at = at, !.retries = turn[t].retries, !.drops = turn[t].drops]

NoEvent == [from |-> 0, to |-> 0]
Events == [from : Providers, to : Providers]

Become(t, record) == turn' = [turn EXCEPT ![t] = record]
EndTurn(t) == Become(t, IdleTurn)

(* new starts at the primary, new_with_health anywhere in the chain.       *)
Init ==
  /\ active \in Providers
  /\ pending = NoEvent
  /\ turn = [t \in Turns |-> IdleTurn]

-----------------------------------------------------------------------------
Begin(t) ==
  /\ turn[t].at = "idle"
  /\ Become(t, [IdleTurn EXCEPT !.at = "load_start"])
  /\ UNCHANGED <<active, pending>>

(* complete and stream read `active` for start_idx ...                     *)
LoadStart(t) ==
  /\ turn[t].at = "load_start"
  /\ Become(t, [turn[t] EXCEPT !.at = "load_active", !.start = active, !.tried = {},
                               !.forced = FALSE])
  /\ UNCHANGED <<active, pending>>

(* ... and active_provider reads it again.                                 *)
LoadActive(t) ==
  /\ turn[t].at = "load_active"
  /\ Become(t, [turn[t] EXCEPT !.at = "try_active", !.current = active])
  /\ UNCHANGED <<active, pending>>

(* The active provider answers, or fails in a way that ends the request.   *)
ActiveAnswers(t) ==
  /\ turn[t].at = "try_active"
  /\ Become(t, Beyond(t, "stream"))
  /\ UNCHANGED <<active, pending>>

ActiveRefuses(t) ==
  /\ turn[t].at = "try_active"
  /\ Become(t, Beyond(t, "error"))
  /\ UNCHANGED <<active, pending>>

(* The current provider failed: go on with provider p, if the chain has it.*)
TryNext(t, p) ==
  LET tried == turn[t].tried \cup {turn[t].current} IN
  IF p <= Fallbacks
    THEN Become(t, [turn[t] EXCEPT !.at = "try_next", !.current = p, !.tried = tried])
    ELSE Become(t, [turn[t] EXCEPT !.at = "failed", !.tried = tried])

(* Mutation: the fallbacks after the provider that was asked.              *)
ActiveFails_FromActive(t) ==
  /\ turn[t].at = "try_active"
  /\ TryNext(t, turn[t].current + 1)
  /\ UNCHANGED <<active, pending>>

(* A failed active provider is followed by the fallbacks after start_idx.  *)
ActiveFails(t) ==
  /\ turn[t].at = "try_active"
  /\ TryNext(t, turn[t].start + 1)
  /\ UNCHANGED <<active, pending>>

FallbackAnswers(t) ==
  /\ turn[t].at = "try_next"
  /\ Become(t, [turn[t] EXCEPT !.at = "swap"])
  /\ UNCHANGED <<active, pending>>

FallbackFails(t) ==
  /\ turn[t].at = "try_next"
  /\ TryNext(t, turn[t].current + 1)
  /\ UNCHANGED <<active, pending>>

(* The handshake timeout drops the request while a provider is waited for. *)
HandshakeTimesOut(t) ==
  /\ turn[t].at \in {"try_active", "try_next"}
  /\ Become(t, Beyond(t, "error"))
  /\ UNCHANGED <<active, pending>>

(* The stream comes to an end, with a stop reason or cut off, or breaks    *)
(* off with an error although stream() was Ok and may have promoted.       *)
StreamEnds(t) ==
  /\ turn[t].at = "stream"
  /\ Become(t, Beyond(t, "take"))
  /\ UNCHANGED <<active, pending>>

StreamBreaks(t) ==
  /\ turn[t].at = "stream"
  /\ Become(t, Beyond(t, "error"))
  /\ UNCHANGED <<active, pending>>

(* A dropped turn asks no more; the answer of `complete`, which a          *)
(* compaction or a title uses, is followed by no take_swap_event.          *)
Leave(t) ==
  /\ turn[t].at \in {"try_active", "try_next", "stream"}
  /\ EndTurn(t)
  /\ UNCHANGED <<active, pending>>

-----------------------------------------------------------------------------
(* The arms of errors: ask the same chain again up to three times, borrow  *)
(* other providers and come back, or give up (also what a borrowed         *)
(* provider that is kept means for this chain).                            *)

RetryAfterError(t) ==
  /\ turn[t].at \in {"failed", "error"}
  /\ turn[t].retries < MaxRetries
  /\ Become(t, [Beyond(t, "load_start") EXCEPT !.retries = @ + 1])
  /\ UNCHANGED <<active, pending>>

Rescued(t) ==
  /\ turn[t].at \in {"failed", "error"}
  /\ Become(t, Beyond(t, "take"))
  /\ UNCHANGED <<active, pending>>

GiveUp(t) ==
  /\ turn[t].at \in {"failed", "error"}
  /\ EndTurn(t)
  /\ UNCHANGED <<active, pending>>

-----------------------------------------------------------------------------
(* promote: the swap of the index, then the event under its own lock.      *)

AfterPromote(t) == Beyond(t, IF turn[t].forced THEN "load_start" ELSE "stream")

(* Mutation: the index goes back to the primary after a rescue.            *)
PromoteSwap_Back(t) ==
  /\ turn[t].at = "swap"
  /\ active' = IF turn[t].forced THEN turn[t].current ELSE 0
  /\ Become(t, [turn[t] EXCEPT !.at = "record", !.old = active])
  /\ UNCHANGED pending

(* Mutation: the swap of a request is not recorded.                        *)
PromoteSwap_Silent(t) ==
  /\ turn[t].at = "swap"
  /\ active' = turn[t].current
  /\ IF active # turn[t].current /\ turn[t].forced
       THEN Become(t, [turn[t] EXCEPT !.at = "record", !.old = active])
       ELSE Become(t, AfterPromote(t))
  /\ UNCHANGED pending

PromoteSwap(t) ==
  /\ turn[t].at = "swap"
  /\ active' = turn[t].current
  /\ IF active # turn[t].current
       THEN Become(t, [turn[t] EXCEPT !.at = "record", !.old = active])
       ELSE Become(t, AfterPromote(t))
  /\ UNCHANGED pending

PromoteRecord(t) ==
  /\ turn[t].at = "record"
  /\ pending' = [from |-> turn[t].old, to |-> turn[t].current]
  /\ Become(t, AfterPromote(t))
  /\ UNCHANGED active

-----------------------------------------------------------------------------
(* The tool loop: take_swap_event after every answer; when the stream then *)
(* turns out cut off, ask again a number of times and then behind the next *)
(* fallback, which a model that keeps announcing tools it does not call    *)
(* may force too.                                                          *)

TakeSwapEvent(t) ==
  /\ turn[t].at = "take"
  /\ pending' = NoEvent
  /\ Become(t, Beyond(t, "taken"))
  /\ UNCHANGED active

AnswerUsed(t) ==
  /\ turn[t].at = "taken"
  /\ EndTurn(t)
  /\ UNCHANGED <<active, pending>>

RetryDropped(t) ==
  /\ turn[t].at = "taken"
  /\ turn[t].drops < MaxDrops
  /\ Become(t, [IdleTurn EXCEPT !.at = "load_start", !.drops = turn[t].drops + 1])
  /\ UNCHANGED <<active, pending>>

(* Mutation: the check against the length of the chain is off by one.      *)
ForceNextFallback_OffByOne(t) ==
  /\ turn[t].at = "taken"
  /\ Become(t, [IdleTurn EXCEPT !.at = "swap", !.current = active + 1, !.forced = TRUE])
  /\ UNCHANGED <<active, pending>>

(* Mutation: the chain wraps around.                                       *)
ForceNextFallback_Wrap(t) ==
  /\ turn[t].at = "taken"
  /\ Become(t, [IdleTurn EXCEPT !.at = "swap", !.forced = TRUE,
                  !.current = IF active = Fallbacks THEN 0 ELSE active + 1])
  /\ UNCHANGED <<active, pending>>

(* It reads `active` and promotes the next provider, without a lock; at    *)
(* the end of the chain it answers false and the turn keeps what it has.   *)
ForceNextFallback(t) ==
  /\ turn[t].at = "taken"
  /\ active < Fallbacks
  /\ Become(t, [IdleTurn EXCEPT !.at = "swap", !.current = active + 1, !.forced = TRUE])
  /\ UNCHANGED <<active, pending>>

-----------------------------------------------------------------------------
TurnStep(t) ==
  \/ LoadStart(t)
  \/ LoadActive(t)
  \/ ActiveAnswers(t)
  \/ ActiveRefuses(t)
  \/ ActiveFails(t)
  \/ FallbackAnswers(t)
  \/ FallbackFails(t)
  \/ HandshakeTimesOut(t)
  \/ StreamEnds(t)
  \/ StreamBreaks(t)
  \/ Leave(t)
  \/ RetryAfterError(t)
  \/ Rescued(t)
  \/ GiveUp(t)
  \/ PromoteSwap(t)
  \/ PromoteRecord(t)
  \/ TakeSwapEvent(t)
  \/ AnswerUsed(t)
  \/ RetryDropped(t)
  \/ ForceNextFallback(t)

Next == \E t \in Turns : Begin(t) \/ TurnStep(t)

Spec == Init /\ [][Next]_vars

(* Every wait for a provider is bounded by a timeout, and tokio keeps      *)
(* polling a turn that can run; nobody is obliged to begin one.            *)
FairSpec == Spec /\ \A t \in Turns : WF_vars(TurnStep(t))

-----------------------------------------------------------------------------
TypeOK ==
  /\ active \in Providers
  /\ pending \in Events
  /\ turn \in [Turns -> TurnRecords]

(* The lowest provider a turn with this record may yet make active.        *)
ReachOf(record) ==
  CASE record.at \in {"load_active", "try_active"} -> record.start + 1
    [] record.at \in {"try_next", "swap"} -> record.current
    [] OTHER -> Fallbacks

(* Nobody will go back before provider p any more.                         *)
LeftBehind(p) == active >= p /\ \A t \in Turns : ReachOf(turn[t]) >= p

(* Stickiness as far as concurrent turns allow it: once the chain and all  *)
(* requests in flight are past a provider, they stay past it.              *)
LeftBehindForEver == [][\A p \in Providers : LeftBehind(p) => LeftBehind(p)']_vars

(* fallback.rs: "subsequent calls skip the dead primary entirely until the *)
(* process exits", whatever turns overlap.                                 *)
PrimaryNeverReturns == [][active # 0 => active' # 0]_vars

(* A turn ends although it asks again after errors, after dropped streams  *)
(* and, its counts reset, behind every forced fallback, while other turns  *)
(* move the chain.                                                         *)
TurnsEnd == \A t \in Turns : turn[t].at # "idle" ~> turn[t].at = "idle"

=============================================================================
