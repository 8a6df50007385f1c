--------------------------- MODULE ToolLoopProofs ---------------------------
(* Proofs about ToolLoop, for any number of calls, follow-ups, fallbacks   *)
(* and retries.  The invariants say what each place of the loop knows: the *)
(* calls before the current one have their results, the calls left without *)
(* one belong to a turn that was cancelled, and what a step has added to   *)
(* the session or the context is settled before the next request.          *)
EXTENDS ToolLoop, TLAPS

Begun == {"waiting", "retried", "dropped", "text", "others", "calls"}

(* The counter of calls agrees with the results and the outputs.           *)
CallsInv ==
  /\ at \in Begun => current = 1 /\ results = {} /\ outputs = <<>>
  /\ at \in Begun \ {"calls"} => calls = 0
  /\ at = "calls" => calls >= 1
  /\ at \in Acting => results = 1 .. (current - 1) /\ Len(outputs) = current - 1
  /\ at \in {"approval", "select", "running"} => current <= calls
  /\ at = "block" => cancelled \/ current > calls

(* Calls without a result, in the context or not yet, wait for the end.    *)
OpenInv ==
  /\ open # {} => cancelled /\ at \notin {"checked", "ask"} \cup Begun
  /\ Unsettled # {} =>
       \/ at \in {"calls"} \cup Acting \cup Over \cup {"answer", "closing"}
       \/ cancelled /\ at \in {"settled", "between", "replace", "top"}

FreshInv ==
  fresh # {} => at \in {"replace", "top", "checked", "ask", "closing", "partial", "failed"}

BelowInv == "user" \in below => at \in {"replace", "failed"}

GrantInv ==
  at = "select" /\ current \in sensitive => current \in approval.granted \/ approval.always

(* The counters of the self-healing branches keep their bounds.            *)
LEMMA HealStep ==
  ASSUME heal \in Heals, Next
  PROVE  heal' \in Heals
<1> USE BoundsAssumption DEF Heals
<1>1. ASSUME RetryStream PROVE heal' \in Heals
  BY <1>1 DEF RetryStream
<1>2. ASSUME FallbackAfterDrops PROVE heal' \in Heals
  <2> DEFINE f == heal.fallbacks - 1
  <2>1. f \in 0 .. Fallbacks /\ 0 \in 0 .. MaxStreamRetries
    BY <1>2 DEF FallbackAfterDrops
  <2>2. heal' = [heal EXCEPT !.drops = 0, !.fallbacks = f]
    BY <1>2 DEF FallbackAfterDrops
  <2> QED BY <2>1, <2>2
<1>3. ASSUME AnswersText PROVE heal' \in Heals
  BY <1>3 DEF AnswersText
<1>4. ASSUME NEW n \in Calls, NEW S \in SUBSET Calls, NEW same \in BOOLEAN,
             CallsTools(n, S, same)
      PROVE  heal' \in Heals
  <2> DEFINE r == IF ~same THEN 1
                  ELSE IF heal.repeats < LoopThreshold THEN heal.repeats + 1
                  ELSE heal.repeats
  <2>1. r \in 0 .. LoopThreshold /\ 0 \in 0 .. MaxStreamRetries
    OBVIOUS
  <2>2. heal' = [heal EXCEPT !.drops = 0, !.repeats = r]
    BY <1>4 DEF CallsTools
  <2> HIDE DEF r
  <2> QED BY <2>1, <2>2
<1>5. ASSUME NEW stuck \in BOOLEAN, PhantomNudge(stuck) PROVE heal' \in Heals
  <2> DEFINE f == heal.fallbacks - 1
             p == heal.phantom + 1
  <2>1. CASE SwapProvider(stuck)
    <3>1. f \in 0 .. Fallbacks /\ 0 \in 0 .. MaxPhantomRetries
      BY <2>1 DEF SwapProvider
    <3>2. heal' = [heal EXCEPT !.swapped = TRUE, !.phantom = 0, !.fallbacks = f]
      BY <1>5, <2>1 DEF PhantomNudge
    <3> HIDE DEF f
    <3> QED BY <3>1, <3>2
  <2>2. CASE ~SwapProvider(stuck) /\ heal.phantom < MaxPhantomRetries
    <3>1. p \in 0 .. MaxPhantomRetries
      BY <2>2
    <3>2. heal' = [heal EXCEPT !.phantom = p]
      BY <1>5, <2>2 DEF PhantomNudge
    <3> HIDE DEF p
    <3> QED BY <3>1, <3>2
  <2>3. CASE ~SwapProvider(stuck) /\ ~(heal.phantom < MaxPhantomRetries)
    <3>1. heal' = [heal EXCEPT !.phantom = 0]
      BY <1>5, <2>3 DEF PhantomNudge
    <3> QED BY <3>1
  <2> QED BY <2>1, <2>2, <2>3
<1>6. ASSUME EmptyNudge PROVE heal' \in Heals
  BY <1>6 DEF EmptyNudge
<1>7. ASSUME NEW shot \in OneShots, OneShotNudge(shot) PROVE heal' \in Heals
  BY <1>7 DEF OneShotNudge
<1>8. ASSUME NEW success \in BOOLEAN, ToolReturns(success) PROVE heal' \in Heals
  BY <1>8 DEF ToolReturns
<1>10. CASE Request
  <2>1. PICK f \in 0 .. heal.fallbacks : heal' = [heal EXCEPT !.fallbacks = f]
    BY <1>10 DEF Request
  <2>2. f \in 0 .. Fallbacks
    OBVIOUS
  <2> QED BY <2>1, <2>2
<1>11. CASE Rescue \/ AskOthers
  <2>1. PICK f \in {heal.fallbacks} \cup 0 .. Fallbacks - 1 :
          heal' = [heal EXCEPT !.fallbacks = f]
    BY <1>11 DEF Rescue, AskOthers, PinOrRestore
  <2>2. f \in 0 .. Fallbacks
    OBVIOUS
  <2> QED BY <2>1, <2>2
<1>9. ASSUME \/ RecordPrompt \/ PlaceAnswer \/ Fail \/ ManualCompact \/ BudgetKept
             \/ Compact \/ LoopTop \/ EmergencyCompact \/ StreamDrops \/ SavePartial
             \/ (\E from \in {"text", "between"} : TakeFollowUps(from))
             \/ FinalText \/ LoopDetected \/ BeginCalls \/ CallsDone \/ BeginCall
             \/ (\E always \in BOOLEAN : Approved(always))
             \/ Denied \/ StartTool \/ ToolCancelled \/ SettleCalls \/ NothingQueued
             \/ Finish \/ FinishPartial \/ Cancel \/ (\E m \in FollowUps : Enqueue(m))
             \/ Done
      PROVE  heal' \in Heals
  <2> heal' = heal
    BY <1>9 DEF Cancel, Enqueue, Done, vars, RecordPrompt, PlaceAnswer, Fail,
      ManualCompact, BudgetKept, Compact, LoopTop, EmergencyCompact, StreamDrops,
      SavePartial, TakeFollowUps, FinalText, LoopDetected, BeginCalls, CallsDone, BeginCall,
      Approved, Denied, StartTool, ToolCancelled, SettleCalls, NothingQueued, Finish,
      FinishPartial
  <2> QED OBVIOUS
<1> QED
  BY <1>1, <1>2, <1>3, <1>4, <1>5, <1>6, <1>7, <1>8, <1>9, <1>10, <1>11
  DEF Next, LoopStep

IInv == TypeOK /\ CallsInv /\ OpenInv /\ FreshInv /\ BelowInv /\ GrantInv

(* At the start there is no call and no text.                              *)
LEMMA InitInv == Init => IInv
<1> SUFFICES ASSUME Init PROVE IInv
  OBVIOUS
<1>1. heal \in Heals
  BY BoundsAssumption DEF Init, Heals
<1>2. TypeOK
  <2>1. mail \in [FollowUps -> {"unsent", "queued", "taken"}]
    BY DEF Init
  <2>2. approval \in [always : BOOLEAN, granted : SUBSET Calls]
    BY DEF Init
  <2>3. outputs \in Seq(Calls)
    BY DEF Init
  <2>4. calls \in 0 .. MaxCalls /\ current \in 1 .. MaxCalls + 1 /\ at \in Places
    BY BoundsAssumption DEF Init, Places
  <2> QED BY <1>1, <2>1, <2>2, <2>3, <2>4 DEF Init, TypeOK
<1>3. CallsInv /\ FreshInv /\ BelowInv /\ GrantInv
  BY DEF Init, CallsInv, FreshInv, BelowInv, GrantInv, Begun, Acting
<1>4. OpenInv
  BY DEF Init, OpenInv, Unsettled
<1> QED
  BY <1>2, <1>3, <1>4 DEF IInv

(* A call that gets its result is one of the response.                     *)
LEMMA ResultType ==
  ASSUME TypeOK, CallsInv, at \in {"approval", "select", "running"}, ResultOf(current)
  PROVE  /\ current \in Calls /\ current' = current + 1
         /\ current' \in 1 .. MaxCalls + 1
         /\ results' = 1 .. (current' - 1)
         /\ outputs' \in Seq(Calls) /\ Len(outputs') = current' - 1
<1>1. current \in Calls
  BY BoundsAssumption DEF TypeOK, CallsInv, Calls
<1>2. results = 1 .. (current - 1) /\ Len(outputs) = current - 1
  BY DEF CallsInv, Acting
<1>3. outputs' = Append(outputs, current)
  BY DEF ResultOf
<1>4. outputs' \in Seq(Calls) /\ Len(outputs') = Len(outputs) + 1
  BY <1>1, <1>3 DEF TypeOK
<1> QED
  BY <1>1, <1>2, <1>4, BoundsAssumption DEF ResultOf, Calls

(* The types of all variables but heal.                                    *)
PlainTypes ==
  /\ at \in Places
  /\ cancelled \in BOOLEAN
  /\ mail \in [FollowUps -> {"unsent", "queued", "taken"}]
  /\ calls \in 0 .. MaxCalls
  /\ sensitive \subseteq Calls
  /\ current \in 1 .. MaxCalls + 1
  /\ results \subseteq Calls
  /\ outputs \in Seq(Calls)
  /\ approval \in [always : BOOLEAN, granted : SUBSET Calls]
  /\ open \subseteq Calls
  /\ fresh \subseteq FollowUps
  /\ below \subseteq {"user", "marker"}
  /\ said \in BOOLEAN

(* A step keeps the types.                                                 *)
LEMMA PlainTypesStep ==
  ASSUME TypeOK, CallsInv, Next
  PROVE  PlainTypes'
<1> PlainTypes
  BY DEF TypeOK, PlainTypes
<1> USE BoundsAssumption DEF callVars, Goto, Waiting, Calibrate, MayMark,
            PlainTypes, Calls
<1>1. CASE \/ RecordPrompt \/ PlaceAnswer \/ Fail \/ ManualCompact \/ LoopTop
          \/ StreamDrops \/ SavePartial \/ RetryStream \/ FallbackAfterDrops
          \/ EmergencyCompact \/ Rescue \/ AskOthers
          \/ AnswersText \/ FinalText \/ EmptyNudge
  BY <1>1 DEF Places, Over, Acting, RecordPrompt, PlaceAnswer, Fail,
     ManualCompact, LoopTop, StreamDrops, EmergencyCompact, Rescue, AskOthers,
     SavePartial, RetryStream,
     FallbackAfterDrops, AnswersText, Accepted, FinalText, EmptyNudge
<1>2. CASE BudgetKept \/ Compact
  <2>1. at' \in Places
    BY <1>2 DEF BudgetKept, Compact, AfterBudget, Places
  <2> QED BY <1>2, <2>1 DEF BudgetKept, Compact
<1>3. CASE Request
  <2>1. approval' \in [always : BOOLEAN, granted : SUBSET Calls]
    BY <1>3 DEF Request
  <2>2. outputs' \in Seq(Calls)
    BY <1>3 DEF Request
  <2>3. at' \in Places
    BY <1>3 DEF Request, Places
  <2> QED BY <1>3, <2>1, <2>2, <2>3 DEF Request
<1>4. ASSUME NEW n \in Calls, NEW S \in SUBSET Calls, NEW same \in BOOLEAN,
             CallsTools(n, S, same)
      PROVE  PlainTypes'
  <2>1. n \in 0 .. MaxCalls /\ at' \in Places
    BY <1>4 DEF CallsTools, Places
  <2> QED BY <1>4, <2>1 DEF CallsTools
<1>5. ASSUME NEW from \in {"text", "between"}, TakeFollowUps(from)
      PROVE  PlainTypes'
  <2>1. mail' \in [FollowUps -> {"unsent", "queued", "taken"}]
    BY <1>5 DEF TakeFollowUps
  <2>2. fresh' \subseteq FollowUps /\ at' \in Places /\ below' \subseteq {"user", "marker"}
    BY <1>5 DEF TakeFollowUps, Queued, Places
  <2> QED BY <1>5, <2>1, <2>2 DEF TakeFollowUps
<1>6. ASSUME NEW stuck \in BOOLEAN, PhantomNudge(stuck)
      PROVE  PlainTypes'
  BY <1>6 DEF PhantomNudge, Places
<1>7. ASSUME NEW shot \in OneShots, OneShotNudge(shot)
      PROVE  PlainTypes'
  BY <1>7 DEF OneShotNudge, Places
<1>8. CASE \/ BeginCalls \/ CallsDone \/ BeginCall \/ StartTool \/ ToolCancelled
          \/ NothingQueued \/ Finish \/ FinishPartial
  BY <1>8 DEF Places, Over, Acting, BeginCalls, CallsDone, BeginCall,
     StartTool, ToolCancelled, NothingQueued, Finish, FinishPartial
<1>13. CASE LoopDetected
  BY <1>13 DEF LoopDetected, Places
<1>14. CASE SettleCalls
  <2>1. open' \subseteq 1 .. MaxCalls
    BY <1>14 DEF SettleCalls
  <2> QED BY <1>14, <2>1 DEF SettleCalls, Places
<1>9. ASSUME NEW always \in BOOLEAN, Approved(always)
      PROVE  PlainTypes'
  <2>1. current \in Calls
    BY <1>9 DEF Approved, CallsInv
  <2>2. approval' \in [always : BOOLEAN, granted : SUBSET Calls]
    BY <1>9, <2>1 DEF Approved
  <2>3. at' \in Places
    BY <1>9 DEF Approved, Places, Acting
  <2> QED BY <1>9, <2>2, <2>3 DEF Approved
<1>10. ASSUME Denied \/ \E success \in BOOLEAN : ToolReturns(success)
       PROVE  PlainTypes'
  <2>1. at \in {"approval", "select", "running"} /\ ResultOf(current) /\ at' = "next"
    BY <1>10 DEF Denied, ToolReturns
  <2>2. /\ current \in Calls /\ current' \in 1 .. MaxCalls + 1
        /\ outputs' \in Seq(Calls) /\ results' = results \cup {current}
    BY <2>1, ResultType DEF ResultOf
  <2>3. at' \in Places
    BY <2>1 DEF Places, Acting
  <2> QED BY <1>10, <2>2, <2>3 DEF Denied, ToolReturns
<1>11. CASE Cancel \/ Done
  BY <1>11 DEF Cancel, Done, vars
<1>12. ASSUME NEW m \in FollowUps, Enqueue(m)
       PROVE  PlainTypes'
  BY <1>12 DEF Enqueue
<1> HIDE DEF PlainTypes, Calls
<1> QED
  BY <1>1, <1>2, <1>3, <1>4, <1>5, <1>6, <1>7, <1>8, <1>9, <1>10, <1>11, <1>12,
     <1>13, <1>14
  DEF Next, LoopStep

(* Every step keeps the types.                                             *)
LEMMA TypeStep ==
  ASSUME TypeOK, CallsInv, Next
  PROVE  TypeOK'
  BY HealStep, PlainTypesStep DEF TypeOK, PlainTypes

(* The counter stays in step with the results.                             *)
LEMMA CallsStep ==
  ASSUME TypeOK, CallsInv, Next
  PROVE  CallsInv'
<1> USE DEF callVars, Goto, Waiting, Calibrate, MayMark, CallsInv, Begun, Acting
<1>1. CASE \/ RecordPrompt \/ PlaceAnswer \/ Fail \/ ManualCompact \/ LoopTop
          \/ StreamDrops \/ SavePartial \/ RetryStream \/ FallbackAfterDrops
          \/ EmergencyCompact \/ Rescue \/ AskOthers
          \/ FinalText \/ EmptyNudge \/ NothingQueued \/ SettleCalls \/ Finish
          \/ FinishPartial \/ LoopDetected
  BY <1>1 DEF Over, RecordPrompt, PlaceAnswer, Fail,
     ManualCompact, LoopTop, StreamDrops, EmergencyCompact, Rescue, AskOthers,
     SavePartial, RetryStream,
     FallbackAfterDrops, FinalText, EmptyNudge, NothingQueued,
     SettleCalls, Finish, FinishPartial, LoopDetected
<1>2. CASE BudgetKept \/ Compact
  BY <1>2 DEF BudgetKept, Compact, AfterBudget
<1>3. CASE Request \/ AnswersText
  BY <1>3 DEF Request, AnswersText, Accepted
<1>4. ASSUME NEW n \in Calls, NEW S \in SUBSET Calls, NEW same \in BOOLEAN,
             CallsTools(n, S, same)
      PROVE  CallsInv'
  BY <1>4 DEF CallsTools, Accepted, Calls
<1>5. ASSUME \/ \E from \in {"text", "between"} : TakeFollowUps(from)
             \/ \E stuck \in BOOLEAN : PhantomNudge(stuck)
             \/ \E shot \in OneShots : OneShotNudge(shot)
      PROVE  CallsInv'
  BY <1>5 DEF TakeFollowUps, PhantomNudge, OneShotNudge
<1>6. CASE BeginCalls
  BY <1>6 DEF BeginCalls, TypeOK
<1>7. CASE CallsDone \/ BeginCall \/ StartTool \/ ToolCancelled
  BY <1>7 DEF CallsDone, BeginCall, StartTool, ToolCancelled
<1>8. ASSUME NEW always \in BOOLEAN, Approved(always)
      PROVE  CallsInv'
  BY <1>8 DEF Approved
<1>9. ASSUME Denied \/ \E success \in BOOLEAN : ToolReturns(success)
      PROVE  CallsInv'
  <2>1. at \in {"approval", "select", "running"} /\ ResultOf(current) /\ at' = "next"
    BY <1>9 DEF Denied, ToolReturns
  <2> QED BY <2>1, ResultType
<1>10. CASE Cancel \/ Done
  BY <1>10 DEF Cancel, Done, vars
<1>11. ASSUME \E m \in FollowUps : Enqueue(m)
       PROVE  CallsInv'
  BY <1>11 DEF Enqueue
<1> HIDE DEF CallsInv
<1> QED
  BY <1>1, <1>2, <1>3, <1>4, <1>5, <1>6, <1>7, <1>8, <1>9, <1>10, <1>11
  DEF Next, LoopStep

(* A call that is left open stays with its cancelled turn.                 *)
LEMMA OpenStep ==
  ASSUME TypeOK, CallsInv, OpenInv, Next
  PROVE  OpenInv'
<1> USE DEF callVars, Goto, Waiting, Calibrate, MayMark,
            OpenInv, Unsettled, Begun, Acting, Over
<1>1. CASE \/ RecordPrompt \/ PlaceAnswer \/ Fail \/ ManualCompact \/ StreamDrops
          \/ EmergencyCompact \/ Rescue \/ AskOthers
          \/ SavePartial \/ RetryStream \/ FallbackAfterDrops
          \/ FinalText \/ EmptyNudge \/ NothingQueued \/ Finish \/ FinishPartial
  BY <1>1 DEF RecordPrompt, PlaceAnswer, Fail, ManualCompact,
     StreamDrops, EmergencyCompact, Rescue, AskOthers,
     SavePartial, RetryStream, FallbackAfterDrops, FinalText, EmptyNudge, NothingQueued,
     Finish, FinishPartial
<1>2. CASE BudgetKept \/ Compact
  BY <1>2 DEF BudgetKept, Compact, AfterBudget
<1>3. CASE LoopTop
  BY <1>3 DEF LoopTop
<1>4. CASE Request
  <2>1. Unsettled' = {}
    BY <1>4 DEF Request
  <2> QED BY <1>4, <2>1 DEF Request
<1>12. CASE AnswersText
  BY <1>12 DEF AnswersText, Accepted
<1>5. ASSUME NEW n \in Calls, NEW S \in SUBSET Calls, NEW same \in BOOLEAN,
             CallsTools(n, S, same)
      PROVE  OpenInv'
  BY <1>5 DEF CallsTools, Accepted
<1>6. ASSUME \/ \E from \in {"text", "between"} : TakeFollowUps(from)
             \/ \E stuck \in BOOLEAN : PhantomNudge(stuck)
             \/ (\E shot \in OneShots : OneShotNudge(shot)) \/ LoopDetected
      PROVE  OpenInv'
  BY <1>6, CallsInv DEF TakeFollowUps, PhantomNudge, OneShotNudge, CallsInv, LoopDetected
<1>7. CASE BeginCalls \/ CallsDone \/ BeginCall \/ StartTool \/ ToolCancelled
  BY <1>7 DEF BeginCalls, CallsDone, BeginCall, StartTool, ToolCancelled
<1>8. ASSUME \/ \E always \in BOOLEAN : Approved(always)
             \/ Denied
             \/ \E success \in BOOLEAN : ToolReturns(success)
      PROVE  OpenInv'
  BY <1>8 DEF Approved, Denied, ToolReturns
<1>9. CASE SettleCalls
  <2>1. cancelled \/ (1 .. calls) \subseteq results
    BY <1>9 DEF SettleCalls, CallsInv, TypeOK
  <2> QED BY <1>9, <2>1 DEF SettleCalls
<1>10. CASE Cancel \/ Done
  BY <1>10 DEF Cancel, Done, vars
<1>11. ASSUME \E m \in FollowUps : Enqueue(m)
       PROVE  OpenInv'
  BY <1>11 DEF Enqueue
<1> HIDE DEF OpenInv
<1> QED
  BY <1>1, <1>2, <1>3, <1>4, <1>5, <1>6, <1>7, <1>8, <1>9, <1>10, <1>11,
     <1>12
  DEF Next, LoopStep

(* Follow-ups in the context reach a request before any answer; a row of   *)
(* the user is followed by a new placeholder; an approval is for its call. *)
LEMMA FreshStep ==
  ASSUME FreshInv, Next
  PROVE  FreshInv'
<1> USE DEF callVars, Goto, Waiting, Calibrate, MayMark, FreshInv
<1>1. CASE \/ RecordPrompt \/ PlaceAnswer \/ Fail \/ ManualCompact \/ LoopTop \/ Request
          \/ StreamDrops \/ SavePartial \/ RetryStream \/ FallbackAfterDrops
          \/ EmergencyCompact \/ Rescue \/ AskOthers
          \/ AnswersText \/ FinalText \/ EmptyNudge \/ NothingQueued \/ SettleCalls
          \/ Finish \/ FinishPartial
  BY <1>1 DEF RecordPrompt, PlaceAnswer, Fail, ManualCompact, LoopTop, Request,
     StreamDrops, EmergencyCompact, Rescue, AskOthers,
     SavePartial, RetryStream, FallbackAfterDrops, AnswersText, Accepted,
     FinalText, EmptyNudge, NothingQueued, SettleCalls, Finish, FinishPartial
<1>2. CASE BudgetKept \/ Compact
  BY <1>2 DEF BudgetKept, Compact, AfterBudget
<1>3. ASSUME \/ (\E n \in Calls, S \in SUBSET Calls, same \in BOOLEAN :
                    S \subseteq 1 .. n /\ CallsTools(n, S, same))
             \/ \E from \in {"text", "between"} : TakeFollowUps(from)
             \/ \E stuck \in BOOLEAN : PhantomNudge(stuck)
             \/ \E shot \in OneShots : OneShotNudge(shot)
      PROVE  FreshInv'
  BY <1>3 DEF CallsTools, Accepted, TakeFollowUps, PhantomNudge, OneShotNudge
<1>4. ASSUME \/ LoopDetected \/ BeginCalls \/ CallsDone \/ BeginCall \/ StartTool
             \/ ToolCancelled \/ Denied \/ Cancel \/ Done
             \/ \E always \in BOOLEAN : Approved(always)
             \/ \E success \in BOOLEAN : ToolReturns(success)
             \/ \E m \in FollowUps : Enqueue(m)
      PROVE  FreshInv'
  BY <1>4 DEF LoopDetected, BeginCalls, CallsDone, BeginCall, StartTool, ToolCancelled,
     Denied, Cancel, Done, vars, Approved, ToolReturns, Enqueue
<1> HIDE DEF FreshInv
<1> QED
  BY <1>1, <1>2, <1>3, <1>4 DEF Next, LoopStep

(* A follow-up in the session is followed by a new placeholder.            *)
LEMMA BelowStep ==
  ASSUME BelowInv, Next
  PROVE  BelowInv'
<1>7. MayMark \/ Calibrate => ("user" \in below' => "user" \in below)
  BY DEF MayMark, Calibrate
<1> USE DEF callVars, Goto, Waiting, BelowInv
<1>1. CASE \/ RecordPrompt \/ Fail \/ LoopTop \/ Request
          \/ StreamDrops \/ SavePartial \/ RetryStream \/ FallbackAfterDrops
          \/ EmergencyCompact \/ Rescue \/ AskOthers
          \/ AnswersText \/ FinalText \/ EmptyNudge \/ NothingQueued \/ SettleCalls
          \/ Finish \/ FinishPartial
  BY <1>1, <1>7 DEF RecordPrompt, Fail, LoopTop, Request,
     StreamDrops, EmergencyCompact, Rescue, AskOthers,
     SavePartial, RetryStream, FallbackAfterDrops, AnswersText, Accepted,
     FinalText, EmptyNudge, NothingQueued, SettleCalls, Finish, FinishPartial
<1>5. CASE PlaceAnswer
  BY <1>5 DEF PlaceAnswer
<1>6. CASE ManualCompact
  BY <1>6 DEF ManualCompact
<1>2. CASE BudgetKept \/ Compact
  BY <1>2, <1>7 DEF BudgetKept, Compact, AfterBudget
<1>3. ASSUME \/ \E from \in {"text", "between"} : TakeFollowUps(from)
             \/ \E stuck \in BOOLEAN : PhantomNudge(stuck)
             \/ \E shot \in OneShots : OneShotNudge(shot)
      PROVE  BelowInv'
  BY <1>3 DEF TakeFollowUps, PhantomNudge, OneShotNudge
<1>8. ASSUME NEW n \in Calls, NEW S \in SUBSET Calls, NEW same \in BOOLEAN,
             CallsTools(n, S, same)
      PROVE  BelowInv'
  BY <1>7, <1>8 DEF CallsTools, Accepted
<1>4. ASSUME \/ LoopDetected \/ BeginCalls \/ CallsDone \/ BeginCall \/ StartTool
             \/ ToolCancelled \/ Denied \/ Cancel \/ Done
             \/ \E always \in BOOLEAN : Approved(always)
             \/ \E success \in BOOLEAN : ToolReturns(success)
             \/ \E m \in FollowUps : Enqueue(m)
      PROVE  BelowInv'
  BY <1>4 DEF LoopDetected, BeginCalls, CallsDone, BeginCall, StartTool, ToolCancelled,
     Denied, Cancel, Done, vars, Approved, ToolReturns, Enqueue
<1> HIDE DEF BelowInv, callVars, Goto, Waiting
<1> QED
  BY <1>1, <1>2, <1>3, <1>4, <1>5, <1>6, <1>8 DEF Next, LoopStep

(* A sensitive call is performed only with a grant.                        *)
LEMMA GrantStep ==
  ASSUME TypeOK, GrantInv, Next
  PROVE  GrantInv'
<1> USE DEF callVars, Goto, Waiting, Calibrate, MayMark, GrantInv, NeedsApproval
<1>1. CASE \/ RecordPrompt \/ PlaceAnswer \/ Fail \/ ManualCompact \/ LoopTop \/ Request
          \/ StreamDrops \/ SavePartial \/ RetryStream \/ FallbackAfterDrops
          \/ EmergencyCompact \/ Rescue \/ AskOthers
          \/ AnswersText \/ FinalText \/ EmptyNudge \/ NothingQueued \/ SettleCalls
          \/ Finish \/ FinishPartial
  BY <1>1 DEF RecordPrompt, PlaceAnswer, Fail, ManualCompact, LoopTop, Request,
     StreamDrops, EmergencyCompact, Rescue, AskOthers,
     SavePartial, RetryStream, FallbackAfterDrops, AnswersText, Accepted,
     FinalText, EmptyNudge, NothingQueued, SettleCalls, Finish, FinishPartial
<1>2. CASE BudgetKept \/ Compact
  BY <1>2 DEF BudgetKept, Compact, AfterBudget
<1>3. ASSUME \/ (\E n \in Calls, S \in SUBSET Calls, same \in BOOLEAN :
                    S \subseteq 1 .. n /\ CallsTools(n, S, same))
             \/ \E from \in {"text", "between"} : TakeFollowUps(from)
             \/ \E stuck \in BOOLEAN : PhantomNudge(stuck)
             \/ \E shot \in OneShots : OneShotNudge(shot)
      PROVE  GrantInv'
  BY <1>3 DEF CallsTools, Accepted, TakeFollowUps, PhantomNudge, OneShotNudge
<1>4. ASSUME \/ LoopDetected \/ BeginCalls \/ CallsDone \/ BeginCall \/ StartTool
             \/ ToolCancelled \/ Denied \/ Cancel \/ Done
             \/ \E always \in BOOLEAN : Approved(always)
             \/ \E success \in BOOLEAN : ToolReturns(success)
             \/ \E m \in FollowUps : Enqueue(m)
      PROVE  GrantInv'
  BY <1>4 DEF LoopDetected, BeginCalls, CallsDone, BeginCall, StartTool, ToolCancelled,
     Denied, Cancel, Done, vars, Approved, ToolReturns, Enqueue
<1> HIDE DEF GrantInv
<1> QED
  BY <1>1, <1>2, <1>3, <1>4 DEF Next, LoopStep

(* Every step keeps the invariants.                                        *)
LEMMA NextInv ==
  ASSUME IInv, [Next]_vars
  PROVE  IInv'
<1>1. CASE Next
  BY <1>1, TypeStep, CallsStep, OpenStep, FreshStep, BelowStep, GrantStep DEF IInv
<1>2. CASE UNCHANGED vars
  BY <1>2 DEF vars, callVars, IInv, TypeOK, CallsInv, OpenInv, FreshInv, BelowInv,
     GrantInv, Unsettled
<1> QED
  BY <1>1, <1>2

(* The inductive invariant holds in every state of every execution.        *)
THEOREM Invariance == Spec => []IInv
<1>1. Init => IInv
  BY InitInv
<1>2. IInv /\ [Next]_vars => IInv'
  BY NextInv
<1> QED
  BY <1>1, <1>2, PTL DEF Spec

(* Every variable of the loop keeps its type; in particular no counter of  *)
(* the self-healing branches passes its bound.                             *)
THEOREM TypeCorrect == Spec => []TypeOK
<1>1. IInv => TypeOK
  BY DEF IInv
<1> QED
  BY <1>1, Invariance, PTL

(* Every request has a result for each call, whatever was cancelled.       *)
THEOREM CompleteRequests == Spec => []RequestsAreComplete
<1>1. IInv => RequestsAreComplete
  BY DEF IInv, OpenInv, Begun, RequestsAreComplete
<1> QED
  BY <1>1, Invariance, PTL

(* A turn that answers has put every follow-up to the model.               *)
THEOREM CoveredFollowUps == Spec => []AnswerCoversFollowUps
<1>1. IInv => AnswerCoversFollowUps
  BY DEF IInv, FreshInv, AnswerCoversFollowUps
<1> QED
  BY <1>1, Invariance, PTL

(* Text goes to a row below the last question.                             *)
THEOREM AnswerUnderQuestion == Spec => []AnswerBelowQuestion
<1>1. IInv => AnswerBelowQuestion
  BY DEF IInv, BelowInv, AnswerBelowQuestion
<1> QED
  BY <1>1, Invariance, PTL

(* The outputs pair up with the calls: each call the loop finishes appends *)
(* one, and the counter says how many there are.                           *)
LEMMA OutputsStep ==
  ASSUME IInv, OutputsMatchCalls, [Next]_vars
  PROVE  OutputsMatchCalls'
<1> USE DEF callVars, Goto, Waiting, Calibrate, MayMark
<1>1. CASE UNCHANGED outputs
  BY <1>1 DEF OutputsMatchCalls
<1>2. CASE Request
  BY <1>2 DEF Request, OutputsMatchCalls
<1>3. ASSUME Denied \/ \E success \in BOOLEAN : ToolReturns(success)
      PROVE  OutputsMatchCalls'
  <2>1. at \in {"approval", "select", "running"} /\ ResultOf(current)
    BY <1>3 DEF Denied, ToolReturns
  <2>2. /\ current \in Calls /\ outputs \in Seq(Calls)
        /\ Len(outputs) = current - 1
    BY <2>1, ResultType DEF IInv, CallsInv, Acting, TypeOK
  <2>3. outputs' = Append(outputs, current)
    BY <2>1 DEF ResultOf
  <2>4. ASSUME NEW i \in DOMAIN outputs' PROVE outputs'[i] = i
    <3>1. i \in 1 .. (Len(outputs) + 1)
      BY <2>2, <2>3, <2>4
    <3>2. CASE i \in 1 .. Len(outputs)
      BY <2>2, <2>3, <3>2 DEF OutputsMatchCalls
    <3>3. CASE i = Len(outputs) + 1
      BY <2>2, <2>3, <3>3, BoundsAssumption DEF Calls
    <3> QED
      BY <2>2, <3>1, <3>2, <3>3
  <2> QED
    BY <2>4 DEF OutputsMatchCalls
<1>4. ASSUME Next PROVE UNCHANGED outputs \/ Request \/ Denied
                        \/ \E success \in BOOLEAN : ToolReturns(success)
  BY <1>4 DEF Next, LoopStep, RecordPrompt, PlaceAnswer, Fail, ManualCompact, BudgetKept,
     Compact, LoopTop, StreamDrops, EmergencyCompact, Rescue, AskOthers,
     SavePartial, RetryStream, FallbackAfterDrops,
     AnswersText, CallsTools, TakeFollowUps, PhantomNudge, EmptyNudge, OneShotNudge,
     FinalText, LoopDetected, BeginCalls, CallsDone, BeginCall, Approved, StartTool,
     ToolCancelled, SettleCalls, NothingQueued, Finish, FinishPartial, Cancel, Enqueue,
     Done, vars
<1> QED
  BY <1>1, <1>2, <1>3, <1>4 DEF vars

(* Each output of the row stands beside the description of its own call.   *)
THEOREM MatchedOutputs == Spec => []OutputsMatchCalls
<1>1. Init => OutputsMatchCalls
  BY DEF Init, OutputsMatchCalls
<1>2. IInv /\ OutputsMatchCalls /\ [Next]_vars => OutputsMatchCalls'
  BY OutputsStep
<1> QED
  BY <1>1, <1>2, Invariance, PTL DEF Spec

(* A tool begins only before the user cancels and with the consent its     *)
(* call needs.                                                             *)
THEOREM NothingUnasked == Spec => NothingRunsUnasked
<1> DEFINE Asked == ~cancelled /\ (current \in sensitive => current \in approval.granted
                                                            \/ approval.always)
<1>1. ASSUME IInv, [Next]_vars PROVE at # "running" /\ at' = "running" => Asked
  <2> SUFFICES ASSUME at # "running", at' = "running" PROVE Asked
    OBVIOUS
  <2>1. StartTool
    <3> USE <1>1 DEF vars, Goto
    <3>1. ~BudgetKept /\ ~Compact
      BY DEF BudgetKept, Compact, AfterBudget
    <3>2. Next
      OBVIOUS
    <3> QED
      BY <3>1, <3>2 DEF Next, LoopStep, RecordPrompt, PlaceAnswer, Fail, ManualCompact,
     LoopTop, Request, StreamDrops, EmergencyCompact, Rescue, AskOthers,
     SavePartial, RetryStream, FallbackAfterDrops,
     AnswersText, CallsTools, TakeFollowUps, PhantomNudge, EmptyNudge, OneShotNudge,
     FinalText, LoopDetected, BeginCalls, CallsDone, BeginCall, Approved, Denied,
     ToolReturns, ToolCancelled, SettleCalls, NothingQueued, Finish, FinishPartial,
     Cancel, Enqueue, Done, Over
  <2> QED
    BY <1>1, <2>1 DEF StartTool, Goto, IInv, GrantInv
<1> QED
  BY <1>1, Invariance, PTL DEF Spec, NothingRunsUnasked

-----------------------------------------------------------------------------
(* The refinement.  Each lemma maps some actions of the loop to a step of  *)
(* the abstract turn.                                                      *)
MappedOpen == IF TurnPhase = "acting" THEN Unsettled ELSE {}
MappedRunning == IF at = "running" THEN {current} ELSE {}

Observation == <<TurnPhase, MappedOpen, MappedRunning>>

(* Places at which the loop is not working on calls.                       *)
LEMMA PhaseOf ==
  /\ at \in Over \cup {"answer", "closing"} => TurnPhase = "over"
  /\ at \in Acting => TurnPhase = "acting"
  /\ at = "calls" => TurnPhase = "asking"
  /\ at \notin Over \cup {"answer", "closing", "calls"} \cup Acting
       => TurnPhase = IF Unsettled # {} THEN "acting" ELSE "asking"
  BY DEF TurnPhase, Over, Acting

(* A turn that ends, from whichever place, stops.                          *)
LEMMA EndStep ==
  ASSUME IInv, Next, at # "running", TurnPhase # "over", TurnPhase' = "over"
  PROVE  Observed!Stop
<1>1. at' # "running"
  BY DEF TurnPhase, Over, Acting
<1> QED
  BY <1>1 DEF Observed!Stop

(* A step outside the calls that leaves them and their results alone.      *)
LEMMA QuietStep ==
  ASSUME TurnPhase' = TurnPhase, Unsettled' = Unsettled,
         at # "running", at' # "running"
  PROVE  UNCHANGED Observation
  BY DEF Observation, MappedOpen, MappedRunning

Outside == at \notin Acting \cup {"calls"}
Ending == at \in Over \cup {"answer", "closing"}

(* A step between places outside the calls maps to Stop or to a stutter.   *)
LEMMA OutsideStep ==
  ASSUME IInv, Next, Outside, Outside', Ending => Ending', Unsettled' = Unsettled
  PROVE  Observed!Next \/ UNCHANGED Observation
<1>1. at # "running" /\ at' # "running"
  BY DEF Outside, Acting
<1>2. CASE TurnPhase' = TurnPhase
  BY <1>1, <1>2, QuietStep
<1>3. CASE TurnPhase' # TurnPhase
  <2>1. TurnPhase' = "over" /\ TurnPhase # "over"
    BY <1>3 DEF TurnPhase, Outside, Ending
  <2> QED
    BY <1>1, <2>1, EndStep DEF Observed!Next
<1> QED
  BY <1>2, <1>3

(* Steps away from the calls leave what an observer sees, or end it.       *)
LEMMA StepsOutside ==
  ASSUME IInv, Next,
         \/ RecordPrompt \/ PlaceAnswer \/ Fail \/ ManualCompact \/ BudgetKept \/ Compact
         \/ LoopTop \/ StreamDrops \/ SavePartial \/ RetryStream \/ FallbackAfterDrops
         \/ EmergencyCompact \/ Rescue \/ AskOthers
         \/ AnswersText \/ FinalText \/ EmptyNudge \/ NothingQueued \/ Finish
         \/ FinishPartial
         \/ \E from \in {"text", "between"} : TakeFollowUps(from)
         \/ \E stuck \in BOOLEAN : PhantomNudge(stuck)
  PROVE  Observed!Next \/ UNCHANGED Observation
<1> USE DEF callVars, Goto, Waiting, Calibrate, MayMark,
            Outside, Ending, Over, Acting, Unsettled
<1>1. CASE \/ RecordPrompt \/ PlaceAnswer \/ Fail \/ ManualCompact \/ BudgetKept
          \/ Compact \/ LoopTop
  <2>1. Outside /\ Outside' /\ (Ending => Ending') /\ Unsettled' = Unsettled
    BY <1>1 DEF RecordPrompt, PlaceAnswer, Fail, ManualCompact, BudgetKept, Compact,
       LoopTop, AfterBudget
  <2> QED BY <2>1, OutsideStep
<1>2. CASE \/ StreamDrops \/ SavePartial \/ RetryStream \/ FallbackAfterDrops
           \/ EmergencyCompact \/ Rescue \/ AskOthers
          \/ AnswersText \/ FinalText \/ EmptyNudge \/ NothingQueued \/ Finish
          \/ FinishPartial
  <2>1. Outside /\ Outside' /\ (Ending => Ending') /\ Unsettled' = Unsettled
    BY <1>2 DEF StreamDrops, EmergencyCompact, Rescue, AskOthers,
       SavePartial, RetryStream, FallbackAfterDrops, AnswersText,
       Accepted, FinalText, EmptyNudge, NothingQueued, Finish, FinishPartial
  <2> QED BY <2>1, OutsideStep
<1>3. ASSUME \/ \E from \in {"text", "between"} : TakeFollowUps(from)
             \/ \E stuck \in BOOLEAN : PhantomNudge(stuck)
      PROVE  Observed!Next \/ UNCHANGED Observation
  <2>1. Outside /\ Outside' /\ (Ending => Ending') /\ Unsettled' = Unsettled
    BY <1>3 DEF TakeFollowUps, PhantomNudge
  <2> QED BY <2>1, OutsideStep
<1> QED
  BY <1>1, <1>2, <1>3

(* A response arrives, or is answered with a nudge, while nothing is left  *)
(* unsettled.                                                              *)
LEMMA StepsAsking ==
  ASSUME IInv, Next,
         \/ Request \/ LoopDetected \/ (\E shot \in OneShots : OneShotNudge(shot))
         \/ \E n \in Calls, S \in SUBSET Calls, same \in BOOLEAN :
               S \subseteq 1 .. n /\ CallsTools(n, S, same)
  PROVE  Observed!Next \/ UNCHANGED Observation
<1> USE DEF callVars, Goto, Waiting, Calibrate, MayMark
<1>1. OpenInv /\ CallsInv
  BY DEF IInv
<1>2. CASE Request
  <2>1. Unsettled' = {} /\ at = "ask" /\ at' = "waiting"
    BY <1>2 DEF Request, Unsettled
  <2>2. Unsettled = {}
    BY <1>1, <2>1 DEF OpenInv, Acting, Over
  <2>3. TurnPhase = "asking" /\ TurnPhase' = "asking"
    BY <2>1, <2>2 DEF TurnPhase, Acting, Over
  <2> QED BY <2>1, <2>2, <2>3, QuietStep
<1>3. CASE LoopDetected
  <2>1. at = "calls" /\ at' = "answer"
    BY <1>3 DEF LoopDetected
  <2>2. TurnPhase = "asking" /\ TurnPhase' = "over"
    BY <2>1 DEF TurnPhase, Acting, Over
  <2> QED BY <2>1, <2>2, EndStep DEF Observed!Next
<1>4. ASSUME NEW shot \in OneShots, OneShotNudge(shot)
      PROVE  UNCHANGED Observation
  <2>1. at \in {"calls", "text", "others"} /\ at' = "top" /\ calls' = 0 /\ results' = results
    BY <1>4 DEF OneShotNudge
  <2>2. Unsettled' = {}
    BY <2>1 DEF Unsettled
  <2>3. at \in {"text", "others"} => Unsettled = {}
    BY <1>1 DEF OpenInv, Acting, Over
  <2>4. TurnPhase = "asking" /\ TurnPhase' = "asking"
    BY <2>1, <2>2, <2>3 DEF TurnPhase, Acting, Over
  <2> QED BY <2>1, <2>4 DEF Observation, MappedOpen, MappedRunning
<1>5. ASSUME NEW n \in Calls, NEW S \in SUBSET Calls, NEW same \in BOOLEAN,
             CallsTools(n, S, same)
      PROVE  UNCHANGED Observation
  <2>1. at \in {"waiting", "retried", "dropped"} /\ at' = "calls"
    BY <1>5 DEF CallsTools, Accepted
  <2>2. Unsettled = {}
    BY <1>1, <2>1 DEF OpenInv, Acting, Over
  <2>3. TurnPhase = "asking" /\ TurnPhase' = "asking"
    BY <2>1, <2>2 DEF TurnPhase, Acting, Over
  <2> QED BY <2>1, <2>3 DEF Observation, MappedOpen, MappedRunning
<1> QED
  BY <1>2, <1>3, <1>4, <1>5 DEF Observation

(* The calls themselves.                                                   *)
LEMMA StepsActing ==
  ASSUME IInv, Next,
         \/ BeginCalls \/ CallsDone \/ BeginCall \/ Denied \/ StartTool \/ ToolCancelled
         \/ SettleCalls
         \/ \E always \in BOOLEAN : Approved(always)
         \/ \E success \in BOOLEAN : ToolReturns(success)
  PROVE  Observed!Next \/ UNCHANGED Observation
<1> USE DEF callVars, Goto, Waiting, Calibrate, MayMark
<1>1. TypeOK /\ OpenInv /\ CallsInv
  BY DEF IInv
<1>2. at \in Acting => TurnPhase = "acting"
  BY PhaseOf
<1>3. at' \in Acting => TurnPhase' = "acting"
  BY DEF TurnPhase, Acting, Over
<1>4. CASE BeginCalls
  <2>1. /\ at = "calls" /\ at' = "next" /\ calls >= 1 /\ calls' = calls
        /\ results = {} /\ results' = {}
    BY <1>1, <1>4 DEF BeginCalls, CallsInv, Begun
  <2>2. TurnPhase = "asking" /\ TurnPhase' = "acting"
    BY <1>3, <2>1 DEF TurnPhase, Acting, Over
  <2>3. Unsettled' \in (SUBSET Calls) \ {{}}
    <3>1. Unsettled' = 1 .. calls
      BY <2>1 DEF Unsettled
    <3>2. calls \in 1 .. MaxCalls
      BY <1>1, <2>1, BoundsAssumption DEF TypeOK
    <3>3. 1 \in Unsettled' /\ Unsettled' \subseteq Calls
      BY <3>1, <3>2, BoundsAssumption DEF Calls
    <3> QED BY <3>3
  <2>4. Observed!Answered(Unsettled')
    BY <2>1, <2>2 DEF Observed!Answered
  <2> QED BY <2>3, <2>4 DEF Observed!Next
<1>5. ASSUME \/ CallsDone \/ BeginCall
             \/ \E always \in BOOLEAN : Approved(always)
      PROVE  UNCHANGED Observation
  <2>1. /\ at \in Acting \ {"running"} /\ at' \in Acting \ {"running"}
        /\ UNCHANGED <<calls, results>>
    BY <1>5 DEF CallsDone, BeginCall, Approved, Acting
  <2> QED BY <1>2, <1>3, <2>1, QuietStep DEF Unsettled
<1>6. CASE StartTool
  <2>1. at = "select" /\ at' = "running" /\ UNCHANGED <<calls, results, current>>
    BY <1>6 DEF StartTool
  <2>2. current \in Calls /\ current \in Unsettled
    BY <1>1, <2>1, BoundsAssumption DEF TypeOK, CallsInv, Calls, Acting, Unsettled
  <2>3. TurnPhase = "acting" /\ TurnPhase' = "acting"
    BY <1>2, <1>3, <2>1 DEF Acting
  <2>4. Observed!Perform(current)
    BY <2>1, <2>2, <2>3 DEF Observed!Perform, Unsettled
  <2> QED BY <2>2, <2>4 DEF Observed!Next
<1>7. ASSUME Denied \/ \E success \in BOOLEAN : ToolReturns(success)
      PROVE  Observed!Next
  <2>1. /\ at \in {"approval", "running"} /\ at' = "next" /\ ResultOf(current)
        /\ calls' = calls
    BY <1>7 DEF Denied, ToolReturns
  <2>2. current \in Calls /\ results' = results \cup {current}
    BY <1>1, <2>1, ResultType DEF ResultOf
  <2>3. current \in Unsettled /\ Unsettled' = Unsettled \ {current}
    BY <1>1, <2>1, <2>2 DEF TypeOK, CallsInv, Acting, Unsettled
  <2>4. TurnPhase = "acting" /\ TurnPhase' = "acting"
    BY <1>2, <1>3, <2>1 DEF Acting
  <2>5. Observed!Result(current)
    BY <2>1, <2>3, <2>4 DEF Observed!Result
  <2> QED BY <2>2, <2>5 DEF Observed!Next
<1>8. CASE ToolCancelled
  <2>1. /\ at \in {"select", "running"} /\ at' = "block"
        /\ UNCHANGED <<calls, results>>
    BY <1>8 DEF ToolCancelled
  <2>2. TurnPhase = "acting" /\ TurnPhase' = "acting"
    BY <1>2, <1>3, <2>1 DEF Acting
  <2>3. Observed!Interrupt
    BY <2>1, <2>2 DEF Observed!Interrupt, Unsettled
  <2> QED BY <2>3 DEF Observed!Next
<1>9. CASE SettleCalls
  <2>1. at = "block" /\ at' = "settled" /\ Unsettled' = Unsettled
    BY <1>9 DEF SettleCalls, Unsettled
  <2>2. TurnPhase = "acting"
    BY <1>2, <2>1 DEF Acting
  <2>3. CASE Unsettled # {}
    <3>1. TurnPhase' = "acting"
      BY <2>1, <2>3 DEF TurnPhase, Acting, Over
    <3> QED BY <2>1, <2>2, <3>1, QuietStep
  <2>4. CASE Unsettled = {}
    <3>1. TurnPhase' = "asking"
      BY <2>1, <2>4 DEF TurnPhase, Acting, Over
    <3>2. Observed!AskAgain
      BY <2>1, <2>2, <2>4, <3>1 DEF Observed!AskAgain
    <3> QED BY <3>2 DEF Observed!Next
  <2> QED BY <2>3, <2>4
<1> QED
  BY <1>4, <1>5, <1>6, <1>7, <1>8, <1>9

(* The user's steps are not seen.                                          *)
LEMMA StepsUser ==
  ASSUME Cancel \/ (\E m \in FollowUps : Enqueue(m)) \/ UNCHANGED vars
  PROVE  UNCHANGED Observation
<1>1. UNCHANGED <<at, calls, results, current>>
  BY DEF Cancel, Enqueue, vars, callVars
<1> QED
  BY <1>1 DEF Observation, TurnPhase, MappedOpen, MappedRunning, Unsettled

(* The loop implements the abstract turn: the calls of a response are      *)
(* performed one at a time, each at most once, before the model is asked   *)
(* again, and none once the turn is over.                                  *)
THEOREM TurnImplemented == Spec => TurnSpec
<1>1. Init => Observed!Init
  <2> SUFFICES ASSUME Init PROVE Observed!Init
    OBVIOUS
  <2>1. at = "start" /\ Unsettled = {}
    BY DEF Init, Unsettled
  <2> QED BY <2>1 DEF Observed!Init, TurnPhase, Acting, Over
<1>2. ASSUME IInv, [Next]_vars PROVE [Observed!Next]_(Observed!vars)
  <2>1. Observed!Next \/ UNCHANGED Observation
    <3>1. CASE UNCHANGED vars
      BY <3>1, StepsUser
    <3>2. CASE Next
      BY <1>2, <3>2, StepsOutside, StepsAsking, StepsActing, StepsUser
      DEF Next, LoopStep, Done
    <3> QED BY <1>2, <3>1, <3>2
  <2> QED
    BY <2>1 DEF Observation, MappedOpen, MappedRunning, Observed!vars
<1> QED
  BY <1>1, <1>2, Invariance, PTL DEF Spec, TurnSpec, Observed!Spec

-----------------------------------------------------------------------------
(* Progress.  What CancelEndsTurn and OnlyCallsNarrationAndRescues say     *)
(* rests on fairness, which these proofs do not use, and on measures that  *)
(* the steps of the loop bring down, which they give.                      *)

(* A bound on the steps that are left of a turn once it is cancelled.      *)
StepsLeft(place) ==
  IF place \in Over THEN 0
  ELSE IF place \in {"answer", "closing"} THEN 1
  ELSE IF place \in {"top", "dropped"} THEN 2
  ELSE IF place \in {"replace", "opening", "others"} THEN 3
  ELSE IF place \in {"between", "text", "place"} THEN 4
  ELSE IF place \in {"settled", "start"} THEN 5
  ELSE IF place = "block" THEN 6
  ELSE IF place \in {"next", "select", "running"} THEN 7
  ELSE IF place = "approval" THEN 8
  ELSE IF place = "calls" THEN 9
  ELSE IF place = "retried" THEN 10
  ELSE IF place = "waiting" THEN 11
  ELSE IF place = "ask" THEN 12
  ELSE 13

(* A turn that is cancelled stays so and takes at most StepsLeft(at) steps *)
(* more: whatever it is at, each step of the loop brings it nearer to its  *)
(* end, and the user's messages do not take it back.                       *)
CancelledTurnIsShort ==
  [][cancelled => /\ cancelled'
                  /\ IF LoopStep THEN StepsLeft(at') < StepsLeft(at) ELSE at' = at]_vars

(* The measure is a number, zero only when the turn is over.               *)
LEMMA StepsLeftIsNatural ==
  ASSUME NEW place \in Places
  PROVE  StepsLeft(place) \in 0 .. 13 /\ (StepsLeft(place) = 0 <=> place \in Over)
  BY DEF StepsLeft, Places, Over, Acting

(* The measure at each place.                                              *)
LEMMA StepsLeftTable ==
  /\ \A place \in Over : StepsLeft(place) = 0
  /\ StepsLeft("answer") = 1 /\ StepsLeft("closing") = 1
  /\ StepsLeft("top") = 2 /\ StepsLeft("dropped") = 2
  /\ StepsLeft("replace") = 3 /\ StepsLeft("opening") = 3 /\ StepsLeft("others") = 3
  /\ StepsLeft("between") = 4 /\ StepsLeft("text") = 4 /\ StepsLeft("place") = 4
  /\ StepsLeft("settled") = 5 /\ StepsLeft("start") = 5 /\ StepsLeft("block") = 6
  /\ StepsLeft("next") = 7 /\ StepsLeft("select") = 7 /\ StepsLeft("running") = 7
  /\ StepsLeft("approval") = 8 /\ StepsLeft("calls") = 9 /\ StepsLeft("retried") = 10
  /\ StepsLeft("waiting") = 11 /\ StepsLeft("ask") = 12 /\ StepsLeft("checked") = 13
  BY DEF StepsLeft, Over

(* Where a step of the loop can lead once the token has fired.             *)
CancelledMove(from, to) ==
  \/ from = "start" /\ to \in {"place", "failed"}
  \/ from = "place" /\ to \in {"opening", "failed"}
  \/ from = "opening" /\ to \in {"compacted", "failed", "top"}
  \/ from = "top" /\ to = "closing"
  \/ from = "checked" /\ to = "ask"
  \/ from = "ask" /\ to = "waiting"
  \/ from = "waiting" /\ to = "retried"
  \/ from \in {"waiting", "retried"} /\ to \in {"dropped", "text", "calls", "failed"}
  \/ from = "dropped" /\ to = "closing"
  \/ from = "text" /\ to \in {"replace", "top", "others", "answer"}
  \/ from = "others" /\ to \in {"top", "answer"}
  \/ from = "calls" /\ to \in {"next", "top", "answer"}
  \/ from = "approval" /\ to \in {"select", "next"}
  \/ from \in {"next", "select", "running"} /\ to = "block"
  \/ from = "block" /\ to = "settled"
  \/ from = "settled" /\ to = "between"
  \/ from = "between" /\ to \in {"replace", "top"}
  \/ from = "replace" /\ to \in {"top", "failed"}
  \/ from = "answer" /\ to \in {"answered", "failed"}
  \/ from = "closing" /\ to \in {"partial", "failed"}

(* Where the steps of the loop may lead once the token has fired.          *)
LEMMA CancelledMoves ==
  ASSUME cancelled, LoopStep
  PROVE  CancelledMove(at, at')
<1> USE DEF Goto, Waiting, CancelledMove
<1>1. CASE \/ RecordPrompt \/ PlaceAnswer \/ Fail \/ ManualCompact \/ LoopTop \/ Request
          \/ StreamDrops \/ SavePartial \/ RetryStream \/ FallbackAfterDrops
          \/ EmergencyCompact \/ Rescue \/ AskOthers
  BY <1>1 DEF RecordPrompt, PlaceAnswer, Fail, ManualCompact, LoopTop, Request,
     StreamDrops, EmergencyCompact, Rescue, AskOthers,
     SavePartial, RetryStream, FallbackAfterDrops
<1>2. CASE BudgetKept \/ Compact
  <2>1. at \in {"opening", "checked", "settled"} /\ at' = AfterBudget[at]
    BY <1>2 DEF BudgetKept, Compact, AfterBudget
  <2>2. /\ at = "opening" => at' = "top"
        /\ at = "checked" => at' = "ask"
        /\ at = "settled" => at' = "between"
    BY <2>1 DEF AfterBudget
  <2> QED BY <2>1, <2>2
<1>3. CASE AnswersText \/ FinalText \/ EmptyNudge \/ NothingQueued \/ SettleCalls
           \/ Finish \/ FinishPartial
  BY <1>3 DEF AnswersText, Accepted, FinalText, EmptyNudge, NothingQueued, SettleCalls,
     Finish, FinishPartial
<1>4. CASE \/ (\E n \in Calls, S \in SUBSET Calls, same \in BOOLEAN :
                    S \subseteq 1 .. n /\ CallsTools(n, S, same))
           \/ \E from \in {"text", "between"} : TakeFollowUps(from)
           \/ \E stuck \in BOOLEAN : PhantomNudge(stuck)
           \/ \E shot \in OneShots : OneShotNudge(shot)
  BY <1>4 DEF CallsTools, Accepted, TakeFollowUps, PhantomNudge, OneShotNudge
<1>5. CASE \/ LoopDetected \/ BeginCalls \/ CallsDone \/ BeginCall \/ StartTool
           \/ ToolCancelled \/ Denied
           \/ \E always \in BOOLEAN : Approved(always)
           \/ \E success \in BOOLEAN : ToolReturns(success)
  BY <1>5 DEF LoopDetected, BeginCalls, CallsDone, BeginCall, StartTool, ToolCancelled,
     Denied, Approved, ToolReturns
<1> HIDE DEF CancelledMove
<1> QED
  BY <1>1, <1>2, <1>3, <1>4, <1>5 DEF LoopStep

(* Only the user touches the token.                                        *)
LEMMA TokenKept ==
  ASSUME LoopStep
  PROVE  cancelled' = cancelled
  BY DEF LoopStep, RecordPrompt, PlaceAnswer, Fail, ManualCompact, BudgetKept, Compact,
     LoopTop, Request, StreamDrops, EmergencyCompact, Rescue, AskOthers,
     SavePartial, RetryStream, FallbackAfterDrops,
     AnswersText, CallsTools, TakeFollowUps, PhantomNudge, EmptyNudge, OneShotNudge,
     FinalText, LoopDetected, BeginCalls, CallsDone, BeginCall, Approved, Denied,
     StartTool, ToolReturns, ToolCancelled, SettleCalls, NothingQueued, Finish,
     FinishPartial

(* Each of them lowers the measure, and none takes the token back.         *)
LEMMA CancelledStep ==
  ASSUME cancelled, LoopStep
  PROVE  StepsLeft(at') < StepsLeft(at) /\ cancelled'
<1>1. CancelledMove(at, at')
  BY CancelledMoves
<1>2. StepsLeft(at') < StepsLeft(at)
  BY <1>1, StepsLeftTable DEF CancelledMove, Over
<1> QED
  BY <1>2, TokenKept

(* The end of a cancelled turn is a bounded number of its own steps away.  *)
THEOREM CancelledTurnEnds == Spec => CancelledTurnIsShort
<1>1. ASSUME [Next]_vars
      PROVE  cancelled => /\ cancelled'
                          /\ IF LoopStep THEN StepsLeft(at') < StepsLeft(at) ELSE at' = at
  <2>1. ASSUME cancelled, ~LoopStep PROVE cancelled' /\ at' = at
    BY <1>1, <2>1 DEF Next, Cancel, Enqueue, Done, vars
  <2> QED
    BY <2>1, CancelledStep
<1> QED
  BY <1>1, PTL DEF Spec, CancelledTurnIsShort

(* What a turn can still spend without calls, narration or a fresh chain:  *)
(* the branches that send the model back to work, then the part of the     *)
(* round it is in, the calls or the retries of that part, and its places.  *)
Unused(shot) == IF shot \in OneShots \ heal.used THEN 1 ELSE 0

Spare ==
  heal.fallbacks + (MaxEmptyNudges - heal.empty)
    + Unused("rotation") + Unused("truncation") + Unused("analysis") + Unused("screenshot")

Working == Acting \cup {"calls", "settled", "between"}

Stage(place) ==
  IF place \in Working THEN 2
  ELSE IF place \in {"text", "others", "answer", "closing"} \cup Over THEN 0 ELSE 1

Tries ==
  IF at \in {"settled", "between"} THEN 0
  ELSE IF at \in Working THEN MaxCalls + 1 - current ELSE MaxStreamRetries - heal.drops

Left(place) ==
  IF place \in Over THEN 0
  ELSE IF place \in {"answer", "closing"} THEN 1
  ELSE IF place \in {"others", "between", "dropped"} THEN 2
  ELSE IF place \in {"text", "settled", "retried"} THEN 3
  ELSE IF place \in {"block", "waiting"} THEN 4
  ELSE IF place \in {"running", "ask"} THEN 5
  ELSE IF place \in {"select", "checked"} THEN 6
  ELSE IF place \in {"approval", "top"} THEN 7
  ELSE IF place \in {"next", "replace", "opening"} THEN 8
  ELSE IF place \in {"calls", "place"} THEN 9
  ELSE 10

Effort == <<Spare, Stage(at), Tries, Left(at)>>

(* The order of the measure is the lexicographic one.                      *)
SpendsEffort ==
  \/ Spare' < Spare
  \/ /\ Spare' = Spare
     /\ \/ Stage(at') < Stage(at)
        \/ /\ Stage(at') = Stage(at)
           /\ \/ Tries' < Tries
              \/ Tries' = Tries /\ Left(at') < Left(at)

Untaken == {m \in FollowUps : mail[m] # "taken"}

TakesOne == Untaken' \subseteq Untaken /\ Untaken' # Untaken

(* A step of the loop that neither brings a response with calls nor nudges *)
(* the model for narrating them nor pins a fresh chain of fallbacks takes  *)
(* a follow-up or spends of the effort; the user's steps give none back.   *)
(* So it is only by calls, narration and rescues that a turn goes on for   *)
(* ever.                                                                   *)
HealingIsFinite ==
  [][IF LoopStep
     THEN \/ at # "calls" /\ at' = "calls"
          \/ \E stuck \in BOOLEAN : PhantomNudge(stuck)
          \/ Refilled
          \/ TakesOne
          \/ Untaken' = Untaken /\ SpendsEffort
     ELSE UNCHANGED <<Untaken, Effort>>]_vars

(* Each part of the effort is a natural number, so that the order in which *)
(* it is spent has no infinite descent.                                    *)
LEMMA EffortIsNatural ==
  ASSUME TypeOK
  PROVE  Effort \in Nat \X Nat \X (0 .. MaxCalls + MaxStreamRetries + 1) \X Nat
<1> USE BoundsAssumption
<1>1. heal \in Heals /\ current \in 1 .. MaxCalls + 1 /\ at \in Places
  BY DEF TypeOK
<1>2. Spare \in Nat
  <2>1. \A shot \in {"rotation", "truncation", "analysis", "screenshot"} :
          Unused(shot) \in {0, 1}
    BY DEF Unused
  <2>2. heal.fallbacks \in 0 .. Fallbacks /\ heal.empty \in 0 .. MaxEmptyNudges
    BY <1>1 DEF Heals
  <2> QED BY <2>1, <2>2 DEF Spare
<1>3. Stage(at) \in Nat
  BY DEF Stage
<1>4. Tries \in 0 .. MaxCalls + MaxStreamRetries + 1
  <2>1. heal.drops \in 0 .. MaxStreamRetries
    BY <1>1 DEF Heals
  <2> QED BY <1>1, <2>1 DEF Tries
<1>5. Left(at) \in Nat
  BY <1>1 DEF Left, Places, Over, Acting
<1> QED
  BY <1>2, <1>3, <1>4, <1>5 DEF Effort

(* The stage and the rank of each place of the loop.                       *)
LEMMA PlaceTable ==
  /\ \A place \in Over : Stage(place) = 0 /\ Left(place) = 0
  /\ Stage("answer") = 0 /\ Left("answer") = 1 /\ Stage("closing") = 0 /\ Left("closing") = 1
  /\ Stage("text") = 0 /\ Left("text") = 3 /\ Stage("others") = 0 /\ Left("others") = 2
  /\ Stage("dropped") = 1 /\ Left("dropped") = 2
  /\ Stage("retried") = 1 /\ Left("retried") = 3
  /\ Stage("waiting") = 1 /\ Left("waiting") = 4 /\ Stage("ask") = 1 /\ Left("ask") = 5
  /\ Stage("checked") = 1 /\ Left("checked") = 6 /\ Stage("top") = 1 /\ Left("top") = 7
  /\ Stage("replace") = 1 /\ Left("replace") = 8 /\ Stage("opening") = 1
  /\ Left("opening") = 8 /\ Stage("place") = 1 /\ Left("place") = 9
  /\ Stage("start") = 1 /\ Left("start") = 10
  /\ Stage("between") = 2 /\ Left("between") = 2 /\ Stage("settled") = 2
  /\ Left("settled") = 3 /\ Stage("block") = 2 /\ Left("block") = 4
  /\ Stage("running") = 2 /\ Left("running") = 5 /\ Stage("select") = 2
  /\ Left("select") = 6 /\ Stage("approval") = 2 /\ Left("approval") = 7
  /\ Stage("next") = 2 /\ Left("next") = 8 /\ Stage("calls") = 2 /\ Left("calls") = 9
  BY DEF Stage, Left, Working, Acting, Over

(* Spare changes only with the counters it is made of.                     *)
LEMMA SameSpare ==
  ASSUME heal'.fallbacks = heal.fallbacks, heal'.empty = heal.empty, heal'.used = heal.used
  PROVE  Spare' = Spare
  BY DEF Spare, Unused

(* Moves of the loop that change no counter of the effort.                 *)
Onward(from, to) ==
  \/ /\ from \in {"start", "place", "opening", "replace", "waiting", "retried", "answer",
                  "closing"}
     /\ to = "failed"
  \/ from = "start" /\ to = "place"
  \/ from = "place" /\ to = "opening"
  \/ from = "opening" /\ to \in {"compacted", "top"}
  \/ from = "replace" /\ to = "top"
  \/ from = "top" /\ to \in {"closing", "checked"}
  \/ from = "checked" /\ to = "ask"
  \/ from = "ask" /\ to = "waiting"
  \/ from = "waiting" /\ to \in {"retried", "dropped"}
  \/ from = "retried" /\ to = "dropped"
  \/ from = "dropped" /\ to = "closing"
  \/ from = "text" /\ to \in {"others", "answer"}
  \/ from = "others" /\ to = "answer"
  \/ from = "answer" /\ to = "answered"
  \/ from = "closing" /\ to = "partial"
  \/ from = "calls" /\ to = "answer"
  \/ from = "settled" /\ to = "between"
  \/ from = "between" /\ to = "top"

OnwardCalls(from, to) ==
  \/ from = "calls" /\ to = "next"
  \/ from = "next" /\ to \in {"approval", "select", "block"}
  \/ from = "approval" /\ to = "select"
  \/ from = "select" /\ to \in {"running", "block"}
  \/ from = "running" /\ to = "block"

(* Steps that keep the counters of healing, but for fallbacks that the     *)
(* active provider has passed by itself.                                   *)
KeepsHeal ==
  /\ heal'.fallbacks \in 0 .. heal.fallbacks /\ heal'.empty = heal.empty
  /\ heal'.used = heal.used /\ heal'.drops = heal.drops

(* What a step within a round spends, if it keeps the counters of healing. *)
LEMMA OnwardStep ==
  ASSUME TypeOK, KeepsHeal,
         \/ Onward(at, at')
         \/ OnwardCalls(at, at') /\ current' = current
  PROVE  SpendsEffort
<1>1. Spare' < Spare \/ Spare' = Spare
  <2>1. /\ heal.fallbacks \in 0 .. Fallbacks /\ heal.empty \in 0 .. MaxEmptyNudges
        /\ \A shot \in {"rotation", "truncation", "analysis", "screenshot"} :
             Unused(shot) \in {0, 1}
    BY DEF TypeOK, Heals, Unused
  <2>2. \A shot : Unused(shot)' = Unused(shot)
    BY DEF KeepsHeal, Unused
  <2> QED BY <2>1, <2>2, BoundsAssumption DEF KeepsHeal, Spare
<1>4. CASE Spare' < Spare
  BY <1>4 DEF SpendsEffort
<1>2. CASE Spare' = Spare /\ Onward(at, at')
  <2>1. \/ Stage(at') < Stage(at)
        \/ Stage(at') = Stage(at) /\ Left(at') < Left(at)
    BY <1>2, PlaceTable DEF Onward, Over
  <2>2. CASE Stage(at') = Stage(at)
    <3>1. \/ at \notin Working /\ at' \notin Working
          \/ at = "settled" /\ at' = "between"
      BY <1>2, <2>2, PlaceTable DEF Onward, Working, Acting
    <3>2. Tries' = Tries
      BY <3>1 DEF Tries, Working, KeepsHeal
    <3> QED BY <1>2, <2>1, <3>2 DEF SpendsEffort
  <2> QED BY <1>2, <2>1, <2>2 DEF SpendsEffort
<1>3. CASE Spare' = Spare /\ OnwardCalls(at, at') /\ current' = current
  <2>1. Stage(at') = Stage(at) /\ Left(at') < Left(at)
    BY <1>3, PlaceTable DEF OnwardCalls
  <2>2. at \in Working \ {"settled", "between"} /\ at' \in Working \ {"settled", "between"}
    BY <1>3 DEF OnwardCalls, Working, Acting
  <2>3. Tries' = Tries
    BY <1>3, <2>2 DEF Tries
  <2> QED BY <1>3, <2>1, <2>3 DEF SpendsEffort
<1> QED
  BY <1>1, <1>2, <1>3, <1>4

(* The steps that only move on.                                            *)
LEMMA OnwardSteps ==
  ASSUME TypeOK, ~Refilled,
         \/ RecordPrompt \/ PlaceAnswer \/ Fail \/ ManualCompact \/ BudgetKept \/ Compact
         \/ LoopTop \/ StreamDrops \/ SavePartial \/ FinalText \/ LoopDetected
         \/ Request \/ EmergencyCompact \/ Rescue \/ AskOthers
         \/ BeginCalls \/ CallsDone \/ BeginCall \/ (\E always \in BOOLEAN : Approved(always))
         \/ StartTool \/ ToolCancelled \/ NothingQueued \/ Finish \/ FinishPartial
  PROVE  SpendsEffort
<1> USE DEF callVars, Goto, Waiting
<1>7. heal \in Heals /\ heal.fallbacks \in 0 .. Fallbacks /\ Fallbacks \in Nat
  BY BoundsAssumption DEF TypeOK, Heals
<1>8. heal' = heal => KeepsHeal
  BY <1>7 DEF KeepsHeal
<1>9. ASSUME NEW f \in {heal.fallbacks} \cup 0 .. Fallbacks,
             heal' = [heal EXCEPT !.fallbacks = f]
      PROVE  KeepsHeal
  <2>1. /\ heal'.fallbacks = f /\ heal'.empty = heal.empty /\ heal'.used = heal.used
        /\ heal'.drops = heal.drops
    BY <1>7, <1>9 DEF Heals
  <2>2. f \in Nat /\ ~(f > heal.fallbacks)
    BY <1>7, <2>1 DEF Refilled
  <2> QED BY <1>7, <2>1, <2>2 DEF KeepsHeal
<1>4. CASE Request
  <2>1. PICK f \in 0 .. heal.fallbacks : heal' = [heal EXCEPT !.fallbacks = f]
    BY <1>4 DEF Request
  <2>2. f \in 0 .. Fallbacks
    BY <1>7
  <2>3. Onward(at, at')
    BY <1>4 DEF Request, Onward
  <2> QED BY <1>9, <2>1, <2>2, <2>3, OnwardStep
<1>5. CASE Rescue \/ AskOthers
  <2>1. PICK f \in {heal.fallbacks} \cup 0 .. Fallbacks - 1 :
          heal' = [heal EXCEPT !.fallbacks = f]
    BY <1>5 DEF Rescue, AskOthers, PinOrRestore
  <2>2. f \in 0 .. Fallbacks
    BY <1>7
  <2>3. Onward(at, at')
    BY <1>5 DEF Rescue, AskOthers, Onward
  <2> QED BY <1>9, <2>1, <2>2, <2>3, OnwardStep
<1>1. CASE \/ RecordPrompt \/ PlaceAnswer \/ Fail \/ ManualCompact
           \/ LoopTop \/ StreamDrops \/ SavePartial \/ FinalText \/ LoopDetected
           \/ EmergencyCompact \/ NothingQueued \/ Finish \/ FinishPartial
  <2>1. Onward(at, at') /\ heal' = heal
    BY <1>1 DEF Onward, RecordPrompt, PlaceAnswer, Fail, ManualCompact, LoopTop,
       StreamDrops, EmergencyCompact, SavePartial, FinalText, LoopDetected, NothingQueued,
       Finish, FinishPartial
  <2> QED BY <1>8, <2>1, OnwardStep
<1>2. CASE BudgetKept \/ Compact
  <2>1. /\ at \in {"opening", "checked", "settled"} /\ at' = AfterBudget[at]
        /\ heal' = heal
    BY <1>2 DEF BudgetKept, Compact, AfterBudget
  <2>2. /\ at = "opening" => at' = "top"
        /\ at = "checked" => at' = "ask"
        /\ at = "settled" => at' = "between"
    BY <2>1 DEF AfterBudget
  <2>3. Onward(at, at')
    BY <2>1, <2>2 DEF Onward
  <2> QED BY <1>8, <2>1, <2>3, OnwardStep
<1>3. CASE \/ BeginCalls \/ CallsDone \/ BeginCall \/ StartTool \/ ToolCancelled
           \/ \E always \in BOOLEAN : Approved(always)
  <2>1. OnwardCalls(at, at') /\ current' = current /\ heal' = heal
    BY <1>3 DEF OnwardCalls, BeginCalls, CallsDone, BeginCall, StartTool, ToolCancelled,
       Approved
  <2> QED BY <1>8, <2>1, OnwardStep
<1> QED
  BY <1>1, <1>2, <1>3, <1>4, <1>5

(* A result, the end of the calls, a text or a retry ends a part of the    *)
(* round.                                                                  *)
LEMMA PartSteps ==
  ASSUME TypeOK, CallsInv,
         \/ Denied \/ (\E success \in BOOLEAN : ToolReturns(success)) \/ SettleCalls
         \/ AnswersText \/ RetryStream
  PROVE  SpendsEffort
<1> USE BoundsAssumption DEF callVars, Goto, Waiting, Calibrate, MayMark
<1>1. heal \in Heals
  BY DEF TypeOK
<1>2. CASE Denied \/ \E success \in BOOLEAN : ToolReturns(success)
  <2>1. at \in {"approval", "running"} /\ at' = "next" /\ ResultOf(current)
    BY <1>2 DEF Denied, ToolReturns
  <2>2. /\ heal'.fallbacks = heal.fallbacks /\ heal'.empty = heal.empty
        /\ heal'.used = heal.used
    BY <1>1, <1>2 DEF Denied, ToolReturns, Heals
  <2>3. Stage(at) = 2 /\ Stage(at') = 2
    BY <2>1, PlaceTable
  <2>4. current \in Nat /\ current' = current + 1
    BY <2>1, ResultType DEF Calls
  <2>5. Tries = MaxCalls + 1 - current /\ Tries' = MaxCalls + 1 - current'
    BY <2>1 DEF Tries, Working, Acting
  <2>6. Tries' < Tries
    BY <2>4, <2>5
  <2> QED BY <2>2, <2>3, <2>6, SameSpare DEF SpendsEffort
<1>3. CASE SettleCalls
  <2>1. at = "block" /\ at' = "settled" /\ heal' = heal
    BY <1>3 DEF SettleCalls
  <2>2. Stage(at) = Stage(at') /\ Left(at') < Left(at)
    BY <2>1, PlaceTable
  <2>3. Tries' = 0 /\ Tries = MaxCalls + 1 - current /\ current \in 1 .. MaxCalls + 1
    BY <2>1 DEF Tries, Working, Acting, TypeOK
  <2>4. Tries' < Tries \/ Tries' = Tries
    BY <2>3
  <2> QED BY <2>1, <2>2, <2>4, SameSpare DEF SpendsEffort
<1>4. CASE AnswersText
  <2>1. at \in {"waiting", "retried", "dropped"} /\ at' = "text"
    BY <1>4 DEF AnswersText, Accepted
  <2>2. /\ heal'.fallbacks = heal.fallbacks /\ heal'.empty = heal.empty
        /\ heal'.used = heal.used
    BY <1>1, <1>4 DEF AnswersText, Heals
  <2>3. Stage(at') < Stage(at)
    BY <2>1, PlaceTable
  <2> QED BY <2>2, <2>3, SameSpare DEF SpendsEffort
<1>5. CASE RetryStream
  <2>1. at = "dropped" /\ at' = "top"
    BY <1>5 DEF RetryStream
  <2>2. /\ heal'.fallbacks = heal.fallbacks /\ heal'.empty = heal.empty
        /\ heal'.used = heal.used /\ heal'.drops = heal.drops + 1
        /\ heal.drops \in 0 .. MaxStreamRetries
    BY <1>1, <1>5 DEF RetryStream, Heals
  <2>3. Stage(at') = Stage(at)
    BY <2>1, PlaceTable
  <2>4. Tries' < Tries
    BY <2>1, <2>2 DEF Tries, Working, Acting
  <2> QED BY <2>2, <2>3, <2>4, SameSpare DEF SpendsEffort
<1> QED
  BY <1>2, <1>3, <1>4, <1>5

(* The branches that send the model back to work.                          *)
LEMMA SpareSteps ==
  ASSUME TypeOK,
         \/ FallbackAfterDrops \/ EmptyNudge \/ (\E shot \in OneShots : OneShotNudge(shot))
  PROVE  SpendsEffort
<1> USE BoundsAssumption DEF callVars, Goto, Waiting, Calibrate, MayMark
<1>1. heal \in Heals
  BY DEF TypeOK
<1>2. /\ heal.fallbacks \in 0 .. Fallbacks /\ heal.empty \in 0 .. MaxEmptyNudges
      /\ \A shot \in {"rotation", "truncation", "analysis", "screenshot"} :
           Unused(shot) \in {0, 1}
  BY <1>1 DEF Heals, Unused
<1>3. CASE FallbackAfterDrops
  <2>1. /\ heal'.fallbacks = heal.fallbacks - 1 /\ heal'.empty = heal.empty
        /\ heal'.used = heal.used
    BY <1>1, <1>3 DEF FallbackAfterDrops, Heals
  <2>2. \A shot : Unused(shot)' = Unused(shot)
    BY <2>1 DEF Unused
  <2>3. Spare' = Spare - 1 /\ Spare \in Nat
    BY <1>2, <2>1, <2>2 DEF Spare
  <2> QED BY <2>3 DEF SpendsEffort
<1>4. CASE EmptyNudge
  <2>1. /\ heal'.fallbacks = heal.fallbacks /\ heal'.empty = heal.empty + 1
        /\ heal'.used = heal.used
    BY <1>1, <1>4 DEF EmptyNudge, Heals
  <2>2. \A shot : Unused(shot)' = Unused(shot)
    BY <2>1 DEF Unused
  <2>3. Spare' = Spare - 1 /\ Spare \in Nat
    BY <1>2, <2>1, <2>2 DEF Spare
  <2> QED BY <2>3 DEF SpendsEffort
<1>5. ASSUME NEW shot \in OneShots, OneShotNudge(shot)
      PROVE  SpendsEffort
  <2>1. /\ heal'.fallbacks = heal.fallbacks /\ heal'.empty = heal.empty
        /\ heal'.used = heal.used \cup {shot} /\ shot \notin heal.used
    BY <1>1, <1>5 DEF OneShotNudge, Heals
  <2>2. \A other : other # shot => Unused(other)' = Unused(other)
    BY <2>1 DEF Unused
  <2>3. Unused(shot) = 1 /\ Unused(shot)' = 0
    BY <2>1 DEF Unused
  <2>4. shot \in {"rotation", "truncation", "analysis", "screenshot"}
    OBVIOUS
  <2>5. Spare' = Spare - 1 /\ Spare \in Nat
    BY <1>2, <2>1, <2>2, <2>3, <2>4 DEF Spare
  <2> QED BY <2>5 DEF SpendsEffort
<1> QED
  BY <1>3, <1>4, <1>5

(* Only TakeFollowUps takes messages from the queue.                       *)
LEMMA FollowUpsTaken ==
  ASSUME TypeOK, NEW from \in {"text", "between"}, TakeFollowUps(from)
  PROVE  TakesOne
<1>1. PICK m \in FollowUps : mail[m] = "queued"
  BY DEF TakeFollowUps, Queued
<1>2. \A k \in FollowUps : mail'[k] = IF mail[k] = "queued" THEN "taken" ELSE mail[k]
  BY DEF TakeFollowUps, Queued
<1>3. m \in Untaken /\ m \notin Untaken' /\ Untaken' \subseteq Untaken
  BY <1>1, <1>2 DEF Untaken
<1> QED
  BY <1>3 DEF TakesOne

(* A turn goes on for ever only by calls, narration and fresh chains.      *)
THEOREM HealingEnds == Spec => HealingIsFinite
<1> DEFINE Spends ==
      IF LoopStep
      THEN \/ at # "calls" /\ at' = "calls"
           \/ \E stuck \in BOOLEAN : PhantomNudge(stuck)
           \/ Refilled
           \/ TakesOne
           \/ Untaken' = Untaken /\ SpendsEffort
      ELSE UNCHANGED <<Untaken, Effort>>
<1>1. ASSUME IInv, [Next]_vars PROVE Spends
  <2>1. TypeOK /\ CallsInv
    BY <1>1 DEF IInv
  <2>2. CASE LoopStep
    <3>1. CASE \E from \in {"text", "between"} : TakeFollowUps(from)
      BY <2>1, <2>2, <3>1, FollowUpsTaken
    <3>2. CASE \E n \in Calls, S \in SUBSET Calls, same \in BOOLEAN :
                 S \subseteq 1 .. n /\ CallsTools(n, S, same)
      BY <2>2, <3>2 DEF CallsTools, Accepted, Waiting
    <3>3. CASE \E stuck \in BOOLEAN : PhantomNudge(stuck)
      BY <2>2, <3>3
    <3>4. ASSUME ~\E from \in {"text", "between"} : TakeFollowUps(from),
                 ~\E n \in Calls, S \in SUBSET Calls, same \in BOOLEAN :
                    S \subseteq 1 .. n /\ CallsTools(n, S, same),
                 ~\E stuck \in BOOLEAN : PhantomNudge(stuck), ~Refilled
          PROVE  Spends
      <4>1. SpendsEffort
        BY <2>1, <2>2, <3>4, OnwardSteps, PartSteps, SpareSteps DEF LoopStep
      <4>2. mail' = mail
        BY <2>2, <3>4 DEF LoopStep, RecordPrompt, PlaceAnswer, Fail, ManualCompact,
           BudgetKept, Compact, LoopTop, Request,
           StreamDrops, EmergencyCompact, Rescue, AskOthers,
           SavePartial, RetryStream,
           FallbackAfterDrops, AnswersText, EmptyNudge, OneShotNudge, FinalText,
           LoopDetected, BeginCalls, CallsDone, BeginCall, Approved, Denied, StartTool,
           ToolReturns, ToolCancelled, SettleCalls, NothingQueued, Finish, FinishPartial
      <4> QED BY <2>2, <4>1, <4>2 DEF Untaken
    <3> QED BY <2>2, <3>1, <3>2, <3>3, <3>4
  <2>3. CASE ~LoopStep
    <3>1. UNCHANGED <<at, heal, current>>
      BY <1>1, <2>3 DEF Next, Cancel, Enqueue, Done, vars, callVars
    <3>2. UNCHANGED Effort
      BY <3>1 DEF Effort, Spare, Unused, Tries
    <3>3. \A m \in FollowUps : mail'[m] # "taken" <=> mail[m] # "taken"
      BY <1>1, <2>1, <2>3 DEF Next, Cancel, Enqueue, Done, vars, TypeOK
    <3> QED BY <2>3, <3>2, <3>3 DEF Untaken
  <2> QED BY <2>2, <2>3
<1> QED
  BY <1>1, Invariance, PTL DEF Spec, HealingIsFinite

=============================================================================
