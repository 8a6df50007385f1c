------------------------------ MODULE ToolLoop ------------------------------
(* One turn of the agent: run_tool_loop_inner (agent/service/tool_loop.rs) *)
(* around a provider with an API.  The model of the language model is free *)
(* choice: it may call tools, narrate calls it does not make, stop in the  *)
(* middle or answer.  The user may cancel and queue follow-ups at any      *)
(* moment.                                                                 *)
EXTENDS Integers, Sequences

CONSTANTS
  MaxCalls,          \* tool calls of one response
  FollowUps,         \* messages the user may queue during the turn
  Fallbacks,         \* the fallback providers of the service
  MaxStreamRetries,  \* MAX_STREAM_RETRIES
  MaxPhantomRetries, \* MAX_PHANTOM_RETRIES
  MaxEmptyNudges,    \* EMPTY_REASONING_MAX_NUDGES
  LoopThreshold,     \* loop_threshold: equal calls in a row
  OneShots           \* nudges given once in a turn: after a rotation of the
                     \* provider, a truncated text, an empty analysis, or a
                     \* series of screenshots

ASSUME BoundsAssumption ==
  /\ MaxCalls \in Nat \ {0} /\ Fallbacks \in Nat /\ LoopThreshold \in Nat \ {0}
  /\ MaxStreamRetries \in Nat /\ MaxPhantomRetries \in Nat /\ MaxEmptyNudges \in Nat
  /\ OneShots \subseteq {"rotation", "truncation", "analysis", "screenshot"}

VARIABLES
  at,         \* where the turn is
  cancelled,  \* the cancellation token has fired
  mail,       \* what became of each follow-up
  calls,      \* the number of tool calls of the last response
  sensitive,  \* those of them that need approval
  current,    \* the call the tool loop is at
  results,    \* tool_results: the calls that have one
  outputs,    \* tool_outputs, zipped with tool_descriptions into the row
  approval,   \* [always: tool_context.auto_approve, granted: calls approved]
  open,       \* calls in the context without a result
  fresh,      \* follow-ups in the context, word for word or quoted by its
              \* summary, that no request has carried yet
  below,      \* the kinds of rows that follow assistant_db_msg in the session
  said,       \* accumulated_text is not empty, or will be after the calls
  heal        \* the counters of the self-healing branches; fallbacks is what
              \* force_next_fallback of the active provider may still reach

callVars == <<calls, sensitive, current, results, outputs, approval>>
vars == <<at, cancelled, mail, callVars, open, fresh, below, said, heal>>

Calls == 1 .. MaxCalls

Over == {"answered", "compacted", "partial", "failed"}
Acting == {"next", "approval", "select", "running", "block"}
Places == Over \cup Acting \cup
  {"start", "place", "opening", "top", "checked", "ask", "waiting", "retried",
   "dropped", "text", "others", "calls", "settled", "between", "replace", "answer",
   "closing"}

Heals ==
  [drops : 0 .. MaxStreamRetries, phantom : 0 .. MaxPhantomRetries,
   empty : 0 .. MaxEmptyNudges, repeats : 0 .. LoopThreshold,
   fallbacks : 0 .. Fallbacks, swapped : BOOLEAN, used : SUBSET OneShots]

Init ==
  /\ at = "start"
  /\ cancelled = FALSE
  /\ mail = [m \in FollowUps |-> "unsent"]
  /\ calls = 0
  /\ sensitive = {}
  /\ current = 1
  /\ results = {}
  /\ outputs = <<>>
  /\ approval = [always |-> FALSE, granted |-> {}]
  /\ open = {}
  /\ fresh = {}
  /\ below = {}
  /\ said = FALSE
  /\ heal = [drops |-> 0, phantom |-> 0, empty |-> 0, repeats |-> 0,
             fallbacks |-> Fallbacks, swapped |-> FALSE, used |-> {}]

Goto(from, to) == at = from /\ at' = to

-----------------------------------------------------------------------------
(* The user.                                                               *)

Cancel ==
  /\ at \notin Over
  /\ ~cancelled
  /\ cancelled' = TRUE
  /\ UNCHANGED <<at, mail, callVars, open, fresh, below, said, heal>>

Enqueue(m) ==
  /\ at \notin Over
  /\ mail[m] = "unsent"
  /\ mail' = [mail EXCEPT ![m] = "queued"]
  /\ UNCHANGED <<at, cancelled, callVars, open, fresh, below, said, heal>>

-----------------------------------------------------------------------------
(* The beginning of a turn: the user's row, unless the prompt is a system  *)
(* continuation, then the placeholder of the answer, a row below it.       *)

RecordPrompt ==
  /\ Goto("start", "place")
  /\ UNCHANGED <<cancelled, mail, callVars, open, fresh, below, said, heal>>

PlaceAnswer ==
  /\ \/ Goto("place", "opening")
     \/ Goto("replace", "top")
  /\ below' = {}
  /\ UNCHANGED <<cancelled, mail, callVars, open, fresh, said, heal>>

(* A query of the database or every attempt to get an answer has failed;   *)
(* /compact may fail with its marker in the session already.               *)
Fail ==
  /\ at \in {"start", "place", "opening", "replace", "waiting", "retried", "answer",
            "closing"}
  /\ at' = "failed"
  /\ below' \in IF at = "opening" THEN {below, {"marker"}} ELSE {below}
  /\ UNCHANGED <<cancelled, mail, callVars, open, fresh, said, heal>>

(* /compact ends the turn without a request of its own.                    *)
ManualCompact ==
  /\ Goto("opening", "compacted")
  /\ below' \in {below, {"marker"}}
  /\ said' = TRUE
  /\ UNCHANGED <<cancelled, mail, callVars, open, fresh, heal>>

-----------------------------------------------------------------------------
(* enforce_context_budget: at the beginning, before each request and after *)
(* the tools of a response.                                                *)

AfterBudget == [opening |-> "top", checked |-> "ask", settled |-> "between"]

BudgetKept ==
  /\ at \in DOMAIN AfterBudget
  /\ at' = AfterBudget[at]
  /\ UNCHANGED <<cancelled, mail, callVars, open, fresh, below, said, heal>>

(* The marker of a summary becomes a row, unless the database refuses,     *)
(* which is only logged.                                                   *)
MayMark == below' \in {below, below \cup {"marker"}}

(* The summary replaces all messages.  It quotes the last eight of them, a *)
(* follow-up that was just taken among them, so that what is fresh stays   *)
(* for the next request to carry (apply_compaction_summary).               *)
Compact ==
  /\ at \in DOMAIN AfterBudget
  /\ at' = AfterBudget[at]
  /\ open' = {}
  /\ MayMark
  /\ UNCHANGED <<cancelled, mail, callVars, fresh, said, heal>>

-----------------------------------------------------------------------------
(* The head of the loop and the request.                                   *)

(* Mutation: the token is not looked at before a request.                  *)
LoopTop_Unchecked ==
  /\ Goto("top", "checked")
  /\ UNCHANGED <<cancelled, mail, callVars, open, fresh, below, said, heal>>

LoopTop ==
  /\ Goto("top", IF cancelled THEN "closing" ELSE "checked")
  /\ UNCHANGED <<cancelled, mail, callVars, open, fresh, below, said, heal>>

(* The active provider, a chain that other turns may share, moves on along *)
(* its fallbacks by itself when one fails.                                 *)
Request ==
  /\ Goto("ask", "waiting")
  /\ \E left \in 0 .. heal.fallbacks : heal' = [heal EXCEPT !.fallbacks = left]
  /\ fresh' = {}
  /\ calls' = 0
  /\ sensitive' = {}
  /\ current' = 1
  /\ results' = {}
  /\ outputs' = <<>>
  /\ approval' = [approval EXCEPT !.granted = {}]
  /\ UNCHANGED <<cancelled, mail, open, below, said>>

(* The prompt is too long: the messages are summarised or, failing that,   *)
(* cut to the last of them, and the request is made once more.  (The row   *)
(* about a cut is neither a question nor a marker to load from.)           *)
EmergencyCompact ==
  /\ Goto("waiting", "retried")
  /\ MayMark
  /\ UNCHANGED <<cancelled, mail, callVars, open, fresh, said, heal>>

(* A provider that is pinned is wrapped with the other fallbacks into a    *)
(* new chain (swap_provider_for_session), which starts afresh.             *)
PinOrRestore ==
  \E left \in {heal.fallbacks} \cup 0 .. Fallbacks - 1 :
    heal' = [heal EXCEPT !.fallbacks = left]

(* The request fails and the fallbacks are asked one after the other; the  *)
(* one that answers stays or gives the place back.                         *)
Rescue ==
  /\ Fallbacks > 0
  /\ Goto("waiting", "retried")
  /\ PinOrRestore
  /\ UNCHANGED <<cancelled, mail, callVars, open, fresh, below, said>>

Waiting == at \in {"waiting", "retried"}

(* A response recounts the tokens, and the messages, all of which have     *)
(* been sent, may be summarised before anything else is done with it.      *)
Calibrate == IF Waiting THEN MayMark ELSE below' = below

(* stream_complete returns without a stop reason: the connection broke, or *)
(* the token fired.                                                        *)
StreamDrops ==
  /\ Waiting
  /\ at' = "dropped"
  /\ Calibrate
  /\ UNCHANGED <<cancelled, mail, callVars, open, fresh, said, heal>>

(* What has arrived so far is kept when the user has cancelled.            *)
SavePartial ==
  /\ cancelled
  /\ Goto("dropped", "closing")
  /\ said' \in {said, TRUE}
  /\ UNCHANGED <<cancelled, mail, callVars, open, fresh, below, heal>>

RetryStream ==
  /\ ~cancelled
  /\ heal.drops < MaxStreamRetries
  /\ Goto("dropped", "top")
  /\ heal' = [heal EXCEPT !.drops = @ + 1]
  /\ UNCHANGED <<cancelled, mail, callVars, open, fresh, below, said>>

(* Mutation: the answer of force_next_fallback is ignored.                 *)
FallbackAfterDrops_Unguarded ==
  /\ ~cancelled
  /\ heal.drops = MaxStreamRetries
  /\ Goto("dropped", "top")
  /\ heal' = [heal EXCEPT !.drops = 0, !.fallbacks = @ - 1]
  /\ UNCHANGED <<cancelled, mail, callVars, open, fresh, below, said>>

FallbackAfterDrops ==
  /\ ~cancelled
  /\ heal.drops = MaxStreamRetries
  /\ heal.fallbacks > 0
  /\ Goto("dropped", "top")
  /\ heal' = [heal EXCEPT !.drops = 0, !.fallbacks = @ - 1]
  /\ UNCHANGED <<cancelled, mail, callVars, open, fresh, below, said>>

(* Whether the stream completed, or broke once too often and is accepted   *)
(* as it is.                                                               *)
Accepted ==
  \/ Waiting
  \/ /\ at = "dropped"
     /\ ~cancelled
     /\ heal.drops = MaxStreamRetries
     /\ heal.fallbacks = 0

(* A response without tool calls.  Its text goes to the row, unless it     *)
(* only narrates calls.                                                    *)
AnswersText ==
  /\ Accepted
  /\ at' = "text"
  /\ said' \in {said, TRUE}
  /\ Calibrate
  /\ heal' = [heal EXCEPT !.drops = 0]
  /\ UNCHANGED <<cancelled, mail, callVars, open, fresh>>

(* A response with n calls, S of which need approval; `same` is whether    *)
(* they equal the calls of the response before.                            *)
CallsTools(n, S, same) ==
  /\ Accepted
  /\ at' = "calls"
  /\ calls' = n
  /\ sensitive' = S
  /\ said' \in {said, TRUE}
  /\ Calibrate
  /\ heal' = [heal EXCEPT !.drops = 0,
                          !.repeats = IF ~same THEN 1
                                      ELSE IF @ < LoopThreshold THEN @ + 1 ELSE @]
  /\ UNCHANGED <<cancelled, mail, current, results, outputs, approval, open, fresh>>

-----------------------------------------------------------------------------
(* A response without tool calls: first the queue, then the branches that  *)
(* send the model back to work, in the order of the code, then the end.    *)

Queued == {m \in FollowUps : mail[m] = "queued"}

(* Mutation: the follow-up is answered in the row of the first question.   *)
TakeFollowUps_SameRow(from) ==
  /\ Goto(from, "top")
  /\ Queued # {}
  /\ mail' = [m \in FollowUps |-> IF m \in Queued THEN "taken" ELSE mail[m]]
  /\ fresh' = fresh \cup Queued
  /\ below' \in {below, below \cup {"user"}}
  /\ UNCHANGED <<cancelled, callVars, open, said, heal>>

(* Mutation: the turn ends with the response that is at hand.              *)
TakeFollowUps_End(from) ==
  /\ Goto(from, IF from = "text" THEN "answer" ELSE "replace")
  /\ Queued # {}
  /\ mail' = [m \in FollowUps |-> IF m \in Queued THEN "taken" ELSE mail[m]]
  /\ fresh' = fresh \cup Queued
  /\ below' \in {below, below \cup {"user"}}
  /\ UNCHANGED <<cancelled, callVars, open, said, heal>>

(* The queue is drained into one message; that its row may be refused is   *)
(* ignored.                                                                *)
TakeFollowUps(from) ==
  /\ Goto(from, "replace")
  /\ Queued # {}
  /\ mail' = [m \in FollowUps |-> IF m \in Queued THEN "taken" ELSE mail[m]]
  /\ fresh' = fresh \cup Queued
  /\ below' \in {below, below \cup {"user"}}
  /\ UNCHANGED <<cancelled, callVars, open, said, heal>>

(* The text narrates tool calls.  `stuck` is whether it repeats itself.    *)
SwapProvider(stuck) ==
  /\ ~heal.swapped
  /\ \/ heal.phantom = MaxPhantomRetries
     \/ stuck /\ heal.phantom >= MaxPhantomRetries \div 2
  /\ heal.fallbacks > 0

PhantomNudge(stuck) ==
  /\ Queued = {}
  /\ Goto("text", "top")
  /\ heal' = CASE SwapProvider(stuck) ->
                    [heal EXCEPT !.swapped = TRUE, !.phantom = 0, !.fallbacks = @ - 1]
               [] ~SwapProvider(stuck) /\ heal.phantom < MaxPhantomRetries ->
                    [heal EXCEPT !.phantom = @ + 1]
               [] OTHER -> [heal EXCEPT !.phantom = 0]
  /\ UNCHANGED <<cancelled, mail, callVars, open, fresh, below, said>>

(* Mutation: the nudge for reasoning without an answer is not counted.     *)
EmptyNudge_Uncounted ==
  /\ Queued = {}
  /\ heal.empty < MaxEmptyNudges
  /\ Goto("text", "top")
  /\ UNCHANGED <<cancelled, mail, callVars, open, fresh, below, said, heal>>

EmptyNudge ==
  /\ Queued = {}
  /\ heal.empty < MaxEmptyNudges
  /\ Goto("text", "top")
  /\ heal' = [heal EXCEPT !.empty = @ + 1]
  /\ UNCHANGED <<cancelled, mail, callVars, open, fresh, below, said>>

(* When the nudges are used up the fallbacks are asked for the answer, one *)
(* after the other; calls they make are dropped, and the one whose text is *)
(* taken, if any, is pinned.  That text goes to the user, not to the row.  *)
AskOthers ==
  /\ Queued = {}
  /\ heal.empty = MaxEmptyNudges
  /\ Fallbacks > 0
  /\ Goto("text", "others")
  /\ PinOrRestore
  /\ UNCHANGED <<cancelled, mail, callVars, open, fresh, below, said>>

(* The provider changed in the middle of the task, the text breaks off, an *)
(* analysis came back empty, or the browser only takes screenshots: each   *)
(* is answered once in a turn.  The queue is not looked at again after the *)
(* fallbacks were asked.                                                   *)
OneShotNudge(shot) ==
  /\ shot \notin heal.used
  /\ \/ shot = "screenshot" /\ at = "calls"
     \/ shot # "screenshot" /\ at = "text" /\ Queued = {}
     \/ shot \in {"truncation", "analysis"} /\ at = "others"
  /\ at' = "top"
  /\ calls' = 0
  /\ heal' = [heal EXCEPT !.used = @ \cup {shot}]
  /\ UNCHANGED <<cancelled, mail, sensitive, current, results, outputs, approval,
                 open, fresh, below, said>>

FinalText ==
  /\ \/ Queued = {} /\ at = "text"
     \/ at = "others"
  /\ at' = "answer"
  /\ UNCHANGED <<cancelled, mail, callVars, open, fresh, below, said, heal>>

-----------------------------------------------------------------------------
(* A response with tool calls.                                             *)

(* The same calls for the last time: the response ends the turn and they   *)
(* are not performed.                                                      *)
LoopDetected ==
  /\ Goto("calls", "answer")
  /\ heal.repeats = LoopThreshold
  /\ calls' = 0
  /\ UNCHANGED <<cancelled, mail, sensitive, current, results, outputs, approval,
                 open, fresh, below, said, heal>>

BeginCalls ==
  /\ Goto("calls", "next")
  /\ heal.repeats < LoopThreshold
  /\ UNCHANGED <<cancelled, mail, callVars, open, fresh, below, said, heal>>

CallsDone ==
  /\ cancelled \/ current > calls
  /\ Goto("next", "block")
  /\ UNCHANGED <<cancelled, mail, callVars, open, fresh, below, said, heal>>

NeedsApproval == current \in sensitive /\ ~approval.always

BeginCall ==
  /\ ~cancelled
  /\ current <= calls
  /\ Goto("next", IF NeedsApproval THEN "approval" ELSE "select")
  /\ said' = TRUE
  /\ UNCHANGED <<cancelled, mail, callVars, open, fresh, below, heal>>

(* The loop goes on with the next call, this one having a result.          *)
ResultOf(c) ==
  /\ results' = results \cup {c}
  /\ outputs' = Append(outputs, c)
  /\ current' = c + 1

(* The approval callback is awaited without an eye on the token.  A third  *)
(* answer approves all later calls of the turn.                            *)
Approved(always) ==
  /\ Goto("approval", "select")
  /\ approval' = [always |-> always, granted |-> approval.granted \cup {current}]
  /\ UNCHANGED <<cancelled, mail, calls, sensitive, current, results, outputs,
                 open, fresh, below, said, heal>>

(* Mutation: a refused call leaves no output for the row.                  *)
Denied_NoOutput ==
  /\ Goto("approval", "next")
  /\ results' = results \cup {current}
  /\ current' = current + 1
  /\ UNCHANGED <<cancelled, mail, calls, sensitive, outputs, approval, open, fresh,
                 below, said, heal>>

(* Mutation: a refused call leaves no result for the model.                *)
Denied_NoResult ==
  /\ Goto("approval", "next")
  /\ outputs' = Append(outputs, current)
  /\ current' = current + 1
  /\ UNCHANGED <<cancelled, mail, calls, sensitive, results, approval, open, fresh,
                 below, said, heal>>

(* Denied, timed out, or nobody to ask.                                    *)
Denied ==
  /\ Goto("approval", "next")
  /\ ResultOf(current)
  /\ UNCHANGED <<cancelled, mail, calls, sensitive, approval, open, fresh,
                 below, said, heal>>

(* Mutation: the select is not biased towards the token.                   *)
StartTool_Unbiased ==
  /\ Goto("select", "running")
  /\ UNCHANGED <<cancelled, mail, callVars, open, fresh, below, said, heal>>

StartTool ==
  /\ ~cancelled
  /\ Goto("select", "running")
  /\ UNCHANGED <<cancelled, mail, callVars, open, fresh, below, said, heal>>

ToolReturns(success) ==
  /\ ~cancelled
  /\ Goto("running", "next")
  /\ ResultOf(current)
  /\ heal' = IF success THEN [heal EXCEPT !.phantom = 0] ELSE heal
  /\ UNCHANGED <<cancelled, mail, calls, sensitive, approval, open, fresh, below, said>>

(* select! drops the call and the loop over the calls is left.             *)
ToolCancelled ==
  /\ cancelled
  /\ at \in {"select", "running"}
  /\ at' = "block"
  /\ UNCHANGED <<cancelled, mail, callVars, open, fresh, below, said, heal>>

(* The outputs go to the row, the calls and the results to the context.    *)
SettleCalls ==
  /\ Goto("block", "settled")
  /\ open' = (1 .. calls) \ results
  /\ UNCHANGED <<cancelled, mail, callVars, fresh, below, said, heal>>

NothingQueued ==
  /\ Queued = {}
  /\ Goto("between", "top")
  /\ UNCHANGED <<cancelled, mail, callVars, open, fresh, below, said, heal>>

-----------------------------------------------------------------------------
(* The end: usage is recorded and the response returned; a loop that broke *)
(* off returns the text it has, or an error.                               *)

Finish ==
  /\ Goto("answer", "answered")
  /\ UNCHANGED <<cancelled, mail, callVars, open, fresh, below, said, heal>>

FinishPartial ==
  /\ said
  /\ Goto("closing", "partial")
  /\ UNCHANGED <<cancelled, mail, callVars, open, fresh, below, said, heal>>

-----------------------------------------------------------------------------
LoopStep ==
  \/ RecordPrompt
  \/ PlaceAnswer
  \/ Fail
  \/ ManualCompact
  \/ BudgetKept
  \/ Compact
  \/ LoopTop
  \/ Request
  \/ EmergencyCompact
  \/ Rescue
  \/ StreamDrops
  \/ SavePartial
  \/ RetryStream
  \/ FallbackAfterDrops
  \/ AnswersText
  \/ \E n \in Calls, S \in SUBSET Calls, same \in BOOLEAN :
       S \subseteq 1 .. n /\ CallsTools(n, S, same)
  \/ \E from \in {"text", "between"} : TakeFollowUps(from)
  \/ \E stuck \in BOOLEAN : PhantomNudge(stuck)
  \/ EmptyNudge
  \/ AskOthers
  \/ \E shot \in OneShots : OneShotNudge(shot)
  \/ FinalText
  \/ LoopDetected
  \/ BeginCalls
  \/ CallsDone
  \/ BeginCall
  \/ \E always \in BOOLEAN : Approved(always)
  \/ Denied
  \/ StartTool
  \/ \E success \in BOOLEAN : ToolReturns(success)
  \/ ToolCancelled
  \/ SettleCalls
  \/ NothingQueued
  \/ Finish
  \/ FinishPartial

Done == at \in Over /\ UNCHANGED vars

Next ==
  \/ LoopStep
  \/ Cancel
  \/ \E m \in FollowUps : Enqueue(m)
  \/ Done

Spec == Init /\ [][Next]_vars

(* The task of the turn is polled until it is done; answers, tools and the *)
(* user's consent are awaited with a timeout.                              *)
FairSpec == Spec /\ WF_vars(LoopStep)

-----------------------------------------------------------------------------
TypeOK ==
  /\ at \in Places
  /\ cancelled \in BOOLEAN
  /\ mail \in [FollowUps -> {"unsent", "queued", "taken"}]
  /\ calls \in 0 .. MaxCalls
  /\ sensitive \subseteq Calls
  /\ current \in 1 .. MaxCalls + 1
  /\ results \subseteq Calls
  /\ outputs \in Seq(Calls)
  /\ approval \in [always : BOOLEAN, granted : SUBSET Calls]
  /\ open \subseteq Calls
  /\ fresh \subseteq FollowUps
  /\ below \subseteq {"user", "marker"}
  /\ said \in BOOLEAN
  /\ heal \in Heals

(* Every request the model gets has a result for each of its calls, also   *)
(* after calls that were refused, failed or cancelled half way: providers  *)
(* reject a conversation with a call left open.                            *)
RequestsAreComplete == at \in {"waiting", "retried", "others"} => open = {}

(* The zip of descriptions and outputs pairs each call with its own output *)
(* whatever was denied, failed or interrupted before it.                   *)
OutputsMatchCalls == \A i \in DOMAIN outputs : outputs[i] = i

(* No tool begins after the user has cancelled, even when the approval it  *)
(* was waiting for is given afterwards, and none that needs approval       *)
(* without it.                                                             *)
NothingRunsUnasked ==
  [][at # "running" /\ at' = "running"
       => ~cancelled /\ (current \in sensitive => current \in approval.granted
                                                    \/ approval.always)]_vars

(* A turn that ends with an answer has put every follow-up it took to the  *)
(* model: none is taken from the queue and left without a request.         *)
AnswerCoversFollowUps == at = "answered" => fresh = {}

(* Text is written to a row that no user message follows, so that a reply  *)
(* never stands above its question ("causing the reply to appear ABOVE the *)
(* user's message in the DB").                                             *)
AnswerBelowQuestion ==
  at \in {"text", "calls", "block"} => "user" \notin below

(* A cancelled turn ends: whichever await the token finds it in, and       *)
(* although approvals are awaited without an eye on it.                    *)
CancelEndsTurn == cancelled ~> at \in Over

(* Self-healing cannot go on for ever by itself: a turn ends unless, again *)
(* and again, the model calls tools or narrates them or a rescue pins a    *)
(* fresh chain of fallbacks, which the code lets them do until the user    *)
(* cancels.                                                                *)
Refilled == heal'.fallbacks > heal.fallbacks

OnlyCallsNarrationAndRescues ==
  <>(at \in Over) \/ []<><<\/ at' = "calls"
                            \/ \E stuck \in BOOLEAN : PhantomNudge(stuck)
                            \/ Refilled>>_vars

(* What an observer of the tool calls sees of the loop.                    *)
Unsettled == (1 .. calls) \ results

TurnPhase ==
  IF at \in Over \cup {"answer", "closing"} THEN "over"
  ELSE IF at \in Acting \/ (at # "calls" /\ Unsettled # {}) THEN "acting" ELSE "asking"

Observed == INSTANCE Turn
  WITH phase <- TurnPhase,
       open <- IF TurnPhase = "acting" THEN Unsettled ELSE {},
       running <- IF at = "running" THEN {current} ELSE {}

TurnSpec == Observed!Spec

-----------------------------------------------------------------------------
(* tool_loop.rs: "Persist compaction marker to DB so restarts load from    *)
(* this point".  The next turn loads the rows from the last marker on, and *)
(* so should find the answer there.  The code does not keep it.            *)
AnswerBehindMarker == at = "answered" => "marker" \notin below
=============================================================================
