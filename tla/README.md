# StemCell: a TLA+ verification project

StemCell is an AI agent written in Rust: a tool loop around a language model,
reached through a terminal, messengers, an A2A endpoint and a scheduler.  This
directory holds TLA+ modules of the parts of it that run concurrently, the TLC
configurations that check them on small instances, and TLAPS proofs that hold
for every instance.  Source paths are those of the repository, whose crate
lives in `src/`; they are abbreviated to the file name where it is unambiguous.

Check a module with `tlc -config <cfg> <module>`, a proof with
`tlapm <module>Proofs.tla`.  `PROJECT.json` lists every run with its
properties, the source lines each definition stands for, for each property a
mutation of the model that breaks it, the findings, the hazards and the
theorems.

## 1. The system and its parts

### Sub-agent runtime (`brain/tools/subagent`): modelled

*State.*  The table `SubAgentManager.agents` behind one `RwLock` (state,
cancellation token, input sender and output of each child), one tokio task per
run of a child, the input channel between the two, and a status file per child.
*Operations.*  `spawn_agent`, `wait_agent`, `send_input`, `close_agent`,
`resume_agent`, and the member loops of `team_create`, `team_delete` and
`team_broadcast`.  *Interaction.*  One manager is shared by all sessions of the
process; a child works on a session of its own through the agent service.
*Hard.*  Every tool takes the lock several times per call and decides on what
an earlier acquisition showed, tasks run on their own, a task is started before
its entry exists, and a resume replaces token and channel.  *Correct when* one
task at a time works on a child's session, a cancelled or removed child stops,
states and outputs are those of the current run, accepted input is not lost,
and the status file is never ahead of the task nor, unless a write failed,
behind the table.

### Provider fallback chain (`brain/provider/fallback.rs`): modelled in part

*State.*  The atomic index `active` and one slot `pending_swap`, shared by the
turns of all sessions that use the chain.  *Operations.*  `complete` and
`stream` (load the index, ask the provider, walk the fallbacks, `promote`),
`force_next_fallback`, `take_swap_event`.  *Interaction.*  The tool loop calls
it, collects the swap event after every answer and forces a fallback when
streams keep dropping; a stream may break off after `stream` has promoted, and
then the loop's arm of errors asks again.  *Hard.*  Several loads of one atomic
per request, and index and event updated under different synchronisation.
*Correct when* the index stays in the chain, a dead primary is not used again, a
request fails only when the chain is exhausted, the last event the user sees
names the active provider, and a turn ends.

### A2A gateway (`a2a/handler`, `a2a/persistence.rs`, `a2a/server.rs`): tasks modelled

*State.*  The task store and the store of cancellation tokens, each behind a
`RwLock`, the table `a2a_tasks`, and one background process per task.
*Operations.*  `message/send`, `message/stream`, `tasks/get`, `tasks/cancel`,
warm start.  *Interaction.*  A process creates a session and runs the agent
service.  *Hard.*  `tasks/cancel` takes the two locks one after the other while
the process registers and removes its token and writes its verdict; a client
may hang up at any await; a crash loses stores and processes but not the table;
upserts and the load of the warm start may fail.  *Correct when* a process ends
once its agent does, tokens are cleaned up, final events hold, cancelled stays
cancelled, the table keeps what clients were told, and what has ended stays so.

### Agent tool loop (`brain/agent/service/tool_loop.rs`): modelled in part

*State.*  The context (messages with calls and results), the rows of the
session, the results and outputs of the calls at hand, the accumulated text and
a dozen counters of self-healing branches.  *Operations.*  Record the prompt and
the placeholder of the answer, then loop: check the budget, compact, ask the
model, retry a dropped stream, nudge an empty or phantom answer, run the tool
calls with approvals, take queued follow-ups, append to the answer.
*Interaction.*  Providers through the fallback chain and the session's pin;
the interface through the queue of follow-ups, approvals, events and the
cancellation token; the database through the rows.  *Hard.*  The user may cancel
at any await, queue messages at any moment and decide late about approvals;
every retry restarts the loop and resets some counters; results and
descriptions are paired by position; rows are ordered by time but one is
written to later.  *Correct when* no request leaves a tool call without its
result, outputs belong to their calls, nothing runs unasked or after a
cancellation, every follow-up is put to the model, the answer stands below what
it answers, and a turn ends.

### Session providers (`brain/agent/service/builder.rs`, arms of `tool_loop.rs`, `tui/app/state.rs`): modelled in part

*State.*  For each `AgentService` a default chain, the pin of each session to a
provider and the streak of failures of its own provider; the provider in the
row of the session; a queue of `ProviderSwitched` events.  *Operations.*  Five
arms of the loop borrow or replace the pin to rescue a request; three failures
in a row make the replacement stick; the interface restores pins when it shows a
session, stores announced switches, and replaces the whole service when the
user picks a provider.  *Hard.*  A candidate comes
wrapped in a chain of its own, which may move on; a turn may be dropped while a
pin is borrowed;
the service is replaced under the turns at work; an announced switch is handled
later.  *Correct when* a borrowed provider is given back whatever happens.

### Terminal interface and pending requests (`tui/app`, `cli/ui.rs`, `db/repository/pending_request.rs`): sessions modelled

*State.*  The session on the screen with its spinner, token and abort handle;
the set of sessions at work; stashed tokens, sidecars and queues of the others;
one channel of events; the table `pending_requests`.  *Operations.*  Send,
queue, take back, Escape, switch, new session, each event, restart and resume of
interrupted requests.  *Interaction.*  Turns run as tasks of their own, drain
the queue of their session and report events in any interleaving.  *Hard.*  Four
places know whether a session is at work; a single handle and token stand for
whatever session is shown; a restart takes up what the table holds while the
user may already type; statements on the table fail and turns panic.  *Correct
when* every turn at work is in the table unless its insert failed, what else is
in it is of turns that were cut off, a message is held once and stays in its
session, Escape reaches the session on the screen, and a session marked at work
has a task.

### Cron scheduler (`cron/scheduler.rs`, `db/repository/cron_job.rs`): modelled in part

*State.*  A row per job (`next_run_at`, `last_run_at`, enabled), the `now` of a
tick, one sleep.  *Operations.*  The tick: list the due jobs, and for each
compute the next instant, update the row and start the run; add, remove, enable,
disable and trigger, from the agent's tool or another process.  *Hard.*
Ticks drift, a crash or a failed statement may fall between any two statements,
and a command writes the row between its listing and its update.  *Correct when*
an instant a job waited for starts one run, and a due job is not kept waiting.

### Parts not modelled

| part | state | operations, and what is hard about them | correct when |
|---|---|---|---|
| Context budget, `brain/agent/context.rs`, `service/compaction.rs` | messages with token counts | thresholds at 65, 80, 90 %, up to 3 compactions, then hard truncation | the request fits; results keep their calls |
| Retry, `brain/provider/retry.rs` | attempt counter, last error | which errors are retried, which is returned | attempts stay bounded |
| Provider health, `config/health.rs` | one JSON file behind a cache and a lock | clone, change, write back under separate acquisitions | no outcome is lost |
| Teams, `subagent/team` | team table over the child table | partial creation, deletion racing broadcast | no member outlives its team |
| Session of a chat, `channels/session_resolve.rs` | sessions in the database | look up, then create, by two messages of one chat | one session per chat |
| Configuration watcher, `utils/config_watcher.rs` | debounced file events | callbacks of two reloads overtaking one another | the last configuration wins |
| Startup jobs, `startup/registry.rs` | status per job | panics, order | every job ends in a final status |
| Hashline edits, `brain/tools/hashline` | a file as lines with hashes | several edits against lines of the original | edits apply where meant |

Section 6 says why, and lists the parts that are not meant to be modelled.

## 2. Modules

| module | models | relation |
|---|---|---|
| `SubAgents` | the sub-agent runtime | implements `SessionLease` |
| `SessionLease` | abstract: what the owner of a child's session is promised | |
| `FallbackProvider` | the fallback chain under overlapping turns | |
| `MCFallback` | what the index did between two loads, and what users were told | extends `FallbackProvider` |
| `A2ATasks` | the life of A2A tasks | implements `TaskLife` |
| `TaskLife` | abstract: what a client of the gateway is promised | |
| `ToolLoop` | one turn of the agent | implements `Turn` |
| `Turn` | abstract: what whoever starts a turn is promised | |
| `SessionProvider` | the pins of sessions, the rescues and the switches | its pins stand for chains, which are `FallbackProvider` |
| `ChatSessions` | the sessions of the interface and the pending requests | implements `Mailbox`; its turns stand for `ToolLoop` |
| `Mailbox` | abstract: what the user is promised for queued messages | |
| `MCChatSessions` | the symmetry of sessions, turns and messages | extends `ChatSessions` |
| `CronScheduler` | the scheduler over the rows of its jobs | implements `JobRuns` |
| `JobRuns` | abstract: what the owner of a job is promised | |
| `MCCron` | two schedules | extends `CronScheduler` |
| `*Proofs` | theorems | extend the module they name |

### SubAgents

A step is what the code does under one acquisition of the table's lock, or
between two of them.  `state`, `token`, `inputTx`, `output` are the fields of
`SubAgent`; a token and a channel are named by the run (`spawn_agent`, then each
`resume_agent`) they were created for, an output by the run that wrote it, a
queue by its length.  `task[a][r]` is the program counter of the tokio task of
run `r`, `call[c]` that of a tool call.  `file[a]` is the state in the status
file, and whether its last write failed: the task drops the errors of its two
final writes (`spawn.rs:330`, `337`) and logs those of the others, and goes on
in either case.

| code | actions |
|---|---|
| `spawn_agent`, `team_create` member | `SpawnTask` (file, `tokio::spawn`), `SpawnInsert` |
| the task loop | `TaskStart` or `TaskPanics`, `RoundEnds`, `UpdateOutput`, `MarkAwaitingInput`, `ReceiveInput` or `ReceiveNothing`, `MarkRunningAgain`, `WriteFinalStatus`, `MarkCompleted` or `MarkFailed` |
| `send_input` | `SendCheck`, `SendGetTx`, `SendMessage` |
| `team_broadcast` member | `BroadcastGetTx`, `SendMessage` |
| `close_agent` | `CloseCheck`, `CloseCancel`, `CloseRemove` |
| `team_delete` member | `TeamDeleteCancel` |
| `resume_agent` | `ResumeCheck`, `ResumePrepare`, `ResumeSpawn` or `ResumeFails` |
| `wait_agent` | `WaitBegin`, `WaitSees`, `WaitOutput`, `WaitReturn` |

The differences between the loops are kept: only the task of `spawn_agent`
writes the status file and calls `mark_running_again`.  `select!` without
`biased` chooses freely between a fired token and queued input.  `recv` answers
`None` only when no sender is left, and a clone handed out by `get_input_tx`
counts as one.

Left out: panics of a task other than the `expect` of its prologue, the join
handle (stored, never awaited), `cleanup_stale`, clashes of the random ids, and
the search of a child by label, which only chooses the id.

`SessionLease` is what `SubAgents` implements: each child has a number of runs
issued and a set of runs that hold its session.  A run is issued only when
nobody holds the session, and releasing ends it for good.

### FallbackProvider

Provider 0 is the primary.  A step is one access to `active` or to
`pending_swap`, or one answer.  A turn's record is its program counter and the
locals of `complete`/`stream` and `promote`: `start` is `start_idx`, `current`
the provider asked or `new_idx`, `old` the `old_idx`; `tried` is a history
variable; `forced` tells a `promote` of `force_next_fallback`, after which the
loop asks again, from one of `complete` or `stream`.  `retries` counts the
attempts of the arms of errors and `drops` is `stream_retry_count`.  `Init` lets
the chain start anywhere, which is what `new_with_health` may choose.

| code | actions |
|---|---|
| `complete`, `stream` | `Begin`, `LoadStart`, `LoadActive`, `ActiveAnswers`, `ActiveRefuses`, `ActiveFails`, `FallbackAnswers`, `FallbackFails` |
| `promote` | `PromoteSwap`, `PromoteRecord` |
| `stream_complete` | `HandshakeTimesOut`, `StreamEnds`, `StreamBreaks`, `Leave` |
| the arms of errors | `RetryAfterError`, `Rescued`, `GiveUp` |
| after an answer | `TakeSwapEvent`, `AnswerUsed`, `RetryDropped`, `ForceNextFallback` |

A borrowed provider that answers in place of the chain (`Rescued`) is a chain of
its own for this module; `SessionProvider` has the pins.  `MCFallback` adds three
histories: `moved`, whether the index moved between the two loads of a request;
`crossed`, whether the last swap came before the event of another was recorded;
and `told`, the provider of the last event collected.  Left out: the remapping
of a request to a fallback's model, and the wording of events.

### A2ATasks

`store` and `db` hold the state of a task in memory and in `a2a_tasks`.
`worker[t]` is the place of the handler and then of the background process;
`token` and `fired` are the entry of the cancel store and the token the agent
listens to.  `cancel[c]` is a `tasks/cancel` call between its two locks.
`SetState` sets and upserts under the write lock.  Every upsert may fail, which
the code only logs; `lost[t]` remembers it for the properties.  `ClientGone`
and `CancelGone` are handlers dropped at an await when the connection closes; an
upsert they leave behind takes effect at once or never.  `Restart` empties
stores, processes and calls and loads what `load_active_tasks` selects, or less:
it skips rows it cannot parse, and returns nothing at all after an error.
`message/send` and `message/stream` differ in the final event and in the second
write of `send_final_status`.  Left out: messages, artifacts, status events
before the last, `tasks/get` (a read) and rejected parameters.

### ToolLoop

A step goes from one await of `run_tool_loop_inner` to the next; `at` names the
await or the branch.  The language model is free choice: it may call tools,
narrate calls it does not make, stop in the middle or answer.  `results` and
`outputs` are the two lists the code fills per call and zips with the
descriptions, `open` the calls of the context that have no result, `below` the
kinds of rows that follow the placeholder of the answer, `heal` the counters of
the self-healing branches, `fresh` a history variable: follow-ups in the context
that no request has carried.

| code | actions |
|---|---|
| the rows of a turn | `RecordPrompt`, `PlaceAnswer`, `Finish`, `FinishPartial`, `Fail` |
| `enforce_context_budget`, `/compact` | `BudgetKept`, `Compact`, `ManualCompact`; after a response part of its action (`Calibrate`) |
| head of the loop, request | `LoopTop`, `Request`, `StreamDrops`, `SavePartial`, `RetryStream`, `FallbackAfterDrops` |
| the arms of errors of a request | `EmergencyCompact`, `Rescue`, `Fail` |
| the response | `AnswersText`, `CallsTools` |
| branches after a text | `TakeFollowUps`, `PhantomNudge`, `EmptyNudge`, `AskOthers`, `OneShotNudge`, `FinalText` |
| loop detection | `LoopDetected` |
| the calls | `BeginCalls`, `BeginCall`, `Approved`, `Denied`, `StartTool`, `ToolReturns`, `ToolCancelled`, `CallsDone`, `SettleCalls`, `NothingQueued` |
| the user | `Cancel`, `Enqueue` |

`heal.fallbacks` is what is left of the chain of the active provider: a request
may use it up by itself, `force_next_fallback` takes one, and a provider that is
pinned by a rescue comes with a new chain (`swap_provider_for_session`).  A
summary quotes the last eight messages word for word, up to their first 500
bytes, so a follow-up that was just taken is still in the context
(`service/context.rs`); that a longer one is cut there is not modelled.

Left out: the branches of CLI providers, which run their own tools; which
fallback a rescue asks in which order and who has the pin meanwhile
(`SessionProvider`); the retries of one provider within an arm, which are three
and whose answer is that of the request; token counts, of which the choice
between the budget kept, a compaction and failure remains; the row about a hard
truncation, which is neither a question nor a marker; the text of nudges.

`Turn` is what `ToolLoop` implements: a turn asks, acts on the calls of one
response (each at most once, one at a time, every one with a result before the
next request) and is over once.

### SessionProvider

`pin[v][s]` is the entry of session `s` in `session_providers` of service `v`,
`streak` its failures, `row` the provider in its row.  Services are numbered in
the order the interface built them; a turn stays with the service it began in.
A pin to a default chain is the number of its service, since the chain is an
`Arc` that a pin shares.  `lender` is history: which service's guard is to take
the pin back; `moved` says that the chain of the pin has moved and its swap event
is still to be taken.

| code | actions |
|---|---|
| a request and its answer | `Start`, `Answer`, `AnswerSwitched`, `NoAnswer`, `GoOn` |
| the five arms of errors (quota, dropped stream, 5xx, other, silent) | `FirstTryFails`, `Retry`, `RetrySucceeds`, `RetriesFail`, `ContinuationFails`, `Walk`, `RescueSucceeds`, `RescueFails` |
| the chain a candidate is wrapped in (`swap_provider_for_session`, `fallback.rs`) | `Try`, `MovesOn`, `Refuses`, `TakeSwapEvent` |
| `FallbackProviderGuard`, cancellation | `Restored`, `Drop` |
| sticky fallback | `Sticks`, `Staying` |
| the interface | `Load`, `Switched`, `Store`, `Pin`, `PinFails`, `Rebuild` |

`turn[s].chain` is what the chain of a rescue's request may still ask.  The order
of the fallbacks is left open, in a walk as in a chain.  The chain of an ordinary
request moves on in the step of its answer: how it gets there, and a chain that
has moved on although the stream broke off, is `FallbackProvider`.

Left out: commands of remote channels, rows without a provider, the model name
that goes with a pin, the streak's reset on `/models` beyond the pin it sets.

### ChatSessions

`current`, `spinner`, `token`, `handle`, `processing`, `stash`, `sidecar`,
`queue` and `draft` are the fields of `App` the declarations name; `events` is
the channel of `TuiEvent`s, `rows` the table `pending_requests`.  A turn is
`starting` until its row is inserted, then `running`, or `unlisted` when the
insert failed, which is only logged; `leaving` once its row is deleted or the
delete failed (`kept`), `reported` once its event is sent, or `dead` when its task
was aborted or panicked.  `watched` are the turns with the task beside them that
reports a panic (`messaging.rs:2285`): those that were sent, not those that were
resumed or woken.  What a turn does in between is `ToolLoop`.

| code | actions |
|---|---|
| `send_message`, queueing, ↑, Escape twice | `Send`, `Enqueue`, `Dequeue`, `Escape` |
| switching sessions, Ctrl+N | `SwitchTo`, `NewSession` |
| a turn | `InsertRow`, `DrainQueue`, `DeleteRow`, `Report`, `Panic` |
| `handle_event` | `OnChunk`, `OnDrained`, `OnComplete`, `OnCompleteAfterCancel`, `OnCompleteBehind`, `OnError`, `OnResumed` |
| restart (`cli/ui.rs`) | `Restart`, `ReadRows`, `ClearRows`, `Resume`, `Initialize`, `InitializeAwake` |

Left out: processing events of remote channels, deletion of sessions, the
prompts of approvals, and the age of a row: one older than ten minutes is not
resumed, as if it were not there.

### CronScheduler

A step is one statement of the scheduler or of a command; time is explicit and
advances between steps, at most `Slack` while a tick is at work.  A cron
expression is the set of instants it names; `log[j]` is the history of the
started runs of job `j` with the instant each is for and why it started.

| code | actions |
|---|---|
| boot, the tick, the sleep | `Boot`, `List`, `NotDue`, `UpdateLastRun`, `Execute`, `EndTick`, `Fail` |
| the rows, from the tool or the command line | `Add`, `Remove`, `SetEnabled`, `TriggerNow` |
| the world | `Tick`, `Crash`, `Stop` (the end of the bounded time) |

Left out: what a run does after it has started (its own agent, its row in
`cron_job_runs`, the delivery of its answer), and a second interface on the
same database.

## 3. What the runs check

### Passing runs

| run | instance | properties |
|---|---|---|
| `subagents_shared` | 1 child, 2 callers, 2 runs, queue of 1, fair | `TypeOK`; `SingleLiveTask`: one task per child; `TokenReachesTask`: the token in the table is the live task's; `TerminalStateIsTrue`: finished means no task, cancelled means told; `OutputOfCurrentRun`; `NoSilentInputLoss`: a task that ends with input queued was cancelled; `FileLeadsTable`: whoever sees the verdict in the table finds it in the file, unless that write failed, and a verdict in the file is the task's; `UnwantedTasksEnd`: cancelled children stop, removed ones come to their end or to a round that goes on; `LeaseSpec` (refinement) |
| `fallback_shared` | 2 turns, 3 fallbacks, 1 retry after an error, 1 after a drop, fair | `TypeOK`; `LeftBehindForEver`: a provider the index and all requests in flight have passed stays passed; `PrimaryNeverReturns`; `ErrorMeansExhausted`: a request that fails has asked every provider from its first to the last; `LastWordNamesActive`: the last event names the active provider, however the stream of the swap ended; `TurnsEnd` |
| `a2a_tasks` | 1 task, 2 cancelling clients, 2 restarts, fair | `TypeOK`; `TokenWhileArmed`: a token is in the store exactly while its agent can be told to stop; `FinalEventIsFinal`; `TableFollowsStore`: the table holds what clients were told, also when a restart cannot load it; `EndedStaysEnded`: what is recorded as ended is never at work again; `StartedTaskEnds`: a process comes to its end or to an agent nobody has told to stop |
| `tool_loop` | 2 calls a response, 1 follow-up, 2 fallbacks, 1 retry of each kind, loop threshold 2, fair | `TypeOK`; `RequestsAreComplete`: no request leaves a call without a result; `OutputsMatchCalls`; `AnswerCoversFollowUps`; `AnswerBelowQuestion`; `NothingRunsUnasked`; `CancelEndsTurn`; `OnlyCallsNarrationAndRescues`: a turn that does not end calls or narrates tools or is rescued with a fresh chain for ever; `TurnSpec` (refinement) |
| `session_provider` | 2 sessions, 3 providers, 2 of them fallbacks, 1 replacement of the service, 2 requests, threshold 2 | `TypeOK`, with what holds of the guards; `NoLentPinLeft`: a borrowed provider serves its session, in the service of the rescue, only during the rescue |
| `chat_sessions` | 2 sessions, 3 turns, 1 message, 1 restart, 3 turns and faults together | `TypeOK`; `RowsFollowTurns`: turns at work are in the table unless their insert failed, a row is of a turn at work or of one that was cut off, and only such a session is resumed; `HeldOnce`; `TokensAtHome`: Escape reaches a turn of the session on the screen; `TakenAtHome`: a message goes to a turn of its session |
| `cron_jobs` | 2 jobs with instants {3, 5} and {4}, time to 7, a sleep of 2, a delay of 1, 1 crash, 1 failure, 2 commands | `TypeOK`; `NoRetrigger`: the instants a job waited for start one run each, in their order; `Punctual`: a due job waits no longer than a sleep and the statements around it |

*Bounds.*  Children share nothing but the lock, so one child with two callers
meets every interleaving of two tool calls and the tasks; two runs let a child
be cancelled, resumed and cancelled again, and the theorems do without the
bound.  Two turns suffice for each race of the chain, which is between two
requests; three fallbacks leave one between the ends, and one retry of each kind
follows on every other step.  A2A tasks share only
locks; one task with two clients and two restarts puts a cancellation on either
side of every step of its process and of a second warm start.  In the tool loop
two calls have a first, a middle and a last place to stop, two fallbacks leave one
for the chain a rescue pins, one retry of each
kind is exhausted and reset in combination with the others, and one follow-up
may come before, during and after every response.  In the session providers a
rescue has two candidates, one of which fails before the other, each with a chain
in which the other one is asked again, and a
replacement of the service falls before, during and after a rescue; a threshold
of two is reached by two requests.  In the chat two turns share one session while
a third runs in the other, and the restart finds each of them at any step; a
failed statement or a panic counts like a turn, so that two turns meet one of
these and one turn meets two.  Two
cron jobs make a tick that fails at the first and owes the second; the instant 5
follows 3 within the delays of one sleep.  All counters are bounded in guards by
the constants that the modules name as bounds.

*Fairness.*  Weak fairness of each task, turn or process, and of each tool call
that has begun: tokio polls what can run, a provider request is bounded by a
timeout and no lock is held across a wait for a peer.  A whole turn of an agent
is nothing that must come to an end: `tool_loop.rs:918` only warns at the limit
of iterations.  So the round of a child and the agent of an A2A task are fair
only once their token is fired, which is what `CancelEndsTurn` of `ToolLoop`
says of a turn.  In `ToolLoop` one weak fairness condition on the loop's own
steps, which counts on approvals to be answered: the approval callback gives up
after 120 seconds (`cli/ui.rs:265`).  Nothing is assumed of models, clients,
orchestrators, users or crashes.  In `SubAgents` no fairness between the
branches of `select!` is assumed; a cancelled task stops all the same because
nobody is able to keep its queue filled: `cancel` drops the table's sender, and
with it what `send_input` and `team_broadcast` would fetch.  `SessionProvider`,
`ChatSessions` and `CronScheduler` state no fairness; `Punctual` bounds delays
by explicit time instead.

*Deadlock* is checked except in the chat, which waits for its user, and in the
session providers, where the bound on requests lets the system stop.
`AllGone`, `AllUsed`, `Done` and `Stop` are the idle loops of instances whose
pool of ids or time is used up.

### Runs that refute a comment, a doc or a test

Each checks one statement of the repository that the code does not keep; the
quoted lines are in `PROJECT.json`.

| statement | what happens |
|---|---|
| a cancelled child cannot be resumed (`resume.rs`, `subagent_test.rs`) | its task ends, `mark_completed` overwrites `Cancelled`, and `resume_agent` accepts it |
| `tasks/cancel` cancels the task (`tasks.rs`) | the verdict of the process overwrites `Canceled` |
| a compaction marker lets restarts "load from this point" (`tool_loop.rs`) | the answer of the turn stands in a row above the marker, and the next turn loads without it |
| `processing_sessions` have a task in flight (`state.rs`) | the one abort handle belonged to another session, which stays marked for ever, its messages queued for nobody |
| the next run is computed first "so we don't re-trigger" (`scheduler.rs`) | a new job runs up to a minute before its first instant, and again at it |

### Other departures, present in the models' behaviours

They were met while modelling and have no run of their own.

*Sub-agents.*  A round of a child that ends before `insert` loses its output
(`spawn.rs:342`).  The loops of `resume_agent` and `team_create` take input
without `mark_running_again`, so the child works while it is reported paused
(`resume.rs:265`).  Resumed runs never write the status file (`resume.rs:222`).
A final write that fails leaves a finished child "Running" in its file for good,
without a word in the log (`spawn.rs:330`, `337`); a prologue that panics leaves
it "Running" in the table (`spawn.rs:251`).  A child that is removed while it
works, without having been cancelled, goes on for as long as its round does, out
of everybody's reach. A child whose provider could not be built after
`prepare_resume` is reported as running without a task (`resume.rs:157`).  A
`resume_agent` of another session between check and remove of `close_agent`
leaves a task at work for a moment outside the table, until its dropped input
channel ends it.

*Fallback chain.*  Among overlapping turns `active` may move back, a request may
ask one provider twice or fail without having asked the one that was active when
it began, an event may be taken or overwritten by another turn, and after two
promotes that overlapped the last event may not name the active provider
(`fallback.rs:126`, `154`, `219`, `tool_loop.rs:2291`).  The event of a swap whose
stream then broke off stays in the slot until some later answer collects it
(`helpers.rs:281`), and is told to nobody if none comes.

*A2A.*  A task restored after a crash is `Working` with nobody at work on it
(`server.rs:111`).  A restart that cannot read the table comes up without any
task and says so only in the log (`persistence.rs:62`); a later one brings them
back.  `tasks/cancel` before the token is registered lets the agent run on.

*Tool loop.*  Providers that drop and fail in turn may be rescued without end:
every rescue that sticks pins a chain that has not been used
(`builder.rs:546`), so that the retries of dropped streams begin anew.  The
answer a fallback gives after the empty nudges is shown to the user but not
appended to the row, nor to the text of the turn (`tool_loop.rs:3719`).

*Chat.*  A turn that is aborted leaves its request row, so a restart within ten
minutes resumes what the user cancelled, although "rows only exist while a
request is PROCESSING" (`pending_request.rs:4`); so does a turn that
panics, and one whose delete failed although it was answered.  A request older
than that is dropped.  If `clear_all` fails, what is resumed now is resumed again
by the next restart (`ui.rs:659`).  Turns that are resumed or woken have nobody who
tells of a panic: their session stays in `processing_sessions`.
`QueuedUserMessage` clears the whole queue, with what was queued since the drain
(`state.rs:2489`); errors and completions in the background leave the queue to
the next turn.  Showing a session overrides `is_processing` from its sidecar,
which a chunk may have created with the spinner off (`state.rs:1094`): after
Ctrl+N during a turn and a switch back, `ResponseComplete` finds
`is_processing` false, only reloads (`state.rs:2080`), and the session stays in
`processing_sessions`.
After an `exec()` restart the wake-up turn and the resumed turn may run in one
session.  A dequeue overwrites the input buffer.

*Cron.*  `Punctual` says that a due job is picked up, not that it runs, and both
properties are silent on a trigger that falls between the listing of a tick and
its update of the row: the update overwrites it (`scheduler.rs:121`), after
which nothing waits.  The clock of the model never goes back, which `Utc::now`
may.  A crash between `update_last_run` and the start loses the run.  While no
cron session can be created due jobs are consumed and not run
(`scheduler.rs:126`).  The first instant of a job that never ran may fall
between two drifting ticks.  `cli/cron.rs:99` promises a run "within 60s" to
jobs that wait for their instant; `README.md:2539` gives "each job" a session
although all share one.  Runs of one job overlap, and two interfaces on one
database both fire.

*Session providers.*  A switch announced before the user picks a provider
overrides the pick (`state.rs:3250`).  A rebuilt service copies a lent pin, which
no guard of it restores (`state.rs:1619`).  The arm of other errors leaves the
session at the last fallback, unannounced (`tool_loop.rs:2237`); the 5xx arm asks
the session's own provider in the name of the fallback and may pin one that was
never asked (`tool_loop.rs:2047`).  A retry that succeeds does not reset the
streak (`tool_loop.rs:1640`), and candidates are skipped by the provider of the
service, not of the session.  Token counts written by `update_session_usage`
write the whole row and may undo a pick (`services/session.rs:119`).  The
services of the channels do not handle `ProviderSwitched`, so the next message's
`sync_provider_for_session` (`channels/commands.rs:18`) undoes a switch that is
said to be "Pinned until you change via /models".

## 4. What is proved

All of it for every value of the constants, bounds included.  Every type
invariant and every safety invariant and action property of the passing runs
has a theorem, and so have five refinements and, for each liveness property, the
part of it that needs no fairness.

A proof about progress has one form throughout: an action property says that
each step of the task, turn or process in question lowers a measure which is a
natural number, or a tuple of them ordered lexicographically, and that no step
of anybody else raises it.  What is left to TLC is that the step is taken, which
is weak fairness and `ENABLED`, and that a descending measure ends, which is
induction.  Where something does raise the measure the property names it, and it
is what the liveness property is conditional on.

`SubAgentsProofs`, for all `Agents`, `Callers`, `MaxRuns > 0`, `MaxQueue`:
`TypeOK`, `SingleLiveTask`, `TokenReachesTask`, `TerminalStateIsTrue`,
`OutputOfCurrentRun`, and `Spec` implements `SessionLease`.  `SingleLiveTask` is
not inductive: `prepare_resume` decides from `state` alone and a spawn or a
resume in progress holds a run no task has yet.  `IInv` adds that only the last
run can be alive (`TaskInv`), that an entry points at the last run and is
finished only when no run is alive (`EntryInv`), and what a call between two
steps may rely on, at most one of them owing a child its entry or its task
(`CallInv`).  The lemma `TaskMoves` carries `TaskInv` and `CallInv` through every
task step, so that each step only has to account for what it writes to the
table.

`SubAgentsInputProofs` rests on that invariant for `NoSilentInputLoss` and
`FileLeadsTable`.  `DrainInv`: a task that has left its input loop was
cancelled, or its channel is empty and nobody holds a sender, and no sender is
handed out any more.  `FileInv`: the verdict a task is about to put into the
table is in the file already unless that write failed, no later step of that
child writes either unless it is resumed, and no verdict gets into the file but
the one the task has come to.  `LiveChildHasSender`: the table has a sender for
the last run of every child reported live and of no other, the fact on which the
end of a cancelled child rests.  `UnwantedWindDown` is the progress behind
`UnwantedTasksEnd`: senders that calls in flight still hold, then the queue,
then the places of a round are used up by the run, and no call gives an unwanted
child a new sender.  `CancelledTillVerdict`: only a removal or the verdict of
the run whose token was fired ends `Cancelled`, which is how far the statement
of `resume.rs` that section 3 refutes does hold.

`FallbackProofs`, for all `Turns` and `Fallbacks > 0`: `TypeOK`,
`PrimaryNeverReturns` and `LeftBehindForEver`.  `IInv` adds that whatever a turn
is about to promote is a fallback.  `GoodStep` is what every step of a turn
satisfies, the last conjunct saying that a turn which can no longer promote a
provider below `p` stays so as long as the index is not below `p` either.
The history of `MCFallback` has an invariant of its own.  `RequestInv` says what a
request has asked at each place, and that its two loads differ only if the index
moved, from which `ErrorMeansExhausted` follows; `WordInv` that, unless promotes
have crossed, at most one event is still to be recorded, that of the last swap,
which gives `LastWordNamesActive`.  Progress behind `TurnsEnd` has two parts, since
a turn whose streams keep dropping asks again after each forced fallback and other
turns may have set the chain back meanwhile.  `RequestsRunOut`: each step of a turn
ends it, forces a fallback, which it does only while the chain is not at its end, or
makes (streams that may still drop, retries left, `StepsLeft`) smaller: `MaxDrops + 1`
answers, `MaxRetries + 1` requests for each, `Fallbacks + 11` steps a request.
`ChainSettles`: the chain comes back to `p` or before only through a turn that
read it before it had left, and each return uses one of these up.  So with
finitely many turns the index comes to rest: it returns only finitely often to
the lowest provider it visits for ever, and a fallback forced from there would
move it on.

`A2AProofs`, for all `Tasks`, `Clients`, `MaxCrashes` and whatever upserts fail:
`TypeOK`, `TokenWhileArmed`, `FinalEventIsFinal`, `TableFollowsStore`,
`EndedStaysEnded`.  `IInv` says what store and table hold at each place of a
process: nothing is known of a task before its process starts (`YoungInv`), a
process at work has not reported (`BusyInv`), and unless an upsert of the task
has failed the table holds what clients were told (`TableInv`, which also has
that nothing recorded as ended is at work). `TaskLifeImplemented`: one process
per task, judged once by it, at most one final event which agrees with the
verdict, cancellation of what has not ended only, no return of a task whose end
is on record.  A restart may forget any task there, and one that did not end may
come back. `TaskLife` hides tokens and the places of a process: `LifeOf` maps
the places to five, and of the table it keeps whether a task has ended in it.
`ProcessesEnd`: a started process is at most six of its own steps from an ended
task, one of them the return of its agent, and only a restart comes between.

`ToolLoopProofs`, for any number of calls, follow-ups, retries and fallbacks:
`TypeOK`, `RequestsAreComplete`, `OutputsMatchCalls`, `AnswerCoversFollowUps`,
`AnswerBelowQuestion`, `NothingRunsUnasked`, and `Spec` implements `Turn`.
`CallsInv` says which calls have results and outputs at each place of the call
loop (those before `current`, in order), `OpenInv` which calls of the context
lack one, `FreshInv` that follow-ups the model has not seen are followed by a
request, `BelowInv` that text is written to the last placeholder only.
`CancelledTurnEnds`: after a cancellation each step lowers a measure of at most
thirteen.  `HealingEnds` is the progress behind `OnlyCallsNarrationAndRescues`:
a step brings a response with calls, nudges a narration, pins a fresh chain,
takes a follow-up, or lowers (`Spare`, `Stage`, `Tries`, `Left`), where `Spare`
counts the nudges of the turn and the fallbacks of its chain that are unused,
`Stage` and `Left` the part of the round and the place in it, `Tries` the
retries or the calls left.  That the retries count for less than the fallbacks
and the stage is what allows a fallback and a response to reset `heal.drops`.

`SessionProviderProofs`, for any sessions, providers, fallbacks, threshold and
number of replacements: `TypeOK` and `NoLentPinLeft`.  `TurnOK` says that what a
guard is to put back is no pin lent by its own service, `PinOK` that a pin is
never lent by a service newer than the one it is in, so that a copy made at a
replacement cannot be taken for one of the new service's own, and `StreaksOK`
that a turn at work has a try its streak has not counted.  `PinsAsFound` follows
a loan from the first candidate to the end of the rescue: the guard remembers
what it found, every candidate after that is lent the same pin, and on each way
out (success, the last failure, a dropped future) that is what is put back,
unless the session is switched and the switch announced: the candidate, and the
provider its chain has come to.  `RescuesEnd`: a rescue takes up each candidate at
most once and, in the chain of a candidate, asks each other fallback at most once;
so its requests are bounded, though a fallback may be asked behind every candidate.

`ChatSessionsProofs`, for any sessions, turns, messages and restarts: `TypeOK`,
`RowsFollowTurns`, `HeldOnce`, `TokensAtHome`, `TakenAtHome`.  `RowInv` says
that no turn works while the table of requests is read and cleared at startup,
which is why clearing it takes no live row, whether a statement fails or not;
`TokenInv` that the token in hand is of the session on the screen whenever that
session is at work.  `MailboxImplemented` adds to `HeldOnce` and `TakenAtHome`
what they say over time: a message that a turn has taken is never given to
another one, in this process or the next, and a turn takes all that waits.
`StuckOnlyInFourWays` says how far "processing_sessions have in-flight agent
tasks" (`state.rs:671`) is true, beyond the one run that refutes it: a session
is left marked with nothing alive or in the channel that could unmark it by
Escape in another session, through the one abort handle; by a completion that
finds the spinner of its own session off; by the panic of a resumed or woken
turn, which nobody watches; by the notice of a resumed turn that is dead already
(*Chat* in section 3); and by no other step.  It rests on `ResumedInv`, that a
turn whose notice is still in the channel is at work, was cut off, or has its
report behind the notice, and on the lemmas about the channel
(`ChannelMovesOnce`, `OwingEnds`): an event leaves it in one step, and that step
unmarks its session.

`CronProofs`, for any jobs, schedules, poll, delay and bounds: `TypeOK`,
`NoRetrigger`, `Punctual`.  `NoRetrigger` rests on `Behind`: every instant a job
has run for lies before the one in its row and before the one a tick at work has
read, and not after the `now` of that tick.  `Punctual` rests on three
invariants: `Timely`, how far the clock may be ahead of a tick and of a sleep;
`Fresh`, a job the tick has still to come to has the row the tick has read or
was triggered since; `Handled`, what waits during a sleep came after the last
tick read the table, and what waits during a tick and has been passed by it came
after this tick read the table.  That the next instant of a schedule is a least
one is `LeastInstant`.  `JobRunsImplemented`: between two listings an enabled job
starts at most one run, a run is claimed in the row before it starts, a claim
that a crash or a failed statement has lost is not taken up again, and claims of
the schedule come in the order of their instants.  The abstract `turn`, the jobs
that may still start a run, is empty outside a tick.  `OnlyNewJobsRunTwice` is what
remains true of the comment the run `cron_NoSlotTwice` refutes: two runs of a job
for one instant are its very first, started early, and the one that has waited
for it, so no instant has three and only a new job has two.  It rests on
`Firsts`: a row without an instant is of a job that never ran, that is gone, or
whose schedule is over, and a schedule that is over stays over (`StaysOver`), so
a job that has run is never taken for a new one again.

The only assumptions are those the modules state of their constants.

Only model-checked: liveness (`UnwantedTasksEnd`, `TurnsEnd`, `StartedTaskEnds`,
`CancelEndsTurn`, `OnlyCallsNarrationAndRescues`).  Of each the theorems above
establish what the code contributes (for `TurnsEnd` the two halves, which nobody
has put together but TLC); weak fairness, and with it `ENABLED`, and the
well-founded induction over the measures are out of the prover's reach here.
The refinements to `TaskLife`, `Mailbox` and `JobRuns` are proved and not run:
TLC would have to check on one instance what the theorems say of all.

## 5. How far the bounds matter

The theorems remove the bounds from every safety property.  What is left to the
small instances is liveness, where one child, one task or one turn is complete
in itself: fairness is stated per task, and no task waits for another's.  The
bounds `MaxRuns`, `MaxTries`, `MaxCrashes`, `MaxRestarts`, `MaxRebuilds`,
`MaxCalls`, `MaxFailures`, `Horizon` cap what users and the world may do, never
what the code does; `MaxRetries` and `MaxDrops` of `FallbackProvider`, the retry
bounds of `ToolLoop`, its `LoopThreshold` and the `Threshold` of
`SessionProvider` are constants of the code with small values.

## 6. Not modelled

Next in the plan, in this order, each with what stands in its way.

1. `Teams` over `SubAgents`: the member loops are there, the table of teams is
   not; composing them multiplies the states of `SubAgents` by those of the
   table.
2. `ContextBudget`: thresholds and attempts as functions of token counts.
   `ToolLoop` has the outcomes; the estimate of tokens itself is a heuristic that
   no property of the repository pins down.
3. `ChannelServices`: the services of the channels share rows and the default
   chain with the interface, and their `persist_sticky_pair` does nothing
   (section 3); they belong into `SessionProvider` as further services.
4. `ProviderHealth`: the lost update between clone and write-back affects only
   the order in which the next process tries its providers, which
   `FallbackProvider` leaves open.
5. Sessions of a chat, the configuration watcher, startup jobs; hashline edits
   as operators against a reference definition.

Parts that are not meant to be modelled.  Vendor adapters and the provider
factory (`brain/provider/*`) translate requests and keep no state; the retry of
one request is a bounded loop whose outcome the models choose freely.
`rate_limiter.rs` holds an atomic slot algorithm, but `with_rate_limiter`
(`custom_openai_compatible.rs:123`) drops the limiter it is given, so no request
of the program ever waits on one.  The debate endpoint (`a2a/debate.rs`) is one
sequential exchange of prompts.  Messenger adapters (`channels/telegram` and the
others), browser, shell and the other tools, RSI and mission control reports,
drawing, dialogs, input editing and onboarding of the interface, the types and
defaults of the configuration, command line, usage, memory and logging are input
and output, rendering or statistics: most of the lines of the repository, and
none of the state the properties are about.  `db` and `services` wrap SQL; where
a component's correctness depends on a row the row is part of that component's
model.  `patches/wacore-binary` is third-party code.
