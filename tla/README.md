# Verification of the Xiaoruan AI agent

TLA+ models of the application's main process, checked with TLC on small
instances and, where a module has a `...Proofs` companion, proved with TLAPS
for every value of the constants. All paths are relative to the repository
root; the main process is `src/main` and `src/scheduledTask`.

## The system

An Electron application. The renderer (React) talks to the main process by
IPC; the main process runs one callback at a time on one thread, keeps its
durable state in one SQLite database (synchronous transactions) and calls out
to agents (the Pi SDK in process, external agents over ACP), worker threads,
local inference servers and IM gateways. Concurrency is therefore between
callbacks: every `await` is a point where anything else may run, and the
process may die between two transactions.

| Component | State | Operations | Interacts with | Hard behaviours | What makes it correct |
|---|---|---|---|---|---|
| Workbench task ledger (`main/workbenchTask`) | tables of tasks, runs, approvals, artifacts, events; in memory: promises of approvals, denial counters | begin, prepare, complete, accept, pause, fail, cancel, authorize, respond, record result, recover, delete | Pi runtime (turns, tool hook), task IPC, coding lanes, memory promotion | late completions, late answers, superseded runs, outdated clicks, crash in an effect | tasks and runs agree; effects need consent and happen at most once; a run is promoted once; nobody waits in vain |
| Artifact workers (`artifactWorkerPool.ts`) | slots, queue | submit, abort, timeout, message, exit, dispose | ledger | late messages, reuse of slots | a job settles once with its own answer, a waiting job is never forgotten |
| Production loop (`main/productionLoop`) | phase, plan, critic, revisions per run | start, plan, update, inspect, critic start/result/skip, revise, deliver | Pi runtime, ledger | late or duplicate critics, skipped reviews | nothing is delivered without inspection and review of the current round |
| Pi agent runtime (`main/libs/agentEngine`) | active sessions, initializations, pending messages, watchdog, projection queue | start, continue, steer, stop, settle, error, recreate, delete | ledger, production loop, store, SDK events | events after stop, settle without event, stalls, queue limits | a turn ends exactly once; queued messages are delivered once and in order |
| Scheduled tasks (`src/scheduledTask`) | tasks, runs, deliveries; task locks | claim, execute, finish, deliver, catch up, recover, remove | cc-connect clock, Pi runtime, IM | duplicate and late triggers, crash, timeouts | one execution per trigger instant; state shows what runs |
| IM channels (`main/im`) | inbox table; active events, conversation tails, permits | claim, acquire, execute, complete, fail, recover | cc-connect bridge, Pi runtime | redelivery, crash, permits | one turn at a time per conversation, each completed message answered once, bounded concurrency |
| Coding rooms (`main/codingAgent`) | rooms, lanes, missions, leases, ACP connections, event queues | create lane, prompt, cancel, handoff, recover | external agents, ledger | cancel against completion, lost connections, queue overflow | one writer per source root, a cancelled turn has no effect |
| Project memory (`main/memory`) | memories, sync outbox | propose, confirm, recall, sync | ledger, memory server | retries, restarts | a promotion is synced at least once and not duplicated |
| Session store, proxies, AISphere gateway, local inference, backup, reminders, MCP, skills, marketplace, enterprise extension, history, renderer | see `PROJECT.json` | | | process management and I/O, except the AISphere request pool, the inference locks and the backup swap | |

`PROJECT.json` lists every component with its sources and status, and under
`hazards` each place where the code can go wrong in a way a test hardly
reaches, with the properties that watch it.

## Plan

The order puts the ledger first: it decides what an agent may do and what the
user is told, and every other component drives it.

| Module | Composes / refines | Runs | Proofs |
|---|---|---|---|
| `WorkbenchTask`, `ToolConsent` | ledger with its callers, implementing the life of a tool call | `workbench_fresh`, `workbench_stale`, two violations | types, `Inductive`, `TaskRunAgreement`, `PromotedOnce`, `EffectAtMostOnce`, `CancelledIsSilent`, `ImplementsConsent`, and with a fresh card `OneOpenTask`, `NoOrphanRun`, `NobodyStranded` |
| `ChannelTurns`, `TurnQueue` | coordinator with inbox, implementing a queue per conversation | `channel_turns` | types, permits, rows, answers, the refinement |
| `ChannelHandler` | turn of a conversation with its Pi session | `channel_handler`, one violation | types and both invariants |
| `ScheduledRuns` | clock, store, executor, restart | `scheduled_runs`, one violation | types, `RunningIsLive`, `ExecutedAtMostOnce`, `SkippedAreNotRun`, `GapReported` |
| `ArtifactPool` | pool of workers | `artifact_pool` | types, `NoJobLost`, `WorkConserving`, `OwnResult` |
| `ProductionLoop` | workflow, agent loop, reviewers, end of the turn | `production_loop`, one violation | types and all three safety properties |

All of these are done. Left, in this order: the
message queue, watchdog and settle fallback of the Pi runtime (`PiTurn`);
lanes, writer leases and ACP connections (`CodingRoom`); the deliveries of
scheduled runs; the swap of a database backup (`BackupSwap`); the memory outbox
and the AISphere request pool.

No module uses a `RECURSIVE` operator, so that all can be proved about; parameters are
constants with named assumptions; invariants are conjunctions of named parts.

## WorkbenchTask

### State and code

| Variable | Code |
|---|---|
| `task` | `workbench_tasks`: status, session, contract, `active_run_id`; ids in creation order |
| `run` | `workbench_runs`: status, task, trigger, outcome of the verification |
| `appr` | `workbench_approvals`, one row per idempotency key (run and call): decision and effect status |
| `promotions` | how often `onVerifiedRun` was called for a run (history) |
| `waiters` | `pendingApprovals`: the promises `authorizeToolCall` waits for |
| `gate` | `outputContractDenials`, `outputContractCorrectionGraceRuns` |
| `collecting` | calls of `completeRun` between its `await` and its transaction |
| `live` | the run of the turn a session executes (`ActivePiSession.workbenchRunId`, or a lane's turn) |
| `starting` | prepared runs handed to `observePreparedRun` whose `beginRun` is still to come |

### Actions

| Actions | Code |
|---|---|
| `BeginMessageRun` | `beginRun` of a user message or of a lane's prompt; supersedes the open task |
| `PrepareRun`, `PrepareRunRejected` | the Resume and Retry IPC: `prepareRun`, and the catch of `startRun` |
| `BeginPreparedRun`, `PreparedRunRejected` | `beginRun` with a prepared run; the catches of `startSession` and `observePreparedRun` |
| `SetOutputContract`, `GateDenied` | `set_task_output`; a call before it, the correction and its grace |
| `AuthorizeAuto`, `AuthorizeAsk`, `AuthorizeStale` | the other ends of `authorizeToolCall` that change state |
| `Approve`, `DenyInCard`, `DenyInChat` | `respondToApproval` from the task card and through `respondToPermission` |
| `RecordToolResult` | `tool_execution_end` |
| `StartCompletion`, `FinishCompletion` | `completeRun` before and after the artifact workers answer |
| `AcceptTask` | `acceptTask` |
| `StopSession`, `TurnError`, `PromptRejected`, `CancelExternal`, `DeleteSession` | the ways a turn ends other than by settling |
| `Restart` | the process dies and `recoverInterruptedState` runs |

`Pause` and `FailRun` are `pauseRun` and `failRun`; a pause that throws rolls
back and writes nothing, which the callers survive.

### Abstractions

- Data: a contract is `chat`, `uncommitted` or `committed` (any other kind
  without or with output requirements); artifacts are what the delivery gate
  makes of them (`ready`, `pending`, `missing`); the risk of a call and the
  approval mode are the choice between `AuthorizeAuto` and `AuthorizeAsk`.
- Read-only and repeated calls change nothing and have no action. Events,
  measurements, run context and texts are left out.
- More behaviours than the code: a message may begin a run in any state of the
  session's turn (the stop that `startSession` makes first is a `StopSession`
  that may or may not come before); a stop may or may not abort an
  initialization under way; recovery may meet the runs of a task in any order.
- A Pi turn waits for one approval at a time. External lanes commit no output
  requirements, are not resumed or retried by the task IPC, and run no tools
  through the ledger.
- The correction steer and its grace (`forceContractCorrection`, then
  `grantOutputContractCorrectionGrace` in the same tool hook) are one step.
- The status `verifying` exists only inside the transaction of
  `FinishCompletion`.
- `Restart` is the death of the process and `recoverInterruptedState` in one
  step, with no turn between. In `initApp` the channels and the scheduler are up
  (`main.ts:7264`) before that recovery (7322), so a run of an early turn can be
  recovered as an interrupted one there. That window is modelled for the
  scheduled runs only.
- One denial fewer than the limit would pass every property of the ledger: what
  `BelowCeiling` bounds is the denials of a run that goes on.
- The counter of denials, `MaxTasks` and `MaxRuns` bound the model; nothing
  else is capped.

### Runs

| Run | Instance | Shows |
|---|---|---|
| `workbench_fresh` | a Pi session and a lane, 2 tasks, 3 runs, both kinds of new contract, 1 call, limits 1 and 1, no outdated clicks | `TypeOK`, `Inductive` (the invariant for the proofs), `OneOpenTask`, `NoOrphanRun`, `NobodyStranded` |
| `workbench_stale` | one Pi session, 2 tasks, 3 runs, chat, 1 call, outdated clicks | `TaskRunAgreement`, `PromotedOnce`, `EffectAtMostOnce`, `CancelledIsSilent`, `ImplementsConsent` |
| `resume_failure` | one session, 1 task, 3 runs | violates `ResumeFailurePauses` |
| `stale_click` | as `workbench_stale` | violates `FailureIsContained` |

Why these bounds are enough to be interesting: two tasks of a session are a
task and the one that supersedes it; three runs are an attempt, its retry and
the run of a new message, so that a late completion, answer or dispatch meets
a newer run of its own task and of another; a second session shows that
nothing leaks across sessions; one call per run suffices for what relates runs,
because Pi asks for one at a time and keys are per run (that a second call of a
run waits for the answer to the first is in `ToolConsent` and rests on its
proof, for any number of calls); a limit and a grace of one let the gate
reach both ceilings (the code has 4 and 3, the proofs cover all values).
Deadlock is checked: a restart is always possible, so no state is a deadlock
for the process as a whole, and what must not get stuck is said by
`NobodyStranded`. These runs claim no liveness and assume no fairness: whether
a turn ends depends on the model service and the user.

`StaleClicks` separates two promises. `TaskRunAgreement`, `PromotedOnce`,
`EffectAtMostOnce`, `CancelledIsSilent` and `ImplementsConsent` hold whatever
the IPC receives.
`OneOpenTask`, `NoOrphanRun` and `NobodyStranded` need a card that shows the
current state (`canResume`, `canRetry` in `WorkbenchTaskTrajectory.tsx`): with
an outdated one, a retry of an older task opens it beside the newer one.

### The life of a tool call

`ToolConsent` is what the ledger promises about side effects, without tasks,
sessions or turns: a call is let through or asked about, granted, refused,
reported, forgotten or left uncertain by a restart (`Let`, `Ask`, `Grant`,
`Refuse`, `Report`, `Forget`, `Recover`). `WorkbenchTask` implements it with the
mapping `Stage`: how far a call has come is read off its approval row, and the
calls of deleted runs are gone; the awaited calls are the promises of
`pendingApprovals`. It says more than `EffectAtMostOnce`: a grant needs a
question that is open and somebody who waits for its answer, no effect of a run
begins while the run waits, questions are refused together, a restart leaves
every effect under way uncertain and nobody waiting, and a deleted session is
never heard of again. It leaves open whether those who wait for a refused call
are told, since the click that prepares a run tells nobody.

### Findings

- `resume_failure`: tests say that a resume whose initialization is rejected
  pauses the task (`ipc.test.ts`, `preparedRunFailure.test.ts`, with `pauseRun`
  mocked). The run is still queued, and queued to paused is not a transition,
  so `pauseRun` throws, the observer logs it and the task stays running with a
  queued run. Stopping or deleting the session throws for the same reason and
  the recovery at startup does not select queued runs.
- `stale_click`: `preparedRunFailure.ts` says a stopped or superseded attempt
  must never fail its replacement. The catch of `startRun` in `ipc.ts` fails
  the active run of the session without looking which task it belongs to.

## ChannelTurns and TurnQueue

`main/im/channelTurnCoordinator.ts` with `main/im/channelInboxStore.ts`. The
code is one `async` function over four maps, and what is hard in it is where it
awaits. A step of the model is the code between two awaits.

| Variable | Code |
|---|---|
| `inbox` | status of the row in `channel_inbox`; survives a crash |
| `phase` | how far the operation of a message is: behind its predecessor (`chained`), asleep in `acquire` (`waiting`), its permit promise resolved (`woken`), counted but not yet resumed (`entering`), in `execute`, or settled and not yet deleted from `activeEvents` |
| `queue` | the chain of `conversationTails` per conversation |
| `permits`, `active` | `permits`, `activeCount` |
| `aborted`, `requests` | the signal of the request that created the operation; the requests that wait for its promise |

| Actions | Code |
|---|---|
| `Join`, `AnswerAtOnce`, `Enqueue` | the three ways through `run` up to its first await |
| `Disconnect` | the sidecar closes the first request |
| `Start`, `Wake`, `Enter`, `Finish` | the operation: check of the signal and `acquire`; its resumption; second check and `markProcessing`; result or error, with `release` |
| `Forget` | the `finally` of the tail |
| `Crash` | the process dies; `recoverInterrupted` in the constructor of the next |

`release` lowers the count and wakes a sleeper, which raises it again only when
it runs, and a turn that acquires in between makes more turns active than the
limit. The model has this step. `PermitsNotLost` claims what the code keeps: the
count equals the holders, and nobody sleeps without a reason. That the count
never exceeds the limit is not claimed, since nothing in the repository promises
it and the code does not keep it.

`TurnQueue` is what the bridge promises: turns of a conversation one at a time,
in the order of acceptance, none after the answer. The mapping is `line <-
queue`, `running <-` the executing messages, `answered <-` the completed rows.

Instance: three messages, two of them in one conversation, a single permit, two
deliveries per message, one crash. This is the smallest instance in which a turn
waits behind its conversation while another waits for the permit, and in which
a redelivery meets each phase of the first delivery. A second permit would
only make waiting rarer.

Fairness: every turn that can take a step takes it (`WF` of `Step(m)`). For the
steps after a settled promise this is the microtask queue. For the end of an
execution it is a condition, not a fact: `ChannelHandler` shows that a turn that
waits for its own accumulator ends (`OwnTurnsEnd`), and shows the one that does
not (`channel_reply_lost`). `RequestsAnswered` holds under that condition.

## ChannelHandler

`main/im/imCoworkHandler.ts`, one conversation and its Pi session.

| Variable | Code |
|---|---|
| `turn`, `promise` | where `processMessage` is; its `responsePromise` |
| `acc` | the entry of the session in `messageAccumulators` with its background mark and whether somebody waits for it |
| `pending` | `pendingPermissionByConversation` |
| `listening`, `aborted` | the listener of `cancelTurn` and the signal |
| `running`, `starting`, `decision` | the session: its turn, calls of `startSession`/`continueSession` under way, its permission requests (external) |

| Actions | Code |
|---|---|
| `Task`, `Remind`, `ReplyDeny`, `ReplyAllow` | a message, without and with a permission pending |
| `Prepare`, `Launch`, `Started`, `StartRejected`, `Return` | the turn between its awaits and the two ends of the start |
| `Abort` | the request is closed (`cancelTurn`) |
| `Ask`, `DesktopAnswer`, `PermissionTimeout` | `handlePermissionRequest`, `respondToPermission` from elsewhere, the timer of a permission |
| `Output`, `Complete`, `Fail`, `Stop`, `AccumulatorTimeout` | `handleMessage`, `handleComplete`, `handleError`, the `sessionStopped` listener, the timer of an accumulator |
| `ForeignTurn` | the desktop or a scheduled task uses the session; replacing a running turn emits no event |

The handlers call each other within one step (a denied tool stops the session,
which settles the accumulator), so they are operators on a record of the state
they share (`Settled`, `Stopped`, `Denied`, ...) that an action composes.

Left out: a session deleted under a turn and the retry with a new session
(both begin with a new accumulator), what prompts say, and the sending of
background replies. The prompt of a second permission in one turn reaches
nobody; the model has the permission, not the prompt.

Instance: two tool approvals and a question, so that each kind supersedes the
other and itself; three messages (a task, its answer, one more); two foreign
turns, one before and one during a turn of the chat.

Fairness: the code after an await goes on, and the timers of permissions and
accumulators fire. Nothing is assumed of the session, of the user or of the
sidecar, so what is live is live because of the timers.

## ScheduledRuns

`src/scheduledTask`, one task with a cron schedule.

| Variable | Code |
|---|---|
| `run`, `skipCount` | rows of `zhiyuan_scheduled_task_runs` by their unique key; the count in the text of a skipped run |
| `lastRun`, `runningAt`, `enabled` | `lastRunAtMs`, `runningAtMs`, `enabled` of the task |
| `lock` | `taskLocks` of the executor |
| `stage` | `closed`; `starting` from the start of the sidecars (`main.ts:7264`) to the recovery (7300); `open` |
| `triggers` | what the sidecar has sent since the launch; it may arrive late and repeatedly |
| `replay` | `catchUps` of `recoverScheduledTasksOnStartup`: what this start has yet to claim |
| `due`, `attempts` | history: what should have run, how often each key was executed |
| `gap`, `early` | history: what passed while the application was closed, until its recovery; what was triggered between a launch and its recovery |

| Actions | Code |
|---|---|
| `HandleTrigger`, `RunNow`, `Claim` | `handleTrigger`, `runNow`, `claimTrigger` with the executor's queue |
| `FinishRun` | `executeAndFinish`, `finishRun` |
| `Toggle` | `updateJob`, `toggleJob` |
| `Close` | end of the application and of its sidecar |
| `Launch` | `initApp` up to the sidecars, which register the tasks and send triggers from then on |
| `Recover` | `initApp` after the awaited backup: `recoverInterruptedRuns`, then `recoverScheduledTasksOnStartup` up to its first catch-up, `planStartupSchedule` and `recordSkippedRun` included; no await in between |
| `CatchUp` | `runCatchUp`, after those of the tasks before |
| `Tick` | the time, and the clock of the sidecar, which may be down and send nothing |

Between `Launch` and `Recover` time passes, triggers arrive, runs begin and end,
and the application may die again. `Recover` cannot tell a run of the earlier
process from one that a trigger has begun since: both become errors and move
`lastRunAtMs` to the recovery, while the second executes on and its `FinishRun`
later overwrites the row. Manual starts and switches need the window, which
opens after the recovery.

Time is a counter and the schedule its multiples of `Period`. In the code the
window of the catch-up is the period, but at least 5 and at most 30 minutes; the
instance has a window shorter than the period, as for a schedule that is due
less often than every half an hour. The proofs cover all values.

What an early trigger, one between `Launch` and `Recover`, takes away is written
in the properties as exceptions for `early`:

- `RunningIsLive` claims of an open application that a row that says running
  executes or waits; that what executes is shown as running it claims only of
  runs that were not triggered early. A run stays shown as interrupted until it
  ends when an early trigger began it.
- `SkippedAreNotRun`: an early trigger that is delivered after the recovery still
  runs the boundary that the summary has just counted as skipped. Every other
  boundary of a summary is never run.
- `GapReported` is about recoveries that found no row running. It speaks of
  the boundaries since the last run, and a run that began and ended before
  the recovery is a last run.

`GapReported` also excepts a gap that begins at the boundary of an earlier gap:
the row of the oldest missed boundary is unique, and the insert that finds one is
ignored (`recordSkippedRun` counts both as one gap). What the second adds is
then not recorded. Without these exceptions (`RestartHidesNothing`) the claim is
the finding `schedule_gap_hidden`.

`RunningIsLive` claims that the mark `runningAtMs` never outlasts the running
rows, not that it is set while one executes: the end of a run clears it although
the next one goes on behind the task lock, and the task list shows the task as
idle. The end by completion and the end by timeout are one `FinishRun`.

Instance: three boundaries in six instants, one manual start, two closings, two
toggles: a gap of one, two or three boundaries, with the newest inside or
outside the window, twice, and triggers before the second recovery.

Fairness: an execution ends (`FinishRun`), because the executor times out; a
start goes on to its recovery and its catch-ups (`Recover`, `CatchUp`), which
`initApp` runs without waiting for anybody; and the sidecar delivers the trigger
it sent (`HandleTrigger`). Time need not pass, and a boundary need not be
triggered.

Left out: deliveries of results, changes of the schedule and its version,
one-shot and interval schedules, the session a run shares with the user.

## ArtifactPool

`main/workbenchTask/artifactWorkerPool.ts`. `queue` and `slots` are the fields
of the pool, `job` the job of a slot, `outcome` the promise of a job. `doing`
is the external worker: what was posted to it and not yet answered, which a
slot that was taken away leaves behind. `Submit`, `Refuse`, `Abort`, `Message`,
`WorkerEnds`, `Timeout` and `Dispose` are the entry points, and `Dispatched` is
the loop that each of them ends with. Its round is `ServedHead`: the head of
the queue takes an idle or a new slot and is posted, or, when the input cannot
be posted, costs the worker its slot at once. In the code that failure calls
`finish`, which calls `dispatch` again within the loop; the call inside does
the rounds the loop would have done, so the model has them once, as a recursive
function of the number of rounds. Every round takes a job from the queue, so
there are as many as the queue is long, the last ones of which change nothing
when the slots are busy.

Instance: two workers, a queue of two, five jobs of which three are text jobs
(their results name no run, so nothing but the slot tells whose they are) and
one cannot be cloned; seven worker ids, enough for every worker that is thrown
away (`WorkerIdAssumption`).

Fairness: the timer of a slot fires. The workers may never answer.

Left out: a `Worker` constructor that throws, and the bounding of inputs
(`Refuse` stands for its refusal).

## ProductionLoop

`main/productionLoop`, `main/libs/agentEngine/piAgentLoop.ts` and the
`agent_end` handling of `piRuntimeAdapter.ts`.

| Variable | Code |
|---|---|
| `state`, `active` | the workflow snapshot and whether the controller holds it (a dormant run has the one of the previous run) |
| `skipAllowed` | whether the policy of the run lets the model skip |
| `loop` | the loop of the session: passes, step, `next`, wrap-up |
| `turn` | running, settling, or how it ended |
| `reviewer` | what each reviewer that runs was started for |

The actions are those of the `production_loop` tool (`RecordPrototype`,
`CommitPlan`, `SkipWorkflow`, `UpdatePlanItem`, `StartInspection`,
`RequestCritique`, `SkipCritique`, `RecordRevision`), the observation of tool
results, start and result of a reviewer, the `agent_loop` tool (`LoopStart`,
`LoopNext`, `LoopDone`), and the end of an iteration, the verification, the
acceptance, the stop and the next message. The model may call any of them at
any time, several at once.

`progressVersion` is a counter that only ever is compared with two remembered
values, so it is kept as two Booleans: `evidence` (a tool result was observed at
this version) and `progressed` (the version moved since the last recovery).

Instance: two plan items, two reviewers (one of an older critique, one of the
current), a stale limit of 2 (the code has 3), at most 3 iterations (the code
has 20), one restart of the loop by the model and two runs. One recovery below
the stale limit, the wrap-up before the last iteration and the last iteration
itself are each reached.

Fairness: the agent ends its iteration (the model service ends its stream or the
stall watchdog does, and every tool has a time limit), and a turn that is settling settles
(`piAgentSettleFallback`). `TurnEnds` also needs the bound on restarts of the
loop: the model can start the loop anew for ever, and the code does not stop it.

## Runs of these modules

| Run | Shows |
|---|---|
| `channel_turns` | `TypeOK`, `ProcessingIsExecuting`, `PermitsNotLost`, `AnsweredOnce`, `ImplementsQueue`, `RequestsAnswered` |
| `channel_handler` | `TypeOK`, `OpenIsPending`, `WaiterIsCurrent`, `PermissionsDecided`, `OwnTurnsEnd` |
| `channel_reply_lost` | violates `TurnsEnd` |
| `scheduled_runs` | `TypeOK`, `RunningIsLive`, `ExecutedAtMostOnce`, `SkippedAreNotRun`, `GapReported`, `TriggersRun`, `RunsEnd` |
| `schedule_gap_hidden` | violates `RestartHidesNothing` |
| `artifact_pool` | `TypeOK`, `NoJobLost`, `WorkConserving`, `OwnResult`, `JobsSettle` |
| `production_loop` | `TypeOK`, `ReadyIsReviewed`, `CompletedIsDelivered`, `VerdictIsCurrent`, `TurnEnds` |
| `production_bypassed` | violates `EnforcedBeforeAgentEnd` |

Deadlock is not checked in these runs: deliveries, messages, jobs, crashes and
time are bounded, and when they are used up the system rests. What must not
rest is said by the liveness properties.

Findings:

- `channel_reply_lost`: a background turn asks for a permission, and the user
  answers "允许" in the chat. The reply waits for an accumulator that keeps the
  background mark; the completion takes the branch of background deliveries,
  which removes the accumulator and its timer and returns before anybody is
  answered. The turn of the reply, its conversation and its permit are blocked
  until the application restarts.
- `schedule_gap_hidden`: a comment in `main.ts` says that a restart cannot hide
  skipped work. When the application was closed while a run executed, recovery
  first sets `lastRunAtMs` to the time of the restart, and the boundaries missed
  in between are neither replayed nor summarized. A trigger that comes between
  the start of the sidecars and the recovery has the same effect, without any
  interrupted run.
- `production_bypassed`: a comment in `verification.ts` says that the
  controller enforces the full lifecycle before `agent_end`. `agent_loop start`
  may replace the loop by one of a fixed number of passes; its last `next`
  closes it, and `handleAgentEnd` returns before it asks the controller.

## Proofs

`WorkbenchTaskProofs` proves, for any sessions, calls, bounds and limits that
satisfy `ConstantsAssumption`:

- `TypeCorrect`: `Spec => []TypeOK`. `TypeOK` alone is not inductive. A
  completion copies the contract of the task of its run, which exists only
  because rows appear and disappear together (`Owned`), and the range of the
  denial counter needs that a run under its ceiling is denied at most once
  more before the ceiling is checked (`BelowCeiling`). The inductive invariant
  is therefore `TypeInv == TypeOK /\ Owned /\ BelowCeiling`, proved by one
  lemma per conjunct (`NextType`, `NextOwned`, `NextBelow`), each with one
  step per action; `PauseType`, `FailType` and `PauseKeepsRows` are about the
  two operators most callers share.

`WorkbenchTaskSafetyProofs` proves the safety properties, under the same
assumptions:

- `ConsentForEffects`: `Spec => EffectAtMostOnce`. An action property needs a
  state to start from: `Consent` says that an effect that started was approved
  and that a run that has not begun has no approvals. `StepSettles` shows for
  every action what it may do to an approval (`Settles`), `NextEarly` that a
  run never becomes queued or absent again; together they make `Consent`
  inductive and give the property. Only the deletion of a session removes
  decisions, and it removes the run as well (`DeleteConsent`).
- `TasksAgreeWithRuns`: `Spec => []TaskRunAgreement`. Most actions are about
  one task and one run of it, and `OneTask` says that the other tasks keep
  agreeing: their active runs belong to them and are not the run that moved.
  The pause and the failure, which find their run through the newest open task
  of the session, are argued over all tasks at once (`PauseAgrees`,
  `FailRunAgrees`), over any rows, so that a denial in the chat can use the
  lemma on the rows it has already written. The proof of recovery needs
  `Consent`: a task must not take the status of a queued run, and a queued run
  has no effect under way, so it is never among the runs recovery chooses.
- `VerifiedRunsPromotedOnce`: `Spec => []PromotedOnce`, and
  `CancelledTasksAreSilent`: `Spec => CancelledIsSilent`. Every action but the
  end of a run, its acceptance and the deletion of a session is *quiet*
  (`NextQuiet`): no run succeeds, no task is completed and no cancelled task
  changes. The other three are taken one by one; that the run of a completion
  which is still active cannot belong to a cancelled task, and that the run
  that is accepted has not succeeded before, follow from `TaskRunAgreement`
  and `PromotedOnce`.
- `InductiveInvariant`: `Spec => []Inductive`, the conjunction TLC checks.
- `CallsFollowConsent`: `Spec => ImplementsConsent`. `NextGone` shows that only
  a deletion deletes runs, so that the stage of a call depends on its approval
  row alone; then each action is one action of `ToolConsent` or a stutter
  (`NextConsents`, from one lemma per action that writes approvals). Pauses,
  new messages, clicks and denials are all `Refuse` (`RefusedCalls`), on what
  was pending of a session or a run. That an effect reported or recovered is
  one that was approved is `Consent`.

`WorkbenchTaskFreshProofs` proves what needs an up-to-date card, from the
assumption `StaleClicks = FALSE`, for any sessions, calls, bounds and limits:

- The inductive invariant is `FreshInv`, on top of the types, `Owned` and
  `TaskRunAgreement`. `RowInv`: an open task is the newest of its session, a
  run that executes or waits is the active one of its task, and so is a queued
  run whose dispatch is under way (otherwise a dispatch could begin a run whose
  task has another); queued runs are never of a lane. `TurnIsOwn` and
  `TurnIsCurrent`: the run of a turn is of its session, and no other run of it
  executes. `PromiseInv`: promises and waiting runs pair up one to one. A
  failure of a session leaves promises alone, so it must never find a waiting
  run: `TurnDoesNotWait` derives that from `TurnIsCurrent` and `PromiseInv`.
- Most actions are *calm* (`Calm`, `CalmPromises`): they open no task, let no
  run begin and make no promise, and `CalmKeepsFresh` is about them all.
  The message, the dispatch of a prepared run, the question to the user and
  the deletion are taken one by one. The catch of the IPC never runs with a
  fresh card (`OfferedCanRun`).
- Theorems: `FreshInvariant`, `SessionsHaveOneOpenTask` (`OneOpenTask`),
  `NoRunIsOrphaned` (`NoOrphanRun`), `NobodyWaitsInVain` (`NobodyStranded`).
  An outdated card breaks the first conjunct of `RowInv`, and with it the rest.

`ChannelTurnsProofs`, for any messages, conversations, limit and bounds:

- The inductive invariant says where an operation in each phase is. `Lined`:
  the queue of a conversation holds exactly the operations of its messages whose
  promise is open, each once. `Fronted`: an operation that has passed its
  predecessor is the oldest of its conversation. `Permitted`: the sleepers of
  `permits` are the waiting operations, each once. `AnsweredAtRest`: a
  completed message has no operation that could still execute. `Counted`: the
  count equals the holders. With `ProcessingIsExecuting` and the types these
  make `IInv`, and `Init => IInv` and `IInv /\ [Next]_vars => IInv'` are proved
  with one step per action.
- From it: `TypeCorrect`, `RowsTellTheTurns` (`ProcessingIsExecuting`),
  `PermitsAddUp` (`PermitsNotLost`), `AnswersStay` (`AnsweredOnce`) and
  `TurnsImplementQueue` (`Spec => ImplementsQueue`). In the last, `Enqueue` is
  `Accept`, a step of `Enter` that executes is `Begin`, every step that settles
  a promise is `Leave`, the crash is `Restart`, and the others stutter;
  `StepImplements` has one case each. That the turn that leaves is the head of
  its line is `Fronted`.

`ChannelHandlerProofs`: `TypeOK`, `OpenIsPending` and `WaiterIsCurrent` are
together inductive. One lemma per operator says what it does to a record of the
shared state (that `Settled` leaves nobody waiting, that `Denied` leaves no
other permission open), and the actions compose them. Theorems: `TypeCorrect`,
`OnePermissionOpen`, `AnswersReachTheirTurn`.

`ScheduledRunsProofs`: `TypeOK` with `Executed` (a key was executed once if
its row says so and never if it has none or is skipped), `Locked` (the lock
holds no key twice, only claimed ones, those that were not triggered early with
a row that says running, and after the recovery every row that says so),
`Staged` (what can be under way in a closed application, and before the recovery
only what was triggered since the launch) and `Marked` (the mark of the task
never outlasts the running rows) is inductive. `Staged` is what the recovery
needs: all it can take for interrupted by mistake is early. Theorems: `TypeCorrect`,
`RunsAreLive` (`RunningIsLive`), `AtMostOneExecution` (`ExecutedAtMostOnce`).

What a gap leaves behind needs more, `SkipInv`:

- A skipped row stands for a number of boundaries from its own on (`StandsFor`).
  That they are never run is `SkippedForGood`: each of them is `OutOfReach`,
  unless it was triggered early. It has no row, or a skipped one; no trigger and
  no catch-up for it is on the way; and it is
  `Stale`, outside the window of the catch-up or followed by a later boundary
  that has passed, so that no later restart replays it. Time only makes it
  staler, and no trigger is ever made for the past. `Clocked` keeps everything
  that was done in the past of the clock, which a boundary missed at a restart
  needs to be out of reach at once.
- The recovery writes one row with a count for a set of missed boundaries. That
  the row stands for exactly these (`Summary`) needs no induction: the
  boundaries between two instants are the multiples of the period by an interval
  of numbers (`BoundaryIsMultiple`, `MultipleIsBoundary`, `MissedInterval`), whose
  size the library of finite sets gives, and the one that is replayed is the
  newest (`MultiplesOrdered`).
- Theorems: `SkippedStayUnrun` (`SkippedAreNotRun`) and `GapIsReported`
  (`Spec => GapReported`, an action property, from the invariant and the step
  `Recover` alone). They rest on one more assumption, `KeyAssumption`: the key of a
  manual run, which ends in a fresh UUID, is never the key of a boundary.

`ArtifactPoolProofs`, for any finite sets of jobs and worker threads and any
limits: the four safety properties of the pool.

- One run of the code changes the pool several times before it returns, so the
  invariant `PoolKept` is an operator on records of the fields, and the lemmas
  say what each change does to it: a post (`PostKeeps`), a job that leaves its
  slot, with or without the worker (`LeaveKeeps`), a refusal (`RejectKeeps`), a
  new job in the queue (`EnqueueKeeps`), an answer nobody reads (`DropKeeps`),
  the closed pool (`EmptyKeeps`). The actions compose them.
- `Placed` and `Answered` are `NoJobLost` and `OwnResult` in a form steps can
  use. Neither is inductive without `Posted`: that an answer is of its own job
  needs that the thread of a slot was posted the job of the slot and nothing
  else, and that what a terminated thread still has to say is of a settled job.
  That such a thread is not taken for a new slot is in the choice of
  `Unused`; that there always is an unused one (`UnusedExists`) is a count: the
  threads with a late answer map one to one to settled jobs, and
  `WorkerIdAssumption` has enough ids for these and the slots. The count needs
  that jobs and worker ids are finite, which the constants now assume.
- `DispatchedKeeps`: the loop keeps `PoolKept` and ends `Stuck`, with the queue
  empty or no slot to take, which gives `WorkConserving` (`StuckConserves`). It
  is an induction over the rounds: after each, the loop is stuck or the queue is
  shorter by as many jobs. The induction theorems of the library take operators
  as parameters; `SetInduction` proves, from the well-foundedness of `<`, the
  form that takes a set of numbers, and the loop as a recursive function is
  unfolded from the function that `RoundsExist` constructs.
- Theorems: `TypeCorrect`, `NoJobIsLost`, `WorkIsConserved`, `ResultsAreOwn`.

`ProductionLoopProofs`: `Reviewed` and `Delivered` are the two invariants of
the run, `Awaited` says that the reviewer the state waits for, while it works,
was started for the current request, in the critique phase, and `LoopBounded` keeps
the step of the loop under its limit, with the wrap-up just before it. Theorems: `TypeCorrect`,
`OnlyReviewedWorkIsReady` (a critique that was skipped counts, as a light one
may be), `OnlyDeliveriesComplete` (of the status `completed`, not of turns: a
turn may end with a workflow in another status, as in `production_bypassed`), `OldReviewersNeverPass`
(`VerdictIsCurrent`, an action property, from `Awaited`).

### What stays with TLC

- Liveness (`RequestsAnswered`, `PermissionsDecided`, `OwnTurnsEnd`,
  `TriggersRun`, `RunsEnd`, `JobsSettle`, `TurnEnds`): fairness is out of the
  prover's reach.
- The violations, which are behaviours of an instance.

Every safety invariant and every action property that a passing run checks is
also a theorem.

## Not modelled

The components with status `not_modelled` in `PROJECT.json`: the project memory
and its outbox, the session store, model proxies, the AISphere gateway, local
inference, the database backup, reminders, MCP servers, skills and marketplace,
the enterprise extension, history and activity. Most are I/O, data translation
or projections; the backup swap, the outbox and the request pool have behaviour
worth a module and are in the plan.

Inside modelled components: run events, measurement, artifact rows and hashes,
and what verification of a workflow snapshot finds (a nondeterministic verdict)
in the ledger; the message queue, the stall watchdog and the event projection
of the Pi runtime; lanes, leases and ACP connections of the coding rooms; and
what the sections above name. A SQLite statement that throws is not modelled
anywhere, except where the ledger itself refuses a transition.

The modules are not composed with each other beyond their interfaces: the turn
of `ChannelTurns` is the `execute` of `ChannelHandler`, whose session is the
turn of `WorkbenchTask`, whose agent loop is `ProductionLoop`. Each assumes of
the next no more than its section says.
