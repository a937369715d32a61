# MergeMate: TLA+ models, model checking and proofs

MergeMate takes prompts in a chat, plans them with a language model, asks for
confirmation, executes the approved plan in the background and reports back.
This directory models how a prompt travels through that system: the persisted
tables, the coroutines of one runtime process, several processes over one
database, the stages of an execution, the model calls they make and the messages
the user gets; and what surrounds it: the start and stop of the bot process, the
commands that wait, the search index and the settings that say who does the work.

| file | what it is |
| --- | --- |
| `RunStore.tla` | one row of `agent_runs` and the writes of `SQLiteRunRepository` |
| `RunLifecycle.tla` | one runtime process, from prompt to outcome, over `agent_runs` and `run_jobs` |
| `RunLifecycleProofs.tla` | theorems about it: types, approval, execution at most once, queue and jobs, no run left behind, the refinement |
| `RunContract.tla` | what a user is promised about a run; `RunLifecycle` implements it |
| `JobLeases.tla` | `run_jobs` shared by several worker processes: claim, lease, heartbeat, takeover |
| `JobLeasesProofs.tla` | theorems about it |
| `ExecutionPlan.tla` | one execution: stages, review loop, replanning, documents, result |
| `ExecutionPlanProofs.tla` | theorems about it |
| `RetryGateway.tla` | concurrent model calls: fan-out, retries, shared retry budget |
| `RetryGatewayProofs.tla` | theorems about it |
| `Notifier.tla` | what the chat hears of a run: lifecycle notices, progress watchers, failing sends |
| `NotifierProofs.tla` | theorems about it |
| `SearchIndex.tla` | the full-text index: creation, rebuild, triggers, several processes, crashes |
| `SearchIndexProofs.tla` | theorems about it |
| `WebhookRuntime.tla` | start and stop of the bot process, readiness, health server |
| `CommandLine.tla` | extends it by the commands that wait: `probe-readiness`, `run`, `chat`, `resume` |
| `CommandLineProofs.tla` | theorems about both |
| `AgentSettings.tla` | configuration files, roles, validation, agents and providers of a stage |
| `AgentSettingsProofs.tla` | theorems about it |
| `MC*.tla`, `*.cfg` | the instances TLC checks |
| `PROJECT.json` | components, runs, faulty variants, source map, findings, hazards, theorems |

Paths below are relative to `src/src/mergemate/`.

## 1. Inventory

| component | state | operations | interacts with | hard part |
| --- | --- | --- | --- | --- |
| run store (`infrastructure/persistence/sqlite_repositories.py`) | `agent_runs`: status, stage, plan, approved, artifacts | `create`, `update_status`, `try_update_status` (compare and set), `update_plan`, `approve`, `save_artifacts` | everybody | most writes are unconditional; each is a transaction of its own |
| job store (same file, unique index in `sqlite_schema.py`) | `run_jobs`: status, lease owner, expiry | `ensure_queued_job`, `claim_job`, `heartbeat_job`, `complete_job`, `fail_job` | dispatcher, worker | leases across processes; outcome writes ignore the owner |
| use cases (`application/use_cases/`) | none | submit, `complete_planning`, revise, approve, cancel | stores, dispatcher, planner model | status read before an await and used after it |
| dispatcher and `LocalQueue` | `asyncio.Queue`, pending ids | dispatch, enqueue, dequeue, acknowledge | use cases, worker | in memory only, while jobs are persisted |
| worker (`application/jobs/worker.py`) | tasks, active ids, semaphore, stopping flag | consume, claim, process, heartbeat, notify, stop | all of the above | shutdown at any await; claim before the semaphore |
| orchestrator and execution plans | none | `process_run`, stages, review loop | run store, tools, models | cancellation checks, once-only start |
| tool service | none | tool context in a thread, run status around each tool | run store | the thread outlives a cancelled task |
| Telegram handlers, bot | handler in flight, background tasks | prompt, approve, cancel, status, tools | use cases | plans every run a second time in `_continue_planning` |
| notifiers | delivered-terminal set, watchers | progress and terminal messages | run store, Telegram | worker and watcher both announce the end |
| LLM gateway | retry budget | retry, fan-out, first success | providers | shared budget, concurrent providers |
| command line (`cli.py`) | session, clock | run, chat, resume, search, probe-readiness | use cases, health server | polls, but starts no worker; limits, late sleepers, a server that dies |
| bot process (`interfaces/telegram/bot.py`, `health.py`) | readiness, health server, worker, application | run, post_init, post_stop, post_shutdown | worker, watchers, Telegram | each step of a start may fail, signals during start and stop |
| search (`sqlite_schema.py`, `search` of the repositories) | two FTS tables, triggers | initialise, rebuild, search | every process that opens the database | initialisation is not one transaction; processes start together |
| settings (`config/`) | merged mapping | merge, populate roles, validate, resolve | orchestrator, stages, gateway | three files, two precedence rules, roles before agents |
| estimator, documentation, registry, prompts, souls | small or none | pure or I/O | | |

What makes the core correct: a run is executed once and only with an approved,
persisted plan; a finished run is not put back to work; every job is worked on
by one worker and finishes once; nothing queued is lost; every accepted prompt
ends. `PROJECT.json` lists the places where each of these could go wrong
(`hazards`) with the properties that would notice.

## 2. Plan

Done: `RunStore`, `RunLifecycle`, `JobLeases`, `ExecutionPlan`, `RetryGateway`,
`Notifier`, `RunContract` with the refinement, `SearchIndex`, `WebhookRuntime`,
`CommandLine`, `AgentSettings`, their runs, and theorems about all of them, the
refinement of `RunContract` among them.

Next, in this order:

1. The fan-out of a stage to several roles (`_run_parallel_stage`) and plugin
   workflows, as an extension of `ExecutionPlan`; tool events and permission
   checks of `ToolService`.
2. Pure algorithms against reference definitions: splitting of long messages,
   the estimator, path scoping of documents.

## 3. The modules

### RunStore

A row is `[status, stage, plan, approved]`; every operator returns the row one
committed statement leaves behind. Texts are left out, except that a plan is
represented by its author (worker job, chat continuation, revision, replanning),
which is what tells the plans of one run apart. All `tool:<name>` stages are
`"tool"`, all stages that save an artifact `"execution"`.

### RunLifecycle

State: the two tables (`run`, `job`), `LocalQueue` (`queue`, `pending`), where
every coroutine stands (`pc`), the status `complete_planning` read before its
await (`seen`), the stages left of an execution (`left`), the tool thread
(`tool`, `toolsLeft`), the update the bot is handling (`handler`), the worker's
`_stopping` flag, and a history (`hist`) of how often a run was started, which
plan was agreed on and which was executed.

Coroutines of one event loop switch at awaits only. A segment with several
transactions is a chain of actions, and `LoopFree` keeps other coroutines out
until it ends; the tool thread and a crash may still come in between. The
actions follow the code: `Submit` and `SubmitDispatch` are
`SubmitPromptUseCase.execute`; `PlanBegin`, `DraftFails`, `DraftSucceeds`,
`AutoApprove`, `AutoDispatch` are `complete_planning`, run both by `PLAN_RUN` jobs
and by the continuation of the chat handler; `Consume`, `ClaimJob`,
`CompleteJob`, `FailJob`, `TaskDone` are the worker; `ExecBegin` to
`ExecCompletes` are `process_run` and the execution plans; `ToolEnter`,
`ToolLeave`, `ToolsReturn` the tool thread; `Stop`, `DropSpawned`, `Interrupt`,
`InterruptRun` the shutdown; `Restart` the end of the process and a new start.

Simplifications. Every run has a chat of its own, so the "latest run of the
chat" is that run. The stages of a multi-stage plan are not told apart: a stage
saves an artifact or rewrites the plan, at most `MaxStages` times. A plan that
needs no tool context is treated as one with no tools to invoke. Database
errors are left to `JobLeases`. With the command line as `Interface` no worker
is started, as in `cli.py`. The branch of `_dispatch_or_fail` for a
`RuntimeError` is left out: the local queue never raises one. Python-telegram-bot
is modelled from how the bot uses it: updates are handled one at a time, and
`post_stop` runs after handlers and background tasks of the application ended.

### JobLeases

Every job may be delivered to every worker, any number of times, because
`dispatch_run` returns an active job whoever works on it. Time is counted down
(`lease`, `timer`), so the state space is finite without a clock bound; a
heartbeat wakes at most `MaxDelay` late. With `DatabaseMayFail` any statement of the
worker may raise: `BeginRaises`, `Raise` and `CompleteJobRaises` are caught by the
handler of an execution job, which fails the run and then the job; everything else
ends the task unseen (`Unhandled`, `Die`), the writes of that handler and of
`_mark_shutdown_interrupted` and the claim included; `HeartbeatDies` ends a heartbeat.
`Exit` ends a process at any point.
`LeaseCoversHeartbeat` is the condition the protocol needs and the configuration
does not check: interval plus delay at most the lease, and no failing write.

### ExecutionPlan

One run from its start to its result. `texts` are the artifacts the coroutine
holds, `row` the persisted ones, `docs` the documents on disk; a text is
represented by the iteration that produced it, the plan by the iteration it was
drafted for, which is what tells a coherent result from a mixed one. A stage is
the segment between two model calls: check for cancellation, call the model,
check again, write the document (if the agent's soul may), persist. `StageDone`,
`DocumentRefused` and `ModelFails` are its outcomes, `Replanned` the stage between
iterations, `Complete` builds the result. The run is cancelled or put back to
`awaiting_confirmation` by another process (`Cancel`, `RevisionFails`), the only
way this can happen while a plan executes.

### RetryGateway

`Generate` starts one provider call per provider an agent uses. A provider call
is `with_retry()`: `Answers`, `GivesUp`, `WaitsAsTold` (429 with Retry-After),
`BacksOff` (charged to the budget), `FailsFast` (budget used up), `WakesUp`.
`Gathered` is the single and the sectioned mode, `TakesFailure`, `TakesAnswer`,
`Settled` are `first_success`; `done` is the queue of `as_completed`. The budget is
a sequence of ages of recorded retries (`stamps`); `Tick` ages them, so that time
needs no bound, and a sleep may take any time. The budget's limit is fixed by the
first provider that is called. An interrupted `first_success` leaves its provider
calls behind, as `as_completed` does not cancel them.

### Notifier

One run, since the registries are keyed by run. Its row changes by the operators
of `RunStore`; the planning job, the continuation of the chat and the execution
jobs end in a notice (`Tells`, `Sends`, `SendFails`), the approval and the auto-start
notice start a watcher. A watcher is named by who starts it and sleeps, polls,
sends and ends; its done callback is an action of its own (`Cleanup`), as it runs
later than the end of the task. `delivered` is membership in
`terminal_deliveries`, `announced` a history of what really arrived. `StopWorker`
and `StopWatchers` are `stop_runtime_tasks`; the first waits for handlers and
for the tasks given to the application, as python-telegram-bot's `stop()` does.
`running` and `waiting_tool` are one status here, and replies to commands are not
notifications.

### RunContract

The abstract specification: `status`, `planned`, `approved` and `started` of every
run and nothing else. No jobs, planners, threads or processes. Its actions are
what a user can notice, and each says what it needs: `Plan`, `Approve`, `Cancel`,
`Start`, `Complete`, `Fail`, `Reopen`. `RunLifecycle!Contract` instantiates it;
`PublicView` maps `running` and `waiting_tool` to "working", and `started` comes
from the history. `ImplementsContract` is `Contract!Spec` as a property of a run.
`Fail` at any time and `Reopen` are the two places where the promise the code
keeps is weaker than the documents; both are written down as such.

### SearchIndex

`db` is what is committed, `draft` what the open transaction sees, `writer` whose
it is. `FindColumn` to `CreateTriggers` are the statements of
`initialize_sqlite_database`, one action each, as another process may come
between any two of them; which of them commit at once and which join a
transaction follows Python's `sqlite3` (`Write`, `Rebuild`, `Commit`). A statement
raises when the column or index has been created meanwhile, when the rebuild
meets entries that a trigger has inserted, or when the lock is held too long
(`AddColumnRaises`, `CreateIndexRaises`, `RebuildRaises`, `LockTimeout`). `Insert`
and `Update` are the repositories' writes with their triggers, `Found` is a search
that every text matches. The history (`alone`, `cut`, `written`) records who
started alone, whose index was left unfilled, and which rows were written.

### WebhookRuntime and CommandLine

`phase` walks through `run_polling`/`run_webhook`: health server, `post_init`,
updater, application, and back through what was started. The order of the hooks
is that of python-telegram-bot; `StartFails` may strike at every step of the
start, `Signal` at every wait, `SignalAgain` skips the rest of the cleanup.
`StopTasks` is `stop_runtime_tasks` up to its first await; it runs twice in a good
stop (`post_stop`, `post_shutdown`), once after a failed start.

`CommandLine` adds one command. `probe-readiness` asks (`Ask`), waits for the
answer (`Answer`, `RequestRaises`), judges it and sleeps; `_poll_run` looks at a run
that some other process works on (`RunEnds`). `elapsed` and `since` count in the
unit of the limit; a sleep takes its interval and at most `MaxLate` more, a request
at most `MaxRequest`.

### AgentSettings

`MergeLocal`, `MergeExplicit`, `PopulateRoles` and `Validate` are the steps from
three files to settings that are accepted or rejected; `ResolveAgent` and
`ResolveProviders` are what stages ask. A mapping is a sequence of entries, as
"first role with this workflow" depends on the order. An entry of an overriding file
may leave out its workflow or its providers, which it then inherits from the entry of
the same name below (`MergedEntry`); one that ends without a workflow is rejected
(`WorkflowsAreGiven`). `At` picks the entries on a set of positions and `First` the
least of them, so nothing here is recursive.

`Stages` are the workflows a run asks for. A run of `generate_code` asks for
planning, design, code, testing and review, which the validation requires, and at
the end for "learning", which it does not: the `chronicle` stage records a lesson. The
packaged defaults have a role for it and no agent. `AcceptedRunsAreStaffed` therefore
promises somebody for the last stage only if the files provide for it
(`LessonsAreProvidedFor`). Runs of the other workflows have one stage, done by their own
agent (`Called`).

In all modules a definition directly above another with the same parameters is
a faulty variant of it (`EnqueueTwice` above `Enqueue`); each shows that a
property notices a plausible mistake in that code.

## 4. Runs

| run | instance | shows |
| --- | --- | --- |
| `lifecycle_confirm` | 1 run, confirmation, 1 tool, 2 stages, 1 restart, fairness | `ImplementsContract`; starts only with approved plan (`StartedWithApprovedPlan`), `waiting_tool` is left (`WaitingToolHasThread`); `PlanningEnds`, `QueuedRunsEnd`, `StopReturns` |
| `lifecycle_two_runs` | 2 runs, 1 slot, no confirmation | both planners of a run approve and dispatch: `ExecutesOnce`; `QueueConsistent`, `NoLostJob`, `NoAbandonedRun` |
| `job_leases` | 2 workers, 2 jobs, lease 2, interval 1, delay 1 | `ExclusiveProcessing`, `OutcomeFinal`, `CompletedJobMeansFinishedRun` |
| `lease_lost` | 2 workers, 1 execution job, lease 1, interval 2, failing writes | `ExecutesOnceAcrossWorkers` although jobs get two workers |
| `execution_plan` | generate_code, learning and direct workflows, 3 iterations | `ResultIsCoherent`, `RowInPipelineOrder`, `PersistedIsDocumented`, `CancelStopsWork`, `ExecutionEnds` |
| `retry_gateway` | 1 call, 3 providers, 2 retries, budget of the first provider 2 or 1, window 1, fairness | `BudgetNotExceeded`, `AnswerNotLost`, `NoCallLeftBehind`, `CallsEnd` |
| `notifier` | 2 execution jobs, no poll limit or 2 polls, 2 refused messages, fairness | `LiveWatcherIsRegistered`, `SilencedOnlyIfTold`, `NoWatcherSurvives`, `WatchedRunsAreAnnounced` |
| `search_index` | 2 processes, 2 rows a table, 3 starts | `SoleStarterSucceeds`, `WrittenRowsAreFound`, `SearchIsComplete`, `SomebodyComesThrough` |
| `command_line` | 2 bot processes, limits 1, 3 or none, interval 2, request 2, lateness 1, fairness | `ReadyWhileConsuming`, `StopsCompletely`, `GivesUpInTime`, `EndedRunsAreReported`, `CommandsEnd` |
| `settings` | packaged defaults, 18 local files, about 9,100 explicit files | `AcceptedRunsAreStaffed`, `ExplicitAgentsServe` |
| `agreed_plan`, `cli_run` | as `lifecycle_confirm` | disagreements between documents and code, see below |

Bounds. One run suffices for everything that concerns a single row: all its
competitors (two planners, handler, worker, tool thread, shutdown) are there.
`MaxJobs = 3` exceeds the execution jobs one run can get (one per planner, one
by approval). Two runs meet in the queue, the handler and a single slot, the
only places where runs meet. One restart reaches every combination of persisted
state and empty memory. In `job_leases` lease, interval and delay are the
smallest values with interval + delay = lease, where expiry and renewal compete
at the same instant. Three review iterations have a first, a middle and a last
one. Three providers compete for a budget of two or one,
just as concurrent calls do, since the budget does not know the calls apart (the
proof covers any number of both), and failures arrive between two others; a
window of one tick has entries inside, at and beyond its edge. Two execution jobs are all one run of the notifier model can
get (one per planner without confirmation, or one by approval and one by a
planner that begins later). Two refused messages silence worker and watcher once
each. In `search_index` two processes are enough for every pair of statements
to meet, the third start is one alone after the other two, and the two rows tell an old
row from a new one. `command_line` has a limit below the interval and one above it, a
request as long as the interval, and a second process that may start while the
first one's answer is awaited; the clock of a command without a limit stops
counting at 4, as nothing reads it. The explicit files of `settings` keep, rename
or leave out agents of the pipeline, with known, unknown and no providers; they may bring
an agent for lessons, empty the roles, extend them, or give the packaged `chronicler`
role other work, and some entries leave out their workflow.
Deadlock is not checked: when all runs have ended and all prompts are used up,
a command has ended or settings are judged, the system rests.

Fairness (`FairSpec`). Weak fairness of the handler, the consumer, every planner,
worker task and execution, and the tool thread: the event loop runs every ready
coroutine, HTTP calls have time-outs and so do tool subprocesses. The other
modules assume the same of the execution (`ExecutionPlan`), of every provider call
and of `generate()` (`RetryGateway`), and of jobs, replies and watchers (`Notifier`),
where the number of refused messages is bounded, which is what "temporarily"
means. The user owes no action, and stopping is never required: a system that is
stopped or restarted is excused from `PlanningEnds` and `QueuedRunsEnd`, because
nothing queues persisted jobs again. In `command_line` the command, the clock and
the steps of the bot's own process are fair; signals, failures, restarts and the
end of a polled run are not. `cli_run` uses the fairness of `lifecycle_confirm`, so
its counterexample is not a system that merely stops.

Findings:

- `agreed_plan`: each chat prompt is planned twice (`submit_prompt.py:92` and
  `interfaces/telegram/handlers.py:258`); the slower planner replaces the plan the
  user has approved.
- `cli_run`: `mergemate run` never starts a worker.

Also visible in the models, without a run of their own:

- `application/use_cases/submit_prompt.py:114` writes FAILED over CANCELLED when the
  planner fails after the cancellation (`DraftFails`), although
  `domain/shared/value_objects.py:23` calls these statuses final.
- A lease shorter than the heartbeat interval is accepted
  (`config/models.py:249`) and lets two processes plan one run; `job_leases` and
  its theorems are conditional on `LeaseCoversHeartbeat` for this reason.
- A 429 without a usable Retry-After is charged to the budget (`WaitsAsTold` is
  not taken, `BacksOff` is), unlike the docstring at
  `infrastructure/llm/gateway.py:74`.
- There is one retry budget per process, made from the settings of the first
  provider that is called (`gateway.py:120`), although `docs/user-guide.md:327`
  describes them as settings of a provider.
- A run that was cancelled, or approved by hand, while its planning job was
  drafting is announced as started automatically (`PlanNotice`,
  `application/jobs/worker.py:171`).
- When `complete_job` raises inside the `try` of `application/jobs/worker.py:138`, a
  run that has just been completed is failed.
- The failure of a run that nobody watches is announced once
  (`application/jobs/worker.py:166`); if that message is refused nobody repeats it.
- With the packaged souls the default agent `coder` may not write the architecture
  document its own workflow begins with (`domain/agents/soul.py:143`), so its runs
  fail after the first model call (`DocumentRefused`).
- Readiness means that the worker takes jobs (`ReadyWhileConsuming`). It is `ready`
  before the webhook listener is up and until `post_stop`, although
  `docs/operations/webhook-deployment.md:74` speaks of traffic. `mark_failed` is called by
  nobody.
- The search index is filled only by the process that creates it. One that ends
  before the fill is committed hides the older rows for good (`cut` in
  `SearchIsComplete`), where `docs/architecture/feature-gaps-cli-resume-search.md:348` rebuilds whenever the index
  is behind. Of processes that start together some may fail with "duplicate
  column name", "already exists" or "database is locked"; `SomebodyComesThrough`
  says that never all do.
- `probe-readiness --wait` ends with a traceback when the server drops its
  connection or a read times out, as neither is a `URLError` (`RequestRaises`);
  `_poll_run` says "Timed out" without a last look (`EndedRunsAreReported` bounds
  by how much). `chat` and `resume` print the history of a conversation first, by a
  method the SQLite repository does not have, and so end with an `AttributeError`
  before they submit, approve or poll; the model of the polling is what they would
  share with `run`.
- The validation requires the agents of `generate_code` by name (`config/models.py:379`),
  but not the one for "learning" that its `chronicle` stage resolves
  (`application/services/workflow_service.py:198`), although `docs/user-guide.md:355`
  speaks of one configured agent per workflow role. With `roles: null` in a file, or a
  `chronicler` role with another workflow, and no learning agent, the settings are
  accepted and a run that reaches this stage fails with `ConfigWorkflowNotFoundError`,
  after the model calls of design, code, testing and review. Without the condition
  `LessonsAreProvidedFor` TLC finds `AcceptedRunsAreStaffed` violated by such a file.
- A role comes before an agent. An explicit file replaces `agents` but is merged
  with the packaged `roles`, so an agent under a new name is passed over for the
  packaged role of its workflow, with the default provider;
  `ExplicitAgentsServe` holds for files that empty `roles`. The providers of roles
  are never validated, and a preferred agent is ignored wherever a role exists.

## 5. Proofs

All theorems hold for every value of the constants that satisfies the named
assumptions (`LifecycleAssumption`, `LeaseAssumption`, `PlanAssumption`,
`GatewayAssumption`, `NotifierAssumption`, `RuntimeAssumption`,
`CommandAssumption`, `SearchAssumption`, `FilesAssumption`): any number of runs, workers, jobs, tools, restarts,
iterations, calls, providers, retries, processes, starts and rows, any limits and
intervals. `SearchAssumption` asks for at least one process, without which nobody
could come through; `FilesAssumption` says that each file is a YAML mapping, whose
keys are distinct, and tells a key that is left out from an empty one.

`RunLifecycleProofs`, first part: `TypeCorrect`, `StartInvariant`, `RunsExecuteOnce`,
`StartsAreApproved`. "Started at most once" is not inductive: nothing in it
says why a run cannot return to `queued`. `StartInv` adds that a started run is
approved and not queued. Only `approve` writes `queued`, and it refuses
approved runs; a failed revision writes back what it read, so the invariant also
records that this was `awaiting_confirmation`. That a start finds a plan needs
approved runs to have one, hence that planners write the plan before they
approve, and that a new row is never created under work of the same run
(`WorkNamesKnownRuns`). Each action has a step of its own, resting on lemmas
about what the row operators preserve.

`RunLifecycleProofs`, the other parts: `RuntimeInvariant`, `QueueStaysConsistent`, `NoJobIsLost`,
`RuntimeImplementsContract`, `WaitingToolIsAttended`, `NoRunIsAbandoned`, in three
steps.

- `RuntimeInv` says where every job is. `QueueConsistent` relates the queue, the
  pending ids, the tasks and the table, but not to what a task is about to do with
  its row; `Placed` does, place by place. That a new job is put on a place of its
  own needs that a run has at most one active execution job (`OneJobAtATime`, the
  unique index of `run_jobs`), that whoever is about to dispatch has not done so
  (`BeforeDispatch`), and that handler and worker are not inside a segment at once
  (`OneSegmentAtATime`). A restarted process meets rows it does not hold;
  `ActiveIsPending` is for the others.
- The refinement asks, for each step, which move of the contract it is. Most of
  the work are the planners: every run has two of them, both draft for
  a long time, and what they write must still be allowed when they return.
  `OnePlannerLeft` says that once a run has a plan at most one of them is still to
  answer, `AwaitingWasSeen` that a planner of a run that awaits its user has read
  just that, `RevisedRow` what may happen to a run under revision, and
  `NothingDispatched` that a run which is still to be decided has no execution job. Each action is then shown to be a move of one run
  (`ContractMove`) or none.
- `AttendedInv` adds who attends to a run that waits: an approved run in the
  queue has an execution job, or somebody between its approval and the dispatch
  (`ExecJobAtWork`); a run without a plan has its plan job at work (`PlanJobAtWork`);
  `waiting_tool` has its thread. A deployment asks for every confirmation or for
  none (`ConfirmationKept`), so a queued run without approval is one whose planner is
  about to approve it. The two job parts hold until the process is stopped or
  restarted: nothing queues persisted jobs again.

`JobLeasesProofs`: `TypeCorrect`, `LeaseIsExclusive`, `OutcomesAreFinal`,
`RunsExecuteOnceAcrossWorkers`, `CompletedJobsFinishedTheirRuns`. The invariant
is `HolderOwnsLease`: who holds a job owns its row, its heartbeat is alive, and
the lease left is at least the time to the next heartbeat plus the slack between
lease and interval. With interval + delay at most the lease, the lease of a
held job is never negative, so nobody else can claim it; two holders would both
be the owner. `StartedOnce` needs no such condition. `CompletedJobMeansFinishedRun`
rests on `RunningHasTask`: a run is `running` only while a task executes it.

`ExecutionPlanProofs`: `TypeCorrect`, `PipelineInvariant`, `ResultsAreCoherent`,
`RowsAreInPipelineOrder`, `PersistedTextsAreDocumented`, `CancelledRunsStop`. That
a result is of one piece says nothing about a loop that is half through an
iteration. `PipelineInv` does: the stages up to the current one hold texts of
this iteration, the later ones those of the previous iteration, and the row
mirrors them. `LoopShape` adds which plan belongs to which iteration.

`RetryGatewayProofs`: `BudgetIsKept`, `SweepsAreComplete`, `TypeCorrect`,
`GatewayInvariant`, `NoAnswerIsLost`, `NoCallIsLeftBehind`. For the budget the invariant
is that the recorded ages are sorted, oldest first, and no more than the limit. `_sweep()`
only looks at the front, so what it leaves is free of expired entries because the
list is sorted; that it stops somewhere is the existence of a least index
(`SweepStops`), and that a charge fits is the check just before it. Apart from the budget
calls do not touch each other (`OtherCalls`), so `GatewayInv` is one invariant per
call: while `as_completed()` listens, every answer is queued (`CallInv`). The
failure that makes `generate()` raise is the only completion left, so no answer
is. Attempts stay in range because only a task with a retry left sleeps.

`SearchIndexProofs`: `SearchInvariant`, `SoleStartersSucceed`, `WritesAreFound`,
`SearchesAreComplete`, `SomebodyAlwaysComesThrough`. None of the four properties is
inductive, as each is about committed tables or failed processes and what happens next
depends on what a process has already looked up. `SearchInv` has three layers:
both the committed tables and those of an open transaction are `Sound` (no entry
without an index, none out of date, what was written is indexed); a transaction
only adds (`DraftExtends`), so what a process has found stays (`Passed`); and a process
raises only if it is `Behind`, that is, its next statement is already done. The one
with the write lock never is (`WriterIsAhead`), nor one that initialises alone
(`AloneIsAhead`: serving processes have triggers for every table, which a
process still about to fill an index excludes). Whoever has just moved is not behind
either, so when one process fails there is another that has not and will not by
anything done so far: this is `SomebodyIsAhead`, the strengthening that
`SomebodyComesThrough` needs. `FilledOrCut` says the same of the committed tables and
of the transaction: an incomplete index has somebody at work on it, or in `cut`.

`NotifierProofs`: `LiveWatchersAreRegistered`, `WatchersAreStopped`,
`DeliveriesHappened`. That nothing starts a watcher after the shutdown needs its
order: no reply is pending once the worker is being stopped, no job is left once
the watchers are (`ShutdownInOrder`).

`CommandLineProofs`: `TypeCorrect`, `ReadinessIsTrue`, `ProcessesStopCompletely`,
`LimitsAreKept`, `OnlyTheLastSleepIsMissed`. `RuntimeInv` records what each phase of
a start or stop knows of its parts: a process that still starts has had no signal,
`post_stop` has told the readiness state, `post_shutdown` the worker. That a limit is
exceeded by at most a sleep and a request needs the clock at each step of the
command (`ElapsedBound`: a sleep begins before the limit, a look comes at most one
sleep later), and that only the last sleep can hide the end of a run is the same
argument for the time of that end (`UnseenEnd`).

`AgentSettingsProofs`: `SettingsInvariant`, `AcceptedSettingsStaffRuns`,
`AgentsOfExplicitFilesServe`. `SettingsInv` follows the settings
through the four steps: agents and roles stay lists of entries, an explicit file with
agents and empty roles has determined both, and accepted settings meet the four
conditions of the validation. Nothing validated says who records a lesson, so this
has to be followed through the merges: `RecordersStay` says that the packaged recorder
is among the roles as long as each file merged so far has left it there. Of the merge
two facts are needed: two lists give a list, and the entries of the lower one
keep their place (`MergedIsSequence`), from which `MergedRolesKeepRecorder` follows.
The first entry of a workflow exists as every nonempty set of
positions has a least one (`FirstIsNamed`). That an agent of an explicit file is the
one its workflow resolves to needs that no two agents share a workflow: the
validation only counts, and a map onto a finite set of the same size is
one-to-one (`WorkflowsAreDistinct`).

The strengthenings themselves (`StartInv`, `RuntimeInv` and `AttendedInv` of the
runtime, `RunningHasTask`, `PipelineInv`, `GatewayInv`, `SearchInv`, `CommandInv`,
`SettingsInv`)
were checked with TLC before they were proved, on the instances of the runs
and, for `AttendedInv`, with one and two runs, with and without confirmation and
with up to two restarts; no run repeats that. The same holds for what the proofs show beyond
the runs' properties (`SweepIsComplete`, `HolderOwnsLease`).

So every invariant and action property of the passing runs is a theorem, and so is
`ImplementsContract`. Only model-checked are the liveness properties
(`PlanningEnds`, `QueuedRunsEnd`, `StopReturns`, `ExecutionEnds`, `CallsEnd`,
`WatchedRunsAreAnnounced`, `CommandsEnd`), as the proof system does not handle
fairness.

## 6. Not modelled

The estimator, plugin workflows, parallel roles within a stage and message
chunking are on the plan. Wiring, single-value validators of the configuration,
prompt and message texts, the contents of documents, HTTP requests, tool
subprocesses, the ranking of search results and the parsing of queries, and the
conversation, learning, knowledge and tool-event tables are left out: they are
I/O or text, and nothing in the life of a run depends on what they return.
