---------------------------- MODULE RunLifecycle ----------------------------
(***************************************************************************)
(* One MergeMate runtime process: the chat handlers, the submit, approve,  *)
(* revise and cancel use cases, the dispatcher, the in-memory LocalQueue,  *)
(* the BackgroundRunWorker and the orchestrator, over the persisted        *)
(* agent_runs and run_jobs tables.                                         *)
(*                                                                         *)
(* Concurrency.  All coroutines share one asyncio event loop: code between *)
(* two awaits is never interleaved with another coroutine.  A segment that *)
(* commits more than one transaction is a chain of actions through the     *)
(* "mid-segment" program counters, and LoopFree keeps every other          *)
(* coroutine out until the chain ends.  Tool threads (asyncio.to_thread)   *)
(* and a crash of the process do interleave inside a segment.              *)
(*                                                                         *)
(* Every run has a chat of its own, so "the latest non-terminal run of the *)
(* chat" is that run; runs meet in the queue, the semaphore, the event     *)
(* loop and the handler, which treats one update at a time.                *)
(*                                                                         *)
(* Definitions directly above another one with a longer or different name  *)
(* and the same parameters (EnqueueTwice above Enqueue, ...) are faulty    *)
(* variants of it; they serve to confirm that a property notices them.     *)
(***************************************************************************)
EXTENDS Naturals, Sequences, FiniteSets, RunStore

CONSTANTS
    Runs,                 \* run ids
    NoRun,                \* no run is being handled
    Interface,            \* "telegram": bot with a started worker; "cli": mergemate run / chat
    RequireConfirmation,  \* workflow_control.require_confirmation
    MaxConcurrentRuns,    \* size of the worker's semaphore
    MaxJobs,              \* bound: job ids available per run and job type
    MaxTools,             \* bound: context tools an agent has enabled
    MaxStages,            \* bound: stage handlers one execution may call
    MaxRestarts           \* bound: process exits (orderly or by a crash)

ASSUME LifecycleAssumption ==
    /\ NoRun \notin Runs
    /\ Interface \in {"telegram", "cli"}
    /\ RequireConfirmation \in BOOLEAN
    /\ MaxConcurrentRuns \in Nat \ {0}
    /\ MaxJobs \in Nat \ {0}
    /\ MaxTools \in Nat
    /\ MaxStages \in Nat \ {0}
    /\ MaxRestarts \in Nat

PlanJobs == Runs \X {"plan_run"} \X (1..MaxJobs)
ExecJobs == Runs \X {"execute_run"} \X (1..MaxJobs)
JobIds   == PlanJobs \cup ExecJobs

\* The task handle_prompt starts after its acknowledgement was delivered.
Continuations == Runs \X {"continue_planning"} \X {1}
Continuation(r) == <<r, "continue_planning", 1>>

\* The coroutines that run complete_planning().
Planners == PlanJobs \cup Continuations
Tasks    == JobIds \cup Continuations
RunOf(t) == t[1]

JobStatus == {"none", "queued", "running", "completed", "failed"}
ActiveJobStatus == {"queued", "running"}

VARIABLES
    run,        \* agent_runs: [Runs -> RunRow]
    job,        \* run_jobs: [JobIds -> JobStatus]
    queue,      \* LocalQueue._queue
    pending,    \* LocalQueue._pending_job_ids
    pc,         \* where each task is: [Tasks -> PC]
    seen,       \* the run status complete_planning() read before its await
    left,       \* stage handlers the execution of a job may still call
    tool,       \* the thread that builds a job's tool context
    toolsLeft,  \* tools that thread has still to invoke
    handler,    \* the update the bot is handling
    stopping,   \* BackgroundRunWorker._stopping
    restarts,   \* process exits so far
    hist        \* history: starts of the run, plan agreed on, plan executed

vars == <<run, job, queue, pending, pc, seen, left, tool, toolsLeft,
          handler, stopping, restarts, hist>>

\* Program counters at which a task holds the event loop between two writes.
MidSegment == {"approving", "dispatching", "completing", "failing", "failing_run"}

\* Awaits inside the worker's semaphore.
Awaiting == {"drafting", "tools", "direct", "stages", "remembering"}

PC == {"idle", "spawned", "claimed", "finishing"} \cup MidSegment \cup Awaiting

HandlerPC == {"idle", "submitting", "acking", "approving", "revising"}
MidHandler == {"submitting", "approving"}
IdleHandler == [pc |-> "idle", run |-> NoRun, status |-> "absent", stage |-> "planning"]

LoopFree == /\ \A t \in Tasks : pc[t] \notin MidSegment
            /\ handler.pc \notin MidHandler

\* Jobs inside "async with self._semaphore".
InSlot == {j \in JobIds : pc[j] \in Awaiting \cup MidSegment}

\* No update is in flight; updates are no longer fetched during a shutdown.
HandlerFree == handler.pc = "idle" /\ ~stopping /\ LoopFree

Init ==
    /\ run = [r \in Runs |-> NoRow]
    /\ job = [j \in JobIds |-> "none"]
    /\ queue = <<>>
    /\ pending = {}
    /\ pc = [t \in Tasks |-> "idle"]
    /\ seen = [t \in Planners |-> "absent"]
    /\ left = [j \in ExecJobs |-> 0]
    /\ tool = [j \in ExecJobs |-> "none"]
    /\ toolsLeft = [j \in ExecJobs |-> 0]
    /\ handler = IdleHandler
    /\ stopping = FALSE
    /\ restarts = 0
    /\ hist = [r \in Runs |-> [starts |-> 0, agreed |-> "null", executed |-> "null"]]

-----------------------------------------------------------------------------
(* Dispatch: a job row plus its id in the in-memory queue.                 *)

JobsOf(r, type) == {j \in JobIds : j[1] = r /\ j[2] = type}

\* The job dispatch_run() enqueues: a fresh row, unless the unique index on
\* active jobs refuses the insert and the active job is returned instead.
EnsureQueuedJob(r, type) ==
    LET active == {j \in JobsOf(r, type) : job[j] \in ActiveJobStatus}
        fresh  == {j \in JobsOf(r, type) : job[j] = "none"}
    IN  IF active # {} THEN active
        ELSE {j \in fresh : \A k \in fresh : j[3] <= k[3]}

\* LocalQueue.enqueue(): an id that is pending is not queued again.
EnqueueTwice(q, j) == Append(q, j)
Enqueue(q, j) == IF j \in pending THEN q ELSE Append(q, j)

DispatchRun(r, type) ==
    \E j \in EnsureQueuedJob(r, type) :
        /\ job' = [job EXCEPT ![j] = IF @ = "none" THEN "queued" ELSE @]
        /\ queue' = Enqueue(queue, j)
        /\ pending' = pending \cup {j}

-----------------------------------------------------------------------------
(* Chat handlers and use cases.                                            *)

\* SubmitPromptUseCase.execute(), first write: the run row.
Submit(r) ==
    /\ HandlerFree
    /\ run[r].status = "absent"
    /\ run' = [run EXCEPT ![r] = Create(IF RequireConfirmation
                                        THEN "awaiting_confirmation" ELSE "queued")]
    /\ handler' = [IdleHandler EXCEPT !.pc = "submitting", !.run = r]
    /\ UNCHANGED <<job, queue, pending, pc, seen, left, tool, toolsLeft, stopping, restarts, hist>>

\* What follows the use case: the chat handler goes on to send the acknowledgement;
\* run_cli() leaves the event loop and polls the row, and never starts a worker.
AfterSubmit ==
    IF Interface = "telegram" THEN [handler EXCEPT !.pc = "acking"] ELSE IdleHandler

\* ... second write: its PLAN_RUN job.
SubmitDispatch ==
    /\ handler.pc = "submitting"
    /\ DispatchRun(handler.run, "plan_run")
    /\ handler' = AfterSubmit
    /\ UNCHANGED <<run, pc, seen, left, tool, toolsLeft, stopping, restarts, hist>>

\* The acknowledgement was delivered: handle_prompt starts _continue_planning().
AcknowledgementSent ==
    /\ handler.pc = "acking" /\ LoopFree
    /\ pc' = [pc EXCEPT ![Continuation(handler.run)] = "spawned"]
    /\ handler' = IdleHandler
    /\ UNCHANGED <<run, job, queue, pending, seen, left, tool, toolsLeft, stopping, restarts, hist>>

\* Sending it raised: the handler ends before it starts _continue_planning().
AcknowledgementLost ==
    /\ handler.pc = "acking" /\ LoopFree
    /\ handler' = IdleHandler
    /\ UNCHANGED <<run, job, queue, pending, pc, seen, left, tool, toolsLeft, stopping, restarts, hist>>

\* The guards of SubmitPromptUseCase.approve(); every other case returns
\* without a write.
MayApproveUnplanned(row) ==
    /\ row.status = "awaiting_confirmation"
    /\ ~row.approved
MayApprove(row) ==
    /\ row.status = "awaiting_confirmation"
    /\ row.plan # "null"
    /\ ~row.approved

ApproveRun(r) ==
    /\ HandlerFree /\ Interface = "telegram"
    /\ MayApprove(run[r])
    /\ run' = [run EXCEPT ![r] = Approve(@)]
    /\ hist' = [hist EXCEPT ![r].agreed = run[r].plan]
    /\ handler' = [IdleHandler EXCEPT !.pc = "approving", !.run = r]
    /\ UNCHANGED <<job, queue, pending, pc, seen, left, tool, toolsLeft, stopping, restarts>>

ApproveDispatch ==
    /\ handler.pc = "approving"
    /\ DispatchRun(handler.run, "execute_run")
    /\ handler' = IdleHandler
    /\ UNCHANGED <<run, pc, seen, left, tool, toolsLeft, stopping, restarts, hist>>

\* CancelRunUseCase.execute(): only from awaiting_confirmation.
CancelUnfinishedRun(r) ==
    /\ HandlerFree /\ Interface = "telegram"
    /\ run[r].status \notin TerminalStatuses \cup {"absent"}
    /\ run' = [run EXCEPT ![r] = UpdateStatus(@, "cancelled", @.stage)]
    /\ UNCHANGED <<job, queue, pending, pc, seen, left, tool, toolsLeft, handler, stopping, restarts, hist>>
CancelRun(r) ==
    /\ HandlerFree /\ Interface = "telegram"
    /\ run[r].status = "awaiting_confirmation"
    /\ run' = [run EXCEPT ![r] = TryUpdateStatus(@, "cancelled", "awaiting_confirmation", @.stage)]
    /\ UNCHANGED <<job, queue, pending, pc, seen, left, tool, toolsLeft, handler, stopping, restarts, hist>>

\* handle_prompt() revises the latest run of the chat when it has a plan that
\* awaits confirmation; every other text is a new prompt or is refused.
Revisable(row) == row.status = "awaiting_confirmation" /\ row.plan # "null"

\* revise_plan_for_chat() up to the await of the planning model.
ReviseBegin(r) ==
    /\ HandlerFree /\ Interface = "telegram"
    /\ Revisable(run[r])
    /\ handler' = [pc |-> "revising", run |-> r, status |-> run[r].status, stage |-> run[r].stage]
    /\ UNCHANGED <<run, job, queue, pending, pc, seen, left, tool, toolsLeft, stopping, restarts, hist>>

ReviseSucceeds ==
    /\ handler.pc = "revising" /\ LoopFree
    /\ run' = [run EXCEPT ![handler.run] = UpdatePlan(@, "revision", "awaiting_user_confirmation")]
    /\ handler' = IdleHandler
    /\ UNCHANGED <<job, queue, pending, pc, seen, left, tool, toolsLeft, stopping, restarts, hist>>

\* The planning model failed: status and stage are written back as they were
\* before the await.
ReviseFails ==
    /\ handler.pc = "revising" /\ LoopFree
    /\ run' = [run EXCEPT ![handler.run] = UpdateStatus(@, handler.status, handler.stage)]
    /\ handler' = IdleHandler
    /\ UNCHANGED <<job, queue, pending, pc, seen, left, tool, toolsLeft, stopping, restarts, hist>>

-----------------------------------------------------------------------------
(* The worker: one consumer, one task per job.                             *)

\* _consume_loop() and enqueue(): a task is created unless one is active.
Consume ==
    /\ Interface = "telegram" /\ ~stopping /\ LoopFree
    /\ queue # <<>>
    /\ queue' = Tail(queue)
    /\ pc' = [pc EXCEPT ![Head(queue)] = IF @ = "idle" THEN "spawned" ELSE @]
    /\ UNCHANGED <<run, job, pending, seen, left, tool, toolsLeft, handler, stopping, restarts, hist>>

\* First step of _consume(): claim the job before waiting for the semaphore.
\* A running row could be claimed once its lease has expired (module JobLeases);
\* in one process no delivered job has one, see QueueConsistent.
ClaimJob(j) ==
    /\ pc[j] = "spawned" /\ ~stopping /\ LoopFree
    /\ job' = [job EXCEPT ![j] = IF @ = "queued" THEN "running" ELSE @]
    /\ pc' = [pc EXCEPT ![j] = IF job[j] = "queued" THEN "claimed" ELSE "finishing"]
    /\ UNCHANGED <<run, queue, pending, seen, left, tool, toolsLeft, handler, stopping, restarts, hist>>

MayEnter(j) ==
    /\ pc[j] = "claimed" /\ ~stopping /\ LoopFree
    /\ Cardinality(InSlot) < MaxConcurrentRuns

CompleteJob(j) ==
    /\ pc[j] = "completing"
    /\ job' = [job EXCEPT ![j] = "completed"]
    /\ pc' = [pc EXCEPT ![j] = "finishing"]
    /\ UNCHANGED <<run, queue, pending, seen, left, tool, toolsLeft, handler, stopping, restarts, hist>>

FailJobUnrecorded(j) ==
    /\ pc[j] = "failing"
    /\ pc' = [pc EXCEPT ![j] = "finishing"]
    /\ UNCHANGED <<run, job, queue, pending, seen, left, tool, toolsLeft, handler, stopping, restarts, hist>>
FailJob(j) ==
    /\ pc[j] = "failing"
    /\ job' = [job EXCEPT ![j] = "failed"]
    /\ pc' = [pc EXCEPT ![j] = "finishing"]
    /\ UNCHANGED <<run, queue, pending, seen, left, tool, toolsLeft, handler, stopping, restarts, hist>>

\* The heartbeat and the notification have ended; the done callbacks forget
\* the task and acknowledge the job id.
TaskDone(j) ==
    /\ pc[j] = "finishing" /\ LoopFree
    /\ pc' = [pc EXCEPT ![j] = "idle"]
    /\ pending' = pending \ {j}
    /\ UNCHANGED <<run, job, queue, seen, left, tool, toolsLeft, handler, stopping, restarts, hist>>

-----------------------------------------------------------------------------
(* complete_planning(), run by a PLAN_RUN job and by _continue_planning(). *)

\* The text draft_plan() returns, represented by who asked for it.
Author(t) == IF t \in PlanJobs THEN "worker" ELSE "chat"

\* Where a planner goes when complete_planning() has returned or raised.
AfterPlanning(t, jobStep) == IF t \in PlanJobs THEN jobStep ELSE "idle"

PlanBegin(t) ==
    /\ IF t \in PlanJobs THEN MayEnter(t) ELSE pc[t] = "spawned" /\ LoopFree
    /\ seen' = [seen EXCEPT ![t] = run[RunOf(t)].status]
    /\ pc' = [pc EXCEPT ![t] = "drafting"]
    /\ UNCHANGED <<run, job, queue, pending, left, tool, toolsLeft, handler, stopping, restarts, hist>>

Resumable(t) == LoopFree /\ (t \in JobIds => ~stopping)

PlanningFailureIgnored(row) == row
PlanningFailed(row) == UpdateStatus(row, "failed", "planning")

DraftFails(t) ==
    /\ pc[t] = "drafting" /\ Resumable(t)
    /\ run' = [run EXCEPT ![RunOf(t)] = PlanningFailed(@)]
    /\ pc' = [pc EXCEPT ![t] = AfterPlanning(t, "failing")]
    /\ UNCHANGED <<job, queue, pending, seen, left, tool, toolsLeft, handler, stopping, restarts, hist>>

\* The branch is chosen by the status read before the await.
DraftSucceeds(t) ==
    /\ pc[t] = "drafting" /\ Resumable(t)
    /\ run' = [run EXCEPT ![RunOf(t)] =
                  UpdatePlan(@, Author(t), IF seen[t] = "awaiting_confirmation"
                                           THEN "awaiting_user_confirmation"
                                           ELSE "queued_for_execution")]
    /\ pc' = [pc EXCEPT ![t] = IF seen[t] = "awaiting_confirmation"
                               THEN AfterPlanning(t, "completing") ELSE "approving"]
    /\ UNCHANGED <<job, queue, pending, seen, left, tool, toolsLeft, handler, stopping, restarts, hist>>

AutoApprove(t) ==
    /\ pc[t] = "approving"
    /\ run' = [run EXCEPT ![RunOf(t)] = Approve(@)]
    /\ hist' = [hist EXCEPT ![RunOf(t)].agreed =
                   IF Approvable(run[RunOf(t)]) THEN run[RunOf(t)].plan ELSE @]
    /\ pc' = [pc EXCEPT ![t] = "dispatching"]
    /\ UNCHANGED <<job, queue, pending, seen, left, tool, toolsLeft, handler, stopping, restarts>>

\* Dispatched whether or not approve() made the transition.
AutoDispatch(t) ==
    /\ pc[t] = "dispatching"
    /\ DispatchRun(RunOf(t), "execute_run")
    /\ pc' = [pc EXCEPT ![t] = AfterPlanning(t, "completing")]
    /\ UNCHANGED <<run, seen, left, tool, toolsLeft, handler, stopping, restarts, hist>>

-----------------------------------------------------------------------------
(* AgentOrchestrator.process_run() and the execution plans.                *)

ExecutableOnceApproved(row) == row.approved
Executable(row) ==
    /\ row.status \notin SkipProcessStatuses
    /\ row.approved
    /\ row.status = "queued"

StartRun(row) == TryUpdateStatus(row, "running", "queued", "retrieve_context")

CountStart(r) ==
    [hist EXCEPT ![r] = [starts |-> @.starts + 1, agreed |-> @.agreed, executed |-> run[r].plan]]

ExecBegin(j) ==
    /\ MayEnter(j) /\ Executable(run[RunOf(j)])
    /\ run' = [run EXCEPT ![RunOf(j)] = StartRun(@)]
    /\ hist' = CountStart(RunOf(j))
    /\ \E n \in 0..MaxTools : toolsLeft' = [toolsLeft EXCEPT ![j] = n]
    /\ tool' = [tool EXCEPT ![j] = "between"]
    /\ pc' = [pc EXCEPT ![j] = "tools"]
    /\ UNCHANGED <<job, queue, pending, seen, left, handler, stopping, restarts>>

\* Building the prompt or the execution plan raised: the run was started and
\* is failed in the same segment.
ExecBeginRaises(j) ==
    /\ MayEnter(j) /\ Executable(run[RunOf(j)])
    /\ run' = [run EXCEPT ![RunOf(j)] = UpdateStatus(StartRun(@), "failed", "retrieve_context")]
    /\ hist' = CountStart(RunOf(j))
    /\ pc' = [pc EXCEPT ![j] = "failing"]
    /\ UNCHANGED <<job, queue, pending, seen, left, tool, toolsLeft, handler, stopping, restarts>>

\* The early returns of process_run(): the job completes, the run is left alone.
ExecSkip(j) ==
    /\ MayEnter(j) /\ ~Executable(run[RunOf(j)])
    /\ pc' = [pc EXCEPT ![j] = "completing"]
    /\ UNCHANGED <<run, job, queue, pending, seen, left, tool, toolsLeft, handler, stopping, restarts, hist>>

\* The tool thread; _transition_run_for_tool() around every invocation.
EnterTool(row) == TryUpdateStatus(row, "waiting_tool", "running", "tool")
LeaveToolBlindly(row) == UpdateStatus(row, "running", "retrieve_context")
LeaveToolWithoutReset(row) == row
LeaveTool(row) == TryUpdateStatus(row, "running", "waiting_tool", "retrieve_context")

\* The loop over the enabled tools has a next one.
OneToolTooMany(j) == tool[j] = "between" /\ toolsLeft[j] >= 0
MoreTools(j) == tool[j] = "between" /\ toolsLeft[j] > 0

ToolEnter(j) ==
    /\ MoreTools(j)
    /\ tool' = [tool EXCEPT ![j] = "invoking"]
    /\ toolsLeft' = [toolsLeft EXCEPT ![j] = @ - 1]
    /\ run' = [run EXCEPT ![RunOf(j)] = EnterTool(@)]
    /\ UNCHANGED <<job, queue, pending, pc, seen, left, handler, stopping, restarts, hist>>

ToolLeave(j) ==
    /\ tool[j] = "invoking"
    /\ tool' = [tool EXCEPT ![j] = "between"]
    /\ run' = [run EXCEPT ![RunOf(j)] = LeaveTool(@)]
    /\ UNCHANGED <<job, queue, pending, pc, seen, left, toolsLeft, handler, stopping, restarts, hist>>

ToolsReturn(j) ==
    /\ tool[j] = "between" /\ toolsLeft[j] = 0
    /\ tool' = [tool EXCEPT ![j] = "returned"]
    /\ UNCHANGED <<run, job, queue, pending, pc, seen, left, toolsLeft, handler, stopping, restarts, hist>>

Cancelled(j) == run[RunOf(j)].status = "cancelled"

\* The tool context arrived: the plan checks for a cancellation and awaits its
\* first model call, of a direct or of a multi-stage workflow.
PlanStart(j) ==
    /\ pc[j] = "tools" /\ tool[j] = "returned" /\ Resumable(j)
    /\ tool' = [tool EXCEPT ![j] = "none"]
    /\ left' = [left EXCEPT ![j] = MaxStages]
    /\ \E step \in {"direct", "stages"} :
           pc' = [pc EXCEPT ![j] = IF Cancelled(j) THEN "completing" ELSE step]
    /\ UNCHANGED <<run, job, queue, pending, seen, toolsLeft, handler, stopping, restarts, hist>>

\* DirectExecutionPlan: checks for a cancellation, then saves.
DirectDone(j) ==
    /\ pc[j] = "direct" /\ Resumable(j)
    /\ run' = [run EXCEPT ![RunOf(j)] = IF Cancelled(j) THEN @ ELSE SaveArtifacts(@, "execution")]
    /\ pc' = [pc EXCEPT ![j] = IF Cancelled(j) THEN "completing" ELSE "remembering"]
    /\ UNCHANGED <<job, queue, pending, seen, left, tool, toolsLeft, handler, stopping, restarts, hist>>

\* A stage of the multi-stage plan saves its artifact, or the replanning stage
\* writes a new plan; then the plan checks for a cancellation and goes on to
\* the next stage or, after its last one, to remembering the result.
StageDone(j) ==
    /\ pc[j] = "stages" /\ Resumable(j) /\ left[j] > 0
    /\ left' = [left EXCEPT ![j] = @ - 1]
    /\ \/ /\ run' = [run EXCEPT ![RunOf(j)] = SaveArtifacts(@, "execution")]
          /\ \E step \in {"stages", "remembering"} :
                /\ step = "stages" => left[j] > 1
                /\ pc' = [pc EXCEPT ![j] = IF Cancelled(j) THEN "completing" ELSE step]
       \/ /\ left[j] > 1
          /\ run' = [run EXCEPT ![RunOf(j)] = UpdatePlan(@, "replanning", "internal_replanning")]
          /\ pc' = [pc EXCEPT ![j] = IF Cancelled(j) THEN "completing" ELSE "stages"]
    /\ UNCHANGED <<job, queue, pending, seen, tool, toolsLeft, handler, stopping, restarts, hist>>

\* Any exception out of process_run(): the run fails whatever its status is.
ExecutionFailureIgnored(row) == row
ExecutionFailed(row) == UpdateStatus(row, "failed", row.stage)

ExecRaises(j) ==
    /\ pc[j] \in {"direct", "stages"} /\ Resumable(j)
    /\ run' = [run EXCEPT ![RunOf(j)] = ExecutionFailed(@)]
    /\ pc' = [pc EXCEPT ![j] = "failing"]
    /\ UNCHANGED <<job, queue, pending, seen, left, tool, toolsLeft, handler, stopping, restarts, hist>>

\* The lessons were recorded: the run completes whatever its status is.
ExecCompletes(j) ==
    /\ pc[j] = "remembering" /\ Resumable(j)
    /\ run' = [run EXCEPT ![RunOf(j)] = UpdateStatus(@, "completed", "completed")]
    /\ pc' = [pc EXCEPT ![j] = "completing"]
    /\ UNCHANGED <<job, queue, pending, seen, left, tool, toolsLeft, handler, stopping, restarts, hist>>

-----------------------------------------------------------------------------
(* Shutdown, crash and restart.                                            *)

\* BackgroundRunWorker.stop(), called once the application has drained its
\* handler and its own tasks.
Stop ==
    /\ Interface = "telegram" /\ HandlerFree
    /\ restarts < MaxRestarts
    /\ \A c \in Continuations : pc[c] = "idle"
    /\ stopping' = TRUE
    /\ UNCHANGED <<run, job, queue, pending, pc, seen, left, tool, toolsLeft, handler, restarts, hist>>

\* A task cancelled before its first step never runs; its callbacks do.
DropSpawned(j) ==
    /\ stopping /\ LoopFree /\ pc[j] = "spawned"
    /\ pc' = [pc EXCEPT ![j] = "finishing"]
    /\ UNCHANGED <<run, job, queue, pending, seen, left, tool, toolsLeft, handler, stopping, restarts, hist>>

\* The awaits inside the try block of _consume().
InterruptibleInsideSlot == Awaiting
Interruptible == {"claimed"} \cup Awaiting

\* CancelledError at an await: _mark_shutdown_interrupted() fails the job ...
Interrupt(j) ==
    /\ stopping /\ LoopFree /\ pc[j] \in Interruptible
    /\ job' = [job EXCEPT ![j] = "failed"]
    /\ pc' = [pc EXCEPT ![j] = "failing_run"]
    /\ UNCHANGED <<run, queue, pending, seen, left, tool, toolsLeft, handler, stopping, restarts, hist>>

\* ... and then the run, unless it is terminal.
Interrupted(row) == IF row.status \in TerminalStatuses THEN row
                    ELSE UpdateStatus(row, "failed", row.stage)

InterruptRun(j) ==
    /\ pc[j] = "failing_run"
    /\ run' = [run EXCEPT ![RunOf(j)] = Interrupted(@)]
    /\ pc' = [pc EXCEPT ![j] = "finishing"]
    /\ UNCHANGED <<job, queue, pending, seen, left, tool, toolsLeft, handler, stopping, restarts, hist>>

\* The process ends, at any point, and a new one starts: the tables survive,
\* the queue, the tasks and the threads do not, and nothing re-enqueues jobs.
Restart ==
    /\ Interface = "telegram" /\ restarts < MaxRestarts
    /\ restarts' = restarts + 1
    /\ queue' = <<>>
    /\ pending' = {}
    /\ pc' = [t \in Tasks |-> "idle"]
    /\ seen' = [t \in Planners |-> "absent"]
    /\ left' = [j \in ExecJobs |-> 0]
    /\ tool' = [j \in ExecJobs |-> "none"]
    /\ toolsLeft' = [j \in ExecJobs |-> 0]
    /\ handler' = IdleHandler
    /\ stopping' = FALSE
    /\ UNCHANGED <<run, job, hist>>

-----------------------------------------------------------------------------

User == \E r \in Runs : Submit(r) \/ ApproveRun(r) \/ CancelRun(r) \/ ReviseBegin(r)

Handler == \/ SubmitDispatch \/ AcknowledgementSent \/ AcknowledgementLost
           \/ ApproveDispatch \/ ReviseSucceeds \/ ReviseFails

Planner(t) == PlanBegin(t) \/ DraftFails(t) \/ DraftSucceeds(t) \/ AutoApprove(t) \/ AutoDispatch(t)

Worker(j) == \/ ClaimJob(j) \/ CompleteJob(j) \/ FailJob(j) \/ TaskDone(j)
             \/ DropSpawned(j) \/ Interrupt(j) \/ InterruptRun(j)

Executor(j) == \/ ExecBegin(j) \/ ExecBeginRaises(j) \/ ExecSkip(j) \/ PlanStart(j)
               \/ DirectDone(j) \/ StageDone(j) \/ ExecRaises(j) \/ ExecCompletes(j)

ToolThread(j) == ToolEnter(j) \/ ToolLeave(j) \/ ToolsReturn(j)

Next ==
    \/ User
    \/ Handler
    \/ Consume
    \/ \E t \in Planners : Planner(t)
    \/ \E j \in JobIds : Worker(j)
    \/ \E j \in ExecJobs : Executor(j) \/ ToolThread(j)
    \/ Stop
    \/ Restart

Spec == Init /\ [][Next]_vars

\* The event loop runs every ready coroutine, model and chat calls return or
\* raise (both have time-outs), and tool invocations end.  The user owes
\* nothing, and nobody has to stop the process.
Fairness ==
    /\ WF_vars(Handler)
    /\ WF_vars(Consume)
    /\ \A t \in Planners : WF_vars(Planner(t))
    /\ \A j \in JobIds : WF_vars(Worker(j))
    /\ \A j \in ExecJobs : WF_vars(Executor(j)) /\ WF_vars(ToolThread(j))

FairSpec == Spec /\ Fairness

-----------------------------------------------------------------------------
(* Properties.                                                             *)

\* The values of every variable: among others no execution uses more stage
\* handlers or tools than it was given, and a busy handler names a run.
TypeOK ==
    /\ run \in [Runs -> RunRow]
    /\ job \in [JobIds -> JobStatus]
    /\ queue \in Seq(JobIds)
    /\ pending \in SUBSET JobIds
    /\ pc \in [Tasks -> PC]
    /\ seen \in [Planners -> RunStatus]
    /\ left \in [ExecJobs -> 0..MaxStages]
    /\ tool \in [ExecJobs -> {"none", "between", "invoking", "returned"}]
    /\ toolsLeft \in [ExecJobs -> 0..MaxTools]
    /\ handler \in [pc: HandlerPC, run: Runs \cup {NoRun}, status: RunStatus, stage: RunStage]
    /\ handler.pc # "idle" => handler.run \in Runs
    /\ stopping \in BOOLEAN
    /\ restarts \in 0..MaxRestarts
    /\ hist \in [Runs -> [starts: Nat, agreed: PlanText, executed: PlanText]]

\* However many EXECUTE_RUN jobs the two planners, the approval and a restart
\* leave behind for a run, process_run() starts it at most once.
ExecutesOnce == \A r \in Runs : hist[r].starts <= 1

\* Whatever overtakes it (a late planner, a failed revision, a shutdown), a run
\* is only ever started after its approval and with a persisted plan.
StartedWithApprovedPlan ==
    \A r \in Runs : hist[r].starts > 0 => /\ run[r].approved
                                          /\ hist[r].executed # "null"
                                          /\ hist[r].agreed # "null"

\* waiting_tool is never left behind: as long as the process has not been
\* restarted, a tool thread of the run is inside an invocation and will leave it.
WaitingToolHasThread ==
    restarts = 0 =>
        \A r \in Runs : run[r].status = "waiting_tool" =>
            \E j \in ExecJobs : RunOf(j) = r /\ tool[j] = "invoking"

\* LocalQueue and worker agree on which ids are in flight: an id waits in the
\* queue at most once, never while a task of that id is alive, is pending exactly
\* as long as one of the two holds, and is still to be claimed when delivered.
QueueConsistent ==
    LET queued == {queue[i] : i \in 1..Len(queue)}
        alive  == {j \in JobIds : pc[j] # "idle"}
    IN  /\ Cardinality(queued) = Len(queue)
        /\ queued \cap alive = {}
        /\ pending = queued \cup alive
        /\ \A j \in JobIds : j \in queued \/ pc[j] = "spawned" => job[j] = "queued"

\* No job is lost between the table and the memory of a process that was not
\* restarted: a queued row is in the queue or has a task that will claim it, a
\* running row has a task that works on it.
NoLostJob ==
    restarts = 0 /\ ~stopping =>
        \A j \in JobIds :
            /\ job[j] = "queued" => \/ \E i \in 1..Len(queue) : queue[i] = j
                                    \/ pc[j] = "spawned"
            /\ job[j] = "running" => pc[j] \in {"claimed"} \cup Awaiting \cup MidSegment

\* No run is abandoned by a process that was not restarted: a run that waits
\* for the system (not for its user) has an active job, of the right type.
NoAbandonedRun ==
    restarts = 0 /\ ~stopping /\ LoopFree =>
        \A r \in Runs :
            LET Active(type) == \E j \in JobsOf(r, type) : job[j] \in ActiveJobStatus
            IN  /\ run[r].status \in {"queued", "running", "waiting_tool"} =>
                       IF run[r].approved THEN Active("execute_run") ELSE Active("plan_run")
                /\ run[r].status = "awaiting_confirmation" /\ run[r].plan = "null" =>
                       Active("plan_run")

\* The process is being stopped, or has been: what it had queued in memory is
\* gone, and no later process picks it up.
StoppedOnce == stopping \/ restarts > 0

\* Every accepted prompt gets a plan or a terminal status, unless the process
\* is stopped.
PlanningEnds ==
    \A r \in Runs : run[r].status # "absent" ~>
        (run[r].plan # "null" \/ run[r].status \in TerminalStatuses \/ StoppedOnce)

\* Every run that was put in the queued status reaches a terminal status, unless
\* the process is stopped.
QueuedRunsEnd ==
    \A r \in Runs : run[r].status = "queued" ~>
        (run[r].status \in TerminalStatuses \/ StoppedOnce)

\* A stop that is not overtaken by the end of the process comes to its end: the
\* interrupted tasks record their failure and leave, so stop() returns.
StopReturns == stopping ~> (~stopping \/ \A j \in JobIds : pc[j] = "idle")

\* What the user can ask about a run, out of the tables and the history.
PublicView(status) == CASE status = "awaiting_confirmation" -> "awaiting"
                        [] status \in {"running", "waiting_tool"} -> "working"
                        [] OTHER -> status

Contract == INSTANCE RunContract WITH
    status   <- [r \in Runs |-> PublicView(run[r].status)],
    planned  <- [r \in Runs |-> run[r].plan # "null"],
    approved <- [r \in Runs |-> run[r].approved],
    started  <- [r \in Runs |-> hist[r].starts > 0]

\* Every interleaving of planners, handler, worker, tool threads, shutdown and
\* restart is a behaviour of RunContract: a run is planned before it is approved,
\* approved before it is started, started once and never after a cancellation;
\* what has ended is not queued or worked on again, and completes only if it was
\* started.
ImplementsContract == Contract!Spec

\* ADR-005: the plan that was shown and approved is the plan that is executed.
ExecutesAgreedPlan ==
    \A r \in Runs : hist[r].starts > 0 => hist[r].executed = hist[r].agreed

\* README: mergemate run submits a prompt and waits for its completion.
SubmittedRunsEnd ==
    \A r \in Runs : run[r].status # "absent" ~> run[r].status \in TerminalStatuses

-----------------------------------------------------------------------------
(* The inductive invariant behind ExecutesOnce and StartedWithApprovedPlan. *)

KnownRun(r) == run[r].status # "absent"

\* Tasks, queued jobs and the handler only name runs that have a row, so that
\* a new row is never created under a planner that is at work.
WorkNamesKnownRuns ==
    /\ \A t \in Tasks : pc[t] # "idle" => KnownRun(RunOf(t))
    /\ \A i \in 1..Len(queue) : KnownRun(RunOf(queue[i]))
    /\ handler.pc # "idle" => KnownRun(handler.run)

\* approve() and the automatic approval only reach a run whose plan is persisted,
\* and update_plan() never takes a plan away.
ApprovedRunHasPlan ==
    \A r \in Runs : run[r].approved => /\ KnownRun(r)
                                       /\ run[r].plan # "null"
                                       /\ hist[r].agreed # "null"

\* complete_planning() approves after it has written the plan.
PlannedBeforeAutoApproval ==
    \A t \in Planners : pc[t] = "approving" => run[RunOf(t)].plan # "null"

\* What ReviseFails writes back is never the status that permits a start.
RevisionRestoresAwaiting ==
    handler.pc = "revising" => handler.status = "awaiting_confirmation"

\* A started run has left "queued" for good: approved is never reset, and only
\* an unapproved run returns to "queued".
StartedLeavesQueued ==
    \A r \in Runs : hist[r].starts > 0 => /\ hist[r].starts = 1
                                          /\ run[r].approved
                                          /\ run[r].status # "queued"
                                          /\ hist[r].executed # "null"

\* The conjunction that every step preserves: it implies that a run is started
\* at most once, and only with a plan and an approval.
StartInv ==
    /\ TypeOK
    /\ WorkNamesKnownRuns
    /\ ApprovedRunHasPlan
    /\ PlannedBeforeAutoApproval
    /\ RevisionRestoresAwaiting
    /\ StartedLeavesQueued
=============================================================================
