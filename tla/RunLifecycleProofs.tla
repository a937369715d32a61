------------------------- MODULE RunLifecycleProofs -------------------------
(***************************************************************************)
(* Proofs about RunLifecycle, for any number of runs, jobs, tools, stages, *)
(* slots and restarts, in four parts.                                      *)
(*                                                                         *)
(* 1. Types; a run is started at most once, and with an approved plan.     *)
(* process_run() starts a run only from "queued"; only create() and        *)
(* approve() write "queued"; approve() acts on unapproved rows only, and a *)
(* started run is approved for good (StartInv).                            *)
(*                                                                         *)
(* 2. The queue, the worker's tasks and the run_jobs table agree           *)
(* (QueueConsistent, NoLostJob).  RuntimeInv strengthens StartInv: a job's *)
(* place (queued, claimed, at work, finished) follows from its row and its *)
(* program counter (Placed).  That is inductive only because a run has one *)
(* plan job and one active execution job (OneJobAtATime), which in turn    *)
(* rests on which of the two planners can still answer (OnePlannerLeft),   *)
(* on what a revision and an approval may meet (RevisedRow,                *)
(* NothingDispatched) and on which rows a restarted process does not hold  *)
(* (ActiveIsPending).                                                      *)
(*                                                                         *)
(* 3. The runtime implements RunContract: each action is a move of one run *)
(* (ContractMove) or none.                                                 *)
(*                                                                         *)
(* 4. Nothing that waits for the system is left behind                     *)
(* (WaitingToolHasThread, NoAbandonedRun).  AttendedInv adds who attends   *)
(* to a run that waits: its planning or execution job, the planner about   *)
(* to dispatch one, or the handler between its two writes.                 *)
(***************************************************************************)
EXTENDS RunLifecycle, FiniteSetTheorems, TLAPS

USE LifecycleAssumption

\* Every task belongs to a run, and jobs and continuations are tasks.
LEMMA TaskShape ==
    /\ \A t \in Tasks : RunOf(t) \in Runs
    /\ PlanJobs \subseteq JobIds /\ ExecJobs \subseteq JobIds
    /\ JobIds \subseteq Tasks /\ Planners \subseteq Tasks
    /\ \A r \in Runs : Continuation(r) \in Tasks /\ RunOf(Continuation(r)) = r
    /\ \A r, type : JobsOf(r, type) \subseteq JobIds
    /\ \A r, type : \A j \in JobsOf(r, type) : RunOf(j) = r
BY DEF PlanJobs, ExecJobs, JobIds, Continuations, Continuation, Planners, Tasks, RunOf, JobsOf

\* update_status() leaves a row whose plan and approval are the old ones.
LEMMA UpdateStatusRow ==
    ASSUME NEW row \in RunRow, NEW s \in RunStatus, NEW g \in RunStage
    PROVE  /\ UpdateStatus(row, s, g) \in RunRow
           /\ UpdateStatus(row, s, g).status = s
           /\ UpdateStatus(row, s, g).stage = g
           /\ UpdateStatus(row, s, g).plan = row.plan
           /\ UpdateStatus(row, s, g).approved = row.approved
BY DEF RunRow, UpdateStatus

\* update_plan() touches neither the status nor the approval.
LEMMA UpdatePlanRow ==
    ASSUME NEW row \in RunRow, NEW p \in PlanText, NEW g \in RunStage
    PROVE  /\ UpdatePlan(row, p, g) \in RunRow
           /\ UpdatePlan(row, p, g).status = row.status
           /\ UpdatePlan(row, p, g).plan = p
           /\ UpdatePlan(row, p, g).approved = row.approved
BY DEF RunRow, UpdatePlan

\* save_artifacts() touches neither the status, the plan nor the approval.
LEMMA SaveArtifactsRow ==
    ASSUME NEW row \in RunRow, NEW g \in RunStage
    PROVE  /\ SaveArtifacts(row, g) \in RunRow
           /\ SaveArtifacts(row, g).status = row.status
           /\ SaveArtifacts(row, g).plan = row.plan
           /\ SaveArtifacts(row, g).approved = row.approved
BY DEF RunRow, SaveArtifacts

\* approve() queues and approves an approvable row, and keeps every other one.
LEMMA ApproveRow ==
    ASSUME NEW row \in RunRow
    PROVE  /\ Approve(row) \in RunRow
           /\ Approvable(row) => Approve(row).status = "queued" /\ Approve(row).approved = TRUE
           /\ ~Approvable(row) => Approve(row) = row
           /\ Approve(row).plan = row.plan
<1>1. CASE ~Approvable(row)
  BY <1>1 DEF Approve
<1>2. CASE Approvable(row)
  <2> DEFINE g == IF row.status = "awaiting_confirmation" THEN "queued_for_execution" ELSE row.stage
  <2>1. g \in RunStage
    BY DEF RunRow, RunStage
  <2>2. Approve(row) = [row EXCEPT !.approved = TRUE, !.status = "queued", !.stage = g]
    BY <1>2 DEF Approve
  <2>3. "queued" \in RunStatus
    BY DEF RunStatus
  <2> HIDE DEF g
  <2>4. QED
    BY <1>2, <2>1, <2>2, <2>3 DEF RunRow
<1>3. QED
  BY <1>1, <1>2

\* create() makes an unapproved row without a plan.
LEMMA CreateRow ==
    ASSUME NEW s \in RunStatus
    PROVE  /\ Create(s) \in RunRow
           /\ Create(s).status = s /\ Create(s).plan = "null" /\ Create(s).approved = FALSE
BY DEF RunRow, Create, RunStage, PlanText

\* dispatch_run() adds at most one id to the queue, a job of the run it is for.
LEMMA DispatchType ==
    ASSUME TypeOK, NEW r \in Runs, NEW type, DispatchRun(r, type)
    PROVE  /\ job' \in [JobIds -> JobStatus]
           /\ queue' \in Seq(JobIds)
           /\ pending' \in SUBSET JobIds
           /\ \A i \in 1..Len(queue') : \/ i \in 1..Len(queue) /\ queue'[i] = queue[i]
                                        \/ RunOf(queue'[i]) = r
<1>1. PICK j \in EnsureQueuedJob(r, type) :
          /\ job' = [job EXCEPT ![j] = IF @ = "none" THEN "queued" ELSE @]
          /\ queue' = Enqueue(queue, j)
          /\ pending' = pending \cup {j}
  BY DEF DispatchRun
<1>2. j \in JobsOf(r, type)
  BY DEF EnsureQueuedJob
<1>3. j \in JobIds /\ RunOf(j) = r
  BY <1>2, TaskShape
<1>4. QED
  BY <1>1, <1>3 DEF Enqueue, TypeOK, JobStatus

\* The compare-and-set of process_run() keeps the plan and the approval.
LEMMA StartRunRow ==
    ASSUME NEW row \in RunRow
    PROVE  /\ StartRun(row) \in RunRow
           /\ row.status = "queued" => StartRun(row).status = "running"
           /\ StartRun(row).plan = row.plan
           /\ StartRun(row).approved = row.approved
BY UpdateStatusRow DEF StartRun, TryUpdateStatus, RunStatus, RunStage

\* Counting a start touches the history of that run alone.
LEMMA CountStartType ==
    ASSUME TypeOK, NEW r \in Runs
    PROVE  /\ CountStart(r) \in [Runs -> [starts: Nat, agreed: PlanText, executed: PlanText]]
           /\ CountStart(r)[r].starts = hist[r].starts + 1
           /\ CountStart(r)[r].agreed = hist[r].agreed
           /\ CountStart(r)[r].executed = run[r].plan
           /\ \A q \in Runs \ {r} : CountStart(r)[q] = hist[q]
<1>1. run[r].plan \in PlanText
  BY DEF TypeOK, RunRow
<1>2. QED
  BY <1>1 DEF TypeOK, CountStart

\* Every step of the runtime keeps the types; one case per action.
LEMMA TypeStep == TypeOK /\ [Next]_vars => TypeOK'
<1> SUFFICES ASSUME TypeOK, [Next]_vars PROVE TypeOK'
  OBVIOUS
<1> USE TaskShape DEF TypeOK
<1>1. ASSUME NEW r \in Runs, Submit(r) PROVE TypeOK'
  BY <1>1, CreateRow DEF Submit, HandlerPC, IdleHandler, RunStatus, RunStage
<1>2. ASSUME NEW r \in Runs, ApproveRun(r) PROVE TypeOK'
  <2>1. run' \in [Runs -> RunRow]
    BY <1>2, ApproveRow DEF ApproveRun
  <2>2. run[r].plan \in PlanText
    BY DEF RunRow
  <2>3. hist' \in [Runs -> [starts: Nat, agreed: PlanText, executed: PlanText]]
    BY <1>2, <2>2 DEF ApproveRun
  <2>4. QED
    BY <1>2, <2>1, <2>3 DEF ApproveRun, HandlerPC, IdleHandler, RunStatus, RunStage
<1>3. ASSUME NEW r \in Runs, CancelRun(r) PROVE TypeOK'
  <2>1. run[r] \in RunRow /\ run[r].stage \in RunStage /\ "cancelled" \in RunStatus
    BY DEF RunRow, RunStatus
  <2>2. UpdateStatus(run[r], "cancelled", run[r].stage) \in RunRow
    BY ONLY <2>1, UpdateStatusRow
  <2>3. QED
    BY <1>3, <2>2 DEF CancelRun, TryUpdateStatus
<1>4. ASSUME NEW r \in Runs, ReviseBegin(r) PROVE TypeOK'
  <2>1. run[r].status \in RunStatus /\ run[r].stage \in RunStage
    BY DEF RunRow
  <2>2. QED
    BY <1>4, <2>1 DEF ReviseBegin, HandlerPC
<1>5. ASSUME SubmitDispatch PROVE TypeOK'
  BY <1>5, DispatchType DEF SubmitDispatch, AfterSubmit, HandlerPC, IdleHandler, RunStatus, RunStage
<1>6. ASSUME AcknowledgementSent PROVE TypeOK'
  BY <1>6 DEF AcknowledgementSent, PC, HandlerPC, IdleHandler, RunStatus, RunStage
<1>7. ASSUME AcknowledgementLost PROVE TypeOK'
  BY <1>7 DEF AcknowledgementLost, HandlerPC, IdleHandler, RunStatus, RunStage
<1>8. ASSUME ApproveDispatch PROVE TypeOK'
  BY <1>8, DispatchType DEF ApproveDispatch, HandlerPC, IdleHandler, RunStatus, RunStage
<1>9. ASSUME ReviseSucceeds PROVE TypeOK'
  BY <1>9, UpdatePlanRow DEF ReviseSucceeds, HandlerPC, IdleHandler, RunStatus, RunStage, PlanText
<1>10. ASSUME ReviseFails PROVE TypeOK'
  BY <1>10, UpdateStatusRow DEF ReviseFails, HandlerPC, IdleHandler, RunStatus, RunStage
<1>11. ASSUME Consume PROVE TypeOK'
  BY <1>11 DEF Consume, PC
<1>12. ASSUME NEW t \in Planners, PlanBegin(t) PROVE TypeOK'
  <2>1. run[RunOf(t)].status \in RunStatus
    BY DEF RunRow
  <2>2. QED
    BY <1>12, <2>1 DEF PlanBegin, PC, Awaiting
<1>13. ASSUME NEW t \in Planners, DraftFails(t) PROVE TypeOK'
  BY <1>13, UpdateStatusRow DEF DraftFails, PlanningFailed, AfterPlanning, PC, MidSegment, RunStatus, RunStage, PlanText
<1>14. ASSUME NEW t \in Planners, DraftSucceeds(t) PROVE TypeOK'
  BY <1>14, UpdatePlanRow DEF DraftSucceeds, AfterPlanning, Author, PC, MidSegment, RunStage, PlanText
<1>15. ASSUME NEW t \in Planners, AutoApprove(t) PROVE TypeOK'
  <2>1. run' \in [Runs -> RunRow]
    BY <1>15, ApproveRow DEF AutoApprove
  <2>2. run[RunOf(t)].plan \in PlanText
    BY DEF RunRow
  <2>3. hist' \in [Runs -> [starts: Nat, agreed: PlanText, executed: PlanText]]
    BY <1>15, <2>2 DEF AutoApprove
  <2>4. QED
    BY <1>15, <2>1, <2>3 DEF AutoApprove, PC, MidSegment
<1>16. ASSUME NEW t \in Planners, AutoDispatch(t) PROVE TypeOK'
  BY <1>16, DispatchType DEF AutoDispatch, AfterPlanning, PC, MidSegment
<1>17. ASSUME NEW j \in JobIds, ClaimJob(j) PROVE TypeOK'
  BY <1>17 DEF ClaimJob, PC, JobStatus
<1>18. ASSUME NEW j \in JobIds, CompleteJob(j) PROVE TypeOK'
  BY <1>18 DEF CompleteJob, PC, MidSegment, JobStatus
<1>19. ASSUME NEW j \in JobIds, FailJob(j) PROVE TypeOK'
  BY <1>19 DEF FailJob, PC, MidSegment, JobStatus
<1>20. ASSUME NEW j \in JobIds, TaskDone(j) PROVE TypeOK'
  BY <1>20 DEF TaskDone, PC
<1>21. ASSUME NEW j \in JobIds, DropSpawned(j) PROVE TypeOK'
  BY <1>21 DEF DropSpawned, PC
<1>22. ASSUME NEW j \in JobIds, Interrupt(j) PROVE TypeOK'
  BY <1>22 DEF Interrupt, PC, MidSegment, JobStatus
<1>23. ASSUME NEW j \in JobIds, InterruptRun(j) PROVE TypeOK'
  <2>1. run[RunOf(j)] \in RunRow /\ run[RunOf(j)].stage \in RunStage /\ "failed" \in RunStatus
    BY DEF RunRow, RunStatus
  <2>2. UpdateStatus(run[RunOf(j)], "failed", run[RunOf(j)].stage) \in RunRow
    BY ONLY <2>1, UpdateStatusRow
  <2>3. QED
    BY <1>23, <2>2 DEF InterruptRun, Interrupted, PC
<1>24. ASSUME NEW j \in ExecJobs, ExecBegin(j) PROVE TypeOK'
  <2>1. run' \in [Runs -> RunRow]
    BY <1>24, StartRunRow DEF ExecBegin
  <2>2. hist' \in [Runs -> [starts: Nat, agreed: PlanText, executed: PlanText]]
    BY <1>24, CountStartType DEF ExecBegin
  <2>3. QED
    BY <1>24, <2>1, <2>2 DEF ExecBegin, PC, Awaiting
<1>25. ASSUME NEW j \in ExecJobs, ExecBeginRaises(j) PROVE TypeOK'
  <2>1. run' \in [Runs -> RunRow]
    BY <1>25, StartRunRow, UpdateStatusRow DEF ExecBeginRaises, RunStatus, RunStage
  <2>2. hist' \in [Runs -> [starts: Nat, agreed: PlanText, executed: PlanText]]
    BY <1>25, CountStartType DEF ExecBeginRaises
  <2>3. QED
    BY <1>25, <2>1, <2>2 DEF ExecBeginRaises, PC, MidSegment
<1>26. ASSUME NEW j \in ExecJobs, ExecSkip(j) PROVE TypeOK'
  BY <1>26 DEF ExecSkip, PC, MidSegment
<1>27. ASSUME NEW j \in ExecJobs, PlanStart(j) PROVE TypeOK'
  BY <1>27 DEF PlanStart, PC, MidSegment, Awaiting
<1>28. ASSUME NEW j \in ExecJobs, DirectDone(j) PROVE TypeOK'
  BY <1>28, SaveArtifactsRow DEF DirectDone, PC, MidSegment, Awaiting, RunStage
<1>29. ASSUME NEW j \in ExecJobs, StageDone(j) PROVE TypeOK'
  <2>a. /\ SaveArtifacts(run[RunOf(j)], "execution") \in RunRow
         /\ UpdatePlan(run[RunOf(j)], "replanning", "internal_replanning") \in RunRow
    BY SaveArtifactsRow, UpdatePlanRow DEF RunStage, PlanText
  <2>1. run' \in [Runs -> RunRow]
    BY <1>29, <2>a DEF StageDone
  <2>2. left' \in [ExecJobs -> 0..MaxStages]
    BY <1>29 DEF StageDone
  <2>3. pc' \in [Tasks -> PC]
    BY <1>29 DEF StageDone, PC, MidSegment, Awaiting
  <2>4. QED
    BY <1>29, <2>1, <2>2, <2>3 DEF StageDone
<1>30. ASSUME NEW j \in ExecJobs, ExecRaises(j) PROVE TypeOK'
  <2>1. run[RunOf(j)] \in RunRow /\ run[RunOf(j)].stage \in RunStage /\ "failed" \in RunStatus
    BY DEF RunRow, RunStatus
  <2>2. UpdateStatus(run[RunOf(j)], "failed", run[RunOf(j)].stage) \in RunRow
    BY ONLY <2>1, UpdateStatusRow
  <2>3. QED
    BY <1>30, <2>2 DEF ExecRaises, ExecutionFailed, PC, MidSegment
<1>31. ASSUME NEW j \in ExecJobs, ExecCompletes(j) PROVE TypeOK'
  BY <1>31, UpdateStatusRow DEF ExecCompletes, PC, MidSegment, RunStatus, RunStage
<1>32. ASSUME NEW j \in ExecJobs, ToolEnter(j) PROVE TypeOK'
  BY <1>32, UpdateStatusRow DEF ToolEnter, MoreTools, EnterTool, TryUpdateStatus, RunStatus, RunStage
<1>33. ASSUME NEW j \in ExecJobs, ToolLeave(j) PROVE TypeOK'
  BY <1>33, UpdateStatusRow DEF ToolLeave, LeaveTool, TryUpdateStatus, RunStatus, RunStage
<1>34. ASSUME NEW j \in ExecJobs, ToolsReturn(j) PROVE TypeOK'
  BY <1>34 DEF ToolsReturn
<1>35. ASSUME Stop PROVE TypeOK'
  BY <1>35 DEF Stop
<1>36. ASSUME Restart PROVE TypeOK'
  <2>1. restarts' \in 0..MaxRestarts
    BY <1>36 DEF Restart
  <2>2. handler' \in [pc: HandlerPC, run: Runs \cup {NoRun}, status: RunStatus, stage: RunStage]
    BY <1>36 DEF Restart, IdleHandler, HandlerPC, RunStatus, RunStage
  <2>3. pc' \in [Tasks -> PC] /\ seen' \in [Planners -> RunStatus]
    BY <1>36 DEF Restart, PC, RunStatus
  <2>4. /\ left' \in [ExecJobs -> 0..MaxStages]
        /\ toolsLeft' \in [ExecJobs -> 0..MaxTools]
        /\ tool' \in [ExecJobs -> {"none", "between", "invoking", "returned"}]
    BY <1>36 DEF Restart
  <2>5. queue' \in Seq(JobIds)
    BY <1>36 DEF Restart
  <2>6. QED
    BY <1>36, <2>1, <2>2, <2>3, <2>4, <2>5 DEF Restart, IdleHandler
<1>37. CASE UNCHANGED vars
  BY <1>37 DEF vars
<1>38. QED
  BY <1>1, <1>2, <1>3, <1>4, <1>5, <1>6, <1>7, <1>8, <1>9, <1>10,
     <1>11, <1>12, <1>13, <1>14, <1>15, <1>16, <1>17, <1>18, <1>19, <1>20,
     <1>21, <1>22, <1>23, <1>24, <1>25, <1>26, <1>27, <1>28, <1>29, <1>30,
     <1>31, <1>32, <1>33, <1>34, <1>35, <1>36, <1>37
     DEF Next, User, Handler, Planner, Worker, Executor, ToolThread

\* The types hold before the first prompt.
LEMMA TypeInit == Init => TypeOK
<1> SUFFICES ASSUME Init PROVE TypeOK
  OBVIOUS
<1>1. run \in [Runs -> RunRow]
  BY DEF Init, NoRow, RunRow, RunStatus, RunStage, PlanText
<1>2. hist \in [Runs -> [starts: Nat, agreed: PlanText, executed: PlanText]]
  BY DEF Init, PlanText
<1>3. handler \in [pc: HandlerPC, run: Runs \cup {NoRun}, status: RunStatus, stage: RunStage]
  BY DEF Init, IdleHandler, HandlerPC, RunStatus, RunStage
<1>4. /\ queue \in Seq(JobIds)
      /\ job \in [JobIds -> JobStatus]
      /\ pc \in [Tasks -> PC]
      /\ seen \in [Planners -> RunStatus]
  BY DEF Init, JobStatus, PC, RunStatus
<1>5. /\ left \in [ExecJobs -> 0..MaxStages]
      /\ toolsLeft \in [ExecJobs -> 0..MaxTools]
      /\ tool \in [ExecJobs -> {"none", "between", "invoking", "returned"}]
  BY DEF Init
<1>6. /\ handler.pc = "idle" /\ pending = {} /\ stopping = FALSE
      /\ restarts \in 0..MaxRestarts
  BY DEF Init, IdleHandler
<1>7. QED
  BY <1>1, <1>2, <1>3, <1>4, <1>5, <1>6 DEF TypeOK

\* Type correctness of the runtime, for every set of runs and every bound.
THEOREM TypeCorrect == Spec => []TypeOK
<1>1. QED
  BY TypeInit, TypeStep, PTL DEF Spec

\* The inductive invariant holds before the first prompt.
LEMMA StartInit == Init => StartInv
<1> SUFFICES ASSUME Init PROVE StartInv
  OBVIOUS
<1>1. TypeOK
  BY TypeInit
<1>2. WorkNamesKnownRuns
  BY DEF Init, WorkNamesKnownRuns, IdleHandler
<1>3. ApprovedRunHasPlan /\ StartedLeavesQueued
  BY DEF Init, ApprovedRunHasPlan, StartedLeavesQueued, NoRow
<1>4. PlannedBeforeAutoApproval /\ RevisionRestoresAwaiting
  BY TaskShape DEF Init, PlannedBeforeAutoApproval, RevisionRestoresAwaiting, IdleHandler
<1>5. QED
  BY <1>1, <1>2, <1>3, <1>4 DEF StartInv


\* What most writes do to a row: it stays known, does not become queued, and
\* keeps its approval and the presence of a plan.
QuietRow(old, new) ==
    /\ old.status # "absent" => new.status # "absent"
    /\ new.status = "queued" => old.status = "queued"
    /\ new.approved = old.approved
    /\ old.plan # "null" => new.plan # "null"

\* Writing a status other than "queued" is quiet.
LEMMA QuietUpdateStatus ==
    ASSUME NEW row \in RunRow, NEW s \in RunStatus \ {"absent", "queued"}, NEW g \in RunStage
    PROVE  QuietRow(row, UpdateStatus(row, s, g))
BY UpdateStatusRow DEF QuietRow

\* Writing a plan is quiet.
LEMMA QuietUpdatePlan ==
    ASSUME NEW row \in RunRow, NEW q \in PlanText \ {"null"}, NEW g \in RunStage
    PROVE  QuietRow(row, UpdatePlan(row, q, g))
BY UpdatePlanRow DEF QuietRow

\* Saving artifacts is quiet.
LEMMA QuietSaveArtifacts ==
    ASSUME NEW row \in RunRow, NEW g \in RunStage
    PROVE  QuietRow(row, SaveArtifacts(row, g))
BY SaveArtifactsRow DEF QuietRow

\* Leaving the table alone is quiet.
LEMMA QuietUnchanged == run' = run => \A r \in Runs : QuietRow(run[r], run'[r])
BY DEF QuietRow

\* A quiet write to one row is quiet for the table.
LEMMA QuietWrite ==
    ASSUME TypeOK, NEW r \in Runs, NEW row, QuietRow(run[r], row), run' = [run EXCEPT ![r] = row]
    PROVE  \A q \in Runs : QuietRow(run[q], run'[q])
BY DEF TypeOK, QuietRow

\* A step that is quiet on the table, starts nothing and lets tasks, queue and
\* handler name known runs only preserves the inductive invariant.
LEMMA QuietStep ==
    ASSUME StartInv, TypeOK',
           hist' = hist,
           \A r \in Runs : QuietRow(run[r], run'[r]),
           \A t \in Tasks : pc'[t] # "idle" => KnownRun(RunOf(t)),
           \A i \in 1..Len(queue') : KnownRun(RunOf(queue'[i])),
           handler'.pc # "idle" => KnownRun(handler'.run),
           \A t \in Planners : pc'[t] = "approving" => pc[t] = "approving" \/ run'[RunOf(t)].plan # "null",
           handler'.pc = "revising" => handler'.status = "awaiting_confirmation"
    PROVE  StartInv'
<1> USE TaskShape DEF KnownRun
<1>1. WorkNamesKnownRuns'
  <2>1. \A i \in 1..Len(queue') : queue'[i] \in Tasks
    BY DEF TypeOK
  <2>2. handler'.pc # "idle" => handler'.run \in Runs
    BY DEF TypeOK
  <2>3. QED
    BY <2>1, <2>2 DEF WorkNamesKnownRuns, QuietRow
<1>2. ApprovedRunHasPlan'
  BY DEF StartInv, ApprovedRunHasPlan, QuietRow
<1>3. PlannedBeforeAutoApproval'
  BY DEF StartInv, PlannedBeforeAutoApproval, QuietRow
<1>4. RevisionRestoresAwaiting'
  BY DEF RevisionRestoresAwaiting
<1>5. StartedLeavesQueued'
  BY DEF StartInv, StartedLeavesQueued, QuietRow
<1>6. QED
  BY <1>1, <1>2, <1>3, <1>4, <1>5 DEF StartInv

\* A step that approves one run, which has a plan, preserves the inductive
\* invariant: the run was not approved, hence never started.
LEMMA ApprovalStep ==
    ASSUME StartInv, TypeOK', NEW r \in Runs,
           KnownRun(r), run[r].plan # "null", Approvable(run[r]),
           run' = [run EXCEPT ![r] = Approve(run[r])],
           hist'[r].agreed = run[r].plan, hist'[r].starts = hist[r].starts,
           \A q \in Runs \ {r} : hist'[q] = hist[q],
           queue' = queue,
           \A t \in Tasks : pc'[t] # "idle" => KnownRun(RunOf(t)),
           \A t \in Planners : pc'[t] = "approving" => pc[t] = "approving",
           handler'.pc # "idle" => KnownRun(handler'.run),
           handler'.pc = "revising" => handler'.status = "awaiting_confirmation"
    PROVE  StartInv'
<1>1. /\ run'[r].plan = run[r].plan /\ run'[r].approved = TRUE /\ run'[r].status = "queued"
      /\ \A q \in Runs \ {r} : run'[q] = run[q]
  <2>1. run \in [Runs -> RunRow] /\ run[r] \in RunRow
    BY DEF StartInv, TypeOK
  <2>2. /\ Approve(run[r]).plan = run[r].plan
        /\ Approve(run[r]).approved = TRUE
        /\ Approve(run[r]).status = "queued"
    BY ONLY <2>1, ApproveRow, Approvable(run[r])
  <2>3. QED
    BY <2>1, <2>2
<1>2. \A q \in Runs : KnownRun(q) => KnownRun(q)'
  BY <1>1 DEF KnownRun
<1>3. WorkNamesKnownRuns'
  <2>1. \A i \in 1..Len(queue) : queue[i] \in Tasks /\ KnownRun(RunOf(queue[i]))
    BY TaskShape DEF StartInv, TypeOK, WorkNamesKnownRuns
  <2>2. handler'.pc # "idle" => handler'.run \in Runs
    BY DEF TypeOK
  <2>3. QED
    BY <1>2, <2>1, <2>2, TaskShape DEF WorkNamesKnownRuns, KnownRun
<1>4. ApprovedRunHasPlan'
  BY <1>1, <1>2 DEF StartInv, ApprovedRunHasPlan
<1>5. PlannedBeforeAutoApproval'
  BY <1>1, TaskShape DEF StartInv, PlannedBeforeAutoApproval
<1>6. hist[r].starts = 0
  BY DEF StartInv, StartedLeavesQueued, Approvable, TypeOK
<1>7. StartedLeavesQueued'
  BY <1>1, <1>6 DEF StartInv, StartedLeavesQueued
<1>8. QED
  BY <1>3, <1>4, <1>5, <1>7 DEF StartInv, RevisionRestoresAwaiting

\* A step of process_run() that starts one run preserves the inductive
\* invariant: the run was queued, hence never started before.
LEMMA RunStartStep ==
    ASSUME StartInv, TypeOK', NEW r \in Runs, NEW row \in RunRow,
           run[r].approved, run[r].status = "queued",
           run' = [run EXCEPT ![r] = row],
           row.plan = run[r].plan, row.approved, row.status \notin {"queued", "absent"},
           hist' = CountStart(r),
           UNCHANGED <<queue, handler>>,
           \A t \in Tasks : pc'[t] # "idle" => KnownRun(RunOf(t)),
           \A t \in Planners : pc'[t] = "approving" => pc[t] = "approving"
    PROVE  StartInv'
<1>1. run'[r] = row /\ \A q \in Runs \ {r} : run'[q] = run[q]
  BY DEF StartInv, TypeOK
<1>2. \A q \in Runs : KnownRun(q) => KnownRun(q)'
  BY <1>1 DEF KnownRun
<1>3. /\ hist'[r].starts = hist[r].starts + 1 /\ hist'[r].executed = run[r].plan
      /\ hist'[r].agreed = hist[r].agreed
      /\ \A q \in Runs \ {r} : hist'[q] = hist[q]
  BY CountStartType DEF StartInv
<1>4. WorkNamesKnownRuns'
  <2>1. \A i \in 1..Len(queue) : queue[i] \in Tasks /\ KnownRun(RunOf(queue[i]))
    BY TaskShape DEF StartInv, TypeOK, WorkNamesKnownRuns
  <2>2. handler.pc # "idle" => handler.run \in Runs /\ KnownRun(handler.run)
    BY DEF StartInv, TypeOK, WorkNamesKnownRuns
  <2>3. QED
    BY <1>2, <2>1, <2>2, TaskShape DEF WorkNamesKnownRuns, KnownRun
<1>5. ApprovedRunHasPlan'
  BY <1>1, <1>2, <1>3 DEF StartInv, ApprovedRunHasPlan
<1>6. PlannedBeforeAutoApproval'
  BY <1>1, TaskShape DEF StartInv, PlannedBeforeAutoApproval
<1>7. hist[r].starts = 0
  BY DEF StartInv, StartedLeavesQueued, TypeOK
<1>8. StartedLeavesQueued'
  BY <1>1, <1>3, <1>7 DEF StartInv, StartedLeavesQueued, ApprovedRunHasPlan
<1>9. QED
  BY <1>4, <1>5, <1>6, <1>8 DEF StartInv, RevisionRestoresAwaiting

\* Every step of the runtime preserves the inductive invariant; one case per
\* action.  Only Submit, ApproveRun, AutoApprove, ExecBegin and ExecBeginRaises
\* are not quiet.
LEMMA StartStep == StartInv /\ [Next]_vars => StartInv'
<1> SUFFICES ASSUME StartInv, [Next]_vars PROVE StartInv'
  OBVIOUS
<1>a. TypeOK /\ TypeOK'
  BY TypeStep DEF StartInv
<1>b. /\ \A t \in Tasks : pc[t] # "idle" => KnownRun(RunOf(t))
      /\ \A i \in 1..Len(queue) : KnownRun(RunOf(queue[i]))
      /\ handler.pc # "idle" => KnownRun(handler.run)
      /\ handler.pc = "revising" => handler.status = "awaiting_confirmation"
  BY DEF StartInv, WorkNamesKnownRuns, RevisionRestoresAwaiting
<1> USE <1>a, <1>b, TaskShape
<1>1. ASSUME NEW r \in Runs, Submit(r) PROVE StartInv'
  <2>1. PICK s \in {"awaiting_confirmation", "queued"} : run' = [run EXCEPT ![r] = Create(s)]
    BY <1>1 DEF Submit
  <2>2. /\ run'[r].status = s /\ run'[r].plan = "null" /\ run'[r].approved = FALSE
        /\ \A q \in Runs \ {r} : run'[q] = run[q]
    <3>1. s \in RunStatus
      BY DEF RunStatus
    <3>2. Create(s).status = s /\ Create(s).plan = "null" /\ Create(s).approved = FALSE
      BY ONLY <3>1, CreateRow
    <3>3. QED
      BY <2>1, <3>2 DEF TypeOK
  <2>3. ~KnownRun(r) /\ UNCHANGED <<pc, queue, hist>> /\ handler'.pc = "submitting" /\ handler'.run = r
    BY <1>1 DEF Submit, KnownRun, IdleHandler
  <2>4. \A q \in Runs : KnownRun(q) => KnownRun(q)' /\ q # r
    BY <2>2, <2>3 DEF KnownRun
  <2>5. WorkNamesKnownRuns'
    <3>1. \A i \in 1..Len(queue) : queue[i] \in Tasks
      BY DEF TypeOK
    <3>2. KnownRun(r)'
      BY <2>2 DEF KnownRun
    <3>3. QED
      BY <2>3, <2>4, <3>1, <3>2 DEF WorkNamesKnownRuns, KnownRun
  <2>6. ApprovedRunHasPlan'
    BY <2>2, <2>3, <2>4 DEF StartInv, ApprovedRunHasPlan
  <2>7. PlannedBeforeAutoApproval'
    BY <2>2, <2>3, <2>4 DEF StartInv, PlannedBeforeAutoApproval
  <2>8. StartedLeavesQueued'
    BY <2>2, <2>3, <2>4 DEF StartInv, StartedLeavesQueued, ApprovedRunHasPlan
  <2>9. QED
    BY <2>3, <2>5, <2>6, <2>7, <2>8 DEF StartInv, RevisionRestoresAwaiting
<1>2. ASSUME NEW r \in Runs, ApproveRun(r) PROVE StartInv'
  <2>1. /\ run[r].plan # "null" /\ run[r].status = "awaiting_confirmation" /\ ~run[r].approved
        /\ Approvable(run[r]) /\ KnownRun(r)
    BY <1>2 DEF ApproveRun, MayApprove, Approvable, KnownRun
  <2>2. /\ hist'[r].agreed = run[r].plan /\ hist'[r].starts = hist[r].starts
        /\ \A q \in Runs \ {r} : hist'[q] = hist[q]
    BY <1>2 DEF ApproveRun, TypeOK
  <2>3. run' = [run EXCEPT ![r] = Approve(run[r])] /\ UNCHANGED <<pc, queue>>
        /\ handler'.pc = "approving" /\ handler'.run = r
    BY <1>2 DEF ApproveRun, IdleHandler
  <2>4. QED
    BY <2>1, <2>2, <2>3, ApprovalStep
<1>3. ASSUME NEW r \in Runs, CancelRun(r) PROVE StartInv'
  <2>1. run[r] \in RunRow
    BY <1>3 DEF CancelRun, TypeOK
  <2>2. QuietRow(run[r], TryUpdateStatus(run[r], "cancelled", "awaiting_confirmation", run[r].stage))
    BY <1>3, <2>1, QuietUpdateStatus DEF TryUpdateStatus, RunRow, RunStatus, QuietRow
  <2>3. \A q \in Runs : QuietRow(run[q], run'[q])
    BY <1>3, <2>1, <2>2, QuietWrite DEF CancelRun
  <2>4. /\ \A u \in Tasks : pc'[u] # "idle" => KnownRun(RunOf(u))
        /\ \A u \in Planners : pc'[u] = "approving" => pc[u] = "approving"
    BY <1>3 DEF CancelRun, TypeOK
  <2>5. QED
    BY <1>3, <2>3, <2>4, QuietStep DEF CancelRun
<1>4. ASSUME NEW r \in Runs, ReviseBegin(r) PROVE StartInv'
  <2>1. /\ \A u \in Tasks : pc'[u] # "idle" => KnownRun(RunOf(u))
        /\ \A u \in Planners : pc'[u] = "approving" => pc[u] = "approving"
    BY <1>4 DEF ReviseBegin, TypeOK
  <2>2. QED
    BY <1>4, <2>1, QuietUnchanged, QuietStep DEF ReviseBegin, Revisable, KnownRun
<1>5. ASSUME SubmitDispatch PROVE StartInv'
  <2>1. \A i \in 1..Len(queue') : KnownRun(RunOf(queue'[i]))
    <3>1. PICK type : DispatchRun(handler.run, type)
      BY <1>5 DEF SubmitDispatch, AfterSubmit
    <3>2. handler.run \in Runs /\ KnownRun(handler.run)
      BY <1>5 DEF SubmitDispatch, AfterSubmit, TypeOK
    <3>3. QED
      BY <3>1, <3>2, DispatchType
  <2>2. /\ \A u \in Tasks : pc'[u] # "idle" => KnownRun(RunOf(u))
        /\ \A u \in Planners : pc'[u] = "approving" => pc[u] = "approving"
    BY <1>5 DEF SubmitDispatch, AfterSubmit, TypeOK
  <2>3. QED
    BY <1>5, <2>1, <2>2, QuietUnchanged, QuietStep DEF SubmitDispatch, AfterSubmit, TypeOK, IdleHandler
<1>6. ASSUME AcknowledgementSent PROVE StartInv'
  <2>1. /\ \A u \in Tasks : pc'[u] # "idle" => KnownRun(RunOf(u))
        /\ \A u \in Planners : pc'[u] = "approving" => pc[u] = "approving"
    BY <1>6 DEF AcknowledgementSent, TypeOK
  <2>2. QED
    BY <1>6, <2>1, QuietUnchanged, QuietStep DEF AcknowledgementSent, IdleHandler
<1>7. ASSUME AcknowledgementLost PROVE StartInv'
  <2>1. /\ \A u \in Tasks : pc'[u] # "idle" => KnownRun(RunOf(u))
        /\ \A u \in Planners : pc'[u] = "approving" => pc[u] = "approving"
    BY <1>7 DEF AcknowledgementLost, TypeOK
  <2>2. QED
    BY <1>7, <2>1, QuietUnchanged, QuietStep DEF AcknowledgementLost, IdleHandler
<1>8. ASSUME ApproveDispatch PROVE StartInv'
  <2>1. \A i \in 1..Len(queue') : KnownRun(RunOf(queue'[i]))
    <3>1. PICK type : DispatchRun(handler.run, type)
      BY <1>8 DEF ApproveDispatch
    <3>2. handler.run \in Runs /\ KnownRun(handler.run)
      BY <1>8 DEF ApproveDispatch, TypeOK
    <3>3. QED
      BY <3>1, <3>2, DispatchType
  <2>2. /\ \A u \in Tasks : pc'[u] # "idle" => KnownRun(RunOf(u))
        /\ \A u \in Planners : pc'[u] = "approving" => pc[u] = "approving"
    BY <1>8 DEF ApproveDispatch, TypeOK
  <2>3. QED
    BY <1>8, <2>1, <2>2, QuietUnchanged, QuietStep DEF ApproveDispatch, TypeOK, IdleHandler
<1>9. ASSUME ReviseSucceeds PROVE StartInv'
  <2>1. run[handler.run] \in RunRow /\ handler.run \in Runs
    BY <1>9 DEF ReviseSucceeds, TypeOK
  <2>2. QuietRow(run[handler.run], UpdatePlan(run[handler.run], "revision", "awaiting_user_confirmation"))
    BY <1>9, <2>1, QuietUpdatePlan DEF PlanText, RunStage
  <2>3. \A q \in Runs : QuietRow(run[q], run'[q])
    BY <1>9, <2>1, <2>2, QuietWrite DEF ReviseSucceeds
  <2>4. /\ \A u \in Tasks : pc'[u] # "idle" => KnownRun(RunOf(u))
        /\ \A u \in Planners : pc'[u] = "approving" => pc[u] = "approving"
    BY <1>9 DEF ReviseSucceeds, TypeOK
  <2>5. QED
    BY <1>9, <2>3, <2>4, QuietStep DEF ReviseSucceeds, IdleHandler
<1>10. ASSUME ReviseFails PROVE StartInv'
  <2>1. run[handler.run] \in RunRow /\ handler.run \in Runs
    BY <1>10 DEF ReviseFails, TypeOK
  <2>2. QuietRow(run[handler.run], UpdateStatus(run[handler.run], handler.status, handler.stage))
    BY <1>10, <2>1, QuietUpdateStatus DEF RunStatus, TypeOK, ReviseFails
  <2>3. \A q \in Runs : QuietRow(run[q], run'[q])
    BY <1>10, <2>1, <2>2, QuietWrite DEF ReviseFails
  <2>4. /\ \A u \in Tasks : pc'[u] # "idle" => KnownRun(RunOf(u))
        /\ \A u \in Planners : pc'[u] = "approving" => pc[u] = "approving"
    BY <1>10 DEF ReviseFails, TypeOK
  <2>5. QED
    BY <1>10, <2>3, <2>4, QuietStep DEF ReviseFails, IdleHandler
<1>11. ASSUME Consume PROVE StartInv'
  <2>1. \A i \in 1..Len(queue') : KnownRun(RunOf(queue'[i]))
    BY <1>11 DEF Consume, TypeOK
  <2>2. /\ \A u \in Tasks : pc'[u] # "idle" => KnownRun(RunOf(u))
        /\ \A u \in Planners : pc'[u] = "approving" => pc[u] = "approving"
    BY <1>11 DEF Consume, TypeOK
  <2>3. QED
    BY <1>11, <2>1, <2>2, QuietUnchanged, QuietStep DEF Consume
<1>12. ASSUME NEW t \in Planners, PlanBegin(t) PROVE StartInv'
  <2>1. /\ \A u \in Tasks : pc'[u] # "idle" => KnownRun(RunOf(u))
        /\ \A u \in Planners : pc'[u] = "approving" => pc[u] = "approving"
    BY <1>12 DEF PlanBegin, MayEnter, TypeOK
  <2>2. QED
    BY <1>12, <2>1, QuietUnchanged, QuietStep DEF PlanBegin
<1>13. ASSUME NEW t \in Planners, DraftFails(t) PROVE StartInv'
  <2>1. run[RunOf(t)] \in RunRow
    BY <1>13 DEF DraftFails, TypeOK
  <2>2. QuietRow(run[RunOf(t)], UpdateStatus(run[RunOf(t)], "failed", "planning"))
    BY <1>13, <2>1, QuietUpdateStatus DEF RunStatus, RunStage
  <2>3. \A q \in Runs : QuietRow(run[q], run'[q])
    BY <1>13, <2>1, <2>2, QuietWrite DEF DraftFails, PlanningFailed
  <2>4. /\ \A u \in Tasks : pc'[u] # "idle" => KnownRun(RunOf(u))
        /\ \A u \in Planners : pc'[u] = "approving" => pc[u] = "approving"
    BY <1>13 DEF DraftFails, AfterPlanning, TypeOK
  <2>5. QED
    BY <1>13, <2>3, <2>4, QuietStep DEF DraftFails
<1>14. ASSUME NEW t \in Planners, DraftSucceeds(t) PROVE StartInv'
  <2>1. PICK g \in RunStage : run' = [run EXCEPT ![RunOf(t)] = UpdatePlan(run[RunOf(t)], Author(t), g)]
    BY <1>14 DEF DraftSucceeds, RunStage
  <2>2. Author(t) \in PlanText \ {"null"}
    BY DEF Author, PlanText
  <2>3. QuietRow(run[RunOf(t)], UpdatePlan(run[RunOf(t)], Author(t), g))
    BY <2>2, QuietUpdatePlan DEF TypeOK
  <2>4. \A q \in Runs : QuietRow(run[q], run'[q])
    BY <2>1, <2>3, QuietWrite
  <2>5. run'[RunOf(t)].plan # "null"
    <3>1. run \in [Runs -> RunRow] /\ RunOf(t) \in Runs
      BY DEF TypeOK
    <3>2. UpdatePlan(run[RunOf(t)], Author(t), g).plan = Author(t)
      BY <2>2, <3>1, UpdatePlanRow
    <3>3. QED
      BY <2>1, <2>2, <3>1, <3>2
  <2>6. /\ \A u \in Tasks : pc'[u] # "idle" => KnownRun(RunOf(u))
        /\ \A u \in Planners : pc'[u] = "approving" => pc[u] = "approving" \/ run'[RunOf(u)].plan # "null"
    BY <1>14, <2>5 DEF DraftSucceeds, TypeOK
  <2>7. QED
    BY <1>14, <2>4, <2>6, QuietStep DEF DraftSucceeds
<1>15. ASSUME NEW t \in Planners, AutoApprove(t) PROVE StartInv'
  <2>1. run[RunOf(t)].plan # "null"
    BY <1>15 DEF AutoApprove, StartInv, PlannedBeforeAutoApproval
  <2>2. /\ run' = [run EXCEPT ![RunOf(t)] = Approve(run[RunOf(t)])]
        /\ UNCHANGED <<queue, handler>>
        /\ \A u \in Tasks : pc'[u] # "idle" => KnownRun(RunOf(u))
        /\ \A u \in Planners : pc'[u] = "approving" => pc[u] = "approving"
    BY <1>15 DEF AutoApprove, TypeOK
  <2>3. CASE Approvable(run[RunOf(t)])
    <3>1. /\ hist'[RunOf(t)].agreed = run[RunOf(t)].plan
          /\ hist'[RunOf(t)].starts = hist[RunOf(t)].starts
          /\ \A q \in Runs \ {RunOf(t)} : hist'[q] = hist[q]
      BY <1>15, <2>3 DEF AutoApprove, TypeOK
    <3>2. KnownRun(RunOf(t)) 
      BY <2>3 DEF Approvable, KnownRun
    <3>3. QED
      BY <2>1, <2>2, <2>3, <3>1, <3>2, ApprovalStep
  <2>4. CASE ~Approvable(run[RunOf(t)])
    <3>1. hist' = hist
      BY <1>15, <2>4 DEF AutoApprove, TypeOK
    <3>2. run' = run
      BY <2>2, <2>4 DEF Approve, TypeOK
    <3>3. QED
      BY <2>2, <3>1, <3>2, QuietUnchanged, QuietStep
  <2>5. QED
    BY <2>3, <2>4
<1>16. ASSUME NEW t \in Planners, AutoDispatch(t) PROVE StartInv'
  <2>1. \A i \in 1..Len(queue') : KnownRun(RunOf(queue'[i]))
    BY <1>16, DispatchType DEF AutoDispatch, TypeOK
  <2>2. /\ \A u \in Tasks : pc'[u] # "idle" => KnownRun(RunOf(u))
        /\ \A u \in Planners : pc'[u] = "approving" => pc[u] = "approving"
    BY <1>16 DEF AutoDispatch, AfterPlanning, TypeOK
  <2>3. QED
    BY <1>16, <2>1, <2>2, QuietUnchanged, QuietStep DEF AutoDispatch
<1>17. ASSUME NEW j \in JobIds, ClaimJob(j) PROVE StartInv'
  <2>1. /\ \A u \in Tasks : pc'[u] # "idle" => KnownRun(RunOf(u))
        /\ \A u \in Planners : pc'[u] = "approving" => pc[u] = "approving"
    BY <1>17 DEF ClaimJob, TypeOK
  <2>2. QED
    BY <1>17, <2>1, QuietUnchanged, QuietStep DEF ClaimJob
<1>18. ASSUME NEW j \in JobIds, CompleteJob(j) PROVE StartInv'
  <2>1. /\ \A u \in Tasks : pc'[u] # "idle" => KnownRun(RunOf(u))
        /\ \A u \in Planners : pc'[u] = "approving" => pc[u] = "approving"
    BY <1>18 DEF CompleteJob, TypeOK
  <2>2. QED
    BY <1>18, <2>1, QuietUnchanged, QuietStep DEF CompleteJob
<1>19. ASSUME NEW j \in JobIds, FailJob(j) PROVE StartInv'
  <2>1. /\ \A u \in Tasks : pc'[u] # "idle" => KnownRun(RunOf(u))
        /\ \A u \in Planners : pc'[u] = "approving" => pc[u] = "approving"
    BY <1>19 DEF FailJob, TypeOK
  <2>2. QED
    BY <1>19, <2>1, QuietUnchanged, QuietStep DEF FailJob
<1>20. ASSUME NEW j \in JobIds, TaskDone(j) PROVE StartInv'
  <2>1. /\ \A u \in Tasks : pc'[u] # "idle" => KnownRun(RunOf(u))
        /\ \A u \in Planners : pc'[u] = "approving" => pc[u] = "approving"
    BY <1>20 DEF TaskDone, TypeOK
  <2>2. QED
    BY <1>20, <2>1, QuietUnchanged, QuietStep DEF TaskDone
<1>21. ASSUME NEW j \in JobIds, DropSpawned(j) PROVE StartInv'
  <2>1. /\ \A u \in Tasks : pc'[u] # "idle" => KnownRun(RunOf(u))
        /\ \A u \in Planners : pc'[u] = "approving" => pc[u] = "approving"
    BY <1>21 DEF DropSpawned, TypeOK
  <2>2. QED
    BY <1>21, <2>1, QuietUnchanged, QuietStep DEF DropSpawned
<1>22. ASSUME NEW j \in JobIds, Interrupt(j) PROVE StartInv'
  <2>1. /\ \A u \in Tasks : pc'[u] # "idle" => KnownRun(RunOf(u))
        /\ \A u \in Planners : pc'[u] = "approving" => pc[u] = "approving"
    BY <1>22 DEF Interrupt, Interruptible, Awaiting, TypeOK
  <2>2. QED
    BY <1>22, <2>1, QuietUnchanged, QuietStep DEF Interrupt
<1>23. ASSUME NEW j \in JobIds, InterruptRun(j) PROVE StartInv'
  <2>1. run[RunOf(j)] \in RunRow
    BY <1>23 DEF InterruptRun, TypeOK
  <2>2. QuietRow(run[RunOf(j)], IF run[RunOf(j)].status \in TerminalStatuses
                                THEN run[RunOf(j)]
                                ELSE UpdateStatus(run[RunOf(j)], "failed", run[RunOf(j)].stage))
    BY <1>23, <2>1, QuietUpdateStatus DEF RunRow, RunStatus, QuietRow
  <2>3. \A q \in Runs : QuietRow(run[q], run'[q])
    BY <1>23, <2>1, <2>2, QuietWrite DEF InterruptRun, Interrupted
  <2>4. /\ \A u \in Tasks : pc'[u] # "idle" => KnownRun(RunOf(u))
        /\ \A u \in Planners : pc'[u] = "approving" => pc[u] = "approving"
    BY <1>23 DEF InterruptRun, TypeOK
  <2>5. QED
    BY <1>23, <2>3, <2>4, QuietStep DEF InterruptRun
<1>24. ASSUME NEW j \in ExecJobs, ExecBegin(j) PROVE StartInv'
  <2>1. run[RunOf(j)].approved /\ run[RunOf(j)].status = "queued"
    BY <1>24 DEF ExecBegin, Executable
  <2>2. PICK row \in RunRow : /\ run' = [run EXCEPT ![RunOf(j)] = row]
                              /\ row.plan = run[RunOf(j)].plan /\ row.approved
                              /\ row.status \notin {"queued", "absent"}
    <3>1. run[RunOf(j)] \in RunRow
      BY DEF TypeOK
    <3>2. /\ StartRun(run[RunOf(j)]) \in RunRow
          /\ StartRun(run[RunOf(j)]).plan = run[RunOf(j)].plan
          /\ StartRun(run[RunOf(j)]).approved
          /\ StartRun(run[RunOf(j)]).status = "running"
      BY ONLY <2>1, <3>1, StartRunRow
    <3>3. QED
      BY <1>24, <3>2 DEF ExecBegin
  <2>3. /\ hist' = CountStart(RunOf(j)) /\ UNCHANGED <<queue, handler>>
        /\ \A u \in Tasks : pc'[u] # "idle" => KnownRun(RunOf(u))
        /\ \A u \in Planners : pc'[u] = "approving" => pc[u] = "approving"
    BY <1>24 DEF ExecBegin, MayEnter, TypeOK
  <2>4. QED
    BY <2>1, <2>2, <2>3, RunStartStep
<1>25. ASSUME NEW j \in ExecJobs, ExecBeginRaises(j) PROVE StartInv'
  <2>1. run[RunOf(j)].approved /\ run[RunOf(j)].status = "queued"
    BY <1>25 DEF ExecBeginRaises, Executable
  <2>2. PICK row \in RunRow : /\ run' = [run EXCEPT ![RunOf(j)] = row]
                              /\ row.plan = run[RunOf(j)].plan /\ row.approved
                              /\ row.status \notin {"queued", "absent"}
    <3> DEFINE new == UpdateStatus(StartRun(run[RunOf(j)]), "failed", "retrieve_context")
    <3>1. run[RunOf(j)] \in RunRow /\ "failed" \in RunStatus /\ "retrieve_context" \in RunStage
      BY DEF TypeOK, RunStatus, RunStage
    <3>2. /\ StartRun(run[RunOf(j)]) \in RunRow
          /\ StartRun(run[RunOf(j)]).plan = run[RunOf(j)].plan
          /\ StartRun(run[RunOf(j)]).approved
      BY ONLY <2>1, <3>1, StartRunRow
    <3>3. new \in RunRow /\ new.plan = run[RunOf(j)].plan /\ new.approved /\ new.status = "failed"
      BY ONLY <3>1, <3>2, UpdateStatusRow
    <3>4. run' = [run EXCEPT ![RunOf(j)] = new]
      BY <1>25 DEF ExecBeginRaises
    <3> HIDE DEF new
    <3>5. QED
      BY <3>3, <3>4
  <2>3. /\ hist' = CountStart(RunOf(j)) /\ UNCHANGED <<queue, handler>>
        /\ \A u \in Tasks : pc'[u] # "idle" => KnownRun(RunOf(u))
        /\ \A u \in Planners : pc'[u] = "approving" => pc[u] = "approving"
    BY <1>25 DEF ExecBeginRaises, MayEnter, TypeOK
  <2>4. QED
    BY <2>1, <2>2, <2>3, RunStartStep
<1>26. ASSUME NEW j \in ExecJobs, ExecSkip(j) PROVE StartInv'
  <2>1. /\ \A u \in Tasks : pc'[u] # "idle" => KnownRun(RunOf(u))
        /\ \A u \in Planners : pc'[u] = "approving" => pc[u] = "approving"
    BY <1>26 DEF ExecSkip, MayEnter, TypeOK
  <2>2. QED
    BY <1>26, <2>1, QuietUnchanged, QuietStep DEF ExecSkip
<1>27. ASSUME NEW j \in ExecJobs, PlanStart(j) PROVE StartInv'
  <2>1. /\ \A u \in Tasks : pc'[u] # "idle" => KnownRun(RunOf(u))
        /\ \A u \in Planners : pc'[u] = "approving" => pc[u] = "approving"
    BY <1>27 DEF PlanStart, TypeOK
  <2>2. QED
    BY <1>27, <2>1, QuietUnchanged, QuietStep DEF PlanStart
<1>28. ASSUME NEW j \in ExecJobs, DirectDone(j) PROVE StartInv'
  <2>1. run[RunOf(j)] \in RunRow
    BY <1>28 DEF DirectDone, TypeOK
  <2>2. QuietRow(run[RunOf(j)], IF Cancelled(j) THEN run[RunOf(j)]
                                ELSE SaveArtifacts(run[RunOf(j)], "execution"))
    BY <1>28, <2>1, QuietSaveArtifacts DEF RunStage, QuietRow
  <2>3. \A q \in Runs : QuietRow(run[q], run'[q])
    BY <1>28, <2>1, <2>2, QuietWrite DEF DirectDone
  <2>4. /\ \A u \in Tasks : pc'[u] # "idle" => KnownRun(RunOf(u))
        /\ \A u \in Planners : pc'[u] = "approving" => pc[u] = "approving"
    BY <1>28 DEF DirectDone, TypeOK
  <2>5. QED
    BY <1>28, <2>3, <2>4, QuietStep DEF DirectDone
<1>29. ASSUME NEW j \in ExecJobs, StageDone(j) PROVE StartInv'
  <2>1. PICK row : /\ run' = [run EXCEPT ![RunOf(j)] = row]
                   /\ \/ row = SaveArtifacts(run[RunOf(j)], "execution")
                      \/ row = UpdatePlan(run[RunOf(j)], "replanning", "internal_replanning")
    BY <1>29 DEF StageDone
  <2>2. QuietRow(run[RunOf(j)], row)
    BY <2>1, QuietSaveArtifacts, QuietUpdatePlan DEF TypeOK, PlanText, RunStage
  <2>3. \A q \in Runs : QuietRow(run[q], run'[q])
    BY <2>1, <2>2, QuietWrite
  <2>4. /\ \A u \in Tasks : pc'[u] # "idle" => KnownRun(RunOf(u))
        /\ \A u \in Planners : pc'[u] = "approving" => pc[u] = "approving"
    BY <1>29 DEF StageDone, TypeOK
  <2>5. QED
    BY <1>29, <2>3, <2>4, QuietStep DEF StageDone
<1>30. ASSUME NEW j \in ExecJobs, ExecRaises(j) PROVE StartInv'
  <2>1. run[RunOf(j)] \in RunRow
    BY <1>30 DEF ExecRaises, TypeOK
  <2>2. QuietRow(run[RunOf(j)], UpdateStatus(run[RunOf(j)], "failed", run[RunOf(j)].stage))
    BY <1>30, <2>1, QuietUpdateStatus DEF RunRow, RunStatus
  <2>3. \A q \in Runs : QuietRow(run[q], run'[q])
    BY <1>30, <2>1, <2>2, QuietWrite DEF ExecRaises, ExecutionFailed
  <2>4. /\ \A u \in Tasks : pc'[u] # "idle" => KnownRun(RunOf(u))
        /\ \A u \in Planners : pc'[u] = "approving" => pc[u] = "approving"
    BY <1>30 DEF ExecRaises, TypeOK
  <2>5. QED
    BY <1>30, <2>3, <2>4, QuietStep DEF ExecRaises
<1>31. ASSUME NEW j \in ExecJobs, ExecCompletes(j) PROVE StartInv'
  <2>1. run[RunOf(j)] \in RunRow
    BY <1>31 DEF ExecCompletes, TypeOK
  <2>2. QuietRow(run[RunOf(j)], UpdateStatus(run[RunOf(j)], "completed", "completed"))
    BY <1>31, <2>1, QuietUpdateStatus DEF RunStatus, RunStage
  <2>3. \A q \in Runs : QuietRow(run[q], run'[q])
    BY <1>31, <2>1, <2>2, QuietWrite DEF ExecCompletes
  <2>4. /\ \A u \in Tasks : pc'[u] # "idle" => KnownRun(RunOf(u))
        /\ \A u \in Planners : pc'[u] = "approving" => pc[u] = "approving"
    BY <1>31 DEF ExecCompletes, TypeOK
  <2>5. QED
    BY <1>31, <2>3, <2>4, QuietStep DEF ExecCompletes
<1>32. ASSUME NEW j \in ExecJobs, ToolEnter(j) PROVE StartInv'
  <2>1. run[RunOf(j)] \in RunRow
    BY <1>32 DEF ToolEnter, TypeOK
  <2>2. QuietRow(run[RunOf(j)], EnterTool(run[RunOf(j)]))
    BY <1>32, <2>1, QuietUpdateStatus DEF EnterTool, TryUpdateStatus, RunStatus, RunStage, QuietRow
  <2>3. \A q \in Runs : QuietRow(run[q], run'[q])
    BY <1>32, <2>1, <2>2, QuietWrite DEF ToolEnter
  <2>4. /\ \A u \in Tasks : pc'[u] # "idle" => KnownRun(RunOf(u))
        /\ \A u \in Planners : pc'[u] = "approving" => pc[u] = "approving"
    BY <1>32 DEF ToolEnter, TypeOK
  <2>5. QED
    BY <1>32, <2>3, <2>4, QuietStep DEF ToolEnter
<1>33. ASSUME NEW j \in ExecJobs, ToolLeave(j) PROVE StartInv'
  <2>1. run[RunOf(j)] \in RunRow
    BY <1>33 DEF ToolLeave, TypeOK
  <2>2. QuietRow(run[RunOf(j)], LeaveTool(run[RunOf(j)]))
    BY <1>33, <2>1, QuietUpdateStatus DEF LeaveTool, TryUpdateStatus, RunStatus, RunStage, QuietRow
  <2>3. \A q \in Runs : QuietRow(run[q], run'[q])
    BY <1>33, <2>1, <2>2, QuietWrite DEF ToolLeave
  <2>4. /\ \A u \in Tasks : pc'[u] # "idle" => KnownRun(RunOf(u))
        /\ \A u \in Planners : pc'[u] = "approving" => pc[u] = "approving"
    BY <1>33 DEF ToolLeave, TypeOK
  <2>5. QED
    BY <1>33, <2>3, <2>4, QuietStep DEF ToolLeave
<1>34. ASSUME NEW j \in ExecJobs, ToolsReturn(j) PROVE StartInv'
  <2>1. /\ \A u \in Tasks : pc'[u] # "idle" => KnownRun(RunOf(u))
        /\ \A u \in Planners : pc'[u] = "approving" => pc[u] = "approving"
    BY <1>34 DEF ToolsReturn, TypeOK
  <2>2. QED
    BY <1>34, <2>1, QuietUnchanged, QuietStep DEF ToolsReturn
<1>35. ASSUME Stop PROVE StartInv'
  <2>1. /\ \A u \in Tasks : pc'[u] # "idle" => KnownRun(RunOf(u))
        /\ \A u \in Planners : pc'[u] = "approving" => pc[u] = "approving"
    BY <1>35 DEF Stop, TypeOK
  <2>2. QED
    BY <1>35, <2>1, QuietUnchanged, QuietStep DEF Stop
<1>36. ASSUME Restart PROVE StartInv'
  <2>1. /\ \A u \in Tasks : pc'[u] # "idle" => KnownRun(RunOf(u))
        /\ \A u \in Planners : pc'[u] = "approving" => pc[u] = "approving"
    BY <1>36 DEF Restart, TypeOK
  <2>2. QED
    BY <1>36, <2>1, QuietUnchanged, QuietStep DEF Restart, IdleHandler
<1>37. CASE UNCHANGED vars
  BY <1>37, QuietUnchanged, QuietStep DEF vars, StartInv, PlannedBeforeAutoApproval
<1>38. QED
  BY <1>1, <1>2, <1>3, <1>4, <1>5, <1>6, <1>7, <1>8, <1>9, <1>10,
     <1>11, <1>12, <1>13, <1>14, <1>15, <1>16, <1>17, <1>18, <1>19, <1>20,
     <1>21, <1>22, <1>23, <1>24, <1>25, <1>26, <1>27, <1>28, <1>29, <1>30,
     <1>31, <1>32, <1>33, <1>34, <1>35, <1>36, <1>37
     DEF Next, User, Handler, Planner, Worker, Executor, ToolThread

\* The inductive invariant holds throughout.
THEOREM StartInvariant == Spec => []StartInv
<1>1. QED
  BY StartInit, StartStep, PTL DEF Spec

\* However many planners, approvals, duplicate EXECUTE_RUN jobs, failed revisions,
\* shutdowns and restarts there are, process_run() starts a run at most once.
THEOREM RunsExecuteOnce == Spec => []ExecutesOnce
<1>1. StartInv => ExecutesOnce
  <2>1. TypeOK => \A r \in Runs : hist[r].starts \in Nat
    BY DEF TypeOK
  <2>2. QED
    BY <2>1 DEF StartInv, StartedLeavesQueued, ExecutesOnce
<1>2. QED
  BY <1>1, StartInvariant, PTL

\* process_run() only ever starts runs that were approved and have a plan.
THEOREM StartsAreApproved == Spec => []StartedWithApprovedPlan
<1>1. StartInv => StartedWithApprovedPlan
  BY DEF StartInv, StartedLeavesQueued, ApprovedRunHasPlan, StartedWithApprovedPlan
<1>2. QED
  BY <1>1, StartInvariant, PTL

-----------------------------------------------------------------------------
(* The inductive invariant.                                                *)

Elements(q) == {q[i] : i \in 1..Len(q)}
Distinct(q) == \A i, k \in 1..Len(q) : q[i] = q[k] => i = k

\* The ids LocalQueue holds, and the rows the unique index counts as active.
Waiting == Elements(queue)
Active(j) == job[j] \in ActiveJobStatus

\* Where a task works on its job, and where it executes a plan.
Executing == {"tools", "direct", "stages", "remembering"}
Working == {"claimed", "drafting", "approving", "dispatching", "completing", "failing"} \cup Executing

\* What the table says of a job, by where its id is in the process.
Placed(j) ==
    /\ j \in pending <=> j \in Waiting \/ pc[j] # "idle"
    /\ j \in Waiting => pc[j] = "idle" /\ job[j] = "queued"
    /\ pc[j] = "spawned" => job[j] = "queued"
    /\ pc[j] \in Working => job[j] = "running"
    /\ pc[j] = "failing_run" => job[j] = "failed" /\ stopping
    /\ pc[j] = "finishing" => job[j] # "none" /\ (stopping \/ ~Active(j))

JobsInPlace == Distinct(queue) /\ \A j \in JobIds : Placed(j)

\* While a use case is between its two writes no task is between two of its own.
OneSegmentAtATime == handler.pc \in MidHandler => \A t \in Tasks : pc[t] \notin MidSegment

\* stop() is called on an idle bot: nobody dispatches until the process has ended.
ShutdownIsQuiet ==
    stopping => /\ handler.pc = "idle"
                /\ \A t \in Planners : pc[t] \notin {"approving", "dispatching"}
                /\ \A c \in Continuations : pc[c] = "idle"

\* A run has one plan job ever, and one active execution job at a time.
OneJobAtATime ==
    /\ \A j \in JobIds : job[j] # "none" => KnownRun(RunOf(j))
    /\ \A p, q \in PlanJobs :
           RunOf(p) = RunOf(q) /\ job[p] # "none" /\ job[q] # "none" => p = q
    /\ \A i, j \in ExecJobs : RunOf(i) = RunOf(j) /\ Active(i) /\ Active(j) => i = j

\* A run whose prompt is being submitted has no plan, no job and no continuation.
BeforeDispatch ==
    /\ handler.pc \in {"submitting", "acking"} => pc[Continuation(handler.run)] = "idle"
    /\ handler.pc = "submitting" =>
           /\ run[handler.run].plan = "null"
           /\ \A j \in JobIds : RunOf(j) = handler.run => job[j] = "none"

\* The two planners of a run, before their model has answered.
JobStillPlans(p) == job[p] = "queued" \/ pc[p] \in {"claimed", "drafting"}
ChatStillPlans(r) ==
    \/ handler.pc \in {"submitting", "acking"} /\ handler.run = r
    \/ pc[Continuation(r)] \in {"spawned", "drafting"}

\* A plan is there because one of the two has answered.
OnePlannerLeft ==
    \A p \in PlanJobs :
        run[RunOf(p)].plan # "null" => ~JobStillPlans(p) \/ ~ChatStillPlans(RunOf(p))

\* An approved run is neither offered nor cancelled any more, work is done on
\* approved runs only, and executions work on runs that were started.
ApprovedForGood ==
    /\ \A r \in Runs : run[r].approved => run[r].status \notin {"awaiting_confirmation", "cancelled"}
    /\ \A r \in Runs : run[r].status \in {"running", "waiting_tool"} => run[r].approved
    /\ \A j \in ExecJobs : pc[j] \in Executing => hist[RunOf(j)].starts > 0

UnderRevision(r) == handler.pc = "revising" /\ handler.run = r
UnderApproval(r) == handler.pc = "approving" /\ handler.run = r

\* Whoever drafts for a run that awaits its user has seen it awaiting.
AwaitingWasSeen ==
    \A t \in Planners : run[RunOf(t)].status = "awaiting_confirmation" /\ pc[t] = "drafting" =>
                            seen[t] = "awaiting_confirmation"

\* A run under revision stays unapproved; if it failed meanwhile, its last planner
\* failed it.
RevisedRow ==
    \A r \in Runs : UnderRevision(r) =>
        /\ run[r].plan # "null" /\ ~run[r].approved
        /\ run[r].status \in {"awaiting_confirmation", "failed"}
        /\ run[r].status = "failed" => /\ ~ChatStillPlans(r)
                                       /\ \A p \in PlanJobs : RunOf(p) = r => ~JobStillPlans(p)

\* The run has not been decided on.
Undecided(r) == ~run[r].approved /\ run[r].status \in {"awaiting_confirmation", "queued"}

\* Executions are dispatched for decided runs only.
NothingDispatched ==
    /\ \A r \in Runs : UnderApproval(r) => run[r].approved
    /\ \A j \in ExecJobs :
           Undecided(RunOf(j)) \/ UnderRevision(RunOf(j)) \/ UnderApproval(RunOf(j)) => job[j] = "none"
    /\ \A t \in Planners :
           /\ pc[t] = "dispatching" => ~Undecided(RunOf(t)) /\ ~UnderRevision(RunOf(t))
           /\ pc[t] = "approving" => /\ run[RunOf(t)].status # "awaiting_confirmation"
                                     /\ ~UnderRevision(RunOf(t))

\* The run was submitted to this process and is still being planned.
Planning(r) ==
    \/ handler.pc \in {"submitting", "acking"} /\ handler.run = r
    \/ pc[Continuation(r)] # "idle"
    \/ \E p \in PlanJobs : RunOf(p) = r /\ p \in pending

\* The process holds the active jobs of every run it plans, and before any
\* restart all active jobs.
ActiveIsPending ==
    ~stopping => \A j \in JobIds :
        Active(j) /\ (restarts = 0 \/ Planning(RunOf(j))) => j \in pending

\* A run id without a row has no plan: the prompt comes first.
AbsentRowsAreEmpty == \A r \in Runs : run[r].status = "absent" => run[r].plan = "null"

RuntimeInv ==
    /\ StartInv
    /\ AbsentRowsAreEmpty
    /\ JobsInPlace
    /\ OneSegmentAtATime
    /\ ShutdownIsQuiet
    /\ OneJobAtATime
    /\ BeforeDispatch
    /\ OnePlannerLeft
    /\ ApprovedForGood
    /\ AwaitingWasSeen
    /\ RevisedRow
    /\ NothingDispatched
    /\ ActiveIsPending

-----------------------------------------------------------------------------
(* Lemmas about tasks, the queue and dispatch_run().                       *)

\* Jobs and continuations, plan and execution jobs are apart.
LEMMA TaskKinds ==
    /\ JobIds = PlanJobs \cup ExecJobs /\ PlanJobs \cap ExecJobs = {}
    /\ Tasks = JobIds \cup Continuations /\ JobIds \cap Continuations = {}
    /\ Planners = PlanJobs \cup Continuations
    /\ \A r \in Runs : Continuation(r) \in Continuations
    /\ \A c \in Continuations : c = Continuation(RunOf(c))
    /\ \A r \in Runs : JobsOf(r, "plan_run") = {p \in PlanJobs : RunOf(p) = r}
    /\ \A r \in Runs : JobsOf(r, "execute_run") = {j \in ExecJobs : RunOf(j) = r}
BY DEF PlanJobs, ExecJobs, JobIds, Continuations, Continuation, Planners, Tasks, RunOf, JobsOf

\* Appending an id that is not in the queue.
LEMMA AppendElements ==
    ASSUME NEW q \in Seq(JobIds), NEW j \in JobIds
    PROVE  /\ Elements(Append(q, j)) = Elements(q) \cup {j}
           /\ Distinct(q) /\ j \notin Elements(q) => Distinct(Append(q, j))
<1>1. /\ Len(Append(q, j)) = Len(q) + 1
      /\ \A i \in 1..Len(q) : Append(q, j)[i] = q[i]
      /\ Append(q, j)[Len(q) + 1] = j
      /\ Len(q) \in Nat
  OBVIOUS
<1>2. 1..(Len(q) + 1) = 1..Len(q) \cup {Len(q) + 1}
  BY <1>1
<1>3. Elements(Append(q, j)) = Elements(q) \cup {j}
  BY <1>1, <1>2 DEF Elements
<1>4. ASSUME Distinct(q), j \notin Elements(q) PROVE Distinct(Append(q, j))
  BY <1>1, <1>2, <1>4 DEF Elements, Distinct
<1>5. QED
  BY <1>3, <1>4

\* Taking the head of a queue without duplicates removes it.
LEMMA TailElements ==
    ASSUME NEW q \in Seq(JobIds), q # <<>>
    PROVE  /\ Head(q) \in Elements(q) /\ Head(q) \in JobIds
           /\ Distinct(q) => Elements(Tail(q)) = Elements(q) \ {Head(q)}
           /\ Distinct(q) => Distinct(Tail(q))
<1>1. /\ Len(q) \in Nat \ {0} /\ Len(Tail(q)) = Len(q) - 1
      /\ \A i \in 1..Len(Tail(q)) : Tail(q)[i] = q[i + 1]
      /\ Head(q) = q[1]
  OBVIOUS
<1>2. Head(q) \in Elements(q) /\ Head(q) \in JobIds
  BY <1>1 DEF Elements
<1>3. ASSUME Distinct(q) PROVE Elements(Tail(q)) = Elements(q) \ {Head(q)}
  <2>1. \A i \in 1..Len(Tail(q)) : i + 1 \in 1..Len(q) /\ i + 1 # 1
    BY <1>1
  <2>2. \A i \in 1..Len(q) : i # 1 => i - 1 \in 1..Len(Tail(q)) /\ q[i] = Tail(q)[i - 1]
    BY <1>1
  <2>3. Elements(Tail(q)) \subseteq Elements(q) \ {Head(q)}
    BY <1>1, <1>3, <2>1 DEF Elements, Distinct
  <2>4. ASSUME NEW e \in Elements(q) \ {Head(q)} PROVE e \in Elements(Tail(q))
    <3>1. PICK i \in 1..Len(q) : e = q[i] /\ i # 1
      BY <1>1 DEF Elements
    <3>2. i - 1 \in 1..Len(Tail(q)) /\ e = Tail(q)[i - 1]
      BY <2>2, <3>1
    <3>3. QED
      BY <3>2 DEF Elements
  <2>5. QED
    BY <2>3, <2>4
<1>4. ASSUME Distinct(q) PROVE Distinct(Tail(q))
  BY <1>1, <1>4 DEF Distinct
<1>5. QED
  BY <1>2, <1>3, <1>4

\* A queue without duplicates is as long as the set of its elements is large.
LEMMA DistinctCardinality ==
    ASSUME NEW q \in Seq(JobIds), Distinct(q)
    PROVE  Cardinality(Elements(q)) = Len(q)
<1> DEFINE f == [i \in 1..Len(q) |-> q[i]]
<1>1. f \in Bijection(1..Len(q), Elements(q))
  BY DEF Elements, Distinct, Bijection, Injection, Surjection, IsInjective
<1>2. ExistsBijection(1..Len(q), Elements(q))
  BY <1>1 DEF ExistsBijection
<1>3. QED
  BY <1>2, FS_CountingElements

\* dispatch_run() queues one job of the run: a fresh one only if none is active.
LEMMA DispatchEffect ==
    ASSUME TypeOK, NEW r \in Runs, NEW type, DispatchRun(r, type)
    PROVE  \E j \in JobsOf(r, type) :
               /\ j \in JobIds /\ RunOf(j) = r
               /\ \/ job[j] = "none" /\ job'[j] = "queued" /\ \A k \in JobsOf(r, type) : ~Active(k)
                  \/ Active(j) /\ job'[j] = job[j]
               /\ \A k \in JobIds \ {j} : job'[k] = job[k]
               /\ queue' = Enqueue(queue, j)
               /\ pending' = pending \cup {j}
<1>1. PICK j \in EnsureQueuedJob(r, type) :
          /\ job' = [job EXCEPT ![j] = IF @ = "none" THEN "queued" ELSE @]
          /\ queue' = Enqueue(queue, j)
          /\ pending' = pending \cup {j}
  BY DEF DispatchRun
<1>2. /\ j \in JobsOf(r, type)
      /\ Active(j) \/ (job[j] = "none" /\ \A k \in JobsOf(r, type) : ~Active(k))
  BY DEF EnsureQueuedJob, Active
<1>3. j \in JobIds /\ RunOf(j) = r
  BY <1>2, TaskShape
<1>4. QED
  BY <1>1, <1>2, <1>3 DEF TypeOK, Active, ActiveJobStatus

\* A step that moves one job, into a place that fits it, keeps the others where
\* they are.
LEMMA OneJobMoves ==
    ASSUME JobsInPlace, NEW j \in JobIds,
           \A k \in JobIds \ {j} : /\ job'[k] = job[k] /\ pc'[k] = pc[k]
                                   /\ k \in pending' <=> k \in pending
                                   /\ k \in Waiting' <=> k \in Waiting,
           stopping => stopping',
           Distinct(queue'), Placed(j)'
    PROVE  JobsInPlace'
<1>1. ASSUME NEW k \in JobIds, k # j PROVE Placed(k)'
  BY <1>1 DEF JobsInPlace, Placed, Active
<1>2. QED
  BY <1>1 DEF JobsInPlace

\* A task that stays at work on its job, or a task of no job, moves nothing.
LEMMA WorkGoesOn ==
    ASSUME JobsInPlace,
           UNCHANGED <<job, queue, pending>>, stopping => stopping',
           \A j \in JobIds : pc'[j] = pc[j] \/ (pc[j] \in Working /\ pc'[j] \in Working)
    PROVE  JobsInPlace'
<1>1. Waiting' = Waiting
  BY DEF Waiting
<1>2. ASSUME NEW j \in JobIds PROVE Placed(j)'
  BY <1>1 DEF JobsInPlace, Placed, Active, Working, Executing
<1>3. QED
  BY <1>2 DEF JobsInPlace

\* dispatch_run() keeps the jobs in place as long as the active job it may find
\* is one the process holds; tasks of jobs stay at work.
LEMMA DispatchPlaces ==
    ASSUME TypeOK, JobsInPlace, NEW r \in Runs, NEW type, DispatchRun(r, type),
           \A k \in JobsOf(r, type) : Active(k) => k \in pending,
           stopping' = stopping,
           \A j \in JobIds : pc'[j] = pc[j] \/ (pc[j] \in Working /\ pc'[j] \in Working)
    PROVE  JobsInPlace'
<1>1. PICK j \in JobsOf(r, type) :
          /\ j \in JobIds
          /\ (job[j] = "none" /\ job'[j] = "queued") \/ (Active(j) /\ job'[j] = job[j])
          /\ \A k \in JobIds \ {j} : job'[k] = job[k]
          /\ queue' = Enqueue(queue, j)
          /\ pending' = pending \cup {j}
  BY DispatchEffect
<1> DEFINE Stays(k) == pc'[k] = pc[k] \/ (pc[k] \in Working /\ pc'[k] \in Working)
<1>2. CASE Active(j) 
  <2>1. j \in pending /\ job'[j] = job[j]
    BY <1>1, <1>2 DEF Active, ActiveJobStatus
  <2>2. queue' = queue /\ pending' = pending /\ Waiting' = Waiting
    BY <1>1, <2>1 DEF Enqueue, Waiting
  <2>3. ASSUME NEW k \in JobIds PROVE Placed(k)'
    <3>1. job'[k] = job[k] /\ Placed(k) /\ Stays(k)
      BY <1>1, <2>1 DEF JobsInPlace
    <3>2. QED
      BY <2>2, <3>1 DEF Placed, Active, Working, Executing
  <2>4. QED
    BY <2>2, <2>3 DEF JobsInPlace
<1>3. CASE job[j] = "none" /\ job'[j] = "queued"
  <2>1. j \notin pending /\ pc[j] = "idle" /\ j \notin Waiting
    BY <1>1, <1>3, TaskShape DEF JobsInPlace, Placed, TypeOK, PC, MidSegment, Awaiting, Working, Executing
  <2>2. queue' = Append(queue, j)
    BY <1>1, <2>1 DEF Enqueue
  <2>3. Waiting' = Waiting \cup {j} /\ Distinct(queue')
    BY <1>1, <2>1, <2>2, AppendElements DEF Waiting, JobsInPlace, TypeOK
  <2>4. Placed(j)'
    BY <1>1, <1>3, <2>1, <2>3 DEF Placed, Working, Executing
  <2>5. ASSUME NEW k \in JobIds, k # j PROVE Placed(k)'
    <3>1. /\ job'[k] = job[k] /\ Placed(k) /\ Stays(k)
          /\ k \in pending' <=> k \in pending
          /\ k \in Waiting' <=> k \in Waiting
      BY <1>1, <2>3, <2>5 DEF JobsInPlace
    <3>2. QED
      BY <3>1 DEF Placed, Active, Working, Executing
  <2>6. QED
    BY <2>3, <2>4, <2>5 DEF JobsInPlace
<1>4. QED
  BY <1>1, <1>2, <1>3

-----------------------------------------------------------------------------
(* Every step preserves the invariant.                                     *)

\* What an execution and its tool thread do: they leave the queue and the handler
\* alone, move their own task on, and write the status of approved runs only.
LEMMA ExecutorEffect ==
    ASSUME StartInv, ApprovedForGood, NEW j \in ExecJobs, Executor(j) \/ ToolThread(j)
    PROVE  /\ UNCHANGED <<job, queue, pending, handler, seen, stopping, restarts>>
           /\ \A t \in Tasks \ {j} : pc'[t] = pc[t]
           /\ \/ pc'[j] = pc[j]
              \/ /\ LoopFree /\ ~stopping
                 /\ pc[j] \in {"claimed"} \cup Executing
                 /\ pc'[j] \in Executing \cup {"completing", "failing"}
           /\ \A q \in Runs \ {RunOf(j)} : run'[q] = run[q]
           /\ run'[RunOf(j)].approved = run[RunOf(j)].approved
           /\ run'[RunOf(j)].plan = "null" <=> run[RunOf(j)].plan = "null"
           /\ \/ run'[RunOf(j)].status = run[RunOf(j)].status
              \/ /\ run[RunOf(j)].approved
                 /\ run'[RunOf(j)].status \in {"running", "waiting_tool", "completed", "failed"}
           /\ pc'[j] \in Executing /\ pc[j] \notin Executing => hist'[RunOf(j)].starts > 0
           /\ \A q \in Runs : hist'[q].starts = hist[q].starts \/ hist'[q].starts > 0
<1> USE TaskShape DEF StartInv, TypeOK
<1>1. CASE ExecBegin(j)
  <2>1. /\ run[RunOf(j)] \in RunRow
        /\ run[RunOf(j)].approved /\ run[RunOf(j)].status = "queued"
    BY <1>1 DEF ExecBegin, Executable
  <2>2. /\ StartRun(run[RunOf(j)]).status = "running"
        /\ StartRun(run[RunOf(j)]).plan = run[RunOf(j)].plan
        /\ StartRun(run[RunOf(j)]).approved = run[RunOf(j)].approved
    BY ONLY <2>1, StartRunRow
  <2>3. /\ run'[RunOf(j)] = StartRun(run[RunOf(j)])
        /\ \A q \in Runs \ {RunOf(j)} : run'[q] = run[q]
    BY <1>1 DEF ExecBegin
  <2>4. hist'[RunOf(j)].starts > 0 /\ \A q \in Runs \ {RunOf(j)} : hist'[q] = hist[q]
    BY <1>1, CountStartType DEF ExecBegin
  <2>5. /\ UNCHANGED <<job, queue, pending, handler, seen, stopping, restarts>>
        /\ \A t \in Tasks \ {j} : pc'[t] = pc[t]
        /\ LoopFree /\ ~stopping /\ pc[j] = "claimed" /\ pc'[j] \in Executing
    BY <1>1 DEF ExecBegin, MayEnter, Executing
  <2>6. QED
    BY <2>1, <2>2, <2>3, <2>4, <2>5
<1>2. CASE ExecBeginRaises(j)
  <2> DEFINE row == StartRun(run[RunOf(j)])
             new == UpdateStatus(row, "failed", "retrieve_context")
  <2>1. /\ run[RunOf(j)] \in RunRow /\ "failed" \in RunStatus /\ "retrieve_context" \in RunStage
        /\ run[RunOf(j)].approved /\ run[RunOf(j)].status = "queued"
    BY <1>2 DEF ExecBeginRaises, Executable, RunStatus, RunStage
  <2>2. /\ row \in RunRow
        /\ row.plan = run[RunOf(j)].plan /\ row.approved = run[RunOf(j)].approved
    BY ONLY <2>1, StartRunRow
  <2>3. new.status = "failed" /\ new.plan = row.plan /\ new.approved = row.approved
    BY ONLY <2>1, <2>2, UpdateStatusRow
  <2>4. /\ run'[RunOf(j)] = new
        /\ \A q \in Runs \ {RunOf(j)} : run'[q] = run[q]
    BY <1>2 DEF ExecBeginRaises
  <2>5. hist'[RunOf(j)].starts > 0 /\ \A q \in Runs \ {RunOf(j)} : hist'[q] = hist[q]
    BY <1>2, CountStartType DEF ExecBeginRaises
  <2>6. /\ UNCHANGED <<job, queue, pending, handler, seen, stopping, restarts>>
        /\ \A t \in Tasks \ {j} : pc'[t] = pc[t]
        /\ LoopFree /\ ~stopping /\ pc[j] = "claimed" /\ pc'[j] = "failing"
    BY <1>2 DEF ExecBeginRaises, MayEnter
  <2> HIDE DEF row, new
  <2>7. QED
    BY <2>1, <2>2, <2>3, <2>4, <2>5, <2>6
<1>3. CASE ExecSkip(j)
  BY <1>3 DEF ExecSkip, MayEnter, Executing
<1>4. CASE PlanStart(j)
  BY <1>4 DEF PlanStart, Resumable, Executing
<1>5. CASE DirectDone(j)
  BY <1>5, SaveArtifactsRow DEF DirectDone, Resumable, Executing, RunStage
<1>6. CASE StageDone(j)
  BY <1>6, SaveArtifactsRow, UpdatePlanRow DEF StageDone, Resumable, Executing, RunStage, PlanText, ApprovedForGood, StartedLeavesQueued, ApprovedRunHasPlan
<1>7. CASE ExecRaises(j)
  BY <1>7, UpdateStatusRow DEF ExecRaises, Resumable, Executing, ExecutionFailed, RunRow, RunStatus, ApprovedForGood, StartedLeavesQueued
<1>8. CASE ExecCompletes(j)
  BY <1>8, UpdateStatusRow DEF ExecCompletes, Resumable, Executing, RunStage, RunStatus, ApprovedForGood, StartedLeavesQueued
<1>9. CASE ToolEnter(j)
  BY <1>9, UpdateStatusRow DEF ToolEnter, EnterTool, TryUpdateStatus, RunStage, RunStatus, ApprovedForGood
<1>10. CASE ToolLeave(j)
  BY <1>10, UpdateStatusRow DEF ToolLeave, LeaveTool, TryUpdateStatus, RunStage, RunStatus, ApprovedForGood
<1>11. CASE ToolsReturn(j)
  BY <1>11 DEF ToolsReturn
<1>12. QED
  BY <1>1, <1>2, <1>3, <1>4, <1>5, <1>6, <1>7, <1>8, <1>9, <1>10, <1>11 DEF Executor, ToolThread
\* The jobs stay in place; one case per action that moves one.
LEMMA PlacesStep == RuntimeInv /\ [Next]_vars => JobsInPlace'
<1> SUFFICES ASSUME RuntimeInv, [Next]_vars PROVE JobsInPlace'
  OBVIOUS
<1>a. StartInv /\ TypeOK /\ JobsInPlace
  BY DEF RuntimeInv, StartInv
<1> USE <1>a, TaskShape
<1>1. ASSUME User PROVE JobsInPlace'
  BY <1>1, WorkGoesOn DEF User, Submit, ApproveRun, CancelRun, ReviseBegin
<1>2. ASSUME SubmitDispatch PROVE JobsInPlace'
  <2>1. handler.run \in Runs
    BY <1>2 DEF SubmitDispatch, TypeOK
  <2>2. \A k \in JobsOf(handler.run, "plan_run") : ~Active(k)
    BY <1>2, <2>1 DEF SubmitDispatch, RuntimeInv, BeforeDispatch, Active, ActiveJobStatus
  <2>3. DispatchRun(handler.run, "plan_run") /\ stopping' = stopping /\ pc' = pc
    BY <1>2 DEF SubmitDispatch
  <2>4. QED
    BY <2>1, <2>2, <2>3, DispatchPlaces
<1>3. ASSUME ApproveDispatch PROVE JobsInPlace'
  <2>1. handler.run \in Runs
    BY <1>3 DEF ApproveDispatch, TypeOK
  <2>2. \A k \in JobsOf(handler.run, "execute_run") : ~Active(k)
    BY <1>3, <2>1, TaskKinds
       DEF ApproveDispatch, RuntimeInv, NothingDispatched, UnderApproval, Active, ActiveJobStatus
  <2>3. DispatchRun(handler.run, "execute_run") /\ stopping' = stopping /\ pc' = pc
    BY <1>3 DEF ApproveDispatch
  <2>4. QED
    BY <2>1, <2>2, <2>3, DispatchPlaces
<1>4. ASSUME AcknowledgementSent \/ AcknowledgementLost \/ ReviseSucceeds \/ ReviseFails PROVE JobsInPlace'
  <2>1. \A j \in JobIds : pc'[j] = pc[j]
    BY <1>4, TaskKinds DEF AcknowledgementSent, AcknowledgementLost, ReviseSucceeds, ReviseFails, TypeOK
  <2>2. UNCHANGED <<job, queue, pending, stopping>>
    BY <1>4 DEF AcknowledgementSent, AcknowledgementLost, ReviseSucceeds, ReviseFails
  <2>3. QED
    BY <2>1, <2>2, WorkGoesOn
<1>5. ASSUME Consume PROVE JobsInPlace'
  <2>0. PICK j \in JobIds : j = Head(queue)
    BY <1>5, TailElements DEF Consume, TypeOK
  <2>1. j \in Waiting /\ Waiting' = Waiting \ {j} /\ Distinct(queue')
    BY <1>5, <2>0, TailElements DEF Consume, Waiting, JobsInPlace, TypeOK
  <2>2. pc[j] = "idle" /\ job[j] = "queued" /\ j \in pending
    BY <2>1 DEF JobsInPlace, Placed
  <2>3. /\ UNCHANGED <<job, pending, stopping>>
        /\ pc' = [pc EXCEPT ![j] = "spawned"]
    BY <1>5, <2>0, <2>2 DEF Consume
  <2>4. pc'[j] = "spawned" /\ \A k \in JobIds \ {j} : pc'[k] = pc[k]
    BY <2>1, <2>3 DEF TypeOK
  <2>5. Placed(j)'
    BY <2>1, <2>2, <2>3, <2>4 DEF Placed, Working, Executing
  <2>6. QED
    BY <2>1, <2>3, <2>4, <2>5, OneJobMoves
<1>6. ASSUME NEW t \in Planners, PlanBegin(t) \/ DraftFails(t) \/ DraftSucceeds(t) \/ AutoApprove(t)
      PROVE  JobsInPlace'
  <2>1. UNCHANGED <<job, queue, pending, stopping>>
    BY <1>6 DEF PlanBegin, DraftFails, DraftSucceeds, AutoApprove
  <2>2. ASSUME NEW j \in JobIds PROVE pc'[j] = pc[j] \/ (pc[j] \in Working /\ pc'[j] \in Working)
    BY <1>6, TaskKinds DEF PlanBegin, MayEnter, DraftFails, DraftSucceeds, AutoApprove, AfterPlanning, Working, TypeOK
  <2>3. QED
    BY <2>1, <2>2, WorkGoesOn
<1>7. ASSUME NEW t \in Planners, AutoDispatch(t) PROVE JobsInPlace'
  <2>1. RunOf(t) \in Runs /\ pc[t] = "dispatching"
    BY <1>7 DEF AutoDispatch
  <2>2. Planning(RunOf(t)) 
    BY <2>1, TaskKinds DEF Planning, JobsInPlace, Placed
  <2>3. ~stopping
    BY <2>1 DEF RuntimeInv, ShutdownIsQuiet
  <2>4. \A k \in JobsOf(RunOf(t), "execute_run") : Active(k) => k \in pending
    BY <2>1, <2>2, <2>3, TaskKinds DEF RuntimeInv, ActiveIsPending
  <2>5. DispatchRun(RunOf(t), "execute_run") /\ stopping' = stopping
    BY <1>7 DEF AutoDispatch
  <2>6. ASSUME NEW j \in JobIds PROVE pc'[j] = pc[j] \/ (pc[j] \in Working /\ pc'[j] \in Working)
    BY <1>7, TaskKinds DEF AutoDispatch, AfterPlanning, Working, TypeOK
  <2>7. QED
    BY <2>1, <2>4, <2>5, <2>6, DispatchPlaces
<1>8. ASSUME NEW j \in JobIds, Worker(j) PROVE JobsInPlace'
  <2>1. /\ \A k \in JobIds \ {j} : job'[k] = job[k] /\ pc'[k] = pc[k] /\ (k \in pending' <=> k \in pending)
        /\ queue' = queue /\ stopping' = stopping
    BY <1>8 DEF Worker, ClaimJob, CompleteJob, FailJob, TaskDone, DropSpawned, Interrupt, InterruptRun, TypeOK
  <2>2. Waiting' = Waiting /\ Distinct(queue')
    BY <2>1 DEF Waiting, JobsInPlace
  <2>3. Placed(j) /\ pc[j] \in PC
    BY DEF JobsInPlace, TypeOK
  <2>4. ASSUME ClaimJob(j) PROVE Placed(j)'
    BY <2>2, <2>3, <2>4 DEF ClaimJob, Placed, Working, Executing, Active, TypeOK
  <2>5. ASSUME CompleteJob(j) \/ FailJob(j) PROVE Placed(j)'
    BY <2>2, <2>3, <2>5 DEF CompleteJob, FailJob, Placed, Working, Executing, Active, ActiveJobStatus, TypeOK
  <2>6. ASSUME TaskDone(j) PROVE Placed(j)'
    BY <2>2, <2>3, <2>6 DEF TaskDone, Placed, Working, Executing, TypeOK
  <2>7. ASSUME DropSpawned(j) PROVE Placed(j)'
    BY <2>2, <2>3, <2>7 DEF DropSpawned, Placed, Working, Executing, TypeOK
  <2>8. ASSUME Interrupt(j) PROVE Placed(j)'
    BY <2>2, <2>3, <2>8 DEF Interrupt, Interruptible, Awaiting, Placed, Working, Executing, TypeOK
  <2>9. ASSUME InterruptRun(j) PROVE Placed(j)'
    BY <2>2, <2>3, <2>9 DEF InterruptRun, Placed, Working, Executing, Active, ActiveJobStatus, TypeOK
  <2>10. Placed(j)'
    BY <1>8, <2>4, <2>5, <2>6, <2>7, <2>8, <2>9 DEF Worker
  <2>11. QED
    BY <2>1, <2>2, <2>10, OneJobMoves
<1>9. ASSUME NEW j \in ExecJobs, Executor(j) \/ ToolThread(j) PROVE JobsInPlace'
  <2>1. UNCHANGED <<job, queue, pending, stopping>>
    BY <1>9, ExecutorEffect DEF RuntimeInv
  <2>2. ASSUME NEW k \in JobIds PROVE pc'[k] = pc[k] \/ (pc[k] \in Working /\ pc'[k] \in Working)
    BY <1>9, ExecutorEffect DEF RuntimeInv, Working
  <2>3. QED
    BY <2>1, <2>2, WorkGoesOn
<1>10. ASSUME Stop PROVE JobsInPlace'
  BY <1>10, WorkGoesOn DEF Stop
<1>11. ASSUME Restart PROVE JobsInPlace'
  BY <1>11 DEF Restart, JobsInPlace, Placed, Working, Executing, Waiting, Elements, Distinct
<1>12. CASE UNCHANGED vars
  BY <1>12, WorkGoesOn DEF vars
<1>13. QED
  BY <1>1, <1>2, <1>3, <1>4, <1>5, <1>6, <1>7, <1>8, <1>9, <1>10, <1>11, <1>12
     DEF Next, Handler, Planner

\* Code between two writes is not interleaved with other coroutines.
LEMMA SegmentStep == RuntimeInv /\ [Next]_vars => OneSegmentAtATime'
<1> SUFFICES ASSUME RuntimeInv, [Next]_vars PROVE OneSegmentAtATime'
  OBVIOUS
<1>a. StartInv /\ TypeOK /\ OneSegmentAtATime /\ ApprovedForGood
  BY DEF RuntimeInv, StartInv
<1> USE <1>a, TaskShape DEF OneSegmentAtATime
<1>1. ASSUME User PROVE OneSegmentAtATime'
  BY <1>1 DEF User, Submit, ApproveRun, CancelRun, ReviseBegin, HandlerFree, LoopFree
<1>2. ASSUME Handler PROVE OneSegmentAtATime'
  BY <1>2 DEF Handler, SubmitDispatch, AfterSubmit, ApproveDispatch, AcknowledgementSent, AcknowledgementLost,
              ReviseSucceeds, ReviseFails, IdleHandler, MidHandler, TypeOK
<1>3. ASSUME Consume PROVE OneSegmentAtATime'
  BY <1>3 DEF Consume, LoopFree
<1>4. ASSUME NEW t \in Planners, Planner(t) PROVE OneSegmentAtATime'
  BY <1>4 DEF Planner, PlanBegin, MayEnter, DraftFails, DraftSucceeds, AutoApprove, AutoDispatch, Resumable,
              LoopFree, MidSegment
<1>5. ASSUME NEW j \in JobIds, Worker(j) PROVE OneSegmentAtATime'
  BY <1>5 DEF Worker, ClaimJob, CompleteJob, FailJob, TaskDone, DropSpawned, Interrupt, InterruptRun,
              LoopFree, MidSegment
<1>6. ASSUME NEW j \in ExecJobs, Executor(j) \/ ToolThread(j) PROVE OneSegmentAtATime'
  BY <1>6, ExecutorEffect DEF LoopFree
<1>7. ASSUME Stop PROVE OneSegmentAtATime'
  BY <1>7 DEF Stop
<1>8. ASSUME Restart PROVE OneSegmentAtATime'
  BY <1>8 DEF Restart, IdleHandler, MidHandler
<1>9. CASE UNCHANGED vars
  BY <1>9 DEF vars
<1>10. QED
  BY <1>1, <1>2, <1>3, <1>4, <1>5, <1>6, <1>7, <1>8, <1>9 DEF Next

\* A shutdown begins on an idle bot and lets nobody dispatch.
LEMMA ShutdownStep == RuntimeInv /\ [Next]_vars => ShutdownIsQuiet'
<1> SUFFICES ASSUME RuntimeInv, [Next]_vars PROVE ShutdownIsQuiet'
  OBVIOUS
<1>a. StartInv /\ TypeOK /\ ShutdownIsQuiet /\ ApprovedForGood
  BY DEF RuntimeInv, StartInv
<1> USE <1>a, TaskShape, TaskKinds DEF ShutdownIsQuiet
<1>1. ASSUME User PROVE ShutdownIsQuiet'
  BY <1>1 DEF User, Submit, ApproveRun, CancelRun, ReviseBegin, HandlerFree
<1>2. ASSUME Handler PROVE ShutdownIsQuiet'
  BY <1>2 DEF Handler, SubmitDispatch, AfterSubmit, ApproveDispatch, AcknowledgementSent, AcknowledgementLost,
              ReviseSucceeds, ReviseFails
<1>3. ASSUME Consume PROVE ShutdownIsQuiet'
  BY <1>3 DEF Consume
<1>4. ASSUME NEW t \in Planners, Planner(t) PROVE ShutdownIsQuiet'
  BY <1>4 DEF Planner, PlanBegin, MayEnter, DraftFails, DraftSucceeds, AutoApprove, AutoDispatch, Resumable
<1>5. ASSUME NEW j \in JobIds, Worker(j) PROVE ShutdownIsQuiet'
  <2>1. UNCHANGED <<handler, stopping>> /\ \A t \in Tasks \ {j} : pc'[t] = pc[t]
    BY <1>5 DEF Worker, ClaimJob, CompleteJob, FailJob, TaskDone, DropSpawned, Interrupt, InterruptRun, TypeOK
  <2>2. pc'[j] \notin {"approving", "dispatching"}
    BY <1>5 DEF Worker, ClaimJob, CompleteJob, FailJob, TaskDone, DropSpawned, Interrupt, InterruptRun, TypeOK
  <2>3. QED
    BY <2>1, <2>2
<1>6. ASSUME NEW j \in ExecJobs, Executor(j) \/ ToolThread(j) PROVE ShutdownIsQuiet'
  <2>1. UNCHANGED <<handler, stopping>> /\ \A t \in Tasks \ {j} : pc'[t] = pc[t]
    BY <1>6, ExecutorEffect
  <2>2. j \notin Planners /\ j \notin Continuations
    OBVIOUS
  <2>3. QED
    BY <2>1, <2>2
<1>7. ASSUME Stop PROVE ShutdownIsQuiet'
  BY <1>7 DEF Stop, HandlerFree, LoopFree, MidSegment
<1>8. ASSUME Restart PROVE ShutdownIsQuiet'
  BY <1>8 DEF Restart
<1>9. CASE UNCHANGED vars
  BY <1>9 DEF vars
<1>10. QED
  BY <1>1, <1>2, <1>3, <1>4, <1>5, <1>6, <1>7, <1>8, <1>9 DEF Next

\* dispatch_run() is the only writer that makes a job active.
LEMMA DispatchIsUnique ==
    ASSUME TypeOK, OneJobAtATime, NEW r \in Runs, NEW type \in {"plan_run", "execute_run"},
           DispatchRun(r, type), KnownRun(r), run' = run,
           type = "plan_run" => \A j \in JobsOf(r, type) : job[j] = "none"
    PROVE  OneJobAtATime'
<1>1. PICK j \in JobsOf(r, type) :
          /\ j \in JobIds /\ RunOf(j) = r
          /\ \/ job[j] = "none" /\ job'[j] = "queued" /\ \A k \in JobsOf(r, type) : ~Active(k)
             \/ Active(j) /\ job'[j] = job[j]
          /\ \A k \in JobIds \ {j} : job'[k] = job[k]
  BY DispatchEffect
<1>2. ASSUME Active(j), job'[j] = job[j] PROVE OneJobAtATime'
  BY <1>1, <1>2, TaskShape DEF OneJobAtATime, Active, KnownRun
<1>3. ASSUME job[j] = "none", \A k \in JobsOf(r, type) : ~Active(k) PROVE OneJobAtATime'
  <2>1. \A k \in JobIds : job'[k] # "none" => KnownRun(RunOf(k))'
    BY <1>1 DEF OneJobAtATime, KnownRun
  <2>2. ASSUME NEW p \in PlanJobs, NEW q \in PlanJobs,
               RunOf(p) = RunOf(q), job'[p] # "none", job'[q] # "none"
        PROVE  p = q
    BY <1>1, <2>2, TaskShape, TaskKinds DEF OneJobAtATime
  <2>3. ASSUME NEW p \in ExecJobs, NEW q \in ExecJobs,
               RunOf(p) = RunOf(q), Active(p)', Active(q)'
        PROVE  p = q
    BY <1>1, <1>3, <2>3, TaskShape, TaskKinds DEF OneJobAtATime, Active
  <2>4. QED
    BY <2>1, <2>2, <2>3 DEF OneJobAtATime
<1>4. QED
  BY <1>1, <1>2, <1>3

\* Steps that make no job active and forget no run.
LEMMA JobsRunDown ==
    ASSUME TypeOK, OneJobAtATime,
           \A r \in Runs : KnownRun(r) => KnownRun(r)',
           \A j \in JobIds : \/ job'[j] = job[j]
                             \/ Active(j) /\ job'[j] # "none"
    PROVE  OneJobAtATime'
<1>1. \A j \in JobIds : (Active(j)' => Active(j)) /\ (job[j] = "none" <=> job'[j] = "none")
  BY DEF Active, ActiveJobStatus
<1>2. QED
  BY <1>1, TaskShape DEF OneJobAtATime

\* How a step may change the row of a run, and which action changes it that way.
RowMoves(r) ==
    /\ KnownRun(r) => KnownRun(r)'
    /\ KnownRun(r) /\ run[r].plan # "null" => run'[r].plan # "null"
    /\ run[r].plan = "null" /\ run'[r].plan # "null" =>
           \E t \in Planners : RunOf(t) = r /\ DraftSucceeds(t)
    /\ run[r].approved => run'[r].approved
    /\ ~run[r].approved /\ run'[r].approved =>
           /\ Approvable(run[r]) /\ run[r].plan # "null" /\ run'[r].status = "queued"
           /\ ApproveRun(r) \/ \E t \in Planners : RunOf(t) = r /\ AutoApprove(t)
    /\ \/ run'[r].status = run[r].status
       \/ Submit(r)
       \/ CancelRun(r) /\ run[r].status = "awaiting_confirmation" /\ run'[r].status = "cancelled"
       \/ ReviseFails /\ handler.run = r /\ run'[r].status = "awaiting_confirmation"
       \/ ~run[r].approved /\ run'[r].approved /\ run'[r].status = "queued"
       \/ run'[r].status = "failed" /\ \E t \in Planners : RunOf(t) = r /\ DraftFails(t)
       \/ run'[r].status = "failed" /\ \E j \in JobIds : RunOf(j) = r /\ InterruptRun(j)
       \/ /\ run[r].approved /\ run'[r].status \in {"running", "waiting_tool", "completed", "failed"}
          /\ \E j \in ExecJobs : RunOf(j) = r /\ (Executor(j) \/ ToolThread(j))

\* A step that leaves a row alone, or writes only its stage.
LEMMA SameRow ==
    ASSUME NEW r \in Runs,
           run'[r].status = run[r].status, run'[r].approved = run[r].approved,
           run'[r].plan = "null" <=> run[r].plan = "null"
    PROVE  RowMoves(r)
BY DEF RowMoves, KnownRun

\* Every step moves the rows that way; one case per action that writes one.
LEMMA RowStep == RuntimeInv /\ [Next]_vars => \A r \in Runs : RowMoves(r)
<1> SUFFICES ASSUME RuntimeInv, [Next]_vars, NEW r \in Runs PROVE RowMoves(r)
  OBVIOUS
<1>a. /\ StartInv /\ TypeOK /\ ApprovedForGood
      /\ run \in [Runs -> RunRow] /\ run[r] \in RunRow
      /\ run[r].status \in RunStatus /\ run[r].stage \in RunStage
  BY DEF RuntimeInv, StartInv, TypeOK, RunRow
<1>b. /\ "cancelled" \in RunStatus /\ "failed" \in RunStatus /\ "awaiting_confirmation" \in RunStatus
      /\ "planning" \in RunStage /\ "awaiting_user_confirmation" \in RunStage
      /\ "queued_for_execution" \in RunStage /\ "queued" \in RunStatus
      /\ "worker" \in PlanText /\ "chat" \in PlanText /\ "revision" \in PlanText
  BY DEF RunStatus, RunStage, PlanText
<1>c. ASSUME run'[r] = run[r] PROVE RowMoves(r)
  BY <1>c, SameRow
<1>d. /\ \A s \in RunStatus, g \in RunStage :
             LET new == UpdateStatus(run[r], s, g)
             IN  new.status = s /\ new.plan = run[r].plan /\ new.approved = run[r].approved
      /\ \A p \in PlanText, g \in RunStage :
             LET new == UpdatePlan(run[r], p, g)
             IN  new.status = run[r].status /\ new.plan = p /\ new.approved = run[r].approved
  BY <1>a, UpdateStatusRow, UpdatePlanRow
<1> USE <1>a, <1>b
<1>1. ASSUME NEW q \in Runs, Submit(q) PROVE RowMoves(r)
  <2>1. CASE q = r
    <3>1. /\ ~KnownRun(r) /\ ~run[r].approved
      BY <1>1, <2>1 DEF Submit, KnownRun, StartInv, ApprovedRunHasPlan
    <3>2. PICK s \in RunStatus : s \in {"awaiting_confirmation", "queued"} /\ run'[r] = Create(s)
      BY <1>1, <2>1, <1>b DEF Submit
    <3>3. ~run'[r].approved /\ run'[r].plan = "null"
      BY <3>2, CreateRow
    <3>4. QED
      BY <1>1, <2>1, <3>1, <3>3 DEF RowMoves
  <2>2. CASE q # r
    BY <1>1, <1>c, <2>2 DEF Submit
  <2>3. QED
    BY <2>1, <2>2
<1>2. ASSUME NEW q \in Runs, ApproveRun(q) PROVE RowMoves(r)
  <2>1. CASE q = r
    <3>1. Approvable(run[r]) /\ run[r].plan # "null" /\ run'[r] = Approve(run[r])
      BY <1>2, <2>1 DEF ApproveRun, MayApprove, Approvable
    <3>2. run'[r].status = "queued" /\ run'[r].approved /\ run'[r].plan = run[r].plan
      BY <3>1, ApproveRow
    <3>3. QED
      BY <1>2, <2>1, <3>1, <3>2 DEF RowMoves, KnownRun, Approvable
  <2>2. CASE q # r
    BY <1>2, <1>c, <2>2 DEF ApproveRun
  <2>3. QED
    BY <2>1, <2>2
<1>3. ASSUME NEW q \in Runs, CancelRun(q) PROVE RowMoves(r)
  <2>1. CASE q = r
    <3>1. /\ run[r].status = "awaiting_confirmation"
          /\ run'[r] = UpdateStatus(run[r], "cancelled", run[r].stage)
      BY <1>3, <2>1 DEF CancelRun, TryUpdateStatus
    <3>2. run'[r].status = "cancelled" /\ run'[r].approved = run[r].approved /\ run'[r].plan = run[r].plan
      BY <1>d, <3>1
    <3>3. QED
      BY <1>3, <2>1, <3>1, <3>2 DEF RowMoves, KnownRun
  <2>2. CASE q # r
    BY <1>3, <1>c, <2>2 DEF CancelRun
  <2>3. QED
    BY <2>1, <2>2
<1>4. ASSUME ReviseSucceeds PROVE RowMoves(r)
  <2>1. CASE handler.run = r
    <3>1. run[r].plan # "null"
      BY <1>4, <2>1 DEF ReviseSucceeds, RuntimeInv, RevisedRow, UnderRevision
    <3>2. run'[r] = UpdatePlan(run[r], "revision", "awaiting_user_confirmation")
      BY <1>4, <2>1 DEF ReviseSucceeds
    <3>3. run'[r].status = run[r].status /\ run'[r].approved = run[r].approved /\ run'[r].plan = "revision"
      BY <1>d, <3>2
    <3>4. QED
      BY <3>1, <3>3, SameRow
  <2>2. CASE handler.run # r
    BY <1>4, <1>c, <2>2 DEF ReviseSucceeds
  <2>3. QED
    BY <2>1, <2>2
<1>5. ASSUME ReviseFails PROVE RowMoves(r)
  <2>1. CASE handler.run = r
    <3>1. handler.status = "awaiting_confirmation" /\ handler.stage \in RunStage
      BY <1>5 DEF ReviseFails, StartInv, RevisionRestoresAwaiting, TypeOK
    <3>2. run'[r] = UpdateStatus(run[r], "awaiting_confirmation", handler.stage)
      BY <1>5, <2>1, <3>1 DEF ReviseFails
    <3>3. run'[r].status = "awaiting_confirmation" /\ run'[r].approved = run[r].approved /\ run'[r].plan = run[r].plan
      BY <1>d, <3>1, <3>2
    <3>4. QED
      BY <1>5, <2>1, <3>3 DEF RowMoves, KnownRun
  <2>2. CASE handler.run # r
    BY <1>5, <1>c, <2>2 DEF ReviseFails
  <2>3. QED
    BY <2>1, <2>2
<1>6. ASSUME NEW t \in Planners, DraftFails(t) PROVE RowMoves(r)
  <2>1. CASE RunOf(t) = r
    <3>1. run'[r] = UpdateStatus(run[r], "failed", "planning")
      BY <1>6, <2>1 DEF DraftFails, PlanningFailed
    <3>2. run'[r].status = "failed" /\ run'[r].approved = run[r].approved /\ run'[r].plan = run[r].plan
      BY <1>d, <3>1
    <3>3. QED
      BY <1>6, <2>1, <3>2 DEF RowMoves, KnownRun
  <2>2. CASE RunOf(t) # r
    BY <1>6, <1>c, <2>2 DEF DraftFails
  <2>3. QED
    BY <2>1, <2>2
<1>7. ASSUME NEW t \in Planners, DraftSucceeds(t) PROVE RowMoves(r)
  <2>1. CASE RunOf(t) = r
    <3>1. PICK g \in RunStage : run'[r] = UpdatePlan(run[r], Author(t), g)
      BY <1>7, <2>1, <1>b DEF DraftSucceeds
    <3>2. Author(t) \in PlanText \ {"null"}
      BY DEF Author
    <3>3. run'[r].status = run[r].status /\ run'[r].approved = run[r].approved /\ run'[r].plan # "null"
      BY <1>d, <3>1, <3>2
    <3>4. QED
      BY <1>7, <2>1, <3>3 DEF RowMoves, KnownRun
  <2>2. CASE RunOf(t) # r
    BY <1>7, <1>c, <2>2 DEF DraftSucceeds
  <2>3. QED
    BY <2>1, <2>2
<1>8. ASSUME NEW t \in Planners, AutoApprove(t) PROVE RowMoves(r)
  <2>1. CASE RunOf(t) = r /\ Approvable(run[r])
    <3>1. run[r].plan # "null"
      BY <1>8, <2>1 DEF AutoApprove, StartInv, PlannedBeforeAutoApproval
    <3>2. run'[r] = Approve(run[r])
      BY <1>8, <2>1 DEF AutoApprove
    <3>3. run'[r].status = "queued" /\ run'[r].approved /\ run'[r].plan = run[r].plan
      BY <2>1, <3>2, ApproveRow
    <3>4. QED
      BY <1>8, <2>1, <3>1, <3>3 DEF RowMoves, KnownRun, Approvable
  <2>2. CASE RunOf(t) # r \/ ~Approvable(run[r])
    BY <1>8, <1>c, <2>2 DEF AutoApprove, Approve
  <2>3. QED
    BY <2>1, <2>2
<1>9. ASSUME NEW j \in JobIds, InterruptRun(j) PROVE RowMoves(r)
  <2>1. CASE RunOf(j) = r /\ run[r].status \notin TerminalStatuses
    <3>1. run[r].status # "failed" /\ run'[r] = UpdateStatus(run[r], "failed", run[r].stage)
      BY <1>9, <2>1 DEF InterruptRun, Interrupted, TerminalStatuses
    <3>2. run'[r].status = "failed" /\ run'[r].approved = run[r].approved /\ run'[r].plan = run[r].plan
      BY <1>d, <3>1
    <3>3. QED
      BY <1>9, <2>1, <3>2 DEF RowMoves, KnownRun
  <2>2. CASE RunOf(j) # r \/ run[r].status \in TerminalStatuses
    BY <1>9, <1>c, <2>2 DEF InterruptRun, Interrupted
  <2>3. QED
    BY <2>1, <2>2
<1>10. ASSUME NEW j \in ExecJobs, Executor(j) \/ ToolThread(j) PROVE RowMoves(r)
  <2>1. CASE RunOf(j) = r
    <3>1. /\ run'[r].approved = run[r].approved
          /\ run'[r].plan = "null" <=> run[r].plan = "null"
          /\ \/ run'[r].status = run[r].status
             \/ /\ run[r].approved
                /\ run'[r].status \in {"running", "waiting_tool", "completed", "failed"}
      BY <1>10, <2>1, ExecutorEffect
    <3>2. QED
      BY <1>10, <2>1, <3>1 DEF RowMoves, KnownRun
  <2>2. CASE RunOf(j) # r
    BY <1>10, <1>c, <2>2, ExecutorEffect
  <2>3. QED
    BY <2>1, <2>2
<1>11. ASSUME run' = run PROVE RowMoves(r)
  BY <1>c, <1>11
<1>12. ASSUME NEW q \in Runs, ReviseBegin(q) PROVE run' = run
  BY <1>12 DEF ReviseBegin
<1>13. ASSUME SubmitDispatch \/ AcknowledgementSent \/ AcknowledgementLost \/ ApproveDispatch PROVE run' = run
  BY <1>13 DEF SubmitDispatch, AcknowledgementSent, AcknowledgementLost, ApproveDispatch
<1>14. ASSUME NEW t \in Planners, PlanBegin(t) \/ AutoDispatch(t) PROVE run' = run
  BY <1>14 DEF PlanBegin, AutoDispatch
<1>15. ASSUME NEW j \in JobIds,
              ClaimJob(j) \/ CompleteJob(j) \/ FailJob(j) \/ TaskDone(j) \/ DropSpawned(j) \/ Interrupt(j)
       PROVE  run' = run
  BY <1>15 DEF ClaimJob, CompleteJob, FailJob, TaskDone, DropSpawned, Interrupt
<1>16. ASSUME Consume \/ Stop \/ Restart \/ UNCHANGED vars PROVE run' = run
  BY <1>16 DEF Consume, Stop, Restart, vars
<1>17. QED
  BY <1>1, <1>2, <1>3, <1>4, <1>5, <1>6, <1>7, <1>8, <1>9, <1>10, <1>11, <1>12, <1>13, <1>14, <1>15, <1>16
     DEF Next, User, Handler, Planner, Worker

\* A plan is only written to a run that has a row.
LEMMA AbsentStep == RuntimeInv /\ [Next]_vars => AbsentRowsAreEmpty'
<1> SUFFICES ASSUME RuntimeInv, [Next]_vars, NEW r \in Runs, run'[r].status = "absent"
             PROVE  run'[r].plan = "null"
  BY DEF AbsentRowsAreEmpty
<1>1. RowMoves(r)
  BY RowStep
<1>2. ~KnownRun(r) /\ run[r].plan = "null"
  BY <1>1 DEF RowMoves, KnownRun, RuntimeInv, AbsentRowsAreEmpty
<1>3. \A t \in Planners : RunOf(t) = r => ~DraftSucceeds(t)
  BY <1>2, TaskShape DEF DraftSucceeds, RuntimeInv, StartInv, WorkNamesKnownRuns
<1>4. QED
  BY <1>1, <1>2, <1>3 DEF RowMoves

\* A run has one plan job, and one active execution job at a time.
LEMMA OneJobStep == RuntimeInv /\ [Next]_vars => OneJobAtATime'
<1> SUFFICES ASSUME RuntimeInv, [Next]_vars PROVE OneJobAtATime'
  OBVIOUS
<1>a. /\ StartInv /\ TypeOK /\ OneJobAtATime /\ ApprovedForGood /\ JobsInPlace
      /\ \A r \in Runs : KnownRun(r) => KnownRun(r)'
  BY RowStep DEF RuntimeInv, StartInv, RowMoves
<1> USE <1>a, TaskShape
<1>1. ASSUME User PROVE OneJobAtATime'
  BY <1>1, JobsRunDown DEF User, Submit, ApproveRun, CancelRun, ReviseBegin
<1>2. ASSUME SubmitDispatch PROVE OneJobAtATime'
  <2>1. handler.run \in Runs /\ KnownRun(handler.run)
    BY <1>2 DEF SubmitDispatch, TypeOK, StartInv, WorkNamesKnownRuns
  <2>2. \A j \in JobsOf(handler.run, "plan_run") : job[j] = "none"
    BY <1>2, <2>1 DEF SubmitDispatch, RuntimeInv, BeforeDispatch
  <2>3. DispatchRun(handler.run, "plan_run") /\ run' = run
    BY <1>2 DEF SubmitDispatch
  <2>4. QED
    BY <2>1, <2>2, <2>3, DispatchIsUnique
<1>3. ASSUME ApproveDispatch PROVE OneJobAtATime'
  <2>1. handler.run \in Runs /\ KnownRun(handler.run)
    BY <1>3 DEF ApproveDispatch, TypeOK, StartInv, WorkNamesKnownRuns
  <2>2. DispatchRun(handler.run, "execute_run") /\ run' = run
    BY <1>3 DEF ApproveDispatch
  <2>3. QED
    BY <2>1, <2>2, DispatchIsUnique
<1>4. ASSUME AcknowledgementSent \/ AcknowledgementLost \/ ReviseSucceeds \/ ReviseFails PROVE OneJobAtATime'
  BY <1>4, JobsRunDown DEF AcknowledgementSent, AcknowledgementLost, ReviseSucceeds, ReviseFails
<1>5. ASSUME NEW t \in Planners, PlanBegin(t) \/ DraftFails(t) \/ DraftSucceeds(t) \/ AutoApprove(t)
      PROVE  OneJobAtATime'
  BY <1>5, JobsRunDown DEF PlanBegin, DraftFails, DraftSucceeds, AutoApprove
<1>6. ASSUME NEW t \in Planners, AutoDispatch(t) PROVE OneJobAtATime'
  <2>1. RunOf(t) \in Runs /\ KnownRun(RunOf(t))
    BY <1>6 DEF AutoDispatch, StartInv, WorkNamesKnownRuns
  <2>2. DispatchRun(RunOf(t), "execute_run") /\ run' = run
    BY <1>6 DEF AutoDispatch
  <2>3. QED
    BY <2>1, <2>2, DispatchIsUnique
<1>7. ASSUME NEW j \in JobIds, Worker(j) PROVE OneJobAtATime'
  <2>1. pc[j] = "claimed" \/ pc[j] \in Awaiting \cup {"completing", "failing"} => job[j] = "running"
    BY DEF JobsInPlace, Placed, Working, Executing, Awaiting
  <2>2. ASSUME NEW k \in JobIds PROVE job'[k] = job[k] \/ (Active(k) /\ job'[k] # "none")
    BY <1>7, <2>1 DEF Worker, ClaimJob, CompleteJob, FailJob, TaskDone, DropSpawned, Interrupt, Interruptible,
                      InterruptRun, Active, ActiveJobStatus, TypeOK
  <2>3. QED
    BY <2>2, JobsRunDown
<1>8. ASSUME NEW j \in ExecJobs, Executor(j) \/ ToolThread(j) PROVE OneJobAtATime'
  BY <1>8, ExecutorEffect, JobsRunDown
<1>9. ASSUME Consume \/ Stop \/ Restart \/ UNCHANGED vars PROVE OneJobAtATime'
  BY <1>9, JobsRunDown DEF Consume, Stop, Restart, vars
<1>10. QED
  BY <1>1, <1>2, <1>3, <1>4, <1>5, <1>6, <1>7, <1>8, <1>9 DEF Next, Handler, Planner

\* Until the plan job is dispatched a submitted run has neither plan nor job.
LEMMA BeforeDispatchStep == RuntimeInv /\ [Next]_vars => BeforeDispatch'
<1> SUFFICES ASSUME RuntimeInv, [Next]_vars PROVE BeforeDispatch'
  OBVIOUS
<1>a. /\ StartInv /\ TypeOK /\ JobsInPlace /\ BeforeDispatch /\ OneSegmentAtATime /\ ApprovedForGood
  BY DEF RuntimeInv, StartInv
<1>b. handler.pc # "idle" => /\ handler.run \in Runs
                             /\ Continuation(handler.run) \in Tasks
                             /\ Continuation(handler.run) \in Continuations
  BY <1>a, TaskShape, TaskKinds DEF TypeOK
<1> USE <1>a, <1>b, TaskShape, TaskKinds
<1>1. ASSUME NEW r \in Runs, Submit(r) PROVE BeforeDispatch'
  <2>1. /\ handler'.run = r /\ run'[r].plan = "null"
        /\ UNCHANGED <<job, pc>>
    BY <1>1 DEF Submit, Create, IdleHandler, TypeOK
  <2>2. pc[Continuation(r)] = "idle"
    BY <1>1 DEF Submit, StartInv, WorkNamesKnownRuns, KnownRun
  <2>3. \A j \in JobIds : RunOf(j) = r => job[j] = "none"
    BY <1>1 DEF Submit, RuntimeInv, OneJobAtATime, KnownRun
  <2>4. QED
    BY <2>1, <2>2, <2>3 DEF BeforeDispatch
<1>2. ASSUME NEW r \in Runs, ApproveRun(r) \/ CancelRun(r) \/ ReviseBegin(r) PROVE BeforeDispatch'
  <2>1. handler'.pc \notin {"submitting", "acking"}
    <3>1. ASSUME ApproveRun(r) PROVE handler'.pc = "approving"
      BY <3>1 DEF ApproveRun, IdleHandler
    <3>2. ASSUME CancelRun(r) PROVE handler'.pc = "idle"
      BY <3>2 DEF CancelRun, HandlerFree
    <3>3. ASSUME ReviseBegin(r) PROVE handler'.pc = "revising"
      BY <3>3 DEF ReviseBegin
    <3>4. QED
      BY <1>2, <3>1, <3>2, <3>3
  <2>2. QED
    BY <2>1 DEF BeforeDispatch
<1>3. ASSUME Handler PROVE BeforeDispatch'
  <2>1. CASE SubmitDispatch
    <3>1. /\ pc' = pc /\ handler'.pc # "submitting"
          /\ handler'.pc = "acking" => handler'.run = handler.run
      BY <2>1 DEF SubmitDispatch, AfterSubmit, IdleHandler, TypeOK
    <3>2. pc[Continuation(handler.run)] = "idle"
      BY <2>1 DEF SubmitDispatch, BeforeDispatch
    <3>3. QED
      BY <3>1, <3>2 DEF BeforeDispatch
  <2>2. CASE ApproveDispatch \/ AcknowledgementSent \/ AcknowledgementLost \/ ReviseSucceeds \/ ReviseFails
    <3>1. handler'.pc = "idle"
      BY <2>2 DEF ApproveDispatch, AcknowledgementSent, AcknowledgementLost, ReviseSucceeds, ReviseFails, IdleHandler
    <3>2. QED
      BY <3>1 DEF BeforeDispatch
  <2>3. QED
    BY <1>3, <2>1, <2>2 DEF Handler
<1>4. ASSUME NEW t \in Planners, Planner(t) PROVE BeforeDispatch'
  <2>1. /\ handler' = handler /\ pc[t] # "idle" /\ \A u \in Tasks \ {t} : pc'[u] = pc[u]
    BY <1>4 DEF Planner, PlanBegin, MayEnter, DraftFails, DraftSucceeds, AutoApprove, AutoDispatch, TypeOK
  <2>2. handler.pc # "submitting"
    BY <1>4 DEF Planner, PlanBegin, MayEnter, DraftFails, DraftSucceeds, AutoApprove, AutoDispatch, Resumable,
                LoopFree, MidHandler, OneSegmentAtATime, MidSegment
  <2>3. QED
    BY <2>1, <2>2 DEF BeforeDispatch
<1>5. ASSUME NEW j \in JobIds, Worker(j) PROVE BeforeDispatch'
  <2>1. /\ handler' = handler /\ \A u \in Tasks \ {j} : pc'[u] = pc[u]
    BY <1>5 DEF Worker, ClaimJob, CompleteJob, FailJob, TaskDone, DropSpawned, Interrupt, InterruptRun, TypeOK
  <2>2. handler.pc # "submitting"
    BY <1>5 DEF Worker, ClaimJob, CompleteJob, FailJob, TaskDone, DropSpawned, Interrupt, InterruptRun, 
                LoopFree, MidHandler, OneSegmentAtATime, MidSegment
  <2>3. QED
    BY <2>1, <2>2 DEF BeforeDispatch
<1>6. ASSUME NEW j \in ExecJobs, Executor(j) \/ ToolThread(j) PROVE BeforeDispatch'
  <2>1. /\ handler' = handler /\ job' = job /\ \A u \in Tasks \ {j} : pc'[u] = pc[u]
        /\ \A r \in Runs : run'[r].plan = "null" <=> run[r].plan = "null"
    BY <1>6, ExecutorEffect
  <2>2. QED
    BY <2>1 DEF BeforeDispatch
<1>7. ASSUME Consume PROVE BeforeDispatch'
  <2>1. Head(queue) \in JobIds
    BY <1>7, TailElements DEF Consume, TypeOK
  <2>2. /\ UNCHANGED <<job, run, handler>>
        /\ \A c \in Continuations : pc'[c] = pc[c]
    BY <1>7, <2>1 DEF Consume, TypeOK
  <2>3. QED
    BY <2>2 DEF BeforeDispatch, TypeOK
<1>8. ASSUME Stop \/ Restart \/ UNCHANGED vars PROVE BeforeDispatch'
  BY <1>8 DEF Stop, Restart, IdleHandler, BeforeDispatch, vars
<1>9. QED
  BY <1>1, <1>2, <1>3, <1>4, <1>5, <1>6, <1>7, <1>8 DEF Next, User

\* Only the dispatch of a submission gives a run a plan job that has to plan.
LEMMA JobPlannersRunDown ==
    ASSUME RuntimeInv, [Next]_vars, ~SubmitDispatch, NEW p \in PlanJobs, JobStillPlans(p)'
    PROVE  JobStillPlans(p)
<1>a. StartInv /\ TypeOK /\ JobsInPlace /\ ApprovedForGood /\ p \in JobIds /\ p \in Tasks /\ p \notin ExecJobs
  BY TaskShape, TaskKinds DEF RuntimeInv, StartInv
<1> USE <1>a, TaskShape DEF JobStillPlans
<1>1. ASSUME User PROVE JobStillPlans(p)
  BY <1>1 DEF User, Submit, ApproveRun, CancelRun, ReviseBegin
<1>2. ASSUME NEW r \in Runs, DispatchRun(r, "execute_run") PROVE job'[p] = job[p]
  BY <1>2, DispatchEffect, TaskKinds
<1>3. ASSUME Handler PROVE JobStillPlans(p)
  <2>1. CASE ApproveDispatch
    <3>1. handler.run \in Runs /\ DispatchRun(handler.run, "execute_run") /\ pc' = pc
      BY <2>1 DEF ApproveDispatch, TypeOK
    <3>2. QED
      BY <1>2, <3>1
  <2>2. CASE AcknowledgementSent \/ AcknowledgementLost \/ ReviseSucceeds \/ ReviseFails
    <3>1. job' = job /\ pc'[p] = pc[p]
      BY <2>2, TaskKinds DEF AcknowledgementSent, AcknowledgementLost, ReviseSucceeds, ReviseFails, TypeOK
    <3>2. QED
      BY <3>1
  <2>3. QED
    BY <1>3, <2>1, <2>2 DEF Handler
<1>4. ASSUME NEW t \in Planners, Planner(t) PROVE JobStillPlans(p)
  <2>1. CASE AutoDispatch(t)
    <3>1. job'[p] = job[p]
      BY <1>2, <2>1 DEF AutoDispatch
    <3>2. pc'[p] = pc[p] \/ pc'[p] = "completing"
      BY <2>1, TaskKinds DEF AutoDispatch, AfterPlanning, TypeOK
    <3>3. QED
      BY <3>1, <3>2
  <2>2. CASE PlanBegin(t) \/ DraftFails(t) \/ DraftSucceeds(t) \/ AutoApprove(t)
    <3>1. job' = job /\ (pc'[p] = pc[p] \/ pc[p] \in {"claimed", "drafting"} \/ pc'[p] = "dispatching")
      BY <2>2, TaskKinds DEF PlanBegin, MayEnter, DraftFails, DraftSucceeds, AutoApprove, TypeOK
    <3>2. QED
      BY <3>1
  <2>3. QED
    BY <1>4, <2>1, <2>2 DEF Planner
<1>5. ASSUME NEW j \in JobIds, Worker(j) PROVE JobStillPlans(p)
  <2>1. /\ j # p => job'[p] = job[p] /\ pc'[p] = pc[p]
    BY <1>5 DEF Worker, ClaimJob, CompleteJob, FailJob, TaskDone, DropSpawned, Interrupt, InterruptRun, TypeOK
  <2>2. ASSUME j = p PROVE JobStillPlans(p)
    BY <1>5, <2>2 DEF Worker, ClaimJob, CompleteJob, FailJob, TaskDone, DropSpawned, Interrupt, InterruptRun, TypeOK
  <2>3. QED
    BY <2>1, <2>2
<1>6. ASSUME NEW j \in ExecJobs, Executor(j) \/ ToolThread(j) PROVE JobStillPlans(p)
  <2>1. job' = job /\ \A u \in Tasks \ {j} : pc'[u] = pc[u]
    BY <1>6, ExecutorEffect
  <2>2. QED
    BY <2>1
<1>7. ASSUME Consume PROVE JobStillPlans(p)
  BY <1>7 DEF Consume, TypeOK
<1>8. ASSUME Stop \/ Restart \/ UNCHANGED vars PROVE JobStillPlans(p)
  BY <1>8 DEF Stop, Restart, vars
<1>9. QED
  BY <1>1, <1>3, <1>4, <1>5, <1>6, <1>7, <1>8 DEF Next

\* Only a submission gives a run a chat handler that has to plan.
LEMMA ChatPlannersRunDown ==
    ASSUME RuntimeInv, [Next]_vars, NEW r \in Runs, ~Submit(r), ChatStillPlans(r)'
    PROVE  ChatStillPlans(r)
<1> DEFINE c == Continuation(r)
<1>a. /\ StartInv /\ TypeOK /\ ApprovedForGood
      /\ c \in Tasks /\ c \in Continuations /\ c \notin JobIds /\ RunOf(c) = r
  BY TaskShape, TaskKinds DEF RuntimeInv, StartInv
<1>b. \A q \in Runs : Continuation(q) = c => q = r
  BY TaskShape
<1> HIDE DEF c
<1> USE <1>a, TaskShape
<1>c. ASSUME handler' = handler, pc'[c] = pc[c] PROVE ChatStillPlans(r)
  BY <1>c DEF ChatStillPlans, c
<1>1. ASSUME NEW q \in Runs, Submit(q) PROVE ChatStillPlans(r)
  BY <1>1 DEF Submit, ChatStillPlans, IdleHandler
<1>2. ASSUME NEW q \in Runs, ApproveRun(q) PROVE ChatStillPlans(r)
  BY <1>2 DEF ApproveRun, ChatStillPlans, IdleHandler
<1>3. ASSUME NEW q \in Runs, ReviseBegin(q) PROVE ChatStillPlans(r)
  BY <1>3 DEF ReviseBegin, ChatStillPlans
<1>4. ASSUME NEW q \in Runs, CancelRun(q) PROVE ChatStillPlans(r)
  BY <1>4 DEF CancelRun, ChatStillPlans
<1>5. ASSUME Handler PROVE ChatStillPlans(r)
  <2>1. CASE SubmitDispatch
    BY <2>1 DEF SubmitDispatch, AfterSubmit, IdleHandler, ChatStillPlans, TypeOK
  <2>2. CASE AcknowledgementSent
    BY <2>2, <1>b DEF AcknowledgementSent, IdleHandler, ChatStillPlans, TypeOK, c
  <2>3. CASE ApproveDispatch \/ AcknowledgementLost \/ ReviseSucceeds \/ ReviseFails
    BY <2>3 DEF ApproveDispatch, AcknowledgementLost, ReviseSucceeds, ReviseFails, IdleHandler, ChatStillPlans
  <2>4. QED
    BY <1>5, <2>1, <2>2, <2>3 DEF Handler
<1>6. ASSUME NEW t \in Planners, Planner(t) PROVE ChatStillPlans(r)
  <2>1. handler' = handler
    BY <1>6 DEF Planner, PlanBegin, DraftFails, DraftSucceeds, AutoApprove, AutoDispatch
  <2>2. CASE t # c
    <3>1. pc'[c] = pc[c]
      BY <1>6, <2>2 DEF Planner, PlanBegin, DraftFails, DraftSucceeds, AutoApprove, AutoDispatch, TypeOK
    <3>2. QED
      BY <1>c, <2>1, <3>1
  <2>3. CASE t = c
    <3>1. /\ c \notin PlanJobs
          /\ pc[c] \in {"spawned", "drafting"} \/ pc'[c] \in {"dispatching", "idle"}
      BY <1>6, <2>3, TaskKinds
         DEF Planner, PlanBegin, DraftFails, DraftSucceeds, AutoApprove, AutoDispatch, AfterPlanning, TypeOK
    <3>2. QED
      BY <2>1, <3>1 DEF ChatStillPlans, c
  <2>4. QED
    BY <2>2, <2>3
<1>7. ASSUME NEW j \in JobIds, Worker(j) PROVE ChatStillPlans(r)
  <2>1. handler' = handler /\ pc'[c] = pc[c]
    BY <1>7 DEF Worker, ClaimJob, CompleteJob, FailJob, TaskDone, DropSpawned, Interrupt, InterruptRun, TypeOK
  <2>2. QED
    BY <1>c, <2>1
<1>8. ASSUME NEW j \in ExecJobs, Executor(j) \/ ToolThread(j) PROVE ChatStillPlans(r)
  <2>1. handler' = handler /\ pc'[c] = pc[c]
    BY <1>8, ExecutorEffect
  <2>2. QED
    BY <1>c, <2>1
<1>9. ASSUME Consume PROVE ChatStillPlans(r)
  <2>1. Head(queue) \in JobIds
    BY <1>9, TailElements DEF Consume, TypeOK
  <2>2. handler' = handler /\ pc'[c] = pc[c]
    BY <1>9, <2>1 DEF Consume, TypeOK
  <2>3. QED
    BY <1>c, <2>2
<1>10. ASSUME Stop \/ UNCHANGED vars PROVE ChatStillPlans(r)
  BY <1>c, <1>10 DEF Stop, vars
<1>11. ASSUME Restart PROVE ChatStillPlans(r)
  BY <1>11 DEF Restart, IdleHandler, ChatStillPlans, c
<1>12. QED
  BY <1>1, <1>2, <1>3, <1>4, <1>5, <1>6, <1>7, <1>8, <1>9, <1>10, <1>11 DEF Next, User

\* The first answer of a planner leaves one planner at most.
LEMMA OnePlannerStep == RuntimeInv /\ [Next]_vars => OnePlannerLeft'
<1> SUFFICES ASSUME RuntimeInv, [Next]_vars, NEW p \in PlanJobs,
                    run'[RunOf(p)].plan # "null", JobStillPlans(p)', ChatStillPlans(RunOf(p))'
             PROVE  FALSE
  BY DEF OnePlannerLeft, ChatStillPlans
<1> DEFINE r == RunOf(p)
<1>a. /\ StartInv /\ TypeOK /\ JobsInPlace /\ OnePlannerLeft /\ BeforeDispatch /\ OneJobAtATime
      /\ r \in Runs /\ p \in JobIds /\ p \in Tasks
  BY TaskShape DEF RuntimeInv, StartInv
<1>b. RowMoves(r)
  BY <1>a, RowStep
<1> HIDE DEF r
<1>1. ~Submit(r)
  BY <1>a DEF Submit, Create, TypeOK, r
<1>2. ChatStillPlans(r)
  BY <1>1, <1>a, ChatPlannersRunDown DEF r
<1>3. CASE SubmitDispatch
  <2>1. handler.run # r
    BY <1>3, <1>a DEF SubmitDispatch, BeforeDispatch, r
  <2>2. JobStillPlans(p)
    <3>1. handler.run \in Runs /\ DispatchRun(handler.run, "plan_run") /\ pc' = pc
      BY <1>3, <1>a DEF SubmitDispatch, TypeOK
    <3>2. job'[p] = job[p]
      BY <1>a, <2>1, <3>1, DispatchEffect DEF r
    <3>3. QED
      BY <3>1, <3>2 DEF JobStillPlans
  <2>3. run' = run
    BY <1>3 DEF SubmitDispatch
  <2>4. QED
    BY <1>2, <2>2, <2>3 DEF RuntimeInv, OnePlannerLeft, r
<1>4. CASE ~SubmitDispatch
  <2>1. JobStillPlans(p)
    BY <1>4, JobPlannersRunDown
  <2>2. run[r].plan = "null"
    BY <1>a, <1>2, <2>1 DEF OnePlannerLeft, r
  <2>3. PICK t \in Planners : RunOf(t) = r /\ DraftSucceeds(t)
    BY <1>b, <2>2 DEF RowMoves, r
  <2>4. CASE t \in PlanJobs
    <3>1. t \in JobIds /\ job[t] = "running" /\ job' = job /\ pc'[t] \in {"completing", "approving"}
      BY <1>a, <2>3, <2>4, TaskShape
         DEF DraftSucceeds, AfterPlanning, JobsInPlace, Placed, Working, TypeOK
    <3>2. job[p] # "none"
      BY <1>a, <2>1 DEF JobStillPlans, JobsInPlace, Placed, Working
    <3>3. t = p
      BY <1>a, <2>3, <2>4, <3>1, <3>2 DEF OneJobAtATime, r
    <3>4. QED
      BY <3>1, <3>3 DEF JobStillPlans
  <2>5. CASE t \notin PlanJobs
    <3>1. t = Continuation(r) /\ t \in Tasks
      BY <2>3, <2>5, TaskKinds, TaskShape
    <3>2. pc[t] = "drafting" /\ pc'[t] \in {"idle", "approving"} /\ handler' = handler
      BY <1>a, <2>3, <2>5, <3>1 DEF DraftSucceeds, AfterPlanning, TypeOK
    <3>3. ~(handler.pc \in {"submitting", "acking"} /\ handler.run = r)
      BY <1>a, <3>1, <3>2 DEF BeforeDispatch
    <3>4. QED
      BY <3>1, <3>2, <3>3 DEF ChatStillPlans, r
  <2>6. QED
    BY <2>4, <2>5
<1>5. QED
  BY <1>3, <1>4

\* The step dispatches the job j.
DispatchesFor(j) ==
    \/ j \in PlanJobs /\ SubmitDispatch /\ handler.run = RunOf(j)
    \/ j \in ExecJobs /\ ApproveDispatch /\ handler.run = RunOf(j)
    \/ j \in ExecJobs /\ \E t \in Planners : RunOf(t) = RunOf(j) /\ AutoDispatch(t)

\* Which actions make a job, or make its id pending or forget it.
LEMMA JobMoves ==
    ASSUME RuntimeInv, [Next]_vars, NEW j \in JobIds
    PROVE  /\ job[j] = "none" /\ job'[j] # "none" => DispatchesFor(j) /\ j \in pending'
           /\ Active(j)' => Active(j) \/ (job[j] = "none" /\ DispatchesFor(j) /\ j \in pending')
           /\ j \in pending' /\ j \notin pending => DispatchesFor(j)
           /\ j \in pending /\ j \notin pending' => TaskDone(j) \/ Restart
<1> DEFINE Goal == /\ job[j] = "none" /\ job'[j] # "none" => DispatchesFor(j) /\ j \in pending'
                   /\ Active(j)' => Active(j) \/ (job[j] = "none" /\ DispatchesFor(j) /\ j \in pending')
                   /\ j \in pending' /\ j \notin pending => DispatchesFor(j)
                   /\ j \in pending /\ j \notin pending' => TaskDone(j) \/ Restart
<1>a. StartInv /\ TypeOK /\ JobsInPlace /\ ApprovedForGood
  BY DEF RuntimeInv, StartInv
<1> USE <1>a, TaskShape
<1>b. ASSUME job'[j] = job[j], pending' = pending PROVE Goal
  BY <1>b DEF Active
<1>c. ASSUME NEW r \in Runs, NEW type \in {"plan_run", "execute_run"}, DispatchRun(r, type),
             RunOf(j) = r /\ (IF type = "plan_run" THEN j \in PlanJobs ELSE j \in ExecJobs) => DispatchesFor(j)
      PROVE  Goal
  <2>1. PICK k \in JobsOf(r, type) :
            /\ k \in JobIds /\ RunOf(k) = r
            /\ \/ job[k] = "none" /\ job'[k] = "queued"
               \/ Active(k) /\ job'[k] = job[k]
            /\ \A i \in JobIds \ {k} : job'[i] = job[i]
            /\ pending' = pending \cup {k}
    BY <1>c, DispatchEffect
  <2>2. CASE j = k
    <3>1. DispatchesFor(j)
      BY <1>c, <2>1, <2>2, TaskKinds
    <3>2. QED
      BY <2>1, <2>2, <3>1 DEF Active
  <2>3. CASE j # k
    BY <2>1, <2>3 DEF Active
  <2>4. QED
    BY <2>2, <2>3
<1> HIDE DEF Goal
<1>1. ASSUME User PROVE Goal
  BY <1>1, <1>b DEF User, Submit, ApproveRun, CancelRun, ReviseBegin
<1>2. ASSUME SubmitDispatch PROVE Goal
  BY <1>2, <1>c DEF SubmitDispatch, DispatchesFor, TypeOK
<1>3. ASSUME ApproveDispatch PROVE Goal
  BY <1>3, <1>c DEF ApproveDispatch, DispatchesFor, TypeOK
<1>4. ASSUME AcknowledgementSent \/ AcknowledgementLost \/ ReviseSucceeds \/ ReviseFails PROVE Goal
  BY <1>4, <1>b DEF AcknowledgementSent, AcknowledgementLost, ReviseSucceeds, ReviseFails
<1>5. ASSUME NEW t \in Planners, AutoDispatch(t) PROVE Goal
  <2>1. RunOf(t) \in Runs /\ DispatchRun(RunOf(t), "execute_run")
    BY <1>5 DEF AutoDispatch
  <2>2. RunOf(j) = RunOf(t) /\ j \in ExecJobs => DispatchesFor(j)
    BY <1>5 DEF DispatchesFor
  <2>3. QED
    BY <1>c, <2>1, <2>2
<1>6. ASSUME NEW t \in Planners, PlanBegin(t) \/ DraftFails(t) \/ DraftSucceeds(t) \/ AutoApprove(t) PROVE Goal
  BY <1>6, <1>b DEF PlanBegin, DraftFails, DraftSucceeds, AutoApprove
<1>7. ASSUME NEW k \in JobIds, Worker(k) PROVE Goal
  <2>1. CASE k # j
    <3>1. job'[j] = job[j] /\ (j \in pending' <=> j \in pending)
      BY <1>7, <2>1 DEF Worker, ClaimJob, CompleteJob, FailJob, TaskDone, DropSpawned, Interrupt, InterruptRun, TypeOK
    <3>2. QED
      BY <3>1 DEF Active, Goal
  <2>2. CASE k = j
    <3>1. j \in pending' => j \in pending
      BY <1>7, <2>2 DEF Worker, ClaimJob, CompleteJob, FailJob, TaskDone, DropSpawned, Interrupt, InterruptRun
    <3>2. j \in pending /\ j \notin pending' => TaskDone(j)
      BY <1>7, <2>2 DEF Worker, ClaimJob, CompleteJob, FailJob, DropSpawned, Interrupt, InterruptRun
    <3>3. Active(j)' => Active(j)
      BY <1>7, <2>2 DEF Worker, ClaimJob, CompleteJob, FailJob, TaskDone, DropSpawned, Interrupt, InterruptRun,
                        Active, ActiveJobStatus, TypeOK
    <3>4. job[j] = "none" => job'[j] = "none"
      <4>1. job[j] = "none" => pc[j] \in {"idle", "finishing"}
        BY DEF JobsInPlace, Placed, Working, Executing, TypeOK, PC, MidSegment, Awaiting
      <4>2. QED
        BY <1>7, <2>2, <4>1
           DEF Worker, ClaimJob, CompleteJob, FailJob, TaskDone, DropSpawned, Interrupt, Interruptible, Awaiting, InterruptRun, TypeOK
    <3>5. QED
      BY <3>1, <3>2, <3>3, <3>4 DEF Goal
  <2>3. QED
    BY <2>1, <2>2
<1>8. ASSUME NEW k \in ExecJobs, Executor(k) \/ ToolThread(k) PROVE Goal
  BY <1>8, <1>b, ExecutorEffect
<1>9. ASSUME Consume \/ Stop \/ UNCHANGED vars PROVE Goal
  BY <1>9, <1>b DEF Consume, Stop, vars
<1>10. ASSUME Restart PROVE Goal
  BY <1>10 DEF Restart, Goal, Active
<1>11. Goal
  BY <1>1, <1>2, <1>3, <1>4, <1>5, <1>6, <1>7, <1>8, <1>9, <1>10 DEF Next, Handler, Planner
<1>12. QED
  BY <1>11 DEF Goal

\* Which actions let the handler work on a run.
LEMMA HandlerMoves ==
    ASSUME RuntimeInv, [Next]_vars, NEW r \in Runs
    PROVE  /\ UnderRevision(r)' => UnderRevision(r) \/ ReviseBegin(r)
           /\ UnderApproval(r)' => UnderApproval(r) \/ ApproveRun(r)
           /\ handler'.pc \in {"submitting", "acking"} /\ handler'.run = r =>
                  (handler.pc \in {"submitting", "acking"} /\ handler.run = r) \/ Submit(r)
<1> DEFINE Goal == /\ UnderRevision(r)' => UnderRevision(r) \/ ReviseBegin(r)
                   /\ UnderApproval(r)' => UnderApproval(r) \/ ApproveRun(r)
                   /\ handler'.pc \in {"submitting", "acking"} /\ handler'.run = r =>
                          (handler.pc \in {"submitting", "acking"} /\ handler.run = r) \/ Submit(r)
<1>a. StartInv /\ TypeOK /\ ApprovedForGood
  BY DEF RuntimeInv, StartInv
<1> USE <1>a DEF UnderRevision, UnderApproval
<1>b. ASSUME handler' = handler PROVE Goal
  BY <1>b
<1>c. ASSUME handler'.pc = "idle" PROVE Goal
  BY <1>c
<1>1. ASSUME NEW q \in Runs, Submit(q) PROVE Goal
  BY <1>1 DEF Submit, IdleHandler
<1>2. ASSUME NEW q \in Runs, ApproveRun(q) PROVE Goal
  BY <1>2 DEF ApproveRun, IdleHandler
<1>3. ASSUME NEW q \in Runs, ReviseBegin(q) PROVE Goal
  BY <1>3 DEF ReviseBegin
<1>4. ASSUME SubmitDispatch PROVE Goal
  BY <1>4 DEF SubmitDispatch, AfterSubmit, IdleHandler, TypeOK
<1> HIDE DEF Goal
<1>5. ASSUME AcknowledgementSent \/ AcknowledgementLost \/ ApproveDispatch \/ ReviseSucceeds \/ ReviseFails \/ Restart
      PROVE  Goal
  BY <1>5, <1>c DEF AcknowledgementSent, AcknowledgementLost, ApproveDispatch, ReviseSucceeds, ReviseFails, Restart, IdleHandler
<1>6. ASSUME NEW q \in Runs, CancelRun(q) PROVE Goal
  BY <1>6, <1>b DEF CancelRun
<1>7. ASSUME NEW t \in Planners, Planner(t) PROVE Goal
  BY <1>7, <1>b DEF Planner, PlanBegin, DraftFails, DraftSucceeds, AutoApprove, AutoDispatch
<1>8. ASSUME NEW j \in JobIds, Worker(j) PROVE Goal
  BY <1>8, <1>b DEF Worker, ClaimJob, CompleteJob, FailJob, TaskDone, DropSpawned, Interrupt, InterruptRun
<1>9. ASSUME NEW j \in ExecJobs, Executor(j) \/ ToolThread(j) PROVE Goal
  BY <1>9, <1>b, ExecutorEffect
<1>10. ASSUME Consume \/ Stop \/ UNCHANGED vars PROVE Goal
  BY <1>10, <1>b DEF Consume, Stop, vars
<1>11. Goal
  BY <1>1, <1>2, <1>3, <1>4, <1>5, <1>6, <1>7, <1>8, <1>9, <1>10 DEF Next, User, Handler
<1>12. QED
  BY <1>11 DEF Goal

\* Which actions move a planner to its next await or write.
LEMMA PlannerMoves ==
    ASSUME RuntimeInv, [Next]_vars, NEW t \in Planners
    PROVE  /\ pc'[t] = "drafting" => (pc[t] = "drafting" /\ seen'[t] = seen[t]) \/ PlanBegin(t)
           /\ pc'[t] = "approving" => pc[t] = "approving"
                                      \/ (DraftSucceeds(t) /\ seen[t] # "awaiting_confirmation")
           /\ pc'[t] = "dispatching" => pc[t] = "dispatching" \/ AutoApprove(t)
<1> DEFINE Goal == /\ pc'[t] = "drafting" => (pc[t] = "drafting" /\ seen'[t] = seen[t]) \/ PlanBegin(t)
                   /\ pc'[t] = "approving" => pc[t] = "approving"
                                              \/ (DraftSucceeds(t) /\ seen[t] # "awaiting_confirmation")
                   /\ pc'[t] = "dispatching" => pc[t] = "dispatching" \/ AutoApprove(t)
<1>a. StartInv /\ TypeOK /\ ApprovedForGood /\ t \in Tasks /\ t \notin ExecJobs
  BY TaskShape, TaskKinds DEF RuntimeInv, StartInv
<1> USE <1>a
<1>b. ASSUME seen' = seen, pc'[t] = pc[t] \/ pc'[t] \notin {"drafting", "approving", "dispatching"} PROVE Goal
  BY <1>b
<1>1. ASSUME User PROVE Goal
  BY <1>1 DEF User, Submit, ApproveRun, CancelRun, ReviseBegin
<1>2. ASSUME Handler PROVE Goal
  <2>1. seen' = seen /\ (pc'[t] = pc[t] \/ pc'[t] = "spawned")
    BY <1>2 DEF Handler, SubmitDispatch, ApproveDispatch, AcknowledgementSent, AcknowledgementLost, ReviseSucceeds, ReviseFails, TypeOK
  <2>2. QED
    BY <1>b, <2>1
<1>3. ASSUME NEW u \in Planners, Planner(u) PROVE Goal
  <2>1. CASE u # t
    <3>1. seen'[t] = seen[t] /\ pc'[t] = pc[t]
      BY <1>3, <2>1 DEF Planner, PlanBegin, DraftFails, DraftSucceeds, AutoApprove, AutoDispatch, TypeOK
    <3>2. QED
      BY <3>1
  <2>2. CASE u = t
    <3>1. CASE PlanBegin(t)
      BY <3>1 DEF PlanBegin, TypeOK
    <3>2. CASE DraftSucceeds(t)
      BY <3>2 DEF DraftSucceeds, AfterPlanning, TypeOK
    <3>3. CASE AutoApprove(t)
      BY <3>3 DEF AutoApprove, TypeOK
    <3>4. CASE DraftFails(t) \/ AutoDispatch(t)
      BY <3>4, <1>b DEF DraftFails, AutoDispatch, AfterPlanning, TypeOK
    <3>5. QED
      BY <1>3, <2>2, <3>1, <3>2, <3>3, <3>4 DEF Planner
  <2>3. QED
    BY <2>1, <2>2
<1> HIDE DEF Goal
<1>4. ASSUME NEW j \in JobIds, Worker(j) PROVE Goal
  <2>1. seen' = seen /\ (pc'[t] = pc[t] \/ pc'[t] \notin {"drafting", "approving", "dispatching"})
    BY <1>4 DEF Worker, ClaimJob, CompleteJob, FailJob, TaskDone, DropSpawned, Interrupt, InterruptRun, TypeOK
  <2>2. QED
    BY <1>b, <2>1
<1>5. ASSUME NEW j \in ExecJobs, Executor(j) \/ ToolThread(j) PROVE Goal
  BY <1>5, <1>b, ExecutorEffect
<1>6. ASSUME Consume PROVE Goal
  BY <1>6, <1>b DEF Consume, TypeOK
<1>7. ASSUME Stop \/ UNCHANGED vars PROVE Goal
  BY <1>7, <1>b DEF Stop, vars
<1>8. ASSUME Restart PROVE Goal
  BY <1>8 DEF Restart, Goal
<1>9. Goal
  BY <1>1, <1>2, <1>3, <1>4, <1>5, <1>6, <1>7, <1>8 DEF Next
<1>10. QED
  BY <1>9 DEF Goal

\* A start is never forgotten.
LEMMA StartsAreKept ==
    ASSUME RuntimeInv, [Next]_vars, NEW r \in Runs, hist[r].starts > 0
    PROVE  hist'[r].starts > 0
<1>a. StartInv /\ TypeOK /\ ApprovedForGood
  BY DEF RuntimeInv, StartInv
<1> USE <1>a DEF TypeOK
<1>b. hist[r] \in [starts: Nat, agreed: PlanText, executed: PlanText]
  OBVIOUS
<1>1. ASSUME User PROVE hist'[r].starts > 0
  <2>1. ASSUME NEW q \in Runs, ApproveRun(q) PROVE hist'[r].starts = hist[r].starts
    BY <1>b, <2>1 DEF ApproveRun
  <2>2. ASSUME NEW q \in Runs, Submit(q) \/ CancelRun(q) \/ ReviseBegin(q) PROVE hist' = hist
    BY <2>2 DEF Submit, CancelRun, ReviseBegin
  <2>3. QED
    BY <1>1, <2>1, <2>2 DEF User
<1>2. ASSUME NEW t \in Planners, Planner(t) PROVE hist'[r].starts > 0
  <2>1. ASSUME AutoApprove(t) PROVE hist'[r].starts = hist[r].starts
    <3>1. PICK a : hist' = [hist EXCEPT ![RunOf(t)].agreed = a]
      BY <2>1 DEF AutoApprove
    <3>2. QED
      BY <1>b, <3>1
  <2>2. ASSUME ~AutoApprove(t) PROVE hist' = hist
    BY <1>2, <2>2 DEF Planner, PlanBegin, DraftFails, DraftSucceeds, AutoDispatch
  <2>3. QED
    BY <2>1, <2>2
<1>3. ASSUME NEW j \in ExecJobs, Executor(j) \/ ToolThread(j) PROVE hist'[r].starts > 0
  <2>1. hist'[r].starts = hist[r].starts \/ hist'[r].starts > 0
    BY <1>3, ExecutorEffect
  <2>2. QED
    BY <2>1
<1>4. ASSUME NEW j \in JobIds, Worker(j) PROVE hist' = hist
  BY <1>4 DEF Worker, ClaimJob, CompleteJob, FailJob, TaskDone, DropSpawned, Interrupt, InterruptRun
<1>5. ASSUME Handler \/ Consume \/ Stop \/ Restart \/ UNCHANGED vars PROVE hist' = hist
  BY <1>5 DEF Handler, SubmitDispatch, AcknowledgementSent, AcknowledgementLost, ApproveDispatch,
              ReviseSucceeds, ReviseFails, Consume, Stop, Restart, vars
<1>6. QED
  BY <1>1, <1>2, <1>3, <1>4, <1>5 DEF Next

\* Only process_run() brings a job into the execution of a plan.
LEMMA ExecutingMoves ==
    ASSUME RuntimeInv, [Next]_vars, NEW j \in ExecJobs, pc'[j] \in Executing
    PROVE  pc[j] \in Executing \/ hist'[RunOf(j)].starts > 0
<1>a. /\ StartInv /\ TypeOK /\ ApprovedForGood
      /\ j \in JobIds /\ j \in Tasks /\ j \notin Planners /\ j \notin Continuations
  BY TaskShape, TaskKinds DEF RuntimeInv, StartInv
<1> USE <1>a DEF Executing
<1>1. ASSUME User PROVE pc' = pc
  BY <1>1 DEF User, Submit, ApproveRun, CancelRun, ReviseBegin
<1>2. ASSUME Handler PROVE pc'[j] = pc[j]
  BY <1>2, TaskKinds DEF Handler, SubmitDispatch, AcknowledgementSent, AcknowledgementLost, ApproveDispatch,
              ReviseSucceeds, ReviseFails, TypeOK
<1>3. ASSUME Consume PROVE pc'[j] = pc[j] \/ pc'[j] = "spawned"
  BY <1>3 DEF Consume, TypeOK
<1>4. ASSUME NEW t \in Planners, Planner(t) PROVE pc'[j] = pc[j]
  BY <1>4 DEF Planner, PlanBegin, DraftFails, DraftSucceeds, AutoApprove, AutoDispatch, TypeOK
<1>5. ASSUME NEW k \in JobIds, Worker(k) PROVE pc[j] \in Executing
  BY <1>5 DEF Worker, ClaimJob, CompleteJob, FailJob, TaskDone, DropSpawned, Interrupt, InterruptRun, TypeOK
<1>6. ASSUME NEW k \in ExecJobs, Executor(k) \/ ToolThread(k)
      PROVE  pc[j] \in Executing \/ hist'[RunOf(j)].starts > 0
  BY <1>6, ExecutorEffect
<1>7. ASSUME Restart PROVE FALSE
  BY <1>7, TaskShape DEF Restart
<1>8. ASSUME Stop \/ UNCHANGED vars PROVE pc' = pc
  BY <1>8 DEF Stop, vars
<1>9. QED
  BY <1>1, <1>2, <1>3, <1>4, <1>5, <1>6, <1>7, <1>8 DEF Next

\* Approved runs stay so, and executions work on started runs.
LEMMA ApprovedStep == RuntimeInv /\ [Next]_vars => ApprovedForGood'
<1> SUFFICES ASSUME RuntimeInv, [Next]_vars PROVE ApprovedForGood'
  OBVIOUS
<1>a. StartInv /\ TypeOK /\ ApprovedForGood /\ RevisedRow
  BY DEF RuntimeInv, StartInv
<1>1. ASSUME NEW r \in Runs, run'[r].approved PROVE run'[r].status \notin {"awaiting_confirmation", "cancelled"}
  <2>1. RowMoves(r)
    BY RowStep
  <2>2. CASE run[r].approved
    <3>1. run[r].status \notin {"awaiting_confirmation", "cancelled"} /\ ~Submit(r)
      BY <1>a, <2>2 DEF ApprovedForGood, StartInv, ApprovedRunHasPlan, KnownRun, Submit
    <3>2. ~(ReviseFails /\ handler.run = r)
      BY <1>a, <2>2 DEF RevisedRow, UnderRevision, ReviseFails
    <3>3. QED
      BY <2>1, <2>2, <3>1, <3>2 DEF RowMoves
  <2>3. CASE ~run[r].approved
    BY <1>1, <2>1, <2>3 DEF RowMoves
  <2>4. QED
    BY <2>2, <2>3
<1>2. ASSUME NEW r \in Runs, run'[r].status \in {"running", "waiting_tool"} PROVE run'[r].approved
  <2>1. RowMoves(r)
    BY RowStep
  <2>2. ASSUME Submit(r) PROVE run'[r].status \in {"awaiting_confirmation", "queued"}
    BY <1>a, <2>2, CreateRow DEF Submit, Create, TypeOK
  <2>3. run[r].approved
    BY <1>a, <1>2, <2>1, <2>2 DEF RowMoves, ApprovedForGood
  <2>4. QED
    BY <2>1, <2>3 DEF RowMoves
<1>3. ASSUME NEW j \in ExecJobs, pc'[j] \in Executing PROVE hist'[RunOf(j)].starts > 0
  BY <1>a, <1>3, ExecutingMoves, StartsAreKept, TaskShape DEF ApprovedForGood
<1>4. QED
  BY <1>1, <1>2, <1>3 DEF ApprovedForGood

\* A planner of a run that awaits its user has seen it awaiting.
LEMMA AwaitingStep == RuntimeInv /\ [Next]_vars => AwaitingWasSeen'
<1> SUFFICES ASSUME RuntimeInv, [Next]_vars, NEW t \in Planners,
                    run'[RunOf(t)].status = "awaiting_confirmation", pc'[t] = "drafting"
             PROVE  seen'[t] = "awaiting_confirmation"
  BY DEF AwaitingWasSeen
<1> DEFINE r == RunOf(t)
<1>a. /\ StartInv /\ TypeOK /\ AwaitingWasSeen /\ RevisedRow /\ r \in Runs /\ t \in Tasks
      /\ RowMoves(r)
  BY RowStep, TaskShape DEF RuntimeInv, StartInv
<1>1. CASE PlanBegin(t)
  BY <1>1, <1>a DEF PlanBegin, TypeOK
<1>2. CASE pc[t] = "drafting" /\ seen'[t] = seen[t]
  <2>1. ~Submit(r)
    BY <1>a, <1>2 DEF Submit, StartInv, WorkNamesKnownRuns, KnownRun
  <2>2. CASE run[r].status = "awaiting_confirmation"
    BY <1>a, <1>2, <2>2 DEF AwaitingWasSeen
  <2>3. CASE ReviseFails /\ handler.run = r /\ run[r].status # "awaiting_confirmation"
    <3>1. UnderRevision(r) /\ run[r].status = "failed"
      BY <1>a, <2>3 DEF ReviseFails, UnderRevision, RevisedRow
    <3>2. ~ChatStillPlans(r) /\ \A p \in PlanJobs : RunOf(p) = r => ~JobStillPlans(p)
      BY <1>a, <3>1 DEF RevisedRow
    <3>3. t \in PlanJobs \/ t = Continuation(r)
      BY TaskKinds
    <3>4. QED
      BY <1>2, <3>2, <3>3 DEF ChatStillPlans, JobStillPlans
  <2>4. QED
    BY <1>a, <2>1, <2>2, <2>3 DEF RowMoves
<1>3. QED
  BY <1>1, <1>2, PlannerMoves

\* A run under revision is not approved, cancelled or worked on meanwhile.
LEMMA RevisedStep == RuntimeInv /\ [Next]_vars => RevisedRow'
<1> SUFFICES ASSUME RuntimeInv, [Next]_vars, NEW r \in Runs, UnderRevision(r)'
             PROVE  /\ run'[r].plan # "null" /\ ~run'[r].approved
                    /\ run'[r].status \in {"awaiting_confirmation", "failed"}
                    /\ run'[r].status = "failed" =>
                           /\ ~ChatStillPlans(r)'
                           /\ \A p \in PlanJobs : RunOf(p) = r => ~JobStillPlans(p)'
  BY DEF RevisedRow, ChatStillPlans
<1>a. /\ StartInv /\ TypeOK /\ RevisedRow /\ ApprovedForGood /\ JobsInPlace /\ OneJobAtATime
      /\ OnePlannerLeft /\ ShutdownIsQuiet /\ NothingDispatched /\ BeforeDispatch
      /\ RowMoves(r)
  BY RowStep DEF RuntimeInv, StartInv
<1>1. CASE ReviseBegin(r)
  BY <1>1, <1>a DEF ReviseBegin, Revisable, ApprovedForGood
<1>2. CASE UnderRevision(r) /\ ~ReviseBegin(r)
  <2>1. /\ run[r].plan # "null" /\ ~run[r].approved /\ KnownRun(r)
        /\ run[r].status \in {"awaiting_confirmation", "failed"}
        /\ handler.pc = "revising" /\ handler.run = r
    BY <1>a, <1>2 DEF RevisedRow, UnderRevision, KnownRun
  <2>2. ~Submit(r) /\ ~CancelRun(r) /\ ~ApproveRun(r) /\ ~SubmitDispatch
    BY <2>1 DEF Submit, CancelRun, ApproveRun, HandlerFree, SubmitDispatch
  <2>3. ASSUME NEW t \in Planners, RunOf(t) = r PROVE ~AutoApprove(t)
    BY <1>a, <1>2, <2>3 DEF AutoApprove, NothingDispatched
  <2>4. ASSUME NEW j \in JobIds PROVE ~InterruptRun(j)
    BY <1>a, <2>1 DEF InterruptRun, JobsInPlace, Placed, ShutdownIsQuiet
  <2>5. run'[r].plan # "null" /\ ~run'[r].approved
    BY <1>a, <2>1, <2>2, <2>3 DEF RowMoves
  <2>6. \/ run'[r].status \in {run[r].status, "awaiting_confirmation"}
        \/ run'[r].status = "failed" /\ \E t \in Planners : RunOf(t) = r /\ DraftFails(t)
    BY <1>a, <2>1, <2>2, <2>4, <2>5 DEF RowMoves
  <2>7. ASSUME run'[r].status = "failed"
        PROVE  /\ ~ChatStillPlans(r)'
               /\ \A p \in PlanJobs : RunOf(p) = r => ~JobStillPlans(p)'
    <3>1. CASE run[r].status = "failed"
      <4>1. ~ChatStillPlans(r) /\ \A p \in PlanJobs : RunOf(p) = r => ~JobStillPlans(p)
        BY <1>a, <1>2, <3>1 DEF RevisedRow
      <4>2. QED
        BY <2>2, <4>1, JobPlannersRunDown, ChatPlannersRunDown
    <3>2. CASE \E t \in Planners : RunOf(t) = r /\ DraftFails(t)
      <4>1. PICK t \in Planners : RunOf(t) = r /\ DraftFails(t)
        BY <3>2
      <4>2. pc[t] = "drafting" /\ t \in Tasks
        BY <4>1, TaskShape DEF DraftFails
      <4>3. CASE t \in PlanJobs
        <5>1. t \in JobIds /\ job[t] = "running" /\ job' = job /\ pc'[t] = "failing"
          BY <1>a, <4>1, <4>2, <4>3, TaskShape DEF DraftFails, AfterPlanning, JobsInPlace, Placed, Working, TypeOK
        <5>2. ~JobStillPlans(t)'
          BY <5>1 DEF JobStillPlans
        <5>3. JobStillPlans(t)
          BY <4>2 DEF JobStillPlans
        <5>4. ~ChatStillPlans(r)
          BY <1>a, <2>1, <4>1, <4>3, <5>3 DEF OnePlannerLeft
        <5>5. ~ChatStillPlans(r)'
          BY <2>2, <5>4, ChatPlannersRunDown
        <5>6. ASSUME NEW p \in PlanJobs, RunOf(p) = r, p # t PROVE ~JobStillPlans(p)'
          <6>1. p \in JobIds /\ job[p] = "none"
            BY <1>a, <4>1, <4>3, <5>1, <5>6, TaskShape DEF OneJobAtATime
          <6>2. ~JobStillPlans(p)
            BY <1>a, <6>1 DEF JobStillPlans, JobsInPlace, Placed, Working
          <6>3. QED
            BY <2>2, <6>2, JobPlannersRunDown
        <5>7. QED
          BY <5>2, <5>5, <5>6
      <4>4. CASE t \notin PlanJobs
        <5>1. t = Continuation(r)
          BY <4>1, <4>4, TaskKinds
        <5>2. ChatStillPlans(r)
          BY <4>2, <5>1 DEF ChatStillPlans
        <5>3. \A p \in PlanJobs : RunOf(p) = r => ~JobStillPlans(p)'
          BY <1>a, <2>1, <2>2, <5>2, JobPlannersRunDown DEF OnePlannerLeft
        <5>4. pc'[t] = "idle" /\ handler' = handler
          BY <1>a, <4>1, <4>2, <4>4 DEF DraftFails, AfterPlanning, TypeOK
        <5>5. ~ChatStillPlans(r)'
          BY <2>1, <5>1, <5>4 DEF ChatStillPlans
        <5>6. QED
          BY <5>3, <5>5
      <4>5. QED
        BY <4>3, <4>4
    <3>3. QED
      BY <2>1, <2>6, <2>7, <3>1, <3>2
  <2>8. QED
    BY <2>1, <2>5, <2>6, <2>7
<1>3. QED
  BY <1>1, <1>2, HandlerMoves

\* A run only becomes undecided by its submission or the revision of its plan.
LEMMA UndecidedMoves ==
    ASSUME RuntimeInv, [Next]_vars, NEW r \in Runs, Undecided(r)'
    PROVE  Undecided(r) \/ Submit(r) \/ UnderRevision(r)
<1>1. RowMoves(r)
  BY RowStep
<1>2. ~run'[r].approved /\ run'[r].status \in {"awaiting_confirmation", "queued"}
  BY DEF Undecided
<1>3. ~run[r].approved
  BY <1>1, <1>2 DEF RowMoves
<1>4. CASE run'[r].status = run[r].status
  BY <1>2, <1>3, <1>4 DEF Undecided
<1>5. CASE ReviseFails /\ handler.run = r
  BY <1>5 DEF ReviseFails, UnderRevision
<1>6. QED
  BY <1>1, <1>2, <1>3, <1>4, <1>5 DEF RowMoves

\* Executions are dispatched for decided runs only.
LEMMA NothingDispatchedStep == RuntimeInv /\ [Next]_vars => NothingDispatched'
<1> SUFFICES ASSUME RuntimeInv, [Next]_vars PROVE NothingDispatched'
  OBVIOUS
<1>a. /\ StartInv /\ TypeOK /\ NothingDispatched /\ RevisedRow /\ ApprovedForGood /\ JobsInPlace
      /\ OneSegmentAtATime /\ OneJobAtATime /\ AwaitingWasSeen
  BY DEF RuntimeInv, StartInv
<1>1. ASSUME NEW r \in Runs, UnderApproval(r)' PROVE run'[r].approved
  <2>1. CASE UnderApproval(r)
    BY <1>a, <2>1, RowStep DEF NothingDispatched, RowMoves
  <2>2. CASE ApproveRun(r)
    <3>1. run[r] \in RunRow /\ Approvable(run[r]) /\ run'[r] = Approve(run[r])
      BY <1>a, <2>2 DEF ApproveRun, MayApprove, Approvable, TypeOK
    <3>2. QED
      BY <3>1, ApproveRow
  <2>3. QED
    BY <1>1, <2>1, <2>2, HandlerMoves
<1>2. ASSUME NEW j \in ExecJobs,
             Undecided(RunOf(j))' \/ UnderRevision(RunOf(j))' \/ UnderApproval(RunOf(j))'
      PROVE  job'[j] = "none"
  <2> DEFINE r == RunOf(j)
  <2>1. r \in Runs /\ j \in JobIds
    BY TaskShape
  <2>2. \/ Undecided(r) \/ UnderRevision(r) \/ UnderApproval(r) \/ Submit(r)
        \/ ReviseBegin(r) \/ ApproveRun(r)
    BY <1>2, <2>1, UndecidedMoves, HandlerMoves
  <2>3. ReviseBegin(r) \/ ApproveRun(r) => Undecided(r)
    BY <1>a, <2>1 DEF ReviseBegin, Revisable, ApproveRun, MayApprove, Undecided, ApprovedForGood
  <2>4. job[j] = "none"
    BY <1>a, <2>1, <2>2, <2>3 DEF NothingDispatched, OneJobAtATime, KnownRun, Submit
  <2>5. SUFFICES ASSUME job'[j] # "none" PROVE FALSE
    OBVIOUS
  <2>6. j \notin PlanJobs /\ DispatchesFor(j)
    BY <2>1, <2>4, <2>5, JobMoves, TaskKinds
  <2>7. CASE ApproveDispatch /\ handler.run = r
    <3>1. UnderApproval(r) /\ handler'.pc = "idle" /\ run' = run
      BY <2>7 DEF ApproveDispatch, UnderApproval, IdleHandler
    <3>2. ~Undecided(r)'
      BY <1>a, <2>1, <3>1 DEF NothingDispatched, Undecided
    <3>3. QED
      BY <1>2, <3>1, <3>2 DEF UnderRevision, UnderApproval
  <2>8. ASSUME NEW t \in Planners, RunOf(t) = r, AutoDispatch(t) PROVE FALSE
    <3>1. pc[t] = "dispatching" /\ run' = run /\ handler' = handler /\ t \in Tasks
      BY <2>8, TaskShape DEF AutoDispatch
    <3>2. ~Undecided(r) /\ ~UnderRevision(r)
      BY <1>a, <2>8, <3>1 DEF NothingDispatched
    <3>3. ~UnderApproval(r)
      BY <1>a, <3>1 DEF OneSegmentAtATime, UnderApproval, MidHandler, MidSegment
    <3>4. QED
      BY <1>2, <3>1, <3>2, <3>3 DEF Undecided, UnderRevision, UnderApproval
  <2>9. QED
    BY <2>6, <2>7, <2>8 DEF DispatchesFor
<1>3. ASSUME NEW t \in Planners, pc'[t] = "dispatching"
      PROVE  ~Undecided(RunOf(t))' /\ ~UnderRevision(RunOf(t))'
  <2> DEFINE r == RunOf(t)
  <2>1. r \in Runs /\ t \in Tasks
    BY TaskShape
  <2>2. CASE pc[t] = "dispatching"
    <3>1. ~Undecided(r) /\ ~UnderRevision(r) /\ KnownRun(r)
      BY <1>a, <2>1, <2>2 DEF NothingDispatched, StartInv, WorkNamesKnownRuns
    <3>2. ~Submit(r) /\ ~ReviseBegin(r)
      BY <2>1, <2>2 DEF Submit, ReviseBegin, HandlerFree, LoopFree, MidSegment
    <3>3. QED
      BY <2>1, <3>1, <3>2, UndecidedMoves, HandlerMoves
  <2>3. CASE AutoApprove(t)
    <3>1. pc[t] = "approving" /\ handler' = handler /\ run[r] \in RunRow /\ run'[r] = Approve(run[r])
      BY <1>a, <2>1, <2>3 DEF AutoApprove, TypeOK
    <3>2. ~UnderRevision(r)
      BY <1>a, <3>1 DEF NothingDispatched
    <3>3. ~Undecided(r)'
      BY <3>1, ApproveRow DEF Undecided, Approvable
    <3>4. QED
      BY <3>1, <3>2, <3>3 DEF UnderRevision
  <2>4. QED
    BY <1>3, <2>2, <2>3, PlannerMoves
<1>4. ASSUME NEW t \in Planners, pc'[t] = "approving"
      PROVE  run'[RunOf(t)].status # "awaiting_confirmation" /\ ~UnderRevision(RunOf(t))'
  <2> DEFINE r == RunOf(t)
  <2>1. r \in Runs /\ t \in Tasks
    BY TaskShape
  <2>2. CASE pc[t] = "approving"
    <3>1. run[r].status # "awaiting_confirmation" /\ ~UnderRevision(r) /\ KnownRun(r)
      BY <1>a, <2>1, <2>2 DEF NothingDispatched, StartInv, WorkNamesKnownRuns
    <3>2. ~Submit(r) /\ ~ReviseBegin(r) /\ ~ReviseFails
      BY <2>1, <2>2 DEF Submit, ReviseBegin, ReviseFails, HandlerFree, LoopFree, MidSegment
    <3>3. RowMoves(r)
      BY <2>1, RowStep
    <3>4. QED
      BY <2>1, <3>1, <3>2, <3>3, HandlerMoves DEF RowMoves
  <2>3. CASE DraftSucceeds(t) /\ seen[t] # "awaiting_confirmation"
    <3>1. pc[t] = "drafting" /\ handler' = handler
      BY <2>3 DEF DraftSucceeds
    <3>2. run[r].status # "awaiting_confirmation"
      BY <1>a, <2>3, <3>1 DEF AwaitingWasSeen
    <3>3. ~UnderRevision(r)
      <4>1. SUFFICES ASSUME UnderRevision(r) PROVE FALSE
        OBVIOUS
      <4>2. ~ChatStillPlans(r) /\ \A p \in PlanJobs : RunOf(p) = r => ~JobStillPlans(p)
        BY <1>a, <2>1, <3>2, <4>1 DEF RevisedRow
      <4>3. t \in PlanJobs \/ t = Continuation(r)
        BY TaskKinds
      <4>4. QED
        BY <3>1, <4>2, <4>3 DEF ChatStillPlans, JobStillPlans
    <3>4. run'[r].status = run[r].status
      <4>1. PICK p \in PlanText, g \in RunStage : run'[r] = UpdatePlan(run[r], p, g)
        BY <1>a, <2>1, <2>3 DEF DraftSucceeds, Author, PlanText, RunStage, TypeOK
      <4>2. run[r] \in RunRow
        BY <1>a, <2>1 DEF TypeOK
      <4>3. QED
        BY <4>1, <4>2, UpdatePlanRow
    <3>5. QED
      BY <3>1, <3>2, <3>3, <3>4 DEF UnderRevision
  <2>4. QED
    BY <1>4, <2>2, <2>3, PlannerMoves
<1>5. QED
  BY <1>1, <1>2, <1>3, <1>4 DEF NothingDispatched, Undecided, UnderRevision, UnderApproval

\* A run is being planned from its submission on, never again later.
LEMMA PlanningMoves ==
    ASSUME RuntimeInv, [Next]_vars, NEW r \in Runs, Planning(r)'
    PROVE  Planning(r) \/ Submit(r)
<1>a. StartInv /\ TypeOK /\ ApprovedForGood /\ Continuation(r) \in Tasks /\ Continuation(r) \in Continuations
  BY TaskShape, TaskKinds DEF RuntimeInv, StartInv
<1>1. ASSUME handler'.pc \in {"submitting", "acking"}, handler'.run = r PROVE Planning(r) \/ Submit(r)
  BY <1>1, HandlerMoves DEF Planning
<1>2. ASSUME NEW p \in PlanJobs, RunOf(p) = r, p \in pending' PROVE Planning(r) \/ Submit(r)
  <2>1. CASE p \in pending
    BY <1>2, <2>1 DEF Planning
  <2>2. CASE p \notin pending
    <3>1. p \in JobIds /\ p \notin ExecJobs
      BY TaskShape, TaskKinds
    <3>2. SubmitDispatch /\ handler.run = r
      BY <1>2, <2>2, <3>1, JobMoves DEF DispatchesFor
    <3>3. QED
      BY <3>2 DEF SubmitDispatch, Planning
  <2>3. QED
    BY <2>1, <2>2
<1>3. ASSUME pc'[Continuation(r)] # "idle", pc[Continuation(r)] = "idle" PROVE Planning(r) \/ Submit(r)
  <2> DEFINE c == Continuation(r)
  <2>a. /\ c \in Tasks /\ c \notin JobIds /\ c \in Continuations /\ pc \in [Tasks -> PC]
        /\ \A q \in Runs : Continuation(q) = c => q = r
    BY <1>a, TaskShape, TaskKinds DEF TypeOK
  <2> HIDE DEF c
  <2>1. ASSUME AcknowledgementSent PROVE Planning(r)
    <3>1. handler.pc = "acking" /\ handler.run \in Runs /\ pc'[c] # pc[c]
      BY <1>a, <1>3, <2>1 DEF AcknowledgementSent, TypeOK, c
    <3>2. Continuation(handler.run) = c
      BY <2>a, <2>1, <3>1 DEF AcknowledgementSent
    <3>3. QED
      BY <2>a, <3>1, <3>2 DEF Planning
  <2>2. ASSUME User PROVE pc' = pc
    BY <2>2 DEF User, Submit, ApproveRun, CancelRun, ReviseBegin
  <2>3. ASSUME SubmitDispatch \/ AcknowledgementLost \/ ApproveDispatch \/ ReviseSucceeds \/ ReviseFails \/ Stop \/ UNCHANGED vars
        PROVE  pc' = pc
    BY <2>3 DEF SubmitDispatch, AcknowledgementLost, ApproveDispatch, ReviseSucceeds, ReviseFails, Stop, vars
  <2>4. ASSUME Consume PROVE pc'[c] = pc[c]
    <3>1. Head(queue) \in JobIds
      BY <1>a, <2>4, TailElements DEF Consume, TypeOK
    <3>2. QED
      BY <2>a, <2>4, <3>1 DEF Consume
  <2>5. ASSUME NEW t \in Planners, Planner(t) PROVE pc'[c] = pc[c] \/ pc[c] # "idle"
    BY <2>a, <2>5, TaskShape, TaskKinds DEF Planner, PlanBegin, DraftFails, DraftSucceeds, AutoApprove, AutoDispatch
  <2>6. ASSUME NEW j \in JobIds, Worker(j) PROVE pc'[c] = pc[c]
    BY <2>a, <2>6 DEF Worker, ClaimJob, CompleteJob, FailJob, TaskDone, DropSpawned, Interrupt, InterruptRun
  <2>7. ASSUME NEW j \in ExecJobs, Executor(j) \/ ToolThread(j) PROVE pc'[c] = pc[c]
    BY <1>a, <2>a, <2>7, ExecutorEffect, TaskShape
  <2>8. ASSUME Restart PROVE pc'[c] = "idle"
    BY <2>a, <2>8 DEF Restart
  <2>9. QED
    BY <1>3, <2>1, <2>2, <2>3, <2>4, <2>5, <2>6, <2>7, <2>8 DEF Next, Handler, c
<1>4. QED
  BY <1>1, <1>2, <1>3 DEF Planning

\* A process that is not shutting down goes on so, and counts no restart, unless it ends.
LEMMA ProcessMoves ==
    ASSUME RuntimeInv, [Next]_vars
    PROVE  Restart \/ (restarts' = restarts /\ (stopping => stopping'))
<1>1. ASSUME NEW j \in ExecJobs, Executor(j) \/ ToolThread(j) PROVE UNCHANGED <<restarts, stopping>>
  BY <1>1, ExecutorEffect DEF RuntimeInv
<1>2. ASSUME User \/ Handler \/ Consume PROVE UNCHANGED <<restarts, stopping>>
  BY <1>2 DEF User, Submit, ApproveRun, CancelRun, ReviseBegin, Handler, SubmitDispatch, AcknowledgementSent,
              AcknowledgementLost, ApproveDispatch, ReviseSucceeds, ReviseFails, Consume
<1>3. ASSUME NEW t \in Planners, Planner(t) PROVE UNCHANGED <<restarts, stopping>>
  BY <1>3 DEF Planner, PlanBegin, DraftFails, DraftSucceeds, AutoApprove, AutoDispatch
<1>4. ASSUME NEW j \in JobIds, Worker(j) PROVE UNCHANGED <<restarts, stopping>>
  BY <1>4 DEF Worker, ClaimJob, CompleteJob, FailJob, TaskDone, DropSpawned, Interrupt, InterruptRun
<1>5. ASSUME Stop \/ UNCHANGED vars PROVE restarts' = restarts /\ (stopping => stopping')
  BY <1>5 DEF Stop, HandlerFree, vars
<1>6. QED
  BY <1>1, <1>2, <1>3, <1>4, <1>5 DEF Next

\* The process holds the active jobs of the runs it plans.
LEMMA ActiveStep == RuntimeInv /\ [Next]_vars => ActiveIsPending'
<1> SUFFICES ASSUME RuntimeInv, [Next]_vars, ~stopping', NEW j \in JobIds, Active(j)',
                    restarts' = 0 \/ Planning(RunOf(j))'
             PROVE  j \in pending'
  BY DEF ActiveIsPending, Active, Planning
<1>a. /\ StartInv /\ TypeOK /\ ActiveIsPending /\ JobsInPlace /\ OneJobAtATime /\ RunOf(j) \in Runs
  BY TaskShape DEF RuntimeInv, StartInv
<1>1. ~Restart
  <2>1. SUFFICES ASSUME Restart PROVE FALSE
    OBVIOUS
  <2>2. restarts' # 0
    BY <1>a, <2>1 DEF Restart, TypeOK
  <2>3. ~Planning(RunOf(j))'
    <3>1. Continuation(RunOf(j)) \in Tasks
      BY <1>a, TaskShape
    <3>2. handler'.pc = "idle" /\ pending' = {} /\ pc'[Continuation(RunOf(j))] = "idle"
      BY <2>1, <3>1 DEF Restart, IdleHandler
    <3>3. QED
      BY <3>2 DEF Planning
  <2>4. QED
    BY <2>2, <2>3
<1>2. ~stopping /\ restarts' = restarts
  BY <1>1, ProcessMoves
<1>3. CASE Active(j)
  <2>1. ~Submit(RunOf(j))
    BY <1>a, <1>3 DEF Submit, OneJobAtATime, KnownRun, Active, ActiveJobStatus
  <2>2. j \in pending
    BY <1>a, <1>2, <1>3, <2>1, PlanningMoves DEF ActiveIsPending
  <2>3. ~TaskDone(j)
    BY <1>a, <1>2, <1>3 DEF TaskDone, JobsInPlace, Placed
  <2>4. QED
    BY <1>1, <2>2, <2>3, JobMoves
<1>4. CASE ~Active(j)
  BY <1>4, JobMoves
<1>5. QED
  BY <1>3, <1>4

\* The invariant holds before the first prompt.
LEMMA RuntimeInit == Init => RuntimeInv
<1> SUFFICES ASSUME Init PROVE RuntimeInv
  OBVIOUS
<1>1. StartInv
  BY StartInit
<1>2. /\ \A r \in Runs : run[r] = NoRow /\ hist[r].starts = 0
      /\ \A j \in JobIds : job[j] = "none"
      /\ \A t \in Tasks : pc[t] = "idle"
      /\ queue = <<>> /\ pending = {} /\ handler.pc = "idle" /\ stopping = FALSE
  BY DEF Init, IdleHandler
<1>3. JobsInPlace
  BY <1>2, TaskShape DEF JobsInPlace, Placed, Distinct, Waiting, Elements, Working, Executing
<1>4. OneSegmentAtATime /\ ShutdownIsQuiet /\ BeforeDispatch
  BY <1>2 DEF OneSegmentAtATime, ShutdownIsQuiet, BeforeDispatch, MidHandler
<1>5. OneJobAtATime /\ ActiveIsPending
  BY <1>2, TaskShape DEF OneJobAtATime, ActiveIsPending, Active, ActiveJobStatus
<1>6. OnePlannerLeft /\ AwaitingWasSeen /\ ApprovedForGood /\ AbsentRowsAreEmpty
  BY <1>2, TaskShape DEF OnePlannerLeft, AwaitingWasSeen, ApprovedForGood, AbsentRowsAreEmpty, NoRow, Executing
<1>7. RevisedRow /\ NothingDispatched
  BY <1>2, TaskShape DEF RevisedRow, NothingDispatched, UnderRevision, UnderApproval
<1>8. QED
  BY <1>1, <1>3, <1>4, <1>5, <1>6, <1>7 DEF RuntimeInv

\* Every step preserves it.
LEMMA RuntimeStep == RuntimeInv /\ [Next]_vars => RuntimeInv'
<1>1. RuntimeInv /\ [Next]_vars => StartInv'
  BY StartStep DEF RuntimeInv
<1>2. QED
  BY <1>1, AbsentStep, PlacesStep, SegmentStep, ShutdownStep, OneJobStep, BeforeDispatchStep, OnePlannerStep, ApprovedStep,
     AwaitingStep, RevisedStep, NothingDispatchedStep, ActiveStep DEF RuntimeInv

\* The inductive invariant holds throughout.
THEOREM RuntimeInvariant == Spec => []RuntimeInv
<1>1. QED
  BY RuntimeInit, RuntimeStep, PTL DEF Spec

-----------------------------------------------------------------------------
(* Queue, worker and table.                                                *)

\* LocalQueue, the worker's tasks and the run_jobs table agree on every job, also
\* when a restarted process finds rows it does not hold: an id is queued at most
\* once, never while its task lives, pending as long as either holds, and
\* claimable when it is delivered.
THEOREM QueueStaysConsistent == Spec => []QueueConsistent
<1>1. RuntimeInv => QueueConsistent
  <2> SUFFICES ASSUME RuntimeInv PROVE QueueConsistent
    OBVIOUS
  <2> DEFINE alive == {j \in JobIds : pc[j] # "idle"}
  <2>1. TypeOK /\ Distinct(queue) /\ \A j \in JobIds : Placed(j)
    BY DEF RuntimeInv, StartInv, JobsInPlace
  <2>2. Cardinality(Waiting) = Len(queue)
    BY <2>1, DistinctCardinality DEF Waiting, TypeOK
  <2>3. Waiting \subseteq JobIds /\ pending \subseteq JobIds
    BY <2>1 DEF Waiting, Elements, TypeOK
  <2>4. Waiting \cap alive = {} /\ pending = Waiting \cup alive
    BY <2>1, <2>3 DEF Placed
  <2>5. \A j \in JobIds : j \in Waiting \/ pc[j] = "spawned" => job[j] = "queued"
    BY <2>1 DEF Placed
  <2>6. QED
    BY <2>2, <2>4, <2>5 DEF QueueConsistent, Waiting, Elements
<1>2. QED
  BY <1>1, RuntimeInvariant, PTL

\* As long as the process lives, an active row of run_jobs has its id in the queue
\* or a task: nothing waits in the table for a worker that does not know of it.
THEOREM NoJobIsLost == Spec => []NoLostJob
<1>1. RuntimeInv => NoLostJob
  <2> SUFFICES ASSUME RuntimeInv, restarts = 0, ~stopping, NEW j \in JobIds
               PROVE  /\ job[j] = "queued" => \/ \E i \in 1..Len(queue) : queue[i] = j
                                              \/ pc[j] = "spawned"
                      /\ job[j] = "running" => pc[j] \in {"claimed"} \cup Awaiting \cup MidSegment
    BY DEF NoLostJob
  <2>1. /\ Placed(j) /\ pc[j] \in PC
        /\ Active(j) => j \in Waiting \/ pc[j] # "idle"
    BY TaskShape DEF RuntimeInv, StartInv, TypeOK, JobsInPlace, Placed, ActiveIsPending
  <2>2. ASSUME job[j] = "queued" PROVE j \in Waiting \/ pc[j] = "spawned"
    BY <2>1, <2>2 DEF Placed, PC, MidSegment, Awaiting, Working, Executing, Active, ActiveJobStatus
  <2>3. ASSUME job[j] = "running" PROVE pc[j] \in {"claimed"} \cup Awaiting \cup MidSegment
    BY <2>1, <2>3 DEF Placed, PC, Active, ActiveJobStatus
  <2>4. QED
    BY <2>2, <2>3 DEF Waiting, Elements
<1>2. QED
  BY <1>1, RuntimeInvariant, PTL


-----------------------------------------------------------------------------
(* The runtime implements RunContract.                                     *)

\* The contract's view of a run.
Public(r)  == PublicView(run[r].status)
Planned(r) == run[r].plan # "null"
Started(r) == hist[r].starts > 0

KeepsPublic(r)   == Public(r)' = Public(r)
KeepsPlanned(r)  == Planned(r)' <=> Planned(r)
KeepsApproved(r) == run'[r].approved = run[r].approved
KeepsStarted(r)  == Started(r)' <=> Started(r)
KeepsView(r)     == KeepsPublic(r) /\ KeepsPlanned(r) /\ KeepsApproved(r) /\ KeepsStarted(r)

\* The actions of the contract, said of the row of one run.
Accepts(r) ==
    /\ Public(r) = "absent" /\ Public(r)' \in {"awaiting", "queued"}
    /\ KeepsPlanned(r) /\ KeepsApproved(r) /\ KeepsStarted(r)
Plans(r) ==
    /\ Public(r) # "absent" /\ ~Planned(r) /\ Planned(r)'
    /\ KeepsPublic(r) /\ KeepsApproved(r) /\ KeepsStarted(r)
Approves(r) ==
    /\ Public(r) \in {"awaiting", "queued"} /\ Planned(r) /\ ~run[r].approved
    /\ run'[r].approved = TRUE /\ Public(r)' = "queued"
    /\ KeepsPlanned(r) /\ KeepsStarted(r)
Cancels(r) ==
    /\ Public(r) = "awaiting" /\ ~run[r].approved /\ Public(r)' = "cancelled"
    /\ KeepsPlanned(r) /\ KeepsApproved(r) /\ KeepsStarted(r)
Starts(r) ==
    /\ Public(r) = "queued" /\ Planned(r) /\ run[r].approved /\ ~Started(r)
    /\ Started(r)' /\ Public(r)' \in {"working", "failed"}
    /\ KeepsPlanned(r) /\ KeepsApproved(r)
Completes(r) ==
    /\ Public(r) \in {"working", "failed"} /\ Started(r) /\ Public(r)' = "completed"
    /\ KeepsPlanned(r) /\ KeepsApproved(r) /\ KeepsStarted(r)
Fails(r) ==
    /\ Public(r) # "absent" /\ Public(r)' = "failed"
    /\ KeepsPlanned(r) /\ KeepsApproved(r) /\ KeepsStarted(r)
Reopens(r) ==
    /\ Public(r) = "failed" /\ Planned(r) /\ ~run[r].approved /\ Public(r)' = "awaiting"
    /\ KeepsPlanned(r) /\ KeepsApproved(r) /\ KeepsStarted(r)

ContractMove(r) ==
    \/ KeepsView(r)
    \/ Accepts(r) \/ Plans(r) \/ Approves(r) \/ Cancels(r)
    \/ Starts(r) \/ Completes(r) \/ Fails(r) \/ Reopens(r)

\* The user sees the statuses as they are, except that running and waiting_tool
\* look alike.
LEMMA PublicViews ==
    /\ PublicView("absent") = "absent" /\ PublicView("awaiting_confirmation") = "awaiting"
    /\ PublicView("queued") = "queued" /\ PublicView("cancelled") = "cancelled"
    /\ PublicView("running") = "working" /\ PublicView("waiting_tool") = "working"
    /\ PublicView("completed") = "completed" /\ PublicView("failed") = "failed"
    /\ \A s \in RunStatus : PublicView(s) = "absent" => s = "absent"
BY DEF PublicView, RunStatus

\* Two sets of runs that differ in one run at most.
LEMMA OneRunDiffers ==
    ASSUME NEW f \in [Runs -> BOOLEAN], NEW g \in [Runs -> BOOLEAN], NEW r \in Runs,
           \A q \in Runs \ {r} : g[q] <=> f[q]
    PROVE  /\ (g[r] <=> f[r]) => g = f
           /\ g[r] => g = [f EXCEPT ![r] = TRUE]
OBVIOUS

\* A step that moves one run as the contract allows, and no other run, is a step
\* of the contract.
LEMMA MoveIsContractStep ==
    ASSUME TypeOK, TypeOK', NEW r \in Runs, ContractMove(r), \A q \in Runs \ {r} : KeepsView(q)
    PROVE  [Contract!Next]_(Contract!contractVars)
<1> DEFINE status == [q \in Runs |-> PublicView(run[q].status)]
           planned == [q \in Runs |-> run[q].plan # "null"]
           approved == [q \in Runs |-> run[q].approved]
           started == [q \in Runs |-> hist[q].starts > 0]
<1>1. /\ KeepsPublic(r) => status' = status
      /\ status' = [status EXCEPT ![r] = Public(r)']
  BY DEF Public, KeepsView, KeepsPublic
<1>2. /\ KeepsPlanned(r) => planned' = planned
      /\ Planned(r)' => planned' = [planned EXCEPT ![r] = TRUE]
  <2>1. /\ planned \in [Runs -> BOOLEAN] /\ planned' \in [Runs -> BOOLEAN]
        /\ \A q \in Runs : (planned[q] <=> Planned(q)) /\ (planned'[q] <=> Planned(q)')
    BY DEF Planned
  <2> HIDE DEF planned
  <2>2. QED
    BY <2>1, OneRunDiffers DEF KeepsView, KeepsPlanned
<1>3. /\ KeepsApproved(r) => approved' = approved
      /\ run'[r].approved = TRUE => approved' = [approved EXCEPT ![r] = TRUE]
  BY DEF KeepsView, KeepsApproved
<1>4. /\ KeepsStarted(r) => started' = started
      /\ Started(r)' => started' = [started EXCEPT ![r] = TRUE]
  <2>1. /\ started \in [Runs -> BOOLEAN] /\ started' \in [Runs -> BOOLEAN]
        /\ \A q \in Runs : (started[q] <=> Started(q)) /\ (started'[q] <=> Started(q)')
    <3>1. \A q \in Runs : hist[q].starts \in Nat /\ hist'[q].starts \in Nat
      BY DEF TypeOK
    <3>2. /\ \A q \in Runs : (hist[q].starts > 0) \in BOOLEAN
          /\ \A q \in Runs : (hist'[q].starts > 0) \in BOOLEAN
      BY <3>1
    <3>3. QED
      BY <3>2, Zenon DEF Started
  <2> HIDE DEF started
  <2>2. QED
    BY <2>1, OneRunDiffers DEF KeepsView, KeepsStarted
<1>5. /\ status[r] = Public(r) /\ approved[r] = run[r].approved
      /\ planned[r] <=> Planned(r)
      /\ started[r] <=> Started(r)
  BY DEF Public, Planned, Started
<1>6. /\ Contract!contractVars = <<status, planned, approved, started>>
      /\ (Contract!contractVars)' = <<status', planned', approved', started'>>
  BY DEF Contract!contractVars
<1>a. CASE KeepsView(r)
  BY <1>1, <1>2, <1>3, <1>4, <1>6, <1>a DEF KeepsView
<1>b. CASE Accepts(r)
  <2>1. Contract!Accept(r)
    BY <1>1, <1>2, <1>3, <1>4, <1>5, <1>b DEF Accepts, Contract!Accept
  <2>2. QED
    BY <2>1 DEF Contract!Next
<1>c. CASE Plans(r)
  <2>1. Contract!Plan(r)
    BY <1>1, <1>2, <1>3, <1>4, <1>5, <1>c DEF Plans, Contract!Plan
  <2>2. QED
    BY <2>1 DEF Contract!Next
<1>d. CASE Approves(r)
  <2>1. Contract!Approve(r)
    BY <1>1, <1>2, <1>3, <1>4, <1>5, <1>d DEF Approves, Contract!Approve
  <2>2. QED
    BY <2>1 DEF Contract!Next
<1>e. CASE Cancels(r)
  <2>1. Contract!Cancel(r)
    BY <1>1, <1>2, <1>3, <1>4, <1>5, <1>e DEF Cancels, Contract!Cancel
  <2>2. QED
    BY <2>1 DEF Contract!Next
<1>f. CASE Starts(r)
  <2>1. Contract!Start(r)
    BY <1>1, <1>2, <1>3, <1>4, <1>5, <1>f DEF Starts, Contract!Start
  <2>2. QED
    BY <2>1 DEF Contract!Next
<1>g. CASE Completes(r)
  <2>1. Contract!Complete(r)
    BY <1>1, <1>2, <1>3, <1>4, <1>5, <1>g DEF Completes, Contract!Complete
  <2>2. QED
    BY <2>1 DEF Contract!Next
<1>h. CASE Fails(r)
  <2>1. Contract!Fail(r)
    BY <1>1, <1>2, <1>3, <1>4, <1>5, <1>h DEF Fails, Contract!Fail
  <2>2. QED
    BY <2>1 DEF Contract!Next
<1>i. CASE Reopens(r)
  <2>1. Contract!Reopen(r)
    BY <1>1, <1>2, <1>3, <1>4, <1>5, <1>i DEF Reopens, Contract!Reopen
  <2>2. QED
    BY <2>1 DEF Contract!Next
<1>7. QED
  BY <1>a, <1>b, <1>c, <1>d, <1>e, <1>f, <1>g, <1>h, <1>i DEF ContractMove

\* Writing a status shows that status, and keeps plan, approval and history.
LEMMA StatusWrite ==
    ASSUME TypeOK, NEW r \in Runs, NEW s \in RunStatus, NEW g \in RunStage,
           run' = [run EXCEPT ![r] = UpdateStatus(@, s, g)], hist' = hist
    PROVE  /\ Public(r)' = PublicView(s)
           /\ KeepsPlanned(r) /\ KeepsApproved(r) /\ KeepsStarted(r)
           /\ \A q \in Runs \ {r} : KeepsView(q)
<1>1. run[r] \in RunRow /\ run'[r] = UpdateStatus(run[r], s, g)
  BY DEF TypeOK
<1>2. run'[r].status = s /\ run'[r].plan = run[r].plan /\ run'[r].approved = run[r].approved
  BY <1>1, UpdateStatusRow
<1>3. \A q \in Runs \ {r} : run'[q] = run[q]
  BY DEF TypeOK
<1>4. QED
  BY <1>2, <1>3 DEF Public, Planned, Started, KeepsView, KeepsPublic, KeepsPlanned, KeepsApproved, KeepsStarted

\* Writing a plan keeps status, approval and history.
LEMMA PlanWrite ==
    ASSUME TypeOK, NEW r \in Runs, NEW p \in PlanText \ {"null"}, NEW g \in RunStage,
           run' = [run EXCEPT ![r] = UpdatePlan(@, p, g)], hist' = hist
    PROVE  /\ Planned(r)'
           /\ KeepsPublic(r) /\ KeepsApproved(r) /\ KeepsStarted(r)
           /\ \A q \in Runs \ {r} : KeepsView(q)
<1>1. run[r] \in RunRow /\ run'[r] = UpdatePlan(run[r], p, g)
  BY DEF TypeOK
<1>2. run'[r].status = run[r].status /\ run'[r].plan = p /\ run'[r].approved = run[r].approved
  BY <1>1, UpdatePlanRow
<1>3. \A q \in Runs \ {r} : run'[q] = run[q]
  BY DEF TypeOK
<1>4. QED
  BY <1>2, <1>3 DEF Public, Planned, Started, KeepsView, KeepsPublic, KeepsPlanned, KeepsApproved, KeepsStarted

\* Approving an approvable run is an approval in the contract.
LEMMA ApprovalWrite ==
    ASSUME TypeOK, NEW r \in Runs, Approvable(run[r]), run[r].plan # "null",
           run' = [run EXCEPT ![r] = Approve(@)],
           \A q \in Runs : hist'[q].starts = hist[q].starts
    PROVE  Approves(r) /\ \A q \in Runs \ {r} : KeepsView(q)
<1>1. run[r] \in RunRow /\ run'[r] = Approve(run[r])
  BY DEF TypeOK
<1>2. run'[r].status = "queued" /\ run'[r].plan = run[r].plan /\ run'[r].approved = TRUE
  BY <1>1, ApproveRow
<1>3. \A q \in Runs \ {r} : run'[q] = run[q]
  BY DEF TypeOK
<1>4. Public(r) \in {"awaiting", "queued"} /\ Public(r)' = "queued" /\ ~run[r].approved
  BY <1>2, PublicViews DEF Public, Approvable
<1>5. QED
  BY <1>2, <1>3, <1>4 DEF Approves, Public, Planned, Started, KeepsView, KeepsPublic, KeepsPlanned, KeepsApproved, KeepsStarted

\* A step that writes at most one row and counts no start elsewhere.
LEMMA OthersKeepView ==
    ASSUME NEW r \in Runs, \A q \in Runs \ {r} : run'[q] = run[q],
           \A q \in Runs \ {r} : hist'[q].starts = hist[q].starts
    PROVE  \A q \in Runs \ {r} : KeepsView(q)
BY DEF Public, Planned, Started, KeepsView, KeepsPublic, KeepsPlanned, KeepsApproved, KeepsStarted

\* Every step of an execution is allowed by the contract.
LEMMA ExecutorKeepsContract ==
    ASSUME RuntimeInv, NEW j \in ExecJobs, Executor(j) \/ ToolThread(j)
    PROVE  ContractMove(RunOf(j)) /\ \A q \in Runs \ {RunOf(j)} : KeepsView(q)
<1> DEFINE r == RunOf(j)
<1>a. /\ StartInv /\ TypeOK /\ ApprovedForGood
      /\ run \in [Runs -> RunRow] /\ run[r] \in RunRow /\ r \in Runs /\ j \in Tasks
  BY TaskShape DEF RuntimeInv, StartInv, TypeOK
<1>b. /\ run[r].approved \in BOOLEAN /\ run[r].status \in RunStatus /\ run[r].stage \in RunStage
      /\ \A s \in RunStatus : s \in {"absent"} \/ PublicView(s) # "absent"
  BY <1>a, PublicViews DEF RunRow
<1>c. ASSUME hist' = hist, \A q \in Runs \ {r} : run'[q] = run[q],
             run'[r].status = run[r].status, run'[r].approved = run[r].approved,
             run'[r].plan = "null" <=> run[r].plan = "null"
      PROVE  ContractMove(r) /\ \A q \in Runs \ {r} : KeepsView(q)
  <2>1. KeepsView(r)
    BY <1>c DEF KeepsView, Public, Planned, Started, KeepsPublic, KeepsPlanned, KeepsApproved, KeepsStarted
  <2>2. QED
    BY <1>a, <1>c, <2>1, OthersKeepView DEF ContractMove
<1>d. ASSUME hist' = hist, run' = run
      PROVE  ContractMove(r) /\ \A q \in Runs \ {r} : KeepsView(q)
  BY <1>c, <1>d
<1>1. ASSUME ExecBegin(j) \/ ExecBeginRaises(j)
      PROVE  ContractMove(r) /\ \A q \in Runs \ {r} : KeepsView(q)
  <2>1. /\ run[r].status = "queued" /\ run[r].approved /\ run[r].plan # "null"
        /\ ~Started(r) /\ hist[r].starts \in Nat
    BY <1>a, <1>1 DEF ExecBegin, ExecBeginRaises, Executable, StartInv, ApprovedRunHasPlan, StartedLeavesQueued, Started, TypeOK
  <2>2. /\ StartRun(run[r]) \in RunRow /\ StartRun(run[r]).status = "running"
        /\ StartRun(run[r]).plan = run[r].plan /\ StartRun(run[r]).approved = run[r].approved
    BY <1>a, <2>1, StartRunRow
  <2>3. /\ run'[r].status \in {"running", "failed"}
        /\ run'[r].plan = run[r].plan /\ run'[r].approved = run[r].approved
    <3>1. CASE ExecBegin(j)
      BY <1>a, <2>2, <3>1 DEF ExecBegin
    <3>2. CASE ExecBeginRaises(j)
      <4>1. "failed" \in RunStatus /\ "retrieve_context" \in RunStage
        BY DEF RunStatus, RunStage
      <4>2. run'[r] = UpdateStatus(StartRun(run[r]), "failed", "retrieve_context")
        BY <1>a, <3>2 DEF ExecBeginRaises
      <4>3. QED
        BY <2>2, <4>1, <4>2, UpdateStatusRow
    <3>3. QED
      BY <1>1, <3>1, <3>2
  <2>4. hist' = CountStart(r) /\ \A q \in Runs \ {r} : run'[q] = run[q]
    BY <1>a, <1>1 DEF ExecBegin, ExecBeginRaises
  <2>5. Started(r)' /\ \A q \in Runs \ {r} : hist'[q].starts = hist[q].starts
    BY <1>a, <2>1, <2>4, CountStartType DEF Started
  <2>6. Starts(r)
    BY <2>1, <2>3, <2>5, PublicViews DEF Starts, Public, Planned, KeepsPlanned, KeepsApproved
  <2>7. QED
    BY <1>a, <2>4, <2>5, <2>6, OthersKeepView DEF ContractMove
<1>2. ASSUME ExecSkip(j) \/ PlanStart(j) \/ ToolsReturn(j)
      PROVE  ContractMove(r) /\ \A q \in Runs \ {r} : KeepsView(q)
  BY <1>2, <1>d DEF ExecSkip, PlanStart, ToolsReturn
<1>3. ASSUME DirectDone(j)
      PROVE  ContractMove(r) /\ \A q \in Runs \ {r} : KeepsView(q)
  <2>1. run'[r] = run[r] \/ run'[r] = SaveArtifacts(run[r], "execution")
    BY <1>a, <1>3 DEF DirectDone
  <2>2. hist' = hist /\ \A q \in Runs \ {r} : run'[q] = run[q]
    BY <1>a, <1>3 DEF DirectDone
  <2>3. QED
    BY <1>a, <1>c, <2>1, <2>2, SaveArtifactsRow DEF RunStage
<1>4. ASSUME StageDone(j)
      PROVE  ContractMove(r) /\ \A q \in Runs \ {r} : KeepsView(q)
  <2>1. \/ run'[r] = SaveArtifacts(run[r], "execution")
        \/ run'[r] = UpdatePlan(run[r], "replanning", "internal_replanning")
    BY <1>a, <1>4 DEF StageDone
  <2>2. hist' = hist /\ \A q \in Runs \ {r} : run'[q] = run[q]
    BY <1>a, <1>4 DEF StageDone
  <2>3. run[r].plan # "null"
    <3>1. hist[r].starts > 0
      BY <1>a, <1>4 DEF StageDone, ApprovedForGood, Executing
    <3>2. QED
      BY <1>a, <3>1 DEF StartInv, StartedLeavesQueued, ApprovedRunHasPlan
  <2>4. /\ "execution" \in RunStage /\ "internal_replanning" \in RunStage
        /\ "replanning" \in PlanText /\ "replanning" # "null"
    BY DEF RunStage, PlanText
  <2>5. /\ run'[r].status = run[r].status /\ run'[r].approved = run[r].approved
        /\ run'[r].plan # "null"
    BY <1>a, <2>1, <2>3, <2>4, SaveArtifactsRow, UpdatePlanRow
  <2>6. QED
    BY <1>a, <1>c, <2>2, <2>3, <2>5
<1>5. ASSUME ExecRaises(j)
      PROVE  ContractMove(r) /\ \A q \in Runs \ {r} : KeepsView(q)
  <2>1. run' = [run EXCEPT ![r] = UpdateStatus(@, "failed", run[r].stage)] /\ hist' = hist
    BY <1>5 DEF ExecRaises, ExecutionFailed
  <2>2. run[r].status # "absent"
    BY <1>a, <1>5 DEF ExecRaises, StartInv, WorkNamesKnownRuns, KnownRun
  <2>3. Public(r) # "absent" /\ "failed" \in RunStatus
    BY <1>b, <2>2 DEF Public, RunStatus
  <2>4. QED
    BY <1>a, <1>b, <2>1, <2>3, StatusWrite, PublicViews DEF ContractMove, Fails
<1>6. ASSUME ExecCompletes(j)
      PROVE  ContractMove(r) /\ \A q \in Runs \ {r} : KeepsView(q)
  <2>1. run' = [run EXCEPT ![r] = UpdateStatus(@, "completed", "completed")] /\ hist' = hist
    BY <1>6 DEF ExecCompletes
  <2>2. Started(r) /\ run[r].status # "absent"
    BY <1>a, <1>6 DEF ExecCompletes, ApprovedForGood, Executing, Started, StartInv, WorkNamesKnownRuns, KnownRun
  <2>3. run[r].status \notin {"queued", "awaiting_confirmation", "cancelled"}
    BY <1>a, <2>2 DEF Started, StartInv, StartedLeavesQueued, ApprovedForGood
  <2>4. Public(r) \in {"working", "failed", "completed"}
    BY <1>b, <2>2, <2>3, PublicViews DEF Public, RunStatus
  <2>5. "completed" \in RunStatus /\ "completed" \in RunStage
    BY DEF RunStatus, RunStage
  <2>6. /\ Public(r)' = "completed"
        /\ KeepsPlanned(r) /\ KeepsApproved(r) /\ KeepsStarted(r)
        /\ \A q \in Runs \ {r} : KeepsView(q)
    BY <1>a, <2>1, <2>5, StatusWrite, PublicViews
  <2>7. KeepsView(r) \/ Completes(r)
    BY <2>2, <2>4, <2>6 DEF KeepsView, KeepsPublic, Completes
  <2>8. QED
    BY <2>6, <2>7 DEF ContractMove
<1>7. ASSUME ToolEnter(j) \/ ToolLeave(j)
      PROVE  ContractMove(r) /\ \A q \in Runs \ {r} : KeepsView(q)
  <2>1. hist' = hist
    BY <1>7 DEF ToolEnter, ToolLeave
  <2>2. CASE run' = run
    BY <1>d, <2>1, <2>2
  <2>3. CASE run' # run
    <3>1. \/ /\ run[r].status = "running" /\ run' = [run EXCEPT ![r] = UpdateStatus(@, "waiting_tool", "tool")]
          \/ /\ run[r].status = "waiting_tool" /\ run' = [run EXCEPT ![r] = UpdateStatus(@, "running", "retrieve_context")]
      BY <1>a, <1>7, <2>3 DEF ToolEnter, ToolLeave, EnterTool, LeaveTool, TryUpdateStatus
    <3>2. /\ "waiting_tool" \in RunStatus /\ "running" \in RunStatus
          /\ "tool" \in RunStage /\ "retrieve_context" \in RunStage
      BY DEF RunStatus, RunStage
    <3>3. /\ Public(r)' = "working" /\ Public(r) = "working"
          /\ KeepsPlanned(r) /\ KeepsApproved(r) /\ KeepsStarted(r)
          /\ \A q \in Runs \ {r} : KeepsView(q)
      BY <1>a, <2>1, <3>1, <3>2, StatusWrite, PublicViews DEF Public
    <3>4. QED
      BY <3>3 DEF KeepsView, KeepsPublic, ContractMove
  <2>4. QED
    BY <2>2, <2>3
<1>8. QED
  BY <1>1, <1>2, <1>3, <1>4, <1>5, <1>6, <1>7 DEF Executor, ToolThread

\* Every step of the runtime is a step of the contract, or leaves its state alone.
LEMMA ContractStep ==
    ASSUME RuntimeInv, RuntimeInv', [Next]_vars
    PROVE  [Contract!Next]_(Contract!contractVars)
<1>a. /\ StartInv /\ TypeOK /\ TypeOK' /\ ApprovedForGood /\ RevisedRow /\ AbsentRowsAreEmpty
      /\ run \in [Runs -> RunRow]
      /\ \A r \in Runs : run[r] \in RunRow
      /\ \A r \in Runs : /\ run[r].status \in RunStatus /\ run[r].stage \in RunStage
                         /\ run[r].approved \in BOOLEAN
  BY DEF RuntimeInv, StartInv, TypeOK, RunRow
<1>b. ASSUME NEW r \in Runs, ContractMove(r), \A q \in Runs \ {r} : KeepsView(q)
      PROVE  [Contract!Next]_(Contract!contractVars)
  BY <1>a, <1>b, MoveIsContractStep
<1>c. ASSUME run' = run, hist' = hist PROVE [Contract!Next]_(Contract!contractVars)
  BY <1>c DEF Contract!contractVars
<1>d. ASSUME NEW r \in Runs, KeepsView(r), \A q \in Runs \ {r} : KeepsView(q)
      PROVE  [Contract!Next]_(Contract!contractVars)
  BY <1>b, <1>d DEF ContractMove
<1>1. ASSUME NEW r \in Runs, Submit(r) PROVE [Contract!Next]_(Contract!contractVars)
  <2>1. PICK s \in {"awaiting_confirmation", "queued"} : run' = [run EXCEPT ![r] = Create(s)]
    BY <1>1 DEF Submit
  <2>2. run'[r].status = s /\ run'[r].plan = "null" /\ run'[r].approved = FALSE
    BY <1>a, <2>1, CreateRow DEF RunStatus
  <2>3. run[r].status = "absent" /\ run[r].plan = "null" /\ run[r].approved = FALSE /\ hist' = hist
    BY <1>a, <1>1 DEF Submit, AbsentRowsAreEmpty, StartInv, ApprovedRunHasPlan, KnownRun
  <2>4. Accepts(r)
    BY <2>2, <2>3, PublicViews DEF Accepts, Public, Planned, Started, KeepsPlanned, KeepsApproved, KeepsStarted
  <2>5. QED
    BY <1>a, <1>b, <2>1, <2>3, <2>4, OthersKeepView DEF ContractMove
<1>2. ASSUME NEW r \in Runs, ApproveRun(r) PROVE [Contract!Next]_(Contract!contractVars)
  <2>1. /\ Approvable(run[r]) /\ run[r].plan # "null"
        /\ run' = [run EXCEPT ![r] = Approve(@)]
        /\ \A q \in Runs : hist'[q].starts = hist[q].starts
    BY <1>a, <1>2 DEF ApproveRun, MayApprove, Approvable, TypeOK
  <2>2. QED
    BY <1>a, <1>b, <2>1, ApprovalWrite DEF ContractMove
<1>3. ASSUME NEW r \in Runs, CancelRun(r) PROVE [Contract!Next]_(Contract!contractVars)
  <2>1. /\ run[r].status = "awaiting_confirmation" /\ hist' = hist
        /\ run' = [run EXCEPT ![r] = UpdateStatus(@, "cancelled", run[r].stage)]
    BY <1>a, <1>3 DEF CancelRun, TryUpdateStatus
  <2>2. Public(r) = "awaiting" /\ ~run[r].approved /\ "cancelled" \in RunStatus
    BY <1>a, <2>1, PublicViews DEF Public, ApprovedForGood, RunStatus
  <2>3. Cancels(r) /\ \A q \in Runs \ {r} : KeepsView(q)
    BY <1>a, <2>1, <2>2, StatusWrite, PublicViews DEF Cancels
  <2>4. QED
    BY <1>b, <2>3 DEF ContractMove
<1>4. ASSUME ReviseSucceeds PROVE [Contract!Next]_(Contract!contractVars)
  <2>0. PICK r \in Runs : r = handler.run
    BY <1>a, <1>4 DEF ReviseSucceeds, TypeOK
  <2>1. /\ Planned(r) /\ hist' = hist
        /\ run' = [run EXCEPT ![r] = UpdatePlan(@, "revision", "awaiting_user_confirmation")]
    BY <1>a, <1>4, <2>0 DEF ReviseSucceeds, RevisedRow, UnderRevision, Planned
  <2>2. "revision" \in PlanText \ {"null"} /\ "awaiting_user_confirmation" \in RunStage
    BY DEF PlanText, RunStage
  <2>3. /\ KeepsPublic(r) /\ Planned(r)' /\ KeepsApproved(r) /\ KeepsStarted(r)
        /\ \A q \in Runs \ {r} : KeepsView(q)
    BY <1>a, <2>1, <2>2, PlanWrite
  <2>4. QED
    BY <1>d, <2>1, <2>3 DEF KeepsView, KeepsPlanned
<1>5. ASSUME ReviseFails PROVE [Contract!Next]_(Contract!contractVars)
  <2>0. PICK r \in Runs : r = handler.run
    BY <1>a, <1>5 DEF ReviseFails, TypeOK
  <2>1. /\ hist' = hist /\ handler.stage \in RunStage
        /\ run' = [run EXCEPT ![r] = UpdateStatus(@, "awaiting_confirmation", handler.stage)]
    BY <1>a, <1>5, <2>0 DEF ReviseFails, TypeOK, StartInv, RevisionRestoresAwaiting
  <2>2. Planned(r) /\ ~run[r].approved /\ run[r].status \in {"awaiting_confirmation", "failed"}
    BY <1>a, <1>5, <2>0 DEF ReviseFails, RevisedRow, UnderRevision, Planned
  <2>3. Public(r) \in {"awaiting", "failed"} /\ "awaiting_confirmation" \in RunStatus
    BY <2>2, PublicViews DEF Public, RunStatus
  <2>4. /\ Public(r)' = "awaiting"
        /\ KeepsPlanned(r) /\ KeepsApproved(r) /\ KeepsStarted(r)
        /\ \A q \in Runs \ {r} : KeepsView(q)
    BY <1>a, <2>1, <2>3, StatusWrite, PublicViews
  <2>5. KeepsView(r) \/ Reopens(r)
    BY <2>2, <2>3, <2>4 DEF KeepsView, KeepsPublic, Reopens
  <2>6. QED
    BY <1>b, <2>1, <2>4, <2>5 DEF ContractMove
<1>6. ASSUME NEW t \in Planners, DraftFails(t) PROVE [Contract!Next]_(Contract!contractVars)
  <2> DEFINE r == RunOf(t)
  <2>1. /\ r \in Runs /\ hist' = hist
        /\ run' = [run EXCEPT ![r] = UpdateStatus(@, "failed", "planning")]
    BY <1>6, TaskShape DEF DraftFails, PlanningFailed
  <2>2. run[r].status # "absent"
    BY <1>a, <1>6, TaskShape DEF DraftFails, StartInv, WorkNamesKnownRuns, KnownRun
  <2>3. Public(r) # "absent" /\ "failed" \in RunStatus /\ "planning" \in RunStage
    BY <1>a, <2>1, <2>2, PublicViews DEF Public, RunStatus, RunStage
  <2>4. Fails(r) /\ \A q \in Runs \ {r} : KeepsView(q)
    BY <1>a, <2>1, <2>3, StatusWrite, PublicViews DEF Fails
  <2>5. QED
    BY <1>b, <2>1, <2>4 DEF ContractMove
<1>7. ASSUME NEW t \in Planners, DraftSucceeds(t) PROVE [Contract!Next]_(Contract!contractVars)
  <2> DEFINE r == RunOf(t)
  <2>1. r \in Runs /\ hist' = hist
    BY <1>7, TaskShape DEF DraftSucceeds
  <2>2. PICK p \in PlanText \ {"null"}, g \in RunStage : run' = [run EXCEPT ![r] = UpdatePlan(@, p, g)]
    BY <1>7 DEF DraftSucceeds, Author, PlanText, RunStage
  <2>3. Public(r) # "absent"
    BY <1>a, <1>7, <2>1, TaskShape, PublicViews DEF DraftSucceeds, StartInv, WorkNamesKnownRuns, KnownRun, Public
  <2>4. /\ KeepsPublic(r) /\ Planned(r)' /\ KeepsApproved(r) /\ KeepsStarted(r)
        /\ \A q \in Runs \ {r} : KeepsView(q)
    BY <1>a, <2>1, <2>2, PlanWrite
  <2>5. KeepsView(r) \/ Plans(r)
    BY <2>3, <2>4 DEF KeepsView, KeepsPlanned, Plans
  <2>6. QED
    BY <1>b, <2>1, <2>4, <2>5 DEF ContractMove
<1>8. ASSUME NEW t \in Planners, AutoApprove(t) PROVE [Contract!Next]_(Contract!contractVars)
  <2> DEFINE r == RunOf(t)
  <2>1. /\ r \in Runs /\ \A q \in Runs : hist'[q].starts = hist[q].starts
        /\ run' = [run EXCEPT ![r] = Approve(@)]
    BY <1>a, <1>8, TaskShape DEF AutoApprove, TypeOK
  <2>2. CASE Approvable(run[r])
    <3>1. run[r].plan # "null"
      BY <1>a, <1>8 DEF AutoApprove, StartInv, PlannedBeforeAutoApproval
    <3>2. QED
      BY <1>a, <1>b, <2>1, <2>2, <3>1, ApprovalWrite DEF ContractMove
  <2>3. CASE ~Approvable(run[r])
    <3>1. \A q \in Runs : run'[q] = run[q]
      BY <1>a, <2>1, <2>3 DEF Approve
    <3>2. KeepsView(r) /\ \A q \in Runs \ {r} : KeepsView(q)
      BY <2>1, <3>1 DEF Public, Planned, Started, KeepsView, KeepsPublic, KeepsPlanned, KeepsApproved, KeepsStarted
    <3>3. QED
      BY <1>d, <2>1, <3>2
  <2>4. QED
    BY <2>2, <2>3
<1>9. ASSUME NEW j \in JobIds, InterruptRun(j) PROVE [Contract!Next]_(Contract!contractVars)
  <2> DEFINE r == RunOf(j)
  <2>1. r \in Runs /\ hist' = hist
    BY <1>9, TaskShape DEF InterruptRun
  <2>2. CASE run[r].status \in TerminalStatuses
    <3>1. run' = run
      BY <1>a, <1>9, <2>2 DEF InterruptRun, Interrupted
    <3>2. QED
      BY <1>c, <2>1, <3>1
  <2>3. CASE run[r].status \notin TerminalStatuses
    <3>1. run' = [run EXCEPT ![r] = UpdateStatus(@, "failed", run[r].stage)]
      BY <1>9, <2>3 DEF InterruptRun, Interrupted
    <3>2. run[r].status # "absent"
      BY <1>a, <1>9, TaskShape DEF InterruptRun, StartInv, WorkNamesKnownRuns, KnownRun
    <3>3. Public(r) # "absent" /\ "failed" \in RunStatus
      BY <1>a, <2>1, <3>2, PublicViews DEF Public, RunStatus
    <3>4. Fails(r) /\ \A q \in Runs \ {r} : KeepsView(q)
      BY <1>a, <2>1, <3>1, <3>3, StatusWrite, PublicViews DEF Fails
    <3>5. QED
      BY <1>b, <2>1, <3>4 DEF ContractMove
  <2>4. QED
    BY <2>2, <2>3
<1>10. ASSUME NEW j \in ExecJobs, Executor(j) \/ ToolThread(j) PROVE [Contract!Next]_(Contract!contractVars)
  BY <1>b, <1>10, ExecutorKeepsContract, TaskShape
<1>11. ASSUME NEW r \in Runs, ReviseBegin(r) PROVE run' = run /\ hist' = hist
  BY <1>11 DEF ReviseBegin
<1>12. ASSUME SubmitDispatch \/ AcknowledgementSent \/ AcknowledgementLost \/ ApproveDispatch PROVE run' = run /\ hist' = hist
  BY <1>12 DEF SubmitDispatch, AcknowledgementSent, AcknowledgementLost, ApproveDispatch
<1>13. ASSUME NEW t \in Planners, PlanBegin(t) \/ AutoDispatch(t) PROVE run' = run /\ hist' = hist
  BY <1>13 DEF PlanBegin, AutoDispatch
<1>14. ASSUME NEW j \in JobIds,
              ClaimJob(j) \/ CompleteJob(j) \/ FailJob(j) \/ TaskDone(j) \/ DropSpawned(j) \/ Interrupt(j)
       PROVE  run' = run /\ hist' = hist
  BY <1>14 DEF ClaimJob, CompleteJob, FailJob, TaskDone, DropSpawned, Interrupt
<1>15. ASSUME Consume \/ Stop \/ Restart \/ UNCHANGED vars PROVE run' = run /\ hist' = hist
  BY <1>15 DEF Consume, Stop, Restart, vars
<1>16. QED
  BY <1>c, <1>1, <1>2, <1>3, <1>4, <1>5, <1>6, <1>7, <1>8, <1>9, <1>10, <1>11, <1>12, <1>13, <1>14, <1>15
     DEF Next, User, Handler, Planner, Worker

\* The runtime implements the contract with its users: for any number of runs,
\* jobs, tools, stages and restarts, what a user can ask about a run moves only as
\* RunContract allows.
THEOREM RuntimeImplementsContract == Spec => ImplementsContract
<1>1. Init => Contract!Init
  <2> SUFFICES ASSUME Init PROVE Contract!Init
    OBVIOUS
  <2>1. \A r \in Runs : /\ run[r].status = "absent" /\ run[r].plan = "null" /\ run[r].approved = FALSE
                        /\ hist[r].starts = 0
    BY DEF Init, NoRow
  <2>2. [r \in Runs |-> hist[r].starts > 0] = [r \in Runs |-> FALSE]
    <3>1. \A r \in Runs : (hist[r].starts > 0) = FALSE
      BY <2>1
    <3>2. QED
      BY <3>1, Zenon
  <2>3. [r \in Runs |-> run[r].plan # "null"] = [r \in Runs |-> FALSE]
    BY <2>1
  <2>4. QED
    BY <2>1, <2>2, <2>3, PublicViews DEF Contract!Init
<1>2. RuntimeInv /\ RuntimeInv' /\ [Next]_vars => [Contract!Next]_(Contract!contractVars)
  BY ContractStep
<1>3. QED
  BY <1>1, <1>2, RuntimeInvariant, PTL DEF Spec, ImplementsContract, Contract!Spec

-----------------------------------------------------------------------------
(* Nothing that waits for the system is left behind.                       *)

\* Plan jobs and execution jobs go through steps of their own.
KindsApart ==
    /\ \A t \in Planners : pc[t] \notin Executing
    /\ \A j \in ExecJobs : pc[j] \notin {"drafting", "approving", "dispatching"}

\* At most one task is between two of its writes.
OneTaskMidSegment ==
    \A t, u \in Tasks : pc[t] \in MidSegment /\ pc[u] \in MidSegment => t = u

\* A deployment either asks for a confirmation of every run or of none.
ConfirmationKept ==
    IF RequireConfirmation
    THEN \A r \in Runs : run[r].status = "queued" => run[r].approved
    ELSE /\ \A r \in Runs : run[r].status # "awaiting_confirmation"
         /\ \A t \in Planners : seen[t] # "awaiting_confirmation"
         /\ handler.pc # "revising"

\* The run waits for a plan, or for the automatic approval of its plan.
Unplanned(r) ==
    \/ run[r].status = "awaiting_confirmation" /\ run[r].plan = "null"
    \/ run[r].status = "queued" /\ ~run[r].approved

PlansAtWork(p) == job[p] = "queued" \/ pc[p] \in {"claimed", "drafting", "approving"}

PlanJobAtWork ==
    restarts = 0 /\ ~stopping => \A r \in Runs : Unplanned(r) =>
        \/ handler.pc = "submitting" /\ handler.run = r
        \/ \E p \in PlanJobs : RunOf(p) = r /\ PlansAtWork(p)

\* Somebody is about to execute an approved run, or to dispatch its execution.
ExecutionAhead(r) ==
    \/ UnderApproval(r)
    \/ \E t \in Planners : RunOf(t) = r /\ pc[t] = "dispatching"
    \/ \E j \in ExecJobs : RunOf(j) = r /\ (job[j] = "queued" \/ pc[j] = "claimed")

InExecution(r) == \E j \in ExecJobs : RunOf(j) = r /\ pc[j] \in Executing

ExecJobAtWork ==
    restarts = 0 /\ ~stopping => \A r \in Runs :
        /\ run[r].status = "queued" /\ run[r].approved => ExecutionAhead(r)
        /\ run[r].status \in {"running", "waiting_tool"} => InExecution(r)

AttendedInv ==
    /\ RuntimeInv
    /\ KindsApart
    /\ OneTaskMidSegment
    /\ ConfirmationKept
    /\ WaitingToolHasThread
    /\ PlanJobAtWork
    /\ ExecJobAtWork

\* How an execution writes the status of its run.
LEMMA ExecutorStatus ==
    ASSUME RuntimeInv, NEW j \in ExecJobs, Executor(j) \/ ToolThread(j)
    PROVE  \/ run'[RunOf(j)].status = run[RunOf(j)].status /\ ~ExecBegin(j)
           \/ /\ ExecBegin(j) /\ pc'[j] = "tools"
              /\ run[RunOf(j)].status = "queued" /\ run'[RunOf(j)].status = "running"
           \/ run'[RunOf(j)].status \in {"failed", "completed"} /\ ~ExecBegin(j)
           \/ /\ ToolEnter(j) /\ ~ExecBegin(j)
              /\ run[RunOf(j)].status = "running" /\ run'[RunOf(j)].status = "waiting_tool"
           \/ /\ ToolLeave(j) /\ ~ExecBegin(j)
              /\ run[RunOf(j)].status = "waiting_tool" /\ run'[RunOf(j)].status = "running"
<1> DEFINE r == RunOf(j)
<1>a. /\ TypeOK /\ run \in [Runs -> RunRow] /\ pc \in [Tasks -> PC]
      /\ run[r] \in RunRow /\ run[r].stage \in RunStage /\ r \in Runs /\ j \in Tasks
      /\ tool \in [ExecJobs -> {"none", "between", "invoking", "returned"}]
  BY TaskShape DEF RuntimeInv, StartInv, TypeOK, RunRow
<1>b. /\ \A s \in RunStatus, g \in RunStage : UpdateStatus(run[r], s, g).status = s
      /\ \A g \in RunStage : SaveArtifacts(run[r], g).status = run[r].status
      /\ \A p \in PlanText, g \in RunStage : UpdatePlan(run[r], p, g).status = run[r].status
  BY <1>a, UpdateStatusRow, SaveArtifactsRow, UpdatePlanRow
<1>c. /\ {"failed", "completed", "running", "waiting_tool"} \subseteq RunStatus
      /\ {"completed", "tool", "retrieve_context", "execution", "internal_replanning"} \subseteq RunStage
      /\ "replanning" \in PlanText
  BY DEF RunStatus, RunStage, PlanText
<1>1. CASE ExecBegin(j)
  <2>1. run[r].status = "queued" /\ run'[r] = StartRun(run[r]) /\ pc'[j] = "tools"
    BY <1>a, <1>1 DEF ExecBegin, Executable
  <2>2. QED
    BY <1>a, <1>1, <2>1, StartRunRow
<1>2. CASE ExecBeginRaises(j)
  <2>1. PICK row \in RunRow : row = StartRun(run[r])
    BY <1>a, StartRunRow
  <2>2. run'[r] = UpdateStatus(row, "failed", "retrieve_context") /\ pc'[j] = "failing"
    BY <1>a, <1>2, <2>1 DEF ExecBeginRaises
  <2>3. "failed" \in RunStatus /\ "retrieve_context" \in RunStage
    BY <1>c
  <2>4. run'[r].status = "failed"
    BY ONLY <2>2, <2>3, UpdateStatusRow
  <2>5. QED
    BY <1>a, <2>2, <2>4 DEF ExecBegin
<1>3. CASE ExecSkip(j)
  BY <1>a, <1>3 DEF ExecSkip, ExecBegin
<1>4. CASE PlanStart(j)
  BY <1>a, <1>4 DEF PlanStart, ExecBegin, MayEnter
<1>5. CASE DirectDone(j)
  BY <1>a, <1>b, <1>c, <1>5 DEF DirectDone, ExecBegin, MayEnter
<1>6. CASE StageDone(j)
  BY <1>a, <1>b, <1>c, <1>6 DEF StageDone, ExecBegin, MayEnter
<1>7. CASE ExecRaises(j)
  BY <1>a, <1>b, <1>c, <1>7 DEF ExecRaises, ExecutionFailed, ExecBegin, MayEnter
<1>8. CASE ExecCompletes(j)
  BY <1>a, <1>b, <1>c, <1>8 DEF ExecCompletes, ExecBegin, MayEnter
<1>9. CASE ToolEnter(j)
  <2>1. tool'[j] = "invoking"
    BY <1>a, <1>9 DEF ToolEnter
  <2>2. ~ExecBegin(j)
    BY <1>a, <2>1 DEF ExecBegin
  <2>3. QED
    BY <1>a, <1>b, <1>c, <1>9, <2>2 DEF ToolEnter, EnterTool, TryUpdateStatus
<1>10. CASE ToolLeave(j)
  <2>1. pc' = pc
    BY <1>10 DEF ToolLeave
  <2>2. ~ExecBegin(j)
    BY <1>a, <2>1 DEF ExecBegin, MayEnter
  <2>3. QED
    BY <1>a, <1>b, <1>c, <1>10, <2>2 DEF ToolLeave, LeaveTool, TryUpdateStatus
<1>11. CASE ToolsReturn(j)
  BY <1>a, <1>11 DEF ToolsReturn, ExecBegin
<1>12. QED
  BY <1>1, <1>2, <1>3, <1>4, <1>5, <1>6, <1>7, <1>8, <1>9, <1>10, <1>11 DEF Executor, ToolThread

\* A tool thread inside an invocation ends it by leaving it.
LEMMA InvocationGoesOn ==
    ASSUME RuntimeInv, [Next]_vars, NEW j \in ExecJobs, tool[j] = "invoking"
    PROVE  tool'[j] = "invoking" \/ ToolLeave(j) \/ ExecBegin(j) \/ Restart
<1>a. tool \in [ExecJobs -> {"none", "between", "invoking", "returned"}]
  BY DEF RuntimeInv, StartInv, TypeOK
<1>1. ASSUME NEW k \in ExecJobs, Executor(k) \/ ToolThread(k)
      PROVE  tool'[j] = "invoking" \/ ToolLeave(j) \/ ExecBegin(j)
  <2>1. CASE k # j
    BY <1>a, <1>1, <2>1 DEF Executor, ToolThread, ExecBegin, ExecBeginRaises, ExecSkip, PlanStart, DirectDone,
                            StageDone, ExecRaises, ExecCompletes, ToolEnter, ToolLeave, ToolsReturn
  <2>2. CASE k = j
    BY <1>a, <1>1, <2>2 DEF Executor, ToolThread, ExecBeginRaises, ExecSkip, PlanStart, DirectDone,
                            StageDone, ExecRaises, ExecCompletes, ToolEnter, ToolsReturn
  <2>3. QED
    BY <2>1, <2>2
<1>2. ASSUME User \/ Handler \/ Consume \/ Stop \/ UNCHANGED vars PROVE tool' = tool
  BY <1>2 DEF User, Submit, ApproveRun, CancelRun, ReviseBegin, Handler, SubmitDispatch, AcknowledgementSent,
              AcknowledgementLost, ApproveDispatch, ReviseSucceeds, ReviseFails, Consume, Stop, vars
<1>3. ASSUME NEW t \in Planners, Planner(t) PROVE tool' = tool
  BY <1>3 DEF Planner, PlanBegin, DraftFails, DraftSucceeds, AutoApprove, AutoDispatch
<1>4. ASSUME NEW k \in JobIds, Worker(k) PROVE tool' = tool
  BY <1>4 DEF Worker, ClaimJob, CompleteJob, FailJob, TaskDone, DropSpawned, Interrupt, InterruptRun
<1>5. QED
  BY <1>1, <1>2, <1>3, <1>4 DEF Next

\* waiting_tool is entered with a thread, and left before the thread goes on.
LEMMA WaitingToolStep == RuntimeInv /\ WaitingToolHasThread /\ [Next]_vars => WaitingToolHasThread'
<1> SUFFICES ASSUME RuntimeInv, WaitingToolHasThread, [Next]_vars,
                    restarts' = 0, NEW r \in Runs, run'[r].status = "waiting_tool"
             PROVE  \E j \in ExecJobs : RunOf(j) = r /\ tool'[j] = "invoking"
  BY DEF WaitingToolHasThread
<1>a. /\ StartInv /\ TypeOK /\ RowMoves(r)
      /\ restarts \in Nat /\ tool \in [ExecJobs -> {"none", "between", "invoking", "returned"}]
  BY RowStep DEF RuntimeInv, StartInv, TypeOK
<1>1. ~Restart /\ restarts = 0
  <2>1. Restart => restarts' # 0
    BY <1>a DEF Restart
  <2>2. QED
    BY <2>1, ProcessMoves
<1>2. CASE run[r].status = "waiting_tool"
  <2>1. PICK j \in ExecJobs : RunOf(j) = r /\ tool[j] = "invoking"
    BY <1>1, <1>2 DEF WaitingToolHasThread
  <2>2. ~ExecBegin(j)
    BY <1>2, <2>1 DEF ExecBegin, Executable
  <2>3. ~ToolLeave(j)
    <3>1. SUFFICES ASSUME ToolLeave(j) PROVE FALSE
      OBVIOUS
    <3>2. run'[r] = UpdateStatus(run[r], "running", "retrieve_context") /\ run[r] \in RunRow
      BY <1>a, <1>2, <2>1, <3>1 DEF ToolLeave, LeaveTool, TryUpdateStatus, TypeOK
    <3>3. QED
      BY <3>2, UpdateStatusRow DEF RunStatus, RunStage
  <2>4. QED
    BY <1>1, <2>1, <2>2, <2>3, InvocationGoesOn
<1>3. CASE run[r].status # "waiting_tool"
  <2>1. ~Submit(r)
    <3>1. Submit(r) => run'[r].status \in {"awaiting_confirmation", "queued"}
      BY <1>a, CreateRow DEF Submit, RunStatus, TypeOK
    <3>2. QED
      BY <3>1
  <2>2. PICK j \in ExecJobs : RunOf(j) = r /\ (Executor(j) \/ ToolThread(j))
    BY <1>a, <1>3, <2>1 DEF RowMoves
  <2>3. ToolEnter(j)
    BY <1>3, <2>2, ExecutorStatus
  <2>4. QED
    BY <1>a, <2>2, <2>3 DEF ToolEnter
<1>4. QED
  BY <1>2, <1>3

\* As long as a process lives, waiting_tool is never left behind by its thread.
THEOREM WaitingToolIsAttended == Spec => []WaitingToolHasThread
<1>1. Init => WaitingToolHasThread
  BY DEF Init, NoRow, WaitingToolHasThread
<1>2. QED
  BY <1>1, RuntimeInvariant, WaitingToolStep, PTL DEF Spec

\* Every step keeps the two kinds of work apart.
LEMMA KindsStep == RuntimeInv /\ KindsApart /\ [Next]_vars => KindsApart'
<1> SUFFICES ASSUME RuntimeInv, KindsApart, [Next]_vars PROVE KindsApart'
  OBVIOUS
<1>a. /\ StartInv /\ TypeOK /\ JobsInPlace /\ ApprovedForGood /\ pc \in [Tasks -> PC]
  BY DEF RuntimeInv, StartInv, TypeOK
<1>b. /\ \A t \in Planners : t \in Tasks /\ t \notin ExecJobs
      /\ \A j \in ExecJobs : j \in Tasks /\ j \in JobIds /\ j \notin Planners /\ j \notin PlanJobs /\ j \notin Continuations
      /\ \A r \in Runs : Continuation(r) \in Tasks /\ Continuation(r) \notin ExecJobs
  BY TaskKinds, TaskShape
<1> DEFINE Neutral == {"idle", "spawned", "claimed", "finishing", "completing", "failing", "failing_run"}
<1>c. ASSUME \A t \in Tasks : pc'[t] = pc[t] \/ pc'[t] \in Neutral PROVE KindsApart'
  BY <1>b, <1>c DEF KindsApart, Executing
<1>1. ASSUME User \/ SubmitDispatch \/ AcknowledgementLost \/ ApproveDispatch \/ ReviseSucceeds \/ ReviseFails \/ Stop \/ UNCHANGED vars
      PROVE  pc' = pc
  BY <1>1 DEF User, Submit, ApproveRun, CancelRun, ReviseBegin, SubmitDispatch, AcknowledgementLost,
              ApproveDispatch, ReviseSucceeds, ReviseFails, Stop, vars
<1>2. ASSUME AcknowledgementSent \/ Consume \/ Restart
      PROVE  \A t \in Tasks : pc'[t] = pc[t] \/ pc'[t] \in Neutral
  BY <1>a, <1>2 DEF AcknowledgementSent, Consume, Restart
<1>3. ASSUME NEW j \in JobIds, Worker(j)
      PROVE  \A t \in Tasks : pc'[t] = pc[t] \/ pc'[t] \in Neutral
  BY <1>a, <1>3 DEF Worker, ClaimJob, CompleteJob, FailJob, TaskDone, DropSpawned, Interrupt, InterruptRun
<1>4. ASSUME NEW t \in Planners, Planner(t) PROVE KindsApart'
  <2>1. /\ \A u \in Tasks \ {t} : pc'[u] = pc[u]
        /\ pc'[t] \in {"drafting", "approving", "dispatching"} \cup Neutral
    BY <1>a, <1>b, <1>4 DEF Planner, PlanBegin, DraftFails, DraftSucceeds, AutoApprove, AutoDispatch, AfterPlanning
  <2>2. QED
    BY <1>b, <2>1 DEF KindsApart, Executing
<1>5. ASSUME NEW j \in ExecJobs, Executor(j) \/ ToolThread(j) PROVE KindsApart'
  <2>1. /\ \A u \in Tasks \ {j} : pc'[u] = pc[u]
        /\ pc'[j] = pc[j] \/ pc'[j] \in Executing \cup Neutral
    BY <1>a, <1>5, ExecutorEffect
  <2>2. QED
    BY <1>b, <2>1 DEF KindsApart, Executing
<1>6. QED
  BY <1>c, <1>1, <1>2, <1>3, <1>4, <1>5 DEF Next, Handler

\* A task starts writing on a free loop only, and the loop is free again only
\* after its last write.
LEMMA MidSegmentStep == RuntimeInv /\ OneTaskMidSegment /\ [Next]_vars => OneTaskMidSegment'
<1> SUFFICES ASSUME RuntimeInv, OneTaskMidSegment, [Next]_vars PROVE OneTaskMidSegment'
  OBVIOUS
<1>a. StartInv /\ TypeOK /\ ApprovedForGood /\ pc \in [Tasks -> PC]
  BY DEF RuntimeInv, StartInv, TypeOK
<1>c. ASSUME NEW t \in Tasks, \A u \in Tasks \ {t} : pc'[u] = pc[u], LoopFree \/ pc[t] \in MidSegment
      PROVE  OneTaskMidSegment'
  BY <1>c DEF OneTaskMidSegment, LoopFree
<1>d. ASSUME \A t \in Tasks : pc'[t] = pc[t] \/ pc'[t] \notin MidSegment PROVE OneTaskMidSegment'
  BY <1>d DEF OneTaskMidSegment
<1>1. ASSUME User \/ SubmitDispatch \/ AcknowledgementLost \/ ApproveDispatch \/ ReviseSucceeds \/ ReviseFails \/ Stop \/ UNCHANGED vars
      PROVE  pc' = pc
  BY <1>1 DEF User, Submit, ApproveRun, CancelRun, ReviseBegin, SubmitDispatch, AcknowledgementLost,
              ApproveDispatch, ReviseSucceeds, ReviseFails, Stop, vars
<1>2. ASSUME AcknowledgementSent \/ Consume \/ Restart
      PROVE  \A t \in Tasks : pc'[t] = pc[t] \/ pc'[t] \notin MidSegment
  BY <1>a, <1>2 DEF AcknowledgementSent, Consume, Restart, MidSegment
<1>3. ASSUME NEW j \in JobIds, Worker(j) PROVE OneTaskMidSegment'
  <2>1. j \in Tasks /\ \A u \in Tasks \ {j} : pc'[u] = pc[u]
    BY <1>a, <1>3, TaskShape DEF Worker, ClaimJob, CompleteJob, FailJob, TaskDone, DropSpawned, Interrupt, InterruptRun
  <2>2. LoopFree \/ pc[j] \in MidSegment
    BY <1>3 DEF Worker, ClaimJob, CompleteJob, FailJob, TaskDone, DropSpawned, Interrupt, InterruptRun, MidSegment
  <2>3. QED
    BY <1>c, <2>1, <2>2
<1>4. ASSUME NEW t \in Planners, Planner(t) PROVE OneTaskMidSegment'
  <2>1. t \in Tasks /\ \A u \in Tasks \ {t} : pc'[u] = pc[u]
    BY <1>a, <1>4, TaskShape DEF Planner, PlanBegin, DraftFails, DraftSucceeds, AutoApprove, AutoDispatch
  <2>2. LoopFree \/ pc[t] \in MidSegment
    BY <1>4 DEF Planner, PlanBegin, MayEnter, DraftFails, DraftSucceeds, Resumable, AutoApprove, AutoDispatch, MidSegment
  <2>3. QED
    BY <1>c, <2>1, <2>2
<1>5. ASSUME NEW j \in ExecJobs, Executor(j) \/ ToolThread(j) PROVE OneTaskMidSegment'
  <2>1. j \in Tasks /\ (\A u \in Tasks \ {j} : pc'[u] = pc[u]) /\ (pc'[j] = pc[j] \/ LoopFree)
    BY <1>a, <1>5, ExecutorEffect, TaskShape
  <2>2. QED
    BY <1>c, <1>d, <2>1
<1>6. QED
  BY <1>c, <1>d, <1>1, <1>2, <1>3, <1>4, <1>5 DEF Next, Handler

\* The deployment's choice is kept by every step.
LEMMA ConfirmationStep == RuntimeInv /\ ConfirmationKept /\ [Next]_vars => ConfirmationKept'
<1> SUFFICES ASSUME RuntimeInv, ConfirmationKept, [Next]_vars PROVE ConfirmationKept'
  OBVIOUS
<1>a. StartInv /\ TypeOK /\ run \in [Runs -> RunRow] /\ RevisedRow
  BY DEF RuntimeInv, StartInv, TypeOK
<1>b. \A r \in Runs : RowMoves(r)
  BY RowStep
<1>c. ASSUME NEW r \in Runs, Submit(r)
      PROVE  run'[r].status = IF RequireConfirmation THEN "awaiting_confirmation" ELSE "queued"
  BY <1>a, <1>c, CreateRow DEF Submit, RunStatus
<1>1. CASE RequireConfirmation
  <2>1. ASSUME NEW r \in Runs, run'[r].status = "queued" PROVE run'[r].approved
    BY <1>1, <1>b, <1>c, <2>1 DEF RowMoves, ConfirmationKept
  <2>2. QED
    BY <1>1, <2>1 DEF ConfirmationKept
<1>2. CASE ~RequireConfirmation
  <2>a. /\ \A r \in Runs : run[r].status # "awaiting_confirmation"
        /\ \A t \in Planners : seen[t] # "awaiting_confirmation"
        /\ handler.pc # "revising"
    BY <1>2 DEF ConfirmationKept
  <2>1. ASSUME NEW r \in Runs PROVE run'[r].status # "awaiting_confirmation"
    BY <1>2, <1>b, <1>c, <2>a DEF RowMoves, ReviseFails
  <2>2. handler'.pc # "revising"
    <3>1. SUFFICES ASSUME handler'.pc = "revising" PROVE FALSE
      OBVIOUS
    <3>2. handler'.run \in Runs
      <4>1. TypeOK'
        BY <1>a, TypeStep
      <4>2. QED
        BY <3>1, <4>1 DEF TypeOK
    <3>3. PICK r \in Runs : r = handler'.run
      BY <3>2
    <3>4. UnderRevision(r)'
      BY <3>1, <3>3 DEF UnderRevision
    <3>5. ReviseBegin(r)
      BY <2>a, <3>4, HandlerMoves DEF UnderRevision
    <3>6. QED
      BY <2>a, <3>5 DEF ReviseBegin, Revisable
  <2>3. ASSUME NEW t \in Planners PROVE seen'[t] # "awaiting_confirmation"
    <3>1. seen \in [Planners -> RunStatus]
      BY <1>a DEF TypeOK
    <3>2. ASSUME NEW u \in Planners, Planner(u) PROVE seen'[t] \in {seen[t], run[RunOf(t)].status}
      BY <3>1, <3>2 DEF Planner, PlanBegin, DraftFails, DraftSucceeds, AutoApprove, AutoDispatch
    <3>3. ASSUME NEW j \in JobIds, Worker(j) PROVE seen' = seen
      BY <3>3 DEF Worker, ClaimJob, CompleteJob, FailJob, TaskDone, DropSpawned, Interrupt, InterruptRun
    <3>4. ASSUME NEW j \in ExecJobs, Executor(j) \/ ToolThread(j) PROVE seen' = seen
      BY <1>a, <3>4, ExecutorEffect DEF RuntimeInv
    <3>5. ASSUME User \/ Handler \/ Consume \/ Stop \/ UNCHANGED vars PROVE seen' = seen
      BY <3>5 DEF User, Submit, ApproveRun, CancelRun, ReviseBegin, Handler, SubmitDispatch, AcknowledgementSent,
                  AcknowledgementLost, ApproveDispatch, ReviseSucceeds, ReviseFails, Consume, Stop, vars
    <3>6. ASSUME Restart PROVE seen'[t] = "absent"
      BY <3>6 DEF Restart
    <3>7. QED
      BY <2>a, <3>2, <3>3, <3>4, <3>5, <3>6, TaskShape DEF Next
  <2>4. QED
    BY <1>2, <2>1, <2>2, <2>3 DEF ConfirmationKept
<1>3. QED
  BY <1>1, <1>2

\* A run waits for its plan from its submission on.
LEMMA UnplannedMoves ==
    ASSUME RuntimeInv, [Next]_vars, NEW r \in Runs, Unplanned(r)'
    PROVE  Unplanned(r) \/ Submit(r)
<1>1. RowMoves(r)
  BY RowStep
<1>2. ASSUME ReviseFails, handler.run = r PROVE run[r].plan # "null" /\ run'[r].status = "awaiting_confirmation" /\ KnownRun(r)
  <2>1. run[r].plan # "null" /\ run[r].status \in {"awaiting_confirmation", "failed"}
    BY <1>2 DEF ReviseFails, RuntimeInv, RevisedRow, UnderRevision
  <2>2. run'[r] = UpdateStatus(run[r], "awaiting_confirmation", handler.stage) /\ run[r] \in RunRow /\ handler.stage \in RunStage
    BY <1>2 DEF ReviseFails, RuntimeInv, StartInv, RevisionRestoresAwaiting, TypeOK
  <2>3. run'[r].status = "awaiting_confirmation"
    <3>1. "awaiting_confirmation" \in RunStatus
      BY DEF RunStatus
    <3>2. UpdateStatus(run[r], "awaiting_confirmation", handler.stage).status = "awaiting_confirmation"
      BY <2>2, <3>1, UpdateStatusRow
    <3>3. QED
      BY <2>2, <3>2
  <2>4. QED
    BY <2>1, <2>3 DEF KnownRun
<1>3. QED
  BY <1>1, <1>2 DEF RowMoves, Unplanned, KnownRun

\* The handler stays between its two writes until it has made the second one.
LEMMA MidHandlerMoves ==
    ASSUME RuntimeInv, [Next]_vars
    PROVE  /\ handler.pc = "submitting" => handler' = handler \/ SubmitDispatch \/ Restart
           /\ handler.pc = "approving" => handler' = handler \/ ApproveDispatch \/ Restart
<1>1. ASSUME NEW j \in ExecJobs, Executor(j) \/ ToolThread(j) PROVE handler' = handler
  BY <1>1, ExecutorEffect DEF RuntimeInv
<1>2. ASSUME handler.pc \in {"submitting", "approving"} PROVE ~User /\ ~Stop
  BY <1>2 DEF User, Submit, ApproveRun, CancelRun, ReviseBegin, Stop, HandlerFree
<1>3. ASSUME NEW t \in Planners, Planner(t) PROVE handler' = handler
  BY <1>3 DEF Planner, PlanBegin, DraftFails, DraftSucceeds, AutoApprove, AutoDispatch
<1>4. ASSUME NEW j \in JobIds, Worker(j) PROVE handler' = handler
  BY <1>4 DEF Worker, ClaimJob, CompleteJob, FailJob, TaskDone, DropSpawned, Interrupt, InterruptRun
<1>5. ASSUME Consume \/ UNCHANGED vars PROVE handler' = handler
  BY <1>5 DEF Consume, vars
<1>6. QED
  BY <1>1, <1>2, <1>3, <1>4, <1>5
     DEF Next, Handler, SubmitDispatch, AcknowledgementSent, AcknowledgementLost, ApproveDispatch, ReviseSucceeds, ReviseFails

\* A queued job is claimed next.
LEMMA QueuedMoves ==
    ASSUME RuntimeInv, [Next]_vars, NEW j \in JobIds, job[j] = "queued"
    PROVE  job'[j] = "queued" \/ pc'[j] = "claimed"
<1>a. /\ StartInv /\ TypeOK /\ JobsInPlace /\ ApprovedForGood
      /\ job \in [JobIds -> JobStatus] /\ pc \in [Tasks -> PC] /\ j \in Tasks
  BY TaskShape DEF RuntimeInv, StartInv, TypeOK
<1>1. pc[j] \notin {"completing", "failing"} \cup Interruptible
  BY <1>a DEF JobsInPlace, Placed, Working, Executing, Interruptible, Awaiting
<1>2. ASSUME NEW k \in JobIds, Worker(k) PROVE job'[j] = "queued" \/ pc'[j] = "claimed"
  BY <1>a, <1>1, <1>2 DEF Worker, ClaimJob, CompleteJob, FailJob, TaskDone, DropSpawned, Interrupt, InterruptRun
<1>3. ASSUME NEW r \in Runs, NEW type \in {"plan_run", "execute_run"}, DispatchRun(r, type) PROVE job'[j] = "queued"
  BY <1>a, <1>3, DispatchEffect
<1>4. ASSUME NEW k \in ExecJobs, Executor(k) \/ ToolThread(k) PROVE job' = job
  BY <1>a, <1>4, ExecutorEffect
<1>5. ASSUME NEW t \in Planners, Planner(t) PROVE job'[j] = "queued"
  BY <1>3, <1>5, TaskShape DEF Planner, PlanBegin, DraftFails, DraftSucceeds, AutoApprove, AutoDispatch
<1>6. ASSUME SubmitDispatch \/ ApproveDispatch PROVE job'[j] = "queued"
  BY <1>a, <1>3, <1>6 DEF SubmitDispatch, ApproveDispatch, TypeOK
<1>7. ASSUME User \/ AcknowledgementSent \/ AcknowledgementLost \/ ReviseSucceeds \/ ReviseFails
             \/ Consume \/ Stop \/ Restart \/ UNCHANGED vars
      PROVE  job' = job
  BY <1>7 DEF User, Submit, ApproveRun, CancelRun, ReviseBegin, AcknowledgementSent, AcknowledgementLost,
              ReviseSucceeds, ReviseFails, Consume, Stop, Restart, vars
<1>8. QED
  BY <1>2, <1>4, <1>5, <1>6, <1>7 DEF Next, Handler

\* A job at work goes on, unless it is a planner or an executor that moves it.
LEMMA WorkingMoves ==
    ASSUME RuntimeInv, [Next]_vars, ~stopping, NEW j \in JobIds,
           pc[j] \in {"claimed", "drafting", "approving"} \cup Executing
    PROVE  \/ pc'[j] = pc[j] \/ Restart
           \/ j \in PlanJobs /\ Planner(j)
           \/ j \in ExecJobs /\ Executor(j)
<1>a. /\ StartInv /\ TypeOK /\ ApprovedForGood /\ pc \in [Tasks -> PC] /\ j \in Tasks
      /\ j \notin Continuations /\ pc[j] \notin {"idle", "spawned", "completing", "failing", "finishing", "failing_run"}
  BY TaskShape, TaskKinds DEF RuntimeInv, StartInv, TypeOK, Executing
<1>1. ASSUME User \/ SubmitDispatch \/ AcknowledgementLost \/ ApproveDispatch \/ ReviseSucceeds \/ ReviseFails \/ Stop \/ UNCHANGED vars
      PROVE  pc' = pc
  BY <1>1 DEF User, Submit, ApproveRun, CancelRun, ReviseBegin, SubmitDispatch, AcknowledgementLost,
              ApproveDispatch, ReviseSucceeds, ReviseFails, Stop, vars
<1>2. ASSUME AcknowledgementSent PROVE pc'[j] = pc[j]
  <2>1. handler.run \in Runs /\ Continuation(handler.run) # j
    BY <1>a, <1>2, TaskKinds DEF AcknowledgementSent, TypeOK
  <2>2. QED
    BY <1>a, <1>2, <2>1 DEF AcknowledgementSent
<1>3. ASSUME Consume PROVE pc'[j] = pc[j]
  BY <1>a, <1>3 DEF Consume
<1>4. ASSUME NEW k \in JobIds, Worker(k) PROVE pc'[j] = pc[j]
  BY <1>a, <1>4 DEF Worker, ClaimJob, CompleteJob, FailJob, TaskDone, DropSpawned, Interrupt, InterruptRun
<1>5. ASSUME NEW t \in Planners, Planner(t) PROVE pc'[j] = pc[j] \/ (j \in PlanJobs /\ Planner(j))
  <2>1. CASE t = j
    BY <1>a, <1>5, <2>1, TaskKinds
  <2>2. CASE t # j
    BY <1>a, <1>5, <2>2 DEF Planner, PlanBegin, DraftFails, DraftSucceeds, AutoApprove, AutoDispatch
  <2>3. QED
    BY <2>1, <2>2
<1>6. ASSUME NEW k \in ExecJobs, Executor(k) \/ ToolThread(k) PROVE pc'[j] = pc[j] \/ (j \in ExecJobs /\ Executor(j))
  <2>1. CASE k # j
    BY <1>a, <1>6, <2>1, ExecutorEffect
  <2>2. CASE k = j
    BY <1>6, <2>2 DEF ToolThread, ToolEnter, ToolLeave, ToolsReturn
  <2>3. QED
    BY <2>1, <2>2
<1>7. QED
  BY <1>1, <1>2, <1>3, <1>4, <1>5, <1>6 DEF Next, Handler

\* A run that waits for a plan has a job that plans it.
LEMMA PlanJobStep ==
    RuntimeInv /\ ConfirmationKept /\ ConfirmationKept' /\ PlanJobAtWork /\ [Next]_vars => PlanJobAtWork'
<1> SUFFICES ASSUME RuntimeInv, ConfirmationKept, ConfirmationKept', PlanJobAtWork, [Next]_vars,
                    restarts' = 0, ~stopping', NEW r \in Runs, Unplanned(r)'
             PROVE  \/ handler'.pc = "submitting" /\ handler'.run = r
                    \/ \E p \in PlanJobs : RunOf(p) = r /\ PlansAtWork(p)'
  BY DEF PlanJobAtWork, Unplanned, PlansAtWork
<1>a. /\ StartInv /\ TypeOK /\ BeforeDispatch /\ NothingDispatched
      /\ run \in [Runs -> RunRow] /\ run[r] \in RunRow /\ pc \in [Tasks -> PC] /\ restarts \in Nat
  BY DEF RuntimeInv, StartInv, TypeOK
<1>1. ~Restart /\ restarts = 0 /\ ~stopping
  <2>1. Restart => restarts' # 0
    BY <1>a DEF Restart
  <2>2. QED
    BY <2>1, ProcessMoves
<1>2. CASE Submit(r)
  BY <1>2 DEF Submit, IdleHandler
<1>3. CASE ~Submit(r)
  <2>1. Unplanned(r)
    BY <1>3, UnplannedMoves
  <2>2. CASE handler.pc = "submitting" /\ handler.run = r
    <3>1. CASE SubmitDispatch
      <4>1. PICK p \in JobsOf(r, "plan_run") : (job[p] = "none" /\ job'[p] = "queued") \/ Active(p)
        BY <1>a, <2>2, <3>1, DispatchEffect DEF SubmitDispatch
      <4>2. p \in PlanJobs /\ p \in JobIds /\ RunOf(p) = r
        BY TaskKinds
      <4>3. job[p] = "none"
        BY <1>a, <2>2, <4>2 DEF BeforeDispatch
      <4>4. QED
        BY <4>1, <4>2, <4>3 DEF PlansAtWork, Active, ActiveJobStatus
    <3>2. CASE ~SubmitDispatch
      BY <1>1, <2>2, <3>2, MidHandlerMoves
    <3>3. QED
      BY <3>1, <3>2
  <2>3. ASSUME NEW p \in PlanJobs, RunOf(p) = r, PlansAtWork(p) PROVE PlansAtWork(p)'
    <3>a. p \in JobIds /\ p \in Tasks /\ p \notin ExecJobs /\ p \in Planners
      BY TaskKinds, TaskShape
    <3>1. CASE job[p] = "queued"
      BY <3>1, <3>a, QueuedMoves DEF PlansAtWork
    <3>2. CASE Planner(p) /\ pc[p] \in {"claimed", "drafting", "approving"}
      <4>1. ASSUME PlanBegin(p) PROVE pc'[p] = "drafting"
        BY <1>a, <3>a, <4>1 DEF PlanBegin
      <4>2. ~DraftFails(p)
        <5>1. SUFFICES ASSUME DraftFails(p) PROVE FALSE
          OBVIOUS
        <5>2. run'[r] = UpdateStatus(run[r], "failed", "planning")
          BY <1>a, <2>3, <5>1 DEF DraftFails, PlanningFailed
        <5>3. run'[r].status = "failed"
          BY <1>a, <5>2, UpdateStatusRow DEF RunStatus, RunStage
        <5>4. QED
          BY <5>3 DEF Unplanned
      <4>3. ASSUME DraftSucceeds(p) PROVE pc'[p] = "approving"
        <5>1. PICK q \in PlanText \ {"null"}, g \in RunStage : run'[r] = UpdatePlan(run[r], q, g)
          BY <1>a, <2>3, <4>3 DEF DraftSucceeds, Author, PlanText, RunStage
        <5>2. run'[r].plan # "null"
          BY <1>a, <5>1, UpdatePlanRow
        <5>3. run'[r].status = "queued" /\ ~run'[r].approved
          BY <5>2 DEF Unplanned
        <5>4. seen[p] # "awaiting_confirmation"
          BY <3>a, <5>3 DEF ConfirmationKept
        <5>5. QED
          BY <1>a, <3>a, <4>3, <5>4 DEF DraftSucceeds
      <4>4. ~AutoApprove(p)
        <5>1. SUFFICES ASSUME AutoApprove(p) PROVE FALSE
          OBVIOUS
        <5>2. run[r].status # "awaiting_confirmation" /\ run'[r] = Approve(run[r])
          BY <1>a, <2>3, <3>a, <5>1 DEF AutoApprove, NothingDispatched
        <5>3. Approvable(run[r])
          BY <2>1, <5>2 DEF Unplanned, Approvable
        <5>4. run'[r].approved /\ run'[r].status = "queued"
          BY <1>a, <5>2, <5>3, ApproveRow
        <5>5. QED
          BY <5>4 DEF Unplanned
      <4>5. ~AutoDispatch(p)
        BY <3>2 DEF AutoDispatch
      <4>6. QED
        BY <3>2, <4>1, <4>2, <4>3, <4>4, <4>5 DEF Planner, PlansAtWork
    <3>3. CASE pc'[p] = pc[p]
      BY <2>3, <3>1, <3>3 DEF PlansAtWork
    <3>4. QED
      BY <1>1, <2>3, <3>a, <3>1, <3>2, <3>3, WorkingMoves DEF PlansAtWork
  <2>4. QED
    BY <1>1, <2>1, <2>2, <2>3 DEF PlanJobAtWork
<1>4. QED
  BY <1>2, <1>3

\* A planner about to dispatch does so next.
LEMMA DispatchingMoves ==
    ASSUME RuntimeInv, [Next]_vars, ~stopping, NEW t \in Planners, pc[t] = "dispatching"
    PROVE  pc'[t] = "dispatching" \/ AutoDispatch(t) \/ Restart
<1>a. /\ StartInv /\ TypeOK /\ ApprovedForGood /\ pc \in [Tasks -> PC] /\ t \in Tasks /\ ~LoopFree
  BY TaskShape DEF RuntimeInv, StartInv, TypeOK, LoopFree, MidSegment
<1>1. ASSUME User \/ SubmitDispatch \/ AcknowledgementLost \/ ApproveDispatch \/ ReviseSucceeds \/ ReviseFails \/ Stop \/ UNCHANGED vars
      PROVE  pc' = pc
  BY <1>1 DEF User, Submit, ApproveRun, CancelRun, ReviseBegin, SubmitDispatch, AcknowledgementLost,
              ApproveDispatch, ReviseSucceeds, ReviseFails, Stop, vars
<1>2. ASSUME AcknowledgementSent \/ Consume PROVE FALSE
  BY <1>a, <1>2 DEF AcknowledgementSent, Consume
<1>3. ASSUME NEW j \in JobIds, Worker(j) PROVE pc'[t] = pc[t]
  BY <1>a, <1>3 DEF Worker, ClaimJob, CompleteJob, FailJob, TaskDone, DropSpawned, Interrupt, InterruptRun
<1>4. ASSUME NEW u \in Planners, Planner(u) PROVE pc'[t] = pc[t] \/ AutoDispatch(t)
  <2>1. CASE u = t
    BY <1>a, <1>4, <2>1 DEF Planner, PlanBegin, MayEnter, DraftFails, DraftSucceeds, AutoApprove
  <2>2. CASE u # t
    BY <1>a, <1>4, <2>2 DEF Planner, PlanBegin, DraftFails, DraftSucceeds, AutoApprove, AutoDispatch
  <2>3. QED
    BY <2>1, <2>2
<1>5. ASSUME NEW j \in ExecJobs, Executor(j) \/ ToolThread(j) PROVE pc'[t] = pc[t]
  BY <1>a, <1>5, ExecutorEffect
<1>6. QED
  BY <1>1, <1>2, <1>3, <1>4, <1>5 DEF Next, Handler

\* An approved run that waits has its execution ahead of it, and a run that is
\* being worked on has an execution.
LEMMA ExecJobStep == AttendedInv /\ [Next]_vars => ExecJobAtWork'
<1> SUFFICES ASSUME AttendedInv, [Next]_vars, restarts' = 0, ~stopping', NEW r \in Runs
             PROVE  /\ run'[r].status = "queued" /\ run'[r].approved => ExecutionAhead(r)'
                    /\ run'[r].status \in {"running", "waiting_tool"} => InExecution(r)'
  BY DEF ExecJobAtWork, ExecutionAhead, InExecution, UnderApproval
<1>a. /\ RuntimeInv /\ StartInv /\ TypeOK /\ JobsInPlace /\ ApprovedForGood /\ NothingDispatched /\ ShutdownIsQuiet
      /\ run \in [Runs -> RunRow] /\ run[r] \in RunRow /\ run[r].approved \in BOOLEAN
      /\ pc \in [Tasks -> PC] /\ restarts \in Nat /\ RowMoves(r)
  BY RowStep DEF AttendedInv, RuntimeInv, StartInv, TypeOK, RunRow
<1>1. ~Restart /\ restarts = 0 /\ ~stopping
  <2>1. Restart => restarts' # 0
    BY <1>a DEF Restart
  <2>2. QED
    BY <1>a, <2>1, ProcessMoves
<1>b. ASSUME Submit(r) PROVE ~run'[r].approved /\ run'[r].status \notin {"running", "waiting_tool"}
  BY <1>a, <1>b, CreateRow DEF Submit, RunStatus
<1>2. ASSUME run'[r].status = "queued", run'[r].approved PROVE ExecutionAhead(r)'
  <2>1. CASE ~run[r].approved
    <3>1. ASSUME ApproveRun(r) PROVE UnderApproval(r)'
      BY <3>1 DEF ApproveRun, UnderApproval, IdleHandler
    <3>2. ASSUME NEW t \in Planners, RunOf(t) = r, AutoApprove(t) PROVE pc'[t] = "dispatching"
      BY <1>a, <3>2, TaskShape DEF AutoApprove
    <3>3. QED
      BY <1>2, <1>a, <2>1, <3>1, <3>2 DEF RowMoves, ExecutionAhead
  <2>2. CASE run[r].approved
    <3>1. run[r].status = "queued"
      <4>1. ~Submit(r)
        BY <1>2, <1>b
      <4>2. QED
        BY <1>2, <1>a, <2>2, <4>1 DEF RowMoves
    <3>2. Executable(run[r])
      BY <2>2, <3>1 DEF Executable, SkipProcessStatuses, TerminalStatuses
    <3>a. ASSUME NEW j \in ExecJobs, RunOf(j) = r, job'[j] = "queued" \/ pc'[j] = "claimed" PROVE ExecutionAhead(r)'
      BY <3>a DEF ExecutionAhead
    <3>3. ASSUME NEW j \in ExecJobs, RunOf(j) = r, pc[j] = "claimed" PROVE pc'[j] = "claimed"
      <4>1. ~Executor(j)
        <5>1. SUFFICES ASSUME Executor(j) PROVE FALSE
          OBVIOUS
        <5>2. ExecBegin(j) \/ ExecBeginRaises(j)
          BY <3>2, <3>3, <5>1 DEF Executor, ExecSkip, PlanStart, DirectDone, StageDone, ExecRaises, ExecCompletes
        <5>3. StartedLeavesQueued'
          BY <1>a, StartStep DEF StartInv
        <5>4. hist'[r].starts > 0
          BY <1>a, <3>1, <3>3, <5>2, CountStartType DEF ExecBegin, ExecBeginRaises, StartInv, StartedLeavesQueued, TypeOK
        <5>5. QED
          BY <1>2, <5>3, <5>4 DEF StartedLeavesQueued
      <4>2. QED
        BY <1>1, <1>a, <3>3, <4>1, WorkingMoves, TaskKinds
    <3>4. CASE UnderApproval(r)
      <4>1. CASE ApproveDispatch
        <5>1. PICK j \in JobsOf(r, "execute_run") : (job[j] = "none" /\ job'[j] = "queued") \/ Active(j)
          BY <1>a, <3>4, <4>1, DispatchEffect DEF ApproveDispatch, UnderApproval
        <5>2. j \in ExecJobs /\ RunOf(j) = r
          BY TaskKinds
        <5>3. job[j] = "none"
          BY <1>a, <3>4, <5>2 DEF NothingDispatched
        <5>4. QED
          BY <3>a, <5>1, <5>2, <5>3 DEF Active, ActiveJobStatus
      <4>2. CASE ~ApproveDispatch
        BY <1>1, <1>a, <3>4, <4>2, MidHandlerMoves DEF UnderApproval, ExecutionAhead
      <4>3. QED
        BY <4>1, <4>2
    <3>5. ASSUME NEW t \in Planners, RunOf(t) = r, pc[t] = "dispatching" PROVE ExecutionAhead(r)'
      <4>a. t \in Tasks
        BY TaskShape
      <4>1. CASE AutoDispatch(t)
        <5>0. DispatchRun(r, "execute_run")
          BY <3>5, <4>1 DEF AutoDispatch
        <5>1. PICK j \in JobsOf(r, "execute_run") :
                 /\ j \in JobIds /\ RunOf(j) = r
                 /\ \/ job[j] = "none" /\ job'[j] = "queued" /\ \A k \in JobsOf(r, "execute_run") : ~Active(k)
                    \/ Active(j) /\ job'[j] = job[j]
          BY <1>a, <5>0, DispatchEffect, Zenon
        <5>2. j \in ExecJobs /\ RunOf(j) = r /\ j \in JobIds /\ j \in Tasks /\ j # t
          BY TaskKinds, TaskShape
        <5>3. CASE job'[j] = "queued"
          BY <3>a, <5>2, <5>3
        <5>4. CASE job[j] = "running"
          <6>1. pc[j] \notin MidSegment
            BY <3>5, <4>a, <5>2 DEF AttendedInv, OneTaskMidSegment, MidSegment
          <6>2. pc[j] \notin Executing
            BY <1>a, <3>1, <5>2 DEF ApprovedForGood, StartInv, StartedLeavesQueued
          <6>3. j \in pending
            BY <1>1, <1>a, <5>2, <5>4 DEF RuntimeInv, ActiveIsPending, Active, ActiveJobStatus
          <6>4. pc[j] = "claimed"
            BY <1>1, <1>a, <5>2, <5>4, <6>1, <6>2, <6>3
               DEF JobsInPlace, Placed, PC, Awaiting, Executing, AttendedInv, KindsApart, Active, ActiveJobStatus
          <6>5. QED
            BY <3>3, <3>a, <5>2, <6>4
        <5>5. QED
          BY <5>1, <5>3, <5>4 DEF Active, ActiveJobStatus
      <4>2. CASE pc'[t] = "dispatching"
        BY <3>5, <4>2 DEF ExecutionAhead
      <4>3. QED
        BY <1>1, <1>a, <3>5, <4>1, <4>2, DispatchingMoves
    <3>6. ASSUME NEW j \in ExecJobs, RunOf(j) = r, job[j] = "queued" \/ pc[j] = "claimed" PROVE ExecutionAhead(r)'
      BY <1>a, <3>3, <3>6, <3>a, QueuedMoves, TaskKinds
    <3>7. QED
      BY <1>1, <2>2, <3>1, <3>4, <3>5, <3>6 DEF AttendedInv, ExecJobAtWork, ExecutionAhead
  <2>3. QED
    BY <2>1, <2>2
<1>3. ASSUME run'[r].status \in {"running", "waiting_tool"} PROVE InExecution(r)'
  <2>1. CASE run[r].status \in {"running", "waiting_tool"}
    <3>1. PICK j \in ExecJobs : RunOf(j) = r /\ pc[j] \in Executing
      BY <1>1, <2>1 DEF AttendedInv, ExecJobAtWork, InExecution
    <3>2. ASSUME Executor(j) PROVE pc'[j] \in Executing
      <4>1. ~Cancelled(j)
        BY <2>1, <3>1 DEF Cancelled
      <4>2. run'[r].status \notin {"failed", "completed"}
        BY <1>3
      <4>3. ~ExecRaises(j) /\ ~ExecCompletes(j)
        <5>1. /\ {"failed", "completed"} \subseteq RunStatus
              /\ "completed" \in RunStage /\ run[r].stage \in RunStage
          BY <1>a DEF RunStatus, RunStage, RunRow
        <5>2. ASSUME ExecRaises(j) PROVE run'[r] = UpdateStatus(run[r], "failed", run[r].stage)
          BY <1>a, <3>1, <5>2 DEF ExecRaises, ExecutionFailed
        <5>3. ASSUME ExecCompletes(j) PROVE run'[r] = UpdateStatus(run[r], "completed", "completed")
          BY <1>a, <3>1, <5>3 DEF ExecCompletes
        <5>4. QED
          BY <1>a, <4>2, <5>1, <5>2, <5>3, UpdateStatusRow
      <4>4. ~ExecBegin(j) /\ ~ExecBeginRaises(j) /\ ~ExecSkip(j)
        BY <3>1 DEF ExecBegin, ExecBeginRaises, ExecSkip, MayEnter, Executing
      <4>5. j \in Tasks
        BY TaskShape
      <4>6. QED
        BY <1>a, <3>2, <4>1, <4>3, <4>4, <4>5 DEF Executor, PlanStart, DirectDone, StageDone, Executing
    <3>3. pc'[j] \in Executing
      BY <1>1, <1>a, <3>1, <3>2, WorkingMoves, TaskKinds
    <3>4. QED
      BY <3>1, <3>3 DEF InExecution
  <2>2. CASE run[r].status \notin {"running", "waiting_tool"}
    <3>1. PICK j \in ExecJobs : RunOf(j) = r /\ (Executor(j) \/ ToolThread(j))
      BY <1>3, <1>a, <1>b, <2>2 DEF RowMoves
    <3>2. pc'[j] = "tools"
      BY <1>3, <1>a, <2>2, <3>1, ExecutorStatus
    <3>3. QED
      BY <3>1, <3>2 DEF InExecution, Executing
  <2>3. QED
    BY <2>1, <2>2
<1>4. QED
  BY <1>2, <1>3

\* Every run that waits for the system is attended to.
LEMMA AttendedInit == Init => AttendedInv
<1> SUFFICES ASSUME Init PROVE AttendedInv
  OBVIOUS
<1>1. RuntimeInv
  BY RuntimeInit
<1>2. /\ \A r \in Runs : run[r].status = "absent"
      /\ \A t \in Tasks : pc[t] = "idle"
      /\ \A t \in Planners : seen[t] = "absent"
      /\ handler.pc = "idle"
  BY DEF Init, IdleHandler, NoRow
<1>3. KindsApart /\ OneTaskMidSegment
  BY <1>2, TaskShape DEF KindsApart, OneTaskMidSegment, Executing, MidSegment
<1>4. ConfirmationKept /\ WaitingToolHasThread /\ PlanJobAtWork /\ ExecJobAtWork
  BY <1>2 DEF ConfirmationKept, WaitingToolHasThread, PlanJobAtWork, Unplanned, ExecJobAtWork
<1>5. QED
  BY <1>1, <1>3, <1>4 DEF AttendedInv

\* Every step keeps it so.
LEMMA AttendedStep == AttendedInv /\ [Next]_vars => AttendedInv'
<1> SUFFICES ASSUME AttendedInv, [Next]_vars PROVE AttendedInv'
  OBVIOUS
<1>1. RuntimeInv' /\ KindsApart' /\ OneTaskMidSegment' /\ ConfirmationKept' /\ WaitingToolHasThread'
  BY RuntimeStep, KindsStep, MidSegmentStep, ConfirmationStep, WaitingToolStep DEF AttendedInv
<1>2. PlanJobAtWork' /\ ExecJobAtWork'
  BY <1>1, PlanJobStep, ExecJobStep DEF AttendedInv
<1>3. QED
  BY <1>1, <1>2 DEF AttendedInv

\* No run is abandoned by a living process: at every await, a run that waits for the
\* system has an active job of the type that moves it on.
THEOREM NoRunIsAbandoned == Spec => []NoAbandonedRun
<1>1. AttendedInv => NoAbandonedRun
  <2> SUFFICES ASSUME AttendedInv, restarts = 0, ~stopping, LoopFree, NEW r \in Runs
               PROVE  /\ run[r].status \in {"queued", "running", "waiting_tool"} =>
                            IF run[r].approved
                            THEN \E j \in JobsOf(r, "execute_run") : job[j] \in ActiveJobStatus
                            ELSE \E j \in JobsOf(r, "plan_run") : job[j] \in ActiveJobStatus
                      /\ run[r].status = "awaiting_confirmation" /\ run[r].plan = "null" =>
                            \E j \in JobsOf(r, "plan_run") : job[j] \in ActiveJobStatus
    BY DEF NoAbandonedRun
  <2>1. /\ JobsInPlace /\ ApprovedForGood /\ PlanJobAtWork /\ ExecJobAtWork
        /\ handler.pc \notin {"submitting", "approving"} /\ \A t \in Planners : pc[t] # "dispatching"
    BY TaskShape DEF AttendedInv, RuntimeInv, LoopFree, MidSegment, MidHandler
  <2>2. \A j \in JobIds : job[j] = "queued" \/ pc[j] \in Working => job[j] \in ActiveJobStatus
    BY <2>1 DEF JobsInPlace, Placed, ActiveJobStatus
  <2>3. ASSUME Unplanned(r) PROVE \E j \in JobsOf(r, "plan_run") : job[j] \in ActiveJobStatus
    <3>1. PICK p \in PlanJobs : RunOf(p) = r /\ PlansAtWork(p)
      BY <2>1, <2>3 DEF PlanJobAtWork
    <3>2. QED
      BY <2>2, <3>1, TaskKinds DEF PlansAtWork, Working
  <2>4. ASSUME run[r].approved, run[r].status \in {"queued", "running", "waiting_tool"}
        PROVE  \E j \in JobsOf(r, "execute_run") : job[j] \in ActiveJobStatus
    <3>1. PICK j \in ExecJobs : RunOf(j) = r /\ (job[j] = "queued" \/ pc[j] = "claimed" \/ pc[j] \in Executing)
      BY <2>1, <2>4 DEF ExecJobAtWork, ExecutionAhead, InExecution, UnderApproval
    <3>2. QED
      BY <2>2, <3>1, TaskKinds DEF Working
  <2>5. QED
    BY <2>1, <2>3, <2>4 DEF Unplanned, ApprovedForGood
<1>2. QED
  BY <1>1, AttendedInit, AttendedStep, PTL DEF Spec

=============================================================================
