------------------------------ MODULE RunStore ------------------------------
(***************************************************************************)
(* The agent_runs row of one run and the operations SQLiteRunRepository    *)
(* performs on it.  Each operator maps a row to the row the operation      *)
(* leaves behind: one operator is one committed SQL statement together     *)
(* with the read that precedes it.                                         *)
(*                                                                         *)
(* Data abstraction: prompts, results and error texts are left out.  A     *)
(* plan text is represented by the component that drafted it, which is     *)
(* what tells one plan of a run from another.                              *)
(***************************************************************************)

\* RunStatus; "absent" stands for a run id with no row.
RunStatus == {"absent", "awaiting_confirmation", "queued", "running",
              "waiting_tool", "completed", "failed", "cancelled"}

TerminalStatuses == {"completed", "failed", "cancelled"}

\* Statuses for which the orchestrator must not (re-)enter a run.
SkipProcessStatuses == TerminalStatuses \cup {"running", "waiting_tool"}

\* RunStage; "tool" stands for every tool:<name> stage and "execution" for
\* every stage of an execution plan that saves an artifact.
RunStage == {"planning", "awaiting_user_confirmation", "queued_for_execution",
             "retrieve_context", "tool", "execution", "internal_replanning",
             "completed"}

\* plan_text, by its author: the worker's PLAN_RUN job, the task the chat
\* handler starts, a revision by the user, the replanning stage; or NULL.
PlanText == {"null", "worker", "chat", "revision", "replanning"}

RunRow == [status: RunStatus, stage: RunStage, plan: PlanText, approved: BOOLEAN]

NoRow == [status |-> "absent", stage |-> "planning", plan |-> "null", approved |-> FALSE]

\* create(): the row a new prompt starts with.
Create(status) ==
    [status |-> status, stage |-> "planning", plan |-> "null", approved |-> FALSE]

\* update_status() without an expected status: unconditional.
UpdateStatus(row, status, stage) == [row EXCEPT !.status = status, !.stage = stage]

\* try_update_status() with expected_current_status: compare and set.
TryUpdateStatus(row, status, expected, stage) ==
    IF row.status = expected THEN UpdateStatus(row, status, stage) ELSE row

\* update_plan(): writes the plan and the stage whatever the status is.
UpdatePlan(row, plan, stage) == [row EXCEPT !.plan = plan, !.stage = stage]

\* approve(): transitions an unapproved run that is awaiting or queued.
Approvable(row) == ~row.approved /\ row.status \in {"awaiting_confirmation", "queued"}

Approve(row) ==
    IF ~Approvable(row) THEN row
    ELSE [row EXCEPT !.approved = TRUE,
                     !.status = "queued",
                     !.stage = IF row.status = "awaiting_confirmation"
                               THEN "queued_for_execution" ELSE row.stage]

\* save_artifacts(): the stage and the artifacts, whatever the status is.
SaveArtifacts(row, stage) == [row EXCEPT !.stage = stage]
=============================================================================
