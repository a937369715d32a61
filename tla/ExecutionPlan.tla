--------------------------- MODULE ExecutionPlan ---------------------------
(***************************************************************************)
(* One execution of an approved run: DirectExecutionPlan and               *)
(* MultiStageExecutionPlan with the stage handlers, the documents they     *)
(* write, the review gate and replanning.  RunLifecycle sees an execution  *)
(* as a few anonymous stages; here they are told apart.                    *)
(*                                                                         *)
(* A text is represented by the iteration that produced it, 0 if there is  *)
(* none; plan version 0 is the approved plan, version n the one replanned  *)
(* after iteration n.  The execution runs on an event loop: an action is   *)
(* the code between two awaits, the return from a model call included.     *)
(* Inside one process an executing run is never cancelled (RunLifecycle).   *)
(* With a second process on the same database it may be: a revision that   *)
(* was under way there fails and puts the run back to awaiting             *)
(* confirmation, from where the user cancels it.                           *)
(*                                                                         *)
(* Definitions directly above another one with the same parameters are     *)
(* faulty variants of it.                                                  *)
(***************************************************************************)
EXTENDS Integers, Sequences

CONSTANTS
    Workflows,     \* workflows that runs are submitted for
    Agents,        \* agent names runs are submitted for
    MaxIterations  \* workflow_control.max_review_iterations

ASSUME PlanAssumption ==
    /\ Workflows \subseteq {"generate_code", "learning", "direct"}
    /\ MaxIterations \in Nat \ {0}

VARIABLES
    workflow,   \* the run's workflow; "direct" for every single-stage one
    agent,      \* the run's agent_name, passed on to every stage handler
    pc,         \* where the execution is
    at,         \* index of the core stage under way
    iteration,  \* of the review loop
    plan,       \* artifacts["plan_text"]
    artifacts,  \* the other texts in the artifacts dictionary
    concerns,   \* has_high_concerns(artifacts["review_text"])
    row,        \* agent_runs: status, review_iterations and persisted texts
    docs,       \* documents written: section and iteration
    result      \* what _build_final_result() was given

vars == <<workflow, agent, pc, at, iteration, plan, artifacts, concerns, row, docs, result>>

\* The stages of a workflow without "replanning", which runs between iterations.
CoreStages(w) == IF w = "generate_code"
                 THEN <<"design", "implementation", "testing", "review", "chronicle">>
                 ELSE <<"chronicle">>

HasReplanning(w) == w = "generate_code"

Handlers == {"design", "implementation", "testing", "review", "chronicle"}
Stage == CoreStages(workflow)[at]

\* Cancellation checks around a stage: none for the learning workflow, before
\* design only and after every stage for code generation.
ChecksBefore(h) == h = "design"
ChecksAfterNever(w) == FALSE
ChecksAfter(w) == w = "generate_code"

\* The docs section a handler writes to; "none" for the implementation.
Section == [design |-> "architecture", testing |-> "testing", review |-> "review",
            chronicle |-> "lessons", implementation |-> "none"]

\* doc_permissions.write of the built-in souls.
Souls == [planner |-> {"planning", "requirements"}, architect |-> {"architecture"},
          coder |-> {"implementation"}, tester |-> {"testing"}, reviewer |-> {"review"},
          chronicler |-> {"lessons"}, explainer |-> {}]

\* _check_write_permission(), asked for the agent of the run, whatever the stage;
\* an agent without a soul may write everything.
MayWrite(a, section) ==
    section # "none" /\ a \in DOMAIN Souls => section \in Souls[a]

Terminal == {"completed", "failed", "cancelled"}
PC == {"start", "calling", "replanning", "remembering", "stopped", "completed",
       "raised", "refused", "interrupted"}

\* Awaits of the execution, and the tool context awaited before it.
Awaiting == {"start", "calling", "replanning", "remembering"}

Cancelled == row.status = "cancelled"
NoTexts == [h \in Handlers |-> 0]

Init ==
    /\ workflow \in Workflows
    /\ agent \in Agents
    /\ pc = "start"
    /\ at = 1 /\ iteration = 1
    /\ plan = 0
    /\ artifacts = NoTexts
    /\ concerns = FALSE
    /\ row = [status |-> "running", iterations |-> 0, plan |-> 0, text |-> NoTexts]
    /\ docs = {}
    /\ result = [plan |-> 0, text |-> NoTexts]

-----------------------------------------------------------------------------

\* Enter the plan: up to the first model call.
Begin ==
    /\ pc = "start"
    /\ pc' = IF Cancelled /\ (workflow = "direct" \/ ChecksBefore(Stage)) THEN "stopped" ELSE "calling"
    /\ UNCHANGED <<workflow, agent, at, iteration, plan, artifacts, concerns, row, docs, result>>

\* DirectExecutionPlan after its model call: nothing is saved for a cancelled run.
DirectDone ==
    /\ pc = "calling" /\ workflow = "direct"
    /\ pc' = IF Cancelled THEN "stopped" ELSE "remembering"
    /\ row' = IF Cancelled THEN row ELSE [row EXCEPT !.text["implementation"] = iteration]
    /\ artifacts' = [artifacts EXCEPT !["implementation"] = iteration]
    /\ UNCHANGED <<workflow, agent, at, iteration, plan, concerns, docs, result>>

\* _persist_artifacts(): the lessons have no column of their own.
PersistedCountsReviews(h) ==
    [row EXCEPT !.iterations = IF h = "review" THEN iteration ELSE @,
                !.text[h] = IF h = "chronicle" THEN @ ELSE iteration]
Persisted(h) ==
    [row EXCEPT !.iterations = iteration,
                !.text[h] = IF h = "chronicle" THEN @ ELSE iteration]

\* has_high_concerns() of the review text, which stays the same until the next
\* review; without one there are no concerns.
Verdicts(h) == IF h = "review" THEN BOOLEAN ELSE {concerns}

\* The review loop goes round once more.
MayReplan == concerns /\ iteration < MaxIterations /\ HasReplanning(workflow)

\* A stage handler after its model call: the document, the row, the artifacts;
\* then the cancellation check and the next stage, replanning or the end.
StageDone ==
    /\ pc = "calling" /\ workflow # "direct"
    /\ MayWrite(agent, Section[Stage])
    /\ artifacts' = [artifacts EXCEPT ![Stage] = iteration]
    /\ docs' = docs \cup (({Section[Stage]} \ {"none"}) \X {iteration})
    /\ row' = Persisted(Stage)
    /\ concerns' \in Verdicts(Stage)
    /\ \/ /\ Cancelled /\ ChecksAfter(workflow)
          /\ pc' = "stopped" /\ at' = at
       \/ /\ ~(Cancelled /\ ChecksAfter(workflow))
          /\ at < Len(CoreStages(workflow))
          /\ at' = at + 1 /\ pc' = "calling"
       \/ /\ ~(Cancelled /\ ChecksAfter(workflow))
          /\ at = Len(CoreStages(workflow)) /\ at' = at
          /\ pc' = IF MayReplan THEN "replanning"
                   ELSE IF Cancelled THEN "stopped" ELSE "remembering"
    /\ UNCHANGED <<workflow, agent, iteration, plan, result>>

\* What is in the row when the handler raises before _persist_artifacts().
LeftByRefusalPersisted == Persisted(Stage)
LeftByRefusal == row

\* _save_document() raises PermissionError, after the model call.
DocumentRefused ==
    /\ pc = "calling" /\ workflow # "direct"
    /\ ~MayWrite(agent, Section[Stage])
    /\ pc' = "refused"
    /\ row' = [LeftByRefusal EXCEPT !.status = "failed"]
    /\ UNCHANGED <<workflow, agent, at, iteration, plan, artifacts, concerns, docs, result>>

\* A model call failed or the document could not be written: the exception leaves
\* process_run() and the worker fails the run.
ModelFails ==
    /\ pc \in {"calling", "replanning"}
    /\ pc' = "raised"
    /\ row' = [row EXCEPT !.status = "failed"]
    /\ UNCHANGED <<workflow, agent, at, iteration, plan, artifacts, concerns, docs, result>>

NextIterationSame(i) == i
NextIteration(i) == i + 1

\* Every iteration passes through all core stages.
FirstStageSkipsDesign == 2
FirstStage == 1

\* The replanning handler after its model call; the next iteration starts with
\* the check before its first stage.
Replanned ==
    /\ pc = "replanning"
    /\ plan' = iteration
    /\ row' = [row EXCEPT !.plan = iteration]
    /\ IF Cancelled
       THEN pc' = "stopped" /\ UNCHANGED <<at, iteration>>
       ELSE pc' = "calling" /\ at' = FirstStage /\ iteration' = NextIteration(iteration)
    /\ UNCHANGED <<workflow, agent, artifacts, concerns, docs, result>>

\* _build_final_result(): every text of the artifacts, and the plan as the
\* approved plan.
FinalResult == [plan |-> plan, text |-> artifacts]

\* remember_success() returned; it handles its own failures.  The result was
\* assembled before it, nothing it is made of changes meanwhile.
Complete ==
    /\ pc = "remembering"
    /\ pc' = "completed"
    /\ row' = [row EXCEPT !.status = "completed"]
    /\ result' = FinalResult
    /\ UNCHANGED <<workflow, agent, at, iteration, plan, artifacts, concerns, docs>>

-----------------------------------------------------------------------------

\* revise_plan_for_chat() of another process, begun before this execution, fails
\* and writes back the status it read.
RevisionFails ==
    /\ pc \in Awaiting /\ row.status # "awaiting_confirmation"
    /\ row' = [row EXCEPT !.status = "awaiting_confirmation"]
    /\ UNCHANGED <<workflow, agent, pc, at, iteration, plan, artifacts, concerns, docs, result>>

\* CancelRunUseCase.execute().
Cancel ==
    /\ row.status = "awaiting_confirmation"
    /\ row' = [row EXCEPT !.status = "cancelled"]
    /\ UNCHANGED <<workflow, agent, pc, at, iteration, plan, artifacts, concerns, docs, result>>

\* Shutdown: CancelledError at an await.  No tool context is awaited for learning.
Interrupt ==
    /\ pc \in Awaiting
    /\ pc = "start" => workflow # "learning"
    /\ pc' = "interrupted"
    /\ row' = [row EXCEPT !.status = IF @ \in Terminal THEN @ ELSE "failed"]
    /\ UNCHANGED <<workflow, agent, at, iteration, plan, artifacts, concerns, docs, result>>

Execute == \/ Begin \/ DirectDone \/ StageDone \/ DocumentRefused
           \/ ModelFails \/ Replanned \/ Complete

Next == Execute \/ RevisionFails \/ Cancel \/ Interrupt

Spec == Init /\ [][Next]_vars

\* Model calls return or raise, and the event loop resumes the execution.
FairSpec == Spec /\ WF_vars(Execute)

-----------------------------------------------------------------------------

\* The values of every variable: among others the iteration never exceeds the
\* configured bound.
TypeOK ==
    /\ workflow \in Workflows
    /\ agent \in Agents
    /\ pc \in PC
    /\ at \in 1..Len(CoreStages(workflow))
    /\ iteration \in 1..MaxIterations
    /\ plan \in 0..MaxIterations
    /\ artifacts \in [Handlers -> 0..MaxIterations]
    /\ concerns \in BOOLEAN
    /\ row \in [status: {"running", "awaiting_confirmation"} \cup Terminal, iterations: 0..MaxIterations,
                plan: 0..MaxIterations, text: [Handlers -> 0..MaxIterations]]
    /\ docs \subseteq ({"architecture", "testing", "review", "lessons"} \X (1..MaxIterations))
    /\ result \in [plan: 0..MaxIterations, text: [Handlers -> 0..MaxIterations]]

\* The delivered result of code generation is of one piece: design, code, tests,
\* review and lessons all come from the last iteration, and the plan shown as
\* the approved plan is the one they were made from, never a later one.
ResultIsCoherent ==
    pc = "completed" /\ workflow = "generate_code" =>
        \A h \in Handlers : result.text[h] = result.plan + 1

\* What the row shows is on disk: a design, test or review text is persisted only
\* after its document was written, also when writing is refused.
PersistedIsDocumented ==
    workflow # "direct" =>
        \A h \in {"design", "testing", "review"} :
            row.text[h] # 0 => <<Section[h], row.text[h]>> \in docs

\* Status requests see the artifacts of at most two iterations, in pipeline
\* order, and review_iterations counts the newest of them.
RowInPipelineOrder ==
    workflow = "generate_code" =>
        /\ row.iterations = row.text["design"]
        /\ row.text["implementation"] \in {row.text["design"], row.text["design"] - 1}
        /\ row.text["testing"] \in {row.text["design"] - 1, row.text["implementation"]}
        /\ row.text["review"] \in {row.text["design"] - 1, row.text["testing"]}

\* Once the run is cancelled no further model call is started, neither of a
\* stage nor of the planner.
CancelStopsWork ==
    [][LET started == \/ pc' = "calling" /\ <<pc, at, iteration>> # <<pc', at', iteration'>>
                      \/ pc' = "replanning" /\ pc # "replanning"
       IN  started /\ workflow # "learning" => ~Cancelled]_vars

\* The review loop ends: every execution comes to an end.
ExecutionEnds == <>(pc \notin Awaiting)

-----------------------------------------------------------------------------
(* The inductive invariant behind ResultIsCoherent and RowInPipelineOrder.  *)

\* Position of a handler in the pipeline of generate_code.
Order(h) == IF h = "design" THEN 1 ELSE IF h = "implementation" THEN 2
            ELSE IF h = "testing" THEN 3 ELSE IF h = "review" THEN 4 ELSE 5

\* The artifacts of an iteration replace those of the previous one in pipeline
\* order; the stage at the current position may or may not be over.
ArtifactsInOrder ==
    \A h \in Handlers :
        /\ Order(h) < at => artifacts[h] = iteration
        /\ Order(h) > at => artifacts[h] = iteration - 1
        /\ Order(h) = at => \/ artifacts[h] = iteration - 1
                            \/ artifacts[h] = iteration /\ pc \notin {"start", "calling"}

\* The loop is left or repeated after the last stage only, with a plan that is
\* one step behind the artifacts.
LoopEndsWithLastStage ==
    /\ pc \in {"replanning", "remembering"} => at = 5 /\ artifacts["chronicle"] = iteration
    /\ pc \in Awaiting => plan = iteration - 1
    /\ pc = "replanning" => iteration < MaxIterations

\* The row mirrors the artifacts.
RowMirrorsArtifacts ==
    /\ \A h \in Handlers \ {"chronicle"} : row.text[h] = artifacts[h]
    /\ row.iterations = artifacts["design"]

\* Inductive: the review loop of MultiStageExecutionPlan.execute() replaces the
\* artifacts stage by stage, one plan behind, and the row shows them as they are.
PipelineInv ==
    workflow = "generate_code" =>
        /\ ArtifactsInOrder
        /\ LoopEndsWithLastStage
        /\ RowMirrorsArtifacts
        /\ ResultIsCoherent
=============================================================================
