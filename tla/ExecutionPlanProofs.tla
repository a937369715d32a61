------------------------ MODULE ExecutionPlanProofs ------------------------
(***************************************************************************)
(* Theorems about ExecutionPlan, for every bound on the review iterations  *)
(* and every set of agents.                                                *)
(***************************************************************************)
EXTENDS ExecutionPlan, TLAPS

\* Execution starts with the first stage, and only code generation goes round the
\* review loop.
LoopShape == /\ pc = "start" => at = 1
             /\ pc = "replanning" => workflow = "generate_code"

Inv == TypeOK /\ LoopShape /\ PipelineInv /\ PersistedIsDocumented

-----------------------------------------------------------------------------

\* Order numbers the handlers of the pipeline.
LEMMA OrderNumbers == \A h \in Handlers : Order(h) \in 1..5
  BY DEF Order, Handlers

\* The stage under way is a handler, and in the pipeline of generate_code the
\* one whose number is at.
LEMMA StageAt ==
    ASSUME TypeOK
    PROVE  /\ Stage \in Handlers
           /\ workflow = "generate_code" =>
                /\ Len(CoreStages(workflow)) = 5
                /\ at \in 1..5
                /\ \A h \in Handlers : Order(h) = at <=> h = Stage
                /\ Stage = "chronicle" <=> at = 5
                /\ Stage = "design" <=> at = 1
  <1>1. CASE workflow = "generate_code"
    <2>1. CoreStages(workflow) = <<"design", "implementation", "testing", "review", "chronicle">>
      BY <1>1 DEF CoreStages
    <2>2. Len(CoreStages(workflow)) = 5 /\ at \in 1..5
      BY <2>1 DEF TypeOK
    <2>3. /\ at = 1 => Stage = "design"
          /\ at = 2 => Stage = "implementation"
          /\ at = 3 => Stage = "testing"
          /\ at = 4 => Stage = "review"
          /\ at = 5 => Stage = "chronicle"
      BY <2>1 DEF Stage
    <2>4. at = 1 \/ at = 2 \/ at = 3 \/ at = 4 \/ at = 5
      BY <2>2
    <2> QED
      BY <2>2, <2>3, <2>4 DEF Handlers, Order
  <1>2. CASE workflow # "generate_code"
    <2>1. CoreStages(workflow) = <<"chronicle">>
      BY <1>2 DEF CoreStages
    <2>2. at = 1
      BY <2>1 DEF TypeOK
    <2> QED
      BY <1>2, <2>1, <2>2 DEF Stage, Handlers
  <1> QED
    BY <1>1, <1>2

\* The facts hold initially.
LEMMA InvInit == Init => Inv
  <1> SUFFICES ASSUME Init PROVE Inv
    OBVIOUS
  <1>1. Len(CoreStages(workflow)) = 1 \/ Len(CoreStages(workflow)) = 5
    BY DEF CoreStages
  <1>2. TypeOK
    <2>0. at \in 1..Len(CoreStages(workflow))
      <3>1. at = 1
        BY DEF Init
      <3> QED BY <1>1, <3>1
    <2>1. /\ NoTexts \in [Handlers -> 0..MaxIterations]
          /\ 0 \in 0..MaxIterations /\ 1 \in 1..MaxIterations
      BY PlanAssumption DEF NoTexts
    <2>2. /\ row \in [status: {"running", "awaiting_confirmation"} \cup Terminal, iterations: 0..MaxIterations,
                      plan: 0..MaxIterations, text: [Handlers -> 0..MaxIterations]]
          /\ result \in [plan: 0..MaxIterations, text: [Handlers -> 0..MaxIterations]]
      BY <2>1 DEF Init
    <2>3. pc \in PC
      BY DEF Init, PC
    <2>4. concerns \in BOOLEAN
      BY DEF Init
    <2>5. docs \subseteq ({"architecture", "testing", "review", "lessons"} \X (1..MaxIterations))
      BY DEF Init
    <2> QED
      BY <2>0, <2>1, <2>2, <2>3, <2>4, <2>5 DEF Init, TypeOK
  <1>3. PipelineInv
    BY OrderNumbers DEF Init, PipelineInv, ArtifactsInOrder, LoopEndsWithLastStage,
       RowMirrorsArtifacts, ResultIsCoherent, NoTexts, Handlers, Awaiting
  <1>4. PersistedIsDocumented
    BY DEF Init, PersistedIsDocumented, NoTexts, Handlers
  <1> QED
    BY <1>2, <1>3, <1>4 DEF Init, Inv, LoopShape

\* A step that moves pc to a place outside the loop, and of the row changes the
\* status only, preserves the invariant.
LEMMA LeavingLoop ==
    ASSUME Inv, UNCHANGED <<workflow, agent, at, iteration, plan, artifacts, concerns, docs, result>>,
           pc' \in {"stopped", "raised", "refused", "interrupted"} \/ pc' = pc
                \/ (pc = "start" /\ pc' = "calling"),
           NEW s \in {"running", "awaiting_confirmation"} \cup Terminal,
           row' = [row EXCEPT !.status = s]
    PROVE  Inv'
  <1>1. /\ row'.text = row.text /\ row'.iterations = row.iterations /\ row'.plan = row.plan
        /\ row'.status = s
    BY DEF Inv, TypeOK
  <1>2. TypeOK'
    BY <1>1 DEF Inv, TypeOK, PC, CoreStages
  <1>3. LoopShape'
    BY DEF Inv, LoopShape
  <1>4. PersistedIsDocumented'
    BY <1>1 DEF Inv, PersistedIsDocumented
  <1>5. ASSUME workflow = "generate_code"
        PROVE  ArtifactsInOrder' /\ LoopEndsWithLastStage' /\ RowMirrorsArtifacts' /\ ResultIsCoherent'
    <2>0. ArtifactsInOrder /\ LoopEndsWithLastStage /\ RowMirrorsArtifacts /\ ResultIsCoherent
      BY <1>5 DEF Inv, PipelineInv
    <2>1. ArtifactsInOrder'
      BY <2>0 DEF ArtifactsInOrder, Order
    <2>2. LoopEndsWithLastStage'
      BY <2>0 DEF LoopEndsWithLastStage, Awaiting
    <2>3. RowMirrorsArtifacts'
      BY <2>0, <1>1 DEF RowMirrorsArtifacts
    <2>4. ResultIsCoherent'
      BY <2>0 DEF ResultIsCoherent
    <2> QED BY <2>1, <2>2, <2>3, <2>4
  <1> QED
    BY <1>2, <1>3, <1>4, <1>5 DEF Inv, PipelineInv

\* The artifacts move on when a stage is over.
LEMMA StageDoneInv == Inv /\ StageDone => Inv'
  <1> SUFFICES ASSUME Inv, StageDone PROVE Inv'
    OBVIOUS
  <1>1. TypeOK
    BY DEF Inv
  <1>2. Stage \in Handlers
    BY <1>1, StageAt
  <1>0. iteration \in 0..MaxIterations /\ row.text \in [Handlers -> 0..MaxIterations]
    BY <1>1, PlanAssumption DEF TypeOK
  <1>a. row' = [row EXCEPT !.iterations = iteration,
                           !.text = [row.text EXCEPT ![Stage] = IF Stage = "chronicle" THEN @ ELSE iteration]]
    BY <1>1 DEF StageDone, Persisted, TypeOK
  <1>b. [row.text EXCEPT ![Stage] = IF Stage = "chronicle" THEN @ ELSE iteration] \in [Handlers -> 0..MaxIterations]
    BY <1>0, <1>2
  <1>3. /\ row'.text = [row.text EXCEPT ![Stage] = IF Stage = "chronicle" THEN @ ELSE iteration]
        /\ row'.iterations = iteration
        /\ row'.status = row.status /\ row'.plan = row.plan
        /\ row' \in [status: {"running", "awaiting_confirmation"} \cup Terminal,
                     iterations: 0..MaxIterations, plan: 0..MaxIterations,
                     text: [Handlers -> 0..MaxIterations]]
    BY <1>0, <1>1, <1>a, <1>b DEF TypeOK
  <1>4. /\ artifacts' = [artifacts EXCEPT ![Stage] = iteration]
        /\ artifacts' \in [Handlers -> 0..MaxIterations]
    BY <1>1, <1>2 DEF StageDone, TypeOK
  <1>5. /\ UNCHANGED <<workflow, agent, iteration, plan, result>>
        /\ \/ pc' = "stopped" /\ at' = at
           \/ pc' = "calling" /\ at' = at + 1 /\ at < Len(CoreStages(workflow))
           \/ /\ at = Len(CoreStages(workflow)) /\ at' = at
              /\ \/ pc' = "replanning" /\ iteration < MaxIterations /\ workflow = "generate_code"
                 \/ pc' \in {"stopped", "remembering"}
    BY DEF StageDone, MayReplan, HasReplanning
  <1>6. Section[Stage] \in {"architecture", "testing", "review", "lessons", "none"}
    BY <1>2 DEF Section, Handlers
  <1>7. TypeOK'
    <2>1. docs' \subseteq ({"architecture", "testing", "review", "lessons"} \X (1..MaxIterations))
      BY <1>1, <1>6 DEF StageDone, TypeOK
    <2>2. concerns' \in BOOLEAN
      BY <1>1 DEF StageDone, Verdicts, TypeOK
    <2>3. pc' \in PC
      BY <1>5 DEF PC
    <2>4. Len(CoreStages(workflow)) \in {1, 5}
      BY DEF CoreStages
    <2>5. at' \in 1..Len(CoreStages(workflow)')
      BY <1>1, <1>5, <2>4 DEF TypeOK, CoreStages
    <2> QED
      BY <1>1, <1>3, <1>4, <1>5, <2>1, <2>2, <2>3, <2>5 DEF TypeOK
  <1>8. LoopShape'
    BY <1>5 DEF LoopShape
  <1>9. PersistedIsDocumented'
    <2> SUFFICES ASSUME workflow' # "direct", NEW h \in {"design", "testing", "review"}, row'.text[h] # 0
                 PROVE  <<Section[h], row'.text[h]>> \in docs'
      BY DEF PersistedIsDocumented
    <2>1. CASE h = Stage
      <3>1. row'.text[h] = iteration /\ Section[h] # "none"
        <4>1. Stage # "chronicle" /\ Section[h] # "none"
          BY <2>1 DEF Section
        <4> QED BY <1>0, <1>2, <1>3, <2>1, <4>1
      <3> QED BY <2>1, <3>1 DEF StageDone
    <2>2. CASE h # Stage
      <3>1. row'.text[h] = row.text[h]
        BY <1>1, <1>3, <2>2 DEF TypeOK, Handlers
      <3>2. <<Section[h], row.text[h]>> \in docs
        BY <3>1, <1>5 DEF Inv, PersistedIsDocumented
      <3> QED BY <3>1, <3>2 DEF StageDone
    <2> QED BY <2>1, <2>2
  <1>10. ASSUME workflow = "generate_code"
         PROVE  ArtifactsInOrder' /\ LoopEndsWithLastStage' /\ RowMirrorsArtifacts' /\ ResultIsCoherent'
    <2>0. ArtifactsInOrder /\ LoopEndsWithLastStage /\ RowMirrorsArtifacts /\ ResultIsCoherent
      BY <1>10 DEF Inv, PipelineInv
    <2>1. /\ Len(CoreStages(workflow)) = 5 /\ at \in 1..5
          /\ \A h \in Handlers : Order(h) = at <=> h = Stage
          /\ Stage = "chronicle" <=> at = 5
          /\ Stage = "design" <=> at = 1
      BY <1>1, <1>10, StageAt
    <2>2. pc = "calling" /\ iteration \in 1..MaxIterations /\ MaxIterations \in Nat
      BY <1>1, PlanAssumption DEF StageDone, TypeOK
    <2>3. ASSUME NEW h \in Handlers
          PROVE  /\ Order(h) <= at => artifacts'[h] = iteration
                 /\ Order(h) > at => artifacts'[h] = iteration - 1
      <3>1. Order(h) \in 1..5
        BY OrderNumbers
      <3>2. CASE h = Stage
        BY <1>1, <1>4, <2>1, <3>2 DEF TypeOK
      <3>3. CASE h # Stage
        <4>1. artifacts'[h] = artifacts[h] /\ Order(h) # at
          BY <1>1, <1>4, <2>1, <3>3 DEF TypeOK
        <4> QED BY <2>0, <2>1, <3>1, <4>1 DEF ArtifactsInOrder
      <3> QED BY <3>2, <3>3
    <2>4. ArtifactsInOrder'
      <3> SUFFICES ASSUME NEW h \in Handlers
                   PROVE  /\ Order(h) < at' => artifacts'[h] = iteration
                          /\ Order(h) > at' => artifacts'[h] = iteration - 1
                          /\ Order(h) = at' => \/ artifacts'[h] = iteration - 1
                                               \/ artifacts'[h] = iteration /\ pc' \notin {"start", "calling"}
        BY <1>5 DEF ArtifactsInOrder, Order
      <3>0. /\ Order(h) <= at => artifacts'[h] = iteration
            /\ Order(h) > at => artifacts'[h] = iteration - 1
        BY <2>3
      <3>1. Order(h) \in 1..5 /\ at \in 1..5
        BY <2>1, OrderNumbers
      <3>2. CASE at' = at /\ pc' \notin {"start", "calling"}
        BY <2>3, <3>0, <3>1, <3>2
      <3>3. CASE at' = at + 1
        BY <3>0, <3>1, <3>3
      <3> QED BY <1>5, <3>2, <3>3
    <2>5. LoopEndsWithLastStage'
      <3>1. plan = iteration - 1
        BY <2>0, <2>2 DEF LoopEndsWithLastStage, Awaiting
      <3>2. at = 5 => artifacts'["chronicle"] = iteration
        <4>1. Order("chronicle") = 5 /\ "chronicle" \in Handlers
          BY DEF Handlers, Order
        <4>2. Order("chronicle") <= at => artifacts'["chronicle"] = iteration
          BY <2>3, <4>1, Zenon
        <4> QED BY <2>1, <4>1, <4>2
      <3> QED BY <1>5, <2>1, <3>1, <3>2 DEF LoopEndsWithLastStage, Awaiting
    <2>6. RowMirrorsArtifacts'
      <3>1. ASSUME NEW h \in Handlers \ {"chronicle"} PROVE row'.text[h] = artifacts'[h]
        BY <1>1, <1>3, <1>4, <2>0, <3>1 DEF RowMirrorsArtifacts, TypeOK
      <3>2. artifacts'["design"] = iteration
        <4>1. Order("design") = 1 /\ "design" \in Handlers
          BY DEF Handlers, Order
        <4>2. Order("design") <= at => artifacts'["design"] = iteration
          BY <2>3, <4>1, Zenon
        <4> QED BY <2>1, <4>1, <4>2
      <3> QED BY <1>3, <3>1, <3>2 DEF RowMirrorsArtifacts
    <2>7. ResultIsCoherent'
      BY <1>5, <2>0 DEF ResultIsCoherent
    <2> QED BY <2>4, <2>5, <2>6, <2>7
  <1> QED
    BY <1>5, <1>7, <1>8, <1>9, <1>10 DEF Inv, PipelineInv

\* The single model call of a direct plan.
LEMMA DirectDoneInv == Inv /\ DirectDone => Inv'
  <1> SUFFICES ASSUME Inv, DirectDone PROVE Inv'
    OBVIOUS
  <1>0. /\ iteration \in 0..MaxIterations /\ row.text \in [Handlers -> 0..MaxIterations]
        /\ artifacts \in [Handlers -> 0..MaxIterations] /\ "implementation" \in Handlers
    BY PlanAssumption DEF Inv, TypeOK, Handlers
  <1>1. artifacts' \in [Handlers -> 0..MaxIterations]
    BY <1>0 DEF DirectDone
  <1>2. [row.text EXCEPT !["implementation"] = iteration] \in [Handlers -> 0..MaxIterations]
    BY <1>0
  <1>3. row' \in [status: {"running", "awaiting_confirmation"} \cup Terminal, iterations: 0..MaxIterations,
                  plan: 0..MaxIterations, text: [Handlers -> 0..MaxIterations]]
    <2>1. row' = row \/ row' = [row EXCEPT !.text = [row.text EXCEPT !["implementation"] = iteration]]
      BY DEF DirectDone, Inv, TypeOK
    <2> QED BY <1>2, <2>1 DEF Inv, TypeOK
  <1>4. pc' \in {"stopped", "remembering"} /\ UNCHANGED <<workflow, agent, at, iteration, plan, concerns, docs, result>>
    BY DEF DirectDone
  <1>5. TypeOK'
    BY <1>1, <1>3, <1>4 DEF Inv, TypeOK, PC, CoreStages
  <1>6. workflow' = "direct"
    BY DEF DirectDone
  <1> QED
    BY <1>4, <1>5, <1>6 DEF Inv, LoopShape, PipelineInv, PersistedIsDocumented

\* The next iteration starts below the bound, with the new plan.
LEMMA ReplannedInv == Inv /\ Replanned => Inv'
  <1> SUFFICES ASSUME Inv, Replanned PROVE Inv'
    OBVIOUS
  <1>0. /\ workflow = "generate_code" /\ pc = "replanning"
        /\ iteration \in 1..MaxIterations /\ MaxIterations \in Nat
    BY PlanAssumption DEF Inv, TypeOK, LoopShape, Replanned
  <1>1. ArtifactsInOrder /\ LoopEndsWithLastStage /\ RowMirrorsArtifacts /\ ResultIsCoherent
    BY <1>0 DEF Inv, PipelineInv
  <1>2. at = 5 /\ artifacts["chronicle"] = iteration /\ iteration < MaxIterations /\ plan = iteration - 1
    BY <1>0, <1>1 DEF LoopEndsWithLastStage, Awaiting
  <1>3. /\ UNCHANGED <<workflow, agent, artifacts, concerns, docs, result>>
        /\ plan' = iteration
        /\ \/ pc' = "stopped" /\ at' = at /\ iteration' = iteration
           \/ pc' = "calling" /\ at' = 1 /\ iteration' = iteration + 1
    BY DEF Replanned, FirstStage, NextIteration
  <1>4. /\ row'.text = row.text /\ row'.iterations = row.iterations
        /\ row' \in [status: {"running", "awaiting_confirmation"} \cup Terminal, iterations: 0..MaxIterations,
                     plan: 0..MaxIterations, text: [Handlers -> 0..MaxIterations]]
    <2>1. row' = [row EXCEPT !.plan = iteration] /\ iteration \in 0..MaxIterations
      BY <1>0 DEF Replanned
    <2> QED BY <2>1 DEF Inv, TypeOK
  <1>5. TypeOK'
    <2>1. pc' \in PC
      BY <1>3 DEF PC
    <2>2. at' \in 1..Len(CoreStages(workflow)')
      <3>1. CoreStages(workflow)' = <<"design", "implementation", "testing", "review", "chronicle">>
        BY <1>0, <1>3 DEF CoreStages
      <3>2. at' = 1 \/ at' = 5
        BY <1>2, <1>3
      <3> QED BY <3>1, <3>2
    <2>3. iteration' \in 1..MaxIterations /\ plan' \in 0..MaxIterations
      BY <1>0, <1>2, <1>3
    <2> QED BY <1>3, <1>4, <2>1, <2>2, <2>3 DEF Inv, TypeOK
  <1>6. LoopShape' /\ PersistedIsDocumented'
    BY <1>3, <1>4 DEF Inv, LoopShape, PersistedIsDocumented
  <1>7. ASSUME NEW h \in Handlers PROVE artifacts[h] = iteration
    <2>1. Order(h) \in 1..5 /\ (Order(h) = 5 => h = "chronicle")
      BY DEF Order, Handlers
    <2> QED BY <1>1, <1>2, <2>1 DEF ArtifactsInOrder
  <1>8. ArtifactsInOrder'
    <2> SUFFICES ASSUME NEW h \in Handlers
                 PROVE  /\ Order(h) < at' => artifacts'[h] = iteration'
                        /\ Order(h) > at' => artifacts'[h] = iteration' - 1
                        /\ Order(h) = at' => \/ artifacts'[h] = iteration' - 1
                                             \/ artifacts'[h] = iteration' /\ pc' \notin {"start", "calling"}
      BY DEF ArtifactsInOrder, Order
    <2>1. Order(h) \in 1..5 /\ artifacts'[h] = iteration
      BY <1>3, <1>7, OrderNumbers
    <2> QED BY <1>0, <1>2, <1>3, <2>1
  <1>9. LoopEndsWithLastStage'
    BY <1>0, <1>3 DEF LoopEndsWithLastStage, Awaiting
  <1>10. RowMirrorsArtifacts' /\ ResultIsCoherent'
    BY <1>1, <1>3, <1>4 DEF RowMirrorsArtifacts, ResultIsCoherent
  <1> QED
    BY <1>5, <1>6, <1>8, <1>9, <1>10 DEF Inv, PipelineInv

\* The result is assembled after the last stage, from one iteration.
LEMMA CompleteInv == Inv /\ Complete => Inv'
  <1> SUFFICES ASSUME Inv, Complete PROVE Inv'
    OBVIOUS
  <1>1. /\ UNCHANGED <<workflow, agent, at, iteration, plan, artifacts, concerns, docs>>
        /\ pc = "remembering" /\ pc' = "completed" /\ result' = [plan |-> plan, text |-> artifacts]
    BY DEF Complete, FinalResult
  <1>2. /\ row'.text = row.text /\ row'.iterations = row.iterations
        /\ row' \in [status: {"running", "awaiting_confirmation"} \cup Terminal, iterations: 0..MaxIterations,
                     plan: 0..MaxIterations, text: [Handlers -> 0..MaxIterations]]
    BY DEF Complete, Inv, TypeOK, Terminal
  <1>3. TypeOK'
    BY <1>1, <1>2 DEF Inv, TypeOK, PC, CoreStages
  <1>4. LoopShape' /\ PersistedIsDocumented'
    BY <1>1, <1>2 DEF Inv, LoopShape, PersistedIsDocumented
  <1>5. ASSUME workflow = "generate_code"
        PROVE  ArtifactsInOrder' /\ LoopEndsWithLastStage' /\ RowMirrorsArtifacts' /\ ResultIsCoherent'
    <2>1. ArtifactsInOrder /\ LoopEndsWithLastStage /\ RowMirrorsArtifacts
      BY <1>5 DEF Inv, PipelineInv
    <2>2. at = 5 /\ artifacts["chronicle"] = iteration /\ plan = iteration - 1
      BY <1>1, <2>1 DEF LoopEndsWithLastStage, Awaiting
    <2>3. ASSUME NEW h \in Handlers PROVE artifacts[h] = iteration
      <3>1. Order(h) \in 1..5 /\ (Order(h) = 5 => h = "chronicle")
        BY DEF Order, Handlers
      <3> QED BY <2>1, <2>2, <3>1 DEF ArtifactsInOrder
    <2>4. ArtifactsInOrder'
      BY <1>1, <2>1 DEF ArtifactsInOrder, Order
    <2>5. LoopEndsWithLastStage' /\ RowMirrorsArtifacts'
      BY <1>1, <1>2, <2>1 DEF LoopEndsWithLastStage, RowMirrorsArtifacts, Awaiting
    <2>6. ResultIsCoherent'
      <3>1. iteration \in Int
        BY DEF Inv, TypeOK
      <3>2. result'.plan + 1 = iteration /\ result'.text = artifacts
        BY <1>1, <2>2, <3>1
      <3> QED BY <2>3, <3>2 DEF ResultIsCoherent
    <2> QED BY <2>4, <2>5, <2>6
  <1> QED
    BY <1>1, <1>3, <1>4, <1>5 DEF Inv, PipelineInv

\* Every step preserves the invariant.
LEMMA InvNext == Inv /\ [Next]_vars => Inv'
  <1> SUFFICES ASSUME Inv, [Next]_vars PROVE Inv'
    OBVIOUS
  <1>0. row.status \in {"running", "awaiting_confirmation"} \cup Terminal /\ row = [row EXCEPT !.status = row.status]
    BY DEF Inv, TypeOK
  <1>1. CASE Begin
    <2>1. UNCHANGED <<workflow, agent, at, iteration, plan, artifacts, concerns, docs, result>>
      BY <1>1 DEF Begin
    <2>2. pc = "start" /\ pc' \in {"stopped", "calling"} /\ row' = [row EXCEPT !.status = row.status]
      BY <1>0, <1>1 DEF Begin
    <2> QED BY <1>0, <2>1, <2>2, LeavingLoop
  <1>2. CASE DirectDone
    BY <1>2, DirectDoneInv
  <1>3. CASE StageDone
    BY <1>3, StageDoneInv
  <1>4. CASE DocumentRefused
    <2>1. /\ UNCHANGED <<workflow, agent, at, iteration, plan, artifacts, concerns, docs, result>>
          /\ pc' = "refused" /\ row' = [row EXCEPT !.status = "failed"]
      BY <1>4 DEF DocumentRefused, LeftByRefusal
    <2> QED BY <2>1, LeavingLoop DEF Terminal
  <1>5. CASE ModelFails
    <2>1. /\ UNCHANGED <<workflow, agent, at, iteration, plan, artifacts, concerns, docs, result>>
          /\ pc' = "raised" /\ row' = [row EXCEPT !.status = "failed"]
      BY <1>5 DEF ModelFails
    <2> QED BY <2>1, LeavingLoop DEF Terminal
  <1>6. CASE Replanned
    BY <1>6, ReplannedInv
  <1>7. CASE Complete
    BY <1>7, CompleteInv
  <1>8. CASE RevisionFails
    <2>1. /\ UNCHANGED <<workflow, agent, at, iteration, plan, artifacts, concerns, docs, result>>
          /\ pc' = pc /\ row' = [row EXCEPT !.status = "awaiting_confirmation"]
      BY <1>8 DEF RevisionFails
    <2> QED BY <2>1, LeavingLoop
  <1>9. CASE Cancel
    <2>1. /\ UNCHANGED <<workflow, agent, at, iteration, plan, artifacts, concerns, docs, result>>
          /\ pc' = pc /\ row' = [row EXCEPT !.status = "cancelled"]
      BY <1>9 DEF Cancel
    <2> QED BY <2>1, LeavingLoop DEF Terminal
  <1>10. CASE Interrupt
    <2>1. /\ UNCHANGED <<workflow, agent, at, iteration, plan, artifacts, concerns, docs, result>>
          /\ pc' = "interrupted"
      BY <1>10 DEF Interrupt
    <2>2. PICK s \in {"running", "awaiting_confirmation"} \cup Terminal : row' = [row EXCEPT !.status = s]
      BY <1>0, <1>10 DEF Interrupt, Terminal
    <2> QED BY <2>1, <2>2, LeavingLoop
  <1>11. CASE UNCHANGED vars
    <2>1. /\ UNCHANGED <<workflow, agent, at, iteration, plan, artifacts, concerns, docs, result>>
          /\ pc' = pc /\ row' = [row EXCEPT !.status = row.status]
      BY <1>0, <1>11 DEF vars
    <2> QED BY <1>0, <2>1, LeavingLoop
  <1> QED
    BY <1>1, <1>2, <1>3, <1>4, <1>5, <1>6, <1>7, <1>8, <1>9, <1>10, <1>11 DEF Next, Execute

\* The strengthened invariant of the whole execution.
THEOREM InvariantHolds == Spec => []Inv
  BY InvInit, InvNext, PTL DEF Spec

-----------------------------------------------------------------------------

\* Types and bounds: the review loop of MultiStageExecutionPlan.execute() never
\* exceeds max_iterations, and no text stems from an iteration beyond it.
THEOREM TypeCorrect == Spec => []TypeOK
  <1>1. Inv => TypeOK
    BY DEF Inv
  <1> QED BY <1>1, InvariantHolds, PTL

\* The loop replaces the artifacts of an iteration stage by stage, one plan
\* behind, and replans below the bound only.
THEOREM PipelineInvariant == Spec => []PipelineInv
  <1>1. Inv => PipelineInv
    BY DEF Inv
  <1> QED BY <1>1, InvariantHolds, PTL

\* _build_final_result() is given the texts of one iteration and the plan they
\* were made from, however often the review asked for another round.
THEOREM ResultsAreCoherent == Spec => []ResultIsCoherent
  <1>1. Inv => ResultIsCoherent
    BY DEF Inv, PipelineInv, ResultIsCoherent
  <1> QED BY <1>1, InvariantHolds, PTL

\* The persisted artifacts are those of at most two iterations, in pipeline
\* order, and review_iterations belongs to the newest.
THEOREM RowsAreInPipelineOrder == Spec => []RowInPipelineOrder
  <1>1. Inv => RowInPipelineOrder
    <2> SUFFICES ASSUME Inv, workflow = "generate_code"
                 PROVE  /\ row.iterations = row.text["design"]
                        /\ row.text["implementation"] \in {row.text["design"], row.text["design"] - 1}
                        /\ row.text["testing"] \in {row.text["design"] - 1, row.text["implementation"]}
                        /\ row.text["review"] \in {row.text["design"] - 1, row.text["testing"]}
      BY DEF RowInPipelineOrder
    <2>1. ArtifactsInOrder /\ RowMirrorsArtifacts
      BY DEF Inv, PipelineInv
    <2>2. at \in 1..5 /\ iteration \in 1..MaxIterations /\ MaxIterations \in Nat
      BY StageAt, PlanAssumption DEF Inv, TypeOK
    <2>3. /\ Order("design") = 1 /\ Order("implementation") = 2
          /\ Order("testing") = 3 /\ Order("review") = 4
          /\ {"design", "implementation", "testing", "review"} \subseteq Handlers \ {"chronicle"}
      BY DEF Order, Handlers
    <2>4. /\ row.iterations = artifacts["design"] /\ row.text["design"] = artifacts["design"]
          /\ row.text["implementation"] = artifacts["implementation"]
          /\ row.text["testing"] = artifacts["testing"] /\ row.text["review"] = artifacts["review"]
      BY <2>1, <2>3 DEF RowMirrorsArtifacts
    <2>5. ASSUME NEW h \in Handlers
          PROVE  /\ Order(h) < at => artifacts[h] = iteration
                 /\ Order(h) > at => artifacts[h] = iteration - 1
                 /\ Order(h) = at => artifacts[h] \in {iteration, iteration - 1}
      BY <2>1 DEF ArtifactsInOrder
    <2>6. /\ artifacts["design"] \in {iteration, iteration - 1}
          /\ at > 1 => artifacts["design"] = iteration
      BY <2>2, <2>3, <2>5
    <2>7. /\ at < 2 => artifacts["implementation"] = iteration - 1
          /\ at > 2 => artifacts["implementation"] = iteration
          /\ artifacts["implementation"] \in {iteration, iteration - 1}
      BY <2>2, <2>3, <2>5
    <2>8. /\ at < 3 => artifacts["testing"] = iteration - 1
          /\ at > 3 => artifacts["testing"] = iteration
          /\ artifacts["testing"] \in {iteration, iteration - 1}
      BY <2>2, <2>3, <2>5
    <2>9. /\ at < 4 => artifacts["review"] = iteration - 1
          /\ at > 4 => artifacts["review"] = iteration
          /\ artifacts["review"] \in {iteration, iteration - 1}
      BY <2>2, <2>3, <2>5
    <2> QED BY <2>2, <2>4, <2>6, <2>7, <2>8, <2>9
  <1> QED BY <1>1, InvariantHolds, PTL

\* A design, test or review text is in agent_runs only if its document is on disk.
THEOREM PersistedTextsAreDocumented == Spec => []PersistedIsDocumented
  <1>1. Inv => PersistedIsDocumented
    BY DEF Inv
  <1> QED BY <1>1, InvariantHolds, PTL

\* A cancelled run starts no further model call, given the checks the workflow
\* definitions ask for.
THEOREM CancelledRunsStop == Spec => CancelStopsWork
  <1>1. Inv /\ [Next]_vars =>
          [LET started == \/ pc' = "calling" /\ <<pc, at, iteration>> # <<pc', at', iteration'>>
                          \/ pc' = "replanning" /\ pc # "replanning"
           IN  started /\ workflow # "learning" => ~Cancelled]_vars
    <2> SUFFICES ASSUME Inv, Next, workflow # "learning", Cancelled,
                        \/ pc' = "calling" /\ <<pc, at, iteration>> # <<pc', at', iteration'>>
                        \/ pc' = "replanning" /\ pc # "replanning"
                 PROVE  FALSE
      BY DEF vars
    <2>1. workflow \in {"generate_code", "direct"}
      BY PlanAssumption DEF Inv, TypeOK
    <2>2. CASE Begin
      <3>1. pc = "start"
        BY <2>2 DEF Begin
      <3>2. workflow = "generate_code" => Stage = "design"
        <4> SUFFICES ASSUME workflow = "generate_code" PROVE at = 1
          BY StageAt DEF Inv
        <4> QED BY <3>1 DEF Inv, LoopShape
      <3> QED BY <2>1, <2>2, <3>2 DEF Begin, ChecksBefore
    <2>3. CASE StageDone
      BY <2>1, <2>3 DEF StageDone, ChecksAfter
    <2>4. CASE Replanned
      BY <2>4 DEF Replanned
    <2>5. CASE ~(Begin \/ StageDone \/ Replanned)
      BY <2>5 DEF Next, Execute, DirectDone, DocumentRefused, ModelFails, Complete, RevisionFails, Cancel, Interrupt
    <2> QED BY <2>2, <2>3, <2>4, <2>5
  <1> QED BY <1>1, InvariantHolds, PTL DEF Spec, CancelStopsWork
=============================================================================
