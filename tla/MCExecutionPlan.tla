-------------------------- MODULE MCExecutionPlan --------------------------
(* Model-checking instances of ExecutionPlan: the three kinds of workflow,  *)
(* run by the packaged default agent "coder" or by an agent with a name of  *)
(* its own, for which there is no soul.                                     *)
EXTENDS ExecutionPlan

AllWorkflows == {"generate_code", "learning", "direct"}
BothAgents == {"coder", "custom"}
=============================================================================
