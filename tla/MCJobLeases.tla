---------------------------- MODULE MCJobLeases ----------------------------
(* Model-checking instances of JobLeases: two workers, a planning job and  *)
(* an execution job, or one job alone.                                     *)
EXTENDS JobLeases, TLC

CONSTANTS w1, w2, plan, exec

TwoWorkers == {w1, w2}
BothJobs == {plan, exec}
PlanOnly == {plan}
ExecOnly == {exec}
NoJob == {}

WorkerSymmetry == Permutations(Workers)
=============================================================================
