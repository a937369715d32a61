--------------------------- MODULE MCRunLifecycle ---------------------------
(* Model-checking instances of RunLifecycle: model values, symmetry.       *)
EXTENDS RunLifecycle, TLC

CONSTANTS r1, r2

OneRun == {r1}
TwoRuns == {r1, r2}

RunSymmetry == Permutations(Runs)
=============================================================================
