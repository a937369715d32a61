--------------------------- MODULE MCCommandLine ---------------------------
(* Model-checking instance of CommandLine: one command, two bot processes. *)
EXTENDS CommandLine

TwoLimits == {1, 3}
=============================================================================
