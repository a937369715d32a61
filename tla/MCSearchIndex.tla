--------------------------- MODULE MCSearchIndex ---------------------------
(* Model-checking instance of SearchIndex: two processes, two rows a table. *)
EXTENDS SearchIndex, TLC

CONSTANTS p1, p2, old, new

TwoProcesses == {p1, p2}
TwoRows == {old, new}

IndexSymmetry == Permutations(Processes) \cup Permutations(Rows)
=============================================================================
