----------------------------- MODULE MCNotifier -----------------------------
(* Model-checking instances of Notifier: two execution jobs, with and         *)
(* without a poll limit.                                                      *)
EXTENDS Notifier

CONSTANTS j1, j2

TwoJobs == {j1, j2}
WithAndWithoutLimit == {0, 2}
=============================================================================
