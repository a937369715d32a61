--------------------------- MODULE MCRetryGateway ---------------------------
(* Model-checking instance of RetryGateway: a call in every mode over three   *)
(* providers whose budgets differ and that compete for the shared one.        *)
EXTENDS RetryGateway

CONSTANTS c1, p1, p2, p3

OneCall == {c1}
ThreeProviders == {p1, p2, p3}
AllModes == {"single", "sectioned", "first_success"}
OwnBudgets == [p \in Providers |-> IF p = p1 THEN 2 ELSE 1]
=============================================================================
