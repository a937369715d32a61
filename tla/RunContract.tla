----------------------------- MODULE RunContract -----------------------------
(***************************************************************************)
(* What MergeMate promises about a run, without queues, jobs, planners,    *)
(* threads, processes and restarts: how the state its user can ask for may *)
(* move.  RunLifecycle is shown to implement this specification.           *)
(*                                                                         *)
(* The promise is the one the code keeps.  Two of its actions are weaker   *)
(* than the documents: Fail is possible at any time, because planning      *)
(* errors overwrite even a final status, and Reopen exists because a       *)
(* failed revision writes back the status it found.                        *)
(***************************************************************************)
CONSTANT Runs

VARIABLES
    status,    \* what /status shows; running and waiting_tool are "working"
    planned,   \* the run has a persisted plan
    approved,  \* the user, or the configuration, has accepted a plan
    started    \* work on the run has begun

contractVars == <<status, planned, approved, started>>

PublicStatus == {"absent", "awaiting", "queued", "working", "completed", "failed", "cancelled"}

Init ==
    /\ status = [r \in Runs |-> "absent"]
    /\ planned = [r \in Runs |-> FALSE]
    /\ approved = [r \in Runs |-> FALSE]
    /\ started = [r \in Runs |-> FALSE]

\* A prompt is accepted.
Accept(r) ==
    /\ status[r] = "absent"
    /\ \E s \in {"awaiting", "queued"} : status' = [status EXCEPT ![r] = s]
    /\ UNCHANGED <<planned, approved, started>>

\* A first plan is persisted; from then on there always is one.
Plan(r) ==
    /\ status[r] # "absent" /\ ~planned[r]
    /\ planned' = [planned EXCEPT ![r] = TRUE]
    /\ UNCHANGED <<status, approved, started>>

\* A run is approved once, and only when there is something to approve.
Approve(r) ==
    /\ status[r] \in {"awaiting", "queued"} /\ planned[r] /\ ~approved[r]
    /\ approved' = [approved EXCEPT ![r] = TRUE]
    /\ status' = [status EXCEPT ![r] = "queued"]
    /\ UNCHANGED <<planned, started>>

\* A run is cancelled before it is approved, never later.
Cancel(r) ==
    /\ status[r] = "awaiting" /\ ~approved[r]
    /\ status' = [status EXCEPT ![r] = "cancelled"]
    /\ UNCHANGED <<planned, approved, started>>

\* Work begins once, on an approved run; it may fail at once.
Start(r) ==
    /\ status[r] = "queued" /\ planned[r] /\ approved[r] /\ ~started[r]
    /\ started' = [started EXCEPT ![r] = TRUE]
    /\ \E s \in {"working", "failed"} : status' = [status EXCEPT ![r] = s]
    /\ UNCHANGED <<planned, approved>>

\* Only work that was begun completes, even if a planner has failed meanwhile.
Complete(r) ==
    /\ status[r] \in {"working", "failed"} /\ started[r]
    /\ status' = [status EXCEPT ![r] = "completed"]
    /\ UNCHANGED <<planned, approved, started>>

Fail(r) ==
    /\ status[r] # "absent"
    /\ status' = [status EXCEPT ![r] = "failed"]
    /\ UNCHANGED <<planned, approved, started>>

\* A run that was never approved may be offered to its user again.
Reopen(r) ==
    /\ status[r] = "failed" /\ planned[r] /\ ~approved[r]
    /\ status' = [status EXCEPT ![r] = "awaiting"]
    /\ UNCHANGED <<planned, approved, started>>

Next == \E r \in Runs :
    \/ Accept(r) \/ Plan(r) \/ Approve(r) \/ Cancel(r)
    \/ Start(r) \/ Complete(r) \/ Fail(r) \/ Reopen(r)

Spec == Init /\ [][Next]_contractVars
=============================================================================
