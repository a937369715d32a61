----------------------------- MODULE JobLeases -----------------------------
(***************************************************************************)
(* run_jobs shared by several runtime processes: claim_job(), the lease    *)
(* and its heartbeat, complete_job() and fail_job(), as the worker calls   *)
(* them.  dispatch_run() in one process returns the active job another     *)
(* process is working on, so the same job id may be delivered to every     *)
(* worker, any number of times.  Worker ids are uuids: a process that ends *)
(* never returns under the same id.                                        *)
(*                                                                         *)
(* Time is counted down: lease[j] is the time left until lease_expires_at, *)
(* timer[w][j] the time left until the heartbeat of w wakes up.  Every job *)
(* has a run of its own, approved and queued.  Unlike RunLifecycle this    *)
(* module lets the tasks of one process interleave freely: the processes   *)
(* it is about do.                                                         *)
(*                                                                         *)
(* As in RunLifecycle, definitions directly above another one with the     *)
(* same parameters (ClaimableAnytime above Claimable, ...) are faulty      *)
(* variants of it.                                                         *)
(***************************************************************************)
EXTENDS Integers

CONSTANTS
    Workers,            \* worker ids
    NoWorker,           \* lease_owner IS NULL
    Jobs,               \* job ids
    PlanningJobs,       \* those of type plan_run; the others are execute_run
    Lease,              \* runtime.job_lease_seconds
    HeartbeatInterval,  \* runtime.job_heartbeat_interval_seconds
    MaxDelay,           \* how late the event loop may wake a timer
    DatabaseMayFail     \* whether a write may raise (the database is locked)

ASSUME LeaseAssumption ==
    /\ NoWorker \notin Workers
    /\ PlanningJobs \subseteq Jobs
    /\ Lease \in Nat \ {0}              \* Field(ge=1)
    /\ HeartbeatInterval \in Nat \ {0}  \* Field(ge=1)
    /\ MaxDelay \in Nat
    /\ DatabaseMayFail \in BOOLEAN

\* What the configuration does not check and the lease protocol relies on.
LeaseCoversHeartbeat == HeartbeatInterval + MaxDelay <= Lease /\ ~DatabaseMayFail

VARIABLES
    process,  \* [Workers -> {"up", "stopping", "down"}]
    row,      \* run_jobs: status and lease_owner
    lease,    \* time left of the lease; -1 once lease_expires_at < now
    run,      \* status of the job's run
    pc,       \* the task of a worker for a job
    timer,    \* time left until its heartbeat
    beating,  \* whether its heartbeat task is alive
    starts,   \* history: times the run of an EXECUTE_RUN job was started
    ended     \* history: some process ended without finishing its tasks

vars == <<process, row, lease, run, pc, timer, beating, starts, ended>>

JobRow == [status: {"queued", "running", "completed", "failed"}, owner: Workers \cup {NoWorker}]
RunStatus == {"queued", "running", "completed", "failed"}
Terminal == {"completed", "failed"}
PC == {"idle", "spawned", "claimed", "processing", "completing", "failing", "failing_run"}

\* Between claim_job() and complete_job() or fail_job().
Holding == {"claimed", "processing", "completing", "failing"}

Init ==
    /\ process = [w \in Workers |-> "up"]
    /\ row = [j \in Jobs |-> [status |-> "queued", owner |-> NoWorker]]
    /\ lease = [j \in Jobs |-> -1]
    /\ run = [j \in Jobs |-> "queued"]
    /\ pc = [w \in Workers |-> [j \in Jobs |-> "idle"]]
    /\ timer = [w \in Workers |-> [j \in Jobs |-> 0]]
    /\ beating = [w \in Workers |-> [j \in Jobs |-> FALSE]]
    /\ starts = [j \in Jobs |-> 0]
    /\ ended = FALSE

-----------------------------------------------------------------------------

\* dispatch_run(), the queue and the consumer of process w hand it an active
\* job; an id that is already active in w is ignored.
Deliver(w, j) ==
    /\ process[w] = "up" /\ pc[w][j] = "idle"
    /\ row[j].status \in {"queued", "running"}
    /\ pc' = [pc EXCEPT ![w][j] = "spawned"]
    /\ UNCHANGED <<process, row, lease, run, timer, beating, starts, ended>>

\* The WHERE clause of claim_job().
ClaimableAnytime(j) == row[j].status \in {"queued", "running"}
ClaimableAtExpiry(j) == \/ row[j].status = "queued"
                        \/ row[j].status = "running" /\ lease[j] <= 0
Claimable(j) == \/ row[j].status = "queued"
                \/ row[j].status = "running" /\ lease[j] < 0

Claim(w, j) ==
    /\ pc[w][j] = "spawned" /\ process[w] = "up"
    /\ Claimable(j)
    /\ row' = [row EXCEPT ![j] = [status |-> "running", owner |-> w]]
    /\ lease' = [lease EXCEPT ![j] = Lease]
    /\ timer' = [timer EXCEPT ![w][j] = HeartbeatInterval]
    /\ beating' = [beating EXCEPT ![w][j] = TRUE]
    /\ pc' = [pc EXCEPT ![w][j] = "claimed"]
    /\ UNCHANGED <<process, run, starts, ended>>

\* claim_job() updated nothing, or the task was cancelled before its first step.
ClaimRefused(w, j) ==
    /\ pc[w][j] = "spawned"
    /\ ~Claimable(j) \/ process[w] = "stopping"
    /\ pc' = [pc EXCEPT ![w][j] = "idle"]
    /\ UNCHANGED <<process, row, lease, run, timer, beating, starts, ended>>

\* process_run() and complete_planning(): the former starts queued runs only,
\* the latter plans whatever it finds.
MayBeginActive(j) == run[j] \notin Terminal
MayBegin(j) == j \in PlanningJobs \/ run[j] = "queued"

Begin(w, j) ==
    /\ pc[w][j] = "claimed" /\ process[w] = "up"
    /\ MayBegin(j)
    /\ pc' = [pc EXCEPT ![w][j] = "processing"]
    /\ run' = [run EXCEPT ![j] = IF j \in PlanningJobs THEN @ ELSE "running"]
    /\ starts' = [starts EXCEPT ![j] = IF j \in PlanningJobs THEN @ ELSE @ + 1]
    /\ UNCHANGED <<process, row, lease, timer, beating, ended>>

\* process_run() returns early; the job completes nevertheless.
Skip(w, j) ==
    /\ pc[w][j] = "claimed" /\ process[w] = "up"
    /\ ~MayBegin(j)
    /\ pc' = [pc EXCEPT ![w][j] = "completing"]
    /\ UNCHANGED <<process, row, lease, run, timer, beating, starts, ended>>

Succeed(w, j) ==
    /\ pc[w][j] = "processing" /\ process[w] = "up"
    /\ pc' = [pc EXCEPT ![w][j] = "completing"]
    /\ run' = [run EXCEPT ![j] = IF j \in PlanningJobs THEN @ ELSE "completed"]
    /\ UNCHANGED <<process, row, lease, timer, beating, starts, ended>>

Raise(w, j) ==
    /\ pc[w][j] = "processing" /\ process[w] = "up"
    /\ pc' = [pc EXCEPT ![w][j] = "failing"]
    /\ run' = [run EXCEPT ![j] = "failed"]
    /\ UNCHANGED <<process, row, lease, timer, beating, starts, ended>>

\* The reads and the compare-and-set of process_run() are inside the handler, too.
BeginRaises(w, j) ==
    /\ DatabaseMayFail
    /\ pc[w][j] = "claimed" /\ process[w] = "up" /\ j \notin PlanningJobs
    /\ run' = [run EXCEPT ![j] = "failed"]
    /\ pc' = [pc EXCEPT ![w][j] = "failing"]
    /\ UNCHANGED <<process, row, lease, timer, beating, starts, ended>>

\* complete_job() raised: the handler around process_run() fails the run, even
\* one that has just been completed.
CompleteJobRaises(w, j) ==
    /\ DatabaseMayFail
    /\ pc[w][j] = "completing" /\ j \notin PlanningJobs
    /\ run' = [run EXCEPT ![j] = "failed"]
    /\ pc' = [pc EXCEPT ![w][j] = "failing"]
    /\ UNCHANGED <<process, row, lease, timer, beating, starts, ended>>

\* A database error nobody handles: in claim_job(), anywhere in a planning job, which
\* catches PromptSubmissionError only, in what the handler of an execution job and
\* _mark_shutdown_interrupted() write themselves.  The task dies with its heartbeat;
\* a job it had claimed stays running until its lease runs out.
UnhandledEverywhere(w, j) == pc[w][j] = "processing"
Unhandled(w, j) == DatabaseMayFail /\ pc[w][j] # "idle"

Die(w, j) ==
    /\ Unhandled(w, j)
    /\ pc' = [pc EXCEPT ![w][j] = "idle"]
    /\ beating' = [beating EXCEPT ![w][j] = FALSE]
    /\ UNCHANGED <<process, row, lease, run, timer, starts, ended>>

\* complete_job() and fail_job(): neither looks at lease_owner.
Finish(j, status) == [row EXCEPT ![j] = [status |-> status, owner |-> NoWorker]]

CompleteJob(w, j) ==
    /\ pc[w][j] = "completing"
    /\ row' = Finish(j, "completed")
    /\ pc' = [pc EXCEPT ![w][j] = "idle"]
    /\ beating' = [beating EXCEPT ![w][j] = FALSE]
    /\ UNCHANGED <<process, lease, run, timer, starts, ended>>

FailJob(w, j) ==
    /\ pc[w][j] = "failing"
    /\ row' = Finish(j, "failed")
    /\ pc' = [pc EXCEPT ![w][j] = "idle"]
    /\ beating' = [beating EXCEPT ![w][j] = FALSE]
    /\ UNCHANGED <<process, lease, run, timer, starts, ended>>

-----------------------------------------------------------------------------

\* heartbeat_job(): renews the lease of a running job of this owner.
Renews(w, j) == row[j].status = "running" /\ row[j].owner = w

\* next_expiry: counted from now, not from the expiry it replaces.
NextExpiryFromLast(j) == lease[j] + Lease
NextExpiry(j) == Lease

Heartbeat(w, j) ==
    /\ beating[w][j] /\ timer[w][j] <= 0
    /\ lease' = [lease EXCEPT ![j] = IF Renews(w, j) THEN NextExpiry(j) ELSE @]
    /\ timer' = [timer EXCEPT ![w][j] = HeartbeatInterval]
    /\ UNCHANGED <<process, row, run, pc, beating, starts, ended>>

\* _heartbeat() handles TimeoutError only: any other exception ends it, unseen
\* by the task that processes the job.
HeartbeatDies(w, j) ==
    /\ DatabaseMayFail
    /\ beating[w][j] /\ timer[w][j] <= 0
    /\ beating' = [beating EXCEPT ![w][j] = FALSE]
    /\ UNCHANGED <<process, row, lease, run, pc, timer, starts, ended>>

\* The event loop wakes a live heartbeat at most MaxDelay late.
Punctual == \A w \in Workers, j \in Jobs : beating[w][j] => timer[w][j] > -MaxDelay

Tick ==
    /\ Punctual
    /\ lease' = [j \in Jobs |-> IF lease[j] < 0 THEN -1 ELSE lease[j] - 1]
    /\ timer' = [w \in Workers |-> [j \in Jobs |->
                     IF beating[w][j] THEN timer[w][j] - 1 ELSE timer[w][j]]]
    /\ UNCHANGED <<process, row, run, pc, beating, starts, ended>>

-----------------------------------------------------------------------------

\* BackgroundRunWorker.stop()
Stop(w) ==
    /\ process[w] = "up"
    /\ process' = [process EXCEPT ![w] = "stopping"]
    /\ UNCHANGED <<row, lease, run, pc, timer, beating, starts, ended>>

\* _mark_shutdown_interrupted(): first the job, then the run unless terminal.
Interrupt(w, j) ==
    /\ process[w] = "stopping" /\ pc[w][j] \in {"claimed", "processing"}
    /\ row' = Finish(j, "failed")
    /\ pc' = [pc EXCEPT ![w][j] = "failing_run"]
    /\ UNCHANGED <<process, lease, run, timer, beating, starts, ended>>

InterruptRun(w, j) ==
    /\ pc[w][j] = "failing_run"
    /\ run' = [run EXCEPT ![j] = IF @ \in Terminal THEN @ ELSE "failed"]
    /\ pc' = [pc EXCEPT ![w][j] = "idle"]
    /\ beating' = [beating EXCEPT ![w][j] = FALSE]
    /\ UNCHANGED <<process, row, lease, timer, starts, ended>>

\* The process exits, in good order or in the middle of its work.
Exit(w) ==
    /\ process[w] # "down"
    /\ process' = [process EXCEPT ![w] = "down"]
    /\ pc' = [pc EXCEPT ![w] = [j \in Jobs |-> "idle"]]
    /\ beating' = [beating EXCEPT ![w] = [j \in Jobs |-> FALSE]]
    /\ ended' = (ended \/ \E j \in Jobs : pc[w][j] \in Holding \cup {"failing_run"})
    /\ UNCHANGED <<row, lease, run, timer, starts>>

-----------------------------------------------------------------------------

Task(w, j) == \/ Deliver(w, j) \/ Claim(w, j) \/ ClaimRefused(w, j)
              \/ Begin(w, j) \/ Skip(w, j) \/ Succeed(w, j) \/ Raise(w, j)
              \/ BeginRaises(w, j) \/ Die(w, j) \/ CompleteJob(w, j) \/ CompleteJobRaises(w, j) \/ FailJob(w, j)
              \/ Heartbeat(w, j) \/ HeartbeatDies(w, j)
              \/ Interrupt(w, j) \/ InterruptRun(w, j)

Next ==
    \/ \E w \in Workers, j \in Jobs : Task(w, j)
    \/ \E w \in Workers : Stop(w) \/ Exit(w)
    \/ Tick

Spec == Init /\ [][Next]_vars

-----------------------------------------------------------------------------

\* The values of every variable: in particular the heartbeat of a claimed job is
\* never more than MaxDelay late and a lease never longer than configured.
TypeOK ==
    /\ process \in [Workers -> {"up", "stopping", "down"}]
    /\ row \in [Jobs -> JobRow]
    /\ lease \in [Jobs -> -1..Lease]
    /\ run \in [Jobs -> RunStatus]
    /\ pc \in [Workers -> [Jobs -> PC]]
    /\ timer \in [Workers -> [Jobs -> (-MaxDelay)..HeartbeatInterval]]
    /\ beating \in [Workers -> [Jobs -> BOOLEAN]]
    /\ starts \in [Jobs -> Nat]
    /\ ended \in BOOLEAN

\* As long as the lease outlives the longest pause between two heartbeats, no
\* job is worked on by two workers, however often it is delivered and however
\* workers stop, die and take over.
ExclusiveProcessing ==
    LeaseCoversHeartbeat =>
        \A j \in Jobs : \A v, w \in Workers :
            pc[v][j] \in Holding /\ pc[w][j] \in Holding => v = w

\* Under the same condition complete_job() and fail_job(), which do not look
\* at lease_owner, never overwrite the outcome of a job.
OutcomeFinal ==
    [][LeaseCoversHeartbeat =>
           \A j \in Jobs : row[j].status \in Terminal => row'[j] = row[j]]_vars

\* A run is started at most once even when leases are lost: a worker that
\* takes a job over from a live one finds its run started and leaves it alone.
ExecutesOnceAcrossWorkers == \A j \in Jobs \ PlanningJobs : starts[j] <= 1

\* A completed EXECUTE_RUN job means a finished run, unless a process died at
\* work: then the next owner skips the run that is "running" for ever.
CompletedJobMeansFinishedRun ==
    LeaseCoversHeartbeat /\ ~ended =>
        \A j \in Jobs \ PlanningJobs : row[j].status = "completed" => run[j] \in Terminal

-----------------------------------------------------------------------------
(* The inductive invariants behind these properties.                       *)

\* A worker that holds a job owns its row and renews the lease in time.
HolderOwnsLease ==
    LeaseCoversHeartbeat =>
        \A w \in Workers, j \in Jobs : pc[w][j] \in Holding =>
            /\ row[j].status = "running" /\ row[j].owner = w
            /\ beating[w][j]
            /\ lease[j] >= timer[w][j] + Lease - HeartbeatInterval

\* A started run never returns to "queued".
StartedOnce == \A j \in Jobs : starts[j] > 0 => starts[j] = 1 /\ run[j] # "queued"

\* A run is "running" on behalf of a task that will finish it, a job is completed
\* after its run was finished (process_run() before complete_job() in the worker).
FinishedProperly(k) ==
    /\ run[k] = "running" => \E w \in Workers : pc[w][k] \in {"processing", "failing_run"}
    /\ \A w \in Workers : /\ pc[w][k] = "completing" => run[k] \in Terminal
                          /\ pc[w][k] = "failing_run" => row[k].status = "failed"
    /\ row[k].status = "completed" => run[k] \in Terminal

\* No EXECUTE_RUN job leaves its run "running" behind: unless a process ended at
\* work, some task is still executing the run or about to fail it.
RunningHasTask ==
    LeaseCoversHeartbeat /\ ~ended => \A k \in Jobs \ PlanningJobs : FinishedProperly(k)
=============================================================================
