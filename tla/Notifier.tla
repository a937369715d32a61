------------------------------ MODULE Notifier ------------------------------
(***************************************************************************)
(* What the chat hears of one run: the notifications of the worker's jobs   *)
(* (TelegramRunLifecycleNotifier), the follow-up of the prompt handler, and *)
(* the polling watchers of progress_notifier.py with their two registries.  *)
(* Sends may fail; an action is the code between two awaits.                *)
(*                                                                         *)
(* The row is written with the operators of RunStore; the statuses running *)
(* and waiting_tool, and revisions of the plan, are not told apart.         *)
(*                                                                         *)
(* Definitions directly above another one with the same parameters are     *)
(* faulty variants of it.                                                  *)
(***************************************************************************)
EXTENDS Naturals, RunStore

CONSTANTS
    Confirmation,  \* workflow_control.require_confirmation
    ExecJobs,      \* execution jobs the run may get
    PollLimits,    \* settings of runtime.max_poll_iterations, 0 if it is not set
    MaxDetails,    \* bound: changes of review_iterations and of the tool event
    MaxOutages,    \* bound: sends that Telegram refuses
    None

ASSUME NotifierAssumption ==
    /\ Confirmation \in BOOLEAN
    /\ ExecJobs \cap {"plan", "chat"} = {}
    /\ PollLimits \subseteq Nat /\ MaxDetails \in Nat /\ MaxOutages \in Nat
    /\ None \notin {"plan", "approval"}

VARIABLES
    row,       \* the row of the run in agent_runs
    detail,    \* what else a snapshot shows: review iterations, latest tool event
    pc,        \* the planning job, the continuation of the chat, the execution jobs
    seen,      \* the status complete_planning() read before its await
    msg,       \* the message a coroutine is sending
    handler,   \* approve_command()
    watch,     \* the watcher tasks, named by who starts them
    polls,     \* poll_count
    last,      \* last_snapshot
    out,       \* the snapshot a watcher is sending
    registry,  \* progress_watchers
    delivered, \* the run is in terminal_deliveries
    announced, \* history: the outcomes the chat was told
    outages,   \* sends refused so far
    phase,     \* of the application
    limit      \* runtime.max_poll_iterations

runVars == <<row, detail, pc, seen, msg, handler>>
watchVars == <<watch, polls, last, out, registry, delivered>>
vars == <<runVars, watchVars, announced, outages, phase, limit>>

Planners == {"plan", "chat"}
Tasks == Planners \cup ExecJobs
Watchers == {"plan", "approval"}

PC == {"idle", "spawned", "drafting", "executing", "sending", "over"}
Busy == {"spawned", "drafting", "executing", "sending"}
Live == {"sleeping", "sending"}

Snapshot == RunStatus \X RunStage \X (0..MaxDetails)
CurrentSnapshot == <<row.status, row.stage, detail>>

Init ==
    /\ row = Create(IF Confirmation THEN "awaiting_confirmation" ELSE "queued")
    /\ detail = 0
    /\ pc \in {[t \in Tasks |-> IF t \in ExecJobs THEN "idle" ELSE IF t = "chat" THEN c ELSE "spawned"] :
                  c \in {"spawned", "over"}}
    /\ seen = [t \in Planners |-> "absent"]
    /\ msg = [t \in Tasks |-> "none"]
    /\ handler = "free"
    /\ watch = [w \in Watchers |-> "none"]
    /\ polls = [w \in Watchers |-> 0]
    /\ last = [w \in Watchers |-> None]
    /\ out = [w \in Watchers |-> None]
    /\ registry = None
    /\ delivered = FALSE
    /\ announced = {}
    /\ outages = 0
    /\ phase = "up"
    /\ limit \in PollLimits

-----------------------------------------------------------------------------
(* The run and what its coroutines tell the chat *)

\* A job id that has not been used.
Fresh(q) ==
    LET unused == {j \in ExecJobs : q[j] = "idle"}
    IN  {j \in unused : j = CHOOSE i \in unused : TRUE}

\* dispatch_run(): the active execution job of the run, or a new one.
Dispatched(q) ==
    IF \E j \in ExecJobs : q[j] \in {"spawned", "executing"} THEN {q}
    ELSE {[q EXCEPT ![j] = "spawned"] : j \in Fresh(q)}

\* _notify_job_completion() of a planning job.
PlanNotice(r) ==
    IF r.status = "failed" THEN "failed"
    ELSE IF r.status = "awaiting_confirmation" THEN "plan" ELSE "started"

\* notify_terminal() after an execution job: silent unless the run has ended.
ExecNotice(r) == IF r.status \in TerminalStatuses THEN r.status ELSE "none"

\* A coroutine goes on to send a message, or ends.
Tells(q, t, m) ==
    /\ pc' \in {[p EXCEPT ![t] = IF m = "none" THEN "over" ELSE "sending"] : p \in q}
    /\ msg' = [msg EXCEPT ![t] = m]

PlanBegins(t) ==
    /\ phase = "up" /\ pc[t] = "spawned"
    /\ pc' = [pc EXCEPT ![t] = "drafting"]
    /\ seen' = [seen EXCEPT ![t] = row.status]
    /\ UNCHANGED <<row, detail, msg, handler, watchVars, announced, outages, phase, limit>>

\* The continuation of the chat leaves it to the job to report a failure.
PlanFails(t) ==
    /\ phase = "up" /\ pc[t] = "drafting"
    /\ row' = UpdateStatus(row, "failed", "planning")
    /\ Tells({pc}, t, IF t = "plan" THEN PlanNotice(row') ELSE "none")
    /\ seen' = [seen EXCEPT ![t] = "absent"]
    /\ UNCHANGED <<detail, handler, watchVars, announced, outages, phase, limit>>

PlanSucceeds(t) ==
    /\ phase = "up" /\ pc[t] = "drafting"
    /\ LET author == IF t = "plan" THEN "worker" ELSE "chat"
           wait == seen[t] = "awaiting_confirmation"
       IN  /\ row' = IF wait THEN UpdatePlan(row, author, "awaiting_user_confirmation")
                     ELSE Approve(UpdatePlan(row, author, "queued_for_execution"))
           /\ Tells(IF wait THEN {pc} ELSE Dispatched(pc), t, IF t = "plan" THEN PlanNotice(row') ELSE "plan")
    /\ seen' = [seen EXCEPT ![t] = "absent"]
    /\ UNCHANGED <<detail, handler, watchVars, announced, outages, phase, limit>>

Executable(r) == r.approved /\ r.status = "queued"

ExecBegins(j) ==
    /\ phase = "up" /\ pc[j] = "spawned"
    /\ \/ /\ Executable(row)
          /\ row' = UpdateStatus(row, "running", "retrieve_context")
          /\ pc' = [pc EXCEPT ![j] = "executing"]
          /\ UNCHANGED msg
       \/ /\ ~Executable(row)
          /\ Tells({pc}, j, ExecNotice(row))
          /\ UNCHANGED row
    /\ UNCHANGED <<detail, seen, handler, watchVars, announced, outages, phase, limit>>

ExecStage(j) ==
    /\ phase = "up" /\ pc[j] = "executing"
    /\ detail < MaxDetails /\ detail' = detail + 1
    /\ row' = SaveArtifacts(row, "execution")
    /\ UNCHANGED <<pc, seen, msg, handler, watchVars, announced, outages, phase, limit>>

\* The execution completes or fails, whatever the status is by now.
ExecEnds(j) ==
    /\ phase = "up" /\ pc[j] = "executing"
    /\ row' \in {UpdateStatus(row, "completed", "completed"), UpdateStatus(row, "failed", row.stage)}
    /\ Tells({pc}, j, ExecNotice(row'))
    /\ UNCHANGED <<detail, seen, handler, watchVars, announced, outages, phase, limit>>

\* cancel_command(), whose reply is not a notification.
CancelCommand ==
    /\ phase = "up" /\ handler = "free" /\ row.status = "awaiting_confirmation"
    /\ row' = UpdateStatus(row, "cancelled", row.stage)
    /\ UNCHANGED <<detail, pc, seen, msg, handler, watchVars, announced, outages, phase, limit>>

-----------------------------------------------------------------------------
(* Watchers *)

\* start_progress_watcher(): nothing to do while the registered one is alive.
StartWatcher(w) ==
    IF registry # None /\ watch[registry] \in Live
    THEN UNCHANGED <<watch, polls, last, out, registry>>
    ELSE /\ watch' = [watch EXCEPT ![w] = "sleeping"]
         /\ registry' = w
         /\ UNCHANGED <<polls, last, out>>

\* _cleanup(): the registry may name a newer watcher by now.  The locals of the
\* watcher are gone.
RegistryEmptied(w) == None
RegistryWithout(w) == IF registry = w THEN None ELSE registry

Cleanup(w) ==
    /\ watch[w] = "over"
    /\ watch' = [watch EXCEPT ![w] = "gone"]
    /\ registry' = RegistryWithout(w)
    /\ delivered' = FALSE
    /\ polls' = [polls EXCEPT ![w] = 0]
    /\ last' = [last EXCEPT ![w] = None]
    /\ UNCHANGED <<runVars, out, announced, outages, phase, limit>>

LimitReached(n) == limit > 0 /\ n >= limit
Counted(n) == IF limit > 0 THEN n + 1 ELSE n

\* The sleep is over: the row is read, and there is nothing to send ...
PollsQuietly(w) ==
    /\ watch[w] = "sleeping"
    /\ polls' = [polls EXCEPT ![w] = Counted(@)]
    /\ \/ /\ row.status \in TerminalStatuses /\ delivered
          /\ watch' = [watch EXCEPT ![w] = "over"]
       \/ /\ ~(row.status \in TerminalStatuses /\ delivered)
          /\ last[w] = CurrentSnapshot
          /\ watch' = [watch EXCEPT ![w] = IF LimitReached(polls'[w]) THEN "over" ELSE "sleeping"]
    /\ UNCHANGED <<runVars, last, out, registry, delivered, announced, outages, phase, limit>>

\* ... or something new.
PollsNews(w) ==
    /\ watch[w] = "sleeping"
    /\ ~(row.status \in TerminalStatuses /\ delivered)
    /\ last[w] # CurrentSnapshot
    /\ polls' = [polls EXCEPT ![w] = Counted(@)]
    /\ out' = [out EXCEPT ![w] = CurrentSnapshot]
    /\ watch' = [watch EXCEPT ![w] = "sending"]
    /\ UNCHANGED <<runVars, last, registry, delivered, announced, outages, phase, limit>>

\* notify_terminal_update() has sent m.
Delivers(m) ==
    /\ announced' = IF m \in TerminalStatuses THEN announced \cup {m} ELSE announced
    /\ delivered' = (delivered \/ m \in TerminalStatuses)

WatcherSends(w) ==
    /\ watch[w] = "sending"
    /\ Delivers(out[w][1])
    /\ last' = [last EXCEPT ![w] = out[w]]
    /\ out' = [out EXCEPT ![w] = None]
    /\ watch' = [watch EXCEPT ![w] =
                    IF out[w][1] \in TerminalStatuses \/ LimitReached(polls[w]) THEN "over" ELSE "sleeping"]
    /\ UNCHANGED <<runVars, polls, registry, outages, phase, limit>>

\* Telegram refuses a message.
Outage == outages < MaxOutages /\ outages' = outages + 1

\* A failed send leaves no trace in last_snapshot and in terminal_deliveries, so
\* that the next poll tries again.
LastAfterFailureSent(w) == [last EXCEPT ![w] = out[w]]
LastAfterFailure(w) == last
MarkedAnyway(m) == delivered \/ m \in TerminalStatuses
MarkedAfterFailure(m) == delivered

WatcherSendFails(w) ==
    /\ watch[w] = "sending" /\ Outage
    /\ last' = LastAfterFailure(w)
    /\ out' = [out EXCEPT ![w] = None]
    /\ watch' = [watch EXCEPT ![w] = IF LimitReached(polls[w]) THEN "over" ELSE "sleeping"]
    /\ delivered' = MarkedAfterFailure(out[w][1])
    /\ UNCHANGED <<runVars, polls, registry, announced, phase, limit>>

-----------------------------------------------------------------------------
(* Sending, the approval and the shutdown *)

\* A coroutine has sent its message; after "started" the job starts a watcher.
Sends(t) ==
    /\ pc[t] = "sending"
    /\ pc' = [pc EXCEPT ![t] = "over"]
    /\ msg' = [msg EXCEPT ![t] = "none"]
    /\ Delivers(msg[t])
    /\ IF msg[t] = "started" THEN StartWatcher("plan") ELSE UNCHANGED <<watch, polls, last, out, registry>>
    /\ UNCHANGED <<row, detail, seen, handler, outages, phase, limit>>

SendFails(t) ==
    /\ pc[t] = "sending" /\ Outage
    /\ pc' = [pc EXCEPT ![t] = "over"]
    /\ msg' = [msg EXCEPT ![t] = "none"]
    /\ delivered' = MarkedAfterFailure(msg[t])
    /\ UNCHANGED <<row, detail, seen, handler, watch, polls, last, out, registry, announced, phase, limit>>

ApproveCommand ==
    /\ phase = "up" /\ handler = "free"
    /\ row.status = "awaiting_confirmation" /\ row.plan # "null" /\ ~row.approved
    /\ row' = Approve(row)
    /\ pc' \in Dispatched(pc)
    /\ handler' = "replying"
    /\ UNCHANGED <<detail, seen, msg, watchVars, announced, outages, phase, limit>>

\* The watcher is started after the reply, or not at all if the reply fails.
Replies ==
    /\ handler = "replying" /\ handler' = "free"
    /\ \/ StartWatcher("approval") /\ UNCHANGED outages
       \/ Outage /\ UNCHANGED <<watch, polls, last, out, registry>>
    /\ UNCHANGED <<row, detail, pc, seen, msg, delivered, announced, phase, limit>>

\* Application.stop() waits for handlers and for the tasks it was given, the
\* watchers included; then worker.stop() cancels the jobs.
StopWorker ==
    /\ phase = "up" /\ handler = "free"
    /\ pc["chat"] \notin Busy
    /\ \A w \in Watchers : watch[w] \in {"none", "gone"}
    /\ phase' = "stopping"
    /\ pc' = [t \in Tasks |-> IF pc[t] = "sending" THEN "over" ELSE pc[t]]
    /\ msg' = [t \in Tasks |-> "none"]
    /\ UNCHANGED <<row, detail, seen, handler, watchVars, announced, outages, limit>>

\* A cancelled job fails its run, unless it has ended, and reports it; a task
\* that has not begun is dropped.
Interrupted(r) == IF r.status \in TerminalStatuses THEN r ELSE UpdateStatus(r, "failed", r.stage)

Interrupt(t) ==
    /\ phase = "stopping" /\ pc[t] \in Busy \ {"sending"}
    /\ \/ /\ row' = Interrupted(row)
          /\ Tells({pc}, t, IF t = "plan" THEN PlanNotice(row') ELSE ExecNotice(row'))
       \/ /\ pc[t] = "spawned"
          /\ Tells({pc}, t, "none")
          /\ UNCHANGED row
    /\ UNCHANGED <<detail, seen, handler, watchVars, announced, outages, phase, limit>>

\* stop_progress_watchers(), once worker.stop() has returned.
WorkerStoppingToo == TRUE
WorkerStopped == \A t \in Tasks : pc[t] \notin Busy

StopWatchers ==
    /\ phase = "stopping" /\ WorkerStopped
    /\ watch' = IF registry # None /\ watch[registry] \in Live
                THEN [watch EXCEPT ![registry] = "over"] ELSE watch
    /\ registry' = None
    /\ delivered' = FALSE
    /\ phase' = "down"
    /\ UNCHANGED <<runVars, polls, last, out, announced, outages, limit>>

Coroutine(t) == Sends(t) \/ SendFails(t) \/ Interrupt(t)
Planner(t) == PlanBegins(t) \/ PlanFails(t) \/ PlanSucceeds(t)
Executor(j) == ExecBegins(j) \/ ExecStage(j) \/ ExecEnds(j)
Watcher(w) == PollsQuietly(w) \/ PollsNews(w) \/ WatcherSends(w) \/ WatcherSendFails(w) \/ Cleanup(w)

Next ==
    \/ \E t \in Planners : Planner(t)
    \/ \E j \in ExecJobs : Executor(j)
    \/ \E t \in Tasks : Coroutine(t)
    \/ \E w \in Watchers : Watcher(w)
    \/ ApproveCommand \/ Replies \/ CancelCommand \/ StopWorker \/ StopWatchers

Spec == Init /\ [][Next]_vars

\* The event loop runs what is ready; model calls, sends and sleeps end.
FairSpec ==
    /\ Spec
    /\ \A t \in Planners : WF_vars(Planner(t))
    /\ \A j \in ExecJobs : WF_vars(Executor(j))
    /\ \A t \in Tasks : WF_vars(Coroutine(t))
    /\ \A w \in Watchers : WF_vars(Watcher(w))
    /\ WF_vars(Replies)

-----------------------------------------------------------------------------

\* The values of every variable: no watcher polls more often than
\* max_poll_iterations allows.
TypeOK ==
    /\ row \in RunRow /\ detail \in 0..MaxDetails
    /\ pc \in [Tasks -> PC]
    /\ seen \in [Planners -> RunStatus]
    /\ msg \in [Tasks -> {"none", "plan", "started"} \cup TerminalStatuses]
    /\ handler \in {"free", "replying"}
    /\ watch \in [Watchers -> {"none", "gone", "over"} \cup Live]
    /\ polls \in [Watchers -> 0..limit]
    /\ last \in [Watchers -> Snapshot \cup {None}]
    /\ out \in [Watchers -> Snapshot \cup {None}]
    /\ registry \in Watchers \cup {None}
    /\ delivered \in BOOLEAN /\ announced \subseteq TerminalStatuses
    /\ outages \in 0..MaxOutages
    /\ phase \in {"up", "stopping", "down"} /\ limit \in PollLimits

\* A watcher that is alive is the registered one, although the callback of its
\* predecessor may run after it was registered: there are never two, and
\* stop_progress_watchers() finds it.
LiveWatcherIsRegistered ==
    \A w \in Watchers : watch[w] \in Live => registry = w

\* terminal_deliveries silences the watchers only about what the chat was told.
SilencedOnlyIfTold == delivered => announced # {}

\* stop_runtime_tasks() leaves no watcher behind, not even one started by a job
\* that reports during the shutdown.
NoWatcherSurvives == phase = "down" => \A w \in Watchers : watch[w] \notin Live

\* Without a poll limit, a run that ends while it is watched is announced, even if
\* Telegram refuses messages for a while; and its watcher stops polling.
WatchedRunsAreAnnounced ==
    /\ limit = 0 /\ (\E w \in Watchers : watch[w] \in Live) /\ row.status \in TerminalStatuses
           ~> announced # {} \/ phase # "up"
    /\ \A w \in Watchers :
           watch[w] \in Live /\ row.status \in TerminalStatuses ~> watch[w] \notin Live

=============================================================================
