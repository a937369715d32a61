--------------------------- MODULE WebhookRuntime ---------------------------
(***************************************************************************)
(* The life of `mergemate run-bot`: TelegramBotRuntime, the readiness      *)
(* endpoint of webhook deployments, and the background worker as far as    *)
(* its start and stop.  python-telegram-bot's Application runs the three   *)
(* hooks; it is external and modelled by the order in which it calls them: *)
(* initialize, post_init, the updater, start; and on the way out, whatever *)
(* had been started: the updater, the application with post_stop, then     *)
(* shutdown with post_shutdown.                                            *)
(*                                                                         *)
(* A signal ends whatever the event loop is waiting for, the cleanup       *)
(* included.  Steps without an await are one action.                       *)
(*                                                                         *)
(* Definitions directly above another one with the same parameters are     *)
(* faulty variants of it.                                                  *)
(***************************************************************************)
EXTENDS Naturals

CONSTANT MaxStarts      \* bound: processes started one after the other

ASSUME RuntimeAssumption == MaxStarts \in Nat \ {0}

VARIABLES
    mode,        \* telegram.mode and webhook_healthcheck_enabled
    phase,       \* what run_webhook() or run_polling() is doing
    readiness,   \* WebhookReadinessState
    endpoint,    \* the health server accepts connections
    worker,      \* BackgroundRunWorker
    updater,     \* the updater is running
    application, \* the application is running
    signals,     \* signals this process received
    starts

runtimeVars == <<mode, phase, readiness, endpoint, worker, updater, application, signals, starts>>

Modes == {"polling", "webhook", "webhook_endpoint"}
Starting == {"initialize", "start_updater", "start_application"}
Stopping == {"stop_updater", "stop_application", "post_stop", "shutdown", "post_shutdown"}
Phases == {"built", "run", "finally", "ended"} \cup Starting \cup Stopping

RuntimeTypeOK ==
    /\ mode \in Modes /\ phase \in Phases
    /\ readiness \in {"starting", "ready", "stopping"}
    /\ worker \in {"new", "consuming", "stopping", "stopped"}
    /\ endpoint \in BOOLEAN /\ updater \in BOOLEAN /\ application \in BOOLEAN
    /\ signals \in 0 .. 2 /\ starts \in 1 .. MaxStarts

RuntimeInit ==
    /\ mode \in Modes
    /\ phase = "built" /\ readiness = "starting" /\ worker = "new"
    /\ endpoint = FALSE /\ updater = FALSE /\ application = FALSE
    /\ signals = 0 /\ starts = 1

-----------------------------------------------------------------------------

\* health_server.start(); the port may be taken, before the try.
StartHealthServer ==
    /\ phase = "built"
    /\ \/ mode # "webhook_endpoint" /\ phase' = "initialize" /\ endpoint' = endpoint
       \/ mode = "webhook_endpoint" /\ phase' = "initialize" /\ endpoint' = TRUE
       \/ mode = "webhook_endpoint" /\ phase' = "ended" /\ endpoint' = endpoint
    /\ UNCHANGED <<mode, readiness, worker, updater, application, signals, starts>>

\* Initialised; post_init is start_runtime_tasks(): worker.start(), mark_ready().
PostInit ==
    /\ phase = "initialize" /\ phase' = "start_updater"
    /\ worker' = "consuming" /\ readiness' = "ready"
    /\ UNCHANGED <<mode, endpoint, updater, application, signals, starts>>

StartUpdater ==
    /\ phase = "start_updater" /\ phase' = "start_application"
    /\ updater' = TRUE
    /\ UNCHANGED <<mode, readiness, endpoint, worker, application, signals, starts>>

StartApplication ==
    /\ phase = "start_application" /\ phase' = "run"
    /\ application' = TRUE
    /\ UNCHANGED <<mode, readiness, endpoint, worker, updater, signals, starts>>

\* Where the cleanup begins: it stops only what runs.
CleanUp ==
    phase' = IF updater THEN "stop_updater" ELSE IF application THEN "stop_application" ELSE "shutdown"

\* Telegram cannot be reached, or refuses the token or the webhook.
StartFails ==
    /\ phase \in Starting
    /\ CleanUp
    /\ UNCHANGED <<mode, readiness, endpoint, worker, updater, application, signals, starts>>

Signal ==
    /\ phase \in Starting \cup {"run"}
    /\ CleanUp
    /\ signals' = signals + 1
    /\ UNCHANGED <<mode, readiness, endpoint, worker, updater, application, starts>>

\* A second signal: the rest of the cleanup is skipped.
SignalAgain ==
    /\ phase \in Stopping /\ signals < 2
    /\ phase' = "finally"
    /\ signals' = 2
    /\ UNCHANGED <<mode, readiness, endpoint, worker, updater, application, starts>>

StopUpdater ==
    /\ phase = "stop_updater"
    /\ updater' = FALSE
    /\ phase' = IF application THEN "stop_application" ELSE "shutdown"
    /\ UNCHANGED <<mode, readiness, endpoint, worker, application, signals, starts>>

\* stop_runtime_tasks() up to its first await: mark_stopping(), then the
\* worker accepts nothing more and cancels its tasks.
StopTasksWorkerFirst == readiness' = readiness /\ worker' = "stopping"
StopTasks == readiness' = "stopping" /\ worker' = "stopping"

\* The application has stopped, so the post_stop hook begins.
StopApplication ==
    /\ phase = "stop_application" /\ phase' = "post_stop"
    /\ application' = FALSE
    /\ StopTasks
    /\ UNCHANGED <<mode, endpoint, updater, signals, starts>>

\* ... and ends, when the worker's tasks have and the watchers are cancelled.
PostStopEnds ==
    /\ phase = "post_stop" /\ phase' = "shutdown"
    /\ worker' = "stopped"
    /\ UNCHANGED <<mode, readiness, endpoint, updater, application, signals, starts>>

\* builder.post_shutdown(stop_runtime_tasks): also after a start that failed.
NoPostShutdown == UNCHANGED <<readiness, worker>>
BeginPostShutdown == StopTasks

ShutDown ==
    /\ phase = "shutdown" /\ phase' = "post_shutdown"
    /\ BeginPostShutdown
    /\ UNCHANGED <<mode, endpoint, updater, application, signals, starts>>

PostShutdownEnds ==
    /\ phase = "post_shutdown" /\ phase' = "finally"
    /\ worker' = IF worker = "stopping" THEN "stopped" ELSE worker
    /\ UNCHANGED <<mode, readiness, endpoint, updater, application, signals, starts>>

\* The finally of run_webhook(): mark_stopping(), health_server.stop().
Finally ==
    /\ phase = "finally" /\ phase' = "ended"
    /\ readiness' = IF mode = "polling" THEN readiness ELSE "stopping"
    /\ endpoint' = FALSE
    /\ UNCHANGED <<mode, worker, updater, application, signals, starts>>

\* The service manager starts the next process.
Restart ==
    /\ phase = "ended" /\ starts < MaxStarts
    /\ phase' = "built" /\ readiness' = "starting" /\ worker' = "new"
    /\ endpoint' = FALSE /\ updater' = FALSE /\ application' = FALSE
    /\ signals' = 0 /\ starts' = starts + 1
    /\ UNCHANGED mode

\* What the process does by itself; signals and failures come from outside.
RuntimeStep ==
    \/ StartHealthServer \/ PostInit \/ StartUpdater \/ StartApplication
    \/ StopUpdater \/ StopApplication \/ PostStopEnds \/ ShutDown \/ PostShutdownEnds
    \/ Finally

RuntimeNext == RuntimeStep \/ StartFails \/ Signal \/ SignalAgain \/ Restart

-----------------------------------------------------------------------------

\* Whoever asks is told "ready" only while the worker takes jobs: it is marked
\* after worker.start(), and unmarked before worker.stop() on every way out.
ReadyWhileConsuming == readiness = "ready" => worker = "consuming"

\* A process that was not hurried ends with the worker stopped, which records
\* the jobs it interrupts, whichever step of its start had failed; and no
\* process leaves the endpoint up or "ready" behind.
StopsCompletely ==
    phase = "ended" =>
        /\ ~endpoint /\ (mode # "polling" => readiness # "ready")
        /\ signals < 2 => worker \in {"new", "stopped"}
=============================================================================
