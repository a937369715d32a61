------------------------- MODULE CommandLineProofs -------------------------
(***************************************************************************)
(* Proofs about WebhookRuntime and CommandLine: the readiness a command is *)
(* told, how a bot process ends, and the limits of the commands that wait, *)
(* for any limits, intervals, request times and numbers of processes.      *)
(***************************************************************************)
EXTENDS CommandLine, TLAPS

USE DEF Modes, Starting, Stopping, Phases

-----------------------------------------------------------------------------
(* The bot process. *)

\* What each phase of run_webhook() or run_polling() knows of the parts it has
\* started and stopped: post_stop has told the readiness state, post_shutdown has
\* told the worker, and unless it was hurried the worker has stopped.
RuntimeInv ==
    /\ RuntimeTypeOK
    /\ phase \in {"built", "run"} \cup Starting => signals = 0
    /\ phase = "built" => ~endpoint /\ readiness = "starting" /\ worker = "new"
    /\ phase = "post_stop" => readiness = "stopping"
    /\ phase = "post_shutdown" => worker = "stopping"
    /\ phase = "finally" /\ signals < 2 => worker = "stopped"
    /\ ReadyWhileConsuming
    /\ StopsCompletely

\* A process begins with the readiness state and the worker of a new one.
LEMMA RuntimeBegins == RuntimeInit => RuntimeInv
<1> SUFFICES ASSUME RuntimeInit PROVE RuntimeInv
  OBVIOUS
<1>1. phase = "built" /\ readiness = "starting" /\ worker = "new" /\ signals = 0
  BY DEF RuntimeInit
<1>2. ~endpoint
  BY Zenon DEF RuntimeInit
<1>3. endpoint \in BOOLEAN /\ updater \in BOOLEAN /\ application \in BOOLEAN
  BY Zenon DEF RuntimeInit
<1>4. mode \in Modes /\ starts \in 1 .. MaxStarts
  BY RuntimeAssumption DEF RuntimeInit
<1>5. RuntimeTypeOK
  BY <1>1, <1>3, <1>4 DEF RuntimeTypeOK
<1> QED BY <1>1, <1>2, <1>5 DEF RuntimeInv, ReadyWhileConsuming, StopsCompletely

\* Steps on the way up: each starts one part.
LEMMA StartingKeepsInv ==
    ASSUME RuntimeInv, StartHealthServer \/ PostInit \/ StartUpdater \/ StartApplication
    PROVE  RuntimeInv'
<1> USE DEF RuntimeInv, RuntimeTypeOK, ReadyWhileConsuming, StopsCompletely
<1>1. CASE StartHealthServer
  <2>1. endpoint' \in BOOLEAN
    BY <1>1, Zenon DEF StartHealthServer
  <2>2. phase' = "ended" => ~endpoint'
    <3>1. phase' = "ended" => endpoint' = endpoint
      BY <1>1 DEF StartHealthServer
    <3>2. ~endpoint
      BY <1>1 DEF StartHealthServer
    <3> QED BY <3>1, <3>2, Zenon
  <2>3. /\ phase' \in {"initialize", "ended"}
        /\ signals' = 0 /\ worker' = "new" /\ readiness' = "starting"
        /\ UNCHANGED <<mode, updater, application, starts>>
    BY <1>1 DEF StartHealthServer
  <2> QED BY <2>1, <2>2, <2>3
<1>2. CASE PostInit
  BY <1>2 DEF PostInit
<1>3. CASE StartUpdater
  BY <1>3 DEF StartUpdater
<1>4. CASE StartApplication
  BY <1>4 DEF StartApplication
<1> QED BY <1>1, <1>2, <1>3, <1>4

\* Steps on the way down: stop_runtime_tasks() in either hook, and the finally.
LEMMA StoppingKeepsInv ==
    ASSUME RuntimeInv,
           StopUpdater \/ StopApplication \/ PostStopEnds \/ ShutDown \/ PostShutdownEnds \/ Finally
    PROVE  RuntimeInv'
<1> USE DEF RuntimeInv, RuntimeTypeOK, ReadyWhileConsuming, StopsCompletely
<1>1. CASE StopUpdater
  BY <1>1 DEF StopUpdater
<1>2. CASE StopApplication
  BY <1>2 DEF StopApplication, StopTasks
<1>3. CASE PostStopEnds
  BY <1>3 DEF PostStopEnds
<1>4. CASE ShutDown
  BY <1>4 DEF ShutDown, BeginPostShutdown, StopTasks
<1>5. CASE PostShutdownEnds
  BY <1>5 DEF PostShutdownEnds
<1>6. CASE Finally
  BY <1>6 DEF Finally
<1> QED BY <1>1, <1>2, <1>3, <1>4, <1>5, <1>6

\* What comes from outside: failures, signals and the service manager.  Only the
\* first signal meets a process that starts or runs.
LEMMA DisturbancesKeepInv ==
    ASSUME RuntimeInv, StartFails \/ Signal \/ SignalAgain \/ Restart
    PROVE  RuntimeInv'
<1> USE DEF RuntimeInv, RuntimeTypeOK, ReadyWhileConsuming, StopsCompletely
<1>1. CASE StartFails
  BY <1>1 DEF StartFails, CleanUp
<1>2. CASE Signal
  BY <1>2 DEF Signal, CleanUp
<1>3. CASE SignalAgain
  BY <1>3 DEF SignalAgain
<1>4. CASE Restart
  <2>1. ~endpoint'
    BY <1>4, Zenon DEF Restart
  <2>2. endpoint' \in BOOLEAN /\ updater' \in BOOLEAN /\ application' \in BOOLEAN
    BY <1>4, Zenon DEF Restart
  <2>3. /\ phase' = "built" /\ readiness' = "starting" /\ worker' = "new"
        /\ signals' = 0 /\ mode' = mode /\ starts' \in 1 .. MaxStarts
    BY <1>4, RuntimeAssumption DEF Restart
  <2> QED BY <2>1, <2>2, <2>3
<1> QED BY <1>1, <1>2, <1>3, <1>4

\* Every step of a process, and every step of a command, which leaves the
\* process alone.
LEMMA RuntimeKeepsInv == RuntimeInv /\ [RuntimeNext]_runtimeVars => RuntimeInv'
<1> SUFFICES ASSUME RuntimeInv, [RuntimeNext]_runtimeVars PROVE RuntimeInv'
  OBVIOUS
<1>1. CASE RuntimeNext
  BY <1>1, StartingKeepsInv, StoppingKeepsInv, DisturbancesKeepInv DEF RuntimeNext, RuntimeStep
<1>2. CASE UNCHANGED runtimeVars
  BY <1>2 DEF runtimeVars, RuntimeInv, RuntimeTypeOK, ReadyWhileConsuming, StopsCompletely
<1> QED BY <1>1, <1>2

-----------------------------------------------------------------------------
(* The command. *)

CommandTypeOK ==
    /\ kind \in {"probe", "probe_wait", "poll"} /\ limit \in Limits \cup {NoLimit}
    /\ pc \in {"look", "asking", "judge", "sleep", "done"}
    /\ asked \in 0 .. MaxStarts
    /\ answer \in {"none", "refused", "starting", "ready", "stopping"}
    /\ outcome \in {"none", "ready", "not_ready", "timed_out", "raised", "result"}
    /\ elapsed \in Nat /\ since \in Nat
    /\ ended \in Nat \cup {NoLimit}

\* A command that has given its outcome does nothing more; only probes ask; a
\* sleep and a request are bounded.
CommandShape ==
    /\ outcome # "none" => pc = "done"
    /\ pc \in {"asking", "judge"} => kind # "poll"
    /\ pc = "sleep" => since <= Interval + MaxLate
    /\ pc = "asking" => since <= MaxRequest

\* How far the limit can be exceeded at each step: a sleep begins before it.
ElapsedBound ==
    limit # NoLimit =>
        /\ pc = "sleep" => elapsed < limit + since
        /\ pc = "look" => elapsed < limit + Interval + MaxLate
        /\ pc = "asking" => elapsed < limit + Interval + MaxLate + since

\* When a run that _poll_run() has not seen the end of can have ended: since the
\* last look, which was at most one sleep ago.
UnseenEnd ==
    kind = "poll" /\ ended # NoLimit =>
        /\ pc = "sleep" => elapsed <= ended + since
        /\ pc = "look" => elapsed <= ended + Interval + MaxLate

CommandInv ==
    /\ CommandTypeOK /\ CommandShape /\ ElapsedBound /\ UnseenEnd
    /\ GivesUpInTime /\ EndedRunsAreReported

\* A command begins before its limit, and looks first.
LEMMA CommandBegins == Init => CommandInv
BY CommandAssumption, RuntimeAssumption
   DEF Init, CommandInv, CommandTypeOK, CommandShape, ElapsedBound, UnseenEnd,
       GivesUpInTime, EndedRunsAreReported, Overrun

\* A probe: connected or refused, answered, given up, or judged.
LEMMA ProbingKeepsInv ==
    ASSUME RuntimeTypeOK, CommandInv, Refuse \/ Ask \/ Answer \/ RequestRaises \/ JudgeAnswer
    PROVE  CommandInv'
<1> USE CommandAssumption, RuntimeAssumption
    DEF CommandInv, CommandTypeOK, CommandShape, ElapsedBound, UnseenEnd,
        GivesUpInTime, EndedRunsAreReported, Overrun
<1>1. CASE Refuse
  BY <1>1 DEF Refuse, Done
<1>2. CASE Ask
  BY <1>2 DEF Ask, RuntimeTypeOK
<1>3. CASE Answer
  BY <1>3 DEF Answer, RuntimeTypeOK
<1>4. CASE RequestRaises
  BY <1>4 DEF RequestRaises, Done
<1>5. CASE JudgeAnswer
  BY <1>5 DEF JudgeAnswer, Done, Expired
<1> QED BY <1>1, <1>2, <1>3, <1>4, <1>5

\* A look at the polled run, and what passes meanwhile.
LEMMA PollingKeepsInv ==
    ASSUME CommandInv, Poll \/ Wake \/ Tick \/ RunEnds
    PROVE  CommandInv'
<1> USE CommandAssumption
    DEF CommandInv, CommandTypeOK, CommandShape, ElapsedBound, UnseenEnd,
        GivesUpInTime, EndedRunsAreReported, Overrun
<1>1. CASE Poll
  BY <1>1 DEF Poll, Done, Expired, RunIsOver
<1>2. CASE Wake
  BY <1>2 DEF Wake
<1>3. CASE Tick
  BY <1>3 DEF Tick
<1>4. CASE RunEnds
  BY <1>4 DEF RunEnds
<1> QED BY <1>1, <1>2, <1>3, <1>4

\* A step of the bot process leaves the command alone.
LEMMA RuntimeKeepsCommandInv == CommandInv /\ UNCHANGED commandVars => CommandInv'
BY DEF commandVars, CommandInv, CommandTypeOK, CommandShape, ElapsedBound, UnseenEnd,
           GivesUpInTime, EndedRunsAreReported, Overrun

-----------------------------------------------------------------------------

\* The whole: process and command keep their invariants under every step of
\* either.
THEOREM WaitingInvariant == Spec => [](RuntimeInv /\ CommandInv)
<1>1. Init => RuntimeInv /\ CommandInv
  BY RuntimeBegins, CommandBegins DEF Init
<1>2. RuntimeInv /\ CommandInv /\ [Next]_vars => (RuntimeInv /\ CommandInv)'
  <2> SUFFICES ASSUME RuntimeInv, CommandInv, [Next]_vars
               PROVE  RuntimeInv' /\ CommandInv'
    OBVIOUS
  <2>1. CASE RuntimeNext /\ UNCHANGED commandVars
    BY <2>1, RuntimeKeepsInv, RuntimeKeepsCommandInv
  <2>2. CASE CommandStep \/ Tick \/ RunEnds
    <3>1. UNCHANGED runtimeVars
      BY <2>2 DEF CommandStep, Refuse, Ask, Answer, RequestRaises, JudgeAnswer, Poll, Wake,
                  Tick, RunEnds
    <3>2. RuntimeTypeOK
      BY DEF RuntimeInv
    <3> QED BY <2>2, <3>1, <3>2, RuntimeKeepsInv, ProbingKeepsInv, PollingKeepsInv
               DEF CommandStep
  <2>3. CASE UNCHANGED vars
    BY <2>3, RuntimeKeepsInv, RuntimeKeepsCommandInv DEF vars
  <2> QED BY <2>1, <2>2, <2>3 DEF Next
<1> QED BY <1>1, <1>2, PTL DEF Spec

\* Every variable keeps its values: TypeOK of process and command.
THEOREM TypeCorrect == Spec => []TypeOK
<1>1. RuntimeInv /\ CommandInv => TypeOK
  BY DEF RuntimeInv, CommandInv, CommandTypeOK, TypeOK
<1> QED BY <1>1, WaitingInvariant, PTL

\* However a process starts, fails or is stopped, it says "ready" only while its
\* worker takes jobs.
THEOREM ReadinessIsTrue == Spec => []ReadyWhileConsuming
<1>1. RuntimeInv => ReadyWhileConsuming
  BY DEF RuntimeInv
<1> QED BY <1>1, WaitingInvariant, PTL

\* A process that was not hurried stops its worker, and no process leaves the
\* endpoint up or "ready" behind.
THEOREM ProcessesStopCompletely == Spec => []StopsCompletely
<1>1. RuntimeInv => StopsCompletely
  BY DEF RuntimeInv
<1> QED BY <1>1, WaitingInvariant, PTL

\* probe_readiness() and _poll_run() keep their limit up to one sleep and one
\* request, and never give up before it.
THEOREM LimitsAreKept == Spec => []GivesUpInTime
<1>1. CommandInv => GivesUpInTime
  BY DEF CommandInv
<1> QED BY <1>1, WaitingInvariant, PTL

\* A run that _poll_run() reports as timed out had not ended before its last
\* sleep.
THEOREM OnlyTheLastSleepIsMissed == Spec => []EndedRunsAreReported
<1>1. CommandInv => EndedRunsAreReported
  BY DEF CommandInv
<1> QED BY <1>1, WaitingInvariant, PTL
=============================================================================
