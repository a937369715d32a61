--------------------------- MODULE NotifierProofs ---------------------------
(***************************************************************************)
(* Theorems about the registries of Notifier, for any number of execution   *)
(* jobs, any poll limit and any number of refused messages.                 *)
(***************************************************************************)
EXTENDS Notifier, TLAPS

\* The part of TypeOK the registries need.
RegistryTypes ==
    /\ watch \in [Watchers -> {"none", "gone", "over"} \cup Live]
    /\ registry \in Watchers \cup {None}
    /\ delivered \in BOOLEAN
    /\ phase \in {"up", "stopping", "down"}

\* Why nothing starts a watcher after the shutdown: no reply is pending once the
\* worker is being stopped, and no job is left once the watchers are.
ShutdownInOrder ==
    /\ phase # "up" => handler = "free"
    /\ phase = "down" => WorkerStopped

RegistryInv ==
    /\ RegistryTypes
    /\ LiveWatcherIsRegistered
    /\ NoWatcherSurvives
    /\ ShutdownInOrder

\* start_progress_watcher() leaves the live watcher, if any, registered.
LEMMA StartKeepsRegistry ==
    ASSUME RegistryTypes, LiveWatcherIsRegistered, NEW w \in Watchers, StartWatcher(w)
    PROVE  /\ watch' \in [Watchers -> {"none", "gone", "over"} \cup Live]
           /\ registry' \in Watchers \cup {None}
           /\ LiveWatcherIsRegistered'
  <1>1. None \notin Watchers
    BY NotifierAssumption DEF Watchers
  <1>2. CASE registry # None /\ watch[registry] \in Live
    BY <1>2 DEF StartWatcher, RegistryTypes, LiveWatcherIsRegistered
  <1>3. CASE ~(registry # None /\ watch[registry] \in Live)
    <2>1. \A v \in Watchers : watch[v] \notin Live
      BY <1>1, <1>3 DEF LiveWatcherIsRegistered
    <2>2. watch' = [watch EXCEPT ![w] = "sleeping"] /\ registry' = w
      BY <1>3 DEF StartWatcher
    <2> QED BY <2>1, <2>2 DEF RegistryTypes, LiveWatcherIsRegistered, Live
  <1> QED BY <1>2, <1>3

\* A step of a watcher other than its start leaves the registry's account right:
\* a watcher that changes state was alive, or its end is only tidied up.
LEMMA WatcherKeepsRegistry ==
    ASSUME RegistryInv, NEW w \in Watchers, Watcher(w)
    PROVE  RegistryInv'
  <1> USE DEF RegistryInv, RegistryTypes, Live
  <1>1. /\ phase' = phase /\ handler' = handler /\ pc' = pc
    BY DEF Watcher, PollsQuietly, PollsNews, WatcherSends, WatcherSendFails, Cleanup, runVars
  <1>2. ShutdownInOrder'
    BY <1>1 DEF ShutdownInOrder, WorkerStopped
  <1>3. delivered' \in BOOLEAN
    BY DEF Watcher, PollsQuietly, PollsNews, WatcherSends, WatcherSendFails, Cleanup, Delivers,
           MarkedAfterFailure, Outage
  <1>4. CASE Cleanup(w)
    <2>1. watch' = [watch EXCEPT ![w] = "gone"] /\ watch[w] = "over"
      BY <1>4 DEF Cleanup
    <2>2. registry' = IF registry = w THEN None ELSE registry
      BY <1>4 DEF Cleanup, RegistryWithout
    <2>3. ASSUME NEW v \in Watchers, watch'[v] \in Live PROVE registry' = v /\ phase # "down"
      <3>1. v # w /\ watch[v] \in Live
        BY <2>1, <2>3
      <3>2. registry = v
        BY <3>1 DEF LiveWatcherIsRegistered
      <3> QED BY <2>2, <3>1, <3>2 DEF NoWatcherSurvives
    <2> QED BY <1>1, <1>2, <1>3, <2>1, <2>2, <2>3 DEF LiveWatcherIsRegistered, NoWatcherSurvives
  <1>5. CASE ~Cleanup(w)
    <2>1. /\ watch[w] \in Live /\ registry' = registry
          /\ \E s \in {"over"} \cup Live : watch' = [watch EXCEPT ![w] = s]
      BY <1>5 DEF Watcher, PollsQuietly, PollsNews, WatcherSends, WatcherSendFails
    <2>2. phase # "down"
      BY <2>1 DEF NoWatcherSurvives
    <2>3. ASSUME NEW v \in Watchers, watch'[v] \in Live PROVE registry' = v
      BY <2>1, <2>3 DEF LiveWatcherIsRegistered
    <2> QED BY <1>1, <1>2, <1>3, <2>1, <2>2, <2>3 DEF LiveWatcherIsRegistered, NoWatcherSurvives
  <1> QED BY <1>4, <1>5

\* Whatever leaves the watchers alone and does not open a closed phase.
LEMMA QuietStep ==
    ASSUME RegistryInv,
           UNCHANGED <<watch, registry, handler, phase>>, delivered' \in BOOLEAN,
           phase = "down" => pc' = pc
    PROVE  RegistryInv'
  BY DEF RegistryInv, RegistryTypes, LiveWatcherIsRegistered, NoWatcherSurvives, ShutdownInOrder,
         WorkerStopped

\* Every action keeps the registry in step with the watchers.
LEMMA RegistryInvNext == RegistryInv /\ [Next]_vars => RegistryInv'
  <1> SUFFICES ASSUME RegistryInv, [Next]_vars PROVE RegistryInv'
    OBVIOUS
  <1>0. /\ RegistryTypes /\ LiveWatcherIsRegistered /\ NoWatcherSurvives /\ ShutdownInOrder
        /\ delivered \in BOOLEAN
    BY DEF RegistryInv, RegistryTypes
  <1>1. ASSUME NEW t \in Planners, Planner(t) PROVE RegistryInv'
    <2>1. UNCHANGED <<watch, registry, handler, phase, delivered>> /\ phase = "up"
      BY <1>1 DEF Planner, PlanBegins, PlanFails, PlanSucceeds, watchVars
    <2> QED BY <1>0, <2>1, QuietStep
  <1>2. ASSUME NEW j \in ExecJobs, Executor(j) PROVE RegistryInv'
    <2>1. UNCHANGED <<watch, registry, handler, phase, delivered>> /\ phase = "up"
      BY <1>2 DEF Executor, ExecBegins, ExecStage, ExecEnds, watchVars
    <2> QED BY <1>0, <2>1, QuietStep
  <1>3. ASSUME NEW t \in Tasks, Sends(t) PROVE RegistryInv'
    <2>1. phase' = phase /\ handler' = handler /\ phase # "down"
      BY <1>0, <1>3 DEF Sends, ShutdownInOrder, WorkerStopped, Busy
    <2>2. delivered' \in BOOLEAN
      BY <1>3 DEF Sends, Delivers
    <2>3. CASE msg[t] = "started"
      <3>1. StartWatcher("plan") /\ "plan" \in Watchers
        BY <1>3, <2>3 DEF Sends, Watchers
      <3>2. /\ watch' \in [Watchers -> {"none", "gone", "over"} \cup Live]
            /\ registry' \in Watchers \cup {None} /\ LiveWatcherIsRegistered'
        BY <1>0, <3>1, StartKeepsRegistry
      <3> QED BY <1>0, <2>1, <2>2, <3>2
              DEF RegistryInv, RegistryTypes, NoWatcherSurvives, ShutdownInOrder
    <2>4. CASE msg[t] # "started"
      <3>1. UNCHANGED <<watch, registry>>
        BY <1>3, <2>4 DEF Sends
      <3> QED BY <2>1, <2>2, <3>1, QuietStep
    <2> QED BY <2>3, <2>4
  <1>4. ASSUME NEW t \in Tasks, SendFails(t) PROVE RegistryInv'
    <2>1. UNCHANGED <<watch, registry, handler, phase>> /\ phase # "down" /\ delivered' = delivered
      BY <1>0, <1>4 DEF SendFails, MarkedAfterFailure, ShutdownInOrder, WorkerStopped, Busy
    <2> QED BY <1>0, <2>1, QuietStep
  <1>5. ASSUME NEW t \in Tasks, Interrupt(t) PROVE RegistryInv'
    <2>1. UNCHANGED <<watch, registry, handler, phase, delivered>> /\ phase # "down"
      BY <1>5 DEF Interrupt, watchVars
    <2> QED BY <1>0, <2>1, QuietStep
  <1>6. ASSUME NEW w \in Watchers, Watcher(w) PROVE RegistryInv'
    BY <1>6, WatcherKeepsRegistry
  <1>7. CASE ApproveCommand
    <2>1. UNCHANGED <<watch, registry, phase, delivered>> /\ phase = "up"
      BY <1>7 DEF ApproveCommand, watchVars
    <2> QED BY <1>0, <2>1
            DEF RegistryInv, RegistryTypes, LiveWatcherIsRegistered, NoWatcherSurvives, ShutdownInOrder
  <1>8. CASE Replies
    <2>1. phase' = phase /\ phase = "up" /\ delivered' = delivered
      BY <1>0, <1>8 DEF Replies, ShutdownInOrder, RegistryTypes
    <2>2. /\ watch' \in [Watchers -> {"none", "gone", "over"} \cup Live]
          /\ registry' \in Watchers \cup {None} /\ LiveWatcherIsRegistered'
      <3>1. CASE StartWatcher("approval")
        <4>1. "approval" \in Watchers
          BY DEF Watchers
        <4> QED BY <1>0, <3>1, <4>1, StartKeepsRegistry
      <3>2. CASE UNCHANGED <<watch, registry>>
        BY <1>0, <3>2 DEF RegistryTypes, LiveWatcherIsRegistered
      <3> QED BY <1>8, <3>1, <3>2 DEF Replies
    <2> QED BY <1>0, <2>1, <2>2
            DEF RegistryInv, RegistryTypes, NoWatcherSurvives, ShutdownInOrder
  <1>9. CASE CancelCommand
    <2>1. UNCHANGED <<watch, registry, handler, phase, delivered>> /\ phase = "up"
      BY <1>9 DEF CancelCommand, watchVars
    <2> QED BY <1>0, <2>1, QuietStep
  <1>10. CASE StopWorker
    <2>1. UNCHANGED <<watch, registry, delivered>> /\ phase' = "stopping" /\ handler' = "free"
      BY <1>10 DEF StopWorker, watchVars
    <2> QED BY <1>0, <2>1
            DEF RegistryInv, RegistryTypes, LiveWatcherIsRegistered, NoWatcherSurvives, ShutdownInOrder
  <1>11. CASE StopWatchers
    <2>1. ASSUME NEW w \in Watchers PROVE watch'[w] \notin Live
      <3>0. w # None
        BY NotifierAssumption DEF Watchers
      <3>1. CASE registry # None /\ watch[registry] \in Live
        <4>1. watch' = [watch EXCEPT ![registry] = "over"] /\ registry \in Watchers
          BY <1>0, <1>11, <3>1 DEF StopWatchers, RegistryTypes
        <4> QED BY <1>0, <3>1, <4>1 DEF RegistryTypes, LiveWatcherIsRegistered, Live
      <3>2. CASE ~(registry # None /\ watch[registry] \in Live)
        <4>1. watch' = watch
          BY <1>11, <3>2 DEF StopWatchers
        <4> QED BY <1>0, <3>0, <3>2, <4>1 DEF LiveWatcherIsRegistered
      <3> QED BY <3>1, <3>2
    <2>2. watch' \in [Watchers -> {"none", "gone", "over"} \cup Live]
      BY <1>0, <1>11 DEF StopWatchers, RegistryTypes
    <2>3. /\ registry' = None /\ delivered' = FALSE /\ phase' = "down"
          /\ handler' = "free" /\ WorkerStopped'
      BY <1>0, <1>11 DEF StopWatchers, ShutdownInOrder, WorkerStopped, runVars
    <2> QED BY <2>1, <2>2, <2>3
            DEF RegistryInv, RegistryTypes, LiveWatcherIsRegistered, NoWatcherSurvives, ShutdownInOrder
  <1>12. CASE UNCHANGED vars
    <2>1. UNCHANGED <<watch, registry, handler, phase, delivered, pc>>
      BY <1>12 DEF vars, runVars, watchVars
    <2> QED BY <1>0, <2>1, QuietStep
  <1> QED
    BY <1>1, <1>2, <1>3, <1>4, <1>5, <1>6, <1>7, <1>8, <1>9, <1>10, <1>11, <1>12 DEF Next, Coroutine

\* The inductive invariant of the watcher registry.
THEOREM RegistryInvariant == Spec => []RegistryInv
  <1>1. Init => RegistryInv
    BY DEF Init, RegistryInv, RegistryTypes, LiveWatcherIsRegistered, NoWatcherSurvives,
           ShutdownInOrder, Live
  <1> QED BY <1>1, RegistryInvNext, PTL DEF Spec

\* A live watcher is the registered one: start_progress_watcher() and _cleanup()
\* agree, in whatever order callbacks run.
THEOREM LiveWatchersAreRegistered == Spec => []LiveWatcherIsRegistered
  <1>1. RegistryInv => LiveWatcherIsRegistered
    BY DEF RegistryInv
  <1> QED BY <1>1, RegistryInvariant, PTL

\* stop_runtime_tasks() stops the worker first and therefore leaves no watcher.
THEOREM WatchersAreStopped == Spec => []NoWatcherSurvives
  <1>1. RegistryInv => NoWatcherSurvives
    BY DEF RegistryInv
  <1> QED BY <1>1, RegistryInvariant, PTL

\* terminal_deliveries is only ever set after a delivery.
THEOREM DeliveriesHappened == Spec => []SilencedOnlyIfTold
  <1> DEFINE Told == delivered \in BOOLEAN /\ SilencedOnlyIfTold
  <1>1. Init => Told
    BY DEF Init, SilencedOnlyIfTold
  <1>2. ASSUME Told, [Next]_vars PROVE Told'
    <2>1. ASSUME NEW m, Delivers(m) PROVE Told'
      BY <1>2, <2>1 DEF Delivers, SilencedOnlyIfTold
    <2>2. ASSUME delivered' = delivered \/ delivered' = FALSE, announced' = announced PROVE Told'
      <3>1. CASE delivered' = delivered
        BY <1>2, <2>2, <3>1, Zenon DEF SilencedOnlyIfTold
      <3>2. CASE delivered' = FALSE
        BY <3>2 DEF SilencedOnlyIfTold
      <3> QED BY <2>2, <3>1, <3>2
    <2>3. ASSUME NEW t \in Planners, Planner(t) PROVE Told'
      BY <2>2, <2>3 DEF Planner, PlanBegins, PlanFails, PlanSucceeds, watchVars
    <2>4. ASSUME NEW j \in ExecJobs, Executor(j) PROVE Told'
      BY <2>2, <2>4 DEF Executor, ExecBegins, ExecStage, ExecEnds, watchVars
    <2>5. ASSUME NEW t \in Tasks, Coroutine(t) PROVE Told'
      <3>1. CASE Sends(t)
        BY <2>1, <3>1 DEF Sends
      <3>2. CASE SendFails(t)
        BY <2>2, <3>2 DEF SendFails, MarkedAfterFailure
      <3>3. CASE Interrupt(t)
        BY <2>2, <3>3 DEF Interrupt, watchVars
      <3> QED BY <2>5, <3>1, <3>2, <3>3 DEF Coroutine
    <2>6. ASSUME NEW w \in Watchers, Watcher(w) PROVE Told'
      <3>1. CASE WatcherSends(w)
        BY <2>1, <3>1 DEF WatcherSends
      <3>2. CASE WatcherSendFails(w)
        BY <2>2, <3>2 DEF WatcherSendFails, MarkedAfterFailure
      <3>3. CASE PollsQuietly(w) \/ PollsNews(w) \/ Cleanup(w)
        BY <2>2, <3>3 DEF PollsQuietly, PollsNews, Cleanup
      <3> QED BY <2>6, <3>1, <3>2, <3>3 DEF Watcher
    <2>7. CASE ApproveCommand \/ Replies \/ CancelCommand \/ StopWorker \/ StopWatchers
      BY <2>2, <2>7 DEF ApproveCommand, Replies, CancelCommand, StopWorker, StopWatchers, watchVars
    <2>8. CASE UNCHANGED vars
      BY <2>2, <2>8 DEF vars, watchVars
    <2> QED BY <1>2, <2>3, <2>4, <2>5, <2>6, <2>7, <2>8 DEF Next
  <1>3. Told => SilencedOnlyIfTold
    OBVIOUS
  <1> QED BY <1>1, <1>2, <1>3, PTL DEF Spec
=============================================================================
