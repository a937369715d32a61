---------------------------- MODULE CommandLine ----------------------------
(***************************************************************************)
(* The commands that wait: `probe-readiness`, against the readiness        *)
(* endpoint of the bot process of WebhookRuntime, and `run`, `chat` and    *)
(* `resume`, whose _poll_run() watches the row of a run that another       *)
(* process works on.                                                       *)
(*                                                                         *)
(* Time is counted from the start of the command in the unit of the limit. *)
(* A sleep lasts at least its interval, and at most MaxLate more; a        *)
(* request to the endpoint lasts at most MaxRequest, or raises.            *)
(***************************************************************************)
EXTENDS WebhookRuntime

CONSTANTS
    Limits,      \* --max-wait-seconds, --timeout
    NoLimit,     \* the option is left out
    Interval,    \* --interval-seconds, --poll-interval
    MaxRequest,  \* bound: --timeout-seconds, as a request keeps it
    MaxLate,     \* bound: how late a sleeper wakes up
    MaxElapsed   \* bound: the clock of a command without a limit stops here

ASSUME CommandAssumption ==
    /\ Limits \subseteq Nat \ {0} /\ NoLimit \notin Nat
    /\ Interval \in Nat \ {0} /\ MaxRequest \in Nat /\ MaxLate \in Nat /\ MaxElapsed \in Nat

VARIABLES
    kind,     \* "probe", "probe_wait", "poll"
    limit,
    pc,       \* what the command does: look, asking, judge, sleep, done
    asked,    \* the process its request is connected to
    answer,   \* the status it was given
    outcome,
    elapsed,  \* since the command started
    since,    \* since it fell asleep or asked
    ended     \* when the run it polls reached a terminal status; NoLimit: not yet

commandVars == <<kind, limit, pc, asked, answer, outcome, elapsed, since, ended>>
vars == <<runtimeVars, commandVars>>

TypeOK ==
    /\ RuntimeTypeOK
    /\ kind \in {"probe", "probe_wait", "poll"} /\ limit \in Limits \cup {NoLimit}
    /\ pc \in {"look", "asking", "judge", "sleep", "done"}
    /\ asked \in 0 .. MaxStarts
    /\ answer \in {"none", "refused", "starting", "ready", "stopping"}
    /\ outcome \in {"none", "ready", "not_ready", "timed_out", "raised", "result"}
    /\ elapsed \in Nat /\ since \in Nat
    /\ ended \in Nat \cup {NoLimit}

Init ==
    /\ RuntimeInit
    /\ kind \in {"probe", "probe_wait", "poll"} /\ limit \in Limits \cup {NoLimit}
    /\ kind = "probe" => limit = NoLimit
    /\ pc = "look" /\ asked = 0 /\ answer = "none" /\ outcome = "none"
    /\ elapsed = 0 /\ since = 0 /\ ended = NoLimit

-----------------------------------------------------------------------------

Done(result) == pc' = "done" /\ outcome' = result

ExpiredEarly == limit # NoLimit /\ elapsed + Interval >= limit
Expired == limit # NoLimit /\ elapsed >= limit

\* _resolve_readiness_url(): there is no endpoint to ask.
Refuse ==
    /\ kind # "poll" /\ pc = "look" /\ mode # "webhook_endpoint"
    /\ Done("raised")
    /\ UNCHANGED <<runtimeVars, kind, limit, asked, answer, elapsed, since, ended>>

\* urlopen(): connected, or refused, which is a URLError.
Ask ==
    /\ kind # "poll" /\ pc = "look" /\ mode = "webhook_endpoint"
    /\ \/ endpoint /\ pc' = "asking" /\ asked' = starts /\ answer' = answer
       \/ ~endpoint /\ pc' = "judge" /\ asked' = asked /\ answer' = "refused"
    /\ since' = 0
    /\ UNCHANGED <<runtimeVars, kind, limit, outcome, elapsed, ended>>

Connected == phase # "ended" /\ asked = starts

\* A thread of the health server takes a snapshot and writes it.
Answer ==
    /\ pc = "asking" /\ Connected
    /\ pc' = "judge" /\ answer' = readiness
    /\ UNCHANGED <<runtimeVars, kind, limit, asked, outcome, elapsed, since, ended>>

\* The process dies with the request open, or the answer is late: an error,
\* but not a URLError, so the command ends with it.
RequestRaises ==
    /\ pc = "asking"
    /\ ~Connected \/ since = MaxRequest
    /\ Done("raised")
    /\ UNCHANGED <<runtimeVars, kind, limit, asked, answer, elapsed, since, ended>>

\* The loop of probe_readiness() looks before it checks the limit ...
JudgeAnswer ==
    /\ pc = "judge"
    /\ \/ answer = "ready" /\ Done("ready") /\ since' = since
       \/ answer # "ready" /\ kind = "probe" /\ Done("not_ready") /\ since' = since
       \/ answer # "ready" /\ kind # "probe" /\ Expired /\ Done("timed_out") /\ since' = since
       \/ /\ answer # "ready" /\ kind # "probe" /\ ~Expired
          /\ pc' = "sleep" /\ since' = 0 /\ outcome' = outcome
    /\ UNCHANGED <<runtimeVars, kind, limit, asked, answer, elapsed, ended>>

\* ... and that of _poll_run() checks it before it looks.
OverAtTheStart == ended = 0
RunIsOver == ended # NoLimit

Poll ==
    /\ kind = "poll" /\ pc = "look"
    /\ \/ Expired /\ Done("timed_out") /\ since' = since
       \/ ~Expired /\ RunIsOver /\ Done("result") /\ since' = since
       \/ ~Expired /\ ~RunIsOver /\ pc' = "sleep" /\ since' = 0 /\ outcome' = outcome
    /\ UNCHANGED <<runtimeVars, kind, limit, asked, answer, elapsed, ended>>

Wake ==
    /\ pc = "sleep" /\ since >= Interval
    /\ pc' = "look"
    /\ UNCHANGED <<runtimeVars, kind, limit, asked, answer, outcome, elapsed, since, ended>>

\* Time passes while the command sleeps or waits for an answer.
Tick ==
    /\ \/ pc = "sleep" /\ since < Interval + MaxLate
       \/ pc = "asking" /\ since < MaxRequest
    /\ since' = since + 1
    /\ elapsed' = IF limit = NoLimit /\ elapsed = MaxElapsed THEN elapsed ELSE elapsed + 1
    /\ UNCHANGED <<runtimeVars, kind, limit, pc, asked, answer, outcome, ended>>

\* The bot's worker, or a cancellation, ends the run.
RunEnds ==
    /\ kind = "poll" /\ ended = NoLimit /\ pc # "done"
    /\ ended' = elapsed
    /\ UNCHANGED <<runtimeVars, kind, limit, pc, asked, answer, outcome, elapsed, since>>

CommandStep == Refuse \/ Ask \/ Answer \/ RequestRaises \/ JudgeAnswer \/ Poll \/ Wake

Next ==
    \/ RuntimeNext /\ UNCHANGED commandVars
    \/ CommandStep \/ Tick \/ RunEnds

Spec == Init /\ [][Next]_vars

\* The command and the clock are never stopped for good, nor is the process
\* between two signals.
FairSpec == Spec /\ WF_vars(CommandStep) /\ WF_vars(Tick)
                 /\ WF_vars(RuntimeStep /\ UNCHANGED commandVars)

-----------------------------------------------------------------------------

Overrun == Interval + MaxLate + (IF kind = "poll" THEN 0 ELSE MaxRequest)

\* A limit is kept: a command still at work, or ended, has never gone past it
\* by more than one sleep and one request; and it does not give up early.
GivesUpInTime ==
    limit # NoLimit => /\ elapsed <= limit - 1 + Overrun
                       /\ outcome = "timed_out" => elapsed >= limit

\* _poll_run() gives up without a last look, so a run may have ended before
\* "Timed out"; but then only since the last sleep began.
EndedRunsAreReported ==
    kind = "poll" /\ outcome = "timed_out" /\ ended # NoLimit =>
        ended + Interval + MaxLate >= elapsed

\* A command with a limit ends; so does a wait for a run that has ended, and
\* for a bot that stays ready.
CommandsEnd ==
    /\ limit # NoLimit ~> pc = "done"
    /\ ended # NoLimit ~> pc = "done"
    /\ <>[](endpoint /\ readiness = "ready") => <>(kind # "poll" => pc = "done")
=============================================================================
