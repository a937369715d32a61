---------------------------- MODULE RetryGateway ----------------------------
(***************************************************************************)
(* ParallelLLMGateway: concurrent generate() calls, the provider calls each *)
(* of them fans out to, with_retry() around every provider call and the    *)
(* sliding-window retry budget they all share.                             *)
(*                                                                         *)
(* Everything runs on one event loop; an action is the code between two    *)
(* awaits.  Answers are told apart by their provider.  Time is the age of  *)
(* the recorded retries; a sleep may last any time.                        *)
(*                                                                         *)
(* Definitions directly above another one with the same parameters are     *)
(* faulty variants of it.                                                  *)
(***************************************************************************)
EXTENDS Integers, Sequences

CONSTANTS
    Calls,       \* calls of generate()
    Providers,   \* configured providers with a client
    Modes,       \* how agents combine providers
    MaxRetries,  \* RetryConfig.max_retries
    BudgetMax,   \* RetryConfig.budget_max_retries of each provider
    Window       \* RetryConfig.budget_window_seconds

ASSUME GatewayAssumption ==
    /\ Modes \subseteq {"single", "sectioned", "first_success"}
    /\ MaxRetries \in Nat
    /\ BudgetMax \in [Providers -> Nat \ {0}]
    /\ Window \in Nat \ {0}

VARIABLES
    phase,    \* where generate() is
    mode,     \* how it combines the providers
    pc,       \* where the provider call is
    attempt,  \* attempt of with_retry()
    done,     \* completions as_completed() has not handed out yet
    stamps,   \* ages of _RetryBudget._timestamps
    limit     \* _max_retries of the budget singleton, 0 if there is none

vars == <<phase, mode, pc, attempt, done, stamps, limit>>

Phase == {"idle", "running", "settling", "interrupting", "returned", "raised", "interrupted"}
PC == {"idle", "calling", "sleeping", "cancelling", "ok", "failed", "cancelled"}

Live == {"calling", "sleeping", "cancelling"}

\* All tasks of a call are done.
AllOverButCancelled(c) == \A p \in Providers : pc[c][p] \notin {"calling", "sleeping"}
AllOver(c) == \A p \in Providers : pc[c][p] \notin Live

Init ==
    /\ phase = [c \in Calls |-> "idle"]
    /\ mode = [c \in Calls |-> "single"]
    /\ pc = [c \in Calls |-> [p \in Providers |-> "idle"]]
    /\ attempt = [c \in Calls |-> [p \in Providers |-> 0]]
    /\ done = [c \in Calls |-> <<>>]
    /\ stamps = <<>>
    /\ limit = 0

-----------------------------------------------------------------------------
(* _RetryBudget *)

\* _sweep(): entries are popped from the front as long as they are too old.
Swept(s) ==
    LET n == CHOOSE k \in 0..Len(s) : /\ \A i \in 1..k : s[i] > Window
                                      /\ k < Len(s) => s[k + 1] <= Window
    IN  SubSeq(s, n + 1, Len(s))

\* can_retry()
CanRetryAtLimit(s) == Len(Swept(s)) <= limit
CanRetry(s) == Len(Swept(s)) < limit

\* record(), after the sweep of can_retry().
Recorded(s) == Append(Swept(s), 0)

\* Time passes.
Tick ==
    /\ \E i \in DOMAIN stamps : stamps[i] <= Window
    /\ stamps' = [i \in DOMAIN stamps |-> IF stamps[i] <= Window THEN stamps[i] + 1 ELSE stamps[i]]
    /\ UNCHANGED <<phase, mode, pc, attempt, done, limit>>

-----------------------------------------------------------------------------
(* with_retry() around one provider call *)

\* The task of a provider call ends; as_completed() queues it while it is listening.
Ends(c, p, how) ==
    /\ pc[c][p] = "calling"
    /\ pc' = [pc EXCEPT ![c][p] = how]
    /\ attempt' = [attempt EXCEPT ![c][p] = 0]
    /\ done' = IF mode[c] = "first_success" /\ phase[c] = "running"
               THEN [done EXCEPT ![c] = Append(@, p)] ELSE done
    /\ UNCHANGED <<phase, mode, limit>>

Answers(c, p) ==
    /\ Ends(c, p, "ok")
    /\ UNCHANGED stamps

RetriesLeft(c, p) == attempt[c][p] < MaxRetries

Sleeps(c, p) ==
    /\ pc[c][p] = "calling"
    /\ pc' = [pc EXCEPT ![c][p] = "sleeping"]
    /\ UNCHANGED <<phase, mode, attempt, done, limit>>

\* An error that is not retryable, or any error of the last attempt.
GivesUp(c, p) ==
    /\ Ends(c, p, "failed")
    /\ UNCHANGED stamps

\* 429 with Retry-After: wait as told, free of charge.
WaitsAsTold(c, p) ==
    /\ RetriesLeft(c, p)
    /\ Sleeps(c, p)
    /\ UNCHANGED stamps

\* Every other retryable error, 429 without a usable Retry-After included, is
\* charged to the budget, or fails fast.
BacksOff(c, p) ==
    /\ RetriesLeft(c, p) /\ CanRetry(stamps)
    /\ Sleeps(c, p)
    /\ stamps' = Recorded(stamps)

FailsFast(c, p) ==
    /\ RetriesLeft(c, p) /\ ~CanRetry(stamps)
    /\ Ends(c, p, "failed")
    /\ stamps' = Swept(stamps)

NextAttemptSame(c, p) == attempt[c][p]
NextAttempt(c, p) == attempt[c][p] + 1

WakesUp(c, p) ==
    /\ pc[c][p] = "sleeping"
    /\ pc' = [pc EXCEPT ![c][p] = "calling"]
    /\ attempt' = [attempt EXCEPT ![c][p] = NextAttempt(c, p)]
    /\ UNCHANGED <<phase, mode, done, stamps, limit>>

\* CancelledError in the provider call or the sleep: never retried, never an answer.
CancelledErrorRaised(c, p) ==
    /\ pc[c][p] = "cancelling"
    /\ pc' = [pc EXCEPT ![c][p] = "cancelled"]
    /\ attempt' = [attempt EXCEPT ![c][p] = 0]
    /\ UNCHANGED <<phase, mode, done, stamps, limit>>

ProviderCall(c, p) == \/ Answers(c, p) \/ GivesUp(c, p) \/ WaitsAsTold(c, p) \/ BacksOff(c, p)
                      \/ FailsFast(c, p) \/ WakesUp(c, p) \/ CancelledErrorRaised(c, p)

-----------------------------------------------------------------------------
(* generate() *)

\* None of the providers of the agent has a client.
GenerateUnavailable(c) ==
    /\ phase[c] = "idle"
    /\ phase' = [phase EXCEPT ![c] = "raised"]
    /\ UNCHANGED <<mode, pc, attempt, done, stamps, limit>>

\* _get_budget(): the first provider call of the process creates the budget from
\* the settings of its provider.
Budget(p) == IF limit = 0 THEN BudgetMax[p] ELSE limit

\* The agent uses the providers S: one of them in single mode, else all of them.
Generate(c) ==
    /\ phase[c] = "idle"
    /\ \E S \in SUBSET Providers \ {{}}, m \in Modes, first \in Providers :
        LET started == IF m = "single" THEN {first} ELSE S
        IN  /\ first \in S
            /\ m # "single" => S # {first}
            /\ mode' = [mode EXCEPT ![c] = m]
            /\ pc' = [pc EXCEPT ![c] = [p \in Providers |-> IF p \in started THEN "calling" ELSE "idle"]]
            /\ limit' = Budget(first)
    /\ phase' = [phase EXCEPT ![c] = "running"]
    /\ UNCHANGED <<attempt, done, stamps>>

\* gather() or the single call returned.
Gathered(c) ==
    /\ phase[c] = "running" /\ mode[c] # "first_success"
    /\ AllOver(c)
    /\ phase' = [phase EXCEPT ![c] = IF \E p \in Providers : pc[c][p] = "ok" THEN "returned" ELSE "raised"]
    /\ UNCHANGED <<mode, pc, attempt, done, stamps, limit>>

\* as_completed() hands out a failure; after the last one generate() raises.
NothingToWaitForYet(c) == Len(done[c]) = 1
NothingToWaitFor(c) == Len(done[c]) = 1 /\ AllOver(c)
TakesFailure(c) ==
    /\ phase[c] = "running" /\ done[c] # <<>>
    /\ pc[c][Head(done[c])] = "failed"
    /\ done' = [done EXCEPT ![c] = Tail(@)]
    /\ phase' = [phase EXCEPT ![c] = IF NothingToWaitFor(c) THEN "raised" ELSE @]
    /\ UNCHANGED <<mode, pc, attempt, stamps, limit>>

\* task.cancel() for every task that is not done.
CancelAll(c) == [pc EXCEPT ![c] = [p \in Providers |-> IF @[p] \in Live THEN "cancelling" ELSE @[p]]]

\* as_completed() hands out an answer: the other tasks are cancelled and awaited.
TakesAnswer(c) ==
    /\ phase[c] = "running" /\ done[c] # <<>>
    /\ pc[c][Head(done[c])] = "ok"
    /\ pc' = CancelAll(c)
    /\ phase' = [phase EXCEPT ![c] = "settling"]
    /\ done' = [done EXCEPT ![c] = <<>>]
    /\ UNCHANGED <<mode, attempt, stamps, limit>>

Settled(c) ==
    /\ phase[c] = "settling" /\ AllOver(c)
    /\ phase' = [phase EXCEPT ![c] = "returned"]
    /\ UNCHANGED <<mode, pc, attempt, done, stamps, limit>>

\* The run is interrupted: gather() cancels its children and waits for them,
\* as_completed() leaves them alone.
Interrupt(c) ==
    /\ \/ /\ phase[c] = "settling" \/ (phase[c] = "running" /\ mode[c] # "first_success")
          /\ phase' = [phase EXCEPT ![c] = "interrupting"]
          /\ pc' = CancelAll(c) /\ UNCHANGED done
       \/ /\ phase[c] = "running" /\ mode[c] = "first_success"
          /\ phase' = [phase EXCEPT ![c] = "interrupted"]
          /\ done' = [done EXCEPT ![c] = <<>>] /\ UNCHANGED pc
    /\ UNCHANGED <<mode, attempt, stamps, limit>>

Interrupted(c) ==
    /\ phase[c] = "interrupting" /\ AllOver(c)
    /\ phase' = [phase EXCEPT ![c] = "interrupted"]
    /\ UNCHANGED <<mode, pc, attempt, done, stamps, limit>>

Resumes(c) == Gathered(c) \/ TakesFailure(c) \/ TakesAnswer(c) \/ Settled(c) \/ Interrupted(c)

Next ==
    \/ Tick
    \/ \E c \in Calls : \/ GenerateUnavailable(c) \/ Generate(c) \/ Resumes(c) \/ Interrupt(c)
                        \/ \E p \in Providers : ProviderCall(c, p)

Spec == Init /\ [][Next]_vars

\* The event loop resumes what is ready, provider calls time out, sleeps end.
FairSpec == /\ Spec
            /\ \A c \in Calls : WF_vars(Resumes(c))
            /\ \A c \in Calls, p \in Providers : WF_vars(ProviderCall(c, p))

-----------------------------------------------------------------------------

\* The values of every variable: with_retry() makes at most max_retries + 1
\* attempts.
TypeOK ==
    /\ phase \in [Calls -> Phase]
    /\ mode \in [Calls -> {"single", "sectioned", "first_success"}]
    /\ pc \in [Calls -> [Providers -> PC]]
    /\ attempt \in [Calls -> [Providers -> 0..MaxRetries]]
    /\ done \in [Calls -> Seq(Providers)]
    /\ stamps \in Seq(0..(Window + 1))
    /\ limit \in Nat

\* However many calls fail at once, the budget never holds more retries than it
\* allows: between can_retry() and record() nobody else gets a turn.
BudgetNotExceeded == Len(stamps) <= limit

\* Sweeping from the front removes every retry older than the window, whoever
\* recorded it.
SweepIsComplete == \A i \in DOMAIN Swept(stamps) : Swept(stamps)[i] <= Window

\* A call fails only if every provider it asked has failed: an answer that arrives
\* while other completions wait to be handed out is not lost.
AnswerNotLost ==
    \A c \in Calls : phase[c] = "raised" => \A p \in Providers : pc[c][p] # "ok"

\* When generate() returns or raises, no provider call it started is under way.
NoCallLeftBehind ==
    \A c \in Calls : phase[c] \in {"returned", "raised"} => \A p \in Providers : pc[c][p] \notin Live

\* Every call of generate() ends, however providers fail.
CallsEnd == \A c \in Calls : phase[c] = "running" ~> phase[c] \in {"returned", "raised", "interrupted"}
=============================================================================
