------------------------- MODULE RetryGatewayProofs -------------------------
(***************************************************************************)
(* Theorems about RetryGateway, for any number of concurrent calls,        *)
(* providers, retries and any window: first the retry budget the calls      *)
(* share, then the calls of generate(), which do not disturb each other.   *)
(***************************************************************************)
EXTENDS RetryGateway, SequenceTheorems, WellFoundedInduction, TLAPS

Ages == 0..(Window + 1)

\* A sequence of ages, oldest first.
Ordered(s) == \A i, j \in 1..Len(s) : i <= j => s[j] <= s[i]

BudgetInv ==
    /\ stamps \in Seq(Ages)
    /\ limit \in Nat
    /\ Ordered(stamps)
    /\ BudgetNotExceeded

\* _sweep() stops: there is a first entry that is young enough, or none at all.
LEMMA SweepStops ==
    ASSUME NEW s \in Seq(Ages)
    PROVE  \E k \in 0..Len(s) : /\ \A i \in 1..k : s[i] > Window
                                /\ k < Len(s) => s[k + 1] <= Window
  <1> DEFINE K == {k \in 0..Len(s) : k < Len(s) => s[k + 1] <= Window}
  <1>1. Len(s) \in Nat /\ Window \in Nat /\ \A i \in 1..Len(s) : s[i] \in Nat
    BY GatewayAssumption, ElementOfSeq DEF Ages
  <1>2. K \subseteq Nat /\ Len(s) \in K
    BY <1>1
  <1>3. PICK k \in K : \A m \in K : k <= m
    <2> DEFINE R == OpToRel(<, Nat)
    <2>1. IsWellFoundedOn(R, Nat)
      BY NatLessThanWellFounded
    <2>2. \A x, y \in Nat : <<x, y>> \in R <=> x < y
      BY DEF OpToRel
    <2> HIDE DEF R, K
    <2>3. PICK k \in K : \A m \in K : ~(<<m, k>> \in R)
      BY <1>2, <2>1, WFMin
    <2>4. ASSUME NEW m \in K PROVE k <= m
      <3>1. m \in Nat /\ k \in Nat
        BY <1>2, <2>3
      <3>2. ~(<<m, k>> \in R)
        BY <2>3
      <3>3. <<m, k>> \in R <=> m < k
        BY <2>2, <3>1
      <3>4. ~(m < k)
        BY <3>2, <3>3
      <3> QED BY <3>1, <3>4
    <2> QED BY <2>3, <2>4
  <1>4. ASSUME NEW i \in 1..k PROVE s[i] > Window
    <2>1. i - 1 \in 0..Len(s) /\ i - 1 < Len(s) /\ i - 1 < k /\ k \in 0..Len(s)
      BY <1>1, <1>3
    <2>2. i - 1 \notin K
      BY <1>3, <2>1
    <2>3. ~(s[(i - 1) + 1] <= Window)
      BY <2>1, <2>2
    <2> QED BY <1>1, <2>1, <2>3
  <1> QED BY <1>3, <1>4

\* What _sweep() leaves: a suffix, in the same order, without old entries.
LEMMA SweepKeeps ==
    ASSUME NEW s \in Seq(Ages), Ordered(s)
    PROVE  /\ Swept(s) \in Seq(Ages)
           /\ Len(Swept(s)) \in Nat /\ Len(Swept(s)) <= Len(s)
           /\ Ordered(Swept(s))
           /\ \A i \in 1..Len(Swept(s)) : Swept(s)[i] <= Window
  <1> DEFINE n == CHOOSE k \in 0..Len(s) : /\ \A i \in 1..k : s[i] > Window
                                           /\ k < Len(s) => s[k + 1] <= Window
  <1>1. /\ n \in 0..Len(s)
        /\ n < Len(s) => s[n + 1] <= Window
    BY SweepStops
  <1>2. Swept(s) = SubSeq(s, n + 1, Len(s))
    BY DEF Swept
  <1> HIDE DEF n
  <1>3. Len(s) \in Nat /\ Window \in Nat /\ \A i \in 1..Len(s) : s[i] \in Ages
    BY GatewayAssumption, ElementOfSeq
  <1>4. /\ SubSeq(s, n + 1, Len(s)) \in Seq(Ages)
        /\ Len(SubSeq(s, n + 1, Len(s))) = Len(s) - n
        /\ \A i \in 1..(Len(s) - n) : SubSeq(s, n + 1, Len(s))[i] = s[n + i]
    BY <1>1, <1>3
  <1>5. ASSUME NEW i \in 1..(Len(s) - n) PROVE s[n + i] <= Window
    <2>1. /\ n + 1 \in 1..Len(s) /\ n + i \in 1..Len(s) /\ n + 1 <= n + i /\ n < Len(s)
      BY <1>1, <1>3
    <2>2. s[n + i] <= s[n + 1]
      BY <2>1 DEF Ordered
    <2> QED BY <1>1, <1>3, <2>1, <2>2 DEF Ages
  <1>6. ASSUME NEW i \in 1..(Len(s) - n), NEW j \in 1..(Len(s) - n), i <= j
        PROVE  s[n + j] <= s[n + i]
    <2>1. n + i \in 1..Len(s) /\ n + j \in 1..Len(s) /\ n + i <= n + j
      BY <1>1, <1>3, <1>6
    <2> QED BY <2>1 DEF Ordered
  <1>7. Len(Swept(s)) = Len(s) - n /\ \A i \in 1..(Len(s) - n) : Swept(s)[i] = s[n + i]
    BY <1>2, <1>4
  <1>8. Ordered(Swept(s))
    BY <1>6, <1>7 DEF Ordered
  <1>9. Swept(s) \in Seq(Ages)
    BY <1>2, <1>4
  <1>10. Len(Swept(s)) \in Nat /\ Len(Swept(s)) <= Len(s)
    BY <1>1, <1>3, <1>7
  <1>11. \A i \in 1..Len(Swept(s)) : Swept(s)[i] <= Window
    BY <1>5, <1>7
  <1> QED BY <1>8, <1>9, <1>10, <1>11

\* record() appends the youngest entry.
LEMMA RecordKeeps ==
    ASSUME NEW s \in Seq(Ages), Ordered(s)
    PROVE  /\ Recorded(s) \in Seq(Ages)
           /\ Len(Recorded(s)) = Len(Swept(s)) + 1
           /\ Ordered(Recorded(s))
  <1> DEFINE w == Swept(s)
  <1>1. w \in Seq(Ages) /\ Ordered(w) /\ Len(w) \in Nat
    BY SweepKeeps
  <1>2. Recorded(s) = Append(w, 0)
    BY DEF Recorded
  <1> HIDE DEF w
  <1>3. 0 \in Ages /\ \A i \in 1..Len(w) : w[i] \in Nat
    BY <1>1, GatewayAssumption, ElementOfSeq DEF Ages
  <1>4. /\ Append(w, 0) \in Seq(Ages) /\ Len(Append(w, 0)) = Len(w) + 1
        /\ Append(w, 0)[Len(w) + 1] = 0
        /\ \A i \in 1..Len(w) : Append(w, 0)[i] = w[i]
    BY <1>1, <1>3
  <1>5. ASSUME NEW i \in 1..(Len(w) + 1), NEW j \in 1..(Len(w) + 1), i <= j
        PROVE  Append(w, 0)[j] <= Append(w, 0)[i]
    <2>1. CASE j = Len(w) + 1 /\ i = Len(w) + 1
      BY <1>4, <2>1
    <2>2. CASE j = Len(w) + 1 /\ i # Len(w) + 1
      <3>1. i \in 1..Len(w)
        BY <1>1, <2>2
      <3> QED BY <1>3, <1>4, <2>2, <3>1
    <2>3. CASE j # Len(w) + 1
      <3>1. i \in 1..Len(w) /\ j \in 1..Len(w)
        BY <1>1, <1>5, <2>3
      <3> QED BY <1>1, <1>4, <1>5, <3>1 DEF Ordered
    <2> QED BY <2>1, <2>2, <2>3
  <1>6. Ordered(Append(w, 0))
    BY <1>4, <1>5 DEF Ordered
  <1> QED BY <1>2, <1>4, <1>6 DEF w

\* Only time, the first provider call and a charged retry touch the budget.
LEMMA BudgetInvNext == BudgetInv /\ [Next]_vars => BudgetInv'
  <1> SUFFICES ASSUME BudgetInv, [Next]_vars PROVE BudgetInv'
    OBVIOUS
  <1>0. stamps \in Seq(Ages) /\ limit \in Nat /\ Ordered(stamps) /\ Len(stamps) <= limit
        /\ Len(stamps) \in Nat
    BY DEF BudgetInv, BudgetNotExceeded
  <1>1. CASE Tick
    <2>1. /\ DOMAIN stamps = 1..Len(stamps)
          /\ \A i \in 1..Len(stamps) : stamps[i] \in Ages
          /\ Window \in Nat
      BY <1>0, GatewayAssumption, ElementOfSeq
    <2>2. stamps' = [i \in 1..Len(stamps) |-> IF stamps[i] <= Window THEN stamps[i] + 1 ELSE stamps[i]]
      BY <1>1, <2>1 DEF Tick
    <2>3. ASSUME NEW i \in 1..Len(stamps)
          PROVE  /\ stamps'[i] = IF stamps[i] <= Window THEN stamps[i] + 1 ELSE stamps[i]
                 /\ stamps'[i] \in Ages
      BY <2>1, <2>2 DEF Ages
    <2>4. stamps' \in [1..Len(stamps) -> Ages]
      BY <2>2, <2>3
    <2>5. stamps' \in Seq(Ages) /\ Len(stamps') = Len(stamps)
      BY <1>0, <2>4
    <2>6. Ordered(stamps')
      <3> SUFFICES ASSUME NEW i \in 1..Len(stamps), NEW j \in 1..Len(stamps), i <= j
                   PROVE  stamps'[j] <= stamps'[i]
        BY <2>5 DEF Ordered
      <3>1. stamps[j] <= stamps[i]
        BY <1>0 DEF Ordered
      <3> QED BY <2>1, <2>3, <3>1 DEF Ages
    <2>7. limit' = limit
      BY <1>1 DEF Tick
    <2> QED BY <1>0, <2>5, <2>6, <2>7 DEF BudgetInv, BudgetNotExceeded, Ordered
  <1>2. ASSUME NEW c \in Calls, Generate(c) PROVE BudgetInv'
    <2>1. PICK first \in Providers : limit' = IF limit = 0 THEN BudgetMax[first] ELSE limit
      BY <1>2 DEF Generate, Budget
    <2>2. BudgetMax[first] \in Nat
      BY GatewayAssumption
    <2>3. stamps' = stamps /\ limit' \in Nat /\ limit <= limit'
      BY <1>0, <1>2, <2>1, <2>2 DEF Generate
    <2> QED BY <1>0, <2>3 DEF BudgetInv, BudgetNotExceeded, Ordered
  <1>3. ASSUME NEW c \in Calls, NEW p \in Providers, BacksOff(c, p) PROVE BudgetInv'
    <2>1. stamps' = Recorded(stamps) /\ limit' = limit /\ Len(Swept(stamps)) < limit
      BY <1>3 DEF BacksOff, Sleeps, CanRetry
    <2>2. /\ Recorded(stamps) \in Seq(Ages) /\ Ordered(Recorded(stamps))
          /\ Len(Recorded(stamps)) = Len(Swept(stamps)) + 1 /\ Len(Swept(stamps)) \in Nat
      BY <1>0, RecordKeeps, SweepKeeps
    <2> QED BY <1>0, <2>1, <2>2 DEF BudgetInv, BudgetNotExceeded, Ordered
  <1>4. ASSUME NEW c \in Calls, NEW p \in Providers, FailsFast(c, p) PROVE BudgetInv'
    <2>1. stamps' = Swept(stamps) /\ limit' = limit
      BY <1>4 DEF FailsFast, Ends
    <2>2. /\ Swept(stamps) \in Seq(Ages) /\ Ordered(Swept(stamps))
          /\ Len(Swept(stamps)) <= Len(stamps) /\ Len(Swept(stamps)) \in Nat
      BY <1>0, SweepKeeps
    <2> QED BY <1>0, <2>1, <2>2 DEF BudgetInv, BudgetNotExceeded, Ordered
  <1>5. ASSUME stamps' = stamps, limit' = limit PROVE BudgetInv'
    BY <1>0, <1>5 DEF BudgetInv, BudgetNotExceeded, Ordered
  <1>6. ASSUME NEW c \in Calls, NEW p \in Providers,
               ProviderCall(c, p), ~BacksOff(c, p), ~FailsFast(c, p)
        PROVE  stamps' = stamps /\ limit' = limit
    BY <1>6 DEF ProviderCall, Answers, GivesUp, WaitsAsTold, WakesUp, CancelledErrorRaised, Ends, Sleeps
  <1>7. ASSUME NEW c \in Calls, GenerateUnavailable(c) \/ Resumes(c) \/ Interrupt(c)
        PROVE  stamps' = stamps /\ limit' = limit
    BY <1>7 DEF GenerateUnavailable, Resumes, Gathered, TakesFailure, TakesAnswer, Settled, Interrupted, Interrupt
  <1>8. CASE UNCHANGED vars
    BY <1>5, <1>8 DEF vars
  <1> QED
    BY <1>1, <1>2, <1>3, <1>4, <1>5, <1>6, <1>7, <1>8 DEF Next

\* The inductive invariant of _RetryBudget.
THEOREM BudgetInvariant == Spec => []BudgetInv
  <1>1. Init => BudgetInv
    BY DEF Init, BudgetInv, BudgetNotExceeded, Ordered
  <1> QED BY <1>1, BudgetInvNext, PTL DEF Spec

\* can_retry() and record() keep the budget within its limit, however many calls
\* share it.
THEOREM BudgetIsKept == Spec => []BudgetNotExceeded
  <1>1. BudgetInv => BudgetNotExceeded
    BY DEF BudgetInv
  <1> QED BY <1>1, BudgetInvariant, PTL

\* Popping from the front is enough: _sweep() leaves no retry older than the window.
THEOREM SweepsAreComplete == Spec => []SweepIsComplete
  <1>1. BudgetInv => SweepIsComplete
    <2> SUFFICES ASSUME BudgetInv PROVE SweepIsComplete
      OBVIOUS
    <2>1. Swept(stamps) \in Seq(Ages) /\ \A i \in 1..Len(Swept(stamps)) : Swept(stamps)[i] <= Window
      BY SweepKeeps DEF BudgetInv
    <2>2. DOMAIN Swept(stamps) = 1..Len(Swept(stamps))
      BY <2>1
    <2> QED BY <2>1, <2>2 DEF SweepIsComplete
  <1> QED BY <1>1, BudgetInvariant, PTL

-----------------------------------------------------------------------------
(* The calls of generate().                                                *)

CallTypes ==
    /\ phase \in [Calls -> Phase]
    /\ mode \in [Calls -> {"single", "sectioned", "first_success"}]
    /\ pc \in [Calls -> [Providers -> PC]]
    /\ attempt \in [Calls -> [Providers -> 0..MaxRetries]]
    /\ done \in [Calls -> Seq(Providers)]

\* The providers whose completion waits to be handed out.
Queued(s) == {s[i] : i \in 1..Len(s)}

\* Before generate() there is no task; only as_completed() queues completions, and as
\* long as it listens every answer is among them; a sleeping task has a retry left.
CallInv(c) ==
    /\ phase[c] = "idle" => done[c] = <<>> /\ \A p \in Providers : pc[c][p] = "idle"
    /\ done[c] # <<>> => phase[c] = "running" /\ mode[c] = "first_success"
    /\ phase[c] = "running" /\ mode[c] = "first_success" =>
           \A p \in Providers : pc[c][p] = "ok" => p \in Queued(done[c])
    /\ phase[c] = "raised" => \A p \in Providers : pc[c][p] # "ok"
    /\ phase[c] \in {"returned", "raised"} => \A p \in Providers : pc[c][p] \notin Live
    /\ \A p \in Providers : pc[c][p] = "sleeping" => attempt[c][p] < MaxRetries

GatewayInv == CallTypes /\ \A c \in Calls : CallInv(c)

\* A completion that is queued comes last, and the others stay.
LEMMA QueuedByAppend ==
    ASSUME NEW s \in Seq(Providers), NEW p \in Providers
    PROVE  Append(s, p) \in Seq(Providers) /\ Queued(Append(s, p)) = Queued(s) \cup {p}
<1>1. /\ Append(s, p) \in Seq(Providers) /\ Len(Append(s, p)) = Len(s) + 1 /\ Len(s) \in Nat
      /\ Append(s, p)[Len(s) + 1] = p /\ \A i \in 1..Len(s) : Append(s, p)[i] = s[i]
  OBVIOUS
<1>2. 1..(Len(s) + 1) = 1..Len(s) \cup {Len(s) + 1}
  BY <1>1
<1> QED BY <1>1, <1>2 DEF Queued

\* Taking the first completion leaves the others; the last one leaves none.
LEMMA QueuedByTail ==
    ASSUME NEW s \in Seq(Providers), s # <<>>
    PROVE  /\ Head(s) \in Providers /\ Tail(s) \in Seq(Providers) /\ Len(s) \in Nat \ {0}
           /\ Queued(s) \subseteq Queued(Tail(s)) \cup {Head(s)}
           /\ Len(s) = 1 => Queued(s) = {Head(s)} /\ Tail(s) = <<>>
<1>1. /\ Head(s) \in Providers /\ Tail(s) \in Seq(Providers) /\ Len(s) \in Nat \ {0}
      /\ Head(s) = s[1] /\ Len(Tail(s)) = Len(s) - 1
      /\ \A i \in 1..(Len(s) - 1) : Tail(s)[i] = s[i + 1]
  BY HeadTailProperties, EmptySeq, LenProperties
<1>2. ASSUME NEW i \in 1..Len(s), i # 1 PROVE s[i] \in Queued(Tail(s))
  <2>1. i - 1 \in 1..Len(Tail(s)) /\ Tail(s)[i - 1] = s[i]
    BY <1>1, <1>2
  <2> QED BY <2>1 DEF Queued
<1>3. ASSUME Len(s) = 1 PROVE Queued(s) = {Head(s)} /\ Tail(s) = <<>>
  <2>1. 1..Len(s) = {1} /\ Len(Tail(s)) = 0
    BY <1>1, <1>3
  <2>2. Queued(s) = {s[1]}
    BY <2>1 DEF Queued
  <2> QED BY <1>1, <2>1, <2>2, EmptySeq
<1> QED BY <1>1, <1>2, <1>3 DEF Queued

\* The calls do not touch each other.
LEMMA OtherCalls ==
    ASSUME CallTypes, NEW c \in Calls, NEW d \in Calls, d # c, CallInv(d),
           \/ GenerateUnavailable(c) \/ Generate(c) \/ Resumes(c) \/ Interrupt(c)
           \/ \E p \in Providers : ProviderCall(c, p)
    PROVE  CallInv(d)'
<1>1. phase'[d] = phase[d]
  BY DEF CallTypes, GenerateUnavailable, Generate, Resumes, Gathered, TakesFailure, TakesAnswer, Settled,
         Interrupted, Interrupt, ProviderCall, Answers, GivesUp, WaitsAsTold, BacksOff, FailsFast, WakesUp,
         CancelledErrorRaised, Ends, Sleeps
<1>2. mode'[d] = mode[d]
  BY DEF CallTypes, GenerateUnavailable, Generate, Resumes, Gathered, TakesFailure, TakesAnswer, Settled,
         Interrupted, Interrupt, ProviderCall, Answers, GivesUp, WaitsAsTold, BacksOff, FailsFast, WakesUp,
         CancelledErrorRaised, Ends, Sleeps
<1>3. pc'[d] = pc[d]
  BY DEF CallTypes, GenerateUnavailable, Generate, Resumes, Gathered, TakesFailure, TakesAnswer, Settled,
         Interrupted, Interrupt, ProviderCall, Answers, GivesUp, WaitsAsTold, BacksOff, FailsFast, WakesUp,
         CancelledErrorRaised, Ends, Sleeps, CancelAll
<1>4. attempt'[d] = attempt[d]
  BY DEF CallTypes, GenerateUnavailable, Generate, Resumes, Gathered, TakesFailure, TakesAnswer, Settled,
         Interrupted, Interrupt, ProviderCall, Answers, GivesUp, WaitsAsTold, BacksOff, FailsFast, WakesUp,
         CancelledErrorRaised, Ends, Sleeps
<1>5. done'[d] = done[d]
  BY DEF CallTypes, GenerateUnavailable, Generate, Resumes, Gathered, TakesFailure, TakesAnswer, Settled,
         Interrupted, Interrupt, ProviderCall, Answers, GivesUp, WaitsAsTold, BacksOff, FailsFast, WakesUp,
         CancelledErrorRaised, Ends, Sleeps
<1> QED BY <1>1, <1>2, <1>3, <1>4, <1>5 DEF CallInv

\* The end of a task: an answer is queued as long as as_completed() listens, and a
\* failure is none.
LEMMA EndOfTask ==
    ASSUME CallTypes, NEW c \in Calls, NEW p \in Providers, NEW how \in {"ok", "failed"},
           CallInv(c), Ends(c, p, how)
    PROVE  CallTypes' /\ CallInv(c)'
<1>1. /\ pc[c][p] = "calling" /\ phase' = phase /\ mode' = mode
      /\ \A q \in Providers : pc'[c][q] = IF q = p THEN how ELSE pc[c][q]
      /\ \A q \in Providers : attempt'[c][q] = IF q = p THEN 0 ELSE attempt[c][q]
  BY DEF Ends, CallTypes
<1>2. phase[c] \notin {"idle", "returned", "raised"}
  BY <1>1 DEF CallInv, Live
<1>3. pc' \in [Calls -> [Providers -> PC]] /\ attempt' \in [Calls -> [Providers -> 0..MaxRetries]]
  BY GatewayAssumption DEF Ends, CallTypes, PC
<1>4. CASE mode[c] = "first_success" /\ phase[c] = "running"
  <2>1. done' = [done EXCEPT ![c] = Append(done[c], p)] /\ done[c] \in Seq(Providers)
    BY <1>4 DEF Ends, CallTypes
  <2>2. Append(done[c], p) \in Seq(Providers) /\ Queued(Append(done[c], p)) = Queued(done[c]) \cup {p}
    BY <2>1, QueuedByAppend
  <2>3. done'[c] = Append(done[c], p) /\ done' \in [Calls -> Seq(Providers)]
    BY <2>1, <2>2 DEF CallTypes
  <2>4. \A q \in Providers : pc'[c][q] = "ok" => q \in Queued(done'[c])
    BY <1>1, <1>4, <2>2, <2>3 DEF CallInv
  <2> QED BY <1>1, <1>2, <1>3, <1>4, <2>3, <2>4 DEF CallTypes, CallInv
<1>5. CASE ~(mode[c] = "first_success" /\ phase[c] = "running")
  <2>1. done' = done
    BY <1>5 DEF Ends
  <2> QED BY <1>1, <1>2, <1>3, <1>5, <2>1 DEF CallTypes, CallInv
<1> QED BY <1>4, <1>5

\* A task that goes to sleep, wakes up or is cancelled is neither queued nor an answer.
LEMMA TaskUnderWay ==
    ASSUME CallTypes, NEW c \in Calls, NEW p \in Providers, CallInv(c),
           \/ RetriesLeft(c, p) /\ Sleeps(c, p)
           \/ WakesUp(c, p) \/ CancelledErrorRaised(c, p)
    PROVE  CallTypes' /\ CallInv(c)'
<1>1. /\ pc[c][p] \in Live /\ phase' = phase /\ mode' = mode /\ done' = done
      /\ pc'[c][p] \in {"calling", "sleeping", "cancelled"}
      /\ \A q \in Providers \ {p} : pc'[c][q] = pc[c][q] /\ attempt'[c][q] = attempt[c][q]
      /\ pc' \in [Calls -> [Providers -> PC]]
  <2>1. CASE Sleeps(c, p)
    BY <2>1 DEF Sleeps, CallTypes, PC, Live
  <2>2. CASE WakesUp(c, p)
    BY <2>2 DEF WakesUp, CallTypes, PC, Live
  <2>3. CASE CancelledErrorRaised(c, p)
    BY <2>3 DEF CancelledErrorRaised, CallTypes, PC, Live
  <2> QED BY <2>1, <2>2, <2>3
<1>2. phase[c] \notin {"idle", "returned", "raised"}
  BY <1>1 DEF CallInv, Live
<1>3. attempt[c][p] \in 0..MaxRetries /\ MaxRetries \in Nat
  BY GatewayAssumption DEF CallTypes
<1>4. /\ attempt' \in [Calls -> [Providers -> 0..MaxRetries]]
      /\ pc'[c][p] = "sleeping" => attempt'[c][p] < MaxRetries
  <2>1. CASE RetriesLeft(c, p) /\ Sleeps(c, p)
    BY <2>1, <1>3 DEF RetriesLeft, Sleeps, CallTypes
  <2>2. CASE WakesUp(c, p)
    <3>1. attempt[c][p] + 1 \in 0..MaxRetries
      BY <2>2, <1>3 DEF WakesUp, CallInv
    <3> QED BY <2>2, <3>1 DEF WakesUp, NextAttempt, CallTypes
  <2>3. CASE CancelledErrorRaised(c, p)
    BY <2>3, <1>3 DEF CancelledErrorRaised, CallTypes
  <2> QED BY <2>1, <2>2, <2>3
<1> QED BY <1>1, <1>2, <1>4 DEF CallTypes, CallInv

\* generate() starts its tasks, or none.
LEMMA StartOfCall ==
    ASSUME CallTypes, NEW c \in Calls, CallInv(c), GenerateUnavailable(c) \/ Generate(c)
    PROVE  CallTypes' /\ CallInv(c)'
<1>1. /\ phase[c] = "idle" /\ done[c] = <<>> /\ done' = done /\ attempt' = attempt
      /\ \A p \in Providers : pc[c][p] = "idle"
  BY DEF CallInv, GenerateUnavailable, Generate
<1>2. CASE GenerateUnavailable(c)
  <2>1. phase'[c] = "raised" /\ phase' \in [Calls -> Phase] /\ pc' = pc /\ mode' = mode
    BY <1>2 DEF GenerateUnavailable, CallTypes, Phase
  <2> QED BY <1>1, <2>1 DEF CallTypes, CallInv, Live
<1>3. CASE Generate(c)
  <2>1. PICK started \in SUBSET Providers, m \in Modes :
            /\ mode' = [mode EXCEPT ![c] = m]
            /\ pc' = [pc EXCEPT ![c] = [p \in Providers |-> IF p \in started THEN "calling" ELSE "idle"]]
    <3>1. PICK S \in SUBSET Providers \ {{}}, m \in Modes, first \in Providers :
            /\ first \in S
            /\ m # "single" => S # {first}
            /\ mode' = [mode EXCEPT ![c] = m]
            /\ pc' = [pc EXCEPT ![c] = [p \in Providers |->
                          IF p \in (IF m = "single" THEN {first} ELSE S) THEN "calling" ELSE "idle"]]
            /\ limit' = Budget(first)
      BY <1>3 DEF Generate
    <3>2. (IF m = "single" THEN {first} ELSE S) \in SUBSET Providers
      OBVIOUS
    <3> QED BY <3>1, <3>2
  <2>2. /\ phase'[c] = "running" /\ phase' \in [Calls -> Phase]
        /\ mode' \in [Calls -> {"single", "sectioned", "first_success"}]
        /\ pc' \in [Calls -> [Providers -> PC]] /\ \A p \in Providers : pc'[c][p] \in {"calling", "idle"}
    BY <1>3, <2>1, GatewayAssumption DEF Generate, CallTypes, Phase, PC
  <2> QED BY <1>1, <2>2 DEF CallTypes, CallInv
<1> QED BY <1>2, <1>3

\* generate() goes on: it fails only when no completion is left and none of those it
\* had was an answer.
LEMMA CallGoesOn ==
    ASSUME CallTypes, NEW c \in Calls, CallInv(c), Resumes(c) \/ Interrupt(c)
    PROVE  CallTypes' /\ CallInv(c)'
<1>a. done[c] \in Seq(Providers) /\ phase[c] # "idle"
  BY DEF CallTypes, Resumes, Gathered, TakesFailure, TakesAnswer, Settled, Interrupted, Interrupt
<1>b. /\ CancelAll(c) \in [Calls -> [Providers -> PC]]
      /\ \A p \in Providers : CancelAll(c)[c][p] = IF pc[c][p] \in Live THEN "cancelling" ELSE pc[c][p]
  BY DEF CancelAll, CallTypes, PC
<1>c. \A q \in Providers : pc[c][q] = "sleeping" => attempt[c][q] < MaxRetries
  BY DEF CallInv
<1>1. CASE Gathered(c)
  <2>1. /\ phase'[c] \in {"returned", "raised"} /\ phase' \in [Calls -> Phase]
        /\ phase'[c] = "raised" => \A p \in Providers : pc[c][p] # "ok"
        /\ \A p \in Providers : pc[c][p] \notin Live
        /\ mode' = mode /\ pc' = pc /\ attempt' = attempt /\ done' = done /\ done[c] = <<>>
    BY <1>1 DEF Gathered, CallTypes, CallInv, Phase, AllOver
  <2> QED BY <1>c, <2>1 DEF CallTypes, CallInv
<1>2. CASE TakesFailure(c)
  <2>1. /\ phase[c] = "running" /\ done[c] # <<>> /\ mode[c] = "first_success"
        /\ pc[c][Head(done[c])] = "failed" /\ mode' = mode /\ pc' = pc /\ attempt' = attempt
    BY <1>2 DEF TakesFailure, CallInv
  <2>2. done'[c] = Tail(done[c]) /\ done' \in [Calls -> Seq(Providers)]
    BY <1>2, <1>a, <2>1, QueuedByTail DEF TakesFailure, CallTypes
  <2>3. \A p \in Providers : pc[c][p] = "ok" => p \in Queued(done[c]) /\ p # Head(done[c])
    BY <2>1 DEF CallInv
  <2>4. CASE NothingToWaitFor(c)
    <3>1. /\ phase'[c] = "raised" /\ phase' \in [Calls -> Phase]
          /\ Len(done[c]) = 1 /\ \A p \in Providers : pc[c][p] \notin Live
      BY <1>2, <2>4 DEF TakesFailure, NothingToWaitFor, AllOver, CallTypes, Phase
    <3>2. Queued(done[c]) = {Head(done[c])} /\ done'[c] = <<>>
      BY <1>a, <2>1, <2>2, <3>1, QueuedByTail
    <3>3. \A p \in Providers : pc[c][p] # "ok"
      BY <2>3, <3>2
    <3> QED BY <1>c, <2>1, <2>2, <3>1, <3>2, <3>3 DEF CallTypes, CallInv
  <2>5. CASE ~NothingToWaitFor(c)
    <3>1. phase'[c] = "running" /\ phase' \in [Calls -> Phase]
      BY <1>2, <2>1, <2>5 DEF TakesFailure, CallTypes, Phase
    <3>2. Queued(done[c]) \subseteq Queued(Tail(done[c])) \cup {Head(done[c])}
      BY <1>a, <2>1, QueuedByTail
    <3>3. \A p \in Providers : pc[c][p] = "ok" => p \in Queued(done'[c])
      BY <2>2, <2>3, <3>2
    <3> QED BY <1>c, <2>1, <2>2, <3>1, <3>3 DEF CallTypes, CallInv
  <2> QED BY <2>4, <2>5
<1>3. CASE TakesAnswer(c)
  <2>1. /\ phase'[c] = "settling" /\ phase' \in [Calls -> Phase] /\ mode' = mode /\ attempt' = attempt
        /\ done'[c] = <<>> /\ done' \in [Calls -> Seq(Providers)] /\ pc' = CancelAll(c)
    BY <1>3 DEF TakesAnswer, CallTypes, Phase
  <2> QED BY <1>b, <1>c, <2>1 DEF CallTypes, CallInv
<1>4. CASE Settled(c)
  <2>1. /\ phase'[c] = "returned" /\ phase' \in [Calls -> Phase] /\ phase[c] = "settling"
        /\ \A p \in Providers : pc[c][p] \notin Live
        /\ mode' = mode /\ pc' = pc /\ attempt' = attempt /\ done' = done
    BY <1>4 DEF Settled, CallTypes, Phase, AllOver
  <2> QED BY <1>c, <2>1 DEF CallTypes, CallInv
<1>5. CASE Interrupted(c)
  <2>1. /\ phase'[c] = "interrupted" /\ phase' \in [Calls -> Phase] /\ phase[c] = "interrupting"
        /\ mode' = mode /\ pc' = pc /\ attempt' = attempt /\ done' = done
    BY <1>5 DEF Interrupted, CallTypes, Phase
  <2> QED BY <1>c, <2>1 DEF CallTypes, CallInv
<1>6. CASE Interrupt(c)
  <2>1. CASE phase' = [phase EXCEPT ![c] = "interrupting"]
    <3>1. /\ phase'[c] = "interrupting" /\ phase' \in [Calls -> Phase]
          /\ pc' = CancelAll(c) /\ done' = done /\ done[c] = <<>> /\ mode' = mode /\ attempt' = attempt
      BY <1>6, <2>1 DEF Interrupt, CallTypes, Phase, CallInv
    <3> QED BY <1>b, <1>c, <3>1 DEF CallTypes, CallInv
  <2>2. CASE phase' = [phase EXCEPT ![c] = "interrupted"]
    <3>1. /\ phase'[c] = "interrupted" /\ phase' \in [Calls -> Phase]
          /\ pc' = pc /\ done'[c] = <<>> /\ done' \in [Calls -> Seq(Providers)]
          /\ mode' = mode /\ attempt' = attempt
      <4>1. phase'[c] = "interrupted" /\ phase' \in [Calls -> Phase] /\ <<>> \in Seq(Providers)
        BY <2>2 DEF CallTypes, Phase
      <4>2. phase' # [phase EXCEPT ![c] = "interrupting"]
        BY <4>1 DEF CallTypes
      <4>3. done' = [done EXCEPT ![c] = <<>>] /\ pc' = pc /\ mode' = mode /\ attempt' = attempt
        BY <1>6, <4>2 DEF Interrupt
      <4> QED BY <4>1, <4>3 DEF CallTypes
    <3> QED BY <1>c, <3>1 DEF CallTypes, CallInv
  <2> QED BY <1>6, <2>1, <2>2 DEF Interrupt
<1> QED BY <1>1, <1>2, <1>3, <1>4, <1>5, <1>6 DEF Resumes

\* Every step preserves the invariant of every call.
LEMMA GatewayInvNext == GatewayInv /\ [Next]_vars => GatewayInv'
<1> SUFFICES ASSUME GatewayInv, [Next]_vars PROVE GatewayInv'
  OBVIOUS
<1>0. CallTypes /\ \A c \in Calls : CallInv(c)
  BY DEF GatewayInv
<1>1. CASE Tick \/ UNCHANGED vars
  <2>1. /\ phase' = phase /\ mode' = mode /\ pc' = pc /\ attempt' = attempt /\ done' = done
    BY <1>1 DEF Tick, vars
  <2> QED BY <1>0, <2>1 DEF GatewayInv, CallTypes, CallInv
<1>2. ASSUME NEW c \in Calls, GenerateUnavailable(c) \/ Generate(c) PROVE GatewayInv'
  <2>1. CallTypes' /\ CallInv(c)'
    BY <1>0, <1>2, StartOfCall
  <2> QED BY <1>0, <1>2, <2>1, OtherCalls DEF GatewayInv
<1>3. ASSUME NEW c \in Calls, Resumes(c) \/ Interrupt(c) PROVE GatewayInv'
  <2>1. CallTypes' /\ CallInv(c)'
    BY <1>0, <1>3, CallGoesOn
  <2> QED BY <1>0, <1>3, <2>1, OtherCalls DEF GatewayInv
<1>4. ASSUME NEW c \in Calls, NEW p \in Providers, ProviderCall(c, p) PROVE GatewayInv'
  <2>1. Ends(c, p, "ok") \/ Ends(c, p, "failed") => CallTypes' /\ CallInv(c)'
    BY <1>0, EndOfTask
  <2>2. (RetriesLeft(c, p) /\ Sleeps(c, p)) \/ WakesUp(c, p) \/ CancelledErrorRaised(c, p)
            => CallTypes' /\ CallInv(c)'
    BY <1>0, TaskUnderWay
  <2>3. CallTypes' /\ CallInv(c)'
    BY <1>4, <2>1, <2>2 DEF ProviderCall, Answers, GivesUp, WaitsAsTold, BacksOff, FailsFast
  <2> QED BY <1>0, <1>4, <2>3, OtherCalls DEF GatewayInv
<1> QED BY <1>1, <1>2, <1>3, <1>4 DEF Next

\* The inductive invariant of generate().
THEOREM GatewayInvariant == Spec => []GatewayInv
<1>1. Init => GatewayInv
  BY GatewayAssumption DEF Init, GatewayInv, CallTypes, CallInv, Phase, PC
<1> QED BY <1>1, GatewayInvNext, PTL DEF Spec

\* with_retry() never makes more than max_retries + 1 attempts, and the budget never
\* goes outside its range.
THEOREM TypeCorrect == Spec => []TypeOK
<1>1. GatewayInv /\ BudgetInv => TypeOK
  BY DEF GatewayInv, BudgetInv, CallTypes, TypeOK, Ages
<1> QED BY <1>1, GatewayInvariant, BudgetInvariant, PTL

\* generate() raises only when none of its providers has answered, in every mode.
THEOREM NoAnswerIsLost == Spec => []AnswerNotLost
<1>1. GatewayInv => AnswerNotLost
  BY DEF GatewayInv, CallInv, AnswerNotLost
<1> QED BY <1>1, GatewayInvariant, PTL

\* generate() leaves no task behind when it returns or raises.
THEOREM NoCallIsLeftBehind == Spec => []NoCallLeftBehind
<1>1. GatewayInv => NoCallLeftBehind
  BY DEF GatewayInv, CallInv, NoCallLeftBehind
<1> QED BY <1>1, GatewayInvariant, PTL
=============================================================================
