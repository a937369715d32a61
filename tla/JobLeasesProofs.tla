-------------------------- MODULE JobLeasesProofs --------------------------
(***************************************************************************)
(* Proofs about JobLeases, for every set of workers and jobs and every     *)
(* lease, heartbeat interval and delay.                                    *)
(***************************************************************************)
EXTENDS JobLeases, TLAPS

USE LeaseAssumption

\* The types hold before the first delivery.
LEMMA TypeInit == Init => TypeOK
<1> SUFFICES ASSUME Init PROVE TypeOK
  OBVIOUS
<1>1. row \in [Jobs -> JobRow] /\ lease \in [Jobs -> -1..Lease] /\ run \in [Jobs -> RunStatus]
  BY DEF Init, JobRow, RunStatus
<1>2. pc \in [Workers -> [Jobs -> PC]] /\ beating \in [Workers -> [Jobs -> BOOLEAN]]
  BY DEF Init, PC
<1>3. timer \in [Workers -> [Jobs -> (-MaxDelay)..HeartbeatInterval]]
  BY DEF Init
<1>4. QED
  BY <1>1, <1>2, <1>3 DEF Init, TypeOK

\* Every step keeps the types; one case per action.
LEMMA TypeStep == TypeOK /\ [Next]_vars => TypeOK'
<1> SUFFICES ASSUME TypeOK, [Next]_vars PROVE TypeOK'
  OBVIOUS
<1> USE DEF TypeOK
<1>1. ASSUME NEW w \in Workers, NEW j \in Jobs, Deliver(w, j) PROVE TypeOK'
  BY <1>1 DEF Deliver, PC
<1>2. ASSUME NEW w \in Workers, NEW j \in Jobs, Claim(w, j) PROVE TypeOK'
  <2>1. row' \in [Jobs -> JobRow] /\ lease' \in [Jobs -> -1..Lease]
    BY <1>2 DEF Claim, JobRow
  <2>2. pc' \in [Workers -> [Jobs -> PC]] /\ beating' \in [Workers -> [Jobs -> BOOLEAN]]
    BY <1>2 DEF Claim, PC
  <2>3. timer' \in [Workers -> [Jobs -> (-MaxDelay)..HeartbeatInterval]]
    BY <1>2 DEF Claim
  <2>4. QED
    BY <1>2, <2>1, <2>2, <2>3 DEF Claim
<1>3. ASSUME NEW w \in Workers, NEW j \in Jobs, ClaimRefused(w, j) PROVE TypeOK'
  BY <1>3 DEF ClaimRefused, PC
<1>4. ASSUME NEW w \in Workers, NEW j \in Jobs, Begin(w, j) PROVE TypeOK'
  <2>1. pc' \in [Workers -> [Jobs -> PC]] /\ run' \in [Jobs -> RunStatus]
    BY <1>4 DEF Begin, PC, RunStatus
  <2>2. starts' \in [Jobs -> Nat]
    BY <1>4 DEF Begin
  <2>3. QED
    BY <1>4, <2>1, <2>2 DEF Begin
<1>5. ASSUME NEW w \in Workers, NEW j \in Jobs, Skip(w, j) PROVE TypeOK'
  BY <1>5 DEF Skip, PC
<1>6. ASSUME NEW w \in Workers, NEW j \in Jobs, Succeed(w, j) PROVE TypeOK'
  BY <1>6 DEF Succeed, RunStatus, PC
<1>7. ASSUME NEW w \in Workers, NEW j \in Jobs, Raise(w, j) PROVE TypeOK'
  BY <1>7 DEF Raise, RunStatus, PC
<1>8. ASSUME NEW w \in Workers, NEW j \in Jobs, CompleteJobRaises(w, j) PROVE TypeOK'
  BY <1>8 DEF CompleteJobRaises, RunStatus, PC
<1>a. ASSUME NEW w \in Workers, NEW j \in Jobs, BeginRaises(w, j) PROVE TypeOK'
  BY <1>a DEF BeginRaises, RunStatus, PC
<1>9. ASSUME NEW w \in Workers, NEW j \in Jobs, Die(w, j) PROVE TypeOK'
  BY <1>9 DEF Die, PC
<1>10. ASSUME NEW w \in Workers, NEW j \in Jobs, CompleteJob(w, j) PROVE TypeOK'
  BY <1>10 DEF CompleteJob, Finish, JobRow, PC
<1>11. ASSUME NEW w \in Workers, NEW j \in Jobs, FailJob(w, j) PROVE TypeOK'
  BY <1>11 DEF FailJob, Finish, JobRow, PC
<1>12. ASSUME NEW w \in Workers, NEW j \in Jobs, Heartbeat(w, j) PROVE TypeOK'
  <2>1. lease' \in [Jobs -> -1..Lease]
    BY <1>12 DEF Heartbeat, NextExpiry
  <2>2. timer' \in [Workers -> [Jobs -> (-MaxDelay)..HeartbeatInterval]]
    BY <1>12 DEF Heartbeat, NextExpiry
  <2>3. QED
    BY <1>12, <2>1, <2>2 DEF Heartbeat, NextExpiry
<1>13. ASSUME NEW w \in Workers, NEW j \in Jobs, HeartbeatDies(w, j) PROVE TypeOK'
  BY <1>13 DEF HeartbeatDies
<1>14. ASSUME NEW w \in Workers, NEW j \in Jobs, Interrupt(w, j) PROVE TypeOK'
  BY <1>14 DEF Interrupt, Finish, JobRow, PC
<1>15. ASSUME NEW w \in Workers, NEW j \in Jobs, InterruptRun(w, j) PROVE TypeOK'
  BY <1>15 DEF InterruptRun, RunStatus, PC
<1>16. ASSUME NEW w \in Workers, Stop(w) PROVE TypeOK'
  BY <1>16 DEF Stop
<1>17. ASSUME NEW w \in Workers, Exit(w) PROVE TypeOK'
  <2>1. pc' \in [Workers -> [Jobs -> PC]]
    BY <1>17 DEF Exit, PC
  <2>2. beating' \in [Workers -> [Jobs -> BOOLEAN]]
    BY <1>17 DEF Exit
  <2>3. ended' \in BOOLEAN
    BY <1>17 DEF Exit
  <2>4. QED
    BY <1>17, <2>1, <2>2, <2>3 DEF Exit
<1>18. ASSUME Tick PROVE TypeOK'
  BY <1>18 DEF Tick, Punctual
<1>19. CASE UNCHANGED vars
  BY <1>19 DEF vars
<1>20. QED
  BY <1>1, <1>2, <1>3, <1>4, <1>5, <1>6, <1>7, <1>8, <1>a, <1>9, <1>10,
     <1>11, <1>12, <1>13, <1>14, <1>15, <1>16, <1>17, <1>18, <1>19 DEF Next, Task

\* Type correctness, for every set of workers and jobs.
THEOREM TypeCorrect == Spec => []TypeOK
<1>1. QED
  BY TypeInit, TypeStep, PTL DEF Spec

\* claim_job() refuses a job that a worker holds: its lease has not run out.
LEMMA HeldNotClaimable ==
    ASSUME TypeOK, HolderOwnsLease, LeaseCoversHeartbeat,
           NEW w \in Workers, NEW j \in Jobs, pc[w][j] \in Holding
    PROVE  ~Claimable(j)
<1>1. /\ timer[w][j] \in (-MaxDelay)..HeartbeatInterval
      /\ lease[j] \in -1..Lease
  BY DEF TypeOK
<1>2. row[j].status = "running" /\ lease[j] >= timer[w][j] + Lease - HeartbeatInterval
  BY DEF HolderOwnsLease
<1>3. lease[j] >= 0
  BY <1>1, <1>2 DEF LeaseCoversHeartbeat
<1>4. QED
  BY <1>1, <1>2, <1>3 DEF Claimable

\* A job has one lease_owner, hence at most one holder.
LEMMA OneHolder ==
    ASSUME HolderOwnsLease, LeaseCoversHeartbeat,
           NEW v \in Workers, NEW w \in Workers, NEW j \in Jobs,
           pc[v][j] \in Holding, pc[w][j] \in Holding
    PROVE  v = w
BY DEF HolderOwnsLease

\* A step of one task preserves HolderOwnsLease when the task itself owns what
\* it holds and no other holder of the job is affected.
LEMMA HolderFrame ==
    ASSUME TypeOK, HolderOwnsLease, LeaseCoversHeartbeat,
           NEW w \in Workers, NEW j \in Jobs,
           \A v \in Workers, k \in Jobs : v # w \/ k # j =>
               pc'[v][k] = pc[v][k] /\ timer'[v][k] = timer[v][k] /\ beating'[v][k] = beating[v][k],
           \A k \in Jobs \ {j} : row'[k] = row[k] /\ lease'[k] = lease[k],
           \A v \in Workers \ {w} : pc[v][j] \in Holding => row'[j] = row[j] /\ lease'[j] = lease[j],
           pc'[w][j] \in Holding => /\ row'[j].status = "running" /\ row'[j].owner = w
                                    /\ beating'[w][j]
                                    /\ lease'[j] >= timer'[w][j] + Lease - HeartbeatInterval
    PROVE  HolderOwnsLease'
<1> SUFFICES ASSUME NEW v \in Workers, NEW k \in Jobs, pc'[v][k] \in Holding
             PROVE  /\ row'[k].status = "running" /\ row'[k].owner = v
                    /\ beating'[v][k]
                    /\ lease'[k] >= timer'[v][k] + Lease - HeartbeatInterval
  BY DEF HolderOwnsLease, Holding, LeaseCoversHeartbeat
<1>1. CASE v = w /\ k = j
  BY <1>1
<1>2. CASE ~(v = w /\ k = j)
  <2>1. pc'[v][k] = pc[v][k] /\ timer'[v][k] = timer[v][k] /\ beating'[v][k] = beating[v][k]
    BY <1>2
  <2>2. /\ row[k].status = "running" /\ row[k].owner = v
        /\ beating[v][k]
        /\ lease[k] >= timer[v][k] + Lease - HeartbeatInterval
    BY <2>1 DEF HolderOwnsLease
  <2>3. row'[k] = row[k] /\ lease'[k] = lease[k]
    BY <1>2, <2>1
  <2>4. QED
    BY <2>1, <2>2, <2>3
<1>3. QED
  BY <1>1, <1>2

\* Every step preserves HolderOwnsLease; one case per action.
LEMMA HolderStep == TypeOK /\ HolderOwnsLease /\ [Next]_vars => HolderOwnsLease'
<1> SUFFICES ASSUME TypeOK, HolderOwnsLease, [Next]_vars, LeaseCoversHeartbeat
             PROVE  HolderOwnsLease'
  BY DEF HolderOwnsLease, LeaseCoversHeartbeat
<1>1. ASSUME NEW w \in Workers, NEW j \in Jobs, Deliver(w, j) PROVE HolderOwnsLease'
  <2>1. \A v \in Workers, k \in Jobs : v # w \/ k # j =>
            pc'[v][k] = pc[v][k] /\ timer'[v][k] = timer[v][k] /\ beating'[v][k] = beating[v][k]
    BY <1>1 DEF Deliver, TypeOK
  <2>2. pc'[w][j] \notin Holding
    BY <1>1 DEF Deliver, Holding, TypeOK
  <2>3. QED
    BY <1>1, <2>1, <2>2, HolderFrame DEF Deliver
<1>2. ASSUME NEW w \in Workers, NEW j \in Jobs, Claim(w, j) PROVE HolderOwnsLease'
  <2>1. \A v \in Workers, k \in Jobs : v # w \/ k # j =>
            pc'[v][k] = pc[v][k] /\ timer'[v][k] = timer[v][k] /\ beating'[v][k] = beating[v][k]
    BY <1>2 DEF Claim, TypeOK
  <2>2. \A v \in Workers : pc[v][j] \notin Holding
    BY <1>2, HeldNotClaimable DEF Claim
  <2>3. \A k \in Jobs \ {j} : row'[k] = row[k] /\ lease'[k] = lease[k]
    BY <1>2 DEF Claim, TypeOK
  <2>4. /\ row'[j].status = "running" /\ row'[j].owner = w
        /\ beating'[w][j]
        /\ lease'[j] = Lease /\ timer'[w][j] = HeartbeatInterval
    BY <1>2 DEF Claim, TypeOK
  <2>5. QED
    BY <2>1, <2>2, <2>3, <2>4, HolderFrame
<1>3. ASSUME NEW w \in Workers, NEW j \in Jobs, ClaimRefused(w, j) PROVE HolderOwnsLease'
  <2>1. \A v \in Workers, k \in Jobs : v # w \/ k # j =>
            pc'[v][k] = pc[v][k] /\ timer'[v][k] = timer[v][k] /\ beating'[v][k] = beating[v][k]
    BY <1>3 DEF ClaimRefused, TypeOK
  <2>2. pc'[w][j] \notin Holding
    BY <1>3 DEF ClaimRefused, Holding, TypeOK
  <2>3. QED
    BY <1>3, <2>1, <2>2, HolderFrame DEF ClaimRefused
<1>4. ASSUME NEW w \in Workers, NEW j \in Jobs, Begin(w, j) PROVE HolderOwnsLease'
  <2>1. \A v \in Workers, k \in Jobs : v # w \/ k # j =>
            pc'[v][k] = pc[v][k] /\ timer'[v][k] = timer[v][k] /\ beating'[v][k] = beating[v][k]
    BY <1>4 DEF Begin, TypeOK
  <2>2. pc[w][j] \in Holding
    BY <1>4 DEF Begin, Holding
  <2>3. QED
    BY <1>4, <2>1, <2>2, HolderFrame DEF Begin, HolderOwnsLease
<1>5. ASSUME NEW w \in Workers, NEW j \in Jobs, Skip(w, j) PROVE HolderOwnsLease'
  <2>1. \A v \in Workers, k \in Jobs : v # w \/ k # j =>
            pc'[v][k] = pc[v][k] /\ timer'[v][k] = timer[v][k] /\ beating'[v][k] = beating[v][k]
    BY <1>5 DEF Skip, TypeOK
  <2>2. pc[w][j] \in Holding
    BY <1>5 DEF Skip, Holding
  <2>3. QED
    BY <1>5, <2>1, <2>2, HolderFrame DEF Skip, HolderOwnsLease
<1>6. ASSUME NEW w \in Workers, NEW j \in Jobs, Succeed(w, j) PROVE HolderOwnsLease'
  <2>1. \A v \in Workers, k \in Jobs : v # w \/ k # j =>
            pc'[v][k] = pc[v][k] /\ timer'[v][k] = timer[v][k] /\ beating'[v][k] = beating[v][k]
    BY <1>6 DEF Succeed, TypeOK
  <2>2. pc[w][j] \in Holding
    BY <1>6 DEF Succeed, Holding
  <2>3. QED
    BY <1>6, <2>1, <2>2, HolderFrame DEF Succeed, HolderOwnsLease
<1>7. ASSUME NEW w \in Workers, NEW j \in Jobs, Raise(w, j) PROVE HolderOwnsLease'
  <2>1. \A v \in Workers, k \in Jobs : v # w \/ k # j =>
            pc'[v][k] = pc[v][k] /\ timer'[v][k] = timer[v][k] /\ beating'[v][k] = beating[v][k]
    BY <1>7 DEF Raise, TypeOK
  <2>2. pc[w][j] \in Holding
    BY <1>7 DEF Raise, Holding
  <2>3. QED
    BY <1>7, <2>1, <2>2, HolderFrame DEF Raise, HolderOwnsLease
<1>8. ASSUME NEW w \in Workers, NEW j \in Jobs, CompleteJobRaises(w, j) PROVE HolderOwnsLease'
  <2>1. \A v \in Workers, k \in Jobs : v # w \/ k # j =>
            pc'[v][k] = pc[v][k] /\ timer'[v][k] = timer[v][k] /\ beating'[v][k] = beating[v][k]
    BY <1>8 DEF CompleteJobRaises, TypeOK
  <2>2. pc[w][j] \in Holding
    BY <1>8 DEF CompleteJobRaises, Holding
  <2>3. QED
    BY <1>8, <2>1, <2>2, HolderFrame DEF CompleteJobRaises, HolderOwnsLease
<1>a. ASSUME NEW w \in Workers, NEW j \in Jobs, BeginRaises(w, j) PROVE HolderOwnsLease'
  BY <1>a DEF BeginRaises, LeaseCoversHeartbeat
<1>9. ASSUME NEW w \in Workers, NEW j \in Jobs, Die(w, j) PROVE HolderOwnsLease'
  <2>1. \A v \in Workers, k \in Jobs : v # w \/ k # j =>
            pc'[v][k] = pc[v][k] /\ timer'[v][k] = timer[v][k] /\ beating'[v][k] = beating[v][k]
    BY <1>9 DEF Die, TypeOK
  <2>2. pc'[w][j] \notin Holding
    BY <1>9 DEF Die, Holding, TypeOK
  <2>3. QED
    BY <1>9, <2>1, <2>2, HolderFrame DEF Die
<1>10. ASSUME NEW w \in Workers, NEW j \in Jobs, CompleteJob(w, j) PROVE HolderOwnsLease'
  <2>1. \A v \in Workers, k \in Jobs : v # w \/ k # j =>
            pc'[v][k] = pc[v][k] /\ timer'[v][k] = timer[v][k] /\ beating'[v][k] = beating[v][k]
    BY <1>10 DEF CompleteJob, TypeOK
  <2>2. pc[w][j] \in Holding /\ pc'[w][j] \notin Holding
    BY <1>10 DEF CompleteJob, Holding, TypeOK
  <2>3. \A v \in Workers \ {w} : pc[v][j] \notin Holding
    BY <2>2, OneHolder
  <2>4. \A k \in Jobs \ {j} : row'[k] = row[k] /\ lease'[k] = lease[k]
    BY <1>10 DEF CompleteJob, Finish, TypeOK
  <2>5. QED
    BY <2>1, <2>2, <2>3, <2>4, HolderFrame
<1>11. ASSUME NEW w \in Workers, NEW j \in Jobs, FailJob(w, j) PROVE HolderOwnsLease'
  <2>1. \A v \in Workers, k \in Jobs : v # w \/ k # j =>
            pc'[v][k] = pc[v][k] /\ timer'[v][k] = timer[v][k] /\ beating'[v][k] = beating[v][k]
    BY <1>11 DEF FailJob, TypeOK
  <2>2. pc[w][j] \in Holding /\ pc'[w][j] \notin Holding
    BY <1>11 DEF FailJob, Holding, TypeOK
  <2>3. \A v \in Workers \ {w} : pc[v][j] \notin Holding
    BY <2>2, OneHolder
  <2>4. \A k \in Jobs \ {j} : row'[k] = row[k] /\ lease'[k] = lease[k]
    BY <1>11 DEF FailJob, Finish, TypeOK
  <2>5. QED
    BY <2>1, <2>2, <2>3, <2>4, HolderFrame
<1>12. ASSUME NEW w \in Workers, NEW j \in Jobs, Heartbeat(w, j) PROVE HolderOwnsLease'
  <2>1. \A v \in Workers, k \in Jobs : v # w \/ k # j =>
            pc'[v][k] = pc[v][k] /\ timer'[v][k] = timer[v][k] /\ beating'[v][k] = beating[v][k]
    BY <1>12 DEF Heartbeat, NextExpiry, TypeOK
  <2>2. /\ \A k \in Jobs \ {j} : row'[k] = row[k] /\ lease'[k] = lease[k]
        /\ row' = row /\ pc' = pc /\ beating' = beating
        /\ timer'[w][j] = HeartbeatInterval
        /\ lease'[j] = IF Renews(w, j) THEN Lease ELSE lease[j]
    BY <1>12 DEF Heartbeat, NextExpiry, TypeOK
  <2>3. \A v \in Workers \ {w} : pc[v][j] \in Holding => ~Renews(w, j)
    BY DEF HolderOwnsLease, Renews
  <2>4. pc[w][j] \in Holding => /\ Renews(w, j) /\ beating[w][j]
                                /\ row[j].status = "running" /\ row[j].owner = w
    BY DEF HolderOwnsLease, Renews
  <2>5. QED
    BY <2>1, <2>2, <2>3, <2>4, HolderFrame
<1>13. ASSUME NEW w \in Workers, NEW j \in Jobs, HeartbeatDies(w, j) PROVE HolderOwnsLease'
  BY <1>13 DEF HeartbeatDies, LeaseCoversHeartbeat
<1>14. ASSUME NEW w \in Workers, NEW j \in Jobs, Interrupt(w, j) PROVE HolderOwnsLease'
  <2>1. \A v \in Workers, k \in Jobs : v # w \/ k # j =>
            pc'[v][k] = pc[v][k] /\ timer'[v][k] = timer[v][k] /\ beating'[v][k] = beating[v][k]
    BY <1>14 DEF Interrupt, TypeOK
  <2>2. pc[w][j] \in Holding /\ pc'[w][j] \notin Holding
    BY <1>14 DEF Interrupt, Holding, TypeOK
  <2>3. \A v \in Workers \ {w} : pc[v][j] \notin Holding
    BY <2>2, OneHolder
  <2>4. \A k \in Jobs \ {j} : row'[k] = row[k] /\ lease'[k] = lease[k]
    BY <1>14 DEF Interrupt, Finish, TypeOK
  <2>5. QED
    BY <2>1, <2>2, <2>3, <2>4, HolderFrame
<1>15. ASSUME NEW w \in Workers, NEW j \in Jobs, InterruptRun(w, j) PROVE HolderOwnsLease'
  <2>1. \A v \in Workers, k \in Jobs : v # w \/ k # j =>
            pc'[v][k] = pc[v][k] /\ timer'[v][k] = timer[v][k] /\ beating'[v][k] = beating[v][k]
    BY <1>15 DEF InterruptRun, TypeOK
  <2>2. pc'[w][j] \notin Holding
    BY <1>15 DEF InterruptRun, Holding, TypeOK
  <2>3. QED
    BY <1>15, <2>1, <2>2, HolderFrame DEF InterruptRun
<1>16. ASSUME NEW w \in Workers, Stop(w) PROVE HolderOwnsLease'
  BY <1>16 DEF Stop, HolderOwnsLease
<1>17. ASSUME NEW w \in Workers, Exit(w) PROVE HolderOwnsLease'
  <2>1. \A v \in Workers, k \in Jobs :
            pc'[v][k] \in Holding => pc'[v][k] = pc[v][k] /\ beating'[v][k] = beating[v][k]
    BY <1>17 DEF Exit, Holding, TypeOK
  <2>2. row' = row /\ lease' = lease /\ timer' = timer
    BY <1>17 DEF Exit
  <2>3. QED
    BY <2>1, <2>2 DEF HolderOwnsLease
<1>18. ASSUME Tick PROVE HolderOwnsLease'
  <2> SUFFICES ASSUME NEW w \in Workers, NEW j \in Jobs, pc[w][j] \in Holding
               PROVE  /\ row[j].status = "running" /\ row[j].owner = w /\ beating[w][j]
                      /\ lease'[j] >= timer'[w][j] + Lease - HeartbeatInterval
    BY <1>18 DEF Tick, HolderOwnsLease
  <2>1. /\ row[j].status = "running" /\ row[j].owner = w /\ beating[w][j]
        /\ lease[j] >= timer[w][j] + Lease - HeartbeatInterval
    BY DEF HolderOwnsLease
  <2>2. timer[w][j] \in (-MaxDelay)..HeartbeatInterval /\ lease[j] \in -1..Lease
    BY DEF TypeOK
  <2>3. lease[j] >= 0
    BY <2>1, <2>2 DEF LeaseCoversHeartbeat
  <2>4. lease'[j] = lease[j] - 1 /\ timer'[w][j] = timer[w][j] - 1
    BY <1>18, <2>1, <2>2, <2>3 DEF Tick
  <2>5. QED
    BY <2>1, <2>2, <2>4
<1>19. CASE UNCHANGED vars
  BY <1>19 DEF vars, HolderOwnsLease
<1>20. QED
  BY <1>1, <1>2, <1>3, <1>4, <1>5, <1>6, <1>7, <1>8, <1>a, <1>9, <1>10,
     <1>11, <1>12, <1>13, <1>14, <1>15, <1>16, <1>17, <1>18, <1>19 DEF Next, Task

\* A worker that holds a job owns its row, with time left on the lease.
LEMMA HolderInvariant == Spec => [](TypeOK /\ HolderOwnsLease)
<1>1. Init => HolderOwnsLease
  BY DEF Init, HolderOwnsLease, Holding
<1>2. QED
  BY <1>1, TypeInit, TypeStep, HolderStep, PTL DEF Spec

\* When HeartbeatInterval + MaxDelay <= Lease, claim_job() and heartbeat_job() let
\* no two workers work on the same job, whoever stops, dies or takes over.
THEOREM LeaseIsExclusive == Spec => []ExclusiveProcessing
<1>1. HolderOwnsLease => ExclusiveProcessing
  BY OneHolder DEF ExclusiveProcessing
<1>2. QED
  BY <1>1, HolderInvariant, PTL

\* Only a holder finishes a job, and a finished job is not claimed.
LEMMA OutcomeStep ==
    ASSUME TypeOK, HolderOwnsLease, [Next]_vars, LeaseCoversHeartbeat
    PROVE  \A k \in Jobs : row[k].status \in Terminal => row'[k] = row[k]
<1> DEFINE Kept == \A k \in Jobs : row[k].status \in Terminal => row'[k] = row[k]
<1>1. ASSUME NEW w \in Workers, NEW j \in Jobs, Claim(w, j) PROVE Kept
  BY <1>1 DEF Claim, Claimable, Terminal, TypeOK
<1>2. ASSUME NEW w \in Workers, NEW j \in Jobs,
             CompleteJob(w, j) \/ FailJob(w, j) \/ Interrupt(w, j)
      PROVE  Kept
  <2>1. pc[w][j] \in Holding
    BY <1>2 DEF CompleteJob, FailJob, Interrupt, Holding
  <2>2. row[j].status = "running"
    BY <2>1 DEF HolderOwnsLease
  <2>3. \A k \in Jobs \ {j} : row'[k] = row[k]
    BY <1>2 DEF CompleteJob, FailJob, Interrupt, Finish, TypeOK
  <2>4. QED
    BY <2>2, <2>3 DEF Terminal
<1>3. CASE UNCHANGED row
  BY <1>3
<1>4. QED
  BY <1>1, <1>2, <1>3
     DEF Next, Task, vars, Deliver, ClaimRefused, Begin, Skip, Succeed, Raise, BeginRaises, CompleteJobRaises,
         Die, Heartbeat, HeartbeatDies, InterruptRun, Stop, Exit, Tick

\* Under the same condition complete_job() and fail_job() write the outcome of a
\* job once, although they do not look at lease_owner.
THEOREM OutcomesAreFinal == Spec => OutcomeFinal
<1>1. TypeOK /\ HolderOwnsLease /\ [Next]_vars =>
          [LeaseCoversHeartbeat =>
               \A j \in Jobs : row[j].status \in Terminal => row'[j] = row[j]]_vars
  BY OutcomeStep
<1>2. QED
  BY <1>1, HolderInvariant, PTL DEF Spec, OutcomeFinal

\* No step returns a started run to "queued".
LEMMA StartedStep == TypeOK /\ StartedOnce /\ [Next]_vars => StartedOnce'
<1> SUFFICES ASSUME TypeOK, StartedOnce, [Next]_vars PROVE StartedOnce'
  OBVIOUS
<1>1. ASSUME NEW w \in Workers, NEW j \in Jobs, Begin(w, j) PROVE StartedOnce'
  <2>1. CASE j \in PlanningJobs
    <3>1. run' = run /\ starts' = starts
      BY <1>1, <2>1 DEF Begin, TypeOK
    <3>2. QED
      BY <3>1 DEF StartedOnce
  <2>2. CASE j \notin PlanningJobs
    <3>1. run[j] = "queued" /\ starts[j] = 0
      BY <1>1, <2>2 DEF Begin, MayBegin, StartedOnce, TypeOK
    <3>2. /\ run'[j] = "running" /\ starts'[j] = 1
          /\ \A k \in Jobs \ {j} : run'[k] = run[k] /\ starts'[k] = starts[k]
      BY <1>1, <2>2, <3>1 DEF Begin, TypeOK
    <3>3. QED
      BY <3>2 DEF StartedOnce
  <2>3. QED
    BY <2>1, <2>2
<1>2. ASSUME NEW w \in Workers, NEW j \in Jobs,
             Succeed(w, j) \/ Raise(w, j) \/ BeginRaises(w, j) \/ CompleteJobRaises(w, j)
             \/ InterruptRun(w, j)
      PROVE  StartedOnce'
  <2>1. starts' = starts /\ \A k \in Jobs : run'[k] = "queued" => run[k] = "queued"
    BY <1>2 DEF Succeed, Raise, BeginRaises, CompleteJobRaises, InterruptRun, TypeOK
  <2>2. QED
    BY <2>1 DEF StartedOnce
<1>3. CASE UNCHANGED <<run, starts>>
  BY <1>3 DEF StartedOnce
<1>4. QED
  BY <1>1, <1>2, <1>3
     DEF Next, Task, vars, Deliver, Claim, ClaimRefused, Skip, Die, CompleteJob, FailJob,
         Heartbeat, HeartbeatDies, Interrupt, Stop, Exit, Tick

\* With any lease, heartbeat interval and delay, and with failing writes, workers
\* that share the tables start the run of a job at most once.
THEOREM RunsExecuteOnceAcrossWorkers == Spec => []ExecutesOnceAcrossWorkers
<1>1. Init => StartedOnce
  BY DEF Init, StartedOnce
<1>2. TypeOK /\ StartedOnce => ExecutesOnceAcrossWorkers
  BY DEF TypeOK, StartedOnce, ExecutesOnceAcrossWorkers
<1>3. QED
  BY <1>1, <1>2, TypeInit, TypeStep, StartedStep, PTL DEF Spec

\* A step that touches neither rows nor tasks of a job keeps FinishedProperly.
LEMMA FinishedFrame ==
    ASSUME NEW k \in Jobs, FinishedProperly(k),
           run'[k] = run[k], row'[k] = row[k], \A v \in Workers : pc'[v][k] = pc[v][k]
    PROVE  FinishedProperly(k)'
BY DEF FinishedProperly

\* Every step keeps FinishedProperly of an EXECUTE_RUN job while nobody has died.
LEMMA FinishedStep ==
    ASSUME TypeOK, HolderOwnsLease, [Next]_vars, LeaseCoversHeartbeat, ~ended', ~ended,
           NEW k \in Jobs \ PlanningJobs, FinishedProperly(k)
    PROVE  FinishedProperly(k)'
<1> USE DEF Terminal
<1>a. \A w \in Workers, j \in Jobs : j # k /\ Task(w, j) => FinishedProperly(k)'
  <2> SUFFICES ASSUME NEW w \in Workers, NEW j \in Jobs \ {k}, Task(w, j)
               PROVE  run'[k] = run[k] /\ row'[k] = row[k] /\ \A v \in Workers : pc'[v][k] = pc[v][k]
    BY FinishedFrame
  <2>1. row'[k] = row[k]
    BY DEF Task, TypeOK, Deliver, Claim, ClaimRefused, Begin, Skip, Succeed, Raise,
           BeginRaises, CompleteJobRaises, Die, CompleteJob, FailJob, Finish, Heartbeat, HeartbeatDies,
           Interrupt, InterruptRun
  <2>2. run'[k] = run[k]
    BY DEF Task, TypeOK, Deliver, Claim, ClaimRefused, Begin, Skip, Succeed, Raise,
           BeginRaises, CompleteJobRaises, Die, CompleteJob, FailJob, Heartbeat, HeartbeatDies,
           Interrupt, InterruptRun
  <2>a. PICK x : pc' = pc \/ pc' = [pc EXCEPT ![w][j] = x]
    BY DEF Task, Deliver, Claim, ClaimRefused, Begin, Skip, Succeed, Raise,
           BeginRaises, CompleteJobRaises, Die, CompleteJob, FailJob, Heartbeat, HeartbeatDies,
           Interrupt, InterruptRun
  <2>b. pc \in [Workers -> [Jobs -> PC]] /\ j # k
    BY DEF TypeOK
  <2>3. \A v \in Workers : pc'[v][k] = pc[v][k]
    <3>1. CASE pc' = pc
      BY <3>1
    <3>2. CASE pc' = [pc EXCEPT ![w][j] = x]
      <4>1. pc'[w][k] = pc[w][k]
        BY <2>b, <3>2
      <4>2. \A v \in Workers \ {w} : pc'[v] = pc[v]
        BY <2>b, <3>2
      <4>3. QED
        BY <4>1, <4>2
    <3>3. QED
      BY <2>a, <3>1, <3>2
  <2>4. QED
    BY <2>1, <2>2, <2>3
<1>1. ASSUME NEW w \in Workers, Deliver(w, k) \/ ClaimRefused(w, k) PROVE FinishedProperly(k)'
  <2>1. /\ run' = run /\ row' = row
        /\ pc[w][k] \in {"idle", "spawned"} /\ pc'[w][k] \in {"idle", "spawned"}
        /\ \A v \in Workers \ {w} : pc'[v][k] = pc[v][k]
    BY <1>1 DEF Deliver, ClaimRefused, TypeOK
  <2>2. QED
    BY <2>1 DEF FinishedProperly
<1>2. ASSUME NEW w \in Workers, Claim(w, k) PROVE FinishedProperly(k)'
  <2>1. row[k].status \in {"queued", "running"} /\ row'[k].status = "running"
    BY <1>2 DEF Claim, Claimable, TypeOK
  <2>2. QED
    BY <1>2, <2>1 DEF Claim, TypeOK, FinishedProperly
<1>3. ASSUME NEW w \in Workers, Begin(w, k) PROVE FinishedProperly(k)'
  <2>1. run[k] = "queued" /\ run'[k] = "running" /\ pc'[w][k] = "processing" /\ row' = row
    BY <1>3 DEF Begin, MayBegin, TypeOK
  <2>2. \A v \in Workers \ {w} : pc'[v][k] = pc[v][k]
    BY <1>3 DEF Begin, TypeOK
  <2>3. QED
    BY <2>1, <2>2 DEF FinishedProperly
<1>4. ASSUME NEW w \in Workers, Skip(w, k) PROVE FinishedProperly(k)'
  <2>1. run[k] # "queued" /\ pc[w][k] = "claimed" /\ row[k].status = "running"
    BY <1>4 DEF Skip, MayBegin, HolderOwnsLease, Holding
  <2>2. \A v \in Workers : pc[v][k] # "processing"
    BY <2>1, OneHolder DEF Holding
  <2>3. run[k] \in {"completed", "failed"}
    BY <2>1, <2>2 DEF FinishedProperly, TypeOK, RunStatus
  <2>4. QED
    BY <1>4, <2>3 DEF Skip, TypeOK, FinishedProperly
<1>5. ASSUME NEW w \in Workers, Succeed(w, k) \/ Raise(w, k) PROVE FinishedProperly(k)'
  <2>1. run'[k] \in {"completed", "failed"} /\ row' = row
    BY <1>5 DEF Succeed, Raise, TypeOK
  <2>2. /\ pc'[w][k] \in {"completing", "failing"}
        /\ \A v \in Workers \ {w} : pc'[v][k] = pc[v][k]
    BY <1>5 DEF Succeed, Raise, TypeOK
  <2>3. QED
    BY <2>1, <2>2 DEF FinishedProperly
<1>6. ASSUME NEW w \in Workers,
             BeginRaises(w, k) \/ CompleteJobRaises(w, k) \/ Die(w, k) \/ HeartbeatDies(w, k)
      PROVE  FinishedProperly(k)'
  BY <1>6 DEF BeginRaises, CompleteJobRaises, Die, Unhandled, HeartbeatDies, LeaseCoversHeartbeat
<1>7. ASSUME NEW w \in Workers, CompleteJob(w, k) \/ FailJob(w, k) PROVE FinishedProperly(k)'
  <2>1. row[k].status = "running" /\ pc[w][k] \in {"completing", "failing"}
    BY <1>7 DEF CompleteJob, FailJob, HolderOwnsLease, Holding
  <2>2. /\ run' = run
        /\ row'[k].status \in {"completed", "failed"}
        /\ row'[k].status = "completed" => pc[w][k] = "completing"
        /\ pc'[w][k] = "idle"
        /\ \A v \in Workers \ {w} : pc'[v][k] = pc[v][k]
    BY <1>7 DEF CompleteJob, FailJob, Finish, TypeOK
  <2>3. QED
    BY <2>1, <2>2 DEF FinishedProperly
<1>8. ASSUME NEW w \in Workers, Interrupt(w, k) PROVE FinishedProperly(k)'
  <2>1. /\ run' = run /\ row'[k].status = "failed" /\ pc'[w][k] = "failing_run"
        /\ \A v \in Workers \ {w} : pc'[v][k] = pc[v][k]
    BY <1>8 DEF Interrupt, Finish, TypeOK
  <2>2. QED
    BY <2>1 DEF FinishedProperly
<1>9. ASSUME NEW w \in Workers, InterruptRun(w, k) PROVE FinishedProperly(k)'
  <2>1. /\ run'[k] \in {"completed", "failed"} /\ row' = row /\ pc'[w][k] = "idle"
        /\ \A v \in Workers \ {w} : pc'[v][k] = pc[v][k]
    BY <1>9 DEF InterruptRun, TypeOK
  <2>2. QED
    BY <2>1 DEF FinishedProperly
<1>10. ASSUME NEW w \in Workers, Heartbeat(w, k) \/ Stop(w) PROVE FinishedProperly(k)'
  BY <1>10, FinishedFrame DEF Heartbeat, Stop
<1>11. ASSUME NEW w \in Workers, Exit(w) PROVE FinishedProperly(k)'
  <2>1. pc[w][k] \notin Holding \cup {"failing_run"}
    BY <1>11 DEF Exit
  <2>2. /\ run' = run /\ row' = row /\ pc'[w][k] = "idle"
        /\ \A v \in Workers \ {w} : pc'[v][k] = pc[v][k]
    BY <1>11 DEF Exit, TypeOK
  <2>3. QED
    BY <2>1, <2>2 DEF FinishedProperly, Holding
<1>12. CASE Tick \/ UNCHANGED vars
  BY <1>12, FinishedFrame DEF Tick, vars
<1>13. ASSUME NEW w \in Workers, Task(w, k) PROVE FinishedProperly(k)'
  BY <1>1, <1>2, <1>3, <1>4, <1>5, <1>6, <1>7, <1>8, <1>9, <1>10, <1>13 DEF Task
<1>14. QED
  BY <1>a, <1>10, <1>11, <1>12, <1>13 DEF Next

\* A process that has died at work is not forgotten.
LEMMA EndedStays == [Next]_vars /\ ended => ended'
<1>1. ASSUME NEW w \in Workers, Exit(w), ended PROVE ended'
  BY <1>1 DEF Exit
<1>2. ASSUME NEW w \in Workers, NEW j \in Jobs, Task(w, j) PROVE UNCHANGED ended
  BY <1>2 DEF Task, Deliver, Claim, ClaimRefused, Begin, Skip, Succeed, Raise,
              BeginRaises, CompleteJobRaises, Die, CompleteJob, FailJob, Heartbeat, HeartbeatDies,
              Interrupt, InterruptRun
<1>3. ASSUME NEW w \in Workers, Stop(w) PROVE UNCHANGED ended
  BY <1>3 DEF Stop
<1>4. CASE Tick \/ UNCHANGED vars
  BY <1>4 DEF Tick, vars
<1>5. QED
  BY <1>1, <1>2, <1>3, <1>4, Zenon DEF Next

\* Every step preserves RunningHasTask.
LEMMA RunningStep == TypeOK /\ HolderOwnsLease /\ RunningHasTask /\ [Next]_vars => RunningHasTask'
<1> SUFFICES ASSUME TypeOK, HolderOwnsLease, RunningHasTask, [Next]_vars,
                    LeaseCoversHeartbeat, ~ended', NEW k \in Jobs \ PlanningJobs
             PROVE  FinishedProperly(k)'
  BY DEF RunningHasTask, LeaseCoversHeartbeat
<1>1. ~ended
  BY EndedStays DEF TypeOK
<1>2. FinishedProperly(k)
  BY <1>1 DEF RunningHasTask
<1>3. QED
  BY <1>1, <1>2, FinishedStep

\* While no process has died at work, a completed EXECUTE_RUN job has a finished
\* run: the early return of process_run() never completes a job too soon.
THEOREM CompletedJobsFinishedTheirRuns == Spec => []CompletedJobMeansFinishedRun
<1>1. Init => RunningHasTask
  BY DEF Init, RunningHasTask, FinishedProperly
<1>2. RunningHasTask => CompletedJobMeansFinishedRun
  BY DEF RunningHasTask, FinishedProperly, CompletedJobMeansFinishedRun
<1>3. QED
  BY <1>1, <1>2, HolderInvariant, RunningStep, PTL DEF Spec
=============================================================================
