--------------------------- MODULE JobQueueProofs ---------------------------
(***************************************************************************)
(* The job queue keeps its promises for every number of jobs, workers,     *)
(* attempts and faults.  Every step is one of a few changes of the jobs    *)
(* table; the facts about the table follow from these, and the facts that  *)
(* tie a worker to the job it runs from the steps of the dispatcher.       *)
(***************************************************************************)
EXTENDS JobQueue, TLAPS

JobType ==
  /\ status \in [Jobs -> Statuses]
  /\ attempts \in [Jobs -> 0 .. MaxAttempts]
  /\ leaseOwner \in [Jobs -> Owners]
  /\ leaseLeft \in [Jobs -> 0 .. LeaseTicks]
  /\ delay \in [Jobs -> 0 .. MaxDelay]
  /\ dedupeKey \in [Jobs -> DedupeKeys \cup {NoKey}]

WorkerType ==
  /\ life \in [Workers -> {"new", "up", "stopping", "stopped", "dead"}]
  /\ recovery \in [Workers -> {"none", "pending", "done", "rejected"}]
  /\ sinceRecovery \in [Workers -> 0 .. HeartbeatTicks]
  /\ pc \in [Workers -> Places]
  /\ current \in [Workers -> Jobs \cup {0}]
  /\ attempt \in [Workers -> 0 .. MaxAttempts]
  /\ faults \in 0 .. MaxFaults

\* A row that was never inserted was never attempted.
UnusedRows == \A j \in Jobs : status[j] = "absent" => attempts[j] = 0

\* run() has a job.
HoldersHaveJobs == \A w \in Workers : pc[w] \in Holding => current[w] \in Jobs

\* The attempt it runs was counted.
HoldersAreCounted ==
  \A w \in Workers : pc[w] \in Holding => attempt[w] <= attempts[current[w]]

TableInv ==
  /\ JobType
  /\ UnusedRows
  /\ AttemptsAccounted
  /\ LeaseMatchesStatus
  /\ DedupeKeepsOneActive

QueueInv ==
  /\ TableInv
  /\ WorkerType
  /\ HoldersHaveJobs
  /\ HoldersAreCounted
  /\ AttemptsAreFenced

-----------------------------------------------------------------------------
(* The changes of the jobs table                                           *)

Inserts ==
  \E j \in Jobs, key \in DedupeKeys \cup {NoKey}, d \in 0 .. MaxDelay :
    Insert(j, key, d) /\ (key # NoKey => ~KeyTaken(key))

Claims == \E w \in Workers, j \in Jobs : Claim(w, j)

EndsAttempts ==
  \E lost \in SUBSET Jobs : EndAttempt(lost) /\ \A j \in lost : status[j] = "running"

Succeeds == \E j \in Jobs : Succeed(j) /\ status[j] = "running"

MovesTime ==
  /\ UNCHANGED <<status, attempts, leaseOwner, dedupeKey>>
  /\ leaseLeft' \in [Jobs -> 0 .. LeaseTicks]
  /\ delay' \in [Jobs -> 0 .. MaxDelay]
  /\ \A j \in Jobs : status[j] # "running" => leaseLeft'[j] = 0

\* The changes that give no worker a lease.
GivesNoLease ==
  Inserts \/ EndsAttempts \/ Succeeds \/ MovesTime \/ UNCHANGED jobVars

TableChange == Claims \/ GivesNoLease

LEMMA InsertsKeep ==
  ASSUME TableInv, Inserts
  PROVE  TableInv'
<1> USE JobQueueAssumption DEF TableInv, JobType
<1>1. PICK j \in Jobs, key \in DedupeKeys \cup {NoKey}, d \in 0 .. MaxDelay :
        Insert(j, key, d) /\ (key # NoKey => ~KeyTaken(key))
  BY DEF Inserts
<1>2. status[j] = "absent" /\ attempts[j] = 0
  BY <1>1 DEF Insert, NextId, UnusedRows
<1>3. JobType'
  BY <1>1 DEF Insert, Statuses, Active, Pending
<1>4. UnusedRows' /\ AttemptsAccounted' /\ LeaseMatchesStatus'
  BY <1>1, <1>2 DEF Insert, UnusedRows, AttemptsAccounted, LeaseMatchesStatus, Pending
<1>5. DedupeKeepsOneActive'
  BY <1>1, <1>2 DEF Insert, KeyTaken, DedupeKeepsOneActive, Active, Pending
<1>6. QED
  BY <1>3, <1>4, <1>5

LEMMA ClaimsKeep ==
  ASSUME TableInv, Claims
  PROVE  TableInv'
<1> USE JobQueueAssumption DEF TableInv, JobType
<1>1. PICK w \in Workers, j \in Jobs : Claim(w, j)
  BY DEF Claims
<1>2. status[j] \in Pending /\ attempts[j] < MaxAttempts
  BY <1>1 DEF Claim, Runnable, AttemptsAccounted
<1>3. attempts[j] + 1 \in 0 .. MaxAttempts /\ attempts[j] + 1 > 0
  BY <1>2
<1>4. JobType'
  BY <1>1, <1>3 DEF Claim, Statuses, Active, Owners
<1>5. UnusedRows' /\ AttemptsAccounted' /\ LeaseMatchesStatus'
  BY <1>1, <1>2, <1>3 DEF Claim, UnusedRows, AttemptsAccounted, LeaseMatchesStatus, Pending
<1>6. DedupeKeepsOneActive'
  BY <1>1, <1>2 DEF Claim, DedupeKeepsOneActive, Active, Pending
<1>7. QED
  BY <1>4, <1>5, <1>6

LEMMA EndsAttemptsKeep ==
  ASSUME TableInv, EndsAttempts
  PROVE  TableInv'
<1> USE JobQueueAssumption DEF TableInv, JobType
<1>1. PICK lost \in SUBSET Jobs : EndAttempt(lost) /\ \A j \in lost : status[j] = "running"
  BY DEF EndsAttempts
<1>2. JobType'
  BY <1>1 DEF EndAttempt, Statuses, Active, Pending, Terminal, Owners
<1>3. UnusedRows' /\ AttemptsAccounted' /\ LeaseMatchesStatus'
  BY <1>1 DEF EndAttempt, UnusedRows, AttemptsAccounted, LeaseMatchesStatus, Pending
<1>4. DedupeKeepsOneActive'
  BY <1>1 DEF EndAttempt, DedupeKeepsOneActive, Active, Pending
<1>5. QED
  BY <1>2, <1>3, <1>4

LEMMA SucceedsKeep ==
  ASSUME TableInv, Succeeds
  PROVE  TableInv'
<1> USE JobQueueAssumption DEF TableInv, JobType
<1>1. PICK j \in Jobs : Succeed(j) /\ status[j] = "running"
  BY DEF Succeeds
<1>2. JobType'
  BY <1>1 DEF Succeed, Statuses, Terminal, Owners
<1>3. UnusedRows' /\ AttemptsAccounted' /\ LeaseMatchesStatus'
  BY <1>1 DEF Succeed, UnusedRows, AttemptsAccounted, LeaseMatchesStatus, Pending
<1>4. DedupeKeepsOneActive'
  BY <1>1 DEF Succeed, DedupeKeepsOneActive, Active, Pending
<1>5. QED
  BY <1>2, <1>3, <1>4

LEMMA MovesTimeKeeps ==
  ASSUME TableInv, MovesTime
  PROVE  TableInv'
BY DEF TableInv, JobType, MovesTime, UnusedRows, AttemptsAccounted, LeaseMatchesStatus,
       DedupeKeepsOneActive

LEMMA TableChangeKeeps ==
  ASSUME TableInv, TableChange
  PROVE  TableInv'
<1>1. ASSUME UNCHANGED jobVars PROVE TableInv'
  BY <1>1 DEF jobVars, TableInv, JobType, UnusedRows, AttemptsAccounted, LeaseMatchesStatus,
              DedupeKeepsOneActive
<1>2. QED
  BY <1>1, InsertsKeep, ClaimsKeep, EndsAttemptsKeep, SucceedsKeep, MovesTimeKeeps
  DEF TableChange, GivesNoLease

\* A change of the table is a step of the abstract lifecycle.
LEMMA TableChangeIsLifecycle ==
  ASSUME TableInv, TableChange
  PROVE  [Lifecycle!Next]_(Lifecycle!vars)
<1> USE DEF TableInv, JobType, Lifecycle!vars, Lifecycle!Next
<1>1. ASSUME NEW j \in Jobs, NEW key, NEW d, Insert(j, key, d) PROVE Lifecycle!Submit(j)
  BY <1>1 DEF Insert, NextId, Lifecycle!Submit
<1>2. ASSUME NEW w \in Workers, NEW j \in Jobs, Claim(w, j) PROVE Lifecycle!Attempt(j)
  <2>1. status[j] \in Pending /\ attempts[j] < MaxAttempts
    BY <1>2 DEF Claim, Runnable, AttemptsAccounted
  <2>2. QED
    BY <1>2, <2>1 DEF Claim, Pending, Lifecycle!Attempt, Lifecycle!Pending
<1>3. ASSUME NEW lost \in SUBSET Jobs, EndAttempt(lost), \A j \in lost : status[j] = "running"
      PROVE  Lifecycle!GiveUp(lost)
  BY <1>3 DEF EndAttempt, Lifecycle!GiveUp
<1>4. ASSUME NEW j \in Jobs, Succeed(j), status[j] = "running" PROVE Lifecycle!Succeed(j)
  BY <1>4 DEF Succeed, Lifecycle!Succeed
<1>5. ASSUME MovesTime \/ UNCHANGED jobVars PROVE UNCHANGED Lifecycle!vars
  BY <1>5 DEF MovesTime, jobVars
<1>6. QED
  BY <1>1, <1>2, <1>3, <1>4, <1>5 DEF TableChange, GivesNoLease, Inserts, Claims, EndsAttempts, Succeeds

-----------------------------------------------------------------------------
(* The steps of the dispatcher                                             *)

\* A recovery ends the attempts of running jobs only.
LEMMA RecoveryEndsAttempts ==
  RecoverInterrupted => EndsAttempts
<1> SUFFICES ASSUME RecoverInterrupted PROVE EndsAttempts
  OBVIOUS
<1>1. Interrupted \in SUBSET Jobs /\ \A j \in Interrupted : status[j] = "running"
  BY DEF Interrupted
<1>2. QED
  BY <1>1 DEF RecoverInterrupted, EndsAttempts

\* markSucceeded and markFailed end the attempt of a running job, the worker's own.
LEMMA FinishingChangesTable ==
  ASSUME QueueInv, NEW w \in Workers, pc[w] \in Holding, MayFinish(w, current[w])
  PROVE  /\ Succeed(current[w]) => Succeeds
         /\ EndAttempt({current[w]}) => EndsAttempts
<1>1. current[w] \in Jobs /\ status[current[w]] = "running"
  BY DEF QueueInv, HoldersHaveJobs, MayFinish
<1>2. {current[w]} \in SUBSET Jobs /\ \A j \in {current[w]} : status[j] = "running"
  BY <1>1
<1>3. QED
  BY <1>1, <1>2 DEF Succeeds, EndsAttempts

LEMMA SubmissionChangesTable ==
  ASSUME Submission
  PROVE  Inserts
<1>1. PICK j \in Jobs, d \in 0 .. MaxDelay :
        Create(j, d) \/ \E key \in DedupeKeys : CreateUnique(j, key, d)
  BY DEF Submission
<1>2. CASE Create(j, d)
  BY <1>2 DEF Create, Inserts
<1>3. ASSUME NEW key \in DedupeKeys, CreateUnique(j, key, d) PROVE Inserts
  BY <1>3 DEF CreateUnique, Inserts
<1>4. QED
  BY <1>1, <1>2, <1>3

LEMMA WorkerStepChangesTable ==
  ASSUME QueueInv, NEW w \in Workers, WorkerStep(w), ~ClaimNext(w)
  PROVE  GivesNoLease
<1> USE DEF GivesNoLease
<1>1. CASE Start(w) \/ Kick(w) \/ DrainRejected(w) \/ DrainEnds(w) \/ StopReturns(w)
           \/ MarkSucceededRefused(w) \/ MarkFailedRefused(w)
  BY <1>1 DEF Start, Kick, DrainRejected, DrainEnds, StopReturns, MarkSucceededRefused,
              MarkFailedRefused
<1>2. CASE StartupRecovery(w)
  BY <1>2, RecoveryEndsAttempts DEF StartupRecovery
<1>3. CASE DrainRecovers(w)
  BY <1>3, RecoveryEndsAttempts DEF DrainRecovers
<1>4. CASE MarkSucceeded(w)
  BY <1>4, FinishingChangesTable DEF MarkSucceeded, Holding
<1>5. CASE MarkFailed(w)
  BY <1>5, FinishingChangesTable DEF MarkFailed, Holding
<1>6. QED
  BY <1>1, <1>2, <1>3, <1>4, <1>5 DEF WorkerStep

\* A fault changes the table as the call it hits would have.
LEMMA FaultChangesTable ==
  ASSUME QueueInv, NEW w \in Workers, FaultStep(w)
  PROVE  GivesNoLease \/ (ReplyLost(w) /\ \E j \in Jobs : Claim(w, j))
<1> USE DEF GivesNoLease
<1>1. CASE StartupRecoveryFails(w)
  BY <1>1, RecoveryEndsAttempts DEF StartupRecoveryFails
<1>2. CASE Crash(w) \/ CallFails(w)
  BY <1>2 DEF Crash, CallFails
<1>3. CASE ReplyLost(w)
  BY <1>3, RecoveryEndsAttempts, FinishingChangesTable DEF ReplyLost, Holding, Runnable
<1>4. QED
  BY <1>1, <1>2, <1>3 DEF FaultStep

LEMMA RenewalMovesTime ==
  ASSUME QueueInv, NEW w \in Workers, RenewLease(w)
  PROVE  MovesTime
<1>1. current[w] \in Jobs /\ status[current[w]] = "running"
  BY DEF QueueInv, HoldersHaveJobs, RenewLease
<1>2. QED
  BY <1>1, JobQueueAssumption
  DEF QueueInv, TableInv, JobType, LeaseMatchesStatus, RenewLease, MovesTime

LEMMA TickMovesTime ==
  ASSUME QueueInv, Tick
  PROVE  MovesTime
<1>1. \A n \in Nat : Less(n) \in 0 .. n /\ Less(0) = 0
  BY DEF Less
<1>2. \A j \in Jobs : Less(leaseLeft[j]) \in 0 .. LeaseTicks /\ Less(delay[j]) \in 0 .. MaxDelay
  BY <1>1, JobQueueAssumption DEF QueueInv, TableInv, JobType
<1>3. \A j \in Jobs : status[j] # "running" => leaseLeft'[j] = 0
  BY <1>1 DEF Tick, QueueInv, TableInv, LeaseMatchesStatus
<1>4. QED
  BY <1>2, <1>3 DEF Tick, MovesTime

-----------------------------------------------------------------------------
(* A worker and its job                                                    *)

\* Only a claim gives a job an owner or another attempt.
LEMMA OnlyClaimsGiveOwners ==
  ASSUME TableInv, GivesNoLease, NEW j \in Jobs, NEW w \in Workers, leaseOwner'[j] = w
  PROVE  leaseOwner[j] = w /\ attempts'[j] = attempts[j]
<1> USE JobQueueAssumption DEF TableInv, JobType
<1>1. CASE Inserts
  BY <1>1 DEF Inserts, Insert
<1>2. CASE EndsAttempts
  BY <1>2 DEF EndsAttempts, EndAttempt
<1>3. CASE Succeeds
  BY <1>3 DEF Succeeds, Succeed
<1>4. CASE MovesTime \/ UNCHANGED jobVars
  BY <1>4 DEF MovesTime, jobVars
<1>5. QED
  BY <1>1, <1>2, <1>3, <1>4 DEF GivesNoLease

LEMMA OnlyClaimsCount ==
  ASSUME TableInv, GivesNoLease
  PROVE  attempts' = attempts
BY DEF GivesNoLease, Inserts, Insert, EndsAttempts, EndAttempt, Succeeds, Succeed, MovesTime,
       jobVars

\* A step that gives no worker a job to hold.
TakesNoJob ==
  /\ WorkerType'
  /\ \A w \in Workers : pc'[w] \in Holding =>
       pc[w] \in Holding /\ current'[w] = current[w] /\ attempt'[w] = attempt[w]

WorkerInv == WorkerType /\ HoldersHaveJobs /\ HoldersAreCounted /\ AttemptsAreFenced

LEMMA TakingNoJobKeeps ==
  ASSUME QueueInv, GivesNoLease, TakesNoJob
  PROVE  WorkerInv'
<1>1. HoldersHaveJobs'
  BY DEF QueueInv, TakesNoJob, HoldersHaveJobs
<1>2. OwnerRunsLatestAttempt'
  <2> SUFFICES ASSUME NEW w \in Workers, pc'[w] \in Holding, leaseOwner'[current'[w]] = w
               PROVE  attempt'[w] = attempts'[current'[w]]
    BY DEF OwnerRunsLatestAttempt
  <2>1. /\ current'[w] = current[w] /\ attempt'[w] = attempt[w]
        /\ pc[w] \in Holding /\ current[w] \in Jobs
    BY DEF QueueInv, TakesNoJob, HoldersHaveJobs
  <2>2. leaseOwner[current[w]] = w /\ attempts'[current[w]] = attempts[current[w]]
    BY <2>1, OnlyClaimsGiveOwners DEF QueueInv
  <2>3. QED
    BY <2>1, <2>2 DEF QueueInv, AttemptsAreFenced, OwnerRunsLatestAttempt
<1>3. HoldersAreCounted'
  BY OnlyClaimsCount DEF QueueInv, TakesNoJob, HoldersAreCounted
<1>4. OneWorkerPerAttempt'
  BY DEF QueueInv, TakesNoJob, AttemptsAreFenced, OneWorkerPerAttempt
<1>5. QED
  BY <1>1, <1>2, <1>3, <1>4 DEF WorkerInv, TakesNoJob, AttemptsAreFenced

\* Attempts are only counted up.
LEMMA ClaimCounts ==
  ASSUME QueueInv, NEW w \in Workers, NEW j \in Jobs, Claim(w, j)
  PROVE  /\ attempts'[j] = attempts[j] + 1
         /\ \A i \in Jobs : \A n \in Nat : n <= attempts[i] => n <= attempts'[i]
BY JobQueueAssumption DEF Claim, QueueInv, TableInv, JobType

\* A claim by w leaves the jobs that others hold to their owners.
LEMMA ClaimLeavesOthers ==
  ASSUME QueueInv, NEW w \in Workers, NEW j \in Jobs, Claim(w, j),
         NEW v \in Workers, v # w, pc[v] \in Holding, leaseOwner'[current[v]] = v
  PROVE  attempt[v] = attempts'[current[v]]
<1>1. current[v] \in Jobs
  BY DEF QueueInv, HoldersHaveJobs
<1>2. current[v] # j /\ leaseOwner[current[v]] = v /\ attempts'[current[v]] = attempts[current[v]]
  BY <1>1 DEF Claim, QueueInv, TableInv, JobType
<1>3. QED
  BY <1>2 DEF QueueInv, AttemptsAreFenced, OwnerRunsLatestAttempt

\* claimNext: the worker takes the attempt its own claim just counted.
LEMMA ClaimNextKeeps ==
  ASSUME QueueInv, NEW w \in Workers, ClaimNext(w)
  PROVE  TableChange /\ WorkerInv'
<1>1. PICK j \in Jobs :
        /\ Claim(w, j) /\ status[j] \in Pending
        /\ pc' = [pc EXCEPT ![w] = "handling"]
        /\ current' = [current EXCEPT ![w] = j]
        /\ attempt' = [attempt EXCEPT ![w] = attempts[j] + 1]
  BY DEF ClaimNext, Runnable, Goto
<1>2. attempts[j] + 1 \in 0 .. MaxAttempts /\ attempts'[j] = attempts[j] + 1
  BY <1>1, JobQueueAssumption DEF QueueInv, TableInv, JobType, AttemptsAccounted, Claim
<1>3. WorkerType'
  BY <1>1, <1>2 DEF QueueInv, WorkerType, ClaimNext, Places, Holding
<1>4. HoldersHaveJobs'
  BY <1>1 DEF QueueInv, WorkerType, HoldersHaveJobs
<1>5. OwnerRunsLatestAttempt'
  <2> SUFFICES ASSUME NEW v \in Workers, pc'[v] \in Holding, leaseOwner'[current'[v]] = v
               PROVE  attempt'[v] = attempts'[current'[v]]
    BY DEF OwnerRunsLatestAttempt
  <2>1. CASE v = w
    BY <2>1, <1>1, <1>2 DEF QueueInv, WorkerType
  <2>2. CASE v # w
    <3>1. pc[v] \in Holding /\ current'[v] = current[v] /\ attempt'[v] = attempt[v]
      BY <2>2, <1>1 DEF QueueInv, WorkerType
    <3>2. QED
      BY <3>1, <2>2, <1>1, ClaimLeavesOthers
  <2>3. QED
    BY <2>1, <2>2
<1>6. \A v \in Workers \ {w} :
        pc'[v] = pc[v] /\ current'[v] = current[v] /\ attempt'[v] = attempt[v]
  BY <1>1 DEF QueueInv, WorkerType
<1>7. pc'[w] \in Holding /\ current'[w] = j /\ attempt'[w] = attempts[j] + 1
  BY <1>1 DEF QueueInv, WorkerType, Holding
<1>8. HoldersAreCounted'
  <2>1. ASSUME NEW v \in Workers \ {w}, pc[v] \in Holding
        PROVE  attempt[v] <= attempts'[current[v]]
    BY <1>1, <2>1, ClaimCounts
       DEF QueueInv, WorkerType, HoldersAreCounted, HoldersHaveJobs
  <2>2. attempt'[w] <= attempts'[current'[w]]
    BY <1>2, <1>7
  <2>3. QED
    BY <1>6, <2>1, <2>2 DEF HoldersAreCounted
<1>9. OneWorkerPerAttempt'
  <2>1. \A v \in Workers \ {w} :
          pc[v] \in Holding /\ current[v] = j => attempt[v] < attempts[j] + 1
    BY DEF QueueInv, TableInv, JobType, WorkerType, HoldersAreCounted
  <2>2. \A v \in Workers \ {w} :
          ~(pc'[v] \in Holding /\ current'[v] = current'[w] /\ attempt'[v] = attempt'[w])
    BY <1>6, <1>7, <2>1 DEF QueueInv, TableInv, JobType, WorkerType
  <2>3. QED
    BY <1>6, <2>2 DEF QueueInv, AttemptsAreFenced, OneWorkerPerAttempt
<1>10. QED
  BY <1>1, <1>3, <1>4, <1>5, <1>8, <1>9 DEF TableChange, Claims, WorkerInv, AttemptsAreFenced

\* The claim whose answer is lost: its worker goes idle without the job.
LEMMA LostClaimKeeps ==
  ASSUME QueueInv, NEW w \in Workers, ReplyLost(w), NEW j \in Jobs, Claim(w, j)
  PROVE  TableChange /\ WorkerInv'
<1>1. /\ \A v \in Workers \ {w} : pc'[v] = pc[v]
      /\ \A v \in Workers : pc'[v] \in Holding =>
           current'[v] = current[v] /\ attempt'[v] = attempt[v]
      /\ WorkerType'
  BY JobQueueAssumption
  DEF QueueInv, WorkerType, ReplyLost, Fault, LetGo, Goto, Places, Holding
<1>2. status[j] \in Pending /\ leaseOwner'[j] = w
  BY DEF Claim, Runnable, QueueInv, TableInv, JobType
<1>3. pc'[w] \notin Holding
  <2>1. CASE LetGo(w, "idle")
    BY <2>1 DEF LetGo, Goto, Holding, QueueInv, WorkerType
  <2>2. CASE ~LetGo(w, "idle")
    <3>1. MayFinish(w, current[w]) /\ Succeed(current[w]) /\ pc[w] \in Holding
      BY <2>2 DEF ReplyLost, Holding
    <3>2. current[w] \in Jobs /\ current[w] # j
      BY <3>1, <1>2 DEF QueueInv, HoldersHaveJobs, MayFinish, Pending
    <3>3. leaseOwner'[j] = leaseOwner[j] /\ leaseOwner[j] = NoOwner
      BY <3>1, <3>2, <1>2
      DEF Succeed, QueueInv, TableInv, JobType, LeaseMatchesStatus, Pending
    <3>4. QED
      BY <1>2, <3>3, JobQueueAssumption
  <2>3. QED
    BY <2>1, <2>2
<1>4. HoldersHaveJobs'
  BY <1>1, <1>3 DEF QueueInv, HoldersHaveJobs
<1>5. OwnerRunsLatestAttempt'
  <2> SUFFICES ASSUME NEW v \in Workers, pc'[v] \in Holding, leaseOwner'[current'[v]] = v
               PROVE  attempt'[v] = attempts'[current'[v]]
    BY DEF OwnerRunsLatestAttempt
  <2>1. v # w /\ pc[v] \in Holding /\ current'[v] = current[v] /\ attempt'[v] = attempt[v]
    BY <1>1, <1>3
  <2>2. QED
    BY <2>1, ClaimLeavesOthers
<1>6. HoldersAreCounted'
  BY <1>1, <1>3, ClaimCounts DEF QueueInv, WorkerType, HoldersAreCounted, HoldersHaveJobs
<1>7. OneWorkerPerAttempt'
  BY <1>1, <1>3 DEF QueueInv, AttemptsAreFenced, OneWorkerPerAttempt
<1>8. QED
  BY <1>1, <1>4, <1>5, <1>6, <1>7 DEF TableChange, Claims, WorkerInv, AttemptsAreFenced

LEMMA WorkerStepTakesNoJob ==
  ASSUME QueueInv, NEW w \in Workers, WorkerStep(w) \/ HandlerStep(w) \/ Stop(w), ~ClaimNext(w)
  PROVE  TakesNoJob
<1> USE JobQueueAssumption
    DEF QueueInv, WorkerType, TakesNoJob, Goto, LetGo, LoopTop, Places, Holding
<1>1. CASE Start(w) \/ Kick(w) \/ DrainRejected(w) \/ DrainEnds(w) \/ StopReturns(w) \/ Stop(w)
  BY <1>1 DEF Start, Kick, DrainRejected, DrainEnds, StopReturns, Stop
<1>2. CASE StartupRecovery(w) \/ DrainRecovers(w)
  BY <1>2 DEF StartupRecovery, DrainRecovers
<1>3. CASE MarkSucceeded(w) \/ MarkSucceededRefused(w) \/ HandlerStep(w)
  BY <1>3 DEF MarkSucceeded, MarkSucceededRefused, HandlerStep, HandlerReturns, HandlerThrows
<1>4. CASE MarkFailed(w) \/ MarkFailedRefused(w)
  BY <1>4 DEF MarkFailed, MarkFailedRefused
<1>5. QED
  BY <1>1, <1>2, <1>3, <1>4 DEF WorkerStep

LEMMA FaultTakesNoJob ==
  ASSUME QueueInv, NEW w \in Workers, FaultStep(w)
  PROVE  TakesNoJob
<1> USE JobQueueAssumption
    DEF QueueInv, WorkerType, TakesNoJob, Goto, LetGo, Places, Holding, Fault
<1>1. CASE StartupRecoveryFails(w)
  BY <1>1 DEF StartupRecoveryFails
<1>2. CASE Crash(w)
  BY <1>2 DEF Crash
<1>3. CASE CallFails(w)
  BY <1>3 DEF CallFails
<1>4. CASE ReplyLost(w)
  BY <1>4 DEF ReplyLost
<1>5. QED
  BY <1>1, <1>2, <1>3, <1>4 DEF FaultStep

LEMMA SameWorkersTakeNoJob ==
  ASSUME QueueInv, UNCHANGED <<life, recovery, pc, current, attempt, faults>>,
         sinceRecovery' \in [Workers -> 0 .. HeartbeatTicks]
  PROVE  TakesNoJob
BY DEF QueueInv, WorkerType, TakesNoJob

-----------------------------------------------------------------------------
LEMMA NextKeeps ==
  ASSUME QueueInv, [Next]_vars
  PROVE  TableChange /\ WorkerInv'
<1>1. GivesNoLease => TableChange
  BY DEF TableChange
<1>2. sinceRecovery \in [Workers -> 0 .. HeartbeatTicks]
  BY DEF QueueInv, WorkerType
<1>3. CASE Submission
  <2>1. UNCHANGED workerVars /\ UNCHANGED faults
    BY <1>3 DEF Submission, Create, CreateUnique
  <2>2. TakesNoJob
    BY <2>1, <1>2, SameWorkersTakeNoJob DEF workerVars
  <2>3. QED
    BY <1>1, <1>3, <2>2, SubmissionChangesTable, TakingNoJobKeeps DEF GivesNoLease
<1>4. ASSUME NEW w \in Workers, WorkerStep(w) PROVE TableChange /\ WorkerInv'
  <2>1. CASE ClaimNext(w)
    BY <2>1, ClaimNextKeeps
  <2>2. CASE ~ClaimNext(w)
    BY <1>1, <1>4, <2>2, WorkerStepChangesTable, WorkerStepTakesNoJob, TakingNoJobKeeps
  <2>3. QED
    BY <2>1, <2>2
<1>5. ASSUME NEW w \in Workers, HandlerStep(w) \/ Stop(w) PROVE TableChange /\ WorkerInv'
  <2>1. GivesNoLease /\ attempts' = attempts
    BY <1>5 DEF HandlerStep, HandlerReturns, HandlerThrows, Stop, GivesNoLease, jobVars
  <2>2. ~ClaimNext(w)
    BY <1>5 DEF HandlerStep, HandlerReturns, HandlerThrows, Stop, ClaimNext, Goto, QueueInv,
                WorkerType
  <2>3. QED
    BY <1>1, <1>5, <2>1, <2>2, WorkerStepTakesNoJob, TakingNoJobKeeps
<1>6. ASSUME NEW w \in Workers, RenewLease(w) PROVE TableChange /\ WorkerInv'
  <2>1. TakesNoJob
    BY <1>2, <1>6, SameWorkersTakeNoJob DEF RenewLease, workerVars
  <2>2. QED
    BY <1>1, <1>6, <2>1, RenewalMovesTime, TakingNoJobKeeps DEF GivesNoLease
<1>7. ASSUME NEW w \in Workers, FaultStep(w) PROVE TableChange /\ WorkerInv'
  BY <1>1, <1>7, FaultChangesTable, FaultTakesNoJob, TakingNoJobKeeps, LostClaimKeeps
<1>8. CASE Tick
  <2>1. sinceRecovery' \in [Workers -> 0 .. HeartbeatTicks]
    BY <1>2, <1>8, JobQueueAssumption DEF Tick
  <2>2. TakesNoJob
    BY <1>8, <2>1, SameWorkersTakeNoJob DEF Tick
  <2>3. QED
    BY <1>1, <1>8, <2>2, TickMovesTime, TakingNoJobKeeps DEF GivesNoLease
<1>9. CASE UNCHANGED vars
  <2>1. TakesNoJob
    BY <1>2, <1>9, SameWorkersTakeNoJob DEF vars, workerVars
  <2>2. QED
    BY <1>1, <1>9, <2>1, TakingNoJobKeeps DEF GivesNoLease, vars
<1>10. QED
  BY <1>3, <1>4, <1>5, <1>6, <1>7, <1>8, <1>9 DEF Next

\* The invariant holds of an empty table...
THEOREM QueueInit == Init => QueueInv
BY JobQueueAssumption
DEF Init, QueueInv, TableInv, JobType, WorkerType, UnusedRows, AttemptsAccounted,
    LeaseMatchesStatus, DedupeKeepsOneActive, HoldersHaveJobs, HoldersAreCounted,
    AttemptsAreFenced, OwnerRunsLatestAttempt, OneWorkerPerAttempt,
    Statuses, Active, Pending, Terminal, Owners, Places, Holding

\* ... and is kept by submissions, workers, handlers, faults and time.
THEOREM QueueInductive == QueueInv /\ [Next]_vars => QueueInv'
<1>1. ASSUME QueueInv, [Next]_vars PROVE QueueInv'
  <2>1. TableInv'
    BY <1>1, NextKeeps, TableChangeKeeps DEF QueueInv
  <2>2. QED
    BY <1>1, <2>1, NextKeeps DEF QueueInv, WorkerInv
<1>2. QED
  BY <1>1

LEMMA InvIsSafe ==
  QueueInv => /\ TypeOK /\ AttemptsAccounted /\ LeaseMatchesStatus
              /\ AttemptsAreFenced /\ DedupeKeepsOneActive
BY DEF QueueInv, TableInv, JobType, WorkerType, TypeOK

LEMMA StepIsLifecycle == QueueInv /\ [Next]_vars => [Lifecycle!Next]_(Lifecycle!vars)
BY NextKeeps, TableChangeIsLifecycle DEF QueueInv

\* Attempts are counted, leases match the status, dedupe keys stay unique and a worker
\* that owns a lease runs the latest attempt, for any number of jobs and workers.
THEOREM QueueIsSafe ==
  Spec => [](/\ TypeOK /\ AttemptsAccounted /\ LeaseMatchesStatus
             /\ AttemptsAreFenced /\ DedupeKeepsOneActive)
<1>1. QED
  BY QueueInit, QueueInductive, InvIsSafe, PTL DEF Spec

\* Whoever crashes or loses an answer, each job goes through the abstract lifecycle.
THEOREM QueueImplementsLifecycle == Spec => ImplementsLifecycle
<1>1. Init => Lifecycle!Init
  BY DEF Init, Lifecycle!Init
<1>2. QED
  BY QueueInit, QueueInductive, StepIsLifecycle, <1>1, PTL
     DEF Spec, ImplementsLifecycle, Lifecycle!Spec

-----------------------------------------------------------------------------
(* Who ends an attempt                                                     *)

\* A running job that leaves its attempt did so in a recovery, which wants its lease
\* expired, or in a report.
LEMMA RecoverySparesLiveLeases ==
  ASSUME QueueInv, RecoverInterrupted \/ UNCHANGED jobVars,
         NEW j \in Jobs, status[j] = "running", leaseLeft[j] > 0
  PROVE  status'[j] = "running"
<1>1. leaseOwner[j] # NoOwner
  BY DEF QueueInv, TableInv, LeaseMatchesStatus
<1>2. j \notin Interrupted
  BY <1>1 DEF Interrupted
<1>3. QED
  BY <1>2 DEF RecoverInterrupted, EndAttempt, jobVars

LEMMA FinishingIsReport ==
  ASSUME QueueInv, NEW w \in Workers, pc[w] \in {"succeeding", "failing"}, pc'[w] # pc[w],
         MayFinish(w, current[w]), Succeed(current[w]) \/ EndAttempt({current[w]}),
         NEW j \in Jobs, status'[j] # status[j]
  PROVE  Reports(w, j)
<1>1. pc[w] \in Holding /\ current[w] \in Jobs
  BY DEF QueueInv, HoldersHaveJobs, Holding
<1>2. current[w] = j
  BY <1>1 DEF Succeed, EndAttempt, QueueInv, TableInv, JobType
<1>3. leaseOwner[j] = w
  BY <1>2 DEF MayFinish, QueueInv, TableInv, LeaseMatchesStatus
<1>4. attempt[w] = attempts[j]
  BY <1>1, <1>2, <1>3 DEF QueueInv, AttemptsAreFenced, OwnerRunsLatestAttempt
<1>5. QED
  BY <1>2, <1>3, <1>4 DEF Reports

LEMMA StepEndsByHolder ==
  ASSUME QueueInv, [Next]_vars, NEW j \in Jobs,
         status[j] = "running", leaseLeft[j] > 0, status'[j] # "running"
  PROVE  \E w \in Workers : Reports(w, j)
<1> USE DEF QueueInv, TableInv, JobType, WorkerType
<1>1. CASE Submission
  BY <1>1 DEF Submission, Create, CreateUnique, Insert, NextId
<1>2. ASSUME NEW w \in Workers, WorkerStep(w) PROVE Reports(w, j)
  <2>1. CASE MarkSucceeded(w)
    <3>1. pc'[w] # pc[w]
      BY <2>1 DEF MarkSucceeded, LetGo, Goto, LoopTop
    <3>2. QED
      BY <2>1, <3>1, FinishingIsReport DEF MarkSucceeded
  <2>2. CASE MarkFailed(w)
    <3>1. pc'[w] # pc[w]
      BY <2>2 DEF MarkFailed, LetGo, Goto, LoopTop
    <3>2. QED
      BY <2>2, <3>1, FinishingIsReport DEF MarkFailed
  <2>3. CASE StartupRecovery(w) \/ DrainRecovers(w)
    BY <2>3, RecoverySparesLiveLeases DEF StartupRecovery, DrainRecovers, jobVars
  <2>4. CASE ClaimNext(w)
    BY <2>4 DEF ClaimNext, Claim
  <2>5. CASE Start(w) \/ Kick(w) \/ DrainRejected(w) \/ DrainEnds(w) \/ StopReturns(w)
             \/ MarkSucceededRefused(w) \/ MarkFailedRefused(w)
    BY <2>5 DEF Start, Kick, DrainRejected, DrainEnds, StopReturns, MarkSucceededRefused,
                MarkFailedRefused, jobVars
  <2>6. QED
    BY <1>2, <2>1, <2>2, <2>3, <2>4, <2>5 DEF WorkerStep
<1>3. ASSUME NEW w \in Workers, FaultStep(w) PROVE Reports(w, j)
  <2>1. CASE StartupRecoveryFails(w)
    BY <2>1, RecoverySparesLiveLeases DEF StartupRecoveryFails
  <2>2. CASE Crash(w) \/ CallFails(w)
    BY <2>2 DEF Crash, CallFails, jobVars
  <2>3. CASE ReplyLost(w)
    <3>1. CASE CallsDatabase(w) /\ RecoverInterrupted
      BY <3>1, RecoverySparesLiveLeases
    <3>2. ASSUME NEW i \in Jobs, Claim(w, i) PROVE FALSE
      BY <3>2 DEF Claim
    <3>3. CASE /\ pc[w] \in {"succeeding", "failing"} /\ MayFinish(w, current[w])
               /\ Succeed(current[w]) \/ EndAttempt({current[w]})
               /\ pc'[w] # pc[w]
      BY <3>3, FinishingIsReport
    <3>4. QED
      BY <2>3, <3>1, <3>2, <3>3 DEF ReplyLost, Runnable, LetGo, Goto
  <2>4. QED
    BY <1>3, <2>1, <2>2, <2>3 DEF FaultStep
<1>4. ASSUME NEW w \in Workers, HandlerStep(w) \/ RenewLease(w) \/ Stop(w) PROVE FALSE
  BY <1>4 DEF HandlerStep, HandlerReturns, HandlerThrows, RenewLease, Stop, jobVars
<1>5. CASE Tick
  BY <1>5 DEF Tick
<1>6. CASE UNCHANGED vars
  BY <1>6 DEF vars, jobVars
<1>7. QED
  BY <1>1, <1>2, <1>3, <1>4, <1>5, <1>6 DEF Next

\* While a lease lasts, the attempt ends by a report of the worker that runs it.
THEOREM LiveLeasesEndByTheirHolder == Spec => LiveLeaseEndsByItsHolder
<1>1. QueueInv /\ [Next]_vars
        => [\A j \in Jobs :
              status[j] = "running" /\ leaseLeft[j] > 0 /\ status'[j] # "running"
                => \E w \in Workers : Reports(w, j)]_vars
  BY StepEndsByHolder
<1>2. QED
  BY QueueInit, QueueInductive, <1>1, PTL DEF Spec, LiveLeaseEndsByItsHolder
=============================================================================
