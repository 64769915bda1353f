------------------------------ MODULE JobQueue ------------------------------
(***************************************************************************)
(* The durable job queue: the jobs table (asyncJobRepository.ts, migration *)
(* jobReliability.ts) and the dispatcher of every worker process           *)
(* (durableJobDispatcher.ts).  One SQL statement is one step; everything   *)
(* a dispatcher does between two awaits belongs to the step before it.     *)
(*                                                                         *)
(* A worker is one process incarnation with the lease owner id it drew at  *)
(* random when it started, so a restarted process is another worker.       *)
(* Time is kept as countdowns: Tick lowers what is left of every lease and *)
(* of every run_at delay, and ages each worker's last recovery.            *)
(***************************************************************************)
EXTENDS Naturals, FiniteSets

CONSTANTS
  NumJobs,              \* the jobs of the table have the ids 1 .. NumJobs
  Workers,              \* worker process incarnations
  DedupeKeys,           \* the dedupe keys of createUnique
  NoKey,                \* dedupe_key NULL: a job made by create
  NoOwner,              \* lease_owner NULL
  MaxAttempts,          \* max_attempts of every job
  LeaseTicks,           \* the lease duration
  HeartbeatTicks,       \* the heartbeat interval, also between two recoveries
  MaxDelay,             \* bound: the largest run_at delay of a new job
  MaxFaults,            \* bound: crashes and failed database calls in a run
  StartupRecoveryMayFail  \* may the recovery that resume() starts be rejected?

ASSUME JobQueueAssumption ==
  /\ NumJobs \in Nat \ {0}
  /\ MaxAttempts \in Nat \ {0}
  /\ LeaseTicks \in Nat \ {0}
  /\ HeartbeatTicks \in Nat
  /\ MaxDelay \in Nat
  /\ MaxFaults \in Nat
  /\ StartupRecoveryMayFail \in BOOLEAN
  /\ NoOwner \notin Workers
  /\ NoKey \notin DedupeKeys

VARIABLES
  status, attempts,     \* columns of the jobs table
  leaseOwner, leaseLeft,
  delay,                \* ticks left until run_at
  dedupeKey,
  life,                 \* per worker: new, up, stopping, stopped, dead
  recovery,             \* per worker: the state of the recovery promise
  sinceRecovery,        \* per worker: ticks since lastRecoveryAt
  pc,                   \* per worker: where its drain() is
  current,              \* per worker: the id of the job it runs, 0 for none
  attempt,              \* per worker: the attempts value its claim returned
  faults                \* crashes and failed calls so far

jobVars == <<status, attempts, leaseOwner, leaseLeft, delay, dedupeKey>>
workerVars == <<life, recovery, sinceRecovery, pc, current, attempt>>
vars == <<jobVars, workerVars, faults>>

Jobs == 1 .. NumJobs
Owners == Workers \cup {NoOwner}

Pending == {"queued", "retrying"}
Active == Pending \cup {"running"}
Terminal == {"succeeded", "failed"}
Statuses == {"absent"} \cup Active \cup Terminal

\* drain() of a worker holds a job in these places.
Holding == {"handling", "succeeding", "failing"}
Places == {"idle", "draining", "claiming"} \cup Holding

TypeOK ==
  /\ status \in [Jobs -> Statuses]
  /\ attempts \in [Jobs -> 0 .. MaxAttempts]
  /\ leaseOwner \in [Jobs -> Owners]
  /\ leaseLeft \in [Jobs -> 0 .. LeaseTicks]
  /\ delay \in [Jobs -> 0 .. MaxDelay]
  /\ dedupeKey \in [Jobs -> DedupeKeys \cup {NoKey}]
  /\ life \in [Workers -> {"new", "up", "stopping", "stopped", "dead"}]
  /\ recovery \in [Workers -> {"none", "pending", "done", "rejected"}]
  /\ sinceRecovery \in [Workers -> 0 .. HeartbeatTicks]
  /\ pc \in [Workers -> Places]
  /\ current \in [Workers -> Jobs \cup {0}]
  /\ attempt \in [Workers -> 0 .. MaxAttempts]
  /\ faults \in 0 .. MaxFaults

Init ==
  /\ status = [j \in Jobs |-> "absent"]
  /\ attempts = [j \in Jobs |-> 0]
  /\ leaseOwner = [j \in Jobs |-> NoOwner]
  /\ leaseLeft = [j \in Jobs |-> 0]
  /\ delay = [j \in Jobs |-> 0]
  /\ dedupeKey = [j \in Jobs |-> NoKey]
  /\ life = [w \in Workers |-> "new"]
  /\ recovery = [w \in Workers |-> "none"]
  /\ sinceRecovery = [w \in Workers |-> 0]
  /\ pc = [w \in Workers |-> "idle"]
  /\ current = [w \in Workers |-> 0]
  /\ attempt = [w \in Workers |-> 0]
  /\ faults = 0

Running(w) == life[w] \in {"up", "stopping"}

-----------------------------------------------------------------------------
(* The jobs table                                                          *)

\* ids come from the identity column: the next row has the lowest unused id.
NextId(j) == status[j] = "absent" /\ \A i \in Jobs : i < j => status[i] # "absent"

Insert(j, key, d) ==
  /\ NextId(j)
  /\ status' = [status EXCEPT ![j] = "queued"]
  /\ delay' = [delay EXCEPT ![j] = d]
  /\ dedupeKey' = [dedupeKey EXCEPT ![j] = key]
  /\ UNCHANGED <<attempts, leaseOwner, leaseLeft>>

\* create(): a plain insert; its dedupe_key is NULL.
Create(j, d) ==
  /\ Insert(j, NoKey, d)
  /\ UNCHANGED <<workerVars, faults>>

\* Mutant: an index that forgets retrying jobs.
KeyTakenUnlessRetrying(key) ==
  \E i \in Jobs : dedupeKey[i] = key /\ status[i] \in {"queued", "running"}

\* The partial unique index jobs_active_dedupe_idx.
KeyTaken(key) == \E i \in Jobs : dedupeKey[i] = key /\ status[i] \in Active

\* createUnique(): ON CONFLICT DO NOTHING, so a taken key leaves no trace.
CreateUnique(j, key, d) ==
  /\ ~KeyTaken(key)
  /\ Insert(j, key, d)
  /\ UNCHANGED <<workerVars, faults>>

Runnable == {j \in Jobs : status[j] \in Pending /\ delay[j] = 0}

\* The UPDATE of claimNext, taking the lowest runnable id for w.
Claim(w, j) ==
  /\ j \in Runnable
  /\ \A i \in Runnable : j <= i
  /\ status' = [status EXCEPT ![j] = "running"]
  /\ attempts' = [attempts EXCEPT ![j] = @ + 1]
  /\ leaseOwner' = [leaseOwner EXCEPT ![j] = w]
  /\ leaseLeft' = [leaseLeft EXCEPT ![j] = LeaseTicks]
  /\ UNCHANGED <<delay, dedupeKey>>

\* Mutant: attempts <= max_attempts allows one attempt too many.
EndAttemptOffByOne(lost) ==
  /\ status' = [j \in Jobs |->
       IF j \notin lost THEN status[j]
       ELSE IF attempts[j] <= MaxAttempts THEN "retrying" ELSE "failed"]
  /\ leaseOwner' = [j \in Jobs |-> IF j \in lost THEN NoOwner ELSE leaseOwner[j]]
  /\ leaseLeft' = [j \in Jobs |-> IF j \in lost THEN 0 ELSE leaseLeft[j]]
  /\ UNCHANGED <<attempts, delay, dedupeKey>>

\* Ends the attempt of the jobs in lost, for a retry or for good.
EndAttempt(lost) ==
  /\ status' = [j \in Jobs |->
       IF j \notin lost THEN status[j]
       ELSE IF attempts[j] < MaxAttempts THEN "retrying" ELSE "failed"]
  /\ leaseOwner' = [j \in Jobs |-> IF j \in lost THEN NoOwner ELSE leaseOwner[j]]
  /\ leaseLeft' = [j \in Jobs |-> IF j \in lost THEN 0 ELSE leaseLeft[j]]
  /\ UNCHANGED <<attempts, delay, dedupeKey>>

\* Mutant: recovers every row without a live lease, finished ones too.
InterruptedAnyStatus == {j \in Jobs : leaseOwner[j] = NoOwner \/ leaseLeft[j] = 0}

Interrupted ==
  {j \in Jobs : status[j] = "running" /\ (leaseOwner[j] = NoOwner \/ leaseLeft[j] = 0)}

RecoverInterrupted == EndAttempt(Interrupted)

\* Mutant: any worker finishes a running job.
MayFinishAnyones(w, j) == status[j] = "running"

\* The WHERE clause of markSucceeded and markFailed.
MayFinish(w, j) == status[j] = "running" /\ leaseOwner[j] \in {NoOwner, w}

\* Mutant: the lease is left on the finished row.
SucceedKeepingLease(j) ==
  /\ status' = [status EXCEPT ![j] = "succeeded"]
  /\ UNCHANGED <<leaseOwner, leaseLeft, attempts, delay, dedupeKey>>

Succeed(j) ==
  /\ status' = [status EXCEPT ![j] = "succeeded"]
  /\ leaseOwner' = [leaseOwner EXCEPT ![j] = NoOwner]
  /\ leaseLeft' = [leaseLeft EXCEPT ![j] = 0]
  /\ UNCHANGED <<attempts, delay, dedupeKey>>

-----------------------------------------------------------------------------
(* One dispatcher                                                          *)

Goto(w, place) == pc' = [pc EXCEPT ![w] = place]

\* The job is no longer held: its run() is over.
LetGo(w, place) ==
  /\ Goto(w, place)
  /\ current' = [current EXCEPT ![w] = 0]
  /\ attempt' = [attempt EXCEPT ![w] = 0]

\* The condition of drain()'s loop is read right after the await before it: a stop()
\* during the claim that follows comes too late for that claim.
LoopTop(w) == IF life[w] = "up" THEN "claiming" ELSE "idle"

Fault == faults < MaxFaults /\ faults' = faults + 1

\* start() and resume(): the first recovery runs apart from the drains.
Start(w) ==
  /\ life[w] = "new"
  /\ life' = [life EXCEPT ![w] = "up"]
  /\ recovery' = [recovery EXCEPT ![w] = "pending"]
  /\ UNCHANGED <<jobVars, sinceRecovery, pc, current, attempt, faults>>

StartupRecovery(w) ==
  /\ Running(w) /\ recovery[w] = "pending"
  /\ RecoverInterrupted
  /\ recovery' = [recovery EXCEPT ![w] = "done"]
  /\ sinceRecovery' = [sinceRecovery EXCEPT ![w] = 0]
  /\ UNCHANGED <<life, pc, current, attempt, faults>>

\* A rejected promise stays rejected: resume() never starts another recovery.
\* The statement may have committed before its answer was lost.
StartupRecoveryFails(w) ==
  /\ StartupRecoveryMayFail
  /\ Running(w) /\ recovery[w] = "pending"
  /\ recovery' = [recovery EXCEPT ![w] = "rejected"]
  /\ Fault
  /\ UNCHANGED jobVars \/ RecoverInterrupted
  /\ UNCHANGED <<life, sinceRecovery, pc, current, attempt>>

\* The poll timer, the setImmediate it schedules and the start of drain().
Kick(w) ==
  /\ life[w] = "up" /\ pc[w] = "idle"
  /\ Goto(w, "draining")
  /\ UNCHANGED <<jobVars, life, recovery, sinceRecovery, current, attempt, faults>>

\* Mutant: jobs are recovered at startup only.
RecoveryNeverDue(w) == FALSE

\* drain() awaits the recovery promise, then recoverExpiredIfDue().
RecoveryDue(w) == sinceRecovery[w] >= HeartbeatTicks

\* Mutant: a drain that found stop() called waits for work to be accepted again.
DrainRecoversWhenUp(w) ==
  /\ life[w] = "up" /\ pc[w] = "draining" /\ recovery[w] = "done"
  /\ Goto(w, "claiming")
  /\ IF RecoveryDue(w)
     THEN /\ RecoverInterrupted
          /\ sinceRecovery' = [sinceRecovery EXCEPT ![w] = 0]
     ELSE UNCHANGED <<jobVars, sinceRecovery>>
  /\ UNCHANGED <<life, recovery, current, attempt, faults>>

DrainRecovers(w) ==
  /\ Running(w) /\ pc[w] = "draining" /\ recovery[w] = "done"
  /\ Goto(w, LoopTop(w))
  /\ IF RecoveryDue(w)
     THEN /\ RecoverInterrupted
          /\ sinceRecovery' = [sinceRecovery EXCEPT ![w] = 0]
     ELSE UNCHANGED <<jobVars, sinceRecovery>>
  /\ UNCHANGED <<life, recovery, current, attempt, faults>>

\* The await of a rejected recovery throws: this drain is over.
DrainRejected(w) ==
  /\ Running(w) /\ pc[w] = "draining" /\ recovery[w] = "rejected"
  /\ Goto(w, "idle")
  /\ UNCHANGED <<jobVars, life, recovery, sinceRecovery, current, attempt, faults>>

ClaimNext(w) ==
  /\ Running(w) /\ pc[w] = "claiming"
  /\ \E j \in Runnable :
       /\ Claim(w, j)
       /\ Goto(w, "handling")
       /\ current' = [current EXCEPT ![w] = j]
       /\ attempt' = [attempt EXCEPT ![w] = attempts[j] + 1]
  /\ UNCHANGED <<life, recovery, sinceRecovery, faults>>

\* claimNext finds no runnable job: the loop of drain() ends.
DrainEnds(w) ==
  /\ Running(w) /\ pc[w] = "claiming"
  /\ Runnable = {}
  /\ Goto(w, "idle")
  /\ UNCHANGED <<jobVars, life, recovery, sinceRecovery, current, attempt, faults>>

\* Mutant: a heartbeat that takes the lease back from whoever has it.
RenewLeaseTakingIt(w) ==
  /\ Running(w) /\ pc[w] \in Holding
  /\ status[current[w]] = "running"
  /\ leaseOwner' = [leaseOwner EXCEPT ![current[w]] = w]
  /\ leaseLeft' = [leaseLeft EXCEPT ![current[w]] = LeaseTicks]
  /\ UNCHANGED <<status, attempts, delay, dedupeKey, workerVars, faults>>

\* The heartbeat of run(): renewLease of the job it runs, which succeeds even
\* after the lease ran out as long as nobody recovered the job.
RenewLease(w) ==
  /\ Running(w) /\ pc[w] \in Holding
  /\ status[current[w]] = "running" /\ leaseOwner[current[w]] = w
  /\ leaseLeft' = [leaseLeft EXCEPT ![current[w]] = LeaseTicks]
  /\ UNCHANGED <<status, attempts, leaseOwner, delay, dedupeKey, workerVars, faults>>

HandlerReturns(w) ==
  /\ Running(w) /\ pc[w] = "handling"
  /\ Goto(w, "succeeding")
  /\ UNCHANGED <<jobVars, life, recovery, sinceRecovery, current, attempt, faults>>

HandlerThrows(w) ==
  /\ Running(w) /\ pc[w] = "handling"
  /\ Goto(w, "failing")
  /\ UNCHANGED <<jobVars, life, recovery, sinceRecovery, current, attempt, faults>>

MarkSucceeded(w) ==
  /\ Running(w) /\ pc[w] = "succeeding"
  /\ MayFinish(w, current[w])
  /\ Succeed(current[w])
  /\ LetGo(w, LoopTop(w))
  /\ UNCHANGED <<life, recovery, sinceRecovery, faults>>

\* The lease went to somebody else: markSucceeded throws into the catch.
MarkSucceededRefused(w) ==
  /\ Running(w) /\ pc[w] = "succeeding"
  /\ ~MayFinish(w, current[w])
  /\ Goto(w, "failing")
  /\ UNCHANGED <<jobVars, life, recovery, sinceRecovery, current, attempt, faults>>

MarkFailed(w) ==
  /\ Running(w) /\ pc[w] = "failing"
  /\ MayFinish(w, current[w])
  /\ EndAttempt({current[w]})
  /\ LetGo(w, LoopTop(w))
  /\ UNCHANGED <<life, recovery, sinceRecovery, faults>>

\* markFailed throws out of run() and ends the drain.
MarkFailedRefused(w) ==
  /\ Running(w) /\ pc[w] = "failing"
  /\ ~MayFinish(w, current[w])
  /\ LetGo(w, "idle")
  /\ UNCHANGED <<jobVars, life, recovery, sinceRecovery, faults>>

\* stop(): claims nothing more; it returns when the recovery and the drain ended.
Stop(w) ==
  /\ life[w] = "up"
  /\ \E v \in Workers \ {w} : life[v] \in {"new", "up"}
  /\ life' = [life EXCEPT ![w] = "stopping"]
  /\ UNCHANGED <<jobVars, recovery, sinceRecovery, pc, current, attempt, faults>>

StopReturns(w) ==
  /\ life[w] = "stopping" /\ pc[w] = "idle" /\ recovery[w] # "pending"
  /\ life' = [life EXCEPT ![w] = "stopped"]
  /\ UNCHANGED <<jobVars, recovery, sinceRecovery, pc, current, attempt, faults>>

-----------------------------------------------------------------------------
(* Faults and time                                                         *)

\* The deployment keeps a replica: the last worker that may still run stays.
Crash(w) ==
  /\ Running(w)
  /\ \E v \in Workers \ {w} : life[v] \in {"new", "up"}
  /\ Fault
  /\ life' = [life EXCEPT ![w] = "dead"]
  /\ LetGo(w, "idle")
  /\ UNCHANGED <<jobVars, recovery, sinceRecovery>>

\* drain() is about to call recoverInterrupted or claimNext.
CallsDatabase(w) ==
  \/ pc[w] = "draining" /\ recovery[w] = "done" /\ RecoveryDue(w)
  \/ pc[w] = "claiming"

\* A database call of the drain fails before it takes effect: recoverInterrupted,
\* claimNext and markFailed end the drain, markSucceeded goes to the catch.
CallFails(w) ==
  /\ Running(w)
  /\ Fault
  /\ \/ /\ CallsDatabase(w) \/ pc[w] = "failing"
        /\ LetGo(w, "idle")
     \/ /\ pc[w] = "succeeding"
        /\ Goto(w, "failing")
        /\ UNCHANGED <<current, attempt>>
  /\ UNCHANGED <<jobVars, life, recovery, sinceRecovery>>

\* The statement commits but its answer is lost.  A claimed job is then leased
\* to a worker that does not run it.
ReplyLost(w) ==
  /\ Running(w)
  /\ Fault
  /\ \/ /\ CallsDatabase(w)
        /\ IF pc[w] = "draining" THEN RecoverInterrupted ELSE \E j \in Runnable : Claim(w, j)
        /\ LetGo(w, "idle")
     \/ /\ pc[w] = "succeeding"
        /\ MayFinish(w, current[w])
        /\ Succeed(current[w])
        /\ Goto(w, "failing")
        /\ UNCHANGED <<current, attempt>>
     \/ /\ pc[w] = "failing"
        /\ MayFinish(w, current[w])
        /\ EndAttempt({current[w]})
        /\ LetGo(w, "idle")
  /\ UNCHANGED <<life, recovery, sinceRecovery>>

Less(n) == IF n = 0 THEN 0 ELSE n - 1

Tick ==
  /\ leaseLeft' = [j \in Jobs |-> Less(leaseLeft[j])]
  /\ delay' = [j \in Jobs |-> Less(delay[j])]
  /\ sinceRecovery' = [w \in Workers |->
       IF sinceRecovery[w] < HeartbeatTicks THEN sinceRecovery[w] + 1 ELSE HeartbeatTicks]
  /\ UNCHANGED <<status, attempts, leaseOwner, dedupeKey,
                 life, recovery, pc, current, attempt, faults>>

-----------------------------------------------------------------------------
Submission ==
  \E j \in Jobs, d \in 0 .. MaxDelay :
     Create(j, d) \/ \E key \in DedupeKeys : CreateUnique(j, key, d)

\* The steps an alive process takes by itself.
WorkerStep(w) ==
  \/ Start(w) \/ StartupRecovery(w) \/ Kick(w) \/ DrainRecovers(w) \/ DrainRejected(w)
  \/ ClaimNext(w) \/ DrainEnds(w)
  \/ MarkSucceeded(w) \/ MarkSucceededRefused(w)
  \/ MarkFailed(w) \/ MarkFailedRefused(w)
  \/ StopReturns(w)

HandlerStep(w) == HandlerReturns(w) \/ HandlerThrows(w)

FaultStep(w) == StartupRecoveryFails(w) \/ Crash(w) \/ CallFails(w) \/ ReplyLost(w)

Next ==
  \/ Submission
  \/ \E w \in Workers :
       WorkerStep(w) \/ HandlerStep(w) \/ RenewLease(w) \/ Stop(w) \/ FaultStep(w)
  \/ Tick

Spec == Init /\ [][Next]_vars

\* Timers fire, database calls are answered and handlers end.
Fairness ==
  /\ WF_vars(Tick)
  /\ \A w \in Workers : WF_vars(WorkerStep(w)) /\ WF_vars(HandlerStep(w))

FairSpec == Spec /\ Fairness
-----------------------------------------------------------------------------
(* Properties                                                              *)

\* A job is given up for good only after its last attempt, and every attempt a
\* claim or a recovery still allows is within max_attempts, whichever of
\* markFailed and recoverInterrupted ended the earlier ones.
AttemptsAccounted ==
  \A j \in Jobs :
    /\ status[j] \in Pending => attempts[j] < MaxAttempts
    /\ status[j] \in {"running", "succeeded"} => attempts[j] > 0
    /\ status[j] = "failed" => attempts[j] = MaxAttempts

\* A running row always names the worker it is leased to and no other row names
\* any: a crash at any point leaves a row that recovery finds by its lease.
LeaseMatchesStatus ==
  \A j \in Jobs :
    /\ leaseOwner[j] # NoOwner <=> status[j] = "running"
    /\ status[j] # "running" => leaseLeft[j] = 0

OwnerRunsLatestAttempt ==
  \A w \in Workers :
    pc[w] \in Holding /\ leaseOwner[current[w]] = w
      => attempt[w] = attempts[current[w]]

OneWorkerPerAttempt ==
  \A v, w \in Workers :
    /\ pc[v] \in Holding /\ pc[w] \in Holding
    /\ current[v] = current[w] /\ attempt[v] = attempt[w]
    => v = w

\* A worker that still owns the lease of the job it runs runs the latest attempt of it, and
\* no two workers ever run the same attempt: a lease that expired and was claimed again
\* is never taken for the old one, however late the first worker goes on.
AttemptsAreFenced == OwnerRunsLatestAttempt /\ OneWorkerPerAttempt

\* createUnique keeps at most one job per dedupe key queued, running or retrying,
\* through every retry and recovery of that job.
DedupeKeepsOneActive ==
  \A i, j \in Jobs :
    /\ status[i] \in Active /\ status[j] \in Active
    /\ dedupeKey[i] = dedupeKey[j] /\ dedupeKey[i] # NoKey
    => i = j

\* As long as a lease lasts only the worker that holds the job ends its attempt:
\* neither another worker's recovery nor a stale worker's late result does.
Reports(w, j) ==
  /\ pc[w] \in {"succeeding", "failing"} /\ pc'[w] # pc[w]
  /\ current[w] = j /\ leaseOwner[j] = w /\ attempt[w] = attempts[j]

LiveLeaseEndsByItsHolder ==
  [][\A j \in Jobs :
       status[j] = "running" /\ leaseLeft[j] > 0 /\ status'[j] # "running"
         => \E w \in Workers : Reports(w, j)]_vars

\* Nobody runs or revives a finished job, no attempt is skipped or repeated and a
\* job never leaves an attempt twice.
Lifecycle == INSTANCE JobLifecycle
ImplementsLifecycle == Lifecycle!Spec

\* Every job is finished in the end, whichever workers crash, stop or lose calls,
\* while one replica stays up.
EveryJobFinishes ==
  \A j \in Jobs : status[j] = "queued" ~> status[j] \in Terminal

\* stop() returns: the recovery settles and the drain in flight ends.
StopReturnsInTheEnd ==
  \A w \in Workers : life[w] = "stopping" ~> life[w] \in {"stopped", "dead"}

\* Surviving workers recover an expired lease while they poll: no job stays
\* leased to a worker that is gone.
ExpiredLeaseIsRecovered ==
  \A j \in Jobs :
    (status[j] = "running" /\ life[leaseOwner[j]] = "dead") ~> status[j] # "running"
=============================================================================
