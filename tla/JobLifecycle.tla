---------------------------- MODULE JobLifecycle ----------------------------
(***************************************************************************)
(* What the durable job queue promises about one job, whoever runs it and  *)
(* whatever crashes: it is attempted at most MaxAttempts times, an attempt *)
(* ends in success, in a retry while attempts are left or in failure, and  *)
(* a finished job never moves again.  JobQueue implements this module.     *)
(***************************************************************************)
EXTENDS Naturals

CONSTANTS Jobs,         \* the job ids
          MaxAttempts   \* the max_attempts column of every job

VARIABLES status, attempts

vars == <<status, attempts>>

Pending == {"queued", "retrying"}
Terminal == {"succeeded", "failed"}

Init ==
  /\ status = [j \in Jobs |-> "absent"]
  /\ attempts = [j \in Jobs |-> 0]

Submit(j) ==
  /\ status[j] = "absent"
  /\ status' = [status EXCEPT ![j] = "queued"]
  /\ UNCHANGED attempts

Attempt(j) ==
  /\ status[j] \in Pending
  /\ attempts[j] < MaxAttempts
  /\ status' = [status EXCEPT ![j] = "running"]
  /\ attempts' = [attempts EXCEPT ![j] = @ + 1]

Succeed(j) ==
  /\ status[j] = "running"
  /\ status' = [status EXCEPT ![j] = "succeeded"]
  /\ UNCHANGED attempts

\* Some running jobs lose their attempt at once: one that failed, or all the
\* jobs whose lease a recovery found expired.
GiveUp(lost) ==
  /\ \A j \in lost : status[j] = "running"
  /\ status' = [j \in Jobs |->
       IF j \notin lost THEN status[j]
       ELSE IF attempts[j] < MaxAttempts THEN "retrying" ELSE "failed"]
  /\ UNCHANGED attempts

Next ==
  \/ \E j \in Jobs : Submit(j) \/ Attempt(j) \/ Succeed(j)
  \/ \E lost \in SUBSET Jobs : GiveUp(lost)

Spec == Init /\ [][Next]_vars
=============================================================================
