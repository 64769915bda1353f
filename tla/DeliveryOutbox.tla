--------------------------- MODULE DeliveryOutbox ---------------------------
(***************************************************************************)
(* The two outboxes of the server, usage exports and account emails, and   *)
(* the dispatchers that deliver their rows: a row is claimed under a lease *)
(* of five minutes, sent to its receiver and marked.  Every process has    *)
(* one dispatcher per outbox (usageExportDispatcher.ts,                    *)
(* accountEmailDispatcher.ts), started and stopped by                      *)
(* OutboxDispatcherLifecycle.  A process may stall past the lease, stop or *)
(* die at any point; a receiver may refuse a request or accept it and      *)
(* never say so; database calls may fail before or after they took effect. *)
(*                                                                         *)
(* Time is one flag per row: has the time the row waits for (its lease,    *)
(* its next attempt) come?  The polling timer starts a drain at any time.  *)
(***************************************************************************)
EXTENDS Naturals, FiniteSets

CONSTANTS
  Processes,
  Exports,          \* ids of rows of usage_meter_exports
  Emails,           \* ids of rows of account_email_outbox
  MaxAttempts,      \* attempts after which an email is dead (8)
  MaxRefusals,      \* bound: requests refused, timed out or without a usable answer
  MaxFaults         \* bound: failed database calls, stalls, stops and crashes

Rows == Exports \cup Emails

ASSUME DeliveryOutboxAssumption ==
  /\ Rows \subseteq Nat \ {0} /\ IsFiniteSet(Rows)
  /\ Exports \cap Emails = {}
  /\ MaxAttempts \in Nat \ {0}
  /\ MaxRefusals \in Nat
  /\ MaxFaults \in Nat

VARIABLES
  status,           \* the status column; "absent" before the insert
  attempts,         \* the attempts column
  dead,             \* dead_lettered_at is set
  ripe,             \* has the lease or the wait for the next attempt of the row passed?
  shown,            \* last_provider_status of an email
  report,           \* the provider's report on an email: outbox_id is set or null
  process,          \* per process: the life of its dispatchers
  drain,            \* per process and outbox: the place of processBatch and its variables
  accepted,         \* how often the receiver accepted the row
  overrun,          \* rows that were held past their lease
  refusals, faults

rowVars == <<status, attempts, dead, ripe>>
providerVars == <<shown, report>>
faultVars == <<refusals, faults>>
vars == <<rowVars, providerVars, process, drain, accepted, overrun, faultVars>>

Outboxes == {"usage", "email"}
RowsOf(o) == IF o = "usage" THEN Exports ELSE Emails

Waiting == {"pending", "failed"}
Statuses == {"absent", "delivering", "delivered", "superseded"} \cup Waiting

NoRow == 0
Idle == [place |-> "idle", row |-> NoRow, attempt |-> 0, permanent |-> FALSE]
Holding == {"send", "sent", "fail"}

TypeOK ==
  /\ status \in [Rows -> Statuses]
  /\ attempts \in [Rows -> Nat]
  /\ dead \in [Rows -> BOOLEAN]
  /\ ripe \in [Rows -> BOOLEAN]
  /\ shown \in [Emails -> {"none", "accepted", "reported"}]
  /\ report \in [Emails -> {"none", "unmatched", "matched"}]
  /\ process \in [Processes -> {"running", "stopping", "rejected", "down"}]
  /\ drain \in [Processes \X Outboxes ->
       [place : {"idle"} \cup Holding, row : Rows \cup {NoRow},
        attempt : Nat, permanent : BOOLEAN]]
  /\ accepted \in [Rows -> Nat]
  /\ overrun \subseteq Rows
  /\ refusals \in 0 .. MaxRefusals
  /\ faults \in 0 .. MaxFaults

Init ==
  /\ status = [r \in Rows |-> "absent"]
  /\ attempts = [r \in Rows |-> 0]
  /\ dead = [r \in Rows |-> FALSE]
  /\ ripe = [r \in Rows |-> FALSE]
  /\ shown = [e \in Emails |-> "none"]
  /\ report = [e \in Emails |-> "none"]
  /\ process = [p \in Processes |-> "running"]
  /\ drain = [d \in Processes \X Outboxes |-> Idle]
  /\ accepted = [r \in Rows |-> 0]
  /\ overrun = {}
  /\ refusals = 0 /\ faults = 0

Fault == faults < MaxFaults /\ faults' = faults + 1 /\ UNCHANGED refusals

IsAt(d, place) == drain[d].place = place
Row(d) == drain[d].row
Goto(d, place) == drain' = [drain EXCEPT ![d].place = place]
EndDrain(d) == drain' = [drain EXCEPT ![d] = Idle]

\* Processes that hold a row: they claimed it and have not yet marked it.
Holders(r) == {d \in Processes \X Outboxes : drain[d].place \in Holding /\ Row(d) = r}

-----------------------------------------------------------------------------
(* The rows                                                                *)

\* The trigger on rated_usage_events, and enqueue(): ids grow with the inserts.
Enqueue(r) ==
  /\ status[r] = "absent"
  /\ \A q \in Rows : q < r /\ (q \in Exports <=> r \in Exports) => status[q] # "absent"
  /\ status' = [status EXCEPT ![r] = "pending"]
  /\ ripe' = [ripe EXCEPT ![r] = TRUE]
  /\ UNCHANGED <<attempts, dead, providerVars, process, drain, accepted, overrun, faultVars>>

\* A newer verification or reset (supersedePending) does not touch an email that is being
\* delivered; a newer, revoked or accepted invitation and the erasure of the account do.
Supersede(e) ==
  /\ status[e] \in Waiting \cup {"delivering"}
  /\ status' = [status EXCEPT ![e] = "superseded"]
  /\ UNCHANGED <<attempts, dead, ripe, providerVars, process, drain, accepted, overrun, faultVars>>

\* The five minutes of a lease or the wait for the next attempt are over.  Requests end
\* after ten seconds: a process that still holds the row then has stalled.
TimePasses(r) ==
  /\ status[r] \in {"delivering", "failed"} /\ ~ripe[r]
  /\ ripe' = [ripe EXCEPT ![r] = TRUE]
  /\ IF Holders(r) = {} THEN UNCHANGED <<overrun, faultVars>>
                        ELSE Fault /\ overrun' = overrun \cup {r}
  /\ UNCHANGED <<status, attempts, dead, providerVars, process, drain, accepted>>

\* Mutant: expired leases are not recovered.
ClaimableWaiting(o) == {r \in RowsOf(o) : status[r] \in Waiting /\ ripe[r] /\ ~dead[r]}

\* Mutant: the time of a lease is not looked at.
ClaimableAnyTime(o) ==
  {r \in RowsOf(o) : status[r] \in Waiting \cup {"delivering"} /\ ~dead[r]}

Claimable(o) ==
  {r \in RowsOf(o) : /\ status[r] \in Waiting \cup {"delivering"}
                     /\ ripe[r] /\ ~dead[r]}

\* claimNext: in one transaction, deliveries whose lease expired fail and are due at once,
\* then the first row that is due is claimed.
Claim(o, r) ==
  /\ r \in Claimable(o)
  /\ \A q \in Claimable(o) : r <= q
  /\ status' = [q \in Rows |->
       IF q = r THEN "delivering"
       ELSE IF q \in RowsOf(o) /\ status[q] = "delivering" /\ ripe[q] THEN "failed"
       ELSE status[q]]
  /\ attempts' = [attempts EXCEPT ![r] = @ + 1]
  /\ ripe' = [ripe EXCEPT ![r] = FALSE]
  /\ UNCHANGED dead

Delivered(r) ==
  /\ status' = [status EXCEPT ![r] = "delivered"]
  /\ shown' = [e \in Emails |-> IF e = r THEN "accepted" ELSE shown[e]]
  /\ UNCHANGED <<attempts, dead, ripe, report>>

\* Mutant: a dead email gets a status of its own, which the table does not allow.
FailedDead(r, attempt, permanent) ==
  /\ dead' = [dead EXCEPT ![r] = r \in Emails /\ (permanent \/ attempt >= MaxAttempts)]
  /\ status' = [status EXCEPT ![r] = IF dead'[r] THEN "dead" ELSE "failed"]
  /\ ripe' = [ripe EXCEPT ![r] = FALSE]
  /\ UNCHANGED <<attempts, providerVars>>

\* An email is dead after a permanent failure or its last attempt; an export never is.
Failed(r, attempt, permanent) ==
  /\ status' = [status EXCEPT ![r] = "failed"]
  /\ dead' = [dead EXCEPT ![r] = r \in Emails /\ (permanent \/ attempt >= MaxAttempts)]
  /\ ripe' = [ripe EXCEPT ![r] = FALSE]
  /\ UNCHANGED <<attempts, providerVars>>

\* The provider's webhook (recordProviderEvent): a delivery or a bounce, which may arrive
\* before markDelivered has stored the message's id, and arrives again after an error.
Report(e) ==
  /\ accepted[e] > 0 /\ report[e] = "none"
  /\ IF shown[e] # "none"
     THEN /\ report' = [report EXCEPT ![e] = "matched"]
          /\ shown' = [shown EXCEPT ![e] = "reported"]
     ELSE /\ report' = [report EXCEPT ![e] = "unmatched"]
          /\ UNCHANGED shown
  /\ UNCHANGED <<rowVars, process, drain, accepted, overrun, faultVars>>

-----------------------------------------------------------------------------
(* A dispatcher d = <<process, outbox>>                                    *)

\* kick() by the poll timer, an insert or the retry timer starts processBatch, which claims
\* the next row as long as one is due; the guarded store of a process that is stopping
\* returns none.
ClaimNext(d) ==
  /\ IsAt(d, "idle") /\ process[d[1]] = "running"
  /\ \E r \in RowsOf(d[2]) :
       /\ Claim(d[2], r)
       /\ drain' = [drain EXCEPT ![d] = [place |-> "send", row |-> r,
                                         attempt |-> attempts[r] + 1, permanent |-> FALSE]]
  /\ UNCHANGED <<providerVars, process, accepted, overrun, faultVars>>

Accept(d) == accepted' = [accepted EXCEPT ![Row(d)] = @ + 1]

Send(d) ==
  /\ IsAt(d, "send")
  /\ Accept(d)
  /\ Goto(d, "sent")
  /\ UNCHANGED <<rowVars, providerVars, process, overrun, faultVars>>

\* The request is refused, times out or fails on the way, or its answer is unusable.
SendFails(d) ==
  /\ IsAt(d, "send")
  /\ refusals < MaxRefusals /\ refusals' = refusals + 1
  /\ Accept(d) \/ UNCHANGED accepted
  /\ \E permanent \in BOOLEAN :
       drain' = [drain EXCEPT ![d].place = "fail", ![d].permanent = permanent]
  /\ UNCHANGED <<rowVars, providerVars, process, overrun, faults>>

\* Mutant: the update does not ask whether the row is still being delivered.
MarkDeliveredAlways(d) ==
  /\ IsAt(d, "sent")
  /\ Delivered(Row(d)) /\ EndDrain(d)
  /\ UNCHANGED <<process, accepted, overrun, faultVars>>

\* markDelivered: a row that is no longer being delivered stays as it is, which the email
\* outbox treats as a failure of the delivery.
MarkDelivered(d) ==
  /\ IsAt(d, "sent")
  /\ \/ status[Row(d)] = "delivering" /\ Delivered(Row(d)) /\ EndDrain(d)
     \/ /\ status[Row(d)] # "delivering"
        /\ IF d[2] = "usage" THEN EndDrain(d) ELSE Goto(d, "fail")
        /\ UNCHANGED <<rowVars, providerVars>>
  /\ UNCHANGED <<process, accepted, overrun, faultVars>>

\* The drain rejects; stop(), which awaits both drains, then rejects at once.
Reject(d) ==
  /\ EndDrain(d)
  /\ process' = [process EXCEPT ![d[1]] = IF @ = "stopping" THEN "rejected" ELSE @]

\* Mutant: a failed attempt is not checked against the maximum.
MarkFailedForever(d) ==
  /\ IsAt(d, "fail")
  /\ \/ /\ status[Row(d)] = "delivering"
        /\ Failed(Row(d), 0, drain[d].permanent)
        /\ EndDrain(d) /\ UNCHANGED process
     \/ /\ status[Row(d)] # "delivering"
        /\ IF d[2] = "usage" THEN EndDrain(d) /\ UNCHANGED process ELSE Reject(d)
        /\ UNCHANGED <<rowVars, providerVars>>
  /\ UNCHANGED <<accepted, overrun, faultVars>>

\* Mutant: the failure of a delivery is written whatever became of the row.
MarkFailedAlways(d) ==
  /\ IsAt(d, "fail")
  /\ Failed(Row(d), drain[d].attempt, drain[d].permanent)
  /\ EndDrain(d)
  /\ UNCHANGED <<process, accepted, overrun, faultVars>>

MarkFailed(d) ==
  /\ IsAt(d, "fail")
  /\ \/ /\ status[Row(d)] = "delivering"
        /\ Failed(Row(d), drain[d].attempt, drain[d].permanent)
        /\ EndDrain(d) /\ UNCHANGED process
     \/ /\ status[Row(d)] # "delivering"
        /\ IF d[2] = "usage" THEN EndDrain(d) /\ UNCHANGED process ELSE Reject(d)
        /\ UNCHANGED <<rowVars, providerVars>>
  /\ UNCHANGED <<accepted, overrun, faultVars>>

-----------------------------------------------------------------------------
(* Faults and the life of a process                                        *)

\* What the call awaited at a place may have committed although it throws.
Committed(d) ==
  \/ /\ IsAt(d, "idle") /\ process[d[1]] = "running"
     /\ \E r \in RowsOf(d[2]) : Claim(d[2], r)
     /\ UNCHANGED providerVars
  \/ IsAt(d, "sent") /\ status[Row(d)] = "delivering" /\ Delivered(Row(d))
  \/ /\ IsAt(d, "fail") /\ status[Row(d)] = "delivering"
     /\ Failed(Row(d), drain[d].attempt, drain[d].permanent)

CallFails(d) ==
  /\ Fault
  /\ UNCHANGED <<rowVars, providerVars>> \/ Committed(d)
  /\ \/ IsAt(d, "sent") /\ Goto(d, "fail") /\ UNCHANGED process
     \/ IsAt(d, "idle") /\ process[d[1]] = "running" /\ Reject(d)
     \/ IsAt(d, "fail") /\ Reject(d)
  /\ UNCHANGED <<accepted, overrun>>

\* Whatever its drains were doing ends; a request on its way may still be accepted.
Vanish(p) ==
  /\ process' = [process EXCEPT ![p] = "down"]
  /\ drain' = [d \in Processes \X Outboxes |-> IF d[1] = p THEN Idle ELSE drain[d]]
  /\ \E arrived \in SUBSET {d \in Processes \X Outboxes : d[1] = p /\ IsAt(d, "send")} :
       accepted' = [r \in Rows |->
         accepted[r] + IF \E d \in arrived : Row(d) = r THEN 1 ELSE 0]
  /\ UNCHANGED <<rowVars, providerVars, overrun>>

Crash(p) ==
  /\ process[p] # "down"
  /\ Fault
  /\ Vanish(p)

Stop(p) ==
  /\ process[p] = "running"
  /\ Fault
  /\ process' = [process EXCEPT ![p] = "stopping"]
  /\ UNCHANGED <<rowVars, providerVars, drain, accepted, overrun>>

\* closeApp goes on when both drains are idle, or at once when one has rejected, and the
\* database is closed.
Close(p) ==
  /\ \/ process[p] = "rejected"
     \/ process[p] = "stopping" /\ \A o \in Outboxes : IsAt(<<p, o>>, "idle")
  /\ Vanish(p)
  /\ UNCHANGED faultVars

Restart(p) ==
  /\ process[p] = "down"
  /\ process' = [process EXCEPT ![p] = "running"]
  /\ UNCHANGED <<rowVars, providerVars, drain, accepted, overrun, faultVars>>

-----------------------------------------------------------------------------
Dispatch(d) ==
  ClaimNext(d) \/ Send(d) \/ MarkDelivered(d) \/ MarkFailed(d)

Next ==
  \/ \E r \in Rows : Enqueue(r) \/ TimePasses(r)
  \/ \E e \in Emails : Supersede(e) \/ Report(e)
  \/ \E d \in Processes \X Outboxes : Dispatch(d) \/ SendFails(d) \/ CallFails(d)
  \/ \E p \in Processes : Crash(p) \/ Stop(p) \/ Close(p) \/ Restart(p)

Spec == Init /\ [][Next]_vars

\* The poll timer kicks every dispatcher each second and requests time out, leases and
\* waits come to an end, and a server that is down is started again.
FairSpec ==
  /\ Spec
  /\ \A d \in Processes \X Outboxes : WF_vars(Dispatch(d))
  /\ \A r \in Rows : WF_vars(TimePasses(r))
  /\ \A p \in Processes : WF_vars(Close(p)) /\ WF_vars(Restart(p))

-----------------------------------------------------------------------------
(* Properties                                                              *)

\* Delivered and superseded rows are final, and a dead email is not claimed again, whatever
\* stalled dispatchers still report about them (markDelivered, markFailed).
FinalIsFinal ==
  [][\A r \in Rows :
       /\ status[r] \in {"delivered", "superseded"} => status'[r] = status[r]
       /\ dead[r] => dead'[r] /\ attempts'[r] = attempts[r]]_vars

\* To whoever submits a row an export is due until it is delivered, an email until it is
\* delivered, superseded or dead, and neither is due again after that: dispatchers, leases
\* and retries do not show.
Outcome(r) ==
  CASE status[r] \in {"absent", "delivered", "superseded"} -> status[r]
    [] status[r] \in Waiting \cup {"delivering"} -> IF dead[r] THEN "dead" ELSE "due"

Delivery == INSTANCE MessageDelivery
  WITH Messages <- Rows, Droppable <- Emails, outcome <- [r \in Rows |-> Outcome(r)]
\* What is delivered was accepted first, an export is due until then, and what is settled is
\* never due again, although dispatchers stall, stop, die and never hear of an acceptance.
ImplementsDelivery == Delivery!Spec

\* Two dispatchers deliver a row at the same time only if one of them outlived its lease.
ExclusiveDelivery == \A r \in Rows \ overrun : Cardinality(Holders(r)) <= 1

\* A delivered row was accepted by its receiver, once if nothing failed, and what the
\* provider reported on an email is not overwritten by a late acceptance.
DeliveryEvidence ==
  /\ \A r \in Rows : status[r] = "delivered" => accepted[r] > 0
  /\ \A r \in Rows : refusals + faults = 0 => accepted[r] <= 1
  /\ \A e \in Emails : report[e] = "matched" => shown[e] = "reported"

\* An email is tried more than MaxAttempts times only if faults took as many attempts away
\* without an outcome: expired leases are not counted as failures.
AttemptsBounded == \A e \in Emails : attempts[e] <= MaxAttempts + faults

\* As long as faults end, every row is delivered in the end, or superseded or dead if it is
\* an email: no crash, stop or lost call leaves it 'delivering' for good.
EventuallySettled ==
  \A r \in Rows :
    status[r] # "absent" ~>
      \/ status[r] = "delivered"
      \/ r \in Emails /\ (status[r] = "superseded" \/ dead[r])
=============================================================================
