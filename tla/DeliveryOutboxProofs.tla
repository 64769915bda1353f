------------------------ MODULE DeliveryOutboxProofs ------------------------
(***************************************************************************)
(* What the outboxes promise about a row, for every number of processes,   *)
(* rows, refusals and faults.  The inductive invariant adds to the checked *)
(* ones that a dispatcher holds an inserted row in a counted attempt       *)
(* (HoldersInv), that a row is acknowledged only after its receiver took   *)
(* it (AcceptedFirst), that one dispatcher holds a row whose lease is      *)
(* fresh (HeldOnce), what holds before the first failure (CalmInv), and    *)
(* that the counted attempts which reported a failure are bounded          *)
(* (AttemptsTold).                                                         *)
(***************************************************************************)
EXTENDS DeliveryOutbox, FiniteSetTheorems, TLAPS

Drains == Processes \X Outboxes

Holds(d, r) == drain[d].place \in Holding /\ drain[d].row = r

\* A dispatcher holds a row of its outbox that was inserted, in an attempt that was counted.
HoldersInv ==
  \A d \in Drains : drain[d].place \in Holding =>
    /\ drain[d].row \in RowsOf(d[2])
    /\ status[drain[d].row] # "absent"
    /\ drain[d].attempt \in 1 .. attempts[drain[d].row]

Base == TypeOK /\ HoldersInv

LEMMA RowsOfOutbox ==
  ASSUME NEW d \in Drains
  PROVE  /\ d[1] \in Processes /\ d[2] \in Outboxes
         /\ RowsOf(d[2]) \subseteq Rows
         /\ d[2] # "usage" => d[2] = "email" /\ RowsOf(d[2]) = Emails
BY DEF Drains, Outboxes, RowsOf, Rows

LEMMA FaultType ==
  ASSUME TypeOK, Fault
  PROVE  /\ refusals' \in 0 .. MaxRefusals /\ faults' \in 0 .. MaxFaults
         /\ refusals' = refusals /\ faults' = faults + 1
BY DeliveryOutboxAssumption DEF TypeOK, Fault

\* The ways the rows change: columns keep their types, ids stay inserted, counts grow.
RowsKeepTypes ==
  /\ status' \in [Rows -> Statuses]
  /\ attempts' \in [Rows -> Nat]
  /\ dead' \in [Rows -> BOOLEAN]
  /\ ripe' \in [Rows -> BOOLEAN]
  /\ shown' \in [Emails -> {"none", "accepted", "reported"}]
  /\ report' \in [Emails -> {"none", "unmatched", "matched"}]
  /\ \A r \in Rows : status[r] # "absent" => status'[r] # "absent"
  /\ \A r \in Rows : attempts[r] <= attempts'[r]

LEMMA ClaimTypes ==
  ASSUME TypeOK, NEW o \in Outboxes, NEW r \in RowsOf(o), Claim(o, r), UNCHANGED providerVars
  PROVE  /\ RowsKeepTypes
         /\ status'[r] = "delivering" /\ attempts'[r] = attempts[r] + 1 /\ r \in Rows
<1>1. r \in Rows
  BY DEF RowsOf, Rows, Outboxes
<1>2. \A q \in Rows : status'[q] \in {"delivering", "failed", status[q]}
  BY DEF Claim
<1>3. \A q \in Rows : status[q] \in Statuses
  BY DEF TypeOK
<1>4. DOMAIN status' = Rows /\ status' = [q \in Rows |-> status'[q]]
  BY DEF Claim
<1>5. status' \in [Rows -> Statuses] /\ \A q \in Rows : status[q] # "absent" => status'[q] # "absent"
  BY <1>2, <1>3, <1>4 DEF Statuses, Waiting
<1>6. status'[r] = "delivering" /\ attempts'[r] = attempts[r] + 1
  BY <1>1 DEF Claim, TypeOK
<1>7. QED
  BY <1>1, <1>5, <1>6 DEF RowsKeepTypes, TypeOK, Claim, providerVars

LEMMA DeliveredTypes ==
  ASSUME TypeOK, NEW r \in Rows, Delivered(r)
  PROVE  RowsKeepTypes /\ status'[r] = "delivered"
BY DEF RowsKeepTypes, TypeOK, Delivered, Statuses

LEMMA FailedTypes ==
  ASSUME TypeOK, NEW r \in Rows, NEW n, NEW x \in BOOLEAN, Failed(r, n, x)
  PROVE  RowsKeepTypes /\ status'[r] = "failed"
BY DEF RowsKeepTypes, TypeOK, Failed, Statuses, Waiting, providerVars

LEMMA SameTypes ==
  ASSUME TypeOK, UNCHANGED <<rowVars, providerVars>>
  PROVE  RowsKeepTypes
BY DEF RowsKeepTypes, TypeOK, rowVars, providerVars

LEMMA CommittedTypes ==
  ASSUME Base, NEW d \in Drains, Committed(d)
  PROVE  RowsKeepTypes
<1>1. CASE \E r \in RowsOf(d[2]) : Claim(d[2], r) /\ UNCHANGED providerVars
  BY <1>1, ClaimTypes, RowsOfOutbox DEF Base
<1>2. CASE IsAt(d, "sent") /\ Delivered(Row(d))
  BY <1>2, DeliveredTypes, RowsOfOutbox DEF Base, HoldersInv, Holding, IsAt, Row
<1>3. CASE IsAt(d, "fail") /\ Failed(Row(d), drain[d].attempt, drain[d].permanent)
  <2>1. drain[d].permanent \in BOOLEAN
    BY DEF Base, TypeOK, Drains
  <2>2. QED
    BY <1>3, <2>1, FailedTypes, RowsOfOutbox DEF Base, HoldersInv, Holding, IsAt, Row
<1>4. QED
  BY <1>1, <1>2, <1>3 DEF Committed

\* What drains do: each stays as it is, goes on with its row, or ends, unless it claims.
DrainsGoOn ==
  /\ drain' \in [Drains -> [place : {"idle"} \cup Holding, row : Rows \cup {NoRow},
                            attempt : Nat, permanent : BOOLEAN]]
  /\ \A d \in Drains : drain'[d].place \in Holding =>
       /\ drain[d].place \in Holding
       /\ drain'[d].row = drain[d].row /\ drain'[d].attempt = drain[d].attempt

LEMMA GoingOn ==
  ASSUME TypeOK, NEW d \in Drains, drain[d].place \in Holding, NEW x \in {"idle"} \cup Holding,
         Goto(d, x)
  PROVE  DrainsGoOn
<1>1. drain' = [drain EXCEPT ![d] = [@ EXCEPT !.place = x]]
  BY DEF Goto
<1>2. drain[d] \in [place : {"idle"} \cup Holding, row : Rows \cup {NoRow},
                    attempt : Nat, permanent : BOOLEAN]
  BY DEF TypeOK, Drains
<1>3. drain' \in [Drains -> [place : {"idle"} \cup Holding, row : Rows \cup {NoRow},
                             attempt : Nat, permanent : BOOLEAN]]
  BY <1>1, <1>2 DEF TypeOK, Drains
<1>4. \A k \in Drains : drain'[k].row = drain[k].row /\ drain'[k].attempt = drain[k].attempt
                        /\ (k # d => drain'[k] = drain[k])
  BY <1>1, <1>2 DEF TypeOK, Drains
<1>5. QED
  BY <1>3, <1>4 DEF DrainsGoOn

LEMMA Ending ==
  ASSUME TypeOK, NEW d \in Drains, EndDrain(d)
  PROVE  DrainsGoOn
BY DEF TypeOK, Drains, EndDrain, DrainsGoOn, Idle, Holding

LEMMA Vanishing ==
  ASSUME TypeOK, NEW p \in Processes, Vanish(p)
  PROVE  DrainsGoOn
BY DEF TypeOK, Drains, Vanish, DrainsGoOn, Idle, Holding

LEMMA GoneOn ==
  ASSUME Base, RowsKeepTypes, DrainsGoOn
  PROVE  HoldersInv'
<1> SUFFICES ASSUME NEW d \in Drains, drain'[d].place \in Holding
             PROVE  /\ drain'[d].row \in RowsOf(d[2])
                    /\ status'[drain'[d].row] # "absent"
                    /\ drain'[d].attempt \in 1 .. attempts'[drain'[d].row]
  BY DEF HoldersInv
<1>1. /\ drain[d].row \in RowsOf(d[2]) /\ status[drain[d].row] # "absent"
      /\ drain[d].attempt \in 1 .. attempts[drain[d].row]
      /\ drain'[d].row = drain[d].row /\ drain'[d].attempt = drain[d].attempt
  BY DEF DrainsGoOn, Base, HoldersInv
<1>2. drain[d].row \in Rows
  BY <1>1, RowsOfOutbox
<1>3. QED
  BY <1>1, <1>2 DEF RowsKeepTypes, Base, TypeOK

-----------------------------------------------------------------------------
(* Types, and what a dispatcher holds                                      *)

OthersType ==
  /\ process \in [Processes -> {"running", "stopping", "rejected", "down"}]
  /\ accepted \in [Rows -> Nat]
  /\ overrun \subseteq Rows
  /\ refusals \in 0 .. MaxRefusals
  /\ faults \in 0 .. MaxFaults

LEMMA BaseKept ==
  ASSUME Base, RowsKeepTypes, DrainsGoOn, OthersType'
  PROVE  Base'
<1>1. HoldersInv'
  BY GoneOn
<1>2. TypeOK'
  BY DEF TypeOK, RowsKeepTypes, DrainsGoOn, Drains, OthersType
<1>3. QED
  BY <1>1, <1>2 DEF Base

LEMMA DrainsSame ==
  ASSUME TypeOK, drain' = drain
  PROVE  DrainsGoOn
BY DEF TypeOK, DrainsGoOn, Drains

LEMMA RowStepBase ==
  ASSUME Base, NEW r \in Rows, Enqueue(r) \/ TimePasses(r) \/ (r \in Emails /\ Supersede(r))
  PROVE  Base'
<1>1. RowsKeepTypes
  <2>1. CASE Enqueue(r)
    BY <2>1 DEF Enqueue, Base, TypeOK, RowsKeepTypes, providerVars, Statuses, Waiting
  <2>2. CASE TimePasses(r)
    BY <2>2 DEF TimePasses, Base, TypeOK, RowsKeepTypes, providerVars
  <2>3. CASE Supersede(r)
    BY <2>3 DEF Supersede, Base, TypeOK, RowsKeepTypes, providerVars, Statuses
  <2>4. QED
    BY <2>1, <2>2, <2>3
<1>2. DrainsGoOn
  BY DrainsSame DEF Base, Enqueue, TimePasses, Supersede
<1>3. OthersType'
  <2>1. CASE UNCHANGED <<process, accepted, overrun, faultVars>>
    BY <2>1 DEF Base, TypeOK, OthersType, faultVars
  <2>2. CASE UNCHANGED <<process, accepted>> /\ Fault /\ overrun' = overrun \cup {r}
    BY <2>2, FaultType DEF Base, TypeOK, OthersType
  <2>3. QED
    BY <2>1, <2>2 DEF Enqueue, TimePasses, Supersede
<1>4. QED
  BY <1>1, <1>2, <1>3, BaseKept

LEMMA ReportBase ==
  ASSUME Base, NEW e \in Emails, Report(e)
  PROVE  Base'
<1>1. RowsKeepTypes
  BY DEF Report, Base, TypeOK, RowsKeepTypes, rowVars
<1>2. DrainsGoOn
  BY DrainsSame DEF Base, Report
<1>3. OthersType'
  BY DEF Report, Base, TypeOK, OthersType, faultVars
<1>4. QED
  BY <1>1, <1>2, <1>3, BaseKept

LEMMA ClaimNextBase ==
  ASSUME Base, NEW d \in Drains, ClaimNext(d)
  PROVE  Base'
<1>1. PICK r \in RowsOf(d[2]) :
        /\ Claim(d[2], r)
        /\ drain' = [drain EXCEPT ![d] = [place |-> "send", row |-> r,
                                          attempt |-> attempts[r] + 1, permanent |-> FALSE]]
  BY DEF ClaimNext
<1>2. RowsKeepTypes /\ status'[r] = "delivering" /\ attempts'[r] = attempts[r] + 1 /\ r \in Rows
  BY <1>1, ClaimTypes, RowsOfOutbox DEF Base, ClaimNext
<1>3. attempts[r] \in Nat
  BY <1>2 DEF Base, TypeOK
<1>4. drain'[d].row = r /\ drain'[d].attempt = attempts[r] + 1
      /\ \A k \in Drains \ {d} : drain'[k] = drain[k]
  BY <1>1 DEF Base, TypeOK, Drains
<1>5. drain' \in [Processes \X Outboxes ->
        [place : {"idle"} \cup Holding, row : Rows \cup {NoRow},
         attempt : Nat, permanent : BOOLEAN]]
  BY <1>1, <1>2, <1>3 DEF Base, TypeOK, Drains, Holding
<1>6. TypeOK'
  BY <1>2, <1>5 DEF Base, TypeOK, RowsKeepTypes, ClaimNext, faultVars
<1>7. HoldersInv'
  <2> SUFFICES ASSUME NEW k \in Drains, drain'[k].place \in Holding
               PROVE  /\ drain'[k].row \in RowsOf(k[2])
                      /\ status'[drain'[k].row] # "absent"
                      /\ drain'[k].attempt \in 1 .. attempts'[drain'[k].row]
    BY DEF HoldersInv
  <2>1. CASE k = d
    BY <1>2, <1>3, <1>4, <2>1
  <2>2. CASE k # d
    <3>1. /\ drain[k].row \in RowsOf(k[2]) /\ status[drain[k].row] # "absent"
          /\ drain[k].attempt \in 1 .. attempts[drain[k].row]
      BY <1>4, <2>2 DEF Base, HoldersInv
    <3>2. drain[k].row \in Rows
      BY <3>1, RowsOfOutbox
    <3>3. QED
      BY <1>2, <1>4, <2>2, <3>1, <3>2 DEF RowsKeepTypes, Base, TypeOK
  <2>3. QED
    BY <2>1, <2>2
<1>8. QED
  BY <1>6, <1>7 DEF Base

LEMMA HeldRow ==
  ASSUME Base, NEW d \in Drains, drain[d].place \in Holding
  PROVE  Row(d) \in Rows
BY RowsOfOutbox DEF Base, HoldersInv, Row

LEMMA SendBase ==
  ASSUME Base, NEW d \in Drains, Send(d) \/ SendFails(d)
  PROVE  Base'
<1>1. drain[d].place \in Holding /\ Row(d) \in Rows
  BY HeldRow DEF Send, SendFails, IsAt, Holding
<1>2. RowsKeepTypes
  BY SameTypes DEF Send, SendFails, Base
<1>3. OthersType'
  <2>1. accepted' \in [Rows -> Nat]
    BY <1>1 DEF Send, SendFails, Accept, Base, TypeOK
  <2>2. refusals' \in 0 .. MaxRefusals
    BY DeliveryOutboxAssumption DEF Send, SendFails, Base, TypeOK, faultVars
  <2>3. QED
    BY <2>1, <2>2 DEF Send, SendFails, Base, TypeOK, OthersType, faultVars
<1>4. DrainsGoOn
  <2>1. CASE Send(d)
    BY <1>1, <2>1, GoingOn DEF Send, Base, Holding
  <2>2. CASE SendFails(d)
    <3>1. PICK permanent \in BOOLEAN :
            drain' = [drain EXCEPT ![d] = [[@ EXCEPT !.place = "fail"] EXCEPT !.permanent = permanent]]
      BY <2>2 DEF SendFails
    <3>2. drain[d] \in [place : {"idle"} \cup Holding, row : Rows \cup {NoRow},
                        attempt : Nat, permanent : BOOLEAN]
      BY DEF Base, TypeOK, Drains
    <3>3. drain' \in [Drains -> [place : {"idle"} \cup Holding, row : Rows \cup {NoRow},
                                 attempt : Nat, permanent : BOOLEAN]]
      BY <3>1, <3>2 DEF Base, TypeOK, Drains, Holding
    <3>4. \A k \in Drains : drain'[k].row = drain[k].row /\ drain'[k].attempt = drain[k].attempt
                            /\ (k # d => drain'[k] = drain[k])
      BY <3>1, <3>2 DEF Base, TypeOK, Drains
    <3>5. QED
      BY <1>1, <3>3, <3>4 DEF DrainsGoOn
  <2>3. QED
    BY <2>1, <2>2
<1>5. QED
  BY <1>2, <1>3, <1>4, BaseKept

LEMMA RejectBase ==
  ASSUME Base, NEW d \in Drains, Reject(d)
  PROVE  /\ DrainsGoOn
         /\ process' \in [Processes -> {"running", "stopping", "rejected", "down"}]
<1>1. DrainsGoOn
  BY Ending DEF Reject, Base
<1>2. QED
  BY <1>1, RowsOfOutbox DEF Reject, Base, TypeOK

LEMMA MarkBase ==
  ASSUME Base, NEW d \in Drains, MarkDelivered(d) \/ MarkFailed(d)
  PROVE  Base'
<1>1. drain[d].place \in Holding /\ Row(d) \in Rows /\ drain[d].permanent \in BOOLEAN
  BY HeldRow DEF MarkDelivered, MarkFailed, IsAt, Holding, Base, TypeOK, Drains
<1>2. RowsKeepTypes
  BY <1>1, SameTypes, DeliveredTypes, FailedTypes DEF MarkDelivered, MarkFailed, Base
<1>3. DrainsGoOn
  <2>1. CASE Goto(d, "fail")
    BY <1>1, <2>1, GoingOn DEF Base, Holding
  <2>2. CASE EndDrain(d)
    BY <2>2, Ending DEF Base
  <2>3. QED
    BY <2>1, <2>2 DEF MarkDelivered, MarkFailed, Reject
<1>4. OthersType'
  <2>1. process' \in [Processes -> {"running", "stopping", "rejected", "down"}]
    BY RejectBase DEF MarkDelivered, MarkFailed, Base, TypeOK
  <2>2. QED
    BY <2>1 DEF MarkDelivered, MarkFailed, Base, TypeOK, OthersType, faultVars
<1>5. QED
  BY <1>2, <1>3, <1>4, BaseKept

LEMMA CallFailsBase ==
  ASSUME Base, NEW d \in Drains, CallFails(d)
  PROVE  Base'
<1>1. RowsKeepTypes
  BY SameTypes, CommittedTypes DEF CallFails, Base
<1>2. DrainsGoOn /\ process' \in [Processes -> {"running", "stopping", "rejected", "down"}]
  <2>1. CASE IsAt(d, "sent") /\ Goto(d, "fail") /\ UNCHANGED process
    BY <2>1, GoingOn DEF Base, TypeOK, IsAt, Holding
  <2>2. CASE Reject(d)
    BY <2>2, RejectBase
  <2>3. QED
    BY <2>1, <2>2 DEF CallFails
<1>3. OthersType'
  BY <1>2, FaultType DEF CallFails, Base, TypeOK, OthersType
<1>4. QED
  BY <1>1, <1>2, <1>3, BaseKept

LEMMA ProcessBase ==
  ASSUME Base, NEW p \in Processes, Crash(p) \/ Stop(p) \/ Close(p) \/ Restart(p)
  PROVE  Base'
<1>1. RowsKeepTypes
  BY SameTypes DEF Base, Crash, Stop, Close, Restart, Vanish
<1>2. DrainsGoOn
  BY DrainsSame, Vanishing DEF Base, Crash, Stop, Close, Restart
<1>3. OthersType'
  <2>1. process' \in [Processes -> {"running", "stopping", "rejected", "down"}]
    BY DEF Base, TypeOK, Crash, Stop, Close, Restart, Vanish
  <2>2. accepted' \in [Rows -> Nat]
    BY DEF Base, TypeOK, Crash, Stop, Close, Restart, Vanish
  <2>3. refusals' \in 0 .. MaxRefusals /\ faults' \in 0 .. MaxFaults
    BY FaultType DEF Base, TypeOK, Crash, Stop, Close, Restart, faultVars
  <2>4. QED
    BY <2>1, <2>2, <2>3 DEF Base, TypeOK, Crash, Stop, Close, Restart, Vanish, OthersType
<1>4. QED
  BY <1>1, <1>2, <1>3, BaseKept

LEMMA BaseInductive ==
  ASSUME Base, [Next]_vars
  PROVE  Base'
<1>1. CASE UNCHANGED vars
  <2>1. RowsKeepTypes
    BY <1>1, SameTypes DEF vars, Base
  <2>2. DrainsGoOn /\ OthersType'
    BY <1>1, DrainsSame DEF vars, Base, TypeOK, OthersType, faultVars
  <2>3. QED
    BY <2>1, <2>2, BaseKept
<1>2. Emails \subseteq Rows
  BY DEF Rows
<1>3. QED
  BY <1>1, <1>2, RowStepBase, ReportBase, ClaimNextBase, SendBase, MarkBase, CallFailsBase, ProcessBase
  DEF Next, Dispatch, Drains

-----------------------------------------------------------------------------
(* What becomes of a row                                                   *)

\* Every step changes the rows in one of these ways.
Inserted(r) ==
  status[r] = "absent" /\ status' = [status EXCEPT ![r] = "pending"]
Superseded(r) ==
  /\ r \in Emails /\ status[r] \in Waiting \cup {"delivering"}
  /\ status' = [status EXCEPT ![r] = "superseded"]

RowChange ==
  \/ UNCHANGED <<status, attempts, dead, providerVars>>
  \/ \E r \in Rows : /\ Inserted(r) \/ Superseded(r)
                     /\ UNCHANGED <<attempts, dead, providerVars>>
  \/ \E e \in Emails : Report(e)
  \/ \E o \in Outboxes : \E r \in RowsOf(o) : Claim(o, r) /\ UNCHANGED providerVars
  \/ \E d \in Drains : /\ drain[d].place = "sent" /\ status[Row(d)] = "delivering"
                       /\ Delivered(Row(d))
  \/ \E d \in Drains : /\ drain[d].place = "fail" /\ status[Row(d)] = "delivering"
                       /\ Failed(Row(d), drain[d].attempt, drain[d].permanent)

LEMMA CommittedChange ==
  ASSUME NEW d \in Drains, Committed(d)
  PROVE  RowChange
<1>1. d[2] \in Outboxes
  BY RowsOfOutbox
<1>2. QED
  BY <1>1 DEF Committed, RowChange, IsAt

LEMMA NextChangesRows ==
  ASSUME [Next]_vars
  PROVE  RowChange
<1> USE DEF rowVars, providerVars, Drains
<1>1. CASE UNCHANGED vars
  BY <1>1 DEF vars, RowChange
<1>2. ASSUME NEW r \in Rows, Enqueue(r) \/ TimePasses(r) PROVE RowChange
  BY <1>2 DEF Enqueue, TimePasses, RowChange, Inserted
<1>3. ASSUME NEW e \in Emails, Supersede(e) \/ Report(e) PROVE RowChange
  BY <1>3 DEF Supersede, RowChange, Superseded, Rows
<1>4. ASSUME NEW d \in Drains, Dispatch(d) PROVE RowChange
  <2>1. CASE ClaimNext(d)
    BY <2>1, RowsOfOutbox DEF ClaimNext, RowChange
  <2>2. CASE Send(d)
    BY <2>2 DEF Send, RowChange
  <2>3. CASE MarkDelivered(d)
    BY <2>3 DEF MarkDelivered, RowChange, IsAt
  <2>4. CASE MarkFailed(d)
    BY <2>4 DEF MarkFailed, RowChange, IsAt
  <2>5. QED
    BY <1>4, <2>1, <2>2, <2>3, <2>4 DEF Dispatch
<1>5. ASSUME NEW d \in Drains, SendFails(d) PROVE RowChange
  BY <1>5 DEF SendFails, RowChange
<1>6. ASSUME NEW d \in Drains, CallFails(d) PROVE RowChange
  <2>1. CASE UNCHANGED <<rowVars, providerVars>>
    BY <2>1 DEF RowChange
  <2>2. QED
    BY <1>6, <2>1, CommittedChange DEF CallFails
<1>7. ASSUME NEW p \in Processes, Crash(p) \/ Stop(p) \/ Close(p) \/ Restart(p)
      PROVE  RowChange
  BY <1>7 DEF Crash, Stop, Close, Restart, Vanish, RowChange
<1>8. QED
  BY <1>1, <1>2, <1>3, <1>4, <1>5, <1>6, <1>7 DEF Next

\* A dead email waits for nothing any more.
DeadRests == \A r \in Rows : dead[r] => status[r] \in {"failed", "superseded"}

ReportsKept ==
  \A e \in Emails : /\ shown[e] # "none" => status[e] = "delivered"
                    /\ report[e] = "matched" => shown[e] = "reported"

FinalStep ==
  \A r \in Rows :
    /\ status[r] \in {"delivered", "superseded"} => status'[r] = status[r]
    /\ dead[r] => dead'[r] /\ attempts'[r] = attempts[r]

LEMMA ChangeKeepsFinal ==
  ASSUME Base, DeadRests, ReportsKept, RowChange
  PROVE  DeadRests' /\ ReportsKept' /\ FinalStep
<1> USE DEF Base, TypeOK, Waiting
<1>0. Emails \subseteq Rows
  BY DEF Rows
<1>1. CASE UNCHANGED <<status, attempts, dead, providerVars>>
  BY <1>1 DEF DeadRests, ReportsKept, FinalStep, providerVars
<1>2. ASSUME NEW r \in Rows, Inserted(r) \/ Superseded(r), UNCHANGED <<attempts, dead, providerVars>>
      PROVE  DeadRests' /\ ReportsKept' /\ FinalStep
  BY <1>0, <1>2 DEF Inserted, Superseded, DeadRests, ReportsKept, FinalStep, providerVars
<1>3. ASSUME NEW e \in Emails, Report(e)
      PROVE  DeadRests' /\ ReportsKept' /\ FinalStep
  BY <1>0, <1>3 DEF Report, DeadRests, ReportsKept, FinalStep, rowVars
<1>4. ASSUME NEW o \in Outboxes, NEW r \in RowsOf(o), Claim(o, r), UNCHANGED providerVars
      PROVE  DeadRests' /\ ReportsKept' /\ FinalStep
  <2>1. r \in Rows /\ ~dead[r] /\ status[r] \in Waiting \cup {"delivering"}
    BY <1>4 DEF RowsOf, Rows, Claim, Claimable
  <2>2. /\ dead' = dead /\ shown' = shown /\ report' = report
        /\ \A q \in Rows : /\ q # r => attempts'[q] = attempts[q]
                           /\ status'[q] # status[q] =>
                                q = r \/ (status[q] = "delivering" /\ status'[q] = "failed")
    BY <1>4 DEF Claim, providerVars
  <2>3. QED
    BY <1>0, <2>1, <2>2 DEF DeadRests, ReportsKept, FinalStep
<1>5. ASSUME NEW r \in Rows, status[r] = "delivering", Delivered(r)
      PROVE  DeadRests' /\ ReportsKept' /\ FinalStep
  BY <1>0, <1>5 DEF Delivered, DeadRests, ReportsKept, FinalStep
<1>6. ASSUME NEW r \in Rows, NEW n, NEW x, status[r] = "delivering", Failed(r, n, x)
      PROVE  DeadRests' /\ ReportsKept' /\ FinalStep
  BY <1>0, <1>6 DEF Failed, DeadRests, ReportsKept, FinalStep, providerVars
<1>7. \A d \in Drains : drain[d].place \in Holding => Row(d) \in Rows
  BY HeldRow
<1>8. QED
  BY <1>1, <1>2, <1>3, <1>4, <1>5, <1>6, <1>7 DEF RowChange, Holding

-----------------------------------------------------------------------------
(* What was accepted                                                       *)

\* The receiver took a row before it is called delivered.
AcceptedFirst ==
  /\ \A r \in Rows : status[r] = "delivered" => accepted[r] > 0
  /\ \A d \in Drains : drain[d].place = "sent" => accepted[drain[d].row] > 0

\* Acceptances are not taken back, and a dispatcher that has sent its row has one.
SentAccepted ==
  /\ \A r \in Rows : accepted[r] <= accepted'[r]
  /\ \A d \in Drains : drain'[d].place = "sent" =>
       /\ drain[d].place \in {"send", "sent"} /\ drain'[d].row = drain[d].row
       /\ drain[d].place = "send" => accepted'[drain[d].row] > 0

LEMMA NextAccepts ==
  ASSUME Base, [Next]_vars
  PROVE  SentAccepted
<1> USE DEF Base, TypeOK, SentAccepted, Drains
<1>1. CASE UNCHANGED <<accepted, drain>>
  BY <1>1
<1>2. ASSUME NEW d \in Drains, ClaimNext(d) PROVE SentAccepted
  BY <1>2 DEF ClaimNext
<1>3. ASSUME NEW d \in Drains, Send(d) PROVE SentAccepted
  <2>1. Row(d) \in Rows /\ drain[d].place = "send"
    BY <1>3, HeldRow DEF Send, IsAt, Holding
  <2>2. \A r \in Rows : accepted'[r] = IF r = Row(d) THEN accepted[r] + 1 ELSE accepted[r]
    BY <1>3, <2>1 DEF Send, Accept
  <2>3. \A k \in Drains : drain'[k].row = drain[k].row /\ (k # d => drain'[k] = drain[k])
    BY <1>3 DEF Send, Goto
  <2>4. QED
    BY <2>1, <2>2, <2>3 DEF Row
<1>4. ASSUME NEW d \in Drains, SendFails(d) PROVE SentAccepted
  <2>1. Row(d) \in Rows
    BY <1>4, HeldRow DEF SendFails, IsAt, Holding
  <2>2. \A r \in Rows : accepted[r] <= accepted'[r]
    BY <1>4, <2>1 DEF SendFails, Accept
  <2>3. \A k \in Drains : drain'[k].row = drain[k].row /\ (k # d => drain'[k] = drain[k])
                          /\ drain'[d].place = "fail"
    BY <1>4 DEF SendFails
  <2>4. QED
    BY <2>2, <2>3
<1>5. ASSUME NEW d \in Drains, UNCHANGED accepted, Goto(d, "fail") \/ EndDrain(d)
      PROVE  SentAccepted
  BY <1>5 DEF Goto, EndDrain, Idle
<1>6. ASSUME NEW p \in Processes, Vanish(p) PROVE SentAccepted
  <2>1. \A r \in Rows : accepted[r] <= accepted'[r]
    BY <1>6 DEF Vanish
  <2>2. \A d \in Drains : drain'[d] = drain[d] \/ drain'[d].place = "idle"
    BY <1>6 DEF Vanish, Idle
  <2>3. QED
    BY <2>1, <2>2
<1>7. ASSUME NEW d \in Drains, MarkDelivered(d) \/ MarkFailed(d) \/ CallFails(d)
      PROVE  SentAccepted
  <2>1. UNCHANGED accepted /\ (Goto(d, "fail") \/ EndDrain(d))
    BY <1>7 DEF MarkDelivered, MarkFailed, CallFails, Reject
  <2>2. QED
    BY <1>7, <2>1, <1>5
<1>8. ASSUME NEW r \in Rows, Enqueue(r) \/ TimePasses(r) PROVE SentAccepted
  BY <1>1, <1>8 DEF Enqueue, TimePasses
<1>9. ASSUME NEW e \in Emails, Supersede(e) \/ Report(e) PROVE SentAccepted
  BY <1>1, <1>9 DEF Supersede, Report
<1>10. ASSUME NEW p \in Processes, Crash(p) \/ Stop(p) \/ Close(p) \/ Restart(p)
       PROVE  SentAccepted
  BY <1>1, <1>6, <1>10 DEF Crash, Stop, Close, Restart
<1>11. CASE UNCHANGED vars
  BY <1>1, <1>11 DEF vars
<1>12. QED
  BY <1>2, <1>3, <1>4, <1>7, <1>8, <1>9, <1>10, <1>11 DEF Next, Dispatch

LEMMA AcceptedFirstKept ==
  ASSUME Base, Base', AcceptedFirst, SentAccepted, RowChange
  PROVE  AcceptedFirst'
<1>1. \A r \in Rows : accepted[r] > 0 => accepted'[r] > 0
  BY DEF SentAccepted, Base, TypeOK
<1>2. \A r \in Rows : status'[r] = "delivered" =>
        \/ status[r] = "delivered"
        \/ \E d \in Drains : drain[d].place = "sent" /\ Row(d) = r
  <2> USE DEF Base, TypeOK
  <2>1. ASSUME NEW r \in Rows, Inserted(r) \/ Superseded(r)
        PROVE  \A q \in Rows : status'[q] = "delivered" => status[q] = "delivered"
    BY <2>1 DEF Inserted, Superseded
  <2>2. ASSUME NEW e \in Emails, Report(e)
        PROVE  status' = status
    BY <2>2 DEF Report, rowVars
  <2>3. ASSUME NEW o \in Outboxes, NEW r \in RowsOf(o), Claim(o, r)
        PROVE  \A q \in Rows : status'[q] = "delivered" => status[q] = "delivered"
    BY <2>3 DEF Claim
  <2>4. ASSUME NEW d \in Drains, Delivered(Row(d)), drain[d].place = "sent"
        PROVE  \A q \in Rows : status'[q] = "delivered" => status[q] = "delivered" \/ Row(d) = q
    BY <2>4 DEF Delivered
  <2>5. ASSUME NEW r, NEW n, NEW x, Failed(r, n, x)
        PROVE  \A q \in Rows : status'[q] = "delivered" => status[q] = "delivered"
    BY <2>5 DEF Failed
  <2>6. QED
    BY <2>1, <2>2, <2>3, <2>4, <2>5 DEF RowChange
<1>3. \A d \in Drains : drain[d].place \in Holding => Row(d) \in Rows
  BY HeldRow
<1>4. QED
  BY <1>1, <1>2, <1>3 DEF AcceptedFirst, SentAccepted, Row, Holding

-----------------------------------------------------------------------------
(* Who holds a row                                                         *)

\* A row that may be claimed, now or when its wait is over.
Free(r) == status[r] \in Waiting \/ (status[r] = "delivering" /\ ripe[r])

\* Without a delivery that outlived its lease one dispatcher holds a row, and none holds one
\* that may be claimed.
HeldOnce ==
  \A r \in Rows \ overrun :
    /\ \A d, k \in Drains : Holds(d, r) /\ Holds(k, r) => d = k
    /\ Free(r) => \A d \in Drains : ~Holds(d, r)

NobodyTakes == \A d \in Drains, r \in Rows : Holds(d, r)' => Holds(d, r)
Takes(d, r) ==
  /\ Free(r) /\ ~Free(r)' /\ ~(\E q \in Rows : Holds(d, q))
  /\ \A q \in Rows : Holds(d, q)' => q = r
  /\ \A k \in Drains \ {d}, q \in Rows : Holds(k, q)' <=> Holds(k, q)

\* A row becomes free when it is inserted, when its time is over with nobody holding it, or
\* because its holder gave it back.
FreedRightly ==
  \A r \in Rows \ overrun' : Free(r)' =>
    \/ Free(r) \/ status[r] = "absent" \/ Holders(r) = {}
    \/ \E d \in Drains : Holds(d, r) /\ ~Holds(d, r)'

HolderChange ==
  /\ overrun \subseteq overrun'
  /\ NobodyTakes \/ \E d \in Drains, r \in Rows : Takes(d, r)
  /\ FreedRightly

LEMMA GoingOnTakesNothing ==
  ASSUME DrainsGoOn
  PROVE  NobodyTakes
BY DEF DrainsGoOn, NobodyTakes, Holds

LEMMA ClaimFrees ==
  ASSUME Base, NEW o \in Outboxes, NEW r \in RowsOf(o), Claim(o, r)
  PROVE  /\ Free(r) /\ ~Free(r)' /\ r \in Rows
         /\ \A q \in Rows : Free(q)' => Free(q)
<1>1. r \in Rows
  BY DEF RowsOf, Rows
<1>2. Free(r) /\ ~Free(r)'
  BY <1>1 DEF Claim, Claimable, Free, Base, TypeOK, Waiting
<1>3. \A q \in Rows : Free(q)' => Free(q)
  BY <1>2 DEF Claim, Free, Base, TypeOK, Waiting
<1>4. QED
  BY <1>1, <1>2, <1>3

LEMMA CommittedFrees ==
  ASSUME Base, NEW d \in Drains, Committed(d), NEW q \in Rows, Free(q)'
  PROVE  Free(q) \/ (drain[d].place = "fail" /\ Holds(d, q))
<1>1. CASE \E r \in RowsOf(d[2]) : Claim(d[2], r)
  BY <1>1, ClaimFrees, RowsOfOutbox
<1>2. CASE IsAt(d, "sent") /\ Delivered(Row(d))
  BY <1>2 DEF Delivered, Free, Base, TypeOK, Waiting
<1>3. CASE IsAt(d, "fail") /\ Failed(Row(d), drain[d].attempt, drain[d].permanent)
  BY <1>3 DEF Failed, Free, Base, TypeOK, IsAt, Holds, Holding, Row
<1>4. QED
  BY <1>1, <1>2, <1>3 DEF Committed

LEMMA NextChangesHolders ==
  ASSUME Base, [Next]_vars
  PROVE  HolderChange
<1> USE DEF Base, HolderChange
<1>1. ASSUME NEW r \in Rows, Enqueue(r) PROVE HolderChange
  <2>1. NobodyTakes /\ overrun' = overrun
    BY <1>1, GoingOnTakesNothing, DrainsSame DEF Enqueue
  <2>2. FreedRightly
    BY <1>1 DEF Enqueue, FreedRightly, Free, TypeOK
  <2>3. QED
    BY <2>1, <2>2
<1>2. ASSUME NEW r \in Rows, TimePasses(r) PROVE HolderChange
  <2>1. NobodyTakes
    BY <1>2, GoingOnTakesNothing, DrainsSame DEF TimePasses
  <2>2. overrun \subseteq overrun' /\ (r \in overrun' \/ Holders(r) = {})
    BY <1>2 DEF TimePasses
  <2>3. FreedRightly
    BY <1>2, <2>2 DEF TimePasses, FreedRightly, Free, TypeOK
  <2>4. QED
    BY <2>1, <2>2, <2>3
<1>3. ASSUME NEW e \in Emails, Supersede(e) PROVE HolderChange
  <2>1. NobodyTakes /\ overrun' = overrun
    BY <1>3, GoingOnTakesNothing, DrainsSame DEF Supersede
  <2>2. FreedRightly
    BY <1>3 DEF Supersede, FreedRightly, Free, TypeOK, Rows, Waiting
  <2>3. QED
    BY <2>1, <2>2
<1>4. ASSUME overrun' = overrun, DrainsGoOn, UNCHANGED rowVars
      PROVE  HolderChange
  BY <1>4, GoingOnTakesNothing DEF rowVars, FreedRightly, Free
<1>5. ASSUME NEW d \in Drains, ClaimNext(d) PROVE HolderChange
  <2>1. PICK r \in RowsOf(d[2]) :
          /\ Claim(d[2], r)
          /\ drain' = [drain EXCEPT ![d] = [place |-> "send", row |-> r,
                                            attempt |-> attempts[r] + 1, permanent |-> FALSE]]
    BY <1>5 DEF ClaimNext
  <2>2. /\ Free(r) /\ ~Free(r)' /\ r \in Rows
        /\ \A q \in Rows : Free(q)' => Free(q)
    BY <2>1, ClaimFrees, RowsOfOutbox
  <2>3. drain[d].place = "idle"
    BY <1>5 DEF ClaimNext, IsAt
  <2>4. Takes(d, r)
    BY <2>1, <2>2, <2>3 DEF Takes, Holds, Holding, TypeOK, Drains
  <2>5. overrun' = overrun
    BY <1>5 DEF ClaimNext
  <2>6. QED
    BY <2>2, <2>4, <2>5 DEF FreedRightly
<1>6. ASSUME NEW d \in Drains, Send(d) \/ SendFails(d) PROVE HolderChange
  <2>1. PICK x \in {"sent", "fail"}, y \in BOOLEAN :
          drain' = [drain EXCEPT ![d] = [[@ EXCEPT !.place = x] EXCEPT !.permanent = y]]
    <3>1. CASE Send(d)
      <4>1. drain[d] = [drain[d] EXCEPT !.permanent = drain[d].permanent]
            /\ drain[d].permanent \in BOOLEAN
        BY DEF TypeOK, Drains
      <4>2. drain' = [drain EXCEPT ![d] = [[@ EXCEPT !.place = "sent"] EXCEPT !.permanent = drain[d].permanent]]
        BY <3>1, <4>1 DEF Send, Goto, TypeOK, Drains
      <4>3. QED
        BY <4>1, <4>2
    <3>2. CASE SendFails(d)
      BY <3>2 DEF SendFails
    <3>3. QED
      BY <1>6, <3>1, <3>2
  <2>2. \A k \in Drains : drain'[k].row = drain[k].row /\ (k # d => drain'[k] = drain[k])
    BY <2>1 DEF TypeOK, Drains
  <2>3. drain[d].place \in Holding
    BY <1>6 DEF Send, SendFails, IsAt, Holding
  <2>4. NobodyTakes
    BY <2>2, <2>3 DEF NobodyTakes, Holds
  <2>5. UNCHANGED <<rowVars, overrun>>
    BY <1>6 DEF Send, SendFails
  <2>6. QED
    BY <2>4, <2>5 DEF rowVars, FreedRightly, Free
<1>7. ASSUME NEW d \in Drains, MarkDelivered(d) \/ MarkFailed(d) PROVE HolderChange
  <2>1. drain[d].place \in Holding /\ Row(d) \in Rows
    BY <1>7, HeldRow DEF MarkDelivered, MarkFailed, IsAt, Holding
  <2>2. DrainsGoOn
    <3>1. CASE Goto(d, "fail")
      BY <2>1, <3>1, GoingOn DEF Holding
    <3>2. CASE EndDrain(d)
      BY <3>2, Ending
    <3>3. QED
      BY <1>7, <3>1, <3>2 DEF MarkDelivered, MarkFailed, Reject
  <2>3. overrun' = overrun
    BY <1>7 DEF MarkDelivered, MarkFailed
  <2>4. CASE UNCHANGED rowVars
    BY <1>4, <2>2, <2>3, <2>4
  <2>5. CASE Delivered(Row(d))
    BY <2>1, <2>2, <2>3, <2>5, GoingOnTakesNothing DEF Delivered, FreedRightly, Free, TypeOK, Waiting
  <2>6. CASE Failed(Row(d), drain[d].attempt, drain[d].permanent) /\ EndDrain(d)
    <3>0. PICK r \in Rows : r = Row(d)
      BY <2>1
    <3>1. Holds(d, r) /\ ~Holds(d, r)'
      BY <2>1, <2>6, <3>0 DEF EndDrain, Holds, Row, Idle, Holding, TypeOK, Drains
    <3>2. \A q \in Rows : q # r => (Free(q)' => Free(q))
      BY <2>6, <3>0 DEF Failed, Free, TypeOK
    <3>3. FreedRightly
      BY <3>1, <3>2 DEF FreedRightly
    <3>4. QED
      BY <2>2, <2>3, <3>3, GoingOnTakesNothing
  <2>7. QED
    BY <1>7, <2>4, <2>5, <2>6 DEF MarkDelivered, MarkFailed
<1>8. ASSUME NEW d \in Drains, CallFails(d) PROVE HolderChange
  <2>1. DrainsGoOn
    <3>1. CASE IsAt(d, "sent") /\ Goto(d, "fail")
      BY <3>1, GoingOn DEF IsAt, Holding
    <3>2. CASE EndDrain(d)
      BY <3>2, Ending
    <3>3. QED
      BY <1>8, <3>1, <3>2 DEF CallFails, Reject
  <2>2. overrun' = overrun
    BY <1>8 DEF CallFails
  <2>3. CASE UNCHANGED <<rowVars, providerVars>>
    BY <1>4, <2>1, <2>2, <2>3
  <2>4. CASE Committed(d)
    <3>1. drain[d].place = "fail" => EndDrain(d)
      BY <1>8 DEF CallFails, IsAt, Reject
    <3>2. \A q \in Rows : Free(q)' => Free(q) \/ (Holds(d, q) /\ ~Holds(d, q)')
      BY <2>4, <3>1, CommittedFrees DEF EndDrain, Holds, Idle, Holding, TypeOK, Drains
    <3>3. FreedRightly
      BY <3>2 DEF FreedRightly
    <3>4. QED
      BY <2>1, <2>2, <3>3, GoingOnTakesNothing
  <2>5. QED
    BY <1>8, <2>3, <2>4 DEF CallFails
<1>9. ASSUME NEW p \in Processes, Crash(p) \/ Stop(p) \/ Close(p) \/ Restart(p) PROVE HolderChange
  <2>1. DrainsGoOn
    BY <1>9, DrainsSame, Vanishing DEF Crash, Stop, Close, Restart
  <2>2. UNCHANGED <<rowVars, overrun>>
    BY <1>9 DEF Crash, Stop, Close, Restart, Vanish
  <2>3. QED
    BY <1>4, <2>1, <2>2
<1>10. ASSUME NEW e \in Emails, Report(e) PROVE HolderChange
  BY <1>4, <1>10, DrainsSame DEF Report
<1>11. CASE UNCHANGED vars
  BY <1>4, <1>11, DrainsSame DEF vars
<1>12. QED
  BY <1>1, <1>2, <1>3, <1>5, <1>6, <1>7, <1>8, <1>9, <1>10, <1>11 DEF Next, Dispatch, Drains

LEMMA HeldOnceKept ==
  ASSUME Base, HeldOnce, HolderChange
  PROVE  HeldOnce'
<1> SUFFICES ASSUME NEW r \in Rows \ overrun'
             PROVE  /\ \A d, k \in Drains : Holds(d, r)' /\ Holds(k, r)' => d = k
                    /\ Free(r)' => \A d \in Drains : ~Holds(d, r)'
  BY DEF HeldOnce
<1>1. /\ \A d, k \in Drains : Holds(d, r) /\ Holds(k, r) => d = k
      /\ Free(r) => \A d \in Drains : ~Holds(d, r)
  BY DEF HeldOnce, HolderChange
<1>2. status[r] = "absent" \/ Holders(r) = {} => \A d \in Drains : ~Holds(d, r)
  BY DEF Base, HoldersInv, Holders, Holds, Drains, Row
<1>3. CASE NobodyTakes
  BY <1>1, <1>2, <1>3 DEF NobodyTakes, HolderChange, FreedRightly
<1>4. ASSUME NEW d \in Drains, NEW q \in Rows, Takes(d, q)
      PROVE  /\ \A i, k \in Drains : Holds(i, r)' /\ Holds(k, r)' => i = k
             /\ Free(r)' => \A i \in Drains : ~Holds(i, r)'
  <2>1. CASE r = q
    BY <1>1, <1>4, <2>1 DEF Takes
  <2>2. CASE r # q
    BY <1>1, <1>2, <1>4, <2>2 DEF Takes, HolderChange, FreedRightly
  <2>3. QED
    BY <2>1, <2>2
<1>5. QED
  BY <1>3, <1>4 DEF HolderChange

LEMMA HeldOnceExclusive ==
  ASSUME HeldOnce
  PROVE  ExclusiveDelivery
<1> SUFFICES ASSUME NEW r \in Rows \ overrun PROVE Cardinality(Holders(r)) <= 1
  BY DEF ExclusiveDelivery
<1>1. \A d, k \in Holders(r) : d = k
  BY DEF HeldOnce, Holders, Holds, Drains, Row
<1>2. CASE Holders(r) = {}
  BY <1>2, FS_EmptySet
<1>3. CASE Holders(r) # {}
  <2>1. PICK d : Holders(r) = {d}
    BY <1>1, <1>3
  <2>2. QED
    BY <2>1, FS_Singleton
<1>4. QED
  BY <1>2, <1>3

-----------------------------------------------------------------------------
(* Without failures every row is accepted once                             *)

\* Nothing has failed so far.
Calm == refusals + faults = 0

\* Before the first refusal or fault.
CalmInv == Calm =>
  /\ overrun = {}
  /\ \A p \in Processes : process[p] = "running"
  /\ \A r \in Rows : status[r] \in Waiting \cup {"absent"} => accepted[r] = 0
  /\ \A r \in Rows : status[r] = "delivering" => ~ripe[r] /\ \E d \in Drains : Holds(d, r)
  /\ \A d \in Drains : drain[d].place = "send" => accepted[drain[d].row] = 0
  /\ \A d \in Drains : drain[d].place = "fail" => status[drain[d].row] # "delivering"
  /\ \A r \in Rows : accepted[r] <= 1

LEMMA CalmStays ==
  ASSUME Base, [Next]_vars, Calm'
  PROVE  UNCHANGED faultVars /\ Calm
<1> USE DEF Base, TypeOK, Calm
<1>1. ~Fault
  BY DEF Fault
<1>2. \A d \in Drains : ~SendFails(d)
  BY DEF SendFails
<1>3. UNCHANGED faultVars
  BY <1>1, <1>2
  DEF Next, Dispatch, Enqueue, TimePasses, Supersede, Report, ClaimNext, Send, MarkDelivered,
      MarkFailed, CallFails, Crash, Stop, Close, Restart, vars, Drains
<1>4. QED
  BY <1>3 DEF faultVars

LEMMA CalmKept ==
  ASSUME Base, Base', HeldOnce, CalmInv, [Next]_vars
  PROVE  CalmInv'
<1> SUFFICES ASSUME Calm' PROVE CalmInv'
  BY DEF CalmInv
<1> USE DEF Base, TypeOK
<1>1. UNCHANGED faultVars /\ Calm
  BY CalmStays
<1>2. /\ overrun = {}
      /\ \A p \in Processes : process[p] = "running"
      /\ \A r \in Rows : status[r] \in Waiting \cup {"absent"} => accepted[r] = 0
      /\ \A r \in Rows : status[r] = "delivering" => ~ripe[r] /\ \E d \in Drains : Holds(d, r)
      /\ \A d \in Drains : drain[d].place = "send" => accepted[drain[d].row] = 0
      /\ \A d \in Drains : drain[d].place = "fail" => status[drain[d].row] # "delivering"
      /\ \A r \in Rows : accepted[r] <= 1
  BY <1>1 DEF CalmInv
<1>3. /\ \A r \in Rows : \A d, k \in Drains : Holds(d, r) /\ Holds(k, r) => d = k
      /\ \A r \in Rows : status[r] \in Waiting => \A d \in Drains : ~Holds(d, r)
  BY <1>2 DEF HeldOnce, Free
<1>4. ~Fault
  BY <1>1 DEF Fault, faultVars
<1>5. ASSUME NEW r \in Rows, Enqueue(r) PROVE CalmInv'
  BY <1>2, <1>5 DEF Enqueue, CalmInv, Holds, Waiting
<1>6. ASSUME NEW r \in Rows, TimePasses(r) PROVE CalmInv'
  <2>1. Holders(r) = {} /\ UNCHANGED <<overrun, status, accepted, process, drain>>
        /\ ripe' = [ripe EXCEPT ![r] = TRUE]
    BY <1>4, <1>6 DEF TimePasses
  <2>2. \A d \in Drains : ~Holds(d, r)
    BY <2>1 DEF Holders, Holds, Drains, Row
  <2>3. QED
    BY <1>2, <2>1, <2>2 DEF CalmInv, Holds
<1>7. ASSUME NEW e \in Emails, Supersede(e) PROVE CalmInv'
  BY <1>2, <1>7 DEF Supersede, CalmInv, Holds, Waiting, Rows
<1>8. CASE UNCHANGED <<rowVars, process, drain, accepted, overrun>>
  BY <1>2, <1>8 DEF CalmInv, Holds, rowVars
<1>9. ASSUME NEW d \in Drains, ClaimNext(d) PROVE CalmInv'
  <2>1. PICK r \in RowsOf(d[2]) :
          /\ Claim(d[2], r)
          /\ drain' = [drain EXCEPT ![d] = [place |-> "send", row |-> r,
                                            attempt |-> attempts[r] + 1, permanent |-> FALSE]]
    BY <1>9 DEF ClaimNext
  <2>2. r \in Rows /\ ripe[r] /\ status[r] \in Waiting
    BY <1>2, <2>1, RowsOfOutbox DEF Claim, Claimable
  <2>3. /\ \A q \in Rows : status'[q] = IF q = r THEN "delivering" ELSE status[q]
        /\ \A q \in Rows : ripe'[q] = IF q = r THEN FALSE ELSE ripe[q]
    BY <1>2, <2>1, <2>2 DEF Claim
  <2>4. UNCHANGED <<process, accepted, overrun>>
    BY <1>9 DEF ClaimNext
  <2>5. /\ drain'[d].place = "send" /\ drain'[d].row = r
        /\ \A k \in Drains \ {d} : drain'[k] = drain[k]
        /\ drain[d].place = "idle"
    BY <1>9, <2>1 DEF ClaimNext, IsAt, Drains
  <2>6. \A k \in Drains : ~Holds(k, r)
    BY <1>3, <2>2
  <2>7. \A q \in Rows : status'[q] = "delivering" => \E k \in Drains : Holds(k, q)'
    <3> SUFFICES ASSUME NEW q \in Rows, status'[q] = "delivering"
                 PROVE  \E k \in Drains : Holds(k, q)'
      OBVIOUS
    <3>1. CASE q = r
      BY <2>5, <3>1 DEF Holds, Holding
    <3>2. CASE q # r
      BY <1>2, <2>3, <2>5, <3>2 DEF Holds, Holding
    <3>3. QED
      BY <3>1, <3>2
  <2>8. \A k \in Drains : drain'[k].place = "fail" => status'[drain'[k].row] # "delivering"
    BY <1>2, <2>3, <2>5, <2>6, HeldRow DEF Holds, Holding, Row
  <2>9. \A k \in Drains : drain'[k].place = "send" => accepted'[drain'[k].row] = 0
    BY <1>2, <2>2, <2>4, <2>5
  <2>10. \A q \in Rows : /\ status'[q] \in Waiting \cup {"absent"} => accepted'[q] = 0
                         /\ status'[q] = "delivering" => ~ripe'[q]
                         /\ accepted'[q] <= 1
    BY <1>2, <2>3, <2>4 DEF Waiting
  <2>11. QED
    BY <1>2, <2>4, <2>7, <2>8, <2>9, <2>10 DEF CalmInv
<1>10. ASSUME NEW d \in Drains, Send(d) PROVE CalmInv'
  <2>1. PICK r \in Rows : r = Row(d)
    BY <1>10, HeldRow DEF Send, IsAt, Holding
  <2>2. /\ \A q \in Rows : accepted'[q] = IF q = r THEN accepted[q] + 1 ELSE accepted[q]
        /\ \A k \in Drains : drain'[k].row = drain[k].row /\ (k # d => drain'[k] = drain[k])
        /\ drain'[d].place = "sent" /\ drain[d].place = "send"
        /\ UNCHANGED <<status, ripe, process, overrun>>
    BY <1>10, <2>1 DEF Send, Accept, Goto, IsAt, rowVars, Drains
  <2>3. Holds(d, r) /\ accepted[r] = 0 /\ status[r] # "absent"
    BY <1>2, <2>1, <2>2 DEF Holds, Holding, Row, HoldersInv
  <2>4. \A k \in Drains \ {d} : ~Holds(k, r)
    BY <1>3, <2>3
  <2>5. status[r] \notin Waiting
    BY <1>3, <2>3
  <2>6. \A q \in Rows : status'[q] = "delivering" => \E k \in Drains : Holds(k, q)'
    BY <1>2, <2>2 DEF Holds, Holding
  <2>7. \A k \in Drains : drain'[k].place = "send" => accepted'[drain'[k].row] = 0
    BY <1>2, <2>2, <2>4, HeldRow DEF Holds, Holding, Row
  <2>8. \A q \in Rows : /\ status'[q] \in Waiting \cup {"absent"} => accepted'[q] = 0
                        /\ accepted'[q] <= 1
    <3>1. status[r] \notin Waiting \cup {"absent"}
      BY <2>3, <2>5
    <3>2. QED
      BY <1>2, <2>2, <2>3, <3>1
  <2>9. \A k \in Drains : drain'[k].place = "fail" => status'[drain'[k].row] # "delivering"
    BY <1>2, <2>2
  <2>10. QED
    BY <1>2, <2>2, <2>6, <2>7, <2>8, <2>9 DEF CalmInv
<1>11. ASSUME NEW d \in Drains, MarkDelivered(d) PROVE CalmInv'
  <2>1. PICK r \in Rows : r = Row(d)
    BY <1>11, HeldRow DEF MarkDelivered, IsAt, Holding
  <2>2. UNCHANGED <<process, accepted, overrun>> /\ (Goto(d, "fail") \/ EndDrain(d))
    BY <1>11 DEF MarkDelivered
  <2>3. /\ \A k \in Drains : k # d => drain'[k] = drain[k]
        /\ drain'[d].place \in {"fail", "idle"}
        /\ drain'[d].place = "fail" => drain'[d].row = r /\ Goto(d, "fail")
    BY <2>1, <2>2 DEF Goto, EndDrain, Idle, Row, Drains
  <2>4. CASE status[r] = "delivering" /\ Delivered(r) /\ EndDrain(d)
    <3>1. drain'[d].place = "idle"
      BY <2>4 DEF EndDrain, Idle, Drains
    <3>2. /\ \A q \in Rows : status'[q] = IF q = r THEN "delivered" ELSE status[q]
          /\ ripe' = ripe
      BY <2>4 DEF Delivered
    <3>3. \A q \in Rows : status'[q] = "delivering" => \E k \in Drains : Holds(k, q)'
      <4> SUFFICES ASSUME NEW q \in Rows, status'[q] = "delivering"
                   PROVE  \E k \in Drains : Holds(k, q)'
        OBVIOUS
      <4>1. q # r /\ status[q] = "delivering"
        BY <3>2
      <4>2. PICK k \in Drains : Holds(k, q)
        BY <1>2, <4>1
      <4>3. k # d
        BY <2>1, <4>1, <4>2 DEF Holds, Row
      <4>4. QED
        BY <2>3, <4>2, <4>3 DEF Holds
    <3>4. \A k \in Drains : drain'[k].place = "fail" => status'[drain'[k].row] # "delivering"
      BY <1>2, <2>3, <3>1, <3>2, HeldRow DEF Holding, Row
    <3>5. \A k \in Drains : drain'[k].place = "send" => accepted'[drain'[k].row] = 0
      BY <1>2, <2>2, <2>3, <3>1
    <3>6. QED
      BY <1>2, <2>2, <3>2, <3>3, <3>4, <3>5 DEF CalmInv, Waiting
  <2>5. CASE status[r] # "delivering" /\ UNCHANGED rowVars
    <3>1. \A q \in Rows : status'[q] = "delivering" => \E k \in Drains : Holds(k, q)'
      BY <1>2, <2>1, <2>3, <2>5 DEF Holds, Row, rowVars
    <3>2. \A k \in Drains : drain'[k].place = "fail" => status'[drain'[k].row] # "delivering"
      BY <1>2, <2>3, <2>5 DEF rowVars
    <3>3. \A k \in Drains : drain'[k].place = "send" => accepted'[drain'[k].row] = 0
      BY <1>2, <2>2, <2>3
    <3>4. QED
      BY <1>2, <2>2, <2>5, <3>1, <3>2, <3>3 DEF CalmInv, rowVars
  <2>6. QED
    BY <1>11, <2>1, <2>4, <2>5 DEF MarkDelivered
<1>12. ASSUME NEW d \in Drains, MarkFailed(d) PROVE CalmInv'
  <2>1. status[Row(d)] # "delivering"
    BY <1>2, <1>12 DEF MarkFailed, IsAt, Row
  <2>2. UNCHANGED <<rowVars, accepted, overrun>> /\ EndDrain(d)
        /\ \A p \in Processes : process'[p] = "running"
    BY <1>2, <1>12, <2>1 DEF MarkFailed, Reject
  <2>3. (\A k \in Drains : k # d => drain'[k] = drain[k]) /\ drain'[d].place = "idle"
    BY <2>2 DEF EndDrain, Idle, Drains
  <2>4. \A q \in Rows : status'[q] = "delivering" => \E k \in Drains : Holds(k, q)'
    BY <1>2, <2>1, <2>2, <2>3 DEF Holds, Row, rowVars
  <2>5. \A k \in Drains : drain'[k].place = "fail" => status'[drain'[k].row] # "delivering"
    BY <1>2, <2>2, <2>3 DEF rowVars
  <2>6. \A k \in Drains : drain'[k].place = "send" => accepted'[drain'[k].row] = 0
    BY <1>2, <2>2, <2>3
  <2>7. QED
    BY <1>2, <2>2, <2>4, <2>5, <2>6 DEF CalmInv, rowVars
<1>13. \A d \in Drains : ~SendFails(d) /\ ~CallFails(d)
  BY <1>1, <1>4 DEF SendFails, CallFails, faultVars
<1>14. \A p \in Processes : ~Crash(p) /\ ~Stop(p) /\ ~Close(p) /\ ~Restart(p)
  BY <1>2, <1>4 DEF Crash, Stop, Close, Restart
<1>15. ASSUME NEW e \in Emails, Report(e) PROVE CalmInv'
  BY <1>8, <1>15 DEF Report
<1>16. CASE UNCHANGED vars
  BY <1>8, <1>16 DEF vars
<1>17. QED
  BY <1>5, <1>6, <1>7, <1>9, <1>10, <1>11, <1>12, <1>13, <1>14, <1>15, <1>16
  DEF Next, Dispatch, Drains

-----------------------------------------------------------------------------
(* How often an email is tried                                             *)

\* The attempt that counts is under way in a process that runs.
CurrentRuns(e) ==
  \E d \in Drains :
    Holds(d, e) /\ drain[d].attempt = attempts[e] /\ process[d[1]] = "running"

\* The row may be claimed again although its attempt was not reported.
MayRepeat(e) ==
  \/ status[e] \in Waiting \cup {"absent"} /\ ~dead[e]
  \/ status[e] = "delivering" /\ (ripe[e] \/ ~CurrentRuns(e))

\* R are the attempts that were reported and did not kill the email, each of them before the
\* last one allowed; every other attempt was taken away by a fault or is under way.
Spent(e, R) ==
  /\ \A d \in Drains : Holds(d, e) => drain[d].attempt \notin R
  /\ \A x \in R : x <= attempts[e]
  /\ attempts[e] <= Cardinality(R) + faults + 1
  /\ MayRepeat(e) => attempts[e] <= Cardinality(R) + faults

Reportable == 1 .. (MaxAttempts - 1)

\* No two dispatchers hold an email in one attempt, and the attempts that failed can be named.
AttemptsTold(e) ==
  /\ \A d, k \in Drains :
       Holds(d, e) /\ Holds(k, e) /\ drain[d].attempt = drain[k].attempt => d = k
  /\ \E R \in SUBSET Reportable : Spent(e, R)

LEMMA ReportableCount ==
  ASSUME NEW R \in SUBSET Reportable
  PROVE  /\ IsFiniteSet(R) /\ Cardinality(R) \in Nat
         /\ Cardinality(R) <= MaxAttempts - 1
<1>1. MaxAttempts - 1 \in Nat
  BY DeliveryOutboxAssumption
<1>2. IsFiniteSet(Reportable) /\ Cardinality(Reportable) = MaxAttempts - 1
  BY <1>1, FS_Interval DEF Reportable
<1>3. IsFiniteSet(R) /\ Cardinality(R) <= Cardinality(Reportable)
  BY <1>2, FS_Subset
<1>4. QED
  BY <1>2, <1>3, FS_CardinalityType

\* A fault pays for an attempt that nobody will report.
LEMMA FaultPays ==
  ASSUME Base, NEW e \in Emails, AttemptsTold(e), DrainsGoOn, attempts'[e] = attempts[e],
         faults' = faults + 1
  PROVE  AttemptsTold(e)'
<1>1. PICK R \in SUBSET Reportable : Spent(e, R)
  BY DEF AttemptsTold
<1>2. \A d \in Drains : Holds(d, e)' => Holds(d, e) /\ drain'[d].attempt = drain[d].attempt
  BY DEF DrainsGoOn, Holds
<1>3. attempts[e] \in Nat /\ faults \in Nat /\ Cardinality(R) \in Nat
  BY ReportableCount DEF Base, TypeOK, Rows
<1>4. Spent(e, R)'
  BY <1>1, <1>2, <1>3 DEF Spent
<1>5. QED
  BY <1>2, <1>4 DEF AttemptsTold

\* Nothing was claimed, reported or lost.
LEMMA NothingLost ==
  ASSUME Base, NEW e \in Emails, AttemptsTold(e), DrainsGoOn, attempts'[e] = attempts[e],
         faults' = faults, MayRepeat(e)' => MayRepeat(e)
  PROVE  AttemptsTold(e)'
<1>1. PICK R \in SUBSET Reportable : Spent(e, R)
  BY DEF AttemptsTold
<1>2. \A d \in Drains : Holds(d, e)' => Holds(d, e) /\ drain'[d].attempt = drain[d].attempt
  BY DEF DrainsGoOn, Holds
<1>3. Spent(e, R)'
  BY <1>1, <1>2 DEF Spent
<1>4. QED
  BY <1>2, <1>3 DEF AttemptsTold

\* The row is claimed: it was free, or the lease that nobody keeps was over.
LEMMA ClaimTold ==
  ASSUME Base, NEW e \in Emails, AttemptsTold(e), NEW o \in Outboxes, e \in RowsOf(o), Claim(o, e),
         \/ faults' = faults + 1 /\ DrainsGoOn
         \/ /\ faults' = faults
            /\ \E d \in Drains :
                 /\ process'[d[1]] = "running" /\ Holds(d, e)'
                 /\ drain'[d].attempt = attempts[e] + 1
                 /\ \A k \in Drains \ {d} : drain'[k] = drain[k]
  PROVE  AttemptsTold(e)'
<1>1. PICK R \in SUBSET Reportable : Spent(e, R)
  BY DEF AttemptsTold
<1>2. e \in Rows /\ attempts[e] \in Nat /\ faults \in Nat /\ Cardinality(R) \in Nat
  BY ReportableCount DEF Base, TypeOK, Rows
<1>3. /\ attempts'[e] = attempts[e] + 1 /\ status'[e] = "delivering" /\ ~ripe'[e]
  BY <1>2 DEF Claim, Base, TypeOK
<1>4. MayRepeat(e)
  BY DEF Claim, Claimable, MayRepeat
<1>5. attempts[e] <= Cardinality(R) + faults
  BY <1>1, <1>4 DEF Spent
<1>6. \A d \in Drains : Holds(d, e) => drain[d].attempt <= attempts[e]
  BY <1>2 DEF Base, HoldersInv, Holds
<1>7. CASE faults' = faults + 1 /\ DrainsGoOn
  <2>1. \A d \in Drains : Holds(d, e)' => Holds(d, e) /\ drain'[d].attempt = drain[d].attempt
    BY <1>7 DEF DrainsGoOn, Holds
  <2>2. \A x \in R : x <= attempts[e] /\ x \in Nat
    BY <1>1, DeliveryOutboxAssumption DEF Spent, Reportable
  <2>3. Spent(e, R)'
    BY <1>1, <1>2, <1>3, <1>5, <1>7, <2>1, <2>2 DEF Spent
  <2>4. QED
    BY <2>1, <2>3 DEF AttemptsTold
<1>8. ASSUME faults' = faults, NEW d \in Drains,
             process'[d[1]] = "running", Holds(d, e)', drain'[d].attempt = attempts[e] + 1,
             \A k \in Drains \ {d} : drain'[k] = drain[k]
      PROVE  AttemptsTold(e)'
  <2>1. \A k \in Drains \ {d} : Holds(k, e)' => Holds(k, e) /\ drain'[k].attempt = drain[k].attempt
    BY <1>8 DEF Holds
  <2>2. CurrentRuns(e)'
    BY <1>3, <1>8 DEF CurrentRuns
  <2>3. ~MayRepeat(e)'
    BY <1>3, <2>2 DEF MayRepeat, Waiting
  <2>4. \A x \in R : x <= attempts[e] /\ x \in Nat
    BY <1>1, DeliveryOutboxAssumption DEF Spent, Reportable
  <2>5. \A k \in Drains : Holds(k, e)' => drain'[k].attempt \notin R
    BY <1>1, <1>2, <1>8, <2>1, <2>4 DEF Spent
  <2>6. Spent(e, R)'
    BY <1>2, <1>3, <1>5, <1>8, <2>3, <2>4, <2>5 DEF Spent
  <2>7. \A i, k \in Drains :
          Holds(i, e)' /\ Holds(k, e)' /\ drain'[i].attempt = drain'[k].attempt => i = k
    <3>1. \A k \in Drains \ {d} : Holds(k, e)' =>
            drain'[k].attempt # attempts[e] + 1
      BY <1>2, <1>6, <2>1 DEF Base, HoldersInv, Holds
    <3>2. QED
      BY <1>8, <2>1, <3>1 DEF AttemptsTold
  <2>8. QED
    BY <2>6, <2>7 DEF AttemptsTold
<1>9. QED
  BY <1>7, <1>8

\* A report that does not kill the email is one of the few that can be made.
LEMMA ReportTold ==
  ASSUME Base, NEW e \in Emails, AttemptsTold(e), NEW d \in Drains, Holds(d, e),
         Failed(e, drain[d].attempt, drain[d].permanent), EndDrain(d), faults' = faults
  PROVE  AttemptsTold(e)'
<1> DEFINE n == drain[d].attempt
<1>1. PICK R \in SUBSET Reportable : Spent(e, R)
  BY DEF AttemptsTold
<1>2. e \in Rows /\ attempts[e] \in Nat /\ faults \in Nat /\ Cardinality(R) \in Nat /\ IsFiniteSet(R)
  BY ReportableCount DEF Base, TypeOK, Rows
<1>3. n \in 1 .. attempts[e] /\ n \notin R
  BY <1>1, <1>2 DEF Spent, Base, HoldersInv, Holds
<1>4. \A k \in Drains : Holds(k, e)' => k # d /\ Holds(k, e) /\ drain'[k] = drain[k]
  BY DEF EndDrain, Holds, Idle, Holding, Base, TypeOK, Drains
<1>5. \A k \in Drains : Holds(k, e)' => drain'[k].attempt # n
  BY <1>4 DEF AttemptsTold
<1>6. /\ attempts' = attempts /\ status'[e] = "failed"
      /\ dead'[e] <=> (drain[d].permanent \/ n >= MaxAttempts)
  BY <1>2 DEF Failed, Base, TypeOK
<1>7. CASE dead'[e]
  <2>1. ~MayRepeat(e)'
    BY <1>6, <1>7 DEF MayRepeat
  <2>2. Spent(e, R)'
    BY <1>1, <1>4, <1>6, <2>1 DEF Spent
  <2>3. QED
    BY <1>4, <2>2 DEF AttemptsTold
<1>8. CASE ~dead'[e]
  <2>1. n \in Reportable
    BY <1>2, <1>3, <1>6, <1>8, DeliveryOutboxAssumption DEF Reportable
  <2>2. Cardinality(R \cup {n}) = Cardinality(R) + 1
    BY <1>2, <1>3, FS_AddElement
  <2>3. PICK S \in SUBSET Reportable : S = R \cup {n}
    BY <2>1
  <2>4. \A k \in Drains : Holds(k, e)' => drain'[k].attempt \notin S
    BY <1>1, <1>4, <1>5, <2>3 DEF Spent
  <2>5. \A x \in S : x <= attempts'[e]
    BY <1>1, <1>2, <1>3, <1>6, <2>3 DEF Spent
  <2>6. attempts'[e] <= Cardinality(S) + faults' /\ attempts'[e] <= Cardinality(S) + faults' + 1
    BY <1>1, <1>2, <1>6, <2>2, <2>3 DEF Spent
  <2>7. Spent(e, S)'
    BY <2>4, <2>5, <2>6 DEF Spent
  <2>8. QED
    BY <1>4, <2>7 DEF AttemptsTold
<1>9. QED
  BY <1>7, <1>8

\* An email and its holders stay, or the email waits for nothing.
LEMMA RunningStays ==
  ASSUME NEW e \in Emails, UNCHANGED <<drain, process, attempts>>,
         status'[e] = status[e], dead'[e] = dead[e], ripe'[e] = ripe[e]
  PROVE  MayRepeat(e)' => MayRepeat(e)
BY DEF MayRepeat, CurrentRuns, Holds

\* Rows and counts of another dispatcher's email are not touched by what d does.
LEMMA OthersEmail ==
  ASSUME Base, NEW e \in Emails, NEW d \in Drains, ~Holds(d, e), ~Holds(d, e)',
         \A k \in Drains \ {d} : drain'[k] = drain[k],
         \A p \in Processes : process'[p] = "running" <=> process[p] = "running",
         attempts'[e] = attempts[e], dead'[e] = dead[e], ripe'[e] = ripe[e],
         \/ status'[e] = status[e]
         \/ status[e] = "delivering" /\ ripe[e]
  PROVE  MayRepeat(e)' => MayRepeat(e)
<1>1. CurrentRuns(e) <=> CurrentRuns(e)'
  <2>1. \A k \in Drains : k[1] \in Processes
    BY RowsOfOutbox
  <2>2. \A k \in Drains : Holds(k, e) <=> Holds(k, e)'
    BY DEF Holds
  <2>3. \A k \in Drains : Holds(k, e) => drain'[k] = drain[k]
    OBVIOUS
  <2>4. QED
    BY <2>1, <2>2, <2>3 DEF CurrentRuns
<1>2. QED
  BY <1>1 DEF MayRepeat

LEMMA RefusalOf ==
  ASSUME NEW d, SendFails(d)
  PROVE  \E permanent \in BOOLEAN :
           drain' = [drain EXCEPT ![d] = [[@ EXCEPT !.place = "fail"] EXCEPT !.permanent = permanent]]
BY DEF SendFails

LEMMA NextTells ==
  ASSUME Base, Base', DeadRests, NEW e \in Emails, AttemptsTold(e), [Next]_vars
  PROVE  AttemptsTold(e)'
<1> USE DEF Base, TypeOK
<1>0. e \in Rows /\ attempts[e] \in Nat /\ faults \in Nat /\ Emails \subseteq Rows
  BY DEF Rows
<1>1. CASE UNCHANGED <<rowVars, drain, process, faultVars>>
  <2>1. DrainsGoOn
    BY <1>1, DrainsSame
  <2>2. QED
    BY <1>1, <2>1, NothingLost, RunningStays DEF rowVars, faultVars
<1>2. ASSUME NEW r \in Rows, Enqueue(r) PROVE AttemptsTold(e)'
  <2>1. MayRepeat(e)' => MayRepeat(e)
    <3>1. CASE r = e
      BY <1>2, <3>1 DEF Enqueue, MayRepeat, Waiting
    <3>2. CASE r # e
      BY <1>0, <1>2, <3>2, RunningStays DEF Enqueue
    <3>3. QED
      BY <3>1, <3>2
  <2>2. QED
    BY <1>2, <2>1, NothingLost, DrainsSame DEF Enqueue, faultVars
<1>3. ASSUME NEW r \in Rows, TimePasses(r) PROVE AttemptsTold(e)'
  <2>1. CASE Fault
    BY <1>3, <2>1, FaultPays, FaultType, DrainsSame DEF TimePasses
  <2>2. CASE Holders(r) = {} /\ UNCHANGED faultVars
    <3>1. MayRepeat(e)' => MayRepeat(e)
      <4>1. CASE r = e
        <5>1. ~CurrentRuns(e)
          BY <2>2, <4>1 DEF CurrentRuns, Holders, Holds, Row, Drains
        <5>2. QED
          BY <1>0, <1>3, <4>1, <5>1 DEF TimePasses, MayRepeat
      <4>2. CASE r # e
        BY <1>0, <1>3, <4>2, RunningStays DEF TimePasses
      <4>3. QED
        BY <4>1, <4>2
    <3>2. QED
      BY <1>3, <2>2, <3>1, NothingLost, DrainsSame DEF TimePasses, faultVars
  <2>3. QED
    BY <1>3, <2>1, <2>2 DEF TimePasses
<1>4. ASSUME NEW f \in Emails, Supersede(f) PROVE AttemptsTold(e)'
  <2>1. MayRepeat(e)' => MayRepeat(e)
    <3>1. CASE f = e
      BY <1>0, <1>4, <3>1 DEF Supersede, MayRepeat, Waiting
    <3>2. CASE f # e
      BY <1>0, <1>4, <3>2, RunningStays DEF Supersede
    <3>3. QED
      BY <3>1, <3>2
  <2>2. QED
    BY <1>4, <2>1, NothingLost, DrainsSame DEF Supersede, faultVars
<1>5. ASSUME NEW f \in Emails, Report(f) PROVE AttemptsTold(e)'
  BY <1>1, <1>5 DEF Report
<1>6. ASSUME NEW o \in Outboxes, NEW r \in RowsOf(o), Claim(o, r), r # e
      PROVE  /\ attempts'[e] = attempts[e] /\ dead'[e] = dead[e] /\ ripe'[e] = ripe[e]
             /\ status'[e] = status[e] \/ (status[e] = "delivering" /\ ripe[e])
  BY <1>0, <1>6 DEF Claim
<1>7. ASSUME NEW d \in Drains, ClaimNext(d) PROVE AttemptsTold(e)'
  <2>1. PICK r \in RowsOf(d[2]) :
          /\ Claim(d[2], r)
          /\ drain' = [drain EXCEPT ![d] = [place |-> "send", row |-> r,
                                            attempt |-> attempts[r] + 1, permanent |-> FALSE]]
    BY <1>7 DEF ClaimNext
  <2>2. /\ process[d[1]] = "running" /\ process' = process /\ faults' = faults
        /\ drain[d].place = "idle"
    BY <1>7 DEF ClaimNext, IsAt, faultVars
  <2>3. /\ drain'[d].place = "send" /\ drain'[d].row = r /\ drain'[d].attempt = attempts[r] + 1
        /\ \A k \in Drains \ {d} : drain'[k] = drain[k]
    BY <2>1 DEF Drains
  <2>4. d[2] \in Outboxes
    BY RowsOfOutbox
  <2>5. CASE r = e
    <3>1. Holds(d, e)' /\ process'[d[1]] = "running" /\ drain'[d].attempt = attempts[e] + 1
      BY <2>2, <2>3, <2>5 DEF Holds, Holding
    <3>2. QED
      BY <2>1, <2>2, <2>3, <2>4, <2>5, <3>1, ClaimTold
  <2>6. CASE r # e
    <3>1. ~Holds(d, e) /\ ~Holds(d, e)'
      BY <2>2, <2>3, <2>6 DEF Holds, Holding
    <3>2. /\ attempts'[e] = attempts[e] /\ dead'[e] = dead[e] /\ ripe'[e] = ripe[e]
          /\ status'[e] = status[e] \/ (status[e] = "delivering" /\ ripe[e])
      BY <1>6, <2>1, <2>4, <2>6
    <3>3. MayRepeat(e)' => MayRepeat(e)
      BY <2>2, <2>3, <3>1, <3>2, OthersEmail
    <3>4. PICK R \in SUBSET Reportable : Spent(e, R)
      BY DEF AttemptsTold
    <3>5. \A k \in Drains : Holds(k, e)' => Holds(k, e) /\ drain'[k].attempt = drain[k].attempt
      BY <2>3, <3>1 DEF Holds
    <3>6. Spent(e, R)'
      BY <2>2, <3>2, <3>3, <3>4, <3>5 DEF Spent
    <3>7. QED
      BY <3>5, <3>6 DEF AttemptsTold
  <2>7. QED
    BY <2>5, <2>6
<1>8. ASSUME NEW d \in Drains, Send(d) PROVE AttemptsTold(e)'
  <2>1. drain[d].place = "send" /\ Goto(d, "sent") /\ UNCHANGED <<rowVars, process, faultVars>>
    BY <1>8 DEF Send, IsAt
  <2>2. DrainsGoOn
    BY <2>1, GoingOn DEF Holding
  <2>3. \A k \in Drains : /\ drain'[k].row = drain[k].row /\ drain'[k].attempt = drain[k].attempt
                          /\ drain'[k].place \in Holding <=> drain[k].place \in Holding
    BY <2>1 DEF Goto, Holding, Drains
  <2>4. MayRepeat(e)' => MayRepeat(e)
    BY <2>1, <2>3 DEF MayRepeat, CurrentRuns, Holds, rowVars
  <2>5. QED
    BY <2>1, <2>2, <2>4, NothingLost DEF rowVars, faultVars
<1>9. ASSUME NEW d \in Drains, SendFails(d) PROVE AttemptsTold(e)'
  <2>1. drain[d].place = "send" /\ UNCHANGED <<rowVars, process, faults>>
    BY <1>9 DEF SendFails, IsAt
  <2>2. PICK permanent \in BOOLEAN :
          drain' = [drain EXCEPT ![d] = [[@ EXCEPT !.place = "fail"] EXCEPT !.permanent = permanent]]
    BY <1>9, RefusalOf
  <2>3. \A k \in Drains : /\ drain'[k].row = drain[k].row /\ drain'[k].attempt = drain[k].attempt
                          /\ drain'[k].place \in Holding <=> drain[k].place \in Holding
    BY <2>1, <2>2 DEF Holding, Drains
  <2>4. MayRepeat(e)' => MayRepeat(e)
    <3>1. CurrentRuns(e) => CurrentRuns(e)'
      BY <2>1, <2>3 DEF CurrentRuns, Holds, rowVars
    <3>2. QED
      BY <2>1, <3>1 DEF MayRepeat, rowVars
  <2>5. DrainsGoOn
    BY <2>3 DEF DrainsGoOn, Drains
  <2>6. QED
    BY <2>1, <2>4, <2>5, NothingLost DEF rowVars
<1>10. ASSUME NEW d \in Drains, MarkDelivered(d) \/ MarkFailed(d) PROVE AttemptsTold(e)'
  <2>1. PICK r \in Rows : r = Row(d) /\ Holds(d, r)
    BY <1>10, HeldRow DEF MarkDelivered, MarkFailed, IsAt, Holding, Holds, Row
  <2>2. faults' = faults /\ (Goto(d, "fail") \/ EndDrain(d))
    BY <1>10 DEF MarkDelivered, MarkFailed, Reject, faultVars
  <2>3. DrainsGoOn
    BY <2>1, <2>2, GoingOn, Ending DEF Holds, Holding
  <2>4. \A p \in Processes : process'[p] = "running" <=> process[p] = "running"
    BY <1>10 DEF MarkDelivered, MarkFailed, Reject
  <2>5. \A k \in Drains \ {d} : drain'[k] = drain[k]
    BY <2>2 DEF Goto, EndDrain, Drains
  <2>6. CASE r # e
    <3>1. ~Holds(d, e) /\ ~Holds(d, e)'
      BY <2>1, <2>3, <2>6 DEF Holds, DrainsGoOn
    <3>2. UNCHANGED rowVars \/ Delivered(r) \/ Failed(r, drain[d].attempt, drain[d].permanent)
      BY <1>10, <2>1 DEF MarkDelivered, MarkFailed
    <3>3. /\ attempts'[e] = attempts[e] /\ dead'[e] = dead[e] /\ ripe'[e] = ripe[e]
          /\ status'[e] = status[e]
      BY <1>0, <2>6, <3>2 DEF Delivered, Failed, rowVars
    <3>4. MayRepeat(e)' => MayRepeat(e)
      BY <2>4, <2>5, <3>1, <3>3, OthersEmail
    <3>5. QED
      BY <2>2, <2>3, <3>3, <3>4, NothingLost
  <2>7. CASE r = e /\ Delivered(r)
    <3>1. attempts' = attempts /\ status'[e] = "delivered"
      BY <1>0, <2>7 DEF Delivered
    <3>2. ~MayRepeat(e)'
      BY <3>1 DEF MayRepeat, Waiting
    <3>3. QED
      BY <2>2, <2>3, <3>1, <3>2, NothingLost
  <2>8. CASE r = e /\ Failed(r, drain[d].attempt, drain[d].permanent) /\ EndDrain(d)
    BY <2>1, <2>2, <2>8, ReportTold
  <2>9. CASE r = e /\ UNCHANGED rowVars /\ status[r] # "delivering"
    <3>1. MayRepeat(e)' => MayRepeat(e)
      BY <2>9 DEF MayRepeat, rowVars
    <3>2. QED
      BY <2>2, <2>3, <2>9, <3>1, NothingLost DEF rowVars
  <2>10. QED
    BY <1>10, <2>1, <2>6, <2>7, <2>8, <2>9 DEF MarkDelivered, MarkFailed
<1>11. ASSUME NEW d \in Drains, CallFails(d) PROVE AttemptsTold(e)'
  <2>1. DrainsGoOn
    <3>1. CASE IsAt(d, "sent") /\ Goto(d, "fail")
      BY <3>1, GoingOn DEF IsAt, Holding
    <3>2. CASE EndDrain(d)
      BY <3>2, Ending
    <3>3. QED
      BY <1>11, <3>1, <3>2 DEF CallFails, Reject
  <2>2. faults' = faults + 1
    BY <1>11, FaultType DEF CallFails
  <2>3. CASE attempts'[e] = attempts[e]
    BY <2>1, <2>2, <2>3, FaultPays
  <2>4. CASE Claim(d[2], e) /\ e \in RowsOf(d[2])
    BY <2>1, <2>2, <2>4, ClaimTold, RowsOfOutbox
  <2>5. CASE Committed(d)
    <3>1. ASSUME NEW r \in RowsOf(d[2]), Claim(d[2], r)
          PROVE  AttemptsTold(e)'
      BY <1>6, <2>3, <2>4, <3>1, RowsOfOutbox
    <3>2. CASE Delivered(Row(d)) \/ Failed(Row(d), drain[d].attempt, drain[d].permanent)
      BY <2>3, <3>2 DEF Delivered, Failed
    <3>3. QED
      BY <2>5, <3>1, <3>2 DEF Committed
  <2>6. QED
    BY <1>11, <2>3, <2>5 DEF CallFails, rowVars
<1>12. ASSUME NEW p \in Processes, Crash(p) \/ Stop(p) PROVE AttemptsTold(e)'
  <2>1. DrainsGoOn /\ attempts' = attempts /\ faults' = faults + 1
    BY <1>12, DrainsSame, Vanishing, FaultType DEF Crash, Stop, Vanish, rowVars
  <2>2. QED
    BY <2>1, FaultPays
<1>13. ASSUME NEW p \in Processes, Close(p) PROVE AttemptsTold(e)'
  <2>1. DrainsGoOn /\ UNCHANGED <<rowVars, faultVars>>
    BY <1>13, Vanishing DEF Close, Vanish
  <2>2. process[p] # "running"
    BY <1>13 DEF Close
  <2>3. \A d \in Drains : d[1] # p => drain'[d] = drain[d] /\ process'[d[1]] = process[d[1]]
    BY <1>13, RowsOfOutbox DEF Close, Vanish, Drains
  <2>4. CurrentRuns(e) => CurrentRuns(e)'
    <3> SUFFICES ASSUME NEW d \in Drains, Holds(d, e), drain[d].attempt = attempts[e],
                        process[d[1]] = "running"
                 PROVE  CurrentRuns(e)'
      BY DEF CurrentRuns
    <3>1. d[1] # p
      BY <2>2
    <3>2. Holds(d, e)' /\ drain'[d].attempt = attempts'[e] /\ process'[d[1]] = "running"
      BY <2>1, <2>3, <3>1 DEF Holds, rowVars
    <3>3. QED
      BY <3>2 DEF CurrentRuns
  <2>5. MayRepeat(e)' => MayRepeat(e)
    BY <2>1, <2>4 DEF MayRepeat, rowVars
  <2>6. QED
    BY <2>1, <2>5, NothingLost DEF rowVars, faultVars
<1>14. ASSUME NEW p \in Processes, Restart(p) PROVE AttemptsTold(e)'
  <2>1. drain' = drain /\ UNCHANGED <<rowVars, faultVars>> /\ DrainsGoOn
    BY <1>14, DrainsSame DEF Restart
  <2>2. \A q \in Processes : process[q] = "running" => process'[q] = "running"
    BY <1>14 DEF Restart
  <2>3. CurrentRuns(e) => CurrentRuns(e)'
    BY <2>1, <2>2, RowsOfOutbox DEF CurrentRuns, Holds, rowVars
  <2>4. MayRepeat(e)' => MayRepeat(e)
    BY <2>1, <2>3 DEF MayRepeat, rowVars
  <2>5. QED
    BY <2>1, <2>4, NothingLost DEF rowVars, faultVars
<1>15. CASE UNCHANGED vars
  BY <1>1, <1>15 DEF vars
<1>16. QED
  BY <1>2, <1>3, <1>4, <1>5, <1>7, <1>8, <1>9, <1>10, <1>11, <1>12, <1>13, <1>14, <1>15
  DEF Next, Dispatch, Drains

LEMMA ToldIsBounded ==
  ASSUME Base, NEW e \in Emails, AttemptsTold(e)
  PROVE  attempts[e] <= MaxAttempts + faults
<1>1. PICK R \in SUBSET Reportable : Spent(e, R)
  BY DEF AttemptsTold
<1>2. attempts[e] \in Nat /\ faults \in Nat /\ MaxAttempts \in Nat
  BY DeliveryOutboxAssumption DEF Base, TypeOK, Rows
<1>3. Cardinality(R) \in Nat /\ Cardinality(R) <= MaxAttempts - 1
  BY ReportableCount
<1>4. attempts[e] <= Cardinality(R) + faults + 1
  BY <1>1 DEF Spent
<1>5. QED
  BY <1>2, <1>3, <1>4

-----------------------------------------------------------------------------
\* The inductive invariant.
OutboxInv ==
  /\ Base /\ DeadRests /\ ReportsKept /\ AcceptedFirst /\ HeldOnce /\ CalmInv
  /\ \A e \in Emails : AttemptsTold(e)

\* The strengthened invariant holds of empty outboxes.
THEOREM OutboxInit == Init => OutboxInv
<1> SUFFICES ASSUME Init PROVE OutboxInv
  OBVIOUS
<1> USE DeliveryOutboxAssumption DEF Init
<1>1. \A d \in Drains : drain[d].place = "idle" /\ drain[d] = Idle
  BY DEF Drains, Idle
<1>2. Base
  BY <1>1 DEF Base, TypeOK, HoldersInv, Statuses, Idle, Holding, Drains
<1>3. DeadRests /\ ReportsKept /\ AcceptedFirst
  BY <1>1 DEF DeadRests, ReportsKept, AcceptedFirst, Rows
<1>4. \A d \in Drains, r \in Rows : ~Holds(d, r)
  BY <1>1 DEF Holds, Holding
<1>5. \A r \in Rows : status[r] = "absent" /\ accepted[r] = 0
  OBVIOUS
<1>6. HeldOnce
  BY <1>4 DEF HeldOnce
<1>7. CalmInv
  BY <1>1, <1>5 DEF CalmInv
<1>8. ASSUME NEW e \in Emails PROVE AttemptsTold(e)
  <2>1. {} \in SUBSET Reportable /\ Cardinality({}) = 0
    BY FS_EmptySet
  <2>2. attempts[e] = 0 /\ \A d \in Drains : ~Holds(d, e)
    BY <1>4 DEF Rows
  <2>3. Spent(e, {})
    BY <2>1, <2>2 DEF Spent
  <2>4. QED
    BY <2>1, <2>2, <2>3 DEF AttemptsTold
<1>9. QED
  BY <1>2, <1>3, <1>6, <1>7, <1>8 DEF OutboxInv

\* The strengthened invariant is kept by every step, for any number of processes, rows,
\* attempts, refusals and faults.
THEOREM OutboxInductive == OutboxInv /\ [Next]_vars => OutboxInv'
<1> SUFFICES ASSUME OutboxInv, [Next]_vars PROVE OutboxInv'
  OBVIOUS
<1> USE DEF OutboxInv
<1>1. Base'
  BY BaseInductive
<1>2. DeadRests' /\ ReportsKept'
  BY NextChangesRows, ChangeKeepsFinal
<1>3. AcceptedFirst'
  BY <1>1, NextChangesRows, NextAccepts, AcceptedFirstKept
<1>4. HeldOnce'
  BY NextChangesHolders, HeldOnceKept
<1>5. CalmInv'
  BY <1>1, CalmKept
<1>6. \A e \in Emails : AttemptsTold(e)'
  BY <1>1, NextTells
<1>7. QED
  BY <1>1, <1>2, <1>3, <1>4, <1>5, <1>6

\* The rows, the dispatchers and the processes stay within their types, and a row has one
\* dispatcher unless a lease was outlived (claimNext of both outboxes).
THEOREM DeliveriesAreExclusive == Spec => [](TypeOK /\ ExclusiveDelivery)
<1>1. OutboxInv => TypeOK /\ ExclusiveDelivery
  BY HeldOnceExclusive DEF OutboxInv, Base
<1>2. QED
  BY OutboxInit, OutboxInductive, <1>1, PTL DEF Spec

\* What is delivered, superseded or dead stays so (markDelivered, markFailed).
THEOREM SettledRowsAreFinal == Spec => FinalIsFinal
<1>1. OutboxInv /\ [Next]_vars => FinalStep
  BY NextChangesRows, ChangeKeepsFinal DEF OutboxInv
<1>2. OutboxInv /\ [Next]_vars
        => [\A r \in Rows :
              /\ status[r] \in {"delivered", "superseded"} => status'[r] = status[r]
              /\ dead[r] => dead'[r] /\ attempts'[r] = attempts[r]]_vars
  BY <1>1 DEF FinalStep
<1>3. QED
  BY OutboxInit, OutboxInductive, <1>2, PTL DEF Spec, FinalIsFinal

\* No row is delivered that its receiver did not accept, none is accepted twice unless
\* something failed, and reports are not overwritten.
THEOREM DeliveriesHaveEvidence == Spec => []DeliveryEvidence
<1>1. OutboxInv => DeliveryEvidence
  BY DEF OutboxInv, AcceptedFirst, ReportsKept, CalmInv, Calm, DeliveryEvidence
<1>2. QED
  BY OutboxInit, OutboxInductive, <1>1, PTL DEF Spec

\* Only faults take an email beyond its attempts (recordFailure).
THEOREM EmailAttemptsBounded == Spec => []AttemptsBounded
<1>1. OutboxInv => AttemptsBounded
  BY ToldIsBounded DEF OutboxInv, AttemptsBounded
<1>2. QED
  BY OutboxInit, OutboxInductive, <1>1, PTL DEF Spec

-----------------------------------------------------------------------------
(* The outbox implements MessageDelivery                                   *)

\* Only requests on their way are accepted, and none of them while rows change.
Received ==
  /\ UNCHANGED rowVars
  /\ accepted' \in [Rows -> Nat]
  /\ \A r \in Rows : accepted'[r] >= accepted[r]
                   /\ (status[r] = "absent" => accepted'[r] = accepted[r])

LEMMA AcceptingReceives ==
  ASSUME Base, NEW d \in Drains, IsAt(d, "send"), Accept(d) \/ UNCHANGED accepted,
         UNCHANGED rowVars
  PROVE  Received
<1>1. Row(d) \in Rows /\ status[Row(d)] # "absent"
  BY HeldRow DEF Base, HoldersInv, IsAt, Holding, Row
<1>2. accepted \in [Rows -> Nat]
  BY DEF Base, TypeOK
<1>3. QED
  BY <1>1, <1>2 DEF Accept, Received

LEMMA VanishingReceives ==
  ASSUME Base, NEW p \in Processes, Vanish(p)
  PROVE  Received
<1>1. accepted \in [Rows -> Nat] /\ UNCHANGED rowVars
  BY DEF Base, TypeOK, Vanish
<1>2. PICK arrived \in SUBSET {d \in Drains : d[1] = p /\ IsAt(d, "send")} :
        accepted' = [r \in Rows |-> accepted[r] + IF \E d \in arrived : Row(d) = r THEN 1 ELSE 0]
  BY DEF Vanish, Drains
<1>3. \A d \in arrived : status[Row(d)] # "absent"
  BY <1>2 DEF Base, HoldersInv, IsAt, Holding, Row
<1>4. \A r \in Rows : status[r] = "absent" => ~\E d \in arrived : Row(d) = r
  BY <1>3
<1>5. QED
  BY <1>1, <1>2, <1>4 DEF Received

LEMMA RowsOrReceivers ==
  ASSUME Base, [Next]_vars
  PROVE  UNCHANGED accepted \/ Received
<1>1. ASSUME NEW r \in Rows, Enqueue(r) \/ TimePasses(r) PROVE UNCHANGED accepted
  BY <1>1 DEF Enqueue, TimePasses
<1>2. ASSUME NEW e \in Emails, Supersede(e) \/ Report(e) PROVE UNCHANGED accepted
  BY <1>2 DEF Supersede, Report
<1>3. ASSUME NEW d \in Drains, Send(d) \/ SendFails(d) PROVE Received
  BY <1>3, AcceptingReceives DEF Send, SendFails
<1>4. ASSUME NEW d \in Drains, ClaimNext(d) \/ MarkDelivered(d) \/ MarkFailed(d) \/ CallFails(d)
      PROVE  UNCHANGED accepted
  BY <1>4 DEF ClaimNext, MarkDelivered, MarkFailed, CallFails
<1>5. ASSUME NEW p \in Processes, Crash(p) \/ Close(p) PROVE Received
  BY <1>5, VanishingReceives DEF Crash, Close
<1>6. ASSUME NEW p \in Processes, Stop(p) \/ Restart(p) PROVE UNCHANGED accepted
  BY <1>6 DEF Stop, Restart
<1>7. CASE UNCHANGED vars
  BY <1>7 DEF vars
<1>8. QED
  BY <1>1, <1>2, <1>3, <1>4, <1>5, <1>6, <1>7 DEF Next, Dispatch, Drains

Outcomes == [r \in Rows |-> Outcome(r)]

\* How the outcomes change with the rows.
OutcomeChange ==
  \/ Outcomes' = Outcomes
  \/ \E r \in Rows : Outcome(r) = "absent" /\ Outcomes' = [Outcomes EXCEPT ![r] = "due"]
  \/ \E r \in Rows : Outcome(r) = "due" /\ accepted[r] > 0
                    /\ Outcomes' = [Outcomes EXCEPT ![r] = "delivered"]
  \/ \E e \in Emails : Outcome(e) = "due" /\ Outcomes' = [Outcomes EXCEPT ![e] = "dead"]
  \/ \E e \in Emails : Outcome(e) \in {"due", "dead"}
                      /\ Outcomes' = [Outcomes EXCEPT ![e] = "superseded"]

LEMMA OneOutcomeChanges ==
  ASSUME NEW r \in Rows, NEW o, Outcome(r)' = o,
         \A q \in Rows \ {r} : Outcome(q)' = Outcome(q)
  PROVE  Outcomes' = [Outcomes EXCEPT ![r] = o]
BY DEF Outcomes

LEMMA SameOutcomes ==
  ASSUME \A q \in Rows : Outcome(q)' = Outcome(q)
  PROVE  Outcomes' = Outcomes
BY DEF Outcomes

LEMMA ChangeOfOutcome ==
  ASSUME Base, DeadRests, AcceptedFirst, RowChange
  PROVE  OutcomeChange
<1> USE DEF Base, TypeOK, Waiting
<1>0. Emails \subseteq Rows
  BY DEF Rows
<1>1. CASE UNCHANGED <<status, dead>>
  BY <1>1, SameOutcomes DEF Outcome, OutcomeChange
<1>2. ASSUME NEW r \in Rows, Inserted(r), UNCHANGED dead PROVE OutcomeChange
  <2>1. Outcome(r) = "absent" /\ Outcome(r)' = "due"
    BY <1>2 DEF Inserted, Outcome, DeadRests
  <2>2. \A q \in Rows \ {r} : Outcome(q)' = Outcome(q)
    BY <1>2 DEF Inserted, Outcome
  <2>3. QED
    BY <2>1, <2>2, OneOutcomeChanges DEF OutcomeChange
<1>3. ASSUME NEW e \in Rows, Superseded(e), UNCHANGED dead PROVE OutcomeChange
  <2>1. e \in Emails /\ Outcome(e) \in {"due", "dead"} /\ Outcome(e)' = "superseded"
    BY <1>3 DEF Superseded, Outcome
  <2>2. \A q \in Rows \ {e} : Outcome(q)' = Outcome(q)
    BY <1>3 DEF Superseded, Outcome
  <2>3. QED
    BY <2>1, <2>2, OneOutcomeChanges DEF OutcomeChange
<1>4. ASSUME NEW o \in Outboxes, NEW r \in RowsOf(o), Claim(o, r) PROVE OutcomeChange
  <2>1. r \in Rows /\ ~dead[r] /\ status[r] \in Waiting \cup {"delivering"}
    BY <1>4 DEF RowsOf, Rows, Claim, Claimable
  <2>2. /\ dead' = dead /\ status'[r] = "delivering"
        /\ \A q \in Rows \ {r} :
             status'[q] = status[q] \/ (status[q] = "delivering" /\ status'[q] = "failed")
    BY <1>4, <2>1 DEF Claim
  <2>3. Outcome(r)' = Outcome(r)
    BY <2>1, <2>2 DEF Outcome
  <2>4. \A q \in Rows \ {r} : Outcome(q)' = Outcome(q)
    BY <2>2 DEF Outcome
  <2>5. QED
    BY <2>3, <2>4, SameOutcomes DEF OutcomeChange
<1>5. ASSUME NEW r \in Rows, status[r] = "delivering", accepted[r] > 0, Delivered(r)
      PROVE  OutcomeChange
  <2>1. Outcome(r) = "due" /\ Outcome(r)' = "delivered"
    BY <1>5 DEF Delivered, Outcome, DeadRests
  <2>2. \A q \in Rows \ {r} : Outcome(q)' = Outcome(q)
    BY <1>5 DEF Delivered, Outcome
  <2>3. QED
    BY <1>5, <2>1, <2>2, OneOutcomeChanges DEF OutcomeChange
<1>6. ASSUME NEW r \in Rows, NEW n, NEW x, status[r] = "delivering", Failed(r, n, x)
      PROVE  OutcomeChange
  <2>1. Outcome(r) = "due"
    BY <1>6 DEF Outcome, DeadRests
  <2>2. \A q \in Rows \ {r} : Outcome(q)' = Outcome(q)
    BY <1>6 DEF Failed, Outcome
  <2>3. status'[r] = "failed" /\ (dead'[r] => r \in Emails)
    BY <1>6 DEF Failed
  <2>4. CASE dead'[r]
    <3>1. r \in Emails /\ Outcome(r)' = "dead"
      BY <2>3, <2>4 DEF Outcome
    <3>2. QED
      BY <2>1, <2>2, <3>1, OneOutcomeChanges DEF OutcomeChange
  <2>5. CASE ~dead'[r]
    <3>1. Outcome(r)' = Outcome(r)
      BY <2>1, <2>3, <2>5 DEF Outcome
    <3>2. QED
      BY <2>2, <3>1, SameOutcomes DEF OutcomeChange
  <2>6. QED
    BY <2>4, <2>5
<1>7. \A d \in Drains : drain[d].place \in Holding => Row(d) \in Rows
  BY HeldRow
<1>8. \A d \in Drains : drain[d].place = "sent" => accepted[Row(d)] > 0
  BY DEF AcceptedFirst, Row
<1>9. ASSUME NEW e \in Emails, Report(e) PROVE OutcomeChange
  BY <1>1, <1>9 DEF Report, rowVars
<1>10. QED
  BY <1>1, <1>2, <1>3, <1>4, <1>5, <1>6, <1>7, <1>8, <1>9 DEF RowChange, Holding

LEMMA StepIsDelivery ==
  ASSUME OutboxInv, [Next]_vars
  PROVE  [Delivery!Next]_(Delivery!vars)
<1> USE DEF Delivery!Next, Delivery!vars
<1>1. CASE Received
  <2>1. Outcomes' = Outcomes
    BY <1>1, SameOutcomes DEF Received, rowVars, Outcome
  <2>2. \A r \in Rows : Outcome(r) = "absent" => status[r] = "absent"
    BY DEF Outcome, OutboxInv, Base, TypeOK, Statuses
  <2>3. QED
    BY <1>1, <2>1, <2>2 DEF Received, Outcomes, Delivery!Accept
<1>2. CASE UNCHANGED accepted
  <2>1. OutcomeChange
    BY NextChangesRows, ChangeOfOutcome DEF OutboxInv
  <2>2. QED
    BY <1>2, <2>1
       DEF OutcomeChange, Outcomes, Rows, Delivery!Submit, Delivery!Deliver, Delivery!GiveUp,
           Delivery!Supersede, Delivery!Becomes
<1>3. QED
  BY <1>1, <1>2, RowsOrReceivers DEF OutboxInv

\* The outboxes deliver at least once what they are given, and settle it once, whoever
\* stalls, stops, dies or never hears of an acceptance.
THEOREM OutboxImplementsDelivery == Spec => ImplementsDelivery
<1>1. Init => Delivery!Init
  <2>1. ASSUME Init, NEW r \in Rows PROVE Outcome(r) = "absent"
    <3>1. status[r] = "absent"
      BY <2>1 DEF Init
    <3>2. QED
      BY <3>1 DEF Outcome, Waiting
  <2>2. QED
    BY <2>1 DEF Init, Delivery!Init
<1>2. OutboxInv /\ [Next]_vars => [Delivery!Next]_(Delivery!vars)
  BY StepIsDelivery
<1>3. QED
  BY OutboxInit, OutboxInductive, <1>1, <1>2, PTL DEF Spec, ImplementsDelivery, Delivery!Spec
=============================================================================
