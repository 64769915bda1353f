-------------------------- MODULE DocumentIndexing --------------------------
(***************************************************************************)
(* One document indexed in the background: the index route and the         *)
(* 'document.index' handler of app.ts, run by the workers of JobQueue and  *)
(* metered (meteredOperationService.ts) against CreditLedger.  The handler *)
(* awaits a call at each of its places: pricing, provider, storage and     *)
(* database calls may fail, before or after they took effect, and attempts *)
(* of two workers overlap when a lease runs out.                           *)
(*                                                                         *)
(* The agent keeps its retrieval configuration and the document is neither *)
(* edited nor deleted meanwhile, so the operation keys, made of the        *)
(* document's id and hash, are the same in every attempt.                  *)
(***************************************************************************)
EXTENDS Naturals

CONSTANTS
  NumJobs, Workers, NoKey, NoOwner, MaxAttempts, LeaseTicks, HeartbeatTicks,
  MaxFaults,            \* those of JobQueue
  BaselineCredits,      \* those of CreditLedger
  EstimatedCredits,     \* what an operation reserves
  MaxCredits            \* bound: the most an operation turns out to cost

ASSUME DocumentIndexingAssumption ==
  /\ NumJobs \in Nat \ {0}
  /\ MaxAttempts \in Nat \ {0}
  /\ LeaseTicks \in Nat \ {0}
  /\ HeartbeatTicks \in Nat
  /\ MaxFaults \in Nat
  /\ NoOwner \notin Workers
  /\ BaselineCredits \in Nat
  /\ MaxCredits \in Nat
  /\ EstimatedCredits \in 1 .. MaxCredits

VARIABLES
  status, attempts, leaseOwner, leaseLeft, delay, dedupeKey,
  life, recovery, sinceRecovery, pc, current, attempt, faults,
  opened, available, reserved, spent, state, held, charged,
  entryType, entryAmount, entryUsage,
  handler,              \* per worker: where its handler is, the operation at hand
                        \* and what that turned out to cost, 0 while unknown
  rated,                \* per operation: credits of its rated usage event, 0 for none
  docStatus,            \* the status column of the document
  stored,               \* are its index entries stored?
  routes                \* index requests whose job is created but not yet marked

Embedding == 1
RagStorage == 2
Operations == {Embedding, RagStorage}

\* Index jobs are made by create(): they carry no dedupe key and no run_at.
Queue == INSTANCE JobQueue
  WITH DedupeKeys <- {}, MaxDelay <- 0, StartupRecoveryMayFail <- FALSE

\* The two operations are the reservations of the ledger.
Ledger == INSTANCE CreditLedger
  WITH NumReservations <- 2, NumKeys <- 0, MaxAmount <- MaxCredits

queueVars == <<status, attempts, leaseOwner, leaseLeft, delay, dedupeKey,
               life, recovery, sinceRecovery, pc, current, attempt, faults>>
ledgerVars == <<opened, available, reserved, spent, state, held, charged,
                entryType, entryAmount, entryUsage>>
documentVars == <<docStatus, stored>>
vars == <<queueVars, ledgerVars, handler, rated, documentVars, routes>>

\* Where a handler is: at the call begin() ends with, at the work itself, at the two
\* calls of complete(), at its last update, or in the catch.
Places == {"idle", "reserve", "work", "rate", "settle", "mark indexed", "release", "mark failed"}

At(place, op) == [place |-> place, op |-> op, cost |-> 0]
NotRunning == At("idle", Embedding)

TypeOK ==
  /\ Queue!TypeOK
  /\ Ledger!TypeOK
  /\ handler \in [Workers -> [place : Places, op : Operations, cost : 0 .. MaxCredits]]
  /\ rated \in [Operations -> 0 .. MaxCredits]
  /\ docStatus \in {"registered", "indexing", "indexed", "failed"}
  /\ stored \in BOOLEAN
  /\ routes \in 0 .. NumJobs

Init ==
  /\ Queue!Init
  /\ Ledger!Init
  /\ handler = [w \in Workers |-> NotRunning]
  /\ rated = [op \in Operations |-> 0]
  /\ docStatus = "registered" /\ stored = FALSE
  /\ routes = 0

-----------------------------------------------------------------------------
(* The index route                                                         *)

RequestIndex ==
  /\ \E j \in 1 .. NumJobs : Queue!Create(j, 0)
  /\ routes' = routes + 1
  /\ UNCHANGED <<ledgerVars, handler, rated, documentVars>>

\* The job is visible to the workers already when the route marks the document.
MarkIndexing ==
  /\ routes > 0
  /\ routes' = routes - 1
  /\ docStatus' = "indexing"
  /\ UNCHANGED <<queueVars, ledgerVars, handler, rated, stored>>

-----------------------------------------------------------------------------
(* The handler                                                             *)

OpOf(w) == handler[w].op
CostOf(w) == handler[w].cost
IsAt(w, place) == handler[w].place = place
Goto(w, place, op) == handler' = [handler EXCEPT ![w] = At(place, op)]
GotoWithCost(w, place, n) ==
  handler' = [handler EXCEPT ![w] = [At(place, OpOf(w)) EXCEPT !.cost = n]]

\* The dispatcher's own steps: a claim starts the handler, and it dies with its process.
DispatcherStep(w) ==
  /\ Queue!WorkerStep(w) \/ Queue!RenewLease(w) \/ Queue!Stop(w) \/ Queue!FaultStep(w)
  /\ handler' = [handler EXCEPT ![w] =
       IF pc'[w] # "handling" THEN NotRunning
       ELSE IF pc[w] # "handling" THEN At("reserve", Embedding) ELSE @]
  /\ UNCHANGED <<ledgerVars, rated, documentVars, routes>>

\* Mutant: every attempt reserves anew.
ReserveEveryTime(w) ==
  /\ opened' = TRUE
  /\ available' = Ledger!OpenedAvailable - EstimatedCredits
  /\ reserved' = reserved + EstimatedCredits
  /\ state' = [state EXCEPT ![OpOf(w)] = "reserved"]
  /\ held' = [held EXCEPT ![OpOf(w)] = EstimatedCredits]
  /\ UNCHANGED <<spent, charged, entryType, entryAmount, entryUsage, rated, documentVars>>

\* begin(): the reservation; a key that is there already is replayed as it is.
Reserve(w) ==
  /\ \/ Ledger!Reserve(OpOf(w), EstimatedCredits)
     \/ Ledger!ReserveReplays(OpOf(w), EstimatedCredits) /\ UNCHANGED ledgerVars
  /\ UNCHANGED <<rated, documentVars>>

\* The embedding call is the provider's; the storing of the entries is the work of the
\* other operation.
Work(w) ==
  /\ stored' = (stored \/ OpOf(w) = RagStorage)
  /\ UNCHANGED <<ledgerVars, rated, docStatus>>

\* Mutant: the rated event is overwritten by the latest evidence.
RateOverwriting(w) ==
  /\ rated' = [rated EXCEPT ![OpOf(w)] = CostOf(w)]
  /\ UNCHANGED <<ledgerVars, documentVars>>

\* complete() rates the usage first; other evidence under the same key is a conflict.
Rate(w) ==
  /\ rated[OpOf(w)] \in {0, CostOf(w)}
  /\ rated' = [rated EXCEPT ![OpOf(w)] = CostOf(w)]
  /\ UNCHANGED <<ledgerVars, documentVars>>

\* Mutant: a reservation that is not active counts as settled.
SettleIfActive(w) ==
  /\ \/ Ledger!Settle(OpOf(w), CostOf(w))
     \/ state[OpOf(w)] # "reserved" /\ UNCHANGED ledgerVars
  /\ UNCHANGED <<rated, documentVars>>

\* complete() settles the reservation then, in a transaction of its own.
Settle(w) ==
  /\ \/ Ledger!Settle(OpOf(w), CostOf(w))
     \/ Ledger!SettleReplays(OpOf(w), CostOf(w)) /\ UNCHANGED ledgerVars
  /\ UNCHANGED <<rated, documentVars>>

SetIndexed ==
  /\ docStatus' = "indexed"
  /\ UNCHANGED <<ledgerVars, rated, stored>>

\* The call the handler is awaiting.
Call(w) ==
  \/ IsAt(w, "reserve") /\ Reserve(w)
  \/ IsAt(w, "work") /\ Work(w)
  \/ IsAt(w, "rate") /\ Rate(w)
  \/ IsAt(w, "settle") /\ Settle(w)
  \/ IsAt(w, "mark indexed") /\ SetIndexed

\* The provider reports the tokens it counted; what is stored costs its estimate.
ActualCosts(w) == IF OpOf(w) = Embedding THEN 1 .. MaxCredits ELSE {EstimatedCredits}

Continue(w) ==
  \/ IsAt(w, "reserve") /\ Goto(w, "work", OpOf(w))
  \/ IsAt(w, "work") /\ \E n \in ActualCosts(w) : GotoWithCost(w, "rate", n)
  \/ IsAt(w, "rate") /\ GotoWithCost(w, "settle", CostOf(w))
  \/ IsAt(w, "settle") /\ OpOf(w) = Embedding /\ Goto(w, "reserve", RagStorage)
  \/ IsAt(w, "settle") /\ OpOf(w) = RagStorage /\ Goto(w, "mark indexed", RagStorage)

\* The catch releases the operation that was begun and not completed.
Catch(w) ==
  IF handler[w].place \in {"work", "rate", "settle"}
  THEN Goto(w, "release", OpOf(w)) ELSE Goto(w, "mark failed", Embedding)

CallReturns(w) ==
  /\ Call(w)
  /\ Continue(w)
  /\ UNCHANGED <<queueVars, routes>>

\* The call is refused, fails, or takes effect without its answer getting through.
CallThrows(w) ==
  /\ handler[w].place \in {"reserve", "work", "rate", "settle", "mark indexed"}
  /\ Call(w) \/ UNCHANGED <<ledgerVars, rated, documentVars>>
  /\ Catch(w)
  /\ UNCHANGED <<queueVars, routes>>

\* A release that fails is only logged.
ReleaseHeld(w) ==
  /\ IsAt(w, "release")
  /\ Ledger!Release(OpOf(w)) \/ UNCHANGED ledgerVars
  /\ Goto(w, "mark failed", Embedding)
  /\ UNCHANGED <<queueVars, rated, documentVars, routes>>

MarkIndexed(w) ==
  /\ IsAt(w, "mark indexed")
  /\ SetIndexed
  /\ Queue!HandlerReturns(w)
  /\ handler' = [handler EXCEPT ![w] = NotRunning]
  /\ UNCHANGED routes

\* Mutant: the catch does not throw the error on.
MarkFailedSwallowing(w) ==
  /\ IsAt(w, "mark failed")
  /\ docStatus' \in {docStatus, "failed"}
  /\ Queue!HandlerReturns(w)
  /\ handler' = [handler EXCEPT ![w] = NotRunning]
  /\ UNCHANGED <<ledgerVars, rated, stored, routes>>

\* markStatus('failed') may fail too; the handler throws either way.
MarkFailed(w) ==
  /\ IsAt(w, "mark failed")
  /\ docStatus' \in {docStatus, "failed"}
  /\ Queue!HandlerThrows(w)
  /\ handler' = [handler EXCEPT ![w] = NotRunning]
  /\ UNCHANGED <<ledgerVars, rated, stored, routes>>

Tick ==
  /\ Queue!Tick
  /\ UNCHANGED <<ledgerVars, handler, rated, documentVars, routes>>

Next ==
  \/ RequestIndex \/ MarkIndexing
  \/ \E w \in Workers :
       \/ DispatcherStep(w)
       \/ CallReturns(w) \/ CallThrows(w) \/ ReleaseHeld(w)
       \/ MarkIndexed(w) \/ MarkFailed(w)
  \/ Tick

Spec == Init /\ [][Next]_vars

-----------------------------------------------------------------------------
(* Properties                                                              *)

\* Nothing is served from a document whose metered work nobody paid: entries are stored
\* only after the embedding was settled, and a document was marked indexed only after
\* its storage was, whichever attempts crashed or overlapped.
IndexedIsPaid ==
  /\ stored => state[Embedding] = "settled"
  /\ docStatus = "indexed" => stored /\ state[RagStorage] = "settled"

RatedCharge(op) == IF state[op] = "settled" THEN rated[op] ELSE 0

\* The ledger charges what was rated, although rating and settling are two transactions
\* that crashes and overlapping attempts with other token counts come between, and the
\* workspace has spent just that: no attempt is paid for twice and none for nothing.
ChargedAsRated ==
  /\ \A op \in Operations : state[op] = "settled" => charged[op] = rated[op]
  /\ spent = RatedCharge(Embedding) + RatedCharge(RagStorage)

\* A job counts as succeeded, and is never tried again, only when the entries of its
\* document are stored, both operations are settled and no credits of them are held, of
\* whatever became of the attempts before it and beside it: the queue learns of the work
\* only what the handler returns or throws.
SucceededIsPaid ==
  (\E j \in 1 .. NumJobs : status[j] = "succeeded")
    => /\ stored /\ reserved = 0
       /\ \A op \in Operations : state[op] = "settled"

\* USAGE_RATING.md: work that succeeded is settled, so its reservation is still active
\* (or settled by another attempt) when complete() is called.
SuccessfulWorkCanSettle ==
  \A w \in Workers :
    handler[w].place \in {"rate", "settle"} => state[OpOf(w)] # "released"

\* AI_ITERATION_PLAN.md: the status records the job's success once nothing is under way.
SuccessIsRecorded ==
  /\ routes = 0
  /\ \A j \in 1 .. NumJobs : status[j] \in {"absent", "succeeded"}
  /\ \A w \in Workers : handler[w].place = "idle"
  /\ \E j \in 1 .. NumJobs : status[j] = "succeeded"
  => docStatus = "indexed"
=============================================================================
