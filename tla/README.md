# Primalthrum in TLA+

Primalthrum is a multi-tenant service that runs language-model agents: a Koa API and its
background workers (`src/server`), a Python agent runtime behind HTTP (`src/agent`), a web
client (`src/web`). This directory specifies the parts of the server whose correctness
depends on the order in which processes, transactions and failures interleave. The modules
are translated from the asynchronous (PostgreSQL) repositories under
`src/server/src/services` and from the handlers in `src/server/src/app.ts`; `PROJECT.json`
maps each definition to its lines.

## Inventory

| component | state | operations | what is hard | what makes it correct |
|---|---|---|---|---|
| durable job queue | `jobs` rows: status, attempts, lease, run_at, dedupe key; per worker the recovery promise, the drain and the job it runs | create, createUnique, claimNext, renewLease, recoverInterrupted, markSucceeded, markFailed; start, kick, drain, stop | several workers, leases that run out while a handler works, crashes, lost answers, rolling stops | an attempt has one owner and one end, attempts are bounded and counted, every job ends, stop returns |
| credit ledger | credit account, reservations, usage events, append-only entries | grant, reserve, settle, release, refund, account | idempotent retries in any order, settlements that differ from the estimate, partial refunds | balances equal the records, nothing is charged beyond the balance, a reservation ends once |
| document indexing | document status, index entries, metered operations | the index route, the `document.index` handler, begin / complete / release | two attempts at once, failures between rating and settling, retries under the same keys | what is served is paid, what is charged is what was rated, a job succeeds only with its work paid |
| streamed agent runs | runs, stream events, usage of the run | handleStream, replay | client disconnects, agent failures, process death, failing calls in the clean-up | every run ends, evidence is settled, the rest is released |
| usage rating | prices, rated events, budgets, alerts | rate, quote, assertProjected, setControls | the budget is checked in another transaction than the charge | one event per key, the hard limit |
| outboxes (usage export, account email) | rows with attempts, next attempt, delivery lease; the provider's reports on emails; per process one dispatcher for each | claim, markDelivered, markFailed, supersede, delivery reports; start, stop | delivery leases without an owner, late and lost results, stalled dispatchers, a stop that rejects | settled rows are final, two deliveries overlap only past a lease, no row is stuck |
| payments | webhook events, subscription with its cursor, invoices, refunds, credit grants | receiveWebhook, process, finishWebhook | events duplicated, out of order, in the same second, or retried after a crash | the subscription follows the newest event, an invoice grants its credits once, a refund ends only what was cancelled |
| workspace membership, ownership | memberships, invitations | invite, accept, change role, remove, transfer | role checks without a lock against the transfer, invitations that outlive the workspace | one active owner, nobody else in a closed workspace |
| account deletion, privacy | requests, users, workspaces, files | request, cancel, schedule, execute | cancellation, legal holds, transfers and other members' deletions against the due job | nothing held is erased, no one against their will, a request is settled |
| retention, legal holds | policies, pending file deletions, holds | enforce, drain files, place, release | a hold placed while deletions are pending, a removal that looks at no hold | what is held stays |
| identity, abuse protection, operator console, entitlements and trials | single guarded rows | | little interleaving beyond one row | |
| agents, providers, storage, database tools, tracing, web client, agent runtime | configuration and I/O | | | |

Interactions: API requests create jobs and the dispatcher of any worker process runs them
(through the `jobs` table only); handlers meter their work by reserving credits, rating
the usage and settling the reservation, three transactions that share only the operation's
key; `rate` writes the export outbox in its own transaction. Account deletion is such a
job, and it takes memberships, legal holds and the subscription into account, which API
requests change meanwhile. The provider's webhooks drive the subscription and grant credits in
the ledger. Outbox rows are written by the transactions they report on and delivered by the
dispatchers of any process. Workers and API processes share nothing but the database, file storage and the agent runtime.

## Modules

| module | what it is |
|---|---|
| `JobLifecycle` | abstract: what the queue promises about one job |
| `JobQueue` | the `jobs` table and the dispatcher of every worker; implements `JobLifecycle` |
| `JobQueueProofs` | its inductive invariant, safety, which worker ends a lease, refinement |
| `PrepaidAccount` | abstract: what the ledger promises to whoever pays |
| `CreditLedger` | the ledger of one workspace; implements `PrepaidAccount` |
| `Sums`, `SumsTheorems` | partial sums, and the facts about them the ledger's proofs use |
| `CreditLedgerProofs` | its inductive invariant, safety, finality, refinement |
| `DocumentIndexing` | the index route and handler, over `INSTANCE`s of `JobQueue` and `CreditLedger` |
| `DocumentIndexingProofs` | its inductive invariant, what is paid and charged, which jobs succeed, its use of ledger and queue, what follows for its jobs and credits |
| `MeteredRun` | abstract: one run, one call of the agent, one bill |
| `RunStream` | a streamed agent run and the requests under its idempotency key, over an `INSTANCE` of `CreditLedger`; implements `MeteredRun` |
| `RunStreamProofs` | its inductive invariant, safety, finality, what follows for its credits, refinement |
| `MessageDelivery` | abstract: what an outbox promises about its messages |
| `DeliveryOutbox` | the rows of both outboxes and the dispatchers of every process; implements `MessageDelivery` |
| `DeliveryOutboxProofs` | its inductive invariant, safety, finality, refinement |
| `PaymentWebhooks` | the provider's events and the subscription, invoices and grants they drive |
| `PaymentWebhooksProofs` | its inductive invariant and safety |
| `WorkspaceGovernance` | members, owner, account deletion, legal holds and retention of one workspace |
| `WorkspaceGovernanceProofs` | its inductive invariant, safety, what holds preserve |
| `MC...` | instances for TLC |

### JobQueue

One SQL statement is one step, and what a dispatcher does between two awaits belongs to
the step before it. `status`, `attempts`, `leaseOwner`, `leaseLeft`, `delay`, `dedupeKey` are
the columns; `leaseLeft` and `delay` count down to `lease_expires_at` and `run_at`, and
`Tick` is the clock all replicas read from the database. Per worker, `recovery` is the
promise of `resume()`, `sinceRecovery` the age of `lastRecoveryAt`, `pc` the await
`drain()` stands at, `current` and `attempt` the job it runs. A restarted process draws a new lease owner
and is another worker. Faults are a crash (`Crash`), a call that fails without effect
(`CallFails`) and one that commits while its answer is lost (`ReplyLost`).

`LoopTop` deserves a word: `acceptingWork` is read right after the await that precedes it,
so a `stop()` that comes while `claimNext` is in flight does not undo that claim.

### CreditLedger

Each operation takes the advisory lock of its workspace, so it is one step and one
workspace suffices. A replayed call changes nothing and a refused one is rolled back:
neither is a step. The CHECKs of `credit_accounts` are left out on purpose: `TypeOK` shows
that the code's own guards keep the balances from going negative. The entries that
`reserve`, `settle` and `release` append are determined by the reservation and are not
kept as state; those of `grant` and `refund` are.

### DocumentIndexing

`handler[w].place` is the call the handler of worker `w` awaits. Every call may return,
fail, or take effect without its answer (`CallThrows`); the catch releases what was begun
and not completed and marks the document failed. Reading the file and pricing have no
effect and fail as part of the call that follows them. The model has retrieval switched
on; an agent without it does no metered work. The two operations of the handler are the
two reservations of the ledger, with keys that every attempt shares.

### RunStream

`request[r].place` is the await `handleStream` stands at for request `r`; `owed` are the
measurements it still has to rate before it goes on, `usageReserved` is its local of that
name and `ends` stands for `sawAgentError` and `status`. The shared rows are the run's
`runStatus`, its `events` (ids are positions), its rated usage (`evidence` holds the keys,
`ratedCredits` the sum) and its one reservation in the ledger. `open[r]` is the connection
as the server sees it, `reading` as the client sees it: a client may reconnect
before the server notices that the old connection is gone. The server notices (`Disconnect`)
only from `create` on, where `handleStream` adds its `close` listener (`app.ts:2322-2325`); a
client that left during the lookup stays `open` for good and its run goes on. `AbortController`
is `Abort`, which rejects the call of the agent and its stream once `open[r]` is false. The
embedding of the query (`embed`) is a call of the agent, too, but takes no signal. `Throw` is the way
into the catch block, `Finally` the test at the head of the finally block; both read
`open[r]` at the moment the code reads `signal.aborted`. Every database call may fail
with or without effect (`CallFails`), every process may die with a call under way (`Crash`). The
rest of the workspace's ledger traffic is `CreditLedger`'s subject and left out here.

`MeteredRun` is what all this amounts to for whoever pays: `Phase` maps the run's status to
absent, active or ended, the credits are the state of its one reservation, the measurements
are `evidence`, and what is paid is what the ledger spent. Requests, connections and the log
do not show.

### DeliveryOutbox

`status`, `attempts`, `dead` are the columns; `ripe[r]` says whether the time a row waits for,
its lease or its next attempt, has come, so no clock is needed. `drain[<<p, o>>]` is the
dispatcher of process `p` for outbox `o`: the row it holds, the attempt number it was given
and the await it stands at, before or after the receiver answered. The claim
writes no owner, so `markDelivered` and `markFailed` apply to whatever the row has become; their
guards in SQL are the guards here. `accepted[r]` counts what the receiver took, which no
column does, and `overrun` remembers the rows that were held past their lease. Usage exports are retried
without end and emails die after `MaxAttempts` reported failures. Batches are delivered one
row after another; the model claims row by row. A `stop()` that rejects leaves the other
outbox's drain running into a closed database.

`MessageDelivery` is the view of whoever submits a message: `Outcome` maps a row that waits
or is being delivered to `due`, so claims, leases and retries are stuttering steps, and what
the receiver accepts while nobody hears of it is a step of its own.

### PaymentWebhooks

An instance is given the `Histories` to be checked: what the provider's events carry and the
second in which they were created. An event not yet created is one not yet delivered. A
subscription event carries its state and, apart from it, the flag `cancel_at_period_end`, which
is stored as it comes, so that a later payment may turn a flagged subscription that was past due
into one that ends. A refunded charge may be whole or partial, with or without an invoice and a
list of refunds; an invoice's event may leave it unpaid. An event is delivered until it is
answered with success (`acked`), by any of the concurrent requests in `handler`, each of
whose places is a call `PaymentWebhookProcessor` awaits. `row` and `ripe` are the claim of
`receiveWebhook`: a row that is received or failed may be taken again when it failed or its
five minutes have passed; until then a repeated delivery is answered as a duplicate, which
`early` records. An event counts as `Concluded` when its row is processed or it was answered
with success while nobody worked on it: the provider will not deliver it again. `cursor` is the newest event applied, `Newer` the comparison with it, of
seconds and refs. `RefundEvidence` asks for an applied event that ended the subscription or
carried the flag, whatever the state became since. The end of a grace period and the start of a trial change the state without
moving the cursor and are steps of their own.

### WorkspaceGovernance

One workspace, its members and its one document. `updateMemberRole` and `removeMember` read
and write in two steps (`change`), `transfer` and `accept` are transactions with locks and
one step each. Neither `createInvitation` nor `acceptInvitationRecord` asks whether the workspace
was closed meanwhile: what waits for the eraser's locks goes on after its commit, and `stray`
records whose invitation was inserted by then. `StartRemoval` and `Remove` are the route that
deletes a document: its index entries, its file, its row, whatever holds there are. An attempt of `account.delete` reads outside its transaction and then
works under the locks of what it listed: `attempt[x]` holds its place and what it read, and its
writes become visible in `Commit`. `job` is `JobQueue` as the handler sees it: attempts in a row,
two at a time when one outlived its lease (`Expire`). `raced` is set where memberships change
between a check and the write that relies on it; the properties say exactly what holds without
that, and which races there are. `late` records the users who cancelled while an
attempt was under way.

## Runs

| run | result | shows |
|---|---|---|
| `job_queue` | pass | `AttemptsAccounted`, `LeaseMatchesStatus`, `AttemptsAreFenced`, `DedupeKeepsOneActive`, `LiveLeaseEndsByItsHolder`, and that `JobQueue` implements `JobLifecycle` |
| `job_queue_live` | pass | `EveryJobFinishes`, `StopReturnsInTheEnd` |
| `job_queue_startup_failure` | violation | `ExpiredLeaseIsRecovered` fails once a recovery at startup was rejected |
| `credit_ledger` | pass | `Reconciles`, `RefundsWithinCharge`, `ReservationEndsOnce`, and that `CreditLedger` implements `PrepaidAccount` |
| `document_indexing` | pass | `IndexedIsPaid`, `ChargedAsRated`, `SucceededIsPaid` |
| `document_indexing_retry` | violation | `SuccessfulWorkCanSettle`: a retry works against a released reservation |
| `document_indexing_status` | violation | `SuccessIsRecorded`: the route overwrites `indexed` |
| `run_stream` | pass | `UsageAccounted`, `SeenInOrder`, `TerminalIsFinal`, `RunEndsAfterDisconnect`, and that `RunStream` implements `MeteredRun` |
| `run_stream_unsettled` | violation | `ConsumedIsSettled`: the refused settlement of a run that used too much is only logged |
| `delivery_outbox` | pass | `ExclusiveDelivery`, `DeliveryEvidence`, `AttemptsBounded`, `EventuallySettled`, and that `DeliveryOutbox` implements `MessageDelivery` |
| `payment_webhooks` | pass | `NewestEventWins`, `CreditsMatchInvoices`, `RefundEvidence`, `EventuallyProcessed` |
| `workspace_governance` | pass | `OwnerKept`, `HoldsPreserve`, `ErasureIsWanted`, `DeletionSettles` |

### Bounds

* `job_queue`: two workers (the owner of a lease and a rival), two jobs (one can be taken
  while the other is recovered; two with one dedupe key), two attempts (one retry and the
  last), leases of two ticks with a recovery every tick, so that a lease can be renewed,
  expire unnoticed and be recovered; two faults, enough for a crash during the second attempt
  of a job whose first one was lost. The recovery at startup may be rejected. Workers are
  symmetric.
* `job_queue_live`: one job and no symmetry, three faults.
* `credit_ledger`: three reservations, two keys, amounts up to two: a settlement below,
  at and above what was held, two partial refunds, a balance that runs out. Keys run out
  too, so deadlock is not checked.
* `document_indexing`: one job, two workers, two attempts that may overlap, one queue
  fault, handler faults without a bound; estimates of one credit, actual costs up to two
  and a balance of three, so a settlement can be refused.
* `run_stream`: two requests (one that runs, one that races with it or replays it), two
  events of the agent, so that usage can be reported twice and a tool call can follow an
  error; one credit per measurement with an estimate of two and a balance of three, so that
  the rated usage falls below, at and above the reservation and beyond the balance; one
  failing call or crash. Requests are numbered in the order they are sent. The requests run out,
  so deadlock is not checked.
* `delivery_outbox`: two processes that compete, one export and one email (rows of one
  outbox do not interact), two attempts (one retry and the last), two refusals and one fault:
  a stall past the lease, a stop, a crash or a failed call.
* `payment_webhooks`: thirteen pairs of events, the first created before, with or after the
  second: cancellations, payments, failures, unpaid invoices, whole, partial, bare and separate
  refunds, an event nobody handles; and a history of three, a subscription that is past due and
  flagged to end, paid, then refunded. One invoice, two requests at a time, one fault. A cursor
  needs two events to be wrong, a refund that ends what only a flag announced three; a grant
  needs two handlers to be doubled. Deliveries come to an end, so deadlock is not checked.
* `workspace_governance`: a founder who asks for deletion and one member, two attempts at a time, two
  attempts of a request and of a job, one hold, two changes of memberships (an invitation and
  its acceptance, or a change that a transfer interleaves), one fault. Two users who
  leave at once exceed what TLC finishes in minutes; the theorems cover any number.

### Fairness

`FairSpec` assumes that time passes, that timers fire, that an alive process takes its
steps (`setInterval` polls, awaited calls settle) and that handlers end. The code sets no time
limit on the agent and storage calls they make (`agentHttpClient.ts:17-20`,
`agentEmbeddingClient.ts:28-36`): what ends them is the HTTP client's own, with Node's `fetch`
about five minutes without headers or data. `EveryJobFinishes`, `StopReturnsInTheEnd` and
`DeletionSettles` rest on that. Crashes, stops and failed calls are not fair and
`MaxFaults` bounds them, because nothing finishes under failures without end. `Crash` and
`Stop` leave one worker that runs or may start: the deployment keeps a replica
(`src/docs/POSTGRES_PERSISTENCE.md`). Heartbeats are not assumed at all: a job finishes
even when each of its leases runs out.

`RunStream` assumes only that a request takes its own steps: database calls return and an
abort rejects what is awaited with its signal. The agent is not assumed to answer, neither its
run nor the embedding of the query, and the client is not assumed to stay or to leave. That is
why `RunEndsAfterDisconnect` starts where the server noticed the disconnection, and why it lets
the embedding hold the run up: only the HTTP client ends that call. It is claimed for runs without faults; what a fault in the
finally block leaves behind is listed as a hazard.

`DeliveryOutbox` assumes that dispatchers go on (the timer kicks them every second, requests
time out), that waits end and that a server that went down is started again.
`PaymentWebhooks` assumes that some request proceeds and that the provider delivers some event
it has no success for; no request and no event is given a turn of its own. A row may still be
marked failed by a request that was overtaken, so `EventuallyProcessed` asks that every event is
and stays processed in the end.
`WorkspaceGovernance` assumes the scheduler's tick, the queue's promise (a job is claimed,
a lease that ran out is recovered) and that handlers proceed. Faults, changes, cancellations and
holds are never fair.

## Proofs

Checked by TLAPS for every value of the constants, from the named assumptions of the modules
(`JobQueueAssumption`, `CreditLedgerAssumption` and so on) only.

* **Job queue.** `AttemptsAccounted` alone is not inductive: a claim adds an attempt, which
  is in bounds only if a pending row has one left, and `AttemptsAreFenced` needs to know
  that only a running row is leased and that a claim's attempt is larger than any given
  before. `QueueInv` is the type of the table and of the workers, the row invariants,
  `HoldersHaveJobs` (a drain that holds a job names it), `HoldersAreCounted` (its attempt was
  counted) and `AttemptsAreFenced`. Every step changes the table in one of six ways (`TableChange`:
  insert, claim, end of attempts, success, time, nothing); one lemma per way shows the
  table part and one lemma per action the worker part. `QueueIsSafe`,
  `QueueImplementsLifecycle` and `LiveLeasesEndByTheirHolder` follow from `QueueInductive`.
* **Credit ledger.** `LedgerInv` adds `ChargedWhenSettled` (only a settled reservation
  has charges) to type, reconciliation and the refund limit. The sums change at one index per step:
  `SumsTheorems` shows what an update at one index does to a partial sum, by the invariance
  of the difference of two partial-sum functions. The steps of `Next` are calls with bounded
  amounts; the lemmas are stated for `AnyCall`, whose amounts are any natural numbers, so that
  a component that charges what it measured can cite them (`CallKeeps`, `CallSparesFinal`,
  `CallIsPrepaid`). `LedgerReconciles`,
  `ReservationsAreFinal` and `LedgerImplementsPrepaidAccount` follow from `LedgerInductive`.
* **Document indexing.** `HandlersInv` adds what the handler of an attempt may rely on at each
  place although other attempts overlap with it (`Relies`: whoever works on the storage has the
  embedding settled, whoever settles has its own evidence rated). It is kept because settlements,
  evidence and stored entries only grow (`Grows`). `IndexedDocumentsArePaid` and
  `ChargesAreRated` follow, and `SucceededJobsArePaid` with `Believed`: a dispatcher reports success
  only of a handler that returned, and no step of the queue makes one return; `IndexingUsesLedger` and `IndexingUsesQueue` show that every step is
  one that `CreditLedger` and `JobQueue` allow. What is proved of these two modules is then
  carried over: `DocumentIndexingProofs` instantiates `JobQueueProofs` and `CreditLedgerProofs`
  with the parameters the model gives the modules themselves, shows that both instances define
  the same steps (`SameQueueSteps`, `SameLedgerSteps`) and that their assumptions hold, and
  cites the lemmas. The result are theorems about index jobs: `IndexJobsAreSafe`,
  `IndexLeasesEndByTheirHolder`, `IndexJobsHaveLifecycle`, `IndexingReconciles`,
  `IndexingEndsOnce`, `IndexingIsPrepaid`; `ChargesAreRated` needs the ledger's invariant to say that
  all the workspace spent is what was rated, and `DocumentTypes` both.
* **Streamed run.** `RunInv` says what holds while the one request that has the run stands at
  a place (`At`): where credits are reserved, where no call was made, how long the log may
  be. `DataOK` ties the reservation to evidence and charges. There is one lemma per
  action; `CommittedSurvives` and `FailureStep` treat the call that commits although it throws
  once for all places. `RunTypes`, `RunsOnce`, `RunReadInOrder` and
  `RunEndIsFinal` follow. A run may cost more than any amount an instance of the ledger is given, so
  its steps are `AnyCall`s of the ledger (`StepIsUsageCall`); the ledger's invariant is kept along
  (`UsageLedgerInvariant`), which gives `RunReconciles`, `RunUsageAccounted`, `RunSettlesOnce` and `RunIsPrepaid`.
  `RunImplementsMeteredRun` maps every step to one of `MeteredRun` or a stutter: what a request does
  in one go is what the call it awaits may commit (`CommittedIsMetered`), the call of the agent, or
  nothing that is billed. The proof found that the model had let a dead
  process go on rating usage (`Over` kept what was owed) and an ambiguous `CASE`; both are mended.
* **Outboxes.** `OutboxInv` adds that a dispatcher holds an inserted row in a counted attempt
  (`HoldersInv`), that what is acknowledged was accepted before (`AcceptedFirst`), that one
  dispatcher holds a row whose lease is fresh (`HeldOnce`), what holds before the first failure
  (`CalmInv`) and that the attempts which reported a failure are bounded (`AttemptsTold`).
  `DeliveriesAreExclusive`, `SettledRowsAreFinal`, `DeliveriesHaveEvidence` and
  `EmailAttemptsBounded` follow. `OutboxImplementsDelivery` maps each step to one of `MessageDelivery`:
  `AcceptedFirst` makes `Deliver`'s guard true, and the guards of `markDelivered`, `markFailed`
  and `supersede` keep what is settled out of reach of late dispatchers.
* **Webhooks.** `WebhooksInv` adds what a request knows at each place of its handler (`Knows`).
  Evidence is only ever added (`Grows`), so a step of one request keeps what the others
  know. What holds when a row is processed does not stay with the row: a request that was
  overtaken may mark it failed afterwards. A refund rests on `Ends`: while the subscription is
  cancelled or carries the flag, and while a request remembers the flag, an applied event says so. `Done` says the same of the evidence instead, it
  lasts (`DoneLasts`), and `AnsweredDone` says it of every event the provider was told is
  done, by the request that finished it or as a duplicate nobody worked on. `WebhooksTyped`, `SubscriptionFollowsNewestEvent`, `InvoicesGrantOnce` and
  `RefundsEndOnlyCancelled` follow.
* **Governance.** `GovernanceInv` adds what an attempt may rely on at each place (`Relies`: what
  it read is still so, unless memberships raced with it; `Wanted`: nobody cancelled before it
  began); a member of a closed workspace has a stray invitation. `OwnersAreKept`, `ErasuresAreWanted` and `HoldsAreKept` follow. The proof found a race no
  instance of TLC had: two members who delete their accounts at the same time
  (see below).

Only model-checked are the liveness properties, one or two of each run under fairness:
fairness and ENABLED are beyond the proof system. Every other property of a passing run is a
theorem. What is summed over a workspace's reservations is a recursive function; facts about its
value need an induction the provers cannot be given in general, so `SumOfFew` unfolds it for the
one or two reservations a composed module uses and the ledger's own proofs reason about differences.

## Findings

1. A worker whose first recovery is rejected keeps that rejected promise and does no more
   work until it is restarted, while it looks alive (`durableJobDispatcher.ts:30-34,79`).
2. The operation key of an indexing job is the same in every attempt, so an attempt that
   follows a failed one is given its released reservation: the provider is called, the usage is
   rated, and the settlement is refused (`meteredOperationService.ts:44`).
3. The index route marks the document `indexing` after the job became visible and may
   overwrite `indexed` (`app.ts:1835-1840`); search then ignores the document.
4. A run reserves the estimate of its model tokens and run unit. Embedding, retrieval and tool
   calls are rated on top without a limit; when the sum exceeds the reservation and the
   available credits the settlement is refused and only logged, the usage stays unpaid and the
   reservation is held for good (`app.ts:2594-2601`). Invariant 8 of `USAGE_RATING.md` and
   invariant 6 of `BILLING_LEDGER.md` also disagree with each other about failed runs with
   usage; the code follows the former, and so does `UsageAccounted`.

### Divergences without a run of their own

Reachable in the passing runs; the properties there are stated with the exception.

* A repeated delivery within five minutes of a handler that died is answered as a duplicate with success, so
  the event may be lost (`early`; `asyncPaymentLifecycleRepository.ts:313`).
* `invoice.paid` moves the subscription's cursor, so a cancellation created before it and
  delivered after it is dropped (`paymentWebhookProcessor.ts:176`).
* Two dispatchers deliver one row when a delivery outlives its lease (`overrun`);
  `USAGE_RATING.md` says that competing dispatchers cannot send the same event twice.
* Attempts that end by an expired lease are not held against an email's maximum of eight
  (`AttemptsBounded`; `TRANSACTIONAL_EMAIL.md:55`).
* `updateMemberRole` and `removeMember` may demote or remove the new owner after a transfer that
  came between their read and their write (`raced`; `WORKSPACE_OWNERSHIP.md:3`).
* `execute` re-checks the blockers under its locks but erases by the workspaces it listed
  before: a workspace may be left open without an owner, also when two members' deletions
  overlap (`raced`; `asyncAccountDeletionService.ts:106-113`).
* `execute` ignores the status `beginDeletion` returns, so a request cancelled while an attempt
  is under way is executed all the same (`late`; `ACCOUNT_PRIVACY_RIGHTS.md`).
* Files are deleted inside the transaction and stay lost if it rolls back; a
  request left `processing` by the last attempt of its job is looked at by no scheduler (`Stranded`).
* A file whose deletion was under way is deleted under a hold placed meanwhile
  (`HoldsPreserve`; `LEGAL_HOLDS.md`).
* `DELETE /api/agents/:id/documents/:documentId` removes the index entries, the file and the row
  of a document without looking at holds (`app.ts:1849-1875`), while `LEGAL_HOLDS.md:3-5` says that
  holds "preserve all retention-controlled customer records for a Workspace". `HoldsPreserve`
  therefore says of retention and of account deletion what it does not say of this route.
* An invitation inserted after its workspace was closed can be accepted (`stray`;
  `asyncWorkspaceRepository.ts:288-331,435-471`).
* A client that leaves before the `close` listener is added is never noticed, and a disconnect
  does not end the embedding of the query (`app.ts:2322-2325,2399`).
* A provider's report on an email that arrives before `markDelivered` has stored the message's id
  finds no row and is lost (`asyncAccountEmailOutboxRepository.ts:276`).

## Not modelled

* In the components that are modelled partly: prices, budgets and alerts of usage rating
  (`rate` chooses a cost), checkout sessions and their completion, customer rows, plan changes and the mock
  provider of payments, conversations and the tool audit of a run, invitations' expiry and
  revocation, exports of personal data, retention of runs and conversations.
* `POST /api/runs/:id/events` (`app.ts:2168-2198`) appends an event to a run of any status. It is
  not modelled: `TerminalIsFinal` and `SeenInOrder` are about what `handleStream` and the replay do.
* Sessions, account tokens, multi-factor authentication, abuse protection, feature flags and
  incidents: one guarded statement on one row each, which a unit test reaches.
* The SQLite twins of the repositories: one process, one connection, no interleaving. The
  asynchronous repositories are what production runs.
* Migrations, backup and transfer tools, HTTP plumbing, configuration, the web client
  and the agent runtime. These are most of the implementation's lines and hold no protocol between
  actors, so the share of lines the modules stand for stays small.

## Plan

Done: the queue every background job goes through, the ledger every metered operation goes
through, the handler that uses both, the streamed run, both outboxes, the payment
webhooks, and membership with account deletion and holds. Left, in this order:

1. Budgets in `UsageRating`: the check in a transaction of its own against concurrent runs.
2. Checkouts in `PaymentWebhooks`; a second workspace in
   `WorkspaceGovernance`, so that a deletion lists more than one.
