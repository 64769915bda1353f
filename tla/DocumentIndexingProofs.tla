----------------------- MODULE DocumentIndexingProofs -----------------------
(***************************************************************************)
(* What is served of a document is paid for, what is charged is what was   *)
(* rated, and the handler uses the ledger and the queue as they allow, for *)
(* every number of workers, jobs, attempts and credits.  The inductive     *)
(* invariant says what the handler of a worker may rely on at each of its  *)
(* places although attempts overlap (Relies): a settlement is final, and   *)
(* rated evidence is never replaced.                                       *)
(***************************************************************************)
EXTENDS DocumentIndexing, TLAPS

Record == [place : Places, op : Operations, cost : 0 .. MaxCredits]

\* The reservations, their charges and the evidence.
AccountType ==
  /\ state \in [Operations -> {"none", "reserved", "settled", "released"}]
  /\ charged \in [Operations -> Nat]
  /\ rated \in [Operations -> 0 .. MaxCredits]

\* What a settlement means for its operation.
Settled(op) == state[op] = "settled" => rated[op] # 0 /\ charged[op] = rated[op]

\* What holds while a handler with record h waits at its place.
Relies(h) ==
  /\ h.op = RagStorage /\ h.place # "idle" => state[Embedding] = "settled"
  /\ h.place \in {"rate", "settle"} => h.cost # 0
  /\ h.place = "settle" => rated[h.op] = h.cost
  /\ h.op = RagStorage /\ h.place \in {"rate", "settle"} => stored
  /\ h.place = "mark indexed" => stored /\ state[RagStorage] = "settled"

Accounts ==
  /\ AccountType
  /\ \A op \in Operations : Settled(op)
  /\ IndexedIsPaid

\* The inductive invariant.
HandlersInv ==
  /\ Accounts
  /\ handler \in [Workers -> Record]
  /\ \A w \in Workers : Relies(handler[w])

\* Settlements and evidence are final, and entries stay stored.
Grows ==
  /\ \A op \in Operations : state[op] = "settled" => state'[op] = "settled"
  /\ \A op \in Operations : rated[op] # 0 => rated'[op] = rated[op]
  /\ stored => stored'

LEMMA ReliesKept ==
  ASSUME Accounts, NEW h \in Record, Relies(h), Grows
  PROVE  Relies(h)'
BY DEF Relies, Grows, Record, Operations, Embedding, RagStorage

\* One handler goes on to n, the others rely on what has only grown.
LEMMA OneGoesOn ==
  ASSUME HandlersInv, Grows, Accounts', NEW w \in Workers, NEW n \in Record,
         handler' = [handler EXCEPT ![w] = n], Relies(n)'
  PROVE  HandlersInv'
<1>1. handler' \in [Workers -> Record]
  BY DEF HandlersInv
<1>2. ASSUME NEW v \in Workers PROVE Relies(handler[v])'
  <2>1. CASE v = w
    <3>1. handler'[v] = n
      BY <2>1 DEF HandlersInv
    <3>2. QED
      BY <3>1 DEF Relies
  <2>2. CASE v # w
    <3>1. handler'[v] = handler[v] /\ handler[v] \in Record
      BY <2>2 DEF HandlersInv
    <3>2. QED
      BY <3>1, ReliesKept DEF HandlersInv, Relies
  <2>3. QED
    BY <2>1, <2>2
<1>3. QED
  BY <1>1, <1>2 DEF HandlersInv

-----------------------------------------------------------------------------
(* The calls                                                               *)

LEMMA TwoOperations ==
  /\ Operations = {Embedding, RagStorage}
  /\ Embedding # RagStorage
BY DEF Operations, Embedding, RagStorage

LEMMA Costs ==
  /\ 0 .. MaxCredits \subseteq Nat
  /\ 0 \in 0 .. MaxCredits
  /\ 1 .. MaxCredits \subseteq 0 .. MaxCredits \ {0}
  /\ EstimatedCredits \in 1 .. MaxCredits
BY DocumentIndexingAssumption

LEMMA RecordsAt ==
  ASSUME NEW place \in Places, NEW op \in Operations
  PROVE  At(place, op) \in Record
BY Costs DEF At, Record

LEMMA ReserveKeeps ==
  ASSUME HandlersInv, NEW w \in Workers, Reserve(w)
  PROVE  Grows /\ Accounts'
<1>1. OpOf(w) \in Operations
  BY DEF HandlersInv, Record, OpOf
<1>2. UNCHANGED <<charged, rated, docStatus, stored>>
  BY DEF Reserve, Ledger!Reserve, Ledger!entryVars, ledgerVars, documentVars
<1>3. \/ state' = state
      \/ state[OpOf(w)] = "none" /\ state' = [state EXCEPT ![OpOf(w)] = "reserved"]
  BY DEF Reserve, Ledger!Reserve, ledgerVars
<1>4. QED
  BY <1>1, <1>2, <1>3, TwoOperations
     DEF HandlersInv, Accounts, AccountType, Settled, IndexedIsPaid, Grows

LEMMA WorkKeeps ==
  ASSUME HandlersInv, NEW w \in Workers, IsAt(w, "work"), Work(w)
  PROVE  Grows /\ Accounts'
<1>1. Relies(handler[w])
  BY DEF HandlersInv
<1>2. UNCHANGED <<state, charged, rated, docStatus>>
  BY DEF Work, ledgerVars
<1>3. stored' => stored \/ state[Embedding] = "settled"
  BY <1>1 DEF Work, Relies, IsAt, OpOf
<1>4. stored => stored'
  BY DEF Work
<1>5. QED
  BY <1>2, <1>3, <1>4
     DEF HandlersInv, Accounts, AccountType, Settled, IndexedIsPaid, Grows

LEMMA RateKeeps ==
  ASSUME HandlersInv, NEW w \in Workers, IsAt(w, "rate"), Rate(w)
  PROVE  Grows /\ Accounts' /\ rated'[OpOf(w)] = CostOf(w)
<1>1. OpOf(w) \in Operations /\ CostOf(w) \in 0 .. MaxCredits
  BY DEF HandlersInv, Record, OpOf, CostOf
<1>2. UNCHANGED <<state, charged, docStatus, stored>>
  BY DEF Rate, ledgerVars, documentVars
<1>3. /\ rated[OpOf(w)] = 0 \/ rated[OpOf(w)] = CostOf(w)
      /\ rated' = [rated EXCEPT ![OpOf(w)] = CostOf(w)]
  BY DEF Rate
<1>4. \A op \in Operations : rated[op] # 0 => rated'[op] = rated[op]
  BY <1>1, <1>3 DEF HandlersInv, Accounts, AccountType
<1>5. \A op \in Operations : Settled(op)'
  BY <1>2, <1>4 DEF HandlersInv, Accounts, Settled
<1>6. QED
  BY <1>1, <1>2, <1>3, <1>4, <1>5
     DEF HandlersInv, Accounts, AccountType, IndexedIsPaid, Grows

LEMMA SettleKeeps ==
  ASSUME HandlersInv, NEW w \in Workers, IsAt(w, "settle"), Settle(w)
  PROVE  Grows /\ Accounts' /\ state'[OpOf(w)] = "settled"
<1>1. OpOf(w) \in Operations /\ CostOf(w) \in 0 .. MaxCredits
  BY DEF HandlersInv, Record, OpOf, CostOf
<1>2. CostOf(w) # 0 /\ rated[OpOf(w)] = CostOf(w)
  BY DEF HandlersInv, Relies, IsAt, OpOf, CostOf
<1>3. UNCHANGED <<rated, docStatus, stored>>
  BY DEF Settle, documentVars
<1>4. CASE Ledger!Settle(OpOf(w), CostOf(w))
  <2>1. /\ state' = [state EXCEPT ![OpOf(w)] = "settled"]
        /\ charged' = [charged EXCEPT ![OpOf(w)] = CostOf(w)]
    BY <1>4 DEF Ledger!Settle
  <2>2. \A op \in Operations : Settled(op)'
    BY <1>1, <1>2, <1>3, <2>1 DEF HandlersInv, Accounts, AccountType, Settled
  <2>3. AccountType'
    BY <1>1, <1>3, <2>1, Costs DEF HandlersInv, Accounts, AccountType
  <2>4. QED
    BY <1>1, <1>3, <2>1, <2>2, <2>3, TwoOperations
       DEF HandlersInv, Accounts, AccountType, IndexedIsPaid, Grows
<1>5. CASE Ledger!SettleReplays(OpOf(w), CostOf(w)) /\ UNCHANGED ledgerVars
  BY <1>1, <1>3, <1>5
     DEF Ledger!SettleReplays, ledgerVars, HandlersInv, Accounts, AccountType, Settled,
         IndexedIsPaid, Grows
<1>6. QED
  BY <1>4, <1>5 DEF Settle

LEMMA SetIndexedKeeps ==
  ASSUME HandlersInv, NEW w \in Workers, IsAt(w, "mark indexed"), SetIndexed
  PROVE  Grows /\ Accounts'
BY DEF HandlersInv, Relies, IsAt, SetIndexed, ledgerVars, Accounts, AccountType, Settled,
       IndexedIsPaid, Grows

LEMMA NothingKeeps ==
  ASSUME HandlersInv, UNCHANGED <<state, charged, rated, docStatus, stored>>
  PROVE  Grows /\ Accounts'
BY DEF HandlersInv, Accounts, AccountType, Settled, IndexedIsPaid, Grows

LEMMA CallKeeps ==
  ASSUME HandlersInv, NEW w \in Workers, Call(w)
  PROVE  Grows /\ Accounts'
BY ReserveKeeps, WorkKeeps, RateKeeps, SettleKeeps, SetIndexedKeeps DEF Call

-----------------------------------------------------------------------------
(* The steps of the handler                                                *)

LEMMA GoneWithCost ==
  ASSUME HandlersInv, NEW w \in Workers, NEW op \in Operations, op = OpOf(w),
         NEW place \in Places, NEW n \in 0 .. MaxCredits, GotoWithCost(w, place, n)
  PROVE  /\ [place |-> place, op |-> op, cost |-> n] \in Record
         /\ handler' = [handler EXCEPT ![w] = [place |-> place, op |-> op, cost |-> n]]
<1>1. [At(place, op) EXCEPT !.cost = n] = [place |-> place, op |-> op, cost |-> n]
  BY DEF At
<1>2. QED
  BY <1>1 DEF Record, GotoWithCost

LEMMA Continues ==
  ASSUME HandlersInv, NEW w \in Workers, Call(w), Continue(w)
  PROVE  HandlersInv'
<1>1. Grows /\ Accounts'
  BY CallKeeps
<1>2. PICK op \in Operations : op = OpOf(w)
  BY DEF HandlersInv, Record, OpOf
<1>3. PICK c \in 0 .. MaxCredits : c = CostOf(w)
  BY DEF HandlersInv, Record, CostOf
<1>4. op = RagStorage /\ ~IsAt(w, "idle") => state'[Embedding] = "settled"
  BY <1>1, <1>2, TwoOperations DEF HandlersInv, Relies, OpOf, IsAt, Grows
<1>5. CASE IsAt(w, "reserve") /\ Goto(w, "work", OpOf(w))
  <2>1. At("work", op) \in Record
    BY RecordsAt DEF Places
  <2>2. Relies(At("work", op))'
    BY <1>4, <1>5 DEF Relies, At, IsAt
  <2>3. QED
    BY <1>1, <1>2, <1>5, <2>1, <2>2, OneGoesOn DEF Goto
<1>6. CASE IsAt(w, "work") /\ \E n \in ActualCosts(w) : GotoWithCost(w, "rate", n)
  <2>1. PICK n \in 0 .. MaxCredits : n # 0 /\ GotoWithCost(w, "rate", n)
    BY <1>6, Costs DEF ActualCosts
  <2> DEFINE h == [place |-> "rate", op |-> op, cost |-> n]
  <2>2. h \in Record /\ handler' = [handler EXCEPT ![w] = h]
    <3>1. "rate" \in Places
      BY DEF Places
    <3>2. QED
      BY <1>2, <2>1, <3>1, GoneWithCost
  <2>3. op = RagStorage => stored'
    BY <1>2, <1>6, TwoOperations DEF Call, Work, IsAt
  <2>4. Relies(h)'
    BY <1>4, <1>6, <2>1, <2>3 DEF Relies, IsAt
  <2>5. QED
    BY <1>1, <2>2, <2>4, OneGoesOn
<1>7. CASE IsAt(w, "rate") /\ GotoWithCost(w, "settle", CostOf(w))
  <2> DEFINE h == [place |-> "settle", op |-> op, cost |-> c]
  <2>1. GotoWithCost(w, "settle", c)
    BY <1>3, <1>7
  <2>2. h \in Record /\ handler' = [handler EXCEPT ![w] = h]
    <3>1. "settle" \in Places
      BY DEF Places
    <3>2. QED
      BY <1>2, <2>1, <3>1, GoneWithCost
  <2>3. Rate(w)
    BY <1>7 DEF Call, IsAt
  <2>4. rated'[op] = c
    BY <1>2, <1>3, <1>7, <2>3, RateKeeps
  <2>5. c # 0 /\ (op = RagStorage => stored')
    BY <1>1, <1>2, <1>3, <1>7 DEF HandlersInv, Relies, IsAt, OpOf, CostOf, Grows
  <2>6. Relies(h)'
    BY <1>4, <1>7, <2>4, <2>5 DEF Relies, IsAt
  <2>7. QED
    BY <1>1, <2>2, <2>6, OneGoesOn
<1>8. ASSUME IsAt(w, "settle")
      PROVE  /\ state'[op] = "settled"
             /\ op = RagStorage => stored'
  <2>1. Settle(w)
    BY <1>8 DEF Call, IsAt
  <2>2. state'[op] = "settled"
    BY <1>2, <1>8, <2>1, SettleKeeps
  <2>3. op = RagStorage => stored
    BY <1>2, <1>8 DEF HandlersInv, Relies, IsAt, OpOf
  <2>4. QED
    BY <1>1, <2>2, <2>3 DEF Grows
<1>9. CASE IsAt(w, "settle") /\ OpOf(w) = Embedding /\ Goto(w, "reserve", RagStorage)
  <2>1. At("reserve", RagStorage) \in Record
    BY TwoOperations, RecordsAt DEF Places
  <2>2. Relies(At("reserve", RagStorage))'
    BY <1>2, <1>8, <1>9 DEF Relies, At
  <2>3. QED
    BY <1>1, <1>9, <2>1, <2>2, OneGoesOn DEF Goto
<1>10. CASE IsAt(w, "settle") /\ OpOf(w) = RagStorage /\ Goto(w, "mark indexed", RagStorage)
  <2>1. At("mark indexed", RagStorage) \in Record
    BY TwoOperations, RecordsAt DEF Places
  <2>2. Relies(At("mark indexed", RagStorage))'
    BY <1>2, <1>4, <1>8, <1>10 DEF Relies, At, IsAt
  <2>3. QED
    BY <1>1, <1>10, <2>1, <2>2, OneGoesOn DEF Goto
<1>11. QED
  BY <1>5, <1>6, <1>7, <1>9, <1>10 DEF Continue

LEMMA Catches ==
  ASSUME HandlersInv, NEW w \in Workers, Grows, Accounts', handler[w].place # "idle",
         Catch(w)
  PROVE  HandlersInv'
<1>1. PICK op \in Operations : op = OpOf(w)
  BY DEF HandlersInv, Record, OpOf
<1>2. CASE Goto(w, "release", OpOf(w))
  <2>1. At("release", op) \in Record
    BY RecordsAt DEF Places
  <2>2. op = RagStorage => state'[Embedding] = "settled"
    BY <1>1, TwoOperations DEF HandlersInv, Relies, OpOf, Grows
  <2>3. Relies(At("release", op))'
    BY <2>2 DEF Relies, At
  <2>4. QED
    BY <1>1, <1>2, <2>1, <2>3, OneGoesOn DEF Goto
<1>3. CASE Goto(w, "mark failed", Embedding)
  <2>1. At("mark failed", Embedding) \in Record
    BY TwoOperations, RecordsAt DEF Places
  <2>2. Relies(At("mark failed", Embedding))'
    BY TwoOperations DEF Relies, At
  <2>3. QED
    BY <1>3, <2>1, <2>2, OneGoesOn DEF Goto
<1>4. QED
  BY <1>2, <1>3 DEF Catch

LEMMA Stops ==
  ASSUME HandlersInv, NEW w \in Workers, Grows, Accounts',
         handler' = [handler EXCEPT ![w] = NotRunning]
  PROVE  HandlersInv'
<1>1. At("idle", Embedding) \in Record
  BY TwoOperations, RecordsAt DEF Places
<1>2. Relies(At("idle", Embedding))'
  BY TwoOperations DEF Relies, At
<1>3. QED
  BY <1>1, <1>2, OneGoesOn DEF NotRunning

-----------------------------------------------------------------------------
(* The inductive invariant                                                 *)

LEMMA NotCalling ==
  ASSUME HandlersInv, UNCHANGED <<ledgerVars, rated, documentVars>>
  PROVE  Grows /\ Accounts'
BY NothingKeeps DEF ledgerVars, documentVars

LEMMA ReleaseKeeps ==
  ASSUME HandlersInv, NEW w \in Workers, Ledger!Release(OpOf(w)) \/ UNCHANGED ledgerVars,
         UNCHANGED <<rated, documentVars>>
  PROVE  Grows /\ Accounts'
<1>1. OpOf(w) \in Operations
  BY DEF HandlersInv, Record, OpOf
<1>2. UNCHANGED <<charged, rated, docStatus, stored>>
  BY DEF Ledger!Release, ledgerVars, documentVars
<1>3. \/ state' = state
      \/ state[OpOf(w)] = "reserved" /\ state' = [state EXCEPT ![OpOf(w)] = "released"]
  BY DEF Ledger!Release, ledgerVars
<1>4. QED
  BY <1>1, <1>2, <1>3, TwoOperations
     DEF HandlersInv, Accounts, AccountType, Settled, IndexedIsPaid, Grows

LEMMA DispatcherKeeps ==
  ASSUME HandlersInv, NEW w \in Workers, DispatcherStep(w)
  PROVE  HandlersInv'
<1>1. Grows /\ Accounts'
  BY NotCalling DEF DispatcherStep
<1>2. CASE handler' = [handler EXCEPT ![w] = NotRunning]
  BY <1>1, <1>2, Stops
<1>3. CASE handler' = [handler EXCEPT ![w] = At("reserve", Embedding)]
  <2>1. At("reserve", Embedding) \in Record
    BY TwoOperations, RecordsAt DEF Places
  <2>2. Relies(At("reserve", Embedding))'
    BY TwoOperations DEF Relies, At
  <2>3. QED
    BY <1>1, <1>3, <2>1, <2>2, OneGoesOn
<1>4. CASE handler' = [handler EXCEPT ![w] = handler[w]]
  <2>1. PICK h \in Record : h = handler[w]
    BY DEF HandlersInv
  <2>2. Relies(h)
    BY <2>1 DEF HandlersInv, Relies
  <2>3. Relies(h)'
    BY <1>1, <2>2, ReliesKept DEF HandlersInv
  <2>4. QED
    BY <1>1, <1>4, <2>1, <2>3, OneGoesOn
<1>5. QED
  BY <1>2, <1>3, <1>4 DEF DispatcherStep

LEMMA CallThrowsKeeps ==
  ASSUME HandlersInv, NEW w \in Workers, CallThrows(w)
  PROVE  HandlersInv'
<1>1. Grows /\ Accounts'
  BY CallKeeps, NotCalling DEF CallThrows
<1>2. handler[w].place # "idle"
  BY DEF CallThrows
<1>3. QED
  BY <1>1, <1>2, Catches DEF CallThrows

LEMMA ReleaseHeldKeeps ==
  ASSUME HandlersInv, NEW w \in Workers, ReleaseHeld(w)
  PROVE  HandlersInv'
<1>1. Grows /\ Accounts'
  BY ReleaseKeeps DEF ReleaseHeld
<1>2. At("mark failed", Embedding) \in Record
  BY TwoOperations, RecordsAt DEF Places
<1>3. Relies(At("mark failed", Embedding))'
  BY TwoOperations DEF Relies, At
<1>4. QED
  BY <1>1, <1>2, <1>3, OneGoesOn DEF ReleaseHeld, Goto

LEMMA MarkKeeps ==
  ASSUME HandlersInv, NEW w \in Workers, MarkIndexed(w) \/ MarkFailed(w)
  PROVE  HandlersInv'
<1>1. CASE MarkIndexed(w)
  BY <1>1, SetIndexedKeeps, Stops DEF MarkIndexed
<1>2. CASE MarkFailed(w)
  <2>1. UNCHANGED <<state, charged, rated, stored>> /\ docStatus' \in {docStatus, "failed"}
    BY <1>2 DEF MarkFailed, ledgerVars
  <2>2. Grows /\ Accounts'
    BY <2>1 DEF HandlersInv, Accounts, AccountType, Settled, IndexedIsPaid, Grows
  <2>3. QED
    BY <1>2, <2>2, Stops DEF MarkFailed
<1>3. QED
  BY <1>1, <1>2

LEMMA RestKeeps ==
  ASSUME HandlersInv, handler' = handler,
         UNCHANGED <<state, charged, rated, stored>>, docStatus' \in {docStatus, "indexing"}
  PROVE  HandlersInv'
BY DEF HandlersInv, Relies, Accounts, AccountType, Settled, IndexedIsPaid

\* What the handlers of overlapping attempts rely on is there initially...
THEOREM HandlersInit == Init => HandlersInv
<1> SUFFICES ASSUME Init PROVE HandlersInv
  OBVIOUS
<1>1. NotRunning \in Record
  BY TwoOperations, RecordsAt DEF NotRunning, Places
<1>2. handler \in [Workers -> Record]
  BY <1>1 DEF Init
<1>3. ASSUME NEW w \in Workers PROVE Relies(handler[w])
  BY <1>3, TwoOperations DEF Init, NotRunning, At, Relies
<1>4. AccountType
  BY Costs DEF Init, Ledger!Init, Ledger!Reservations, AccountType, Operations, Embedding, RagStorage
<1>5. \A op \in Operations : Settled(op)
  BY DEF Init, Ledger!Init, Ledger!Reservations, Settled, Operations, Embedding, RagStorage
<1>6. IndexedIsPaid
  BY DEF Init, IndexedIsPaid
<1>7. QED
  BY <1>2, <1>3, <1>4, <1>5, <1>6 DEF HandlersInv, Accounts

\* ... and no step of any worker takes it away from another.
THEOREM HandlersInductive == HandlersInv /\ [Next]_vars => HandlersInv'
<1> SUFFICES ASSUME HandlersInv, [Next]_vars PROVE HandlersInv'
  OBVIOUS
<1>1. CASE RequestIndex
  BY <1>1, RestKeeps DEF RequestIndex, ledgerVars, documentVars
<1>2. CASE MarkIndexing
  BY <1>2, RestKeeps DEF MarkIndexing, ledgerVars
<1>3. ASSUME NEW w \in Workers, DispatcherStep(w) PROVE HandlersInv'
  BY <1>3, DispatcherKeeps
<1>4. ASSUME NEW w \in Workers, CallReturns(w) PROVE HandlersInv'
  BY <1>4, Continues DEF CallReturns
<1>5. ASSUME NEW w \in Workers, CallThrows(w) PROVE HandlersInv'
  BY <1>5, CallThrowsKeeps
<1>6. ASSUME NEW w \in Workers, ReleaseHeld(w) PROVE HandlersInv'
  BY <1>6, ReleaseHeldKeeps
<1>7. ASSUME NEW w \in Workers, MarkIndexed(w) \/ MarkFailed(w) PROVE HandlersInv'
  BY <1>7, MarkKeeps
<1>8. CASE Tick
  BY <1>8, RestKeeps DEF Tick, ledgerVars, documentVars
<1>9. CASE UNCHANGED vars
  BY <1>9, RestKeeps DEF vars, ledgerVars, documentVars
<1>10. QED
  BY <1>1, <1>2, <1>3, <1>4, <1>5, <1>6, <1>7, <1>8, <1>9 DEF Next

\* A document is served only from entries whose embedding was paid for, and is marked
\* indexed only when its storage was (meteredOperationService.ts, the handler of app.ts).
THEOREM IndexedDocumentsArePaid == Spec => []IndexedIsPaid
<1>1. HandlersInv => IndexedIsPaid
  BY DEF HandlersInv, Accounts
<1>2. QED
  BY HandlersInit, HandlersInductive, <1>1, PTL DEF Spec

-----------------------------------------------------------------------------
(* The ledger and the queue the handler uses                               *)

LEMMA LedgerParameters ==
  /\ Operations = Ledger!Reservations
  /\ Ledger!Amounts = 1 .. MaxCredits
BY DEF Operations, Embedding, RagStorage, Ledger!Reservations, Ledger!Amounts

LEMMA RestsLedger ==
  ASSUME UNCHANGED ledgerVars
  PROVE  UNCHANGED Ledger!ledgerVars
BY DEF ledgerVars, Ledger!ledgerVars, Ledger!accountVars, Ledger!reservationVars,
       Ledger!entryVars

LEMMA CallIsLedgerStep ==
  ASSUME HandlersInv, NEW w \in Workers, Call(w)
  PROVE  [Ledger!Next]_(Ledger!ledgerVars)
<1>1. PICK op \in Operations : op = OpOf(w)
  BY DEF HandlersInv, Record, OpOf
<1>2. CostOf(w) \in Ledger!Amounts \cup {0}
  BY LedgerParameters, DocumentIndexingAssumption DEF HandlersInv, Record, CostOf
<1>3. EstimatedCredits \in Ledger!Amounts
  BY LedgerParameters, Costs
<1>4. CASE UNCHANGED ledgerVars
  BY <1>4, RestsLedger
<1>5. CASE Ledger!Reserve(OpOf(w), EstimatedCredits)
  BY <1>1, <1>3, <1>5, LedgerParameters DEF Ledger!Next
<1>6. CASE Ledger!Settle(OpOf(w), CostOf(w))
  BY <1>1, <1>2, <1>6, LedgerParameters DEF Ledger!Next
<1>7. QED
  BY <1>4, <1>5, <1>6 DEF Call, Reserve, Work, Rate, Settle, SetIndexed

LEMMA ReleaseIsLedgerStep ==
  ASSUME HandlersInv, NEW w \in Workers, ReleaseHeld(w)
  PROVE  [Ledger!Next]_(Ledger!ledgerVars)
<1>1. PICK op \in Operations : op = OpOf(w)
  BY DEF HandlersInv, Record, OpOf
<1>2. CASE Ledger!Release(OpOf(w))
  BY <1>1, <1>2, LedgerParameters DEF Ledger!Next
<1>3. QED
  BY <1>2, RestsLedger DEF ReleaseHeld

\* The handler's reservations, settlements and releases are calls the ledger allows.
LEMMA IndexingUsesLedger == Spec => Ledger!Spec
<1>1. Init => Ledger!Init
  BY DEF Init
<1>2. HandlersInv /\ [Next]_vars => [Ledger!Next]_(Ledger!ledgerVars)
  <2> SUFFICES ASSUME HandlersInv, [Next]_vars PROVE [Ledger!Next]_(Ledger!ledgerVars)
    OBVIOUS
  <2>1. CASE UNCHANGED ledgerVars
    BY <2>1, RestsLedger
  <2>2. ASSUME NEW w \in Workers, Call(w) PROVE [Ledger!Next]_(Ledger!ledgerVars)
    BY <2>2, CallIsLedgerStep
  <2>3. ASSUME NEW w \in Workers, ReleaseHeld(w) PROVE [Ledger!Next]_(Ledger!ledgerVars)
    BY <2>3, ReleaseIsLedgerStep
  <2>4. ASSUME NEW w \in Workers, MarkIndexed(w) PROVE UNCHANGED ledgerVars
    BY <2>4 DEF MarkIndexed, SetIndexed
  <2>5. QED
    BY <2>1, <2>2, <2>3, <2>4
       DEF Next, vars, RequestIndex, MarkIndexing, DispatcherStep, CallReturns, CallThrows,
           MarkFailed, Tick
<1>3. QED
  BY HandlersInit, HandlersInductive, <1>1, <1>2, PTL DEF Spec, Ledger!Spec

LEMMA RestsQueue ==
  ASSUME UNCHANGED queueVars
  PROVE  UNCHANGED Queue!vars
BY DEF queueVars, Queue!vars, Queue!jobVars, Queue!workerVars

\* Its jobs go through the queue as the queue allows, whatever the handler does: what is
\* proved of JobQueue, its attempts and leases, holds of index jobs.
THEOREM IndexingUsesQueue == Spec => Queue!Spec
<1>1. Init => Queue!Init
  BY DEF Init
<1>2. [Next]_vars => [Queue!Next]_(Queue!vars)
  <2> SUFFICES ASSUME [Next]_vars PROVE [Queue!Next]_(Queue!vars)
    OBVIOUS
  <2>1. CASE UNCHANGED queueVars
    BY <2>1, RestsQueue
  <2>2. CASE RequestIndex
    <3>1. 0 \in 0 .. 0
      OBVIOUS
    <3>2. Queue!Submission
      BY <2>2, <3>1 DEF RequestIndex, Queue!Submission, Queue!Jobs
    <3>3. QED
      BY <3>2 DEF Queue!Next
  <2>3. ASSUME NEW w \in Workers, DispatcherStep(w) PROVE Queue!Next
    BY <2>3 DEF DispatcherStep, Queue!Next
  <2>4. ASSUME NEW w \in Workers, MarkIndexed(w) \/ MarkFailed(w) PROVE Queue!Next
    BY <2>4 DEF MarkIndexed, MarkFailed, Queue!Next, Queue!HandlerStep
  <2>5. CASE Tick
    BY <2>5 DEF Tick, Queue!Next
  <2>6. QED
    BY <2>1, <2>2, <2>3, <2>4, <2>5
       DEF Next, vars, MarkIndexing, CallReturns, CallThrows, ReleaseHeld
<1>3. QED
  BY <1>1, <1>2, PTL DEF Spec, Queue!Spec

-----------------------------------------------------------------------------
(* What is proved of the queue holds of the queue the handler uses         *)

QueueFacts == INSTANCE JobQueueProofs
  WITH DedupeKeys <- {}, MaxDelay <- 0, StartupRecoveryMayFail <- FALSE

LEMMA QueueAssumed == QueueFacts!JobQueueAssumption
BY DocumentIndexingAssumption DEF QueueFacts!JobQueueAssumption

\* Queue and QueueFacts are instances of one module with the same parameters.
LEMMA SameQueueInit == Queue!Init <=> QueueFacts!Init
BY DEF Queue!Init, QueueFacts!Init, Queue!Jobs, QueueFacts!Jobs

LEMMA SameQueueTypes ==
  /\ Queue!TypeOK <=> QueueFacts!TypeOK
  /\ Queue!AttemptsAccounted <=> QueueFacts!AttemptsAccounted
  /\ Queue!LeaseMatchesStatus <=> QueueFacts!LeaseMatchesStatus
  /\ Queue!AttemptsAreFenced <=> QueueFacts!AttemptsAreFenced
BY DEF
  Queue!TypeOK, Queue!AttemptsAccounted, Queue!LeaseMatchesStatus, Queue!AttemptsAreFenced,
  Queue!OwnerRunsLatestAttempt, Queue!OneWorkerPerAttempt, Queue!Jobs, Queue!Owners, Queue!Pending, Queue!Active,
  Queue!Terminal, Queue!Statuses, Queue!Holding, Queue!Places,
  QueueFacts!TypeOK, QueueFacts!AttemptsAccounted, QueueFacts!LeaseMatchesStatus,
  QueueFacts!AttemptsAreFenced, QueueFacts!OwnerRunsLatestAttempt,
  QueueFacts!OneWorkerPerAttempt, QueueFacts!Jobs, QueueFacts!Owners, QueueFacts!Pending,
  QueueFacts!Active, QueueFacts!Terminal, QueueFacts!Statuses, QueueFacts!Holding,
  QueueFacts!Places

LEMMA SameQueueSteps ==
  [Queue!Next]_(Queue!vars) <=> [QueueFacts!Next]_(QueueFacts!vars)
BY DEF
  Queue!jobVars, Queue!workerVars, Queue!vars, Queue!Jobs, Queue!Pending, Queue!Active,
  Queue!Holding, Queue!Running, Queue!NextId, Queue!Insert, Queue!Create, Queue!KeyTaken,
  Queue!CreateUnique, Queue!Runnable, Queue!Claim, Queue!EndAttempt, Queue!Interrupted,
  Queue!RecoverInterrupted, Queue!MayFinish, Queue!Succeed, Queue!Goto, Queue!LetGo,
  Queue!LoopTop, Queue!Fault, Queue!Start, Queue!StartupRecovery, Queue!StartupRecoveryFails,
  Queue!Kick, Queue!RecoveryDue, Queue!DrainRecovers, Queue!DrainRejected, Queue!ClaimNext,
  Queue!DrainEnds, Queue!RenewLease, Queue!HandlerReturns, Queue!HandlerThrows,
  Queue!MarkSucceeded, Queue!MarkSucceededRefused, Queue!MarkFailed, Queue!MarkFailedRefused,
  Queue!Stop, Queue!StopReturns, Queue!Crash, Queue!CallsDatabase, Queue!CallFails,
  Queue!ReplyLost, Queue!Less, Queue!Tick, Queue!Submission, Queue!WorkerStep,
  Queue!HandlerStep, Queue!FaultStep, Queue!Next,
  QueueFacts!jobVars, QueueFacts!workerVars, QueueFacts!vars, QueueFacts!Jobs,
  QueueFacts!Pending, QueueFacts!Active, QueueFacts!Holding, QueueFacts!Running,
  QueueFacts!NextId, QueueFacts!Insert, QueueFacts!Create, QueueFacts!KeyTaken,
  QueueFacts!CreateUnique, QueueFacts!Runnable, QueueFacts!Claim, QueueFacts!EndAttempt,
  QueueFacts!Interrupted, QueueFacts!RecoverInterrupted, QueueFacts!MayFinish,
  QueueFacts!Succeed, QueueFacts!Goto, QueueFacts!LetGo, QueueFacts!LoopTop, QueueFacts!Fault,
  QueueFacts!Start, QueueFacts!StartupRecovery, QueueFacts!StartupRecoveryFails,
  QueueFacts!Kick, QueueFacts!RecoveryDue, QueueFacts!DrainRecovers, QueueFacts!DrainRejected,
  QueueFacts!ClaimNext, QueueFacts!DrainEnds, QueueFacts!RenewLease,
  QueueFacts!HandlerReturns, QueueFacts!HandlerThrows, QueueFacts!MarkSucceeded,
  QueueFacts!MarkSucceededRefused, QueueFacts!MarkFailed, QueueFacts!MarkFailedRefused,
  QueueFacts!Stop, QueueFacts!StopReturns, QueueFacts!Crash, QueueFacts!CallsDatabase,
  QueueFacts!CallFails, QueueFacts!ReplyLost, QueueFacts!Less, QueueFacts!Tick,
  QueueFacts!Submission, QueueFacts!WorkerStep, QueueFacts!HandlerStep, QueueFacts!FaultStep,
  QueueFacts!Next

LEMMA SameLifecycle ==
  [Queue!Lifecycle!Next]_(Queue!Lifecycle!vars)
    <=> [QueueFacts!Lifecycle!Next]_(QueueFacts!Lifecycle!vars)
BY DEF
  Queue!Lifecycle!Next, Queue!Lifecycle!vars, Queue!Lifecycle!Submit, Queue!Lifecycle!Attempt,
  Queue!Lifecycle!Succeed, Queue!Lifecycle!GiveUp, Queue!Lifecycle!Pending, Queue!Jobs,
  QueueFacts!Lifecycle!Next, QueueFacts!Lifecycle!vars, QueueFacts!Lifecycle!Submit,
  QueueFacts!Lifecycle!Attempt, QueueFacts!Lifecycle!Succeed, QueueFacts!Lifecycle!GiveUp,
  QueueFacts!Lifecycle!Pending, QueueFacts!Jobs

\* The queue's inductive invariant, of index jobs.
LEMMA QueueKept ==
  /\ Queue!Init => QueueFacts!QueueInv
  /\ QueueFacts!QueueInv /\ [Queue!Next]_(Queue!vars) => QueueFacts!QueueInv'
<1>1. QueueFacts!Init => QueueFacts!QueueInv
  BY QueueAssumed, QueueFacts!QueueInit
<1>2. QueueFacts!QueueInv /\ [QueueFacts!Next]_(QueueFacts!vars) => QueueFacts!QueueInv'
  BY QueueAssumed, QueueFacts!QueueInductive
<1>3. QED
  BY <1>1, <1>2, SameQueueInit, SameQueueSteps

\* An index job is attempted as often as it may be and by one worker per attempt, its lease
\* is where its status says, and whoever owns the lease runs the latest attempt.
THEOREM IndexJobsAreSafe ==
  Spec => [](/\ Queue!TypeOK /\ Queue!AttemptsAccounted /\ Queue!LeaseMatchesStatus
             /\ Queue!AttemptsAreFenced)
<1>1. QueueFacts!QueueInv
        => /\ Queue!TypeOK /\ Queue!AttemptsAccounted /\ Queue!LeaseMatchesStatus
           /\ Queue!AttemptsAreFenced
  BY QueueAssumed, QueueFacts!InvIsSafe, SameQueueTypes
<1>2. QED
  BY IndexingUsesQueue, QueueKept, <1>1, PTL DEF Queue!Spec

\* While its lease lasts, only the worker that runs an index job ends the attempt.
THEOREM IndexLeasesEndByTheirHolder == Spec => Queue!LiveLeaseEndsByItsHolder
<1>1. QueueFacts!QueueInv /\ [Queue!Next]_(Queue!vars)
        => [\A j \in Queue!Jobs :
              status[j] = "running" /\ leaseLeft[j] > 0 /\ status'[j] # "running"
                => \E w \in Workers : Queue!Reports(w, j)]_(Queue!vars)
  BY QueueAssumed, QueueFacts!StepEndsByHolder, SameQueueSteps
     DEF Queue!Jobs, QueueFacts!Jobs, Queue!Reports, QueueFacts!Reports
<1>2. QED
  BY IndexingUsesQueue, QueueKept, <1>1, PTL DEF Queue!Spec, Queue!LiveLeaseEndsByItsHolder

\* Whatever its handler does, an index job goes through the abstract lifecycle.
THEOREM IndexJobsHaveLifecycle == Spec => Queue!ImplementsLifecycle
<1>1. Queue!Init => Queue!Lifecycle!Init
  BY DEF Queue!Init, Queue!Lifecycle!Init
<1>2. QueueFacts!QueueInv /\ [Queue!Next]_(Queue!vars)
        => [Queue!Lifecycle!Next]_(Queue!Lifecycle!vars)
  BY QueueAssumed, QueueFacts!StepIsLifecycle, SameQueueSteps, SameLifecycle
<1>3. QED
  BY IndexingUsesQueue, QueueKept, <1>1, <1>2, PTL
     DEF Queue!Spec, Queue!ImplementsLifecycle, Queue!Lifecycle!Spec

-----------------------------------------------------------------------------
(* What is proved of the ledger holds of the workspace it meters           *)

LedgerFacts == INSTANCE CreditLedgerProofs
  WITH NumReservations <- 2, NumKeys <- 0, MaxAmount <- MaxCredits

LEMMA LedgerAssumed == LedgerFacts!CreditLedgerAssumption
BY DocumentIndexingAssumption DEF LedgerFacts!CreditLedgerAssumption

\* Ledger and LedgerFacts are instances of one module with the same parameters.
LEMMA SameLedgerInit == Ledger!Init <=> LedgerFacts!Init
BY DEF Ledger!Init, LedgerFacts!Init, Ledger!Reservations, LedgerFacts!Reservations,
       Ledger!Keys, LedgerFacts!Keys

LEMMA SameLedgerTypes ==
  /\ Ledger!TypeOK <=> LedgerFacts!TypeOK
  /\ Ledger!Reconciles <=> LedgerFacts!Reconciles
BY DEF
  Ledger!TypeOK, Ledger!Reconciles, Ledger!TotalHeld, Ledger!TotalSpent, Ledger!TotalGranted,
  Ledger!Holds, Ledger!NetCharges, Ledger!Grants, Ledger!Refunded, Ledger!RefundsOf,
  Ledger!SumTo, Ledger!PartialSums, Ledger!Reservations, Ledger!Keys,
  LedgerFacts!TypeOK, LedgerFacts!Reconciles, LedgerFacts!TotalHeld, LedgerFacts!TotalSpent,
  LedgerFacts!TotalGranted, LedgerFacts!Holds, LedgerFacts!NetCharges, LedgerFacts!Grants,
  LedgerFacts!Refunded, LedgerFacts!RefundsOf, LedgerFacts!SumTo, LedgerFacts!PartialSums,
  LedgerFacts!Reservations, LedgerFacts!Keys

LEMMA SameLedgerSteps ==
  [Ledger!Next]_(Ledger!ledgerVars) <=> [LedgerFacts!Next]_(LedgerFacts!ledgerVars)
BY DEF
  Ledger!Next, Ledger!OpenAccount, Ledger!OpenedAvailable, Ledger!Grant, Ledger!Record,
  Ledger!Reserve, Ledger!Settle, Ledger!Release, Ledger!RefundUsage, Ledger!Refunded,
  Ledger!RefundsOf, Ledger!SumTo, Ledger!PartialSums, Ledger!Reservations, Ledger!Keys,
  Ledger!Amounts, Ledger!ledgerVars, Ledger!accountVars, Ledger!reservationVars,
  Ledger!entryVars,
  LedgerFacts!Next, LedgerFacts!OpenAccount, LedgerFacts!OpenedAvailable, LedgerFacts!Grant,
  LedgerFacts!Record, LedgerFacts!Reserve, LedgerFacts!Settle, LedgerFacts!Release,
  LedgerFacts!RefundUsage, LedgerFacts!Refunded, LedgerFacts!RefundsOf, LedgerFacts!SumTo,
  LedgerFacts!PartialSums, LedgerFacts!Reservations, LedgerFacts!Keys, LedgerFacts!Amounts,
  LedgerFacts!ledgerVars, LedgerFacts!accountVars, LedgerFacts!reservationVars,
  LedgerFacts!entryVars

LEMMA SamePrepaid ==
  [Ledger!Prepaid!Next]_(Ledger!Prepaid!vars)
    <=> [LedgerFacts!Prepaid!Next]_(LedgerFacts!Prepaid!vars)
BY DEF
  Ledger!Prepaid!Next, Ledger!Prepaid!vars, Ledger!Prepaid!TopUp, Ledger!Prepaid!Charge,
  Ledger!Prepaid!Refund,
  LedgerFacts!Prepaid!Next, LedgerFacts!Prepaid!vars, LedgerFacts!Prepaid!TopUp,
  LedgerFacts!Prepaid!Charge, LedgerFacts!Prepaid!Refund

\* The ledger's inductive invariant, of the workspace that is charged for the document.
LEMMA LedgerKept ==
  /\ Ledger!Init => LedgerFacts!LedgerInv
  /\ LedgerFacts!LedgerInv /\ [Ledger!Next]_(Ledger!ledgerVars) => LedgerFacts!LedgerInv'
<1>1. LedgerFacts!Init => LedgerFacts!LedgerInv
  BY LedgerAssumed, LedgerFacts!LedgerInit
<1>2. LedgerFacts!LedgerInv /\ [LedgerFacts!Next]_(LedgerFacts!ledgerVars)
        => LedgerFacts!LedgerInv'
  BY LedgerAssumed, LedgerFacts!LedgerInductive
<1>3. QED
  BY <1>1, <1>2, SameLedgerInit, SameLedgerSteps

\* The credits of the workspace are those of its plan, available, held or spent, whatever
\* attempts are lost between reserving, rating and settling.
THEOREM IndexingReconciles == Spec => [](Ledger!TypeOK /\ Ledger!Reconciles)
<1>1. LedgerFacts!LedgerInv => Ledger!TypeOK /\ Ledger!Reconciles
  BY SameLedgerTypes DEF LedgerFacts!LedgerInv
<1>2. QED
  BY IndexingUsesLedger, LedgerKept, <1>1, PTL DEF Ledger!Spec

\* Whoever pays for the workspace sees a prepaid account, however attempts crash, overlap
\* and repeat their calls.
THEOREM IndexingIsPrepaid == Spec => Ledger!ImplementsPrepaidAccount
<1>1. Ledger!Init => Ledger!Prepaid!Init
  BY DEF Ledger!Init, Ledger!Prepaid!Init
<1>2. LedgerFacts!LedgerInv /\ [Ledger!Next]_(Ledger!ledgerVars)
        => [Ledger!Prepaid!Next]_(Ledger!Prepaid!vars)
  BY LedgerAssumed, LedgerFacts!NextIsCall, LedgerFacts!CallIsPrepaid, SameLedgerSteps,
     SamePrepaid
<1>3. QED
  BY IndexingUsesLedger, LedgerKept, <1>1, <1>2, PTL
     DEF Ledger!Spec, Ledger!ImplementsPrepaidAccount, Ledger!Prepaid!Spec

\* A handler that is late changes nothing of an operation another attempt ended.
THEOREM IndexingEndsOnce == Spec => Ledger!ReservationEndsOnce
<1>1. LedgerFacts!LedgerInv /\ [Ledger!Next]_(Ledger!ledgerVars)
        => [\A r \in Ledger!Reservations :
              Ledger!FinalReservation(r) =>
                state'[r] = state[r] /\ held'[r] = held[r] /\ charged'[r] = charged[r]]_(Ledger!ledgerVars)
  BY LedgerAssumed, LedgerFacts!NextIsCall, LedgerFacts!CallSparesFinal, SameLedgerSteps
     DEF Ledger!Reservations, LedgerFacts!Reservations, Ledger!FinalReservation,
         LedgerFacts!FinalReservation
<1>2. QED
  BY IndexingUsesLedger, LedgerKept, <1>1, PTL
     DEF Ledger!Spec, Ledger!ReservationEndsOnce

\* What the workspace spends on the document is what was rated of the operations that
\* were settled, each once, whatever attempts rate and settle and however often
\* (meteredOperationService.ts, asyncCreditLedgerRepository.ts).
THEOREM ChargesAreRated == Spec => []ChargedAsRated
<1>1. ASSUME HandlersInv, LedgerFacts!LedgerInv PROVE ChargedAsRated
  <2>1. spent = charged[1] + charged[2]
    BY <1>1, LedgerAssumed, LedgerFacts!TwoReservations
  <2>2. \A op \in Operations : state[op] # "settled" => charged[op] = 0
    BY <1>1, LedgerParameters
       DEF LedgerFacts!LedgerInv, LedgerFacts!ChargedWhenSettled, LedgerFacts!Reservations,
           Ledger!Reservations
  <2>3. \A op \in Operations : state[op] = "settled" => charged[op] = rated[op]
    BY <1>1 DEF HandlersInv, Accounts, Settled
  <2>4. \A op \in Operations : charged[op] = RatedCharge(op)
    BY <2>2, <2>3 DEF RatedCharge
  <2>5. QED
    BY <2>1, <2>3, <2>4, TwoOperations DEF ChargedAsRated, Embedding, RagStorage
<1>2. QED
  BY HandlersInit, HandlersInductive, IndexingUsesLedger, LedgerKept, <1>1, PTL
     DEF Spec, Ledger!Spec

-----------------------------------------------------------------------------
(* What the queue may believe of a job                                     *)

\* Stored and paid for.
Done == stored /\ \A op \in Operations : state[op] = "settled"

\* A handler returns, and so a job succeeds, only when the work is done.
Believed ==
  /\ \A w \in Workers : pc[w] = "succeeding" => Done
  /\ \A j \in 1 .. NumJobs : status[j] = "succeeded" => Done

\* What the queue does by itself makes no handler return and no other job succeed.
LEMMA QueueBelieves ==
  ASSUME status \in [1 .. NumJobs -> Queue!Statuses], pc \in [Workers -> Queue!Places],
         NEW w \in Workers,
         \/ Queue!WorkerStep(w) \/ Queue!RenewLease(w) \/ Queue!Stop(w) \/ Queue!FaultStep(w)
         \/ Queue!HandlerThrows(w)
  PROVE  /\ \A v \in Workers : pc'[v] = "succeeding" => pc[v] = "succeeding"
         /\ \A j \in 1 .. NumJobs :
              status'[j] = "succeeded" =>
                status[j] = "succeeded" \/ \E v \in Workers : pc[v] = "succeeding"
<1> USE DEF Queue!Jobs
<1>1. CASE Queue!Start(w) \/ Queue!Kick(w) \/ Queue!DrainRejected(w) \/ Queue!DrainEnds(w)
           \/ Queue!MarkSucceededRefused(w) \/ Queue!MarkFailedRefused(w)
           \/ Queue!StopReturns(w) \/ Queue!RenewLease(w) \/ Queue!Stop(w)
           \/ Queue!HandlerThrows(w) \/ Queue!Crash(w) \/ Queue!CallFails(w)
  BY <1>1 DEF Queue!Start, Queue!Kick, Queue!DrainRejected, Queue!DrainEnds,
     Queue!MarkSucceededRefused, Queue!MarkFailedRefused, Queue!StopReturns, Queue!RenewLease,
     Queue!Stop, Queue!HandlerThrows, Queue!Crash, Queue!CallFails, Queue!Goto, Queue!LetGo,
     Queue!jobVars, Queue!workerVars
<1>2. CASE Queue!StartupRecovery(w) \/ Queue!StartupRecoveryFails(w) \/ Queue!DrainRecovers(w)
  BY <1>2 DEF Queue!StartupRecovery, Queue!StartupRecoveryFails, Queue!DrainRecovers,
     Queue!RecoverInterrupted, Queue!EndAttempt, Queue!Goto, Queue!LoopTop, Queue!jobVars
<1>3. CASE Queue!ClaimNext(w)
  BY <1>3 DEF Queue!ClaimNext, Queue!Claim, Queue!Goto
<1>4. CASE Queue!MarkSucceeded(w) \/ Queue!MarkFailed(w)
  BY <1>4 DEF Queue!MarkSucceeded, Queue!MarkFailed, Queue!Succeed, Queue!EndAttempt,
     Queue!LetGo, Queue!Goto, Queue!LoopTop
<1>5. CASE Queue!ReplyLost(w)
  BY <1>5 DEF Queue!ReplyLost, Queue!RecoverInterrupted, Queue!EndAttempt, Queue!Claim,
     Queue!Succeed, Queue!LetGo, Queue!Goto
<1>6. QED
  BY <1>1, <1>2, <1>3, <1>4, <1>5 DEF Queue!WorkerStep, Queue!FaultStep

LEMMA DoneStays ==
  ASSUME HandlersInv, [Next]_vars, Done
  PROVE  Done'
<1>1. CASE UNCHANGED <<state, stored>>
  BY <1>1 DEF Done
<1>2. ASSUME Grows PROVE Done'
  BY <1>2 DEF Done, Grows
<1>3. ASSUME NEW w \in Workers, Call(w) PROVE Done'
  BY <1>2, <1>3, CallKeeps
<1>4. ASSUME NEW w \in Workers, ReleaseHeld(w) PROVE Done'
  BY <1>2, <1>4, ReleaseKeeps DEF ReleaseHeld
<1>5. QED
  BY <1>1, <1>3, <1>4
     DEF Next, vars, RequestIndex, MarkIndexing, DispatcherStep, CallReturns, CallThrows,
         MarkIndexed, SetIndexed, MarkFailed, Tick, ledgerVars, documentVars

LEMMA BelievedKept ==
  ASSUME Believed, HandlersInv, Queue!TypeOK, [Next]_vars
  PROVE  Believed'
<1>1. status \in [1 .. NumJobs -> Queue!Statuses] /\ pc \in [Workers -> Queue!Places]
  BY DEF Queue!TypeOK, Queue!Jobs
<1>2. CASE UNCHANGED <<status, pc>>
  BY <1>2, DoneStays DEF Believed
<1>3. CASE RequestIndex
  <2>1. PICK j \in 1 .. NumJobs : status' = [status EXCEPT ![j] = "queued"] /\ pc' = pc
    BY <1>3 DEF RequestIndex, Queue!Create, Queue!Insert, Queue!workerVars
  <2>2. QED
    BY <1>1, <2>1, DoneStays DEF Believed
<1>4. ASSUME NEW w \in Workers, DispatcherStep(w) \/ MarkFailed(w) PROVE Believed'
  BY <1>1, <1>4, QueueBelieves, DoneStays DEF DispatcherStep, MarkFailed, Believed
<1>5. ASSUME NEW w \in Workers, MarkIndexed(w) PROVE Believed'
  <2>1. Done
    BY <1>5, TwoOperations
       DEF MarkIndexed, IsAt, HandlersInv, Relies, Accounts, IndexedIsPaid, Done
  <2>2. QED
    BY <2>1, DoneStays DEF Believed
<1>6. QED
  BY <1>2, <1>3, <1>4, <1>5
     DEF Next, vars, queueVars, MarkIndexing, CallReturns, CallThrows, ReleaseHeld, Tick, Queue!Tick

\* A job succeeds only when the work on the document is stored and settled, and leaves no
\* credits held, whichever attempts were lost, refused or late: the handler returns at its
\* end only (app.ts) and the dispatcher reports nothing else (durableJobDispatcher.ts).
THEOREM SucceededJobsArePaid == Spec => []SucceededIsPaid
<1>1. Init => Believed
  BY DEF Init, Queue!Init, Queue!Jobs, Believed
<1>2. ASSUME Believed, LedgerFacts!LedgerInv PROVE SucceededIsPaid
  <2>1. reserved = LedgerFacts!Holds[1] + LedgerFacts!Holds[2]
    BY <1>2, LedgerAssumed, LedgerFacts!TwoReservations
  <2>2. Done => LedgerFacts!Holds[1] = 0 /\ LedgerFacts!Holds[2] = 0
    BY DEF Done, Operations, Embedding, RagStorage, LedgerFacts!Holds, LedgerFacts!Reservations
  <2>3. Done => reserved = 0
    BY <2>1, <2>2
  <2>4. QED
    BY <1>2, <2>3 DEF Believed, Done, SucceededIsPaid
<1>3. Believed /\ HandlersInv /\ Queue!TypeOK /\ [Next]_vars => Believed'
  BY BelievedKept
<1>4. Spec => []Queue!TypeOK
  BY IndexJobsAreSafe, PTL
<1>5. QED
  BY HandlersInit, HandlersInductive, IndexingUsesLedger, LedgerKept, <1>1, <1>2, <1>3, <1>4, PTL
     DEF Spec, Ledger!Spec

-----------------------------------------------------------------------------
(* Types                                                                   *)

\* Every route under way created a job of its own, so there are no more than jobs.
RoutesHaveJobs == routes \in 0 .. NumJobs /\ \A j \in 1 .. routes : status[j] # "absent"

DocumentType ==
  /\ docStatus \in {"registered", "indexing", "indexed", "failed"}
  /\ stored \in BOOLEAN

LEMMA DocumentTypeKept == DocumentType /\ [Next]_vars => DocumentType'
<1> SUFFICES ASSUME DocumentType, [Next]_vars PROVE DocumentType'
  OBVIOUS
<1> USE DEF DocumentType
<1>1. ASSUME UNCHANGED documentVars PROVE DocumentType'
  BY <1>1 DEF documentVars
<1>2. ASSUME NEW w \in Workers, Call(w) PROVE DocumentType'
  BY <1>1, <1>2 DEF Call, Reserve, Work, Rate, Settle, SetIndexed
<1>3. ASSUME NEW w \in Workers, MarkIndexed(w) \/ MarkFailed(w) PROVE DocumentType'
  BY <1>3 DEF MarkIndexed, MarkFailed, SetIndexed
<1>4. CASE MarkIndexing
  BY <1>4 DEF MarkIndexing
<1>5. QED
  BY <1>1, <1>2, <1>3, <1>4
     DEF Next, vars, RequestIndex, DispatcherStep, CallReturns, CallThrows, ReleaseHeld, Tick

\* A job that was created stays in the table.
LEMMA JobsStay ==
  ASSUME QueueFacts!QueueInv, [Queue!Next]_(Queue!vars), NEW j \in 1 .. NumJobs,
         status[j] # "absent"
  PROVE  status'[j] # "absent"
<1>1. [Queue!Lifecycle!Next]_(Queue!Lifecycle!vars)
  BY QueueAssumed, QueueFacts!StepIsLifecycle, SameQueueSteps, SameLifecycle
<1>2. status \in [1 .. NumJobs -> Queue!Statuses]
  BY QueueAssumed, QueueFacts!InvIsSafe, SameQueueTypes DEF Queue!TypeOK, Queue!Jobs
<1>3. QED
  BY <1>1, <1>2
     DEF Queue!Lifecycle!Next, Queue!Lifecycle!vars, Queue!Lifecycle!Submit,
         Queue!Lifecycle!Attempt, Queue!Lifecycle!Succeed, Queue!Lifecycle!GiveUp, Queue!Jobs

LEMMA RoutesKept ==
  ASSUME RoutesHaveJobs, QueueFacts!QueueInv, [Next]_vars, [Queue!Next]_(Queue!vars)
  PROVE  RoutesHaveJobs'
<1> USE DocumentIndexingAssumption DEF RoutesHaveJobs
<1>1. \A j \in 1 .. routes : status'[j] # "absent"
  BY JobsStay
<1>2. CASE UNCHANGED routes
  BY <1>1, <1>2
<1>3. CASE MarkIndexing
  <2>1. routes' = routes - 1 /\ routes' \in 0 .. NumJobs
    BY <1>3 DEF MarkIndexing
  <2>2. QED
    BY <1>1, <2>1
<1>4. CASE RequestIndex
  <2>1. PICK j \in 1 .. NumJobs : Queue!NextId(j) /\ status' = [status EXCEPT ![j] = "queued"]
    BY <1>4 DEF RequestIndex, Queue!Create, Queue!Insert
  <2>2. status[j] = "absent" /\ \A i \in 1 .. NumJobs : i < j => status[i] # "absent"
    BY <2>1 DEF Queue!NextId, Queue!Jobs
  <2>3. routes' = routes + 1
    BY <1>4 DEF RequestIndex
  <2>4. routes < j
    BY <2>2
  <2>5. routes' \in 0 .. NumJobs
    BY <2>3, <2>4
  <2>6. status \in [1 .. NumJobs -> Queue!Statuses]
    BY QueueAssumed, QueueFacts!InvIsSafe, SameQueueTypes DEF Queue!TypeOK, Queue!Jobs
  <2>7. ASSUME NEW i \in 1 .. routes' PROVE status'[i] # "absent"
    <3>1. i \in 1 .. NumJobs /\ (i < j \/ i = j)
      BY <2>3, <2>4, <2>5
    <3>2. QED
      BY <2>1, <2>2, <2>6, <3>1
  <2>8. QED
    BY <2>5, <2>7
<1>5. QED
  BY <1>2, <1>3, <1>4
     DEF Next, vars, DispatcherStep, CallReturns, CallThrows, ReleaseHeld, MarkIndexed,
         MarkFailed, Tick

\* Every variable of the composition keeps its type.
THEOREM DocumentTypes == Spec => []TypeOK
<1>1. Init => DocumentType /\ RoutesHaveJobs
  <2>1. 0 \in 0 .. NumJobs /\ 1 .. 0 = {}
    BY DocumentIndexingAssumption
  <2>2. QED
    BY <2>1 DEF Init, DocumentType, RoutesHaveJobs
<1>2. /\ HandlersInv /\ DocumentType /\ RoutesHaveJobs /\ Queue!TypeOK /\ Ledger!TypeOK
        => TypeOK
  BY DEF HandlersInv, Accounts, AccountType, DocumentType, RoutesHaveJobs, Record, TypeOK
<1>3. Spec => [](Queue!TypeOK /\ Ledger!TypeOK)
  BY IndexJobsAreSafe, IndexingReconciles, PTL
<1>4. RoutesHaveJobs /\ QueueFacts!QueueInv /\ [Next]_vars /\ [Queue!Next]_(Queue!vars)
        => RoutesHaveJobs'
  BY RoutesKept
<1>5. QED
  BY HandlersInit, HandlersInductive, IndexingUsesQueue, QueueKept, DocumentTypeKept,
     <1>1, <1>2, <1>3, <1>4, PTL DEF Spec, Queue!Spec
=============================================================================
