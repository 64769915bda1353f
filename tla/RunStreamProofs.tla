--------------------------- MODULE RunStreamProofs ---------------------------
(***************************************************************************)
(* One run is called once, its usage is reserved and accounted for, its    *)
(* log is read in order and its end is final, for every number of          *)
(* requests, agent events, credits and faults.  The inductive invariant    *)
(* says what holds while a request is at a place of the run (At), that one *)
(* request is (PlacesOK), and how the ledger's one reservation, the        *)
(* evidence and the run's status go together (DataOK).                     *)
(***************************************************************************)
EXTENDS RunStream, FiniteSetTheorems, TLAPS

Req == [place : Places, owed : Seq(Evidence), usageReserved : BOOLEAN, ends : Terminal]

Owing == {"retrieve", "record run", "follow up"}

\* The ledger's types, and a balance of reserved credits that is what is held.
LedgerOK ==
  /\ opened \in BOOLEAN
  /\ available \in Nat /\ reserved \in Nat /\ spent \in Nat
  /\ state \in [1 .. 1 -> {"none", "reserved", "settled", "released"}]
  /\ held \in [1 .. 1 -> Nat] /\ charged \in [1 .. 1 -> Nat]
  /\ entryType \in [1 .. 0 -> {"none", "grant", "refund"}]
  /\ entryAmount \in [1 .. 0 -> Nat] /\ entryUsage \in [1 .. 0 -> 1 .. 1 \cup {0}]
  /\ reserved = IF state[1] = "reserved" THEN held[1] ELSE 0

DataOK ==
  /\ runStatus \in {"absent"} \cup Active \cup Terminal
  /\ events \in Seq(Events) /\ Len(events) <= MaxAgentEvents + 3
  /\ evidence \subseteq Evidence /\ ratedCredits \in Nat
  /\ calls \in 0 .. 1
  /\ state[1] = "none" => evidence = {} /\ calls = 0
  /\ state[1] = "settled" => charged[1] = ratedCredits
  /\ state[1] = "released" => evidence = {}
  /\ runStatus = "absent" => state[1] = "none" /\ events = <<>>

SeenOK ==
  /\ seen \in Seq(Nat)
  /\ \A i \in DOMAIN seen : seen[i] \in 1 .. Len(events)
  /\ SeenInOrder

\* What holds while the request that has the run is at place p.
At(p) ==
  /\ runStatus # "absent"
  /\ state[1] \in {"none", "reserved"}
  /\ p = "reserve" => state[1] = "none"
  /\ p \in Trying \ {"reserve"} => state[1] = "reserved"
  /\ p \in {"reserve", "start", "prepare", "embed", "retrieve", "fetch"} => calls = 0
  /\ p \in Trying => runStatus \in Active
  /\ p \in Ending /\ p # "settle" /\ faults = 0 => runStatus \in Active
  /\ p = "settle" => runStatus \in Terminal
  /\ p = "follow up" => Len(events) > 0 /\ \A i \in DOMAIN seen : seen[i] < Len(events)
  /\ p \in Trying \ {"end run"} => Len(events) <= MaxAgentEvents
  /\ p \in {"end run", "report"} => Len(events) <= MaxAgentEvents + 1
  /\ p = "cancel" => Len(events) <= MaxAgentEvents + 2

OneHandles == \A r, q \in Requests : Handling(r) /\ Handling(q) => r = q

PlacesOK ==
  /\ request \in [Requests -> Req]
  /\ \A r \in Requests : request[r].owed # <<>> => request[r].place \in Owing
  /\ \A r \in Requests : IsAt(r, "replay") => runStatus \in Terminal
  /\ \A r \in Requests : Handling(r) => At(request[r].place)
  /\ OneHandles

ConnOK ==
  /\ open \in [Requests -> BOOLEAN]
  /\ reading = {} \/ \E r \in Requests : reading = {r}
  /\ faults \in 0 .. MaxFaults

RunOK == LedgerOK /\ DataOK /\ SeenOK /\ PlacesOK

\* The inductive invariant.
RunInv == RunOK /\ ConnOK

LEMMA RoomAbove ==
  ASSUME NEW m \in Nat, NEW n \in Nat, m <= n
  PROVE  m <= n + 1 /\ m <= n + 2
OBVIOUS

LEMMA RoomFurther ==
  ASSUME NEW m \in Nat, NEW n \in Nat, m <= n + 1
  PROVE  m <= n + 2
OBVIOUS

-----------------------------------------------------------------------------
(* How a request moves                                                     *)

\* Request r is at place p afterwards, the others where they were.
Moved(r, p) ==
  /\ request' \in [Requests -> Req]
  /\ \A q \in Requests \ {r} : request'[q] = request[q]
  /\ request'[r].place = p
  /\ request'[r].owed # <<>> => p \in Owing

LEMMA GotoMoves ==
  ASSUME PlacesOK, NEW r \in Requests, NEW p \in Places, Goto(r, p),
         request[r].owed # <<>> => p \in Owing
  PROVE  Moved(r, p)
BY DEF PlacesOK, Goto, Moved, Req

LEMMA OwingMoves ==
  ASSUME PlacesOK, NEW r \in Requests, NEW p \in Places, NEW o \in Seq(Evidence),
         GotoOwing(r, p, o), o # <<>> => p \in Owing
  PROVE  Moved(r, p)
<1> DEFINE n == [request[r] EXCEPT !.place = p, !.owed = o]
<1>1. request[r] \in Req
  BY DEF PlacesOK
<1>2. n \in Req /\ n.place = p /\ n.owed = o
  BY <1>1 DEF Req
<1>3. request' = [request EXCEPT ![r] = n]
  BY DEF GotoOwing
<1> HIDE DEF n
<1>4. QED
  BY <1>2, <1>3 DEF PlacesOK, Moved

LEMMA EndingMoves ==
  ASSUME PlacesOK, NEW r \in Requests, NEW p \in Places, NEW s \in Terminal,
         GotoEnding(r, p, s)
  PROVE  Moved(r, p)
<1> DEFINE n == [request[r] EXCEPT !.place = p, !.owed = <<>>, !.ends = s]
<1>1. request[r] \in Req /\ <<>> \in Seq(Evidence)
  BY DEF PlacesOK
<1>2. n \in Req /\ n.place = p /\ n.owed = <<>>
  BY <1>1 DEF Req
<1>3. request' = [request EXCEPT ![r] = n]
  BY DEF GotoEnding
<1> HIDE DEF n
<1>4. QED
  BY <1>2, <1>3 DEF PlacesOK, Moved

LEMMA OverMoves ==
  ASSUME PlacesOK, NEW r \in Requests, NEW p \in Places, Over(r, p)
  PROVE  Moved(r, p)
<1>1. <<>> \in Seq(Evidence)
  OBVIOUS
<1>2. QED
  BY <1>1, OwingMoves DEF Over

\* The finally block, and the way to it.
LEMMA FinallyMoves ==
  ASSUME PlacesOK, NEW r \in Requests, Finally(r)
  PROVE  \E p \in {"abort run", "cancel"} : Moved(r, p)
BY EndingMoves DEF Finally, Places, Ending, Terminal

LEMMA ThrowMoves ==
  ASSUME PlacesOK, NEW r \in Requests, Throw(r)
  PROVE  \E p \in {"report", "abort run", "cancel"} : Moved(r, p)
<1>1. <<>> \in Seq(Evidence)
  OBVIOUS
<1>2. QED
  BY <1>1, FinallyMoves, OwingMoves DEF Throw, Places, Ending

\* The request that has the run goes on: the others do not have it.
LEMMA HandlerStep ==
  ASSUME PlacesOK, NEW r \in Requests, Handling(r), NEW p, Moved(r, p),
         runStatus' # "absent", runStatus \in Terminal => runStatus' \in Terminal,
         p \in Trying \cup Ending => At(p)', p # "replay"
  PROVE  PlacesOK'
<1>1. \A q \in Requests \ {r} : ~Handling(q) /\ ~Handling(q)'
  BY DEF PlacesOK, OneHandles, Moved, Handling
<1>2. OneHandles'
  BY <1>1 DEF OneHandles
<1>3. \A q \in Requests : Handling(q)' => q = r /\ At(request[q].place)'
  BY <1>1 DEF Handling, Moved
<1>4. \A q \in Requests : request'[q].owed # <<>> => request'[q].place \in Owing
  BY DEF Moved, PlacesOK
<1>5. \A q \in Requests : IsAt(q, "replay")' => runStatus' \in Terminal
  BY DEF Moved, PlacesOK, IsAt
<1>6. QED
  BY <1>2, <1>3, <1>4, <1>5 DEF PlacesOK, Moved

\* A request that does not have the run goes on; the run stays as it is.
LEMMA OtherStep ==
  ASSUME PlacesOK, NEW r \in Requests, ~Handling(r), NEW p, Moved(r, p),
         p \notin Trying \cup Ending, p = "replay" => runStatus \in Terminal,
         UNCHANGED <<runStatus, events, state, calls>>,
         faults' = 0 => faults = 0,
         seen' = seen \/ runStatus \in Terminal
  PROVE  PlacesOK'
<1>1. \A q \in Requests : Handling(q)' => q # r /\ Handling(q) /\ request'[q] = request[q]
  BY DEF Moved, Handling
<1>2. \A q \in Requests : Handling(q)' => At(request[q].place)'
  <2> SUFFICES ASSUME NEW q \in Requests, Handling(q)' PROVE At(request[q].place)'
    OBVIOUS
  <2>1. At(request[q].place) /\ request'[q] = request[q]
    BY <1>1 DEF PlacesOK
  <2>2. request[q].place = "follow up" => seen' = seen
    BY <2>1 DEF At, Trying, Active, Terminal
  <2>3. QED
    BY <2>1, <2>2 DEF At
<1>3. OneHandles'
  BY <1>1 DEF OneHandles, PlacesOK
<1>4. \A q \in Requests : request'[q].owed # <<>> => request'[q].place \in Owing
  BY DEF Moved, PlacesOK
<1>5. \A q \in Requests : IsAt(q, "replay")' => runStatus' \in Terminal
  BY DEF Moved, PlacesOK, IsAt
<1>6. QED
  BY <1>2, <1>3, <1>4, <1>5 DEF PlacesOK, Moved

-----------------------------------------------------------------------------
(* What a step does to the ledger, the usage, the log and the reading      *)

LEMMA ReservePart ==
  ASSUME LedgerOK, state[1] = "none", ReserveCredits
  PROVE  LedgerOK' /\ state'[1] = "reserved"
<1>1. Ledger!Reserve(1, EstimatedCredits) /\ EstimatedCredits \in Nat
  BY RunStreamAssumption DEF ReserveCredits, Ledger!ReserveReplays
<1>2. Ledger!OpenedAvailable \in Nat
  BY RunStreamAssumption DEF Ledger!OpenedAvailable, LedgerOK
<1>3. state' = [state EXCEPT ![1] = "reserved"] /\ held' = [held EXCEPT ![1] = EstimatedCredits]
  BY <1>1 DEF Ledger!Reserve
<1>4. state'[1] = "reserved" /\ held'[1] = EstimatedCredits
  BY <1>3 DEF LedgerOK
<1>5. opened' = TRUE /\ available' \in Nat /\ reserved' = EstimatedCredits /\ spent' = spent
  BY <1>1, <1>2 DEF Ledger!Reserve, LedgerOK
<1>6. UNCHANGED <<charged, entryType, entryAmount, entryUsage>>
  BY <1>1 DEF Ledger!Reserve, Ledger!entryVars
<1>7. QED
  BY <1>1, <1>3, <1>4, <1>5, <1>6 DEF LedgerOK

LEMMA SettlePart ==
  ASSUME LedgerOK, ratedCredits \in Nat, SettleUsage
  PROVE  /\ LedgerOK'
         /\ \/ state'[1] = "released" /\ evidence = {}
            \/ state'[1] = "settled" /\ charged'[1] = ratedCredits
<1>1. CASE evidence = {}
  <2>1. Ledger!Release(1)
    BY <1>1 DEF SettleUsage
  <2>2. state' = [state EXCEPT ![1] = "released"] /\ state'[1] = "released"
    BY <2>1 DEF Ledger!Release, LedgerOK
  <2>3. available' \in Nat /\ reserved' = 0
    BY <2>1 DEF Ledger!Release, LedgerOK
  <2>4. UNCHANGED <<opened, spent, held, charged, entryType, entryAmount, entryUsage>>
    BY <2>1 DEF Ledger!Release, Ledger!entryVars
  <2>5. QED
    BY <1>1, <2>2, <2>3, <2>4 DEF LedgerOK
<1>2. CASE evidence # {}
  <2>1. Ledger!Settle(1, ratedCredits)
    BY <1>2 DEF SettleUsage
  <2>2. state' = [state EXCEPT ![1] = "settled"] /\ state'[1] = "settled"
    BY <2>1 DEF Ledger!Settle, LedgerOK
  <2>3. charged' = [charged EXCEPT ![1] = ratedCredits] /\ charged'[1] = ratedCredits
    BY <2>1 DEF Ledger!Settle, LedgerOK
  <2>4. available' \in Nat /\ reserved' = 0 /\ spent' \in Nat
    BY <2>1 DEF Ledger!Settle, LedgerOK
  <2>5. UNCHANGED <<opened, held, entryType, entryAmount, entryUsage>>
    BY <2>1 DEF Ledger!Settle, Ledger!entryVars
  <2>6. QED
    BY <2>2, <2>3, <2>4, <2>5 DEF LedgerOK
<1>3. QED
  BY <1>1, <1>2

LEMMA LedgerKept ==
  ASSUME LedgerOK, UNCHANGED ledgerVars
  PROVE  LedgerOK' /\ state' = state /\ charged' = charged
BY DEF LedgerOK, ledgerVars

\* The log grows at its end or stays, and what the client has read stays in order.
LEMMA SeenKept ==
  ASSUME SeenOK, seen' = seen, Len(events) \in Nat, Len(events') \in Nat,
         Len(events') >= Len(events)
  PROVE  SeenOK'
BY DEF SeenOK, SeenInOrder

LEMMA SeenNext ==
  ASSUME SeenOK, Len(events) \in Nat, Len(events') \in Nat, NEW n \in 1 .. Len(events'),
         Len(events') >= Len(events),
         \A i \in DOMAIN seen : seen[i] < n,
         seen' = Append(seen, n)
  PROVE  SeenOK'
<1>1. seen \in Seq(Nat) /\ seen' \in Seq(Nat) /\ Len(seen') = Len(seen) + 1
  BY DEF SeenOK
<1>2. \A i \in 1 .. Len(seen) : seen'[i] = seen[i] /\ seen[i] < n
  BY <1>1
<1>3. seen'[Len(seen) + 1] = n
  BY <1>1
<1>4. \A i \in DOMAIN seen' : seen'[i] \in 1 .. Len(events')
  BY <1>1, <1>2, <1>3 DEF SeenOK
<1>5. SeenInOrder'
  BY <1>1, <1>2, <1>3 DEF SeenOK, SeenInOrder
<1>6. QED
  BY <1>1, <1>4, <1>5 DEF SeenOK

LEMMA RatePart ==
  ASSUME evidence \subseteq Evidence, ratedCredits \in Nat, NEW key \in Evidence, Rate(key)
  PROVE  /\ evidence' \subseteq Evidence /\ ratedCredits' \in Nat
         /\ UNCHANGED <<ledgerVars, runStatus, events, calls>>
BY RunStreamAssumption DEF Rate, usageVars, runVars

LEMMA EventPart ==
  ASSUME events \in Seq(Events), NEW type \in Events, RecordEvent(type)
  PROVE  /\ events' \in Seq(Events) /\ Len(events') = Len(events) + 1 /\ Len(events) \in Nat
         /\ UNCHANGED <<ledgerVars, runStatus, usageVars, calls>>
BY DEF RecordEvent

LEMMA LogLength ==
  ASSUME RunOK
  PROVE  Len(events) \in Nat /\ MaxAgentEvents \in Nat
BY RunStreamAssumption DEF RunOK, DataOK

LEMMA DataKept ==
  ASSUME RunOK, UNCHANGED dataVars
  PROVE  /\ LedgerOK' /\ DataOK'
         /\ UNCHANGED <<runStatus, events, evidence, ratedCredits, calls, state>>
<1>1. UNCHANGED <<ledgerVars, runStatus, events, evidence, ratedCredits, calls>>
  BY DEF dataVars, runVars, usageVars
<1>2. LedgerOK' /\ state' = state /\ charged' = charged
  BY <1>1, LedgerKept DEF RunOK
<1>3. QED
  BY <1>1, <1>2 DEF RunOK, DataOK

LEMMA QuietSeen ==
  ASSUME RunOK, UNCHANGED events, UNCHANGED seen
  PROVE  SeenOK'
BY SeenKept DEF RunOK, DataOK

-----------------------------------------------------------------------------
(* The steps that change nothing but the request's place                   *)

LEMMA QuietStep ==
  ASSUME RunOK, NEW r \in Requests, Handling(r), NEW p, Moved(r, p),
         UNCHANGED <<dataVars, seen>>,
         p \in Trying \cup Ending => At(p)', p # "replay"
  PROVE  RunOK'
<1>1. At(request[r].place)
  BY DEF RunOK, PlacesOK
<1>2. PlacesOK'
  BY <1>1, HandlerStep, DataKept DEF RunOK, At
<1>3. QED
  BY <1>2, DataKept, QuietSeen DEF RunOK

\* What awaits in the try block may throw when nothing has changed.
LEMMA ThrowStep ==
  ASSUME RunOK, NEW r \in Requests, request[r].place \in Trying \ {"end run"},
         Throw(r), UNCHANGED <<dataVars, seen>>, faults' = faults
  PROVE  RunOK'
<1>1. At(request[r].place) /\ Handling(r)
  BY DEF RunOK, PlacesOK, Handling
<1>2. PICK p \in {"report", "abort run", "cancel"} : Moved(r, p)
  BY ThrowMoves DEF RunOK
<1>3. At(p)'
  <2>1. request[r].place \in Trying /\ request[r].place # "end run"
    OBVIOUS
  <2>2. /\ runStatus \in Active /\ runStatus # "absent" /\ state[1] \in {"none", "reserved"}
        /\ Len(events) <= MaxAgentEvents
    BY <1>1, <2>1 DEF At
  <2>3. /\ runStatus' \in Active /\ runStatus' # "absent"
        /\ state'[1] \in {"none", "reserved"} /\ Len(events') <= MaxAgentEvents
    BY <2>2, DataKept
  <2>4. p \notin Trying /\ p # "settle"
    BY DEF Trying
  <2>5. Len(events') \in Nat /\ MaxAgentEvents \in Nat
    BY DataKept, LogLength
  <2>6. Len(events') <= MaxAgentEvents + 1 /\ Len(events') <= MaxAgentEvents + 2
    BY <2>3, <2>5, RoomAbove
  <2>7. QED
    BY <2>3, <2>4, <2>6 DEF At
<1>4. QED
  BY <1>1, <1>2, <1>3, QuietStep

LEMMA PrepareStep ==
  ASSUME RunOK, NEW r \in Requests, Prepare(r)
  PROVE  RunOK'
<1>0. faults' = faults /\ UNCHANGED <<dataVars, seen>>
  BY DEF Prepare
<1>1. At("prepare") /\ Handling(r) /\ request[r].place = "prepare" /\ request[r].owed = <<>>
  BY DEF RunOK, PlacesOK, Handling, Prepare, IsAt, Trying, Owing
<1>2. ASSUME NEW p \in {"fetch", "embed"}, Goto(r, p) PROVE RunOK'
  <2>1. Moved(r, p)
    BY <1>1, <1>2, GotoMoves DEF RunOK, Places, Trying
  <2>2. At(p)'
    BY <1>0, <1>1, DataKept DEF At, Trying, Ending
  <2>3. QED
    BY <1>0, <1>1, <2>1, <2>2, QuietStep
<1>3. CASE Throw(r)
  BY <1>0, <1>1, <1>3, ThrowStep DEF Trying
<1>4. QED
  BY <1>2, <1>3 DEF Prepare

LEMMA EmbedStep ==
  ASSUME RunOK, NEW r \in Requests, Embed(r)
  PROVE  RunOK'
<1>0. faults' = faults /\ UNCHANGED <<dataVars, seen>>
  BY DEF Embed
<1>1. At("embed") /\ Handling(r) /\ request[r].place = "embed" /\ request[r].owed = <<>>
  BY DEF RunOK, PlacesOK, Handling, Embed, IsAt, Trying, Owing
<1>2. CASE GotoOwing(r, "retrieve", <<Embedding, Retrieval>>)
  <2>1. <<Embedding, Retrieval>> \in Seq(Evidence)
    BY DEF Evidence
  <2>2. Moved(r, "retrieve")
    BY <1>1, <1>2, <2>1, OwingMoves DEF RunOK, Places, Trying, Owing
  <2>3. At("retrieve")'
    BY <1>0, <1>1, DataKept DEF At, Trying, Ending
  <2>4. QED
    BY <1>0, <1>1, <2>2, <2>3, QuietStep
<1>3. CASE Throw(r)
  BY <1>0, <1>1, <1>3, ThrowStep DEF Trying
<1>4. QED
  BY <1>2, <1>3 DEF Embed

LEMMA AnswerStep ==
  ASSUME RunOK, NEW r \in Requests, Answer(r)
  PROVE  RunOK'
<1>0. faults' = faults /\ UNCHANGED <<dataVars, seen>>
  BY DEF Answer
<1>1. At("answer") /\ Handling(r) /\ request[r].place = "answer" /\ request[r].owed = <<>>
  BY DEF RunOK, PlacesOK, Handling, Answer, IsAt, Trying, Owing
<1>2. CASE Goto(r, "refusal")
  <2>1. Moved(r, "refusal")
    BY <1>1, <1>2, GotoMoves DEF RunOK, Places, Trying
  <2>2. At("refusal")'
    BY <1>0, <1>1, DataKept DEF At, Trying, Ending
  <2>3. QED
    BY <1>0, <1>1, <2>1, <2>2, QuietStep
<1>3. CASE GotoOwing(r, "record run", <<RunUnit>>)
  <2>1. <<RunUnit>> \in Seq(Evidence)
    BY DEF Evidence
  <2>2. Moved(r, "record run")
    BY <1>1, <1>3, <2>1, OwingMoves DEF RunOK, Places, Trying, Owing
  <2>3. At("record run")'
    BY <1>0, <1>1, DataKept DEF At, Trying, Ending
  <2>4. QED
    BY <1>0, <1>1, <2>2, <2>3, QuietStep
<1>4. CASE Throw(r)
  BY <1>0, <1>1, <1>4, ThrowStep DEF Trying
<1>5. QED
  BY <1>2, <1>3, <1>4 DEF Answer

LEMMA StreamEndsStep ==
  ASSUME RunOK, NEW r \in Requests, StreamEnds(r)
  PROVE  RunOK'
<1>0. faults' = faults /\ UNCHANGED <<dataVars, seen>>
  BY DEF StreamEnds
<1>1. At("pipe") /\ Handling(r) /\ request[r].place = "pipe" /\ request[r].owed = <<>>
  BY DEF RunOK, PlacesOK, Handling, StreamEnds, IsAt, Trying, Owing
<1>2. CASE Goto(r, "end run")
  <2>1. Moved(r, "end run")
    BY <1>1, <1>2, GotoMoves DEF RunOK, Places, Trying
  <2>2. At("end run")'
    BY <1>0, <1>1, DataKept, LogLength DEF At, Trying, Ending
  <2>3. QED
    BY <1>0, <1>1, <2>1, <2>2, QuietStep
<1>3. CASE Throw(r)
  BY <1>0, <1>1, <1>3, ThrowStep DEF Trying
<1>4. QED
  BY <1>2, <1>3 DEF StreamEnds

LEMMA AbortStep ==
  ASSUME RunOK, NEW r \in Requests, Abort(r)
  PROVE  RunOK'
BY ThrowStep DEF Abort, IsAt, Trying

LEMMA DeliverStep ==
  ASSUME RunOK, NEW r \in Requests, Deliver(r)
  PROVE  RunOK'
<1>0. faults' = faults /\ UNCHANGED dataVars
  BY DEF Deliver
<1>1. At("follow up") /\ Handling(r) /\ request[r].place = "follow up" /\ request[r].owed = <<>>
  BY DEF RunOK, PlacesOK, Handling, Deliver, IsAt, Trying
<1>2. Moved(r, "pipe")
  BY <1>1, GotoMoves DEF RunOK, Places, Trying, Deliver
<1>3. At("pipe")'
  BY <1>0, <1>1, DataKept DEF At, Trying, Ending
<1>4. PlacesOK'
  BY <1>0, <1>1, <1>2, <1>3, DataKept, HandlerStep DEF RunOK, At
<1>5. Len(events) \in Nat /\ events' = events
  BY <1>0, DataKept DEF RunOK, DataOK
<1>6. SeenOK'
  <2>1. CASE seen' = seen
    BY <1>5, <2>1, QuietSeen
  <2>2. CASE seen' = Append(seen, Len(events))
    <3>1. Len(events) > 0 /\ \A i \in DOMAIN seen : seen[i] < Len(events)
      BY <1>1 DEF At
    <3>2. Len(events) \in 1 .. Len(events')
      BY <1>5, <3>1
    <3>3. QED
      BY <1>5, <2>2, <3>1, <3>2, SeenNext DEF RunOK
  <2>3. QED
    BY <2>1, <2>2, <1>5 DEF Deliver
<1>7. QED
  BY <1>0, <1>4, <1>6, DataKept DEF RunOK

-----------------------------------------------------------------------------
(* The other steps of the try block                                        *)

LEMMA ReserveStep ==
  ASSUME RunOK, NEW r \in Requests, Reserve(r)
  PROVE  RunOK'
<1>0. faults' = faults /\ UNCHANGED seen
  BY DEF Reserve
<1>1. At("reserve") /\ Handling(r) /\ request[r].place = "reserve" /\ request[r].owed = <<>>
  BY DEF RunOK, PlacesOK, Handling, Reserve, IsAt, Trying, Owing
<1>2. CASE ReserveCredits
           /\ request' = [request EXCEPT ![r] =
                [@ EXCEPT !.place = "start", !.usageReserved = TRUE]]
  <2>1. Moved(r, "start")
    <3> DEFINE n == [request[r] EXCEPT !.place = "start", !.usageReserved = TRUE]
    <3>1. request[r] \in Req
      BY DEF RunOK, PlacesOK
    <3>2. n \in Req /\ n.place = "start" /\ n.owed = request[r].owed
      BY <3>1 DEF Req, Places, Trying
    <3>3. request' = [request EXCEPT ![r] = n]
      BY <1>2
    <3> HIDE DEF n
    <3>4. QED
      BY <1>1, <3>2, <3>3 DEF RunOK, PlacesOK, Moved
  <2>2. LedgerOK' /\ state'[1] = "reserved"
    BY <1>1, <1>2, ReservePart DEF RunOK, At
  <2>3. UNCHANGED <<runStatus, events, evidence, ratedCredits, calls>>
    BY <1>2 DEF ReserveCredits, runVars, usageVars
  <2>4. DataOK'
    BY <1>1, <2>2, <2>3 DEF RunOK, DataOK, At
  <2>5. At("start")'
    BY <1>0, <1>1, <2>2, <2>3 DEF At, Trying, Ending
  <2>6. PlacesOK'
    BY <1>1, <2>1, <2>3, <2>5, HandlerStep DEF RunOK, At
  <2>7. QED
    BY <1>0, <2>2, <2>3, <2>4, <2>6, QuietSeen DEF RunOK
<1>3. CASE Throw(r) /\ UNCHANGED dataVars
  BY <1>0, <1>1, <1>3, ThrowStep DEF Trying
<1>4. QED
  BY <1>2, <1>3 DEF Reserve

\* A new status, or one more event: the ledger and the usage stay as they are.
LEMMA StatusPart ==
  ASSUME RunOK, NEW s \in Active \cup Terminal, SetStatus(s)
  PROVE  /\ LedgerOK' /\ DataOK' /\ runStatus' = s /\ runStatus' # "absent"
         /\ UNCHANGED <<events, evidence, ratedCredits, calls, state>>
<1>1. UNCHANGED <<ledgerVars, events, evidence, ratedCredits, calls>> /\ runStatus' = s
  BY DEF SetStatus, usageVars
<1>2. LedgerOK' /\ state' = state /\ charged' = charged
  BY <1>1, LedgerKept DEF RunOK
<1>3. s # "absent"
  BY DEF Active, Terminal
<1>4. QED
  BY <1>1, <1>2, <1>3 DEF RunOK, DataOK

LEMMA LoggedPart ==
  ASSUME RunOK, NEW type \in Events, RecordEvent(type), runStatus # "absent",
         Len(events) <= MaxAgentEvents + 2
  PROVE  /\ LedgerOK' /\ DataOK' /\ Len(events') = Len(events) + 1 /\ Len(events) \in Nat
         /\ UNCHANGED <<runStatus, evidence, ratedCredits, calls, state>>
<1>1. /\ UNCHANGED <<ledgerVars, runStatus, evidence, ratedCredits, calls>>
      /\ events' \in Seq(Events) /\ Len(events') = Len(events) + 1 /\ Len(events) \in Nat
  BY EventPart DEF RunOK, DataOK, usageVars
<1>2. LedgerOK' /\ state' = state /\ charged' = charged
  BY <1>1, LedgerKept DEF RunOK
<1>3. Len(events') <= MaxAgentEvents + 3
  BY <1>1, RunStreamAssumption
<1>4. QED
  BY <1>1, <1>2, <1>3 DEF RunOK, DataOK

LEMMA StartStep ==
  ASSUME RunOK, NEW r \in Requests, Start(r)
  PROVE  RunOK'
<1>0. faults' = faults /\ UNCHANGED seen
  BY DEF Start
<1>1. At("start") /\ Handling(r) /\ request[r].place = "start" /\ request[r].owed = <<>>
  BY DEF RunOK, PlacesOK, Handling, Start, IsAt, Trying, Owing
<1>2. /\ LedgerOK' /\ DataOK' /\ runStatus' = "running"
      /\ UNCHANGED <<events, calls, state>>
  BY StatusPart DEF Start, Active
<1>3. Moved(r, "prepare")
  BY <1>1, GotoMoves DEF RunOK, Start, Places, Trying
<1>4. At("prepare")'
  BY <1>0, <1>1, <1>2 DEF At, Trying, Ending, Active
<1>5. PlacesOK'
  BY <1>1, <1>2, <1>3, <1>4, HandlerStep DEF RunOK, At, Trying, Active, Terminal
<1>6. QED
  BY <1>0, <1>2, <1>5, QuietSeen DEF RunOK

\* Measurements are taken while the credits are reserved.
LEMMA RatedPart ==
  ASSUME RunOK, NEW key \in Evidence, Rate(key), state[1] = "reserved"
  PROVE  LedgerOK' /\ DataOK' /\ UNCHANGED <<runStatus, events, calls, state>>
<1>1. /\ evidence' \subseteq Evidence /\ ratedCredits' \in Nat
      /\ UNCHANGED <<ledgerVars, runStatus, events, calls>>
  BY RatePart DEF RunOK, DataOK
<1>2. LedgerOK' /\ state' = state /\ charged' = charged
  BY <1>1, LedgerKept DEF RunOK
<1>3. QED
  BY <1>1, <1>2 DEF RunOK, DataOK

\* A request that owes a measurement has the run, and its credits are reserved.
LEMMA OwingFacts ==
  ASSUME RunOK, NEW r \in Requests, request[r].owed # <<>>
  PROVE  /\ Handling(r) /\ At(request[r].place) /\ request[r].place \in Owing
         /\ Head(request[r].owed) \in Evidence /\ Tail(request[r].owed) \in Seq(Evidence)
         /\ state[1] = "reserved"
<1>1. request[r].owed \in Seq(Evidence) /\ request[r].place \in Owing
  BY DEF RunOK, PlacesOK, Req
<1>2. Handling(r)
  BY <1>1 DEF Handling, Owing, Trying
<1>3. At(request[r].place)
  BY <1>2 DEF RunOK, PlacesOK
<1>4. state[1] = "reserved"
  BY <1>1, <1>3 DEF At, Owing, Trying
<1>5. QED
  BY <1>1, <1>2, <1>3, <1>4

LEMMA RecordUsageStep ==
  ASSUME RunOK, NEW r \in Requests, RecordUsage(r)
  PROVE  RunOK'
<1> DEFINE p == request[r].place
           key == Head(request[r].owed)
           rest == Tail(request[r].owed)
           next == IF Len(request[r].owed) > 1 THEN p ELSE AfterUsage(p)
<1>0. faults' = faults /\ UNCHANGED seen
  BY DEF RecordUsage
<1>1. Handling(r) /\ At(p) /\ p \in Owing /\ key \in Evidence /\ rest \in Seq(Evidence)
      /\ state[1] = "reserved"
  BY OwingFacts DEF RecordUsage
<1>2. CASE Rate(key) /\ GotoOwing(r, next, rest)
  <2>1. LedgerOK' /\ DataOK' /\ UNCHANGED <<runStatus, events, calls, state>>
    BY <1>1, <1>2, RatedPart
  <2>2. /\ \/ next = p
           \/ p = "retrieve" /\ next = "fetch"
           \/ p = "record run" /\ next = "pipe"
        /\ rest # <<>> => next = p
    <3>1. request[r].owed \in Seq(Evidence) /\ request[r].owed # <<>>
      BY DEF RunOK, PlacesOK, Req, RecordUsage
    <3>2. rest # <<>> => Len(request[r].owed) > 1
      BY <3>1
    <3>3. Len(request[r].owed) > 1 => next = p
      OBVIOUS
    <3>4. \/ next = p
          \/ p = "retrieve" /\ next = "fetch"
          \/ p = "record run" /\ next = "pipe"
      BY <1>1 DEF Owing, AfterUsage
    <3>5. QED
      BY <3>2, <3>3, <3>4
  <2>3. PICK n \in Places : n = next
    BY <1>1, <2>2 DEF Owing, Places, Trying
  <2>4. At(n) /\ n \in Trying /\ n # "replay"
    <3>1. CASE n = p
      BY <1>1, <3>1 DEF Owing, Trying
    <3>2. CASE p = "retrieve" /\ n = "fetch"
      BY <1>1, <3>2 DEF At, Trying, Ending
    <3>3. CASE p = "record run" /\ n = "pipe"
      BY <1>1, <3>3 DEF At, Trying, Ending
    <3>4. QED
      BY <2>2, <2>3, <3>1, <3>2, <3>3
  <2>5. rest # <<>> => n \in Owing
    BY <1>1, <2>2, <2>3
  <2>6. GotoOwing(r, n, rest)
    BY <1>2, <2>3
  <2>7. Moved(r, n)
    <3> HIDE DEF rest
    <3>1. QED
      BY <1>1, <2>5, <2>6, OwingMoves DEF RunOK
  <2>8. At(n)'
    BY <1>0, <2>1, <2>4 DEF At
  <2>9. PlacesOK'
    BY <1>1, <2>1, <2>4, <2>7, <2>8, HandlerStep DEF RunOK, At
  <2>10. QED
    BY <1>0, <2>1, <2>9, QuietSeen DEF RunOK
<1>3. CASE Throw(r) /\ UNCHANGED dataVars
  BY <1>0, <1>1, <1>3, ThrowStep DEF Trying, Owing
<1>4. QED
  BY <1>2, <1>3 DEF RecordUsage

LEMMA FetchStep ==
  ASSUME RunOK, NEW r \in Requests, Fetch(r)
  PROVE  RunOK'
<1>0. faults' = faults /\ UNCHANGED seen
  BY DEF Fetch
<1>1. At("fetch") /\ Handling(r) /\ request[r].place = "fetch" /\ request[r].owed = <<>>
  BY DEF RunOK, PlacesOK, Handling, Fetch, IsAt, Trying, Owing
<1>2. /\ calls' = calls + 1 /\ calls = 0 /\ state[1] = "reserved"
      /\ UNCHANGED <<ledgerVars, runStatus, events, evidence, ratedCredits>>
  BY <1>1 DEF Fetch, At, Trying, runVars, usageVars
<1>3. LedgerOK' /\ state' = state /\ charged' = charged
  BY <1>2, LedgerKept DEF RunOK
<1>4. DataOK'
  BY <1>2, <1>3 DEF RunOK, DataOK
<1>5. Moved(r, "answer")
  BY <1>1, GotoMoves DEF RunOK, Fetch, Places, Trying
<1>6. At("answer")'
  BY <1>0, <1>1, <1>2, <1>3 DEF At, Trying, Ending
<1>7. PlacesOK'
  BY <1>1, <1>2, <1>5, <1>6, HandlerStep DEF RunOK, At
<1>8. QED
  BY <1>0, <1>2, <1>3, <1>4, <1>7, QuietSeen DEF RunOK

\* An event the server records and writes itself.
LEMMA WrittenSeen ==
  ASSUME RunOK, NEW r, WriteEvent(r), Len(events') = Len(events) + 1
  PROVE  SeenOK'
<1>1. Len(events) \in Nat /\ SeenOK
  BY LogLength DEF RunOK
<1>2. Len(events') \in Nat /\ Len(events) + 1 \in 1 .. Len(events') /\ Len(events') >= Len(events)
  BY <1>1
<1>3. CASE seen' = seen
  BY <1>1, <1>2, <1>3, SeenKept
<1>4. CASE seen' = Append(seen, Len(events) + 1)
  <2>1. \A i \in DOMAIN seen : seen[i] < Len(events) + 1
    BY <1>1 DEF SeenOK
  <2>2. QED
    BY <1>1, <1>2, <1>4, <2>1, SeenNext
<1>5. QED
  BY <1>3, <1>4 DEF WriteEvent

LEMMA RefusalStep ==
  ASSUME RunOK, NEW r \in Requests, Refusal(r)
  PROVE  RunOK'
<1>0. faults' = faults
  BY DEF Refusal
<1>1. At("refusal") /\ Handling(r) /\ request[r].place = "refusal"
  BY DEF RunOK, PlacesOK, Handling, Refusal, IsAt, Trying
<1>2. Len(events) \in Nat /\ MaxAgentEvents \in Nat /\ Len(events) <= MaxAgentEvents
  BY <1>1, LogLength DEF At, Trying
<1>3. Len(events) <= MaxAgentEvents + 2 /\ Len(events) + 1 <= MaxAgentEvents + 1
  BY <1>2
<1>4. /\ LedgerOK' /\ DataOK' /\ Len(events') = Len(events) + 1
      /\ UNCHANGED <<runStatus, calls, state>>
  BY <1>1, <1>3, LoggedPart DEF Refusal, At, Events, AgentEvents
<1>5. Moved(r, "end run")
  BY EndingMoves DEF RunOK, Refusal, Places, Trying, Terminal
<1>6. At("end run")'
  BY <1>0, <1>1, <1>3, <1>4 DEF At, Trying, Ending
<1>7. PlacesOK'
  BY <1>1, <1>4, <1>5, <1>6, HandlerStep DEF RunOK, At
<1>8. SeenOK'
  BY <1>4, WrittenSeen DEF Refusal
<1>9. QED
  BY <1>4, <1>7, <1>8 DEF RunOK

LEMMA AgentEmitsStep ==
  ASSUME RunOK, NEW r \in Requests, NEW type \in AgentEvents, AgentEmits(r, type)
  PROVE  RunOK'
<1> DEFINE ends == IF type = "agent.error" THEN "failed" ELSE request[r].ends
<1>0. faults' = faults /\ UNCHANGED seen
  BY DEF AgentEmits
<1>1. At("pipe") /\ Handling(r) /\ request[r].place = "pipe"
  BY DEF RunOK, PlacesOK, Handling, AgentEmits, IsAt, Trying
<1>2. Len(events) \in Nat /\ MaxAgentEvents \in Nat /\ Len(events) < MaxAgentEvents
  BY LogLength DEF AgentEmits
<1>3. /\ Len(events) <= MaxAgentEvents + 2 /\ Len(events) + 1 <= MaxAgentEvents
      /\ Len(events) + 1 \in 1 .. MaxAgentEvents /\ Len(events) < Len(events) + 1
  BY <1>2
<1>4. /\ LedgerOK' /\ DataOK' /\ Len(events') = Len(events) + 1
      /\ UNCHANGED <<runStatus, calls, state>>
  BY <1>1, <1>3, LoggedPart DEF AgentEmits, At, Events
<1>5. Moved(r, "follow up")
  <2>1. request[r] \in Req
    BY DEF RunOK, PlacesOK
  <2>2. Measured(type) \in Seq(Evidence)
    <3>1. {Input, Output, Tool(Len(events) + 1)} \subseteq Evidence
      BY <1>3 DEF Evidence
    <3>2. <<Input, Output>> \in Seq(Evidence) /\ <<Tool(Len(events) + 1)>> \in Seq(Evidence)
          /\ <<>> \in Seq(Evidence)
      BY <3>1
    <3>3. QED
      BY <3>2 DEF Measured
  <2>3. ends \in Terminal
    BY <2>1 DEF Req, Terminal
  <2> DEFINE n == [request[r] EXCEPT !.place = "follow up", !.owed = Measured(type), !.ends = ends]
  <2>4. request' = [request EXCEPT ![r] = n]
    BY DEF AgentEmits
  <2> HIDE DEF ends
  <2>5. n \in Req /\ n.place = "follow up"
    BY <2>1, <2>2, <2>3 DEF Req, Places, Trying
  <2> HIDE DEF n
  <2>6. QED
    BY <2>4, <2>5 DEF RunOK, PlacesOK, Moved, Owing
<1>6. \A i \in DOMAIN seen : seen[i] < Len(events) + 1
  BY <1>2 DEF RunOK, SeenOK
<1>7. At("follow up")'
  BY <1>0, <1>1, <1>2, <1>3, <1>4, <1>6 DEF At, Trying, Ending
<1>8. PlacesOK'
  BY <1>1, <1>4, <1>5, <1>7, HandlerStep DEF RunOK, At
<1>9. SeenOK'
  BY <1>0, <1>2, <1>4, SeenKept DEF RunOK
<1>10. QED
  BY <1>4, <1>8, <1>9 DEF RunOK

-----------------------------------------------------------------------------
(* catch and finally                                                       *)

LEMMA ReportStep ==
  ASSUME RunOK, NEW r \in Requests, Report(r)
  PROVE  RunOK'
<1>0. faults' = faults
  BY DEF Report
<1>1. At("report") /\ Handling(r) /\ request[r].place = "report"
  BY DEF RunOK, PlacesOK, Handling, Report, IsAt, Ending
<1>2. Len(events) \in Nat /\ MaxAgentEvents \in Nat /\ Len(events) <= MaxAgentEvents + 1
  BY <1>1, LogLength DEF At
<1>3. Len(events) <= MaxAgentEvents + 2 /\ Len(events) + 1 <= MaxAgentEvents + 2
  BY <1>2
<1>4. /\ LedgerOK' /\ DataOK' /\ Len(events') = Len(events) + 1
      /\ UNCHANGED <<runStatus, calls, state>>
  BY <1>1, <1>3, LoggedPart DEF Report, At, Events, AgentEvents
<1>5. PICK p \in {"abort run", "cancel"} : Moved(r, p)
  BY FinallyMoves DEF RunOK, Report
<1>6. At(p)'
  BY <1>0, <1>1, <1>3, <1>4, <1>5 DEF At, Trying, Ending
<1>7. PlacesOK'
  BY <1>1, <1>4, <1>5, <1>6, HandlerStep DEF RunOK, At
<1>8. SeenOK'
  BY <1>4, WrittenSeen DEF Report
<1>9. QED
  BY <1>4, <1>7, <1>8 DEF RunOK

LEMMA CancelStep ==
  ASSUME RunOK, NEW r \in Requests, Cancel(r)
  PROVE  RunOK'
<1>0. faults' = faults /\ UNCHANGED seen
  BY DEF Cancel
<1>1. At("cancel") /\ Handling(r) /\ request[r].place = "cancel" /\ request[r].owed = <<>>
  BY DEF RunOK, PlacesOK, Handling, Cancel, IsAt, Ending, Owing
<1>2. Len(events) \in Nat /\ Len(events) <= MaxAgentEvents + 2
  BY <1>1, LogLength DEF At
<1>3. /\ LedgerOK' /\ DataOK' /\ Len(events') = Len(events) + 1
      /\ UNCHANGED <<runStatus, calls, state>>
  BY <1>1, <1>2, LoggedPart DEF Cancel, At, Events
<1>4. Moved(r, "abort run")
  BY <1>1, GotoMoves DEF RunOK, Cancel, Places, Ending
<1>5. At("abort run")'
  BY <1>0, <1>1, <1>3 DEF At, Trying, Ending
<1>6. PlacesOK'
  BY <1>1, <1>3, <1>4, <1>5, HandlerStep DEF RunOK, At
<1>7. SeenOK'
  BY <1>0, <1>2, <1>3, SeenKept DEF RunOK
<1>8. QED
  BY <1>3, <1>6, <1>7 DEF RunOK

LEMMA EndRunStep ==
  ASSUME RunOK, NEW r \in Requests, EndRun(r)
  PROVE  RunOK'
<1>0. faults' = faults /\ UNCHANGED seen
  BY DEF EndRun
<1>1. /\ request[r].place \in {"end run", "abort run"} /\ At(request[r].place) /\ Handling(r)
      /\ request[r].owed = <<>> /\ request[r].ends \in Terminal
  BY DEF RunOK, PlacesOK, Req, Handling, EndRun, IsAt, Trying, Ending, Owing
<1>2. /\ LedgerOK' /\ DataOK' /\ runStatus' \in Terminal /\ runStatus' # "absent"
      /\ UNCHANGED <<events, calls, state>>
  <2>1. PICK s \in Terminal : SetStatus(s)
    BY <1>1 DEF EndRun
  <2>2. QED
    BY <2>1, StatusPart
<1>3. PICK p \in {"settle", "done"} : Moved(r, p)
  BY <1>1, GotoMoves, OverMoves DEF EndRun, RunOK, Places, Ending
<1>4. p = "settle" => At(p)'
  BY <1>0, <1>1, <1>2 DEF At, Trying, Ending
<1>5. PlacesOK'
  BY <1>1, <1>2, <1>3, <1>4, HandlerStep DEF RunOK, Trying, Ending
<1>6. QED
  BY <1>0, <1>2, <1>5, QuietSeen DEF RunOK

\* A settlement: the reservation is closed as the evidence says.
LEMMA ClosedPart ==
  ASSUME RunOK, SettleUsage, runStatus # "absent"
  PROVE  LedgerOK' /\ DataOK' /\ UNCHANGED <<runStatus, events, calls>>
<1>1. UNCHANGED <<runStatus, events, evidence, ratedCredits, calls>>
  BY DEF SettleUsage, runVars, usageVars
<1>2. /\ LedgerOK'
      /\ \/ state'[1] = "released" /\ evidence = {}
         \/ state'[1] = "settled" /\ charged'[1] = ratedCredits
  BY SettlePart DEF RunOK, DataOK
<1>3. QED
  BY <1>1, <1>2 DEF RunOK, DataOK

LEMMA SettleStep ==
  ASSUME RunOK, NEW r \in Requests, Settle(r)
  PROVE  RunOK'
<1>0. faults' = faults /\ UNCHANGED seen
  BY DEF Settle
<1>1. At("settle") /\ Handling(r) /\ request[r].place = "settle"
  BY DEF RunOK, PlacesOK, Handling, Settle, IsAt, Ending
<1>2. LedgerOK' /\ DataOK' /\ UNCHANGED <<runStatus, events>>
  BY <1>1, ClosedPart, DataKept DEF Settle, At
<1>3. Moved(r, "done")
  BY OverMoves DEF RunOK, Settle, Places
<1>4. PlacesOK'
  BY <1>1, <1>2, <1>3, HandlerStep DEF RunOK, At, Trying, Ending
<1>5. QED
  BY <1>0, <1>2, <1>4, QuietSeen DEF RunOK

-----------------------------------------------------------------------------
(* The steps of requests that do not have the run                          *)

LEMMA AsideStep ==
  ASSUME RunOK, NEW r \in Requests, ~Handling(r), NEW p, Moved(r, p),
         p \notin Trying \cup Ending, p = "replay" => runStatus \in Terminal,
         UNCHANGED <<dataVars, seen, faults>>
  PROVE  RunOK'
<1>1. /\ LedgerOK' /\ DataOK'
      /\ UNCHANGED <<runStatus, events, evidence, ratedCredits, calls, state>>
  BY DataKept
<1>2. PlacesOK'
  BY <1>1, OtherStep DEF RunOK
<1>3. QED
  BY <1>1, <1>2, QuietSeen DEF RunOK

LEMMA SendStep ==
  ASSUME RunOK, NEW r \in Requests, Send(r)
  PROVE  RunOK'
<1>1. ~Handling(r) /\ request[r].owed = <<>>
  BY DEF Send, IsAt, Handling, Trying, Ending, RunOK, PlacesOK, Owing
<1>2. Moved(r, "lookup")
  BY <1>1, GotoMoves DEF Send, RunOK, Places
<1>3. UNCHANGED <<dataVars, seen, faults>>
  BY DEF Send
<1>4. QED
  BY <1>1, <1>2, <1>3, AsideStep DEF Trying, Ending

LEMMA LookupStep ==
  ASSUME RunOK, NEW r \in Requests, Lookup(r)
  PROVE  RunOK'
<1>1. ~Handling(r) /\ request[r].owed = <<>>
  BY DEF Lookup, IsAt, Handling, Trying, Ending, RunOK, PlacesOK, Owing
<1>2. PICK p \in {"create", "done", "replay"} :
        Moved(r, p) /\ (p = "replay" => runStatus \in Terminal)
  BY <1>1, GotoMoves, OverMoves DEF Lookup, RunOK, Places
<1>3. UNCHANGED <<dataVars, seen, faults>>
  BY DEF Lookup
<1>4. QED
  BY <1>1, <1>2, <1>3, AsideStep DEF Trying, Ending

LEMMA CreateRefusedStep ==
  ASSUME RunOK, NEW r \in Requests, CreateRefused(r)
  PROVE  RunOK'
<1>1. ~Handling(r)
  BY DEF CreateRefused, IsAt, Handling, Trying, Ending
<1>2. Moved(r, "done")
  BY OverMoves DEF CreateRefused, RunOK, Places
<1>3. UNCHANGED <<dataVars, seen, faults>>
  BY DEF CreateRefused
<1>4. QED
  BY <1>1, <1>2, <1>3, AsideStep DEF Trying, Ending

\* No run yet: nobody has it.
LEMMA CreateStep ==
  ASSUME RunOK, NEW r \in Requests, NEW p \in {"reserve", "done", "dead"},
         runStatus = "absent", SetStatus("pending"), Moved(r, p), UNCHANGED seen
  PROVE  RunOK'
<1>1. /\ LedgerOK' /\ DataOK' /\ runStatus' = "pending" /\ runStatus' \in Active
      /\ UNCHANGED <<events, calls, state>>
  BY StatusPart DEF Active
<1>2. state[1] = "none" /\ events = <<>> /\ calls = 0
  BY DEF RunOK, DataOK
<1>3. \A q \in Requests : ~Handling(q) /\ ~IsAt(q, "replay")
  BY DEF RunOK, PlacesOK, At, Terminal
<1>4. \A q \in Requests \ {r} : ~Handling(q)' /\ ~IsAt(q, "replay")'
  BY <1>3 DEF Moved, Handling, IsAt
<1>5. Handling(r)' => p = "reserve"
  BY DEF Handling, Moved, Trying, Ending
<1>6. At("reserve")'
  BY <1>1, <1>2, RunStreamAssumption DEF At, Trying, Ending, Active
<1>7. OneHandles'
  BY <1>4 DEF OneHandles
<1>8. \A q \in Requests : Handling(q)' => At(request[q].place)'
  BY <1>4, <1>5, <1>6 DEF Moved
<1>9. \A q \in Requests : IsAt(q, "replay")' => runStatus' \in Terminal
  BY <1>4 DEF Moved, IsAt
<1>10. \A q \in Requests : request'[q].owed # <<>> => request'[q].place \in Owing
  BY DEF Moved, RunOK, PlacesOK
<1>11. PlacesOK'
  BY <1>7, <1>8, <1>9, <1>10 DEF PlacesOK, Moved
<1>12. QED
  BY <1>1, <1>11, QuietSeen DEF RunOK

LEMMA ReadsOn ==
  ASSUME NEW s \in Seq(Nat), NEW m \in Nat, NEW last \in Nat, NEW n \in 0 .. m - last,
         \A i \in 1 .. Len(s) : s[i] \in 1 .. m /\ s[i] <= last,
         \A i, j \in 1 .. Len(s) : i < j => s[i] < s[j],
         NEW t, t = s \o [i \in 1 .. n |-> last + i]
  PROVE  /\ t \in Seq(Nat)
         /\ \A i \in 1 .. Len(t) : t[i] \in 1 .. m
         /\ \A i, j \in 1 .. Len(t) : i < j => t[i] < t[j]
<1> DEFINE more == [i \in 1 .. n |-> last + i]
<1>1. n \in Nat /\ last + n <= m /\ \A i \in 1 .. n : last + i \in Nat
  OBVIOUS
<1>2. more \in Seq(Nat) /\ Len(more) = n /\ \A i \in 1 .. n : more[i] = last + i
  BY <1>1
<1>3. t = s \o more
  OBVIOUS
<1> HIDE DEF more
<1>4. t \in Seq(Nat) /\ Len(t) = Len(s) + n
  BY <1>2, <1>3
<1>5. \A i \in 1 .. Len(s) : t[i] = s[i]
  BY <1>2, <1>3
<1>6. \A i \in 1 .. n : t[Len(s) + i] = last + i
  BY <1>2, <1>3
<1>7. ASSUME NEW i \in 1 .. Len(t), i > Len(s)
      PROVE  t[i] = last + (i - Len(s)) /\ i - Len(s) \in 1 .. n
  <2>1. i - Len(s) \in 1 .. n /\ Len(s) + (i - Len(s)) = i
    BY <1>1, <1>4, <1>7
  <2>2. QED
    BY <2>1, <1>6
<1>8. \A i \in 1 .. Len(t) : t[i] \in 1 .. m
  <2> SUFFICES ASSUME NEW i \in 1 .. Len(t) PROVE t[i] \in 1 .. m
    OBVIOUS
  <2>1. CASE i <= Len(s)
    BY <1>4, <1>5, <2>1
  <2>2. CASE i > Len(s)
    <3>1. t[i] = last + (i - Len(s)) /\ i - Len(s) \in 1 .. n
      BY <1>7, <2>2
    <3>2. QED
      BY <3>1, <1>1
  <2>3. QED
    BY <1>4, <2>1, <2>2
<1>9. \A i, j \in 1 .. Len(t) : i < j => t[i] < t[j]
  <2> SUFFICES ASSUME NEW i \in 1 .. Len(t), NEW j \in 1 .. Len(t), i < j
               PROVE  t[i] < t[j]
    OBVIOUS
  <2>1. CASE j <= Len(s)
    BY <1>4, <1>5, <2>1
  <2>2. CASE i <= Len(s) /\ j > Len(s)
    <3>1. t[j] = last + (j - Len(s)) /\ j - Len(s) \in 1 .. n
      BY <1>7, <2>2
    <3>2. t[i] = s[i] /\ s[i] \in Nat /\ s[i] <= last
      BY <1>4, <1>5, <2>2
    <3>3. QED
      BY <3>1, <3>2
  <2>3. CASE i > Len(s)
    <3>1. t[i] = last + (i - Len(s)) /\ t[j] = last + (j - Len(s))
      BY <1>4, <1>7, <2>3
    <3>2. QED
      BY <1>4, <3>1
  <2>4. QED
    BY <1>4, <2>1, <2>2, <2>3
<1>10. QED
  BY <1>4, <1>8, <1>9

\* The replay goes on where the client's reading stopped.
LEMMA ReplayStep ==
  ASSUME RunOK, NEW r \in Requests, Replay(r)
  PROVE  RunOK'
<1>1. ~Handling(r) /\ runStatus \in Terminal
  BY DEF Replay, IsAt, Handling, Trying, Ending, RunOK, PlacesOK
<1>2. Moved(r, "done")
  BY OverMoves DEF Replay, RunOK, Places
<1>3. UNCHANGED <<dataVars, faults>>
  BY DEF Replay
<1>4. /\ LedgerOK' /\ DataOK'
      /\ UNCHANGED <<runStatus, events, calls, state>>
  BY <1>3, DataKept
<1>5. PlacesOK'
  BY <1>1, <1>2, <1>3, <1>4, OtherStep DEF RunOK, Trying, Ending
<1>6. SeenOK'
  <2>1. /\ Len(events) \in Nat /\ seen \in Seq(Nat) /\ LastSeen \in Nat
        /\ \A i \in DOMAIN seen : seen[i] \in 1 .. Len(events) /\ seen[i] <= LastSeen
    BY LogLength DEF RunOK, SeenOK, SeenInOrder, LastSeen
  <2>2. CASE seen' = seen
    BY <1>4, <2>2, QuietSeen
  <2>3. ASSUME NEW n \in 0 .. Len(events) - LastSeen,
               seen' = seen \o [i \in 1 .. n |-> LastSeen + i]
        PROVE  SeenOK'
    <3>1. \A i, j \in 1 .. Len(seen) : i < j => seen[i] < seen[j]
      BY <2>1 DEF RunOK, SeenOK, SeenInOrder
    <3>2. \A i \in 1 .. Len(seen) : seen[i] \in 1 .. Len(events) /\ seen[i] <= LastSeen
      BY <2>1
    <3>3. /\ seen' \in Seq(Nat)
          /\ \A i \in 1 .. Len(seen') : seen'[i] \in 1 .. Len(events)
          /\ \A i, j \in 1 .. Len(seen') : i < j => seen'[i] < seen'[j]
      BY <2>1, <2>3, <3>1, <3>2, ReadsOn
    <3>4. DOMAIN seen' = 1 .. Len(seen') /\ events' = events
      BY <1>4, <3>3
    <3>5. QED
      BY <3>3, <3>4 DEF SeenOK, SeenInOrder
  <2>4. QED
    BY <2>2, <2>3 DEF Replay
<1>7. QED
  BY <1>4, <1>5, <1>6 DEF RunOK

-----------------------------------------------------------------------------
(* Faults                                                                  *)

\* What a step that fails may leave behind: committed or not.
Survives(r) ==
  /\ LedgerOK' /\ DataOK'
  /\ runStatus' # "absent" /\ (runStatus \in Terminal => runStatus' \in Terminal)
  /\ Len(events') >= Len(events)
  /\ request[r].place # "settle" => state'[1] \in {"none", "reserved"}
  /\ request[r].place \in Trying => Len(events') <= MaxAgentEvents + 1
  /\ request[r].place = "report" => Len(events') <= MaxAgentEvents + 2

LEMMA QuietSurvives ==
  ASSUME RunOK, NEW r \in Requests, Handling(r), UNCHANGED dataVars
  PROVE  Survives(r)
<1>1. /\ LedgerOK' /\ DataOK'
      /\ UNCHANGED <<runStatus, events, calls, state>>
  BY DataKept
<1>2. Len(events) \in Nat /\ MaxAgentEvents \in Nat
  BY LogLength
<1>3. At(request[r].place)
  BY DEF RunOK, PlacesOK
<1>4. request[r].place \in Trying => Len(events) <= MaxAgentEvents + 1
  <2>1. CASE request[r].place = "end run"
    BY <1>3, <2>1 DEF At
  <2>2. CASE request[r].place \in Trying \ {"end run"}
    BY <1>2, <1>3, <2>2, RoomAbove DEF At
  <2>3. QED
    BY <2>1, <2>2
<1>5. request[r].place = "report" => Len(events) <= MaxAgentEvents + 2
  BY <1>2, <1>3, RoomFurther DEF At
<1>6. Len(events') >= Len(events)
  BY <1>1, <1>2
<1>7. request[r].place # "settle" => state'[1] \in {"none", "reserved"}
  BY <1>1, <1>3 DEF At
<1>8. runStatus' # "absent"
  BY <1>1, <1>3 DEF At
<1>9. QED
  BY <1>1, <1>4, <1>5, <1>6, <1>7, <1>8 DEF Survives

LEMMA CommittedSurvives ==
  ASSUME RunOK, NEW r \in Requests, Handling(r), Committed(r)
  PROVE  Survives(r)
<1> USE DEF Survives
<1>1. At(request[r].place) /\ ~IsAt(r, "create") /\ runStatus # "absent"
  BY DEF RunOK, PlacesOK, At, IsAt, Handling, Trying, Ending
<1>2. Len(events) \in Nat /\ MaxAgentEvents \in Nat
  BY LogLength
<1>3. /\ request[r].place \in Trying => Len(events) <= MaxAgentEvents + 1
      /\ request[r].place = "report" => Len(events) <= MaxAgentEvents + 2
      /\ request[r].place # "settle" => state[1] \in {"none", "reserved"}
  <2>1. CASE request[r].place \in Trying \ {"end run"}
    BY <1>1, <1>2, <2>1, RoomAbove DEF At, Trying
  <2>2. CASE request[r].place \in {"end run", "report"}
    BY <1>1, <1>2, <2>2, RoomFurther DEF At
  <2>3. CASE request[r].place \notin Trying \cup {"report"}
    BY <1>1, <2>3 DEF At
  <2>4. QED
    BY <2>1, <2>2, <2>3
<1>4. CASE IsAt(r, "reserve") /\ ReserveCredits
  <2>1. state[1] = "none" /\ request[r].place # "settle" /\ evidence = {} /\ calls = 0
    BY <1>1, <1>4 DEF At, IsAt, RunOK, DataOK
  <2>2. LedgerOK' /\ state'[1] = "reserved"
    BY <1>4, <2>1, ReservePart DEF RunOK
  <2>3. UNCHANGED <<runStatus, events, evidence, ratedCredits, calls>>
    BY <1>4 DEF ReserveCredits, runVars, usageVars
  <2>4. DataOK'
    BY <1>1, <2>2, <2>3 DEF RunOK, DataOK
  <2>5. QED
    BY <1>1, <1>2, <1>3, <2>2, <2>3, <2>4
<1>5. CASE \/ IsAt(r, "start") /\ SetStatus("running")
           \/ (IsAt(r, "end run") \/ IsAt(r, "abort run")) /\ SetStatus(request[r].ends)
  <2>1. PICK s \in Active \cup Terminal :
          SetStatus(s) /\ (runStatus \in Terminal => s \in Terminal)
    BY <1>1, <1>5 DEF IsAt, At, Active, Terminal, Trying, RunOK, PlacesOK, Req
  <2>2. /\ LedgerOK' /\ DataOK' /\ runStatus' = s /\ runStatus' # "absent"
        /\ UNCHANGED <<events, state>>
    BY <2>1, StatusPart
  <2>3. QED
    BY <1>1, <1>2, <1>3, <2>1, <2>2
<1>6. CASE request[r].owed # <<>> /\ Rate(Head(request[r].owed))
  <2>1. Head(request[r].owed) \in Evidence /\ state[1] = "reserved"
    BY <1>6, OwingFacts
  <2>2. LedgerOK' /\ DataOK' /\ UNCHANGED <<runStatus, events, state>>
    BY <1>6, <2>1, RatedPart
  <2>3. QED
    BY <1>1, <1>2, <1>3, <2>2
<1>7. ASSUME NEW type \in Events, RecordEvent(type),
             \/ IsAt(r, "pipe") /\ Len(events) < MaxAgentEvents
             \/ IsAt(r, "refusal") \/ IsAt(r, "report") \/ IsAt(r, "cancel")
      PROVE  Survives(r)
  <2>1. /\ Len(events) <= MaxAgentEvents + 2
        /\ request[r].place \in Trying => Len(events) <= MaxAgentEvents
        /\ request[r].place = "report" => Len(events) <= MaxAgentEvents + 1
        /\ request[r].place # "settle"
    <3>1. CASE IsAt(r, "pipe") \/ IsAt(r, "refusal")
      BY <1>1, <1>2, <3>1, RoomAbove DEF At, IsAt, Trying
    <3>2. CASE IsAt(r, "report")
      BY <1>1, <1>3, <3>2 DEF At, IsAt, Trying
    <3>3. CASE IsAt(r, "cancel")
      BY <1>1, <3>3 DEF At, IsAt, Trying
    <3>4. QED
      BY <1>7, <3>1, <3>2, <3>3
  <2>2. /\ LedgerOK' /\ DataOK' /\ Len(events') = Len(events) + 1
        /\ UNCHANGED <<runStatus, state>>
    BY <1>1, <1>7, <2>1, LoggedPart
  <2>3. /\ Len(events') >= Len(events)
        /\ request[r].place \in Trying => Len(events') <= MaxAgentEvents + 1
        /\ request[r].place = "report" => Len(events') <= MaxAgentEvents + 2
    BY <1>2, <2>1, <2>2
  <2>4. QED
    BY <1>1, <1>3, <2>1, <2>2, <2>3
<1>8. CASE IsAt(r, "settle") /\ SettleUsage
  <2>1. LedgerOK' /\ DataOK' /\ UNCHANGED <<runStatus, events>>
    BY <1>1, <1>8, ClosedPart
  <2>2. request[r].place = "settle" /\ request[r].place \notin Trying
    BY <1>8 DEF IsAt, Trying
  <2>3. QED
    BY <1>1, <1>2, <2>1, <2>2
<1>9. Events = AgentEvents \cup {"cancelled"} /\ "agent.error" \in AgentEvents
  BY DEF Events, AgentEvents
<1>10. QED
  BY <1>1, <1>4, <1>5, <1>6, <1>7, <1>8, <1>9 DEF Committed

LEMMA SurvivingLog ==
  ASSUME RunOK, NEW r, Survives(r)
  PROVE  Len(events) \in Nat /\ Len(events') \in Nat /\ MaxAgentEvents \in Nat
BY LogLength DEF Survives, DataOK

\* The request that has the run goes on after a failure, or it is over.
LEMMA FailureStep ==
  ASSUME RunOK, NEW r \in Requests, Handling(r), Survives(r), faults' \in Nat \ {0}, UNCHANGED seen,
         NEW p, Moved(r, p),
         \/ p = "report" /\ request[r].place \in Trying
         \/ p \in {"cancel", "abort run"} /\ request[r].place \in Trying \cup {"report"}
         \/ p \in {"done", "dead"}
  PROVE  RunOK'
<1>1. Len(events) \in Nat /\ Len(events') \in Nat /\ MaxAgentEvents \in Nat
  BY SurvivingLog
<1>2. p \in Trying \cup Ending => At(p)'
  <2>1. CASE p = "report" /\ request[r].place \in Trying
    BY <1>1, <2>1 DEF Survives, At, Trying
  <2>2. CASE p \in {"cancel", "abort run"} /\ request[r].place \in Trying \cup {"report"}
    <3>1. request[r].place # "settle" /\ p \notin Trying
      BY <2>2 DEF Trying
    <3>2. Len(events') <= MaxAgentEvents + 2
      BY <1>1, <2>2, RoomFurther DEF Survives
    <3>3. QED
      BY <2>2, <3>1, <3>2 DEF Survives, At
  <2>3. CASE p \in {"done", "dead"}
    BY <2>3 DEF Trying, Ending
  <2>4. QED
    BY <2>1, <2>2, <2>3
<1>3. PlacesOK'
  BY <1>2, HandlerStep DEF Survives, RunOK
<1>4. SeenOK'
  BY <1>1, SeenKept DEF Survives, RunOK
<1>5. QED
  BY <1>3, <1>4 DEF Survives, RunOK

\* What other requests may have left behind: a run that did not exist, or nothing.
LEMMA AsideCommits ==
  ASSUME RunOK, NEW r \in Requests, ~Handling(r), Committed(r)
  PROVE  runStatus = "absent" /\ SetStatus("pending")
<1>1. request[r].owed = <<>>
  BY OwingFacts
<1>2. \A p \in Trying \cup Ending : ~IsAt(r, p)
  BY DEF Handling, IsAt
<1>3. QED
  BY <1>1, <1>2 DEF Committed, Trying, Ending

LEMMA BrokenStep ==
  ASSUME RunOK, NEW r \in Requests, UNCHANGED dataVars \/ Committed(r),
         faults' \in Nat \ {0}, UNCHANGED seen,
         NEW p, Moved(r, p),
         Handling(r) =>
           \/ p = "report" /\ request[r].place \in Trying
           \/ p \in {"cancel", "abort run"} /\ request[r].place \in Trying \cup {"report"}
           \/ p \in {"done", "dead"},
         ~Handling(r) => p \in {"done", "dead"}
  PROVE  RunOK'
<1>1. CASE Handling(r)
  BY <1>1, QuietSurvives, CommittedSurvives, FailureStep
<1>2. CASE ~Handling(r) /\ Committed(r)
  BY <1>2, AsideCommits, CreateStep
<1>3. CASE ~Handling(r) /\ UNCHANGED dataVars
  <2>1. /\ LedgerOK' /\ DataOK'
        /\ UNCHANGED <<runStatus, events, calls, state>>
    BY <1>3, DataKept
  <2>2. PlacesOK'
    BY <1>3, <2>1, OtherStep DEF RunOK, Trying, Ending
  <2>3. QED
    BY <2>1, <2>2, QuietSeen DEF RunOK
<1>4. QED
  BY <1>1, <1>2, <1>3

LEMMA CallFailsStep ==
  ASSUME RunOK, ConnOK, NEW r \in Requests, CallFails(r)
  PROVE  RunOK'
<1>0. faults' \in Nat \ {0}
  <2>1. faults' = faults + 1 /\ faults \in 0 .. MaxFaults /\ MaxFaults \in Nat
    BY RunStreamAssumption, Zenon DEF ConnOK, CallFails
  <2>2. QED
    BY <2>1
<1>1. PICK p \in {"report", "cancel", "abort run", "done"} :
        /\ Moved(r, p)
        /\ p \in {"cancel", "abort run"} => request[r].place \in Trying \cup {"report"}
        /\ p = "report" => request[r].place \in Trying
  <2>1. CASE request[r].place \in {"lookup", "replay", "create", "settle"} /\ Over(r, "done")
    BY <2>1, OverMoves DEF RunOK, Places
  <2>2. CASE request[r].place \in Trying \ {"embed", "fetch", "answer"} /\ Throw(r)
    BY <2>2, ThrowMoves DEF RunOK
  <2>3. CASE IsAt(r, "report") /\ Finally(r)
    BY <2>3, FinallyMoves DEF RunOK, IsAt
  <2>4. CASE (IsAt(r, "cancel") \/ IsAt(r, "abort run")) /\ Goto(r, "done")
    <3>1. request[r].owed = <<>>
      BY <2>4 DEF RunOK, PlacesOK, Owing, IsAt
    <3>2. QED
      BY <2>4, <3>1, GotoMoves DEF RunOK, Places
  <2>5. QED
    BY <2>1, <2>2, <2>3, <2>4 DEF CallFails
<1>2. ~Handling(r) => p = "done"
  BY <1>1 DEF Handling, Ending
<1>3. QED
  BY <1>0, <1>1, <1>2, BrokenStep DEF CallFails

LEMMA CrashStep ==
  ASSUME RunOK, ConnOK, NEW r \in Requests, Crash(r)
  PROVE  RunOK'
<1>1. faults' \in Nat \ {0}
  BY RunStreamAssumption DEF ConnOK, Crash
<1>2. Moved(r, "dead")
  BY OverMoves DEF RunOK, Crash, Places
<1>3. QED
  BY <1>1, <1>2, BrokenStep DEF Crash

-----------------------------------------------------------------------------
(* Every step of the specification                                         *)

\* What no step of a request changes but the beginning and the end of its connection.
LEMMA ConnKept ==
  ASSUME ConnOK, NEW r \in Requests, faults' \in 0 .. MaxFaults,
         \/ UNCHANGED connVars
         \/ \E p \in Places : Over(r, p)
  PROVE  ConnOK'
BY DEF ConnOK, connVars, Over

LEMMA HandleConn ==
  ASSUME ConnOK, NEW r \in Requests, Handle(r) \/ AgentStep(r)
  PROVE  ConnOK'
<1>1. faults' \in 0 .. MaxFaults
  BY DEF ConnOK, Handle, AgentStep, Lookup, Replay, Create, CreateRefused, Reserve, Start,
         Prepare, Embed, RecordUsage, Fetch, Refusal, Deliver, Abort, Report, Cancel, EndRun, Settle,
         Answer, StreamEnds, AgentEmits
<1>2. UNCHANGED connVars \/ Over(r, "done")
  BY DEF Handle, AgentStep, Lookup, Replay, Create, CreateRefused, Reserve, Start,
         Prepare, Embed, RecordUsage, Fetch, Refusal, Deliver, Abort, Report, Cancel, EndRun, Settle,
         Answer, StreamEnds, AgentEmits
<1>3. QED
  BY <1>1, <1>2, ConnKept DEF Places

LEMMA FaultConn ==
  ASSUME ConnOK, NEW r \in Requests, CallFails(r) \/ Crash(r)
  PROVE  ConnOK'
<1>1. faults' \in 0 .. MaxFaults
  <2>1. faults < MaxFaults /\ faults' = faults + 1
    BY Zenon DEF CallFails, Crash
  <2>2. QED
    BY <2>1, RunStreamAssumption DEF ConnOK
<1>2. UNCHANGED connVars \/ Over(r, "done") \/ Over(r, "dead")
  BY DEF CallFails, Crash
<1>3. QED
  BY <1>1, <1>2, ConnKept DEF Places

\* A connection that begins or ends touches nothing of the run.
LEMMA LineStep ==
  ASSUME RunInv, NEW r \in Requests, Send(r) \/ Leave \/ Disconnect(r)
  PROVE  RunInv'
<1>1. ConnOK'
  BY DEF RunInv, ConnOK, Send, Leave, Disconnect
<1>2. CASE Send(r)
  BY <1>1, <1>2, SendStep DEF RunInv
<1>3. CASE Leave \/ Disconnect(r)
  <2>1. UNCHANGED <<dataVars, request, seen, faults>>
    BY <1>3 DEF Leave, Disconnect
  <2>2. /\ LedgerOK' /\ DataOK'
        /\ UNCHANGED <<runStatus, events, calls, state>>
    BY <2>1, DataKept DEF RunInv
  <2>3. PlacesOK'
    BY <2>1, <2>2 DEF RunInv, RunOK, PlacesOK, At, IsAt, Handling, OneHandles
  <2>4. QED
    BY <1>1, <2>1, <2>2, <2>3, QuietSeen DEF RunInv, RunOK
<1>4. QED
  BY <1>2, <1>3

LEMMA HandleStep ==
  ASSUME RunInv, NEW r \in Requests, Handle(r)
  PROVE  RunInv'
<1>1. RunOK
  BY DEF RunInv
<1>2. RunOK'
  <2>1. CASE Lookup(r)  BY <1>1, <2>1, LookupStep
  <2>2. CASE Replay(r)  BY <1>1, <2>2, ReplayStep
  <2>3. CASE Create(r)
    <3>1. Moved(r, "reserve")
      BY <1>1, <2>3, GotoMoves DEF Create, RunOK, PlacesOK, IsAt, Owing, Places, Trying
    <3>2. SetStatus("pending") /\ runStatus = "absent" /\ UNCHANGED seen
      BY <2>3 DEF Create, SetStatus
    <3>3. QED
      BY <1>1, <3>1, <3>2, CreateStep
  <2>4. CASE CreateRefused(r)  BY <1>1, <2>4, CreateRefusedStep
  <2>5. CASE Reserve(r)  BY <1>1, <2>5, ReserveStep
  <2>6. CASE Start(r)  BY <1>1, <2>6, StartStep
  <2>7. CASE Prepare(r)  BY <1>1, <2>7, PrepareStep
  <2>8. CASE RecordUsage(r)  BY <1>1, <2>8, RecordUsageStep
  <2>9. CASE Fetch(r)  BY <1>1, <2>9, FetchStep
  <2>10. CASE Refusal(r)  BY <1>1, <2>10, RefusalStep
  <2>11. CASE Deliver(r)  BY <1>1, <2>11, DeliverStep
  <2>12. CASE Abort(r)  BY <1>1, <2>12, AbortStep
  <2>13. CASE Report(r)  BY <1>1, <2>13, ReportStep
  <2>14. CASE Cancel(r)  BY <1>1, <2>14, CancelStep
  <2>15. CASE EndRun(r)  BY <1>1, <2>15, EndRunStep
  <2>16. CASE Settle(r)  BY <1>1, <2>16, SettleStep
  <2>17. QED
    BY <2>1, <2>2, <2>3, <2>4, <2>5, <2>6, <2>7, <2>8, <2>9, <2>10, <2>11, <2>12, <2>13,
       <2>14, <2>15, <2>16 DEF Handle
<1>3. QED
  BY <1>2, HandleConn DEF RunInv

LEMMA AgentStepStep ==
  ASSUME RunInv, NEW r \in Requests, AgentStep(r)
  PROVE  RunInv'
<1>1. RunOK
  BY DEF RunInv
<1>2. RunOK'
  BY <1>1, EmbedStep, AnswerStep, StreamEndsStep, AgentEmitsStep DEF AgentStep
<1>3. QED
  BY <1>2, HandleConn DEF RunInv

LEMMA FaultStep ==
  ASSUME RunInv, NEW r \in Requests, CallFails(r) \/ Crash(r)
  PROVE  RunInv'
BY CallFailsStep, CrashStep, FaultConn DEF RunInv

LEMMA InitRunInv == Init => RunInv
<1> SUFFICES ASSUME Init PROVE RunInv
  OBVIOUS
<1>1. LedgerOK
  <2>1. opened \in BOOLEAN
    BY Zenon DEF Init, Ledger!Init
  <2>2. /\ available \in Nat /\ reserved = 0 /\ spent \in Nat
        /\ held \in [1 .. 1 -> Nat] /\ charged \in [1 .. 1 -> Nat]
        /\ entryAmount \in [1 .. 0 -> Nat] /\ entryUsage \in [1 .. 0 -> 1 .. 1 \cup {0}]
    BY DEF Init, Ledger!Init, Ledger!Reservations, Ledger!Keys
  <2>3. /\ state \in [1 .. 1 -> {"none", "reserved", "settled", "released"}]
        /\ entryType \in [1 .. 0 -> {"none", "grant", "refund"}]
        /\ state[1] = "none"
    BY DEF Init, Ledger!Init, Ledger!Reservations, Ledger!Keys
  <2>4. reserved = IF state[1] = "reserved" THEN held[1] ELSE 0
    BY <2>2, <2>3
  <2>5. reserved \in Nat
    BY <2>2
  <2>6. QED
    BY <2>1, <2>2, <2>3, <2>4, <2>5 DEF LedgerOK
<1>2. state[1] = "none" /\ charged[1] = 0
  BY DEF Init, Ledger!Init, Ledger!Reservations
<1>3. DataOK
  BY <1>2, RunStreamAssumption DEF Init, DataOK
<1>4. SeenOK
  BY DEF Init, SeenOK, SeenInOrder
<1>5. Unsent \in Req /\ Unsent.place = "unsent" /\ Unsent.owed = <<>>
  BY DEF Unsent, Req, Places, Terminal
<1>6. PlacesOK
  BY <1>5 DEF Init, PlacesOK, OneHandles, IsAt, Handling, Trying, Ending
<1>7. ConnOK
  BY RunStreamAssumption DEF Init, ConnOK
<1>8. QED
  BY <1>1, <1>3, <1>4, <1>6, <1>7 DEF RunInv, RunOK

LEMMA NextRunInv == RunInv /\ [Next]_vars => RunInv'
<1> SUFFICES ASSUME RunInv, [Next]_vars PROVE RunInv'
  OBVIOUS
<1>1. CASE Next
  BY <1>1, LineStep, HandleStep, AgentStepStep, FaultStep DEF Next
<1>2. CASE UNCHANGED vars
  <2>1. UNCHANGED <<dataVars, request, seen, faults, open, reading>>
    BY <1>2 DEF vars, connVars
  <2>2. /\ LedgerOK' /\ DataOK'
        /\ UNCHANGED <<runStatus, events, calls, state>>
    BY <2>1, DataKept DEF RunInv
  <2>3. PlacesOK'
    BY <2>1, <2>2 DEF RunInv, RunOK, PlacesOK, At, IsAt, Handling, OneHandles
  <2>4. ConnOK'
    BY <2>1 DEF RunInv, ConnOK
  <2>5. QED
    BY <2>1, <2>2, <2>3, <2>4, QuietSeen DEF RunInv, RunOK
<1>3. QED
  BY <1>1, <1>2

\* The inductive invariant holds throughout (handleStream of app.ts).
THEOREM RunInvariant == Spec => []RunInv
<1>1. QED
  BY InitRunInv, NextRunInv, PTL DEF Spec

-----------------------------------------------------------------------------
(* What follows                                                            *)

LEMMA InvTypes == RunInv => TypeOK
<1> SUFFICES ASSUME RunInv PROVE TypeOK
  OBVIOUS
<1>1. Ledger!TypeOK
  BY DEF RunInv, RunOK, LedgerOK, Ledger!TypeOK, Ledger!Reservations, Ledger!Keys
<1>2. calls \in Nat
  BY DEF RunInv, RunOK, DataOK
<1>3. request \in [Requests -> [place : Places, owed : Seq(Evidence),
                                usageReserved : BOOLEAN, ends : Terminal]]
  BY DEF RunInv, RunOK, PlacesOK, Req
<1>4. reading \subseteq Requests /\ Cardinality(reading) <= 1
  <2>1. CASE reading = {}
    BY <2>1, FS_EmptySet
  <2>2. CASE \E r \in Requests : reading = {r}
    BY <2>2, FS_Singleton
  <2>3. QED
    BY <2>1, <2>2 DEF RunInv, ConnOK
<1>5. seen \in Seq(1 .. Len(events))
  <2>1. seen \in Seq(Nat) /\ \A i \in 1 .. Len(seen) : seen[i] \in 1 .. Len(events)
    BY DEF RunInv, RunOK, SeenOK
  <2>2. QED
    BY <2>1
<1>6. QED
  BY <1>1, <1>2, <1>3, <1>4, <1>5 DEF TypeOK, RunInv, RunOK, DataOK, ConnOK

LEMMA InvCalls == RunInv => OneModelCall /\ SeenInOrder
BY DEF RunInv, RunOK, DataOK, SeenOK, OneModelCall

\* An ended run: without faults only its settlement is left.
LEMMA EndedRests ==
  ASSUME RunInv, RunInv', [Next]_vars, faults' = 0, runStatus \in Terminal
  PROVE  UNCHANGED <<runVars, usageVars>>
<1>1. runStatus # "absent" /\ runStatus \notin Active
  BY DEF Terminal, Active
<1>2. CASE UNCHANGED vars
  BY <1>2 DEF vars, dataVars
<1>3. ASSUME NEW r \in Requests, Send(r) \/ Leave \/ Disconnect(r)
      PROVE  UNCHANGED <<runVars, usageVars>>
  BY <1>3 DEF Send, Leave, Disconnect, dataVars
<1>4. ASSUME NEW r \in Requests, CallFails(r) \/ Crash(r)
      PROVE  FALSE
  <2>1. faults' = faults + 1
    BY <1>4, Zenon DEF CallFails, Crash
  <2>2. faults \in Nat
    BY RunStreamAssumption DEF RunInv, ConnOK
  <2>3. QED
    BY <2>1, <2>2
<1>5. ASSUME NEW r \in Requests, Handle(r) \/ AgentStep(r)
      PROVE  UNCHANGED <<runVars, usageVars>>
  <2>1. faults = 0
    BY <1>5, Zenon DEF Handle, AgentStep, Lookup, Replay, Create, CreateRefused, Reserve,
         Start, Prepare, Embed, RecordUsage, Fetch, Refusal, Deliver, Abort, Report, Cancel, EndRun,
         Settle, Answer, StreamEnds, AgentEmits
  <2>2. Handling(r) => request[r].place = "settle"
    BY <1>1, <2>1 DEF RunInv, RunOK, PlacesOK, At, Handling
  <2>3. \A p \in Trying \cup Ending : IsAt(r, p) => p = "settle"
    BY <2>2 DEF IsAt, Handling
  <2>4. request[r].owed = <<>>
    BY <2>2, OwingFacts DEF RunInv, Owing
  <2>5. Lookup(r) \/ Replay(r) \/ CreateRefused(r) \/ Settle(r)
    BY <1>1, <1>5, <2>3, <2>4 DEF Handle, AgentStep, Create, Reserve, Start, Prepare,
         Embed, RecordUsage, Fetch, Refusal, Deliver, Abort, Report, Cancel, EndRun, Answer,
         StreamEnds, AgentEmits, Trying, Ending
  <2>6. CASE Lookup(r) \/ Replay(r) \/ CreateRefused(r)
    BY <2>6 DEF Lookup, Replay, CreateRefused, dataVars
  <2>7. CASE Settle(r)
    BY <2>7 DEF Settle, SettleUsage, dataVars
  <2>8. QED
    BY <2>5, <2>6, <2>7
<1>6. QED
  BY <1>2, <1>3, <1>4, <1>5 DEF Next

\* Type correctness.
THEOREM RunTypes == Spec => []TypeOK
<1>1. QED
  BY RunInvariant, InvTypes, PTL

\* Whatever requests arrive under one idempotency key, however they interleave, fail or
\* crash, the agent is called at most once.
THEOREM RunsOnce == Spec => []OneModelCall
<1>1. RunInv => OneModelCall
  BY InvCalls
<1>2. QED
  BY <1>1, RunInvariant, PTL

\* The client reads the log in order and without repetition, over all its connections.
THEOREM RunReadInOrder == Spec => []SeenInOrder
<1>1. RunInv => SeenInOrder
  BY InvCalls
<1>2. QED
  BY <1>1, RunInvariant, PTL

\* Without faults the end of a run is final.
THEOREM RunEndIsFinal == Spec => TerminalIsFinal
<1>1. RunInv /\ RunInv' /\ [Next]_vars
        => [faults' = 0 /\ runStatus \in Terminal => UNCHANGED <<runVars, usageVars>>]_vars
  BY EndedRests
<1>2. QED
  BY <1>1, RunInvariant, PTL DEF Spec, TerminalIsFinal

-----------------------------------------------------------------------------
(* What is proved of the ledger holds of the run it meters.  A settlement  *)
(* may cost more than any call of Ledger!Next, so the steps are AnyCalls.  *)

LedgerFacts == INSTANCE CreditLedgerProofs
  WITH NumReservations <- 1, NumKeys <- 0, MaxAmount <- EstimatedCredits

LEMMA LedgerAssumed == LedgerFacts!CreditLedgerAssumption
BY RunStreamAssumption DEF LedgerFacts!CreditLedgerAssumption

\* Ledger and LedgerFacts are instances of one module with the same parameters.
LEMMA SameLedger ==
  /\ Ledger!Init <=> LedgerFacts!Init
  /\ Ledger!TypeOK <=> LedgerFacts!TypeOK
  /\ Ledger!Reconciles <=> LedgerFacts!Reconciles
BY DEF
  Ledger!Init, Ledger!TypeOK, Ledger!Reconciles, Ledger!TotalHeld, Ledger!TotalSpent,
  Ledger!TotalGranted, Ledger!Holds, Ledger!NetCharges, Ledger!Grants, Ledger!Refunded,
  Ledger!RefundsOf, Ledger!SumTo, Ledger!PartialSums, Ledger!Reservations, Ledger!Keys,
  LedgerFacts!Init, LedgerFacts!TypeOK, LedgerFacts!Reconciles, LedgerFacts!TotalHeld,
  LedgerFacts!TotalSpent, LedgerFacts!TotalGranted, LedgerFacts!Holds,
  LedgerFacts!NetCharges, LedgerFacts!Grants, LedgerFacts!Refunded, LedgerFacts!RefundsOf,
  LedgerFacts!SumTo, LedgerFacts!PartialSums, LedgerFacts!Reservations, LedgerFacts!Keys

LEMMA SameLedgerCalls ==
  /\ \A r, n : Ledger!Reserve(r, n) <=> LedgerFacts!Reserve(r, n)
  /\ \A r, n : Ledger!Settle(r, n) <=> LedgerFacts!Settle(r, n)
  /\ \A r : Ledger!Release(r) <=> LedgerFacts!Release(r)
BY DEF
  Ledger!Reserve, Ledger!OpenedAvailable, Ledger!Settle, Ledger!Release, Ledger!entryVars,
  LedgerFacts!Reserve, LedgerFacts!OpenedAvailable, LedgerFacts!Settle, LedgerFacts!Release,
  LedgerFacts!entryVars

LEMMA SamePrepaid ==
  [Ledger!Prepaid!Next]_(Ledger!Prepaid!vars)
    <=> [LedgerFacts!Prepaid!Next]_(LedgerFacts!Prepaid!vars)
BY DEF
  Ledger!Prepaid!Next, Ledger!Prepaid!vars, Ledger!Prepaid!TopUp, Ledger!Prepaid!Charge,
  Ledger!Prepaid!Refund,
  LedgerFacts!Prepaid!Next, LedgerFacts!Prepaid!vars, LedgerFacts!Prepaid!TopUp,
  LedgerFacts!Prepaid!Charge, LedgerFacts!Prepaid!Refund

UsageCall == [LedgerFacts!AnyCall]_(LedgerFacts!ledgerVars)

LEMMA RestsLedger ==
  ASSUME UNCHANGED ledgerVars
  PROVE  UsageCall
BY DEF UsageCall, ledgerVars, LedgerFacts!ledgerVars, LedgerFacts!accountVars,
       LedgerFacts!reservationVars, LedgerFacts!entryVars

LEMMA ReservesOrSettles ==
  ASSUME RunInv, ReserveCredits \/ SettleUsage
  PROVE  UsageCall
<1>1. 1 \in LedgerFacts!Reservations /\ EstimatedCredits \in Nat /\ ratedCredits \in Nat
  BY RunStreamAssumption DEF LedgerFacts!Reservations, RunInv, RunOK, DataOK
<1>2. CASE Ledger!Reserve(1, EstimatedCredits)
  BY <1>1, <1>2, SameLedgerCalls DEF UsageCall, LedgerFacts!AnyCall
<1>3. CASE Ledger!Settle(1, ratedCredits)
  BY <1>1, <1>3, SameLedgerCalls DEF UsageCall, LedgerFacts!AnyCall
<1>4. CASE Ledger!Release(1)
  BY <1>1, <1>4, SameLedgerCalls DEF UsageCall, LedgerFacts!AnyCall
<1>5. QED
  BY <1>2, <1>3, <1>4, RestsLedger DEF ReserveCredits, SettleUsage

\* The calls that do not reserve, settle or release.
LEMMA OthersRestLedger ==
  /\ \A key : Rate(key) => UNCHANGED ledgerVars
  /\ \A type : RecordEvent(type) => UNCHANGED ledgerVars
  /\ \A status : SetStatus(status) => UNCHANGED ledgerVars
  /\ UNCHANGED dataVars => UNCHANGED ledgerVars
BY DEF Rate, RecordEvent, SetStatus, dataVars

LEMMA CommittedIsUsageCall ==
  ASSUME RunInv, NEW r \in Requests, Committed(r)
  PROVE  UsageCall
BY RestsLedger, ReservesOrSettles, OthersRestLedger DEF Committed

LEMMA HandleIsUsageCall ==
  ASSUME RunInv, NEW r \in Requests, Handle(r)
  PROVE  UsageCall
<1>1. CASE Reserve(r) \/ Settle(r)
  BY <1>1, RestsLedger, ReservesOrSettles, OthersRestLedger DEF Reserve, Settle
<1>2. CASE Lookup(r) \/ Replay(r) \/ Create(r) \/ CreateRefused(r) \/ Fetch(r)
  BY <1>2, RestsLedger, OthersRestLedger DEF Lookup, Replay, Create, CreateRefused, Fetch
<1>3. CASE Start(r) \/ Prepare(r) \/ RecordUsage(r) \/ Deliver(r) \/ Abort(r)
  BY <1>3, RestsLedger, OthersRestLedger DEF Start, Prepare, RecordUsage, Deliver, Abort
<1>4. CASE Refusal(r) \/ Report(r) \/ Cancel(r) \/ EndRun(r)
  BY <1>4, RestsLedger, OthersRestLedger DEF Refusal, Report, Cancel, EndRun
<1>5. QED
  BY <1>1, <1>2, <1>3, <1>4 DEF Handle

\* Whatever requests, the agent and faults do, the ledger sees calls it allows.
LEMMA StepIsUsageCall == RunInv /\ [Next]_vars => UsageCall
<1> SUFFICES ASSUME RunInv, [Next]_vars PROVE UsageCall
  OBVIOUS
<1>1. CASE UNCHANGED vars
  BY <1>1, RestsLedger, OthersRestLedger DEF vars
<1>2. ASSUME NEW r \in Requests, Send(r) \/ Leave \/ Disconnect(r) PROVE UsageCall
  BY <1>2, RestsLedger, OthersRestLedger DEF Send, Leave, Disconnect
<1>3. ASSUME NEW r \in Requests, Handle(r) PROVE UsageCall
  BY <1>3, HandleIsUsageCall
<1>4. ASSUME NEW r \in Requests, AgentStep(r) PROVE UsageCall
  BY <1>4, RestsLedger, OthersRestLedger DEF AgentStep, Embed, Answer, StreamEnds, AgentEmits
<1>5. ASSUME NEW r \in Requests, CallFails(r) \/ Crash(r) PROVE UsageCall
  BY <1>5, RestsLedger, OthersRestLedger, CommittedIsUsageCall DEF CallFails, Crash
<1>6. QED
  BY <1>1, <1>2, <1>3, <1>4, <1>5 DEF Next

\* The ledger's inductive invariant, of the workspace that is charged for the run.
LEMMA UsageLedgerKept ==
  /\ Init => LedgerFacts!LedgerInv
  /\ RunInv /\ LedgerFacts!LedgerInv /\ [Next]_vars => LedgerFacts!LedgerInv'
<1>1. LedgerFacts!Init => LedgerFacts!LedgerInv
  BY LedgerAssumed, LedgerFacts!LedgerInit
<1>2. LedgerFacts!LedgerInv /\ UsageCall => LedgerFacts!LedgerInv'
  BY LedgerAssumed, LedgerFacts!CallKeeps DEF UsageCall
<1>3. QED
  BY <1>1, <1>2, SameLedger, StepIsUsageCall DEF Init

\* The two invariants hold together: calls, evidence and places on one side, the balances
\* on the other.
THEOREM UsageLedgerInvariant == Spec => [](RunInv /\ LedgerFacts!LedgerInv)
<1>1. QED
  BY InitRunInv, NextRunInv, UsageLedgerKept, PTL DEF Spec

\* The credits of the workspace are those of its plan, available, held for the run or
\* spent on it, whatever requests, failures and crashes come between reserving and
\* settling.
THEOREM RunReconciles == Spec => []Ledger!Reconciles
<1>1. LedgerFacts!LedgerInv => Ledger!Reconciles
  BY SameLedger DEF LedgerFacts!LedgerInv
<1>2. QED
  BY UsageLedgerInvariant, <1>1, PTL

LEMMA InvAccounts == RunInv /\ LedgerFacts!LedgerInv => UsageAccounted
<1> SUFFICES ASSUME RunInv, LedgerFacts!LedgerInv PROVE UsageAccounted
  OBVIOUS
<1>1. spent = charged[1]
  BY LedgerAssumed, LedgerFacts!OneReservation
<1>2. state[1] # "settled" => charged[1] = 0
  BY DEF LedgerFacts!LedgerInv, LedgerFacts!ChargedWhenSettled, LedgerFacts!Reservations
<1>3. QED
  BY <1>1, <1>2 DEF RunInv, RunOK, DataOK, UsageAccounted

\* The usage of a run is reserved before it arises, settled as it was rated and paid for
\* once (runUsageService.ts).
THEOREM RunUsageAccounted == Spec => []UsageAccounted
<1>1. QED
  BY UsageLedgerInvariant, InvAccounts, PTL

\* Once a run's reservation is settled or released no late request moves its credits.
THEOREM RunSettlesOnce == Spec => Ledger!ReservationEndsOnce
<1>1. LedgerFacts!LedgerInv /\ UsageCall
        => [\A r \in Ledger!Reservations :
              Ledger!FinalReservation(r) =>
                state'[r] = state[r] /\ held'[r] = held[r] /\ charged'[r] = charged[r]]_(Ledger!ledgerVars)
  BY LedgerAssumed, LedgerFacts!CallSparesFinal
     DEF UsageCall, Ledger!Reservations, LedgerFacts!Reservations, Ledger!FinalReservation,
         LedgerFacts!FinalReservation
<1>2. QED
  BY UsageLedgerInvariant, StepIsUsageCall, <1>1, PTL DEF Spec, Ledger!ReservationEndsOnce

\* Whoever pays for the workspace sees a prepaid account that is charged within its
\* balance.
THEOREM RunIsPrepaid == Spec => Ledger!ImplementsPrepaidAccount
<1>1. Init => Ledger!Prepaid!Init
  BY DEF Init, Ledger!Init, Ledger!Prepaid!Init
<1>2. LedgerFacts!LedgerInv /\ UsageCall => [Ledger!Prepaid!Next]_(Ledger!Prepaid!vars)
  BY LedgerAssumed, LedgerFacts!CallIsPrepaid, SamePrepaid DEF UsageCall
<1>3. QED
  BY UsageLedgerInvariant, StepIsUsageCall, <1>1, <1>2, PTL
     DEF Spec, Ledger!ImplementsPrepaidAccount, Ledger!Prepaid!Spec

-----------------------------------------------------------------------------
(* The run implements MeteredRun                                           *)

MeteredStep == [Metered!Next]_(Metered!vars)

\* Nothing of the run that shows in its bill changes.
BillRests == UNCHANGED <<runStatus, state, calls, evidence, ratedCredits, spent>>

LEMMA BillResting ==
  ASSUME BillRests
  PROVE  MeteredStep
<1>1. Phase' = Phase
  BY DEF BillRests, Phase
<1>2. QED
  BY <1>1 DEF BillRests, MeteredStep, Metered!vars, Metered!usage

LEMMA EventsAreUnbilled ==
  /\ UNCHANGED dataVars => BillRests
  /\ \A type : RecordEvent(type) => BillRests
BY DEF BillRests, RecordEvent, dataVars, ledgerVars, runVars, usageVars

LEMMA StatusIsMetered ==
  ASSUME NEW s, SetStatus(s),
         \/ runStatus = "absent" /\ s = "pending"
         \/ runStatus \in Active /\ s \in Active \cup Terminal
         \/ runStatus \in Terminal /\ s \in Terminal
  PROVE  MeteredStep
<1>1. UNCHANGED <<state, calls, evidence, ratedCredits, spent>> /\ runStatus' = s
  BY DEF SetStatus, ledgerVars, usageVars
<1>2. \/ Phase' = Phase
      \/ Phase = "absent" /\ Phase' = "active"
      \/ Phase = "active" /\ Phase' = "ended"
  BY <1>1 DEF Phase, Active, Terminal
<1>3. QED
  BY <1>1, <1>2
     DEF MeteredStep, Metered!Next, Metered!vars, Metered!usage, Metered!Begin, Metered!End

LEMMA ReservingIsMetered ==
  ASSUME RunInv, state[1] = "none", runStatus \in Active, ReserveCredits
  PROVE  MeteredStep
<1>1. Ledger!Reserve(1, EstimatedCredits)
  BY DEF ReserveCredits, Ledger!ReserveReplays
<1>2. state'[1] = "reserved" /\ spent' = spent
  BY <1>1 DEF Ledger!Reserve, RunInv, RunOK, LedgerOK
<1>3. UNCHANGED <<runStatus, calls, evidence, ratedCredits>>
  BY DEF ReserveCredits, runVars, usageVars
<1>4. Phase = "active" /\ Phase' = Phase
  BY <1>3 DEF Phase, Active, Terminal
<1>5. QED
  BY <1>2, <1>3, <1>4
     DEF MeteredStep, Metered!Next, Metered!vars, Metered!usage, Metered!Reserve

LEMMA MeasuringIsMetered ==
  ASSUME NEW key \in Evidence, Rate(key), state[1] = "reserved", runStatus \in Active
  PROVE  MeteredStep
<1>1. UNCHANGED <<runStatus, state, calls, spent>>
  BY DEF Rate, ledgerVars, runVars
<1>2. Phase = "active" /\ Phase' = Phase
  BY <1>1 DEF Phase, Active, Terminal
<1>3. CASE UNCHANGED usageVars
  BY <1>1, <1>3, BillResting DEF BillRests, usageVars
<1>4. CASE key \notin evidence /\ evidence' = evidence \cup {key}
           /\ \E credits \in Costs : ratedCredits' = ratedCredits + credits
  <2>1. Metered!Measure(key)
    BY <1>1, <1>2, <1>4 DEF Metered!Measure
  <2>2. QED
    BY <2>1 DEF MeteredStep, Metered!Next
<1>5. QED
  BY <1>3, <1>4 DEF Rate

LEMMA CallingIsMetered ==
  ASSUME RunInv, NEW r \in Requests, Fetch(r)
  PROVE  MeteredStep
<1>1. At("fetch")
  BY DEF RunInv, RunOK, PlacesOK, Fetch, IsAt, Handling, Trying
<1>2. calls = 0 /\ state[1] = "reserved" /\ runStatus \in Active
  BY <1>1 DEF At, Trying
<1>3. UNCHANGED <<runStatus, state, evidence, ratedCredits, spent>> /\ calls' = 1
  BY <1>2 DEF Fetch, ledgerVars, runVars, usageVars
<1>4. Phase = "active" /\ Phase' = Phase
  BY <1>2, <1>3 DEF Phase, Active, Terminal
<1>5. QED
  BY <1>2, <1>3, <1>4 DEF MeteredStep, Metered!Next, Metered!Call

LEMMA SettlingIsMetered ==
  ASSUME RunInv, LedgerFacts!LedgerInv, runStatus \in Terminal, SettleUsage
  PROVE  MeteredStep
<1>1. UNCHANGED <<runStatus, calls, evidence, ratedCredits>>
  BY DEF SettleUsage, runVars, usageVars
<1>2. Phase = "ended" /\ Phase' = Phase
  BY <1>1 DEF Phase, Active, Terminal
<1>3. CASE evidence = {}
  <2>1. Ledger!Release(1)
    BY <1>3 DEF SettleUsage
  <2>2. state[1] = "reserved" /\ state'[1] = "released" /\ spent' = spent
    BY <2>1 DEF Ledger!Release, RunInv, RunOK, LedgerOK
  <2>3. QED
    BY <1>1, <1>2, <1>3, <2>2
       DEF MeteredStep, Metered!Next, Metered!usage, Metered!Release
<1>4. CASE evidence # {}
  <2>1. Ledger!Settle(1, ratedCredits)
    BY <1>4 DEF SettleUsage
  <2>2. state[1] = "reserved" /\ state'[1] = "settled" /\ spent' = spent + ratedCredits
    BY <2>1 DEF Ledger!Settle, RunInv, RunOK, LedgerOK
  <2>3. spent = 0
    BY <2>2, InvAccounts DEF UsageAccounted
  <2>4. spent' = ratedCredits
    BY <2>2, <2>3 DEF RunInv, RunOK, DataOK
  <2>5. QED
    BY <1>1, <1>2, <1>4, <2>2, <2>4
       DEF MeteredStep, Metered!Next, Metered!usage, Metered!Settle
<1>5. QED
  BY <1>3, <1>4

\* What an awaited call may do at the place where it is awaited.
LEMMA CommittedIsMetered ==
  ASSUME RunInv, LedgerFacts!LedgerInv, NEW r \in Requests, Committed(r)
  PROVE  MeteredStep
<1>0. \A p \in Trying \cup Ending : IsAt(r, p) => At(p)
  BY DEF RunInv, RunOK, PlacesOK, IsAt, Handling
<1>1. CASE IsAt(r, "create") /\ runStatus = "absent" /\ SetStatus("pending")
  BY <1>1, StatusIsMetered
<1>2. CASE IsAt(r, "reserve") /\ ReserveCredits
  BY <1>0, <1>2, ReservingIsMetered DEF At, Trying
<1>3. CASE IsAt(r, "start") /\ SetStatus("running")
  BY <1>0, <1>3, StatusIsMetered DEF At, Trying, Active
<1>4. CASE request[r].owed # <<>> /\ Rate(Head(request[r].owed))
  <2>1. /\ Head(request[r].owed) \in Evidence /\ state[1] = "reserved"
        /\ At(request[r].place) /\ request[r].place \in Owing
    BY <1>4, OwingFacts DEF RunInv
  <2>2. runStatus \in Active
    BY <2>1 DEF At, Owing, Trying
  <2>3. QED
    BY <1>4, <2>1, <2>2, MeasuringIsMetered
<1>5. CASE \E type \in Events : RecordEvent(type)
  BY <1>5, EventsAreUnbilled, BillResting
<1>6. CASE (IsAt(r, "end run") \/ IsAt(r, "abort run")) /\ SetStatus(request[r].ends)
  <2>1. request[r].ends \in Terminal
    BY DEF RunInv, RunOK, PlacesOK, Req
  <2>2. runStatus \in Active \cup Terminal
    BY <1>0, <1>6 DEF At, Trying, Ending, RunInv, RunOK, DataOK
  <2>3. QED
    BY <1>6, <2>1, <2>2, StatusIsMetered
<1>7. CASE IsAt(r, "settle") /\ SettleUsage
  BY <1>0, <1>7, SettlingIsMetered DEF At, Ending
<1>8. "agent.error" \in Events /\ "cancelled" \in Events /\ AgentEvents \subseteq Events
  BY DEF Events, AgentEvents
<1>9. QED
  BY <1>1, <1>2, <1>3, <1>4, <1>5, <1>6, <1>7, <1>8 DEF Committed

\* What a request does is what it awaits, or nothing that is billed, or the agent's call.
LEMMA HandleIsMetered ==
  ASSUME RunInv, LedgerFacts!LedgerInv, NEW r \in Requests, Handle(r)
  PROVE  MeteredStep
<1>1. CASE Fetch(r)
  BY <1>1, CallingIsMetered
<1>2. CASE Create(r)
  BY <1>2, StatusIsMetered DEF Create, SetStatus
<1>3. CASE Reserve(r) \/ Start(r) \/ RecordUsage(r) \/ EndRun(r) \/ Settle(r)
  <2>1. Committed(r) \/ UNCHANGED dataVars
    BY <1>3 DEF Reserve, Start, RecordUsage, EndRun, Settle, Committed
  <2>2. QED
    BY <2>1, CommittedIsMetered, EventsAreUnbilled, BillResting
<1>4. CASE Refusal(r) \/ Report(r) \/ Cancel(r)
  BY <1>4, EventsAreUnbilled, BillResting DEF Refusal, Report, Cancel
<1>5. CASE Lookup(r) \/ Replay(r) \/ CreateRefused(r) \/ Prepare(r) \/ Deliver(r) \/ Abort(r)
  BY <1>5, EventsAreUnbilled, BillResting
     DEF Lookup, Replay, CreateRefused, Prepare, Deliver, Abort
<1>6. QED
  BY <1>1, <1>2, <1>3, <1>4, <1>5 DEF Handle

LEMMA StepIsMetered == RunInv /\ LedgerFacts!LedgerInv /\ [Next]_vars => MeteredStep
<1> SUFFICES ASSUME RunInv, LedgerFacts!LedgerInv, [Next]_vars PROVE MeteredStep
  OBVIOUS
<1>1. CASE UNCHANGED vars
  BY <1>1, EventsAreUnbilled, BillResting DEF vars
<1>2. ASSUME NEW r \in Requests, Send(r) \/ Leave \/ Disconnect(r) PROVE MeteredStep
  BY <1>2, EventsAreUnbilled, BillResting DEF Send, Leave, Disconnect
<1>3. ASSUME NEW r \in Requests, Handle(r) PROVE MeteredStep
  BY <1>3, HandleIsMetered
<1>4. ASSUME NEW r \in Requests, AgentStep(r) PROVE MeteredStep
  BY <1>4, EventsAreUnbilled, BillResting DEF AgentStep, Embed, Answer, StreamEnds, AgentEmits
<1>5. ASSUME NEW r \in Requests, CallFails(r) \/ Crash(r) PROVE MeteredStep
  BY <1>5, EventsAreUnbilled, BillResting, CommittedIsMetered DEF CallFails, Crash
<1>6. QED
  BY <1>1, <1>2, <1>3, <1>4, <1>5 DEF Next

\* However often a client repeats its request, and whatever fails or dies, it gets one run
\* with one bill (handleStream of app.ts).
THEOREM RunImplementsMeteredRun == Spec => ImplementsMeteredRun
<1>1. Init => Metered!Init
  <2>1. Init => state[1] = "none" /\ spent = 0
    BY DEF Init, Ledger!Init, Ledger!Reservations
  <2>2. Init => Phase = "absent"
    BY DEF Init, Phase, Active, Terminal
  <2>3. QED
    BY <2>1, <2>2 DEF Init, Metered!Init
<1>2. QED
  BY UsageLedgerInvariant, StepIsMetered, <1>1, PTL
     DEF Spec, MeteredStep, ImplementsMeteredRun, Metered!Spec
=============================================================================
