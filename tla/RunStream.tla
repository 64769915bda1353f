----------------------------- MODULE RunStream -----------------------------
(***************************************************************************)
(* One streamed agent run (handleStream and replayRunStream of app.ts,     *)
(* runUsageService.ts): the requests a client sends under one idempotency  *)
(* key, the run they share, its recorded events, and its usage, reserved   *)
(* and settled in CreditLedger.  A request awaits a call at each of its    *)
(* places; a client may go away at any time, the agent may fail, database  *)
(* calls may fail before or after they took effect and processes may die.  *)
(*                                                                         *)
(* A client retries with the id of the last event it has seen, once its    *)
(* own end of the previous connection is gone (HostedAgentPage.tsx); the   *)
(* server may notice that later.  A request with another body under the    *)
(* same key is refused without effect, and one without a stored agent has  *)
(* no run: neither is modelled.                                            *)
(***************************************************************************)
EXTENDS Naturals, Sequences, FiniteSets

CONSTANTS
  NumRequests,          \* bound: the requests sent under the key
  BaselineCredits,      \* that of CreditLedger
  EstimatedCredits,     \* what a run reserves
  Costs,                \* the credits one measurement may cost
  MaxAgentEvents,       \* bound: the events the agent streams
  MaxFaults             \* bound: failed database calls and crashes

ASSUME RunStreamAssumption ==
  /\ NumRequests \in Nat
  /\ BaselineCredits \in Nat
  /\ EstimatedCredits \in Nat \ {0}
  /\ Costs \subseteq Nat
  /\ MaxAgentEvents \in Nat
  /\ MaxFaults \in Nat

VARIABLES
  opened, available, reserved, spent, state, held, charged,
  entryType, entryAmount, entryUsage,
  runStatus,            \* the status column of the run
  events,               \* its stream events, ids in order
  evidence,             \* the keys of its rated usage events
  ratedCredits,         \* what these cost together
  calls,                \* how often the agent was asked to run it
  request,              \* per request: its place and the local variables of handleStream
  open,                 \* per request: is its connection open, as the handler knows?
  reading,              \* the request whose response the client is reading, if any
  seen,                 \* ids of the events the client received, in that order
  faults                \* failed calls and crashes so far

Ledger == INSTANCE CreditLedger
  WITH NumReservations <- 1, NumKeys <- 0, MaxAmount <- EstimatedCredits

ledgerVars == <<opened, available, reserved, spent, state, held, charged,
                entryType, entryAmount, entryUsage>>
runVars == <<runStatus, events>>
usageVars == <<evidence, ratedCredits>>
connVars == <<open, reading>>
dataVars == <<ledgerVars, runVars, usageVars, calls>>
vars == <<dataVars, request, connVars, seen, faults>>

\* In the order in which they are sent.
Requests == 1 .. NumRequests

Active == {"pending", "running"}
Terminal == {"completed", "failed", "cancelled"}

AgentEvents == {"message", "usage", "tool", "agent.error"}
Events == AgentEvents \cup {"cancelled"}

\* The keys of a run's measurements; a tool call is told by the id of its event.
Embedding == <<"embedding", 0>>
Retrieval == <<"retrieval", 0>>
RunUnit == <<"run", 0>>
Input == <<"llm-input", 0>>
Output == <<"llm-output", 0>>
Tool(id) == <<"tool", id>>
Evidence ==
  {Embedding, Retrieval, RunUnit, Input, Output} \cup {Tool(n) : n \in 1 .. MaxAgentEvents}

\* Places inside the try block once the run is known, and those of catch and finally.
Trying == {"reserve", "start", "prepare", "embed", "retrieve", "fetch", "answer", "refusal",
           "record run", "pipe", "follow up", "end run"}
Ending == {"report", "cancel", "abort run", "settle"}
Places == {"unsent", "lookup", "replay", "create", "done", "dead"} \cup Trying \cup Ending

TypeOK ==
  /\ Ledger!TypeOK
  /\ runStatus \in {"absent"} \cup Active \cup Terminal
  /\ events \in Seq(Events) /\ Len(events) <= MaxAgentEvents + 3
  /\ evidence \subseteq Evidence
  /\ ratedCredits \in Nat
  /\ calls \in Nat
  /\ request \in [Requests -> [place : Places, owed : Seq(Evidence), usageReserved : BOOLEAN,
                               ends : Terminal]]
  /\ open \in [Requests -> BOOLEAN]
  /\ reading \subseteq Requests /\ Cardinality(reading) <= 1
  /\ seen \in Seq(1 .. Len(events))
  /\ faults \in 0 .. MaxFaults

\* ends is the status the run ends with if nothing else happens: it stands for
\* sawAgentError in the try block and for status in the finally block.
Unsent == [place |-> "unsent", owed |-> <<>>, usageReserved |-> FALSE, ends |-> "completed"]

Init ==
  /\ Ledger!Init
  /\ runStatus = "absent" /\ events = <<>>
  /\ evidence = {} /\ ratedCredits = 0
  /\ calls = 0
  /\ request = [r \in Requests |-> Unsent]
  /\ open = [r \in Requests |-> FALSE]
  /\ reading = {}
  /\ seen = <<>>
  /\ faults = 0

IsAt(r, place) == request[r].place = place
Goto(r, place) == request' = [request EXCEPT ![r].place = place]
GotoOwing(r, place, owed) ==
  request' = [request EXCEPT ![r] = [@ EXCEPT !.place = place, !.owed = owed]]
GotoEnding(r, place, status) ==
  request' = [request EXCEPT ![r] = [@ EXCEPT !.place = place, !.owed = <<>>, !.ends = status]]

LastSeen == IF seen = <<>> THEN 0 ELSE seen[Len(seen)]

\* res.end(), or the process that held the connection is gone.
Over(r, place) ==
  /\ GotoOwing(r, place, <<>>)
  /\ open' = [open EXCEPT ![r] = FALSE]
  /\ reading' = reading \ {r}

-----------------------------------------------------------------------------
(* The client and the beginning of a request                               *)

Send(r) ==
  /\ IsAt(r, "unsent")
  /\ \A q \in 1 .. r - 1 : ~IsAt(q, "unsent")
  /\ reading = {}
  /\ open' = [open EXCEPT ![r] = TRUE]
  /\ reading' = {r}
  /\ Goto(r, "lookup")
  /\ UNCHANGED <<dataVars, seen, faults>>

\* The client leaves or loses its connection.
Leave ==
  /\ reading # {}
  /\ reading' = {}
  /\ UNCHANGED <<dataVars, request, open, seen, faults>>

\* 'close', which aborts the signal.  The listener is added before the insert: a close
\* that came earlier is never noticed, and nothing says that a later one is noticed soon.
Disconnect(r) ==
  /\ open[r] /\ r \notin reading
  /\ request[r].place \notin {"unsent", "lookup", "replay"}
  /\ open' = [open EXCEPT ![r] = FALSE]
  /\ UNCHANGED <<dataVars, request, reading, seen, faults>>

Lookup(r) ==
  /\ IsAt(r, "lookup")
  /\ \/ runStatus = "absent" /\ Goto(r, "create") /\ UNCHANGED connVars
     \/ runStatus \in Active /\ Over(r, "done")
     \/ runStatus \in Terminal /\ Goto(r, "replay") /\ UNCHANGED connVars
  /\ UNCHANGED <<dataVars, seen, faults>>

\* Mutant: Last-Event-ID is not looked at.
ReplayAll(r) ==
  /\ IsAt(r, "replay")
  /\ \E n \in 0 .. Len(events) :
       seen' = IF r \in reading THEN seen \o [i \in 1 .. n |-> i] ELSE seen
  /\ Over(r, "done")
  /\ UNCHANGED <<dataVars, faults>>

\* The events after Last-Event-ID, or as many of them as reach the client.
Replay(r) ==
  /\ IsAt(r, "replay")
  /\ \E n \in 0 .. Len(events) - LastSeen :
       seen' = IF r \in reading THEN seen \o [i \in 1 .. n |-> LastSeen + i] ELSE seen
  /\ Over(r, "done")
  /\ UNCHANGED <<dataVars, faults>>

\* Mutant: a conflict on the key returns the run that has it, reset to pending.
CreateAnyway(r) ==
  /\ IsAt(r, "create")
  /\ runStatus' = "pending"
  /\ Goto(r, "reserve")
  /\ UNCHANGED <<ledgerVars, events, usageVars, calls, connVars, seen, faults>>

\* The insert of resolveStreamRequest, under the unique key of runs.
Create(r) ==
  /\ IsAt(r, "create")
  /\ runStatus = "absent"
  /\ runStatus' = "pending"
  /\ Goto(r, "reserve")
  /\ UNCHANGED <<ledgerVars, events, usageVars, calls, connVars, seen, faults>>

\* The agent or its configuration is refused, or another request has taken the key:
\* no run is known and the response is an error.
CreateRefused(r) ==
  /\ IsAt(r, "create")
  /\ Over(r, "done")
  /\ UNCHANGED <<dataVars, seen, faults>>

-----------------------------------------------------------------------------
(* What the awaited calls do                                               *)

RecordEvent(type) ==
  /\ events' = Append(events, type)
  /\ UNCHANGED <<ledgerVars, runStatus, usageVars, calls>>

\* res.write() of the event RecordEvent adds.
WriteEvent(r) == seen' = IF r \in reading THEN Append(seen, Len(events) + 1) ELSE seen

SetStatus(status) ==
  /\ runStatus' = status
  /\ UNCHANGED <<ledgerVars, events, usageVars, calls>>

\* rate() adds one usage event per key, whatever it costs, or returns the one it finds.
Rate(key) ==
  /\ \/ /\ key \notin evidence
        /\ evidence' = evidence \cup {key}
        /\ \E credits \in Costs : ratedCredits' = ratedCredits + credits
     \/ key \in evidence /\ UNCHANGED usageVars
  /\ UNCHANGED <<ledgerVars, runVars, calls>>

ReserveCredits ==
  /\ \/ Ledger!Reserve(1, EstimatedCredits)
     \/ Ledger!ReserveReplays(1, EstimatedCredits) /\ UNCHANGED ledgerVars
  /\ UNCHANGED <<runVars, usageVars, calls>>

\* Mutant: the estimate is charged.
SettleEstimate ==
  /\ IF evidence = {} THEN Ledger!Release(1) ELSE Ledger!Settle(1, EstimatedCredits)
  /\ UNCHANGED <<runVars, usageVars, calls>>

SettleUsage ==
  /\ IF evidence = {} THEN Ledger!Release(1) ELSE Ledger!Settle(1, ratedCredits)
  /\ UNCHANGED <<runVars, usageVars, calls>>

\* The finally block: a run that has not ended is cancelled if the client is gone.
Finally(r) == IF open[r] THEN GotoEnding(r, "abort run", "failed")
                         ELSE GotoEnding(r, "cancel", "cancelled")

\* An exception in the try block; the catch block reports it to a client that is there.
Throw(r) == IF open[r] THEN GotoOwing(r, "report", <<>>) ELSE Finally(r)

-----------------------------------------------------------------------------
(* The try block                                                           *)

\* The budget or the ledger may refuse the reservation.
Reserve(r) ==
  /\ IsAt(r, "reserve")
  /\ \/ /\ ReserveCredits
        /\ request' = [request EXCEPT ![r] =
             [@ EXCEPT !.place = "start", !.usageReserved = TRUE]]
     \/ Throw(r) /\ UNCHANGED dataVars
  /\ UNCHANGED <<connVars, seen, faults>>

Start(r) ==
  /\ IsAt(r, "start")
  /\ SetStatus("running") /\ Goto(r, "prepare")
  /\ UNCHANGED <<connVars, seen, faults>>

\* The conversation is found or refused; with indexed documents the query is embedded.
Prepare(r) ==
  /\ IsAt(r, "prepare")
  /\ Goto(r, "fetch") \/ Goto(r, "embed") \/ Throw(r)
  /\ UNCHANGED <<dataVars, connVars, seen, faults>>

\* The agent embeds the query, which is then searched for, or fails.  This call has no
\* signal: a client that is gone does not end it.
Embed(r) ==
  /\ IsAt(r, "embed")
  /\ GotoOwing(r, "retrieve", <<Embedding, Retrieval>>) \/ Throw(r)
  /\ UNCHANGED <<dataVars, connVars, seen, faults>>

\* The place after the last measurement owed.
AfterUsage(place) ==
  CASE place = "retrieve" -> "fetch" [] place = "record run" -> "pipe" [] OTHER -> place

\* The next measurement owed, and the place after the last one.  One that repeats a key
\* with other quantities is refused.
RecordUsage(r) ==
  /\ request[r].owed # <<>>
  /\ \/ /\ Rate(Head(request[r].owed))
        /\ GotoOwing(r, IF Len(request[r].owed) > 1 THEN request[r].place
                                                   ELSE AfterUsage(request[r].place),
                        Tail(request[r].owed))
     \/ /\ Head(request[r].owed) \in evidence
        /\ Throw(r)
        /\ UNCHANGED dataVars
  /\ UNCHANGED <<connVars, seen, faults>>

\* An aborted signal rejects the fetch before anything is sent (Abort).
Fetch(r) ==
  /\ IsAt(r, "fetch")
  /\ open[r]
  /\ calls' = calls + 1
  /\ Goto(r, "answer")
  /\ UNCHANGED <<ledgerVars, runVars, usageVars, connVars, seen, faults>>

\* The agent's response, an error status, or a network error.
Answer(r) ==
  /\ IsAt(r, "answer")
  /\ \/ GotoOwing(r, "record run", <<RunUnit>>)
     \/ Goto(r, "refusal")
     \/ Throw(r)
  /\ UNCHANGED <<dataVars, connVars, seen, faults>>

Refusal(r) ==
  /\ IsAt(r, "refusal")
  /\ RecordEvent("agent.error") /\ WriteEvent(r)
  /\ GotoEnding(r, "end run", "failed")
  /\ UNCHANGED <<connVars, faults>>

\* What the recorder rates of the event it has just added.
Measured(type) ==
  CASE type = "usage" -> <<Input, Output>>
    [] type = "tool" -> <<Tool(Len(events) + 1)>>
    [] OTHER -> <<>>

\* pipeSseStream hands the next event of the agent to the recorder.
AgentEmits(r, type) ==
  /\ IsAt(r, "pipe")
  /\ Len(events) < MaxAgentEvents
  /\ RecordEvent(type)
  /\ request' = [request EXCEPT ![r] =
       [@ EXCEPT !.place = "follow up",
                 !.owed = Measured(type),
                 !.ends = IF type = "agent.error" THEN "failed" ELSE request[r].ends]]
  /\ UNCHANGED <<connVars, seen, faults>>

\* The rest of the recorder, and the write to the client.
Deliver(r) ==
  /\ IsAt(r, "follow up") /\ request[r].owed = <<>>
  /\ seen' = IF r \in reading THEN Append(seen, Len(events)) ELSE seen
  /\ Goto(r, "pipe")
  /\ UNCHANGED <<dataVars, connVars, faults>>

\* The agent's stream ends or breaks off.
StreamEnds(r) ==
  /\ IsAt(r, "pipe")
  /\ Goto(r, "end run") \/ Throw(r)
  /\ UNCHANGED <<dataVars, connVars, seen, faults>>

\* Mutant: only the request is aborted, not the response that is being read.
AbortFetch(r) ==
  /\ ~open[r]
  /\ IsAt(r, "fetch") \/ IsAt(r, "answer")
  /\ Throw(r)
  /\ UNCHANGED <<dataVars, connVars, seen, faults>>

\* The signal of a client that is gone rejects what is awaited of the agent's run.
Abort(r) ==
  /\ ~open[r]
  /\ IsAt(r, "fetch") \/ IsAt(r, "answer") \/ IsAt(r, "pipe")
  /\ Throw(r)
  /\ UNCHANGED <<dataVars, connVars, seen, faults>>

-----------------------------------------------------------------------------
(* catch and finally                                                       *)

Report(r) ==
  /\ IsAt(r, "report")
  /\ RecordEvent("agent.error") /\ WriteEvent(r)
  /\ Finally(r)
  /\ UNCHANGED <<connVars, faults>>

Cancel(r) ==
  /\ IsAt(r, "cancel")
  /\ RecordEvent("cancelled")
  /\ Goto(r, "abort run")
  /\ UNCHANGED <<connVars, seen, faults>>

\* Mutant: finished is not set.
EndRunUnfinished(r) ==
  /\ IsAt(r, "end run") \/ IsAt(r, "abort run")
  /\ SetStatus(request[r].ends)
  /\ IF IsAt(r, "end run") THEN Finally(r) /\ UNCHANGED connVars
     ELSE IF request[r].usageReserved THEN Goto(r, "settle") /\ UNCHANGED connVars
     ELSE Over(r, "done")
  /\ UNCHANGED <<seen, faults>>

\* At the end of the try block or in the finally block.
EndRun(r) ==
  /\ IsAt(r, "end run") \/ IsAt(r, "abort run")
  /\ SetStatus(request[r].ends)
  /\ IF request[r].usageReserved THEN Goto(r, "settle") /\ UNCHANGED connVars
                                 ELSE Over(r, "done")
  /\ UNCHANGED <<seen, faults>>

\* A settlement the ledger refuses is logged.
Settle(r) ==
  /\ IsAt(r, "settle")
  /\ \/ SettleUsage
     \/ available + held[1] < ratedCredits /\ UNCHANGED dataVars
  /\ Over(r, "done")
  /\ UNCHANGED <<seen, faults>>

-----------------------------------------------------------------------------
(* Faults                                                                  *)

\* What the call awaited at a place may have committed although it throws.
Committed(r) ==
  \/ IsAt(r, "create") /\ runStatus = "absent" /\ SetStatus("pending")
  \/ IsAt(r, "reserve") /\ ReserveCredits
  \/ IsAt(r, "start") /\ SetStatus("running")
  \/ request[r].owed # <<>> /\ Rate(Head(request[r].owed))
  \/ \E type \in AgentEvents :
       IsAt(r, "pipe") /\ Len(events) < MaxAgentEvents /\ RecordEvent(type)
  \/ (IsAt(r, "refusal") \/ IsAt(r, "report")) /\ RecordEvent("agent.error")
  \/ IsAt(r, "cancel") /\ RecordEvent("cancelled")
  \/ (IsAt(r, "end run") \/ IsAt(r, "abort run")) /\ SetStatus(request[r].ends)
  \/ IsAt(r, "settle") /\ SettleUsage

\* A database call throws.  What throws in the finally block leaves handleStream before
\* res.end(), except for the settlement.
CallFails(r) ==
  /\ faults < MaxFaults
  /\ faults' = faults + 1
  /\ \/ UNCHANGED dataVars
     \/ Committed(r)
  /\ \/ /\ request[r].place \in {"lookup", "replay", "create", "settle"}
        /\ Over(r, "done")
     \/ /\ request[r].place \in Trying \ {"embed", "fetch", "answer"}
        /\ Throw(r)
        /\ UNCHANGED connVars
     \/ IsAt(r, "report") /\ Finally(r) /\ UNCHANGED connVars
     \/ IsAt(r, "cancel") /\ Goto(r, "done") /\ UNCHANGED connVars
     \/ IsAt(r, "abort run") /\ Goto(r, "done") /\ UNCHANGED connVars
  /\ UNCHANGED seen

\* The process dies; the call it awaited may still commit.
Crash(r) ==
  /\ faults < MaxFaults
  /\ faults' = faults + 1
  /\ request[r].place \notin {"unsent", "done", "dead"}
  /\ UNCHANGED dataVars \/ Committed(r)
  /\ Over(r, "dead")
  /\ UNCHANGED seen

-----------------------------------------------------------------------------
\* What a request does by itself, without the agent.
Handle(r) ==
  \/ Lookup(r) \/ Replay(r) \/ Create(r) \/ CreateRefused(r)
  \/ Reserve(r) \/ Start(r) \/ Prepare(r) \/ RecordUsage(r) \/ Fetch(r)
  \/ Refusal(r) \/ Deliver(r) \/ Abort(r)
  \/ Report(r) \/ Cancel(r) \/ EndRun(r) \/ Settle(r)

AgentStep(r) ==
  \/ Embed(r) \/ Answer(r) \/ StreamEnds(r)
  \/ \E type \in AgentEvents : AgentEmits(r, type)

Next ==
  \E r \in Requests :
    Send(r) \/ Leave \/ Disconnect(r) \/ Handle(r) \/ AgentStep(r) \/ CallFails(r) \/ Crash(r)

Spec == Init /\ [][Next]_vars

\* A request goes on; the agent may hang, and nothing in the code stops it.
FairSpec == Spec /\ \A r \in Requests : WF_vars(Handle(r))

-----------------------------------------------------------------------------
(* Properties                                                              *)

Handling(r) == request[r].place \in Trying \cup Ending

\* Whatever requests arrive under the key, the agent is asked at most once to run it: the
\* lookup and the insert of handleStream are two statements, and the client retries.
OneModelCall == calls <= 1

\* The usage of a run is accounted for, however it fails, is cancelled or is sent again: no
\* measurement is taken and no model is called before the credits are reserved, a settled
\* reservation charged what the rated usage events cost together, which is then what the
\* workspace spent on the run, and one that was given back has none (runUsageService.ts).
UsageAccounted ==
  /\ calls > 0 \/ evidence # {} => state[1] # "none"
  /\ state[1] = "settled" => charged[1] = ratedCredits
  /\ spent = IF state[1] = "settled" THEN ratedCredits ELSE 0
  /\ state[1] = "released" => evidence = {}

\* The two open statuses and the three final ones look alike to whoever is billed.
Phase ==
  CASE runStatus = "absent" -> "absent"
    [] runStatus \in Active -> "active"
    [] runStatus \in Terminal -> "ended"

Metered == INSTANCE MeteredRun
  WITH Keys <- Evidence, phase <- Phase, credit <- state[1], measured <- evidence,
       cost <- ratedCredits, paid <- spent

\* Requests under one key, failures and crashes make one run of which the agent is asked
\* once, on credit; nothing is measured before the credits are held or after the run has
\* ended, and only then is paid what was measured (handleStream, runUsageService.ts).
ImplementsMeteredRun == Metered!Spec

\* The client receives no event twice and none out of order, over all its connections.
SeenInOrder == \A i, j \in DOMAIN seen : i < j => seen[i] < seen[j]

\* As long as no call fails, a run that has ended stays as it is: no late request or
\* clean-up changes its status, its log or its usage, so a replay is the whole log.
TerminalIsFinal ==
  [][faults' = 0 /\ runStatus \in Terminal => UNCHANGED <<runVars, usageVars>>]_vars

\* Without faults a run whose client is known to be gone ends, even if the agent's stream
\* hangs, in whatever call the disconnection finds it.  Only the embedding of the query can
\* hold it up: that call is not aborted (handleStream).
RunEndsAfterDisconnect ==
  [](faults = 0) =>
    \A r \in Requests :
      (Handling(r) /\ ~open[r] /\ ~IsAt(r, "embed"))
        ~> (IsAt(r, "done") /\ runStatus \in Terminal) \/ IsAt(r, "embed")

\* docs/USAGE_RATING.md, invariant 8: consumed evidence is settled even when the run
\* later fails or disconnects.
ConsumedIsSettled ==
  runStatus \in Terminal /\ evidence # {} /\ (\A r \in Requests : ~Handling(r))
    => state[1] = "settled"

=============================================================================
