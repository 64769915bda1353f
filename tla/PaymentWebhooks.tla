-------------------------- MODULE PaymentWebhooks --------------------------
(***************************************************************************)
(* The subscription of one workspace and the webhooks that drive it: the   *)
(* payment provider has events about the subscription, its invoices and    *)
(* refunds, delivers each until it is answered with success, in any order, *)
(* more than once and concurrently, and PaymentWebhookProcessor applies    *)
(* them, each awaited call of it a step.  Entitlement reads end a grace    *)
(* period, and a trial may be started at any time.                         *)
(*                                                                         *)
(* Abstracted: the workspace of every event is found (its customer is      *)
(* stored before the checkout), plans and prices are known and grant       *)
(* credits, and the refunds a charge lists are stored in one step.         *)
(***************************************************************************)
EXTENDS Naturals, FiniteSets

CONSTANTS
  Events,           \* refs of the provider's events, compared as the code compares them
  Invoices,
  Histories,        \* what the provider's events may carry and when they were created
  Handlers,         \* requests being handled at a time
  MaxSecond,        \* bound: seconds in which the provider created events
  MaxFaults         \* bound: failed database calls, stalls and crashes

NoEvent == 0

\* mapSubscriptionState: a deleted subscription is 'canceled', an active one that ends with
\* its period 'cancel_at_period_end', a paused one 'restricted'.
States == {"trialing", "active", "past_due", "cancel_at_period_end", "canceled",
           "refunded", "restricted"}
Canceling == {"canceled", "cancel_at_period_end"}
NoInvoice == "none"

Content ==
  [type : {"subscription", "paid", "payment_failed", "updated", "refunded", "refund", "other"},
   state : States \cup {"none"},           \* of the subscription
   flag : BOOLEAN,                         \* does that end with its period?
   invoice : Invoices \cup {NoInvoice},
   full : BOOLEAN,                         \* is the whole charge refunded?
   listed : BOOLEAN]                       \* does the event carry refunds to be stored?

Plain(type) ==
  [type |-> type, state |-> "none", flag |-> FALSE, invoice |-> NoInvoice,
   full |-> FALSE, listed |-> FALSE]

\* subscriptionChanged: the flag is stored as it comes, and with it an active subscription
\* is not 'active'.
Subscription(s, f) == [Plain("subscription") EXCEPT !.state = s, !.flag = f]
OfSubscription ==
  {Subscription(s, f) : s \in States \ {"refunded"}, f \in BOOLEAN}
  \ {Subscription("active", TRUE), Subscription("cancel_at_period_end", FALSE)}

\* "paid" is any event of an invoice that is paid, "updated" one of an invoice that is not.
OfInvoice ==
  {[Plain(t) EXCEPT !.invoice = i] : t \in {"paid", "payment_failed", "updated"}, i \in Invoices}

\* charge.refunded, with or without an invoice and refunds.
Refunded(i, f, l) == [Plain("refunded") EXCEPT !.invoice = i, !.full = f, !.listed = l]
OfCharge ==
  {Refunded(i, f, l) : i \in Invoices \cup {NoInvoice}, f \in BOOLEAN, l \in BOOLEAN}

\* What an event may carry; "refund" is refund.created or refund.updated, "other" are those
\* the processor does not handle.
Contents ==
  OfSubscription \cup OfInvoice \cup OfCharge
    \cup {[Plain("refund") EXCEPT !.listed = TRUE], Plain("other")}

\* An event the provider does not have in a history.
NoContent == Plain("none")

ASSUME PaymentWebhooksAssumption ==
  /\ Events \subseteq Nat \ {NoEvent}
  /\ NoInvoice \notin Invoices
  /\ Histories \subseteq [content : [Events -> Contents \cup {NoContent}],
                           created : [Events -> 1 .. MaxSecond]]
  /\ MaxSecond \in Nat \ {0}
  /\ MaxFaults \in Nat

VARIABLES
  content,          \* what the events carry
  created,          \* the second in which they were created
  acked,            \* events answered with success
  early,            \* events answered as duplicates before their processing was over
  row,              \* payment_webhook_events.status; "absent" before the insert
  ripe,             \* did the row's five minutes pass?
  state, cancel,    \* of workspace_subscriptions
  cursor,           \* latest_provider_event_ref; its second is created[cursor]
  applied,          \* subscription_state_events
  invoice,          \* status of the rows of billing_invoices
  refunds,          \* events whose refunds are in billing_refunds
  grants,           \* ledger entries that grant the credits of an invoice
  trial,            \* trial_grants has a row of the workspace
  handler,          \* each request's event, the place of its handler and cancelAtPeriodEnd as it read it
  faults

providerVars == <<content, created>>
answerVars == <<acked, early>>
rowVars == <<row, ripe>>
subscriptionVars == <<state, cancel, cursor, applied>>
evidenceVars == <<invoice, refunds, grants>>
vars == <<providerVars, answerVars, rowVars, subscriptionVars, evidenceVars, trial, handler, faults>>

Idle == [place |-> "idle", event |-> NoEvent, cancel |-> FALSE]
Busy == {"store", "write", "read", "apply", "grant", "finish", "fail"}

TypeOK ==
  /\ content \in [Events -> Contents \cup {NoContent}]
  /\ created \in [Events -> 1 .. MaxSecond]
  /\ acked \subseteq Events /\ early \subseteq acked
  /\ row \in [Events -> {"absent", "received", "failed", "processed", "ignored"}]
  /\ ripe \in [Events -> BOOLEAN]
  /\ state \in States /\ cancel \in BOOLEAN
  /\ cursor \in Events \cup {NoEvent}
  /\ applied \subseteq Events
  /\ invoice \in [Invoices -> {"none", "open", "paid", "refunded"}]
  /\ refunds \subseteq Events
  /\ grants \in [Invoices -> Nat]
  /\ trial \in BOOLEAN
  /\ handler \in [Handlers ->
       [place : {"idle"} \cup Busy, event : Events \cup {NoEvent}, cancel : BOOLEAN]]
  /\ faults \in 0 .. MaxFaults

\* ensureBaseline: the free plan, active.  An event that the provider creates later is one
\* that is not delivered yet.
Init ==
  /\ \E x \in Histories : content = x.content /\ created = x.created
  /\ acked = {} /\ early = {}
  /\ row = [e \in Events |-> "absent"]
  /\ ripe = [e \in Events |-> FALSE]
  /\ state = "active" /\ cancel = FALSE
  /\ cursor = NoEvent
  /\ applied = {}
  /\ invoice = [i \in Invoices |-> "none"]
  /\ refunds = {}
  /\ grants = [i \in Invoices |-> 0]
  /\ trial = FALSE
  /\ handler = [h \in Handlers |-> Idle]
  /\ faults = 0

Fault == faults < MaxFaults /\ faults' = faults + 1

Event(h) == handler[h].event
Type(e) == content[e].type
IsAt(h, place) == handler[h].place = place
Goto(h, place) ==
  handler' = [handler EXCEPT ![h] = [Idle EXCEPT !.place = place, !.event = Event(h)]]

-----------------------------------------------------------------------------
(* What happens to the workspace besides                                   *)

\* snapshotWith: an entitlement read after the grace period.
GraceEnds ==
  /\ state = "past_due"
  /\ state' = "restricted"
  /\ UNCHANGED <<providerVars, answerVars, rowVars, cancel, cursor, applied, evidenceVars,
                 trial, handler, faults>>

\* AsyncTrialRepository.activate: once per workspace, whatever its subscription is.
ActivateTrial ==
  /\ ~trial /\ trial' = TRUE
  /\ state' = "trialing" /\ cancel' = FALSE
  /\ UNCHANGED <<providerVars, answerVars, rowVars, cursor, applied, evidenceVars, handler, faults>>

\* Five minutes after a row was received; a handler that still works on it then has stalled.
TimePasses(e) ==
  /\ row[e] = "received" /\ ~ripe[e]
  /\ ripe' = [ripe EXCEPT ![e] = TRUE]
  /\ IF \E h \in Handlers : Event(h) = e THEN Fault ELSE UNCHANGED faults
  /\ UNCHANGED <<providerVars, answerVars, row, subscriptionVars, evidenceVars, trial, handler>>

-----------------------------------------------------------------------------
(* receiveWebhook                                                          *)

\* Mutant: only an expired row is taken again.
ReclaimableReceived(e) == row[e] = "received" /\ ripe[e]

Reclaimable(e) == row[e] = "failed" \/ (row[e] = "received" /\ ripe[e])

Receive(e) ==
  /\ row[e] = "absent" \/ Reclaimable(e)
  /\ row' = [row EXCEPT ![e] = "received"]
  /\ ripe' = [ripe EXCEPT ![e] = FALSE]

\* After the refunds of a charge are stored, or of an invoice's event at once.
AfterRefunds(e) == IF content[e].invoice = NoInvoice THEN "read" ELSE "write"

FirstPlace(e) ==
  CASE Type(e) = "subscription" -> "apply"
    [] Type(e) = "other" -> "finish"
    [] content[e].listed -> "store"
    [] OTHER -> AfterRefunds(e)

\* A delivery of the event, the first or a repeated one.
Deliver(h, e) ==
  /\ IsAt(h, "idle")
  /\ content[e] # NoContent
  /\ Receive(e)
  /\ handler' = [handler EXCEPT ![h] = [Idle EXCEPT !.place = FirstPlace(e), !.event = e]]
  /\ UNCHANGED <<providerVars, answerVars, subscriptionVars, evidenceVars, trial, faults>>

\* A delivery of an event that was received before is answered with success, also while the
\* first delivery is being processed and until its lease is over.
Duplicate(e) ==
  /\ row[e] # "absent" /\ ~Reclaimable(e)
  /\ e \notin acked
  /\ acked' = acked \cup {e}
  /\ early' = IF row[e] = "received" \/ \E h \in Handlers : Event(h) = e
               THEN early \cup {e} ELSE early
  /\ UNCHANGED <<providerVars, rowVars, subscriptionVars, evidenceVars, trial, handler, faults>>

-----------------------------------------------------------------------------
(* dispatch                                                                *)

\* storeRefund, of refund.created and refund.updated or of each refund charge.refunded lists.
Store(h) ==
  /\ IsAt(h, "store")
  /\ refunds' = refunds \cup {Event(h)}
  /\ Goto(h, IF Type(Event(h)) = "refund" THEN "finish" ELSE AfterRefunds(Event(h)))
  /\ UNCHANGED <<providerVars, answerVars, rowVars, subscriptionVars, invoice, grants, trial, faults>>

InvoiceStatus(e) ==
  CASE Type(e) = "paid" -> "paid"
    [] Type(e) = "refunded" -> IF content[e].full THEN "refunded" ELSE "paid"
    [] OTHER -> "open"

WriteInvoice(e) == invoice' = [invoice EXCEPT ![content[e].invoice] = InvoiceStatus(e)]

\* upsertInvoice or recordInvoiceRefund.
Write(h) ==
  /\ IsAt(h, "write")
  /\ WriteInvoice(Event(h))
  /\ Goto(h, "read")
  /\ UNCHANGED <<providerVars, answerVars, rowVars, subscriptionVars, refunds, grants, trial, faults>>

\* Mutant: a full refund is taken as the end of any subscription.
ReadAlways(h) ==
  /\ IsAt(h, "read")
  /\ handler' = [handler EXCEPT ![h] =
       [@ EXCEPT !.place = "apply", !.cancel = cancel /\ Type(Event(h)) = "paid"]]
  /\ UNCHANGED <<providerVars, answerVars, rowVars, subscriptionVars, evidenceVars, trial, faults>>

\* What asks for no change of the subscription, as far as it has been read.
NothingToApply(e) ==
  \/ Type(e) = "updated"
  \/ Type(e) = "refunded" /\ ~(content[e].full /\ state \in Canceling)

\* subscription(): what is read may be old when it is used; a refund goes on only if it is
\* full and the subscription ends, a payment keeps the cancellation it finds.
Read(h) ==
  /\ IsAt(h, "read")
  /\ handler' = [handler EXCEPT ![h] =
       IF NothingToApply(Event(h))
       THEN [@ EXCEPT !.place = "finish"]
       ELSE [@ EXCEPT !.place = "apply", !.cancel = cancel /\ Type(Event(h)) = "paid"]]
  /\ UNCHANGED <<providerVars, answerVars, rowVars, subscriptionVars, evidenceVars, trial, faults>>

\* Mutant: the provider's status is stored as it is.
ToStateUnmapped(h) ==
  LET e == Event(h) IN
  CASE Type(e) = "subscription" -> content[e].state
    [] Type(e) = "payment_failed" -> "unpaid"
    [] Type(e) = "refunded" -> "refunded"
    [] OTHER -> IF handler[h].cancel THEN "cancel_at_period_end" ELSE "active"

ToState(h) ==
  LET e == Event(h) IN
  CASE Type(e) = "subscription" -> content[e].state
    [] Type(e) = "payment_failed" -> "past_due"
    [] Type(e) = "refunded" -> "refunded"
    [] OTHER -> IF handler[h].cancel THEN "cancel_at_period_end" ELSE "active"

ToCancel(h) ==
  LET e == Event(h) IN
  CASE Type(e) = "subscription" -> content[e].flag
    [] Type(e) = "paid" -> handler[h].cancel
    [] OTHER -> cancel

\* Mutant: events of the same second are told apart by nothing.
NewerSecond(e) == cursor = NoEvent \/ created[e] > created[cursor]

Newer(e) ==
  \/ cursor = NoEvent
  \/ created[e] > created[cursor]
  \/ created[e] = created[cursor] /\ e > cursor

\* applySubscriptionState: one transaction under the lock of the workspace.
ApplyState(h) ==
  IF Newer(Event(h))
  THEN /\ state' = ToState(h)
       /\ cancel' = ToCancel(h)
       /\ cursor' = Event(h)
       /\ applied' = applied \cup {Event(h)}
  ELSE UNCHANGED subscriptionVars

Apply(h) ==
  /\ IsAt(h, "apply")
  /\ ApplyState(h)
  /\ Goto(h, IF Type(Event(h)) = "paid" THEN "grant" ELSE "finish")
  /\ UNCHANGED <<providerVars, answerVars, rowVars, evidenceVars, trial, faults>>

\* Mutant: the grant's idempotency key is ignored.
GrantCreditsAgain(e) == grants' = [grants EXCEPT ![content[e].invoice] = @ + 1]

\* grantCredits under the key 'invoice:<ref>'.
GrantCredits(e) ==
  LET i == content[e].invoice
  IN  grants' = [grants EXCEPT ![i] = IF @ = 0 THEN 1 ELSE @]

Grant(h) ==
  /\ IsAt(h, "grant")
  /\ GrantCredits(Event(h))
  /\ Goto(h, "finish")
  /\ UNCHANGED <<providerVars, answerVars, rowVars, subscriptionVars, invoice, refunds, trial, faults>>

-----------------------------------------------------------------------------
(* finishWebhook, which does not ask who holds the row                     *)

FinishRow(e, status) ==
  row' = [row EXCEPT ![e] = status] /\ UNCHANGED ripe

Outcome(e) == IF Type(e) = "other" THEN "ignored" ELSE "processed"

End(h) == handler' = [handler EXCEPT ![h] = Idle]

Finish(h) ==
  /\ IsAt(h, "finish")
  /\ FinishRow(Event(h), Outcome(Event(h)))
  /\ acked' = acked \cup {Event(h)}
  /\ End(h)
  /\ UNCHANGED <<providerVars, early, subscriptionVars, evidenceVars, trial, faults>>

\* The error is recorded and the request refused: the provider delivers the event again.
Fail(h) ==
  /\ IsAt(h, "fail")
  /\ FinishRow(Event(h), "failed")
  /\ End(h)
  /\ UNCHANGED <<providerVars, answerVars, subscriptionVars, evidenceVars, trial, faults>>

-----------------------------------------------------------------------------
(* Faults                                                                  *)

\* What the call awaited at a place may have committed although it throws.
Committed(h) ==
  \/ /\ IsAt(h, "store") /\ refunds' = refunds \cup {Event(h)}
     /\ UNCHANGED <<rowVars, subscriptionVars, invoice, grants>>
  \/ /\ IsAt(h, "write") /\ WriteInvoice(Event(h))
     /\ UNCHANGED <<rowVars, subscriptionVars, refunds, grants>>
  \/ /\ IsAt(h, "apply") /\ ApplyState(h)
     /\ UNCHANGED <<rowVars, evidenceVars>>
  \/ /\ IsAt(h, "grant") /\ GrantCredits(Event(h))
     /\ UNCHANGED <<rowVars, subscriptionVars, invoice, refunds>>
  \/ /\ IsAt(h, "finish") /\ FinishRow(Event(h), Outcome(Event(h)))
     /\ UNCHANGED <<subscriptionVars, evidenceVars>>
  \/ /\ IsAt(h, "fail") /\ FinishRow(Event(h), "failed")
     /\ UNCHANGED <<subscriptionVars, evidenceVars>>

\* A call throws: the row is marked failed, and an error of that is the request's error.
CallFails(h) ==
  /\ ~IsAt(h, "idle")
  /\ Fault
  /\ UNCHANGED <<rowVars, subscriptionVars, evidenceVars>> \/ Committed(h)
  /\ IF IsAt(h, "fail") THEN End(h) ELSE Goto(h, "fail")
  /\ UNCHANGED <<providerVars, answerVars, trial>>

\* The process of the request dies, also in the middle of its answer.
Crash(h) ==
  /\ ~IsAt(h, "idle")
  /\ Fault
  /\ End(h)
  /\ UNCHANGED <<rowVars, subscriptionVars, evidenceVars>> \/ Committed(h)
  /\ UNCHANGED <<providerVars, answerVars, trial>>

-----------------------------------------------------------------------------
Handle(h) ==
  Store(h) \/ Write(h) \/ Read(h) \/ Apply(h) \/ Grant(h) \/ Finish(h) \/ Fail(h)

Next ==
  \/ \E e \in Events : TimePasses(e) \/ Duplicate(e)
  \/ GraceEnds \/ ActivateTrial
  \/ \E h \in Handlers, e \in Events : Deliver(h, e)
  \/ \E h \in Handlers : Handle(h) \/ CallFails(h) \/ Crash(h)

Spec == Init /\ [][Next]_vars

\* The provider delivers an event until it is answered with success, requests proceed.  No
\* request and no event needs a turn of its own: deliveries of an event come to an end.
FairSpec ==
  /\ Spec
  /\ WF_vars(\E h \in Handlers : Handle(h))
  /\ WF_vars(\E e \in Events : /\ e \notin acked
                               /\ Duplicate(e) \/ \E h \in Handlers : Deliver(h, e))

-----------------------------------------------------------------------------
(* Properties                                                              *)

NotNewer(e) ==
  /\ cursor # NoEvent
  /\ created[e] < created[cursor] \/ (created[e] = created[cursor] /\ e <= cursor)

\* The state the event at the cursor stands for: a grace period may have run out since.
StandsFor(e) ==
  CASE Type(e) = "subscription" ->
         {content[e].state} \cup IF content[e].state = "past_due" THEN {"restricted"} ELSE {}
    [] Type(e) = "payment_failed" -> {"past_due", "restricted"}
    [] Type(e) = "refunded" -> {"refunded"}
    [] OTHER -> {IF cancel THEN "cancel_at_period_end" ELSE "active"}

\* An event is processed, or was answered with success while nobody worked on it: the
\* provider will not deliver it again.
Concluded(e) == row[e] = "processed" \/ e \in acked \ early

\* Whatever the order of the deliveries, the subscription is in the state of the newest of
\* the events that were processed or that the provider was told of (the cursor of
\* applySubscriptionState), unless a trial was started on top of it.
NewestEventWins ==
  /\ \A e \in Events :
       \/ e \in applied
       \/ Concluded(e) /\ Type(e) \in {"subscription", "paid", "payment_failed"}
       => NotNewer(e)
  /\ cursor # NoEvent => state \in StandsFor(cursor) \/ (trial /\ state = "trialing")

\* The credits of an invoice are granted at most once, however often and however many of
\* its events are delivered, and no payment is processed, or the provider told so, without
\* them and the invoice's row.
CreditsMatchInvoices ==
  \A i \in Invoices :
    /\ grants[i] <= 1
    /\ grants[i] = 1 => invoice[i] # "none"
    /\ \A e \in Events :
         Concluded(e) /\ Type(e) = "paid" /\ content[e].invoice = i => grants[i] = 1

\* An event that a subscription ends, now or with its period.
Ends(f) == content[f].flag \/ content[f].state \in Canceling

\* A refund ends a subscription only if it is full, an event applied before ended the
\* subscription or announced its end, whatever came in between, and its own refunds are
\* stored (chargeRefunded); and no refund is processed, or the provider told so, that is not
\* stored with its invoice, as far as the event names them.
RefundEvidence ==
  /\ \A e \in applied : Type(e) = "refunded" =>
       /\ content[e].full
       /\ content[e].listed => e \in refunds
       /\ \E f \in applied : Ends(f)
  /\ \A e \in Events : Concluded(e) /\ Type(e) \in {"refunded", "refund"} =>
       /\ content[e].listed => e \in refunds
       /\ content[e].invoice # NoInvoice => invoice[content[e].invoice] # "none"

\* In the end every event is and stays processed, whatever calls fail and whoever dies, except
\* one of which a repeated delivery was answered as a duplicate while the first was not done.
EventuallyProcessed ==
  <>[](\A e \in Events :
         content[e] # NoContent => row[e] \in {"processed", "ignored"} \/ e \in early)
=============================================================================
