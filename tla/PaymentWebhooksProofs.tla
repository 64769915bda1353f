----------------------- MODULE PaymentWebhooksProofs -----------------------
(***************************************************************************)
(* The subscription follows the newest event and credits and refunds agree *)
(* with the invoices, for every number of events, invoices and requests    *)
(* and every number of faults.  The inductive invariant adds to the        *)
(* checked ones what a request knows at each place of its handler          *)
(* (Knows), and that the shared rows only grow (Grows) keeps what the      *)
(* other requests know.                                                    *)
(***************************************************************************)
EXTENDS PaymentWebhooks, TLAPS

\* The provider has the event.
Exists(e) == content[e] # NoContent

\* A cancellation was recorded or announced.
Canceled == \E f \in applied : Ends(f)

\* Types of the events whose handler reads the subscription.
Reading == {"paid", "payment_failed", "updated", "refunded"}

Invoiced(e) == content[e].invoice # NoInvoice

\* The refunds and the invoice the event names are stored.
Recorded(e) ==
  /\ content[e].listed => e \in refunds
  /\ Invoiced(e) => invoice[content[e].invoice] # "none"

Stateful == {"subscription", "paid", "payment_failed"}

RowsType ==
  /\ content \in [Events -> Contents \cup {NoContent}]
  /\ created \in [Events -> 1 .. MaxSecond]
  /\ row \in [Events -> {"absent", "received", "failed", "processed", "ignored"}]
  /\ ripe \in [Events -> BOOLEAN]
  /\ state \in States /\ cancel \in BOOLEAN
  /\ cursor \in Events \cup {NoEvent}
  /\ applied \subseteq Events
  /\ invoice \in [Invoices -> {"none", "open", "paid", "refunded"}]
  /\ refunds \subseteq Events
  /\ grants \in [Invoices -> Nat]
  /\ trial \in BOOLEAN

RequestsType ==
  /\ acked \subseteq Events /\ early \subseteq acked
  /\ handler \in [Handlers ->
       [place : {"idle"} \cup Busy, event : Events \cup {NoEvent}, cancel : BOOLEAN]]
  /\ faults \in 0 .. MaxFaults

\* What is stored is stored about an event the provider has.
StoredWhenExists ==
  /\ \A e \in Events : row[e] # "absent" \/ e \in applied => Exists(e)
  /\ cursor # NoEvent => cursor \in applied
  /\ \A e \in Events : row[e] = "ignored" => Type(e) = "other"

\* A subscription is canceled only by a cancellation.
CancelTraced == cancel \/ state \in Canceling => Canceled

\* What the checked invariants say of the events whose row is processed.
NewestStored ==
  /\ \A e \in Events :
       \/ e \in applied
       \/ row[e] = "processed" /\ Type(e) \in Stateful
       => NotNewer(e)
  /\ cursor # NoEvent => state \in StandsFor(cursor) \/ (trial /\ state = "trialing")

CreditsStored ==
  \A i \in Invoices :
    /\ grants[i] <= 1
    /\ grants[i] = 1 => invoice[i] # "none"
    /\ \A e \in Events :
         row[e] = "processed" /\ Type(e) = "paid" /\ content[e].invoice = i => grants[i] = 1

RefundsStored ==
  /\ \A e \in applied : Type(e) = "refunded" =>
       content[e].full /\ (content[e].listed => e \in refunds) /\ Canceled
  /\ \A e \in Events : row[e] = "processed" => Recorded(e)

RowsInv ==
  RowsType /\ StoredWhenExists /\ CancelTraced /\ NewestStored /\ CreditsStored
           /\ RefundsStored

\* What holds of the event of request h at each place of its handler.
Knows(h) ==
  LET e == handler[h].event
      place == handler[h].place
  IN  /\ place # "idle" => e \in Events /\ Exists(e)
      /\ place = "store" => Type(e) \in {"refunded", "refund"}
      /\ place = "write" => Type(e) \in Reading /\ Invoiced(e) /\ (content[e].listed => e \in refunds)
      /\ place = "read" => Type(e) \in Reading
      /\ place = "apply" => Type(e) \in {"subscription", "paid", "payment_failed", "refunded"}
      /\ place = "grant" => Type(e) = "paid"
      /\ place \in {"read", "apply", "grant", "finish"} => Recorded(e)
      /\ place = "apply" /\ Type(e) = "refunded" => content[e].full /\ Canceled
      /\ handler[h].cancel => Canceled
      /\ place \in {"grant", "finish"} /\ Type(e) \in Stateful => NotNewer(e)
      /\ place = "finish" /\ Type(e) = "paid" => grants[content[e].invoice] = 1

HandlingInv == RowsInv /\ RequestsType /\ \A h \in Handlers : Knows(h)

\* Stored evidence stays and the cursor only moves on.
Grows ==
  /\ UNCHANGED providerVars
  /\ \A e \in Events : NotNewer(e) => NotNewer(e)'
  /\ applied \subseteq applied' /\ refunds \subseteq refunds'
  /\ \A i \in Invoices : invoice[i] # "none" => invoice'[i] # "none"
  /\ \A i \in Invoices : grants[i] = 1 => grants'[i] = 1

\* What an event of each type carries.
Shape(x) ==
  /\ x.type \in Reading \cup {"subscription", "refund", "other"}
  /\ x.type \in {"paid", "payment_failed", "updated"} => x.invoice \in Invoices /\ ~x.listed
  /\ x.type = "refunded" => x.invoice \in Invoices \cup {NoInvoice}
  /\ x.type \in {"subscription", "refund", "other"} => x.invoice = NoInvoice
  /\ x.type \in {"subscription", "other"} => ~x.listed
  /\ x.type = "refund" => x.listed
  /\ x.type = "subscription" => x.state \in States /\ x.state # "refunded" /\ x.flag \in BOOLEAN
  /\ x.type # "subscription" => x.state = "none" /\ ~x.flag

LEMMA ContentsShape ==
  ASSUME NEW x \in Contents
  PROVE  x # NoContent /\ Shape(x)
<1>1. CASE x \in OfSubscription
  <2>1. PICK t \in States \ {"refunded"}, f \in BOOLEAN :
          x = Subscription(t, f)
    BY <1>1 DEF OfSubscription
  <2>2. x.type = "subscription" /\ x.state = t /\ x.flag = f /\ x.invoice = NoInvoice /\ ~x.listed
    BY <2>1 DEF Subscription, Plain
  <2>3. QED
    BY <2>2 DEF Shape, NoContent, Plain, Reading
<1>2. CASE x \in OfInvoice
  <2>1. PICK t \in {"paid", "payment_failed", "updated"}, i \in Invoices :
          x = [Plain(t) EXCEPT !.invoice = i]
    BY <1>2 DEF OfInvoice
  <2>2. x.type = t /\ x.state = "none" /\ ~x.flag /\ x.invoice = i /\ ~x.listed
    BY <2>1 DEF Plain
  <2>3. QED
    BY <2>2 DEF Shape, NoContent, Plain, Reading
<1>3. CASE x \in OfCharge
  <2>1. PICK i \in Invoices \cup {NoInvoice}, f \in BOOLEAN, l \in BOOLEAN :
          x = Refunded(i, f, l)
    BY <1>3 DEF OfCharge
  <2>2. x.type = "refunded" /\ x.state = "none" /\ ~x.flag /\ x.invoice = i
    BY <2>1 DEF Refunded, Plain
  <2>3. QED
    BY <2>2 DEF Shape, NoContent, Plain, Reading
<1>4. CASE x = [Plain("refund") EXCEPT !.listed = TRUE] \/ x = Plain("other")
  BY <1>4 DEF Plain, Shape, NoContent, Reading
<1>5. QED
  BY <1>1, <1>2, <1>3, <1>4 DEF Contents

LEMMA EventShape ==
  ASSUME RowsType, NEW e \in Events, Exists(e)
  PROVE  Shape(content[e]) /\ (Invoiced(e) => content[e].invoice \in Invoices)
<1>1. Shape(content[e])
  BY ContentsShape DEF RowsType, Exists
<1>2. QED
  BY <1>1 DEF Shape, Invoiced, Reading

\* What is recorded stays recorded.
LEMMA RecordLasts ==
  ASSUME RowsType, Grows, NEW e \in Events, Exists(e), Recorded(e)
  PROVE  Recorded(e)'
BY EventShape DEF Recorded, Invoiced, Grows, providerVars

\* What a request knows it keeps knowing while others work.
LEMMA KnowledgeLasts ==
  ASSUME RowsInv, Grows, NEW h \in Handlers, Knows(h), handler'[h] = handler[h]
  PROVE  Knows(h)'
<1> DEFINE e == handler[h].event
<1>0. content' = content
  BY DEF Grows, providerVars
<1>1. Canceled => Canceled'
  BY <1>0 DEF Canceled, Grows, Ends
<1>2. CASE handler[h].place = "idle"
  BY <1>1, <1>2 DEF Knows
<1>3. CASE handler[h].place # "idle"
  <2>1. e \in Events /\ Exists(e)
    BY <1>3 DEF Knows
  <2>2. Exists(e)' /\ Type(e)' = Type(e) /\ (Invoiced(e) <=> Invoiced(e)')
    BY <1>0, <2>1 DEF Exists, Type, Invoiced
  <2>3. Type(e) = "paid" => content[e].invoice \in Invoices
    BY <2>1, EventShape DEF Shape, RowsInv, Type
  <2>4. NotNewer(e) => NotNewer(e)'
    BY <2>1 DEF Grows
  <2>5. Recorded(e) => Recorded(e)'
    BY <2>1, RecordLasts DEF RowsInv
  <2>6. QED
    BY <1>0, <1>1, <1>3, <2>1, <2>2, <2>3, <2>4, <2>5 DEF Knows, Grows
<1>4. QED
  BY <1>2, <1>3

-----------------------------------------------------------------------------
(* What the calls of a handler do to the rows                              *)

LEMMA StoreEffect ==
  ASSUME RowsInv, NEW h \in Handlers, Knows(h), handler[h].place = "store",
         refunds' = refunds \cup {Event(h)},
         UNCHANGED <<providerVars, rowVars, subscriptionVars, invoice, grants, trial>>
  PROVE  RowsInv' /\ Grows
<1> USE DEF providerVars, rowVars, subscriptionVars
<1>1. Event(h) \in Events
  BY DEF Knows, Event
<1>2. Grows
  BY DEF Grows, NotNewer
<1>3. RowsType' /\ StoredWhenExists' /\ CancelTraced'
  BY <1>1 DEF RowsInv, RowsType, StoredWhenExists, CancelTraced, Canceled, Ends, Exists, Type
<1>4. NewestStored' /\ CreditsStored'
  BY DEF RowsInv, NewestStored, CreditsStored, NotNewer, StandsFor, Type
<1>5. RefundsStored'
  BY DEF RowsInv, RefundsStored, Recorded, Invoiced, Canceled, Ends, Type
<1>6. QED
  BY <1>2, <1>3, <1>4, <1>5 DEF RowsInv

LEMMA WriteEffect ==
  ASSUME RowsInv, NEW h \in Handlers, Knows(h), handler[h].place = "write",
         WriteInvoice(Event(h)),
         UNCHANGED <<providerVars, rowVars, subscriptionVars, refunds, grants, trial>>
  PROVE  RowsInv' /\ Grows /\ invoice'[content[Event(h)].invoice] # "none"
<1> USE DEF providerVars, rowVars, subscriptionVars
<1> DEFINE e == Event(h)
           i == content[e].invoice
<1>1. e \in Events /\ i \in Invoices
  BY EventShape DEF Knows, Event, RowsInv
<1>2. InvoiceStatus(e) \in {"open", "paid", "refunded"}
  BY DEF InvoiceStatus
<1>3. /\ invoice' \in [Invoices -> {"none", "open", "paid", "refunded"}]
      /\ invoice'[i] # "none"
      /\ \A k \in Invoices : invoice[k] # "none" => invoice'[k] # "none"
  BY <1>1, <1>2 DEF WriteInvoice, RowsInv, RowsType
<1>4. Grows
  BY <1>3 DEF Grows, NotNewer
<1>5. RowsType' /\ StoredWhenExists' /\ CancelTraced'
  BY <1>3 DEF RowsInv, RowsType, StoredWhenExists, CancelTraced, Canceled, Ends, Exists, Type
<1>6. NewestStored'
  BY DEF RowsInv, NewestStored, NotNewer, StandsFor, Type
<1>7. CreditsStored'
  BY <1>3 DEF RowsInv, CreditsStored, Type
<1>8. RefundsStored'
  <2>1. \A f \in Events : row[f] = "processed" => Recorded(f)'
    BY <1>3, EventShape DEF RowsInv, RefundsStored, Recorded, Invoiced, StoredWhenExists
  <2>2. QED
    BY <2>1 DEF RowsInv, RefundsStored, Canceled, Ends, Type
<1>9. QED
  BY <1>3, <1>4, <1>5, <1>6, <1>7, <1>8 DEF RowsInv

\* The cursor is an event, or nothing is newer than nothing.
LEMMA CursorOrder ==
  ASSUME RowsType, NEW e \in Events
  PROVE  Newer(e) <=> ~NotNewer(e)
BY PaymentWebhooksAssumption DEF RowsType, Newer, NotNewer

LEMMA ApplyEffect ==
  ASSUME RowsInv, NEW h \in Handlers, Knows(h), handler[h].place = "apply",
         NEW e \in Events, e = Event(h), handler[h].cancel \in BOOLEAN,
         ApplyState(h),
         UNCHANGED <<providerVars, rowVars, evidenceVars, trial>>
  PROVE  RowsInv' /\ Grows /\ NotNewer(e)'
<1> USE DEF providerVars, rowVars, evidenceVars
<1>1. e \in Events /\ Exists(e) /\ e # NoEvent
  BY PaymentWebhooksAssumption DEF Knows, Event
<1>2. /\ Type(e) \in {"subscription", "paid", "payment_failed", "refunded"}
      /\ Type(e) = "subscription" =>
           content[e].state \in States /\ content[e].flag \in BOOLEAN
  BY <1>1, EventShape DEF Shape, RowsInv, Type, Knows, Event
<1>3. CASE ~Newer(e)
  <2>1. UNCHANGED subscriptionVars
    BY <1>3 DEF ApplyState
  <2>2. NotNewer(e)'
    <3>1. NotNewer(e)
      BY <1>3, CursorOrder DEF RowsInv
    <3>2. QED
      BY <2>1, <3>1 DEF NotNewer, subscriptionVars
  <2>3. Grows
    BY <2>1 DEF Grows, NotNewer, subscriptionVars
  <2>4. RowsInv'
    BY <2>1 DEF RowsInv, RowsType, StoredWhenExists, CancelTraced, Canceled, Ends, Exists,
                NewestStored, CreditsStored, RefundsStored, Recorded, Invoiced, NotNewer,
                StandsFor, Type, subscriptionVars
  <2>5. QED
    BY <2>2, <2>3, <2>4
<1>4. CASE Newer(e)
  <2>1. /\ state' = ToState(h) /\ cancel' = ToCancel(h)
        /\ cursor' = e /\ applied' = applied \cup {e}
    BY <1>4 DEF ApplyState
  <2>2. \A f \in Events : f = e \/ NotNewer(f) => NotNewer(f)'
    <3> SUFFICES ASSUME NEW f \in Events, f = e \/ NotNewer(f)
                 PROVE  NotNewer(f)'
      OBVIOUS
    <3>1. created[f] \in Nat /\ created[e] \in Nat /\ f \in Nat /\ e \in Nat
      BY <1>1, PaymentWebhooksAssumption DEF RowsInv, RowsType
    <3>2. cursor \in Events => created[cursor] \in Nat /\ cursor \in Nat
      BY PaymentWebhooksAssumption DEF RowsInv, RowsType
    <3>3. QED
      BY <1>1, <1>4, <2>1, <3>1, <3>2 DEF NotNewer, Newer, RowsInv, RowsType
  <2>3. state' \in States /\ cancel' \in BOOLEAN
    BY <1>2, <2>1 DEF ToState, ToCancel, States, RowsInv, RowsType
  <2>4. Grows
    BY <2>1, <2>2 DEF Grows
  <2>5. RowsType' /\ StoredWhenExists'
    BY <1>1, <2>1, <2>3 DEF RowsInv, RowsType, StoredWhenExists, Exists, Type
  <2>6. Canceled \/ Ends(e) => Canceled'
    BY <2>1 DEF Canceled, Ends
  <2>7. CancelTraced'
    <3>1. CASE Type(e) = "subscription"
      BY <2>1, <2>6, <3>1 DEF CancelTraced, ToState, ToCancel, Ends
    <3>2. CASE Type(e) \in {"paid", "payment_failed", "refunded"}
      BY <2>1, <2>6, <3>2 DEF CancelTraced, ToState, ToCancel, Canceling, RowsInv, Knows
    <3>3. QED
      BY <1>2, <3>1, <3>2
  <2>8. state' \in StandsFor(cursor)'
    BY <1>2, <2>1 DEF StandsFor, ToState, ToCancel, Type
  <2>9. NewestStored'
    BY <2>1, <2>2, <2>8 DEF NewestStored, RowsInv, Type
  <2>10. CreditsStored'
    BY DEF RowsInv, CreditsStored, Type
  <2>11. RefundsStored'
    <3>1. /\ \A f \in Events : Recorded(f)' <=> Recorded(f)
          /\ \A f \in Events : Type(f)' = Type(f)
          /\ content' = content /\ refunds' = refunds /\ row' = row
      BY DEF Recorded, Invoiced, Type
    <3>2. Type(e) = "refunded" => content[e].full /\ (content[e].listed => e \in refunds) /\ Canceled
      BY DEF Knows, Event, Recorded
    <3>3. QED
      BY <1>1, <2>1, <2>6, <3>1, <3>2 DEF RowsInv, RowsType, RefundsStored
  <2>12. QED
    BY <1>1, <2>2, <2>4, <2>5, <2>7, <2>9, <2>10, <2>11 DEF RowsInv
<1>5. QED
  BY <1>3, <1>4

LEMMA GrantEffect ==
  ASSUME RowsInv, NEW h \in Handlers, Knows(h), handler[h].place = "grant",
         GrantCredits(Event(h)),
         UNCHANGED <<providerVars, rowVars, subscriptionVars, invoice, refunds, trial>>
  PROVE  RowsInv' /\ Grows /\ grants'[content[Event(h)].invoice] = 1
<1> USE DEF providerVars, rowVars, subscriptionVars
<1> DEFINE e == Event(h)
           i == content[e].invoice
<1>1. e \in Events /\ Type(e) = "paid" /\ i \in Invoices /\ invoice[i] # "none"
  <2>1. e \in Events /\ Exists(e) /\ Type(e) = "paid" /\ Recorded(e)
    BY DEF Knows, Event
  <2>2. i \in Invoices
    BY <2>1, EventShape DEF Shape, Type, RowsInv
  <2>3. QED
    BY <2>1, <2>2, PaymentWebhooksAssumption DEF Recorded, Invoiced
<1>2. \A k \in Invoices : grants[k] \in {0, 1}
  BY DEF RowsInv, RowsType, CreditsStored
<1>3. /\ grants' \in [Invoices -> Nat]
      /\ grants'[i] = 1
      /\ \A k \in Invoices : k # i => grants'[k] = grants[k]
  BY <1>1, <1>2 DEF GrantCredits, RowsInv, RowsType
<1>4. Grows
  BY <1>3 DEF Grows, NotNewer
<1>5. RowsType' /\ StoredWhenExists' /\ CancelTraced'
  BY <1>3 DEF RowsInv, RowsType, StoredWhenExists, CancelTraced, Canceled, Ends, Exists, Type
<1>6. NewestStored'
  BY DEF RowsInv, NewestStored, NotNewer, StandsFor, Type
<1>7. CreditsStored'
  BY <1>1, <1>2, <1>3 DEF RowsInv, CreditsStored, Type
<1>8. RefundsStored'
  BY DEF RowsInv, RefundsStored, Recorded, Invoiced, Canceled, Ends, Type
<1>9. QED
  BY <1>3, <1>4, <1>5, <1>6, <1>7, <1>8 DEF RowsInv

LEMMA FinishEffect ==
  ASSUME RowsInv, NEW h \in Handlers, Knows(h),
         \/ handler[h].place = "finish" /\ FinishRow(Event(h), Outcome(Event(h)))
         \/ handler[h].place = "fail" /\ FinishRow(Event(h), "failed"),
         UNCHANGED <<providerVars, subscriptionVars, evidenceVars, trial>>
  PROVE  RowsInv' /\ Grows
<1> USE DEF providerVars, evidenceVars, subscriptionVars
<1> DEFINE e == Event(h)
<1>1. e \in Events /\ Exists(e)
  BY DEF Knows, Event
<1>2. /\ row' \in [Events -> {"absent", "received", "failed", "processed", "ignored"}]
      /\ ripe' = ripe
      /\ \A f \in Events : f # e => row'[f] = row[f]
      /\ row'[e] = "processed" => handler[h].place = "finish"
      /\ row'[e] = "ignored" => Type(e) = "other"
  BY <1>1 DEF FinishRow, Outcome, RowsInv, RowsType
<1>3. Grows
  BY DEF Grows, NotNewer
<1>4. RowsType' /\ StoredWhenExists' /\ CancelTraced'
  BY <1>1, <1>2 DEF RowsInv, RowsType, StoredWhenExists, CancelTraced, Canceled, Ends, Exists, Type
<1>5. handler[h].place = "finish" =>
        /\ Type(e) \in Stateful => NotNewer(e)
        /\ Type(e) = "paid" => grants[content[e].invoice] = 1
        /\ Recorded(e)
  BY DEF Knows, Event
<1>6. NewestStored'
  BY <1>1, <1>2, <1>5 DEF RowsInv, NewestStored, NotNewer, StandsFor, Type, Stateful
<1>7. CreditsStored'
  BY <1>1, <1>2, <1>5 DEF RowsInv, CreditsStored, Type
<1>8. RefundsStored'
  BY <1>1, <1>2, <1>5 DEF RowsInv, RefundsStored, Recorded, Invoiced, Canceled, Ends, Type
<1>9. QED
  BY <1>3, <1>4, <1>6, <1>7, <1>8 DEF RowsInv

-----------------------------------------------------------------------------
(* The steps                                                               *)

\* A step keeps the invariant if it keeps the rows' part, loses no evidence and leaves each
\* request what it knew, or with what it should know at its next place.
LEMMA StepKeeps ==
  ASSUME HandlingInv, RowsInv', RequestsType', Grows,
         \A h \in Handlers : handler'[h] = handler[h] \/ Knows(h)'
  PROVE  HandlingInv' /\ Grows
BY KnowledgeLasts DEF HandlingInv

LEMMA IdleKnows ==
  ASSUME NEW h \in Handlers, handler'[h] = Idle
  PROVE  Knows(h)'
BY DEF Knows, Idle

\* The request goes on to a place, or fails, or ends.
LEMMA HandlerType ==
  ASSUME RequestsType, NEW h \in Handlers, NEW x \in {Idle.place} \cup Busy,
         Event(h) \in Events, Goto(h, x) \/ End(h)
  PROVE  handler' \in [Handlers ->
           [place : {"idle"} \cup Busy, event : Events \cup {NoEvent}, cancel : BOOLEAN]]
<1>1. CASE Goto(h, x)
  BY <1>1 DEF RequestsType, Goto, Idle
<1>2. CASE End(h)
  BY <1>2 DEF RequestsType, End, Idle
<1>3. QED
  BY <1>1, <1>2

LEMMA OthersStay ==
  ASSUME RequestsType, NEW h \in Handlers, NEW x,
         \/ handler' = [handler EXCEPT ![h] = x]
  PROVE  handler'[h] = x /\ \A k \in Handlers \ {h} : handler'[k] = handler[k]
BY DEF RequestsType

LEMMA FailKnows ==
  ASSUME HandlingInv, Grows, NEW h \in Handlers, Event(h) \in Events, Exists(Event(h)),
         Goto(h, "fail")
  PROVE  Knows(h)'
<1>1. handler'[h] = [place |-> "fail", event |-> Event(h), cancel |-> FALSE]
  BY DEF HandlingInv, RequestsType, Goto, Idle
<1>2. Event(h)' = Event(h) /\ Exists(Event(h))'
  BY <1>1 DEF Event, Exists, Grows, providerVars
<1>3. QED
  BY <1>1, <1>2 DEF Knows, Event

LEMMA BusyEvent ==
  ASSUME HandlingInv, NEW h \in Handlers, ~IsAt(h, "idle")
  PROVE  Event(h) \in Events /\ Exists(Event(h)) /\ handler[h].place \in Busy
BY DEF HandlingInv, Knows, Event, IsAt, RequestsType

\* What a request has just done it knows at the next place.
LEMMA StoreStep ==
  ASSUME HandlingInv, NEW h \in Handlers, Store(h)
  PROVE  HandlingInv' /\ Grows
<1>1. RowsInv' /\ Grows
  BY StoreEffect DEF HandlingInv, Store, IsAt
<1>2. PICK e \in Events : e = Event(h) /\ Exists(e)
  BY BusyEvent DEF Store, IsAt
<1>3. PICK p \in {"finish", "read", "write"} :
        /\ Goto(h, p)
        /\ p = "finish" <=> Type(e) = "refund"
        /\ p # "finish" => p = AfterRefunds(e)
  BY <1>2 DEF Store, AfterRefunds
<1>4. handler'[h] = [place |-> p, event |-> e, cancel |-> FALSE]
  BY <1>2, <1>3 DEF Goto, Idle, HandlingInv, RequestsType
<1>5. Knows(h)'
  <2>1. Type(e) \in {"refunded", "refund"}
    BY <1>2 DEF Store, IsAt, HandlingInv, Knows, Event
  <2>2. Exists(e)' /\ Type(e)' = Type(e) /\ content' = content
    BY <1>1, <1>2 DEF Exists, Type, Grows, providerVars
  <2>3. e \in refunds' /\ (Type(e) = "refund" => ~Invoiced(e))
    BY <1>2, EventShape DEF Store, Shape, Type, Invoiced, HandlingInv, RowsInv
  <2>4. p = "write" => Invoiced(e)'
    BY <1>3, <2>2 DEF AfterRefunds, Invoiced
  <2>5. p \in {"read", "finish"} => Recorded(e)'
    BY <1>3, <2>2, <2>3 DEF AfterRefunds, Invoiced, Recorded
  <2>6. QED
    BY <1>2, <1>3, <1>4, <2>1, <2>2, <2>3, <2>4, <2>5 DEF Knows, Reading, Stateful
<1>6. RequestsType'
  BY <1>2, <1>3, HandlerType DEF Store, Busy, RequestsType, answerVars, HandlingInv
<1>7. \A k \in Handlers : handler'[k] = handler[k] \/ Knows(k)'
  BY <1>3, <1>5, OthersStay DEF Goto, HandlingInv
<1>8. QED
  BY <1>1, <1>6, <1>7, StepKeeps

LEMMA WriteStep ==
  ASSUME HandlingInv, NEW h \in Handlers, Write(h)
  PROVE  HandlingInv' /\ Grows
<1>1. RowsInv' /\ Grows /\ invoice'[content[Event(h)].invoice] # "none"
  BY WriteEffect DEF HandlingInv, Write, IsAt
<1>2. Event(h) \in Events /\ Exists(Event(h))
  BY BusyEvent DEF Write, IsAt
<1>3. handler'[h] = [place |-> "read", event |-> Event(h), cancel |-> FALSE]
  BY DEF Write, Goto, Idle, HandlingInv, RequestsType
<1>4. Type(Event(h)) \in Reading /\ (content[Event(h)].listed => Event(h) \in refunds)
  BY DEF Write, IsAt, HandlingInv, Knows, Event
<1>5. Knows(h)'
  <2>1. /\ Event(h)' = Event(h) /\ Exists(Event(h))' /\ Type(Event(h))' = Type(Event(h))
        /\ content' = content
    BY <1>2, <1>3, <1>1 DEF Event, Exists, Type, Grows, providerVars
  <2>2. refunds' = refunds
    BY DEF Write
  <2>3. Recorded(Event(h))'
    BY <1>1, <1>4, <2>1, <2>2 DEF Recorded
  <2>4. QED
    BY <1>2, <1>3, <1>4, <2>1, <2>3 DEF Knows, Event
<1>6. RequestsType'
  BY <1>2, HandlerType DEF Write, Busy, RequestsType, answerVars, HandlingInv
<1>7. \A k \in Handlers : handler'[k] = handler[k] \/ Knows(k)'
  BY <1>5, OthersStay DEF Write, Goto, HandlingInv
<1>8. QED
  BY <1>1, <1>6, <1>7, StepKeeps

LEMMA RowsSame ==
  ASSUME RowsInv,
         UNCHANGED <<providerVars, rowVars, subscriptionVars, evidenceVars, trial>>
  PROVE  RowsInv' /\ Grows
BY DEF RowsInv, RowsType, StoredWhenExists, CancelTraced, Canceled, Ends, Exists, NewestStored,
       CreditsStored, RefundsStored, Recorded, Invoiced, NotNewer, StandsFor, Type, Grows,
       providerVars, rowVars, subscriptionVars, evidenceVars

LEMMA ReadStep ==
  ASSUME HandlingInv, NEW h \in Handlers, Read(h)
  PROVE  HandlingInv' /\ Grows
<1>0. PICK e \in Events : e = Event(h)
  BY BusyEvent DEF Read, IsAt
<1>1. UNCHANGED <<providerVars, rowVars, subscriptionVars, evidenceVars, trial>>
  BY DEF Read
<1>2. RowsInv' /\ Grows
  BY <1>1, RowsSame DEF HandlingInv
<1>3. e \in Events /\ Exists(e) /\ handler[h] \in
        [place : {"idle"} \cup Busy, event : Events \cup {NoEvent}, cancel : BOOLEAN]
  BY <1>0, BusyEvent DEF Read, IsAt, HandlingInv, RequestsType
<1>4. /\ Type(e) \in Reading
      /\ Recorded(e)
      /\ handler[h].cancel \/ cancel \/ state \in Canceling => Canceled
  BY <1>0 DEF Read, IsAt, HandlingInv, Knows, Event, RowsInv, CancelTraced
<1>5. handler'[h].event = e
  BY <1>0, <1>3 DEF Read, Event, HandlingInv, RequestsType
<1>6. /\ Exists(e)' /\ Type(e)' = Type(e) /\ content' = content
      /\ Recorded(e)' <=> Recorded(e)
      /\ Canceled => Canceled'
  BY <1>1, <1>3
  DEF Exists, Type, Recorded, Invoiced, providerVars, evidenceVars, Canceled, Ends,
      subscriptionVars
<1>7. CASE NothingToApply(e)
  <2>1. handler' = [handler EXCEPT ![h] = [@ EXCEPT !.place = "finish"]]
    BY <1>0, <1>7 DEF Read, Event
  <2>2. Type(e) \in {"updated", "refunded"}
    BY <1>7 DEF NothingToApply
  <2>3. Knows(h)'
    BY <1>3, <1>4, <1>5, <1>6, <2>1, <2>2 DEF Knows, Stateful, HandlingInv, RequestsType
  <2>4. RequestsType'
    BY <1>3, <2>1 DEF Read, HandlingInv, RequestsType, Busy, answerVars
  <2>5. QED
    BY <1>2, <2>1, <2>3, <2>4, StepKeeps, OthersStay DEF HandlingInv
<1>8. CASE ~NothingToApply(e)
  <2>1. handler' = [handler EXCEPT ![h] =
          [@ EXCEPT !.place = "apply", !.cancel = cancel /\ Type(e) = "paid"]]
    BY <1>0, <1>8 DEF Read, Event
  <2>2. handler'[h].place = "apply" /\ (handler'[h].cancel => cancel)
    BY <1>3, <2>1 DEF HandlingInv, RequestsType
  <2>3. Knows(h)'
    <3>1. Type(e) \in {"paid", "payment_failed", "refunded"}
      BY <1>4, <1>8 DEF NothingToApply, Reading
    <3>2. Type(e) = "refunded" => content[e].full /\ Canceled
      BY <1>4, <1>8 DEF NothingToApply
    <3>3. QED
      BY <1>3, <1>4, <1>5, <1>6, <2>2, <3>1, <3>2 DEF Knows
  <2>4. PICK c \in BOOLEAN : c = (cancel /\ Type(e) = "paid")
    OBVIOUS
  <2>5. RequestsType'
    <3>1. handler' = [handler EXCEPT ![h] = [@ EXCEPT !.place = "apply", !.cancel = c]]
      BY <2>1, <2>4
    <3>2. UNCHANGED <<answerVars, faults>>
      BY DEF Read
    <3>3. handler' \in [Handlers ->
            [place : {"idle"} \cup Busy, event : Events \cup {NoEvent}, cancel : BOOLEAN]]
      BY <3>1 DEF HandlingInv, RequestsType, Busy
    <3>4. QED
      BY <3>2, <3>3 DEF HandlingInv, RequestsType, answerVars
  <2>6. QED
    BY <1>2, <2>1, <2>3, <2>5, StepKeeps, OthersStay DEF HandlingInv
<1>9. QED
  BY <1>7, <1>8

LEMMA ApplyStep ==
  ASSUME HandlingInv, NEW h \in Handlers, Apply(h)
  PROVE  HandlingInv' /\ Grows
<1>1. PICK e \in Events : e = Event(h)
  BY BusyEvent DEF Apply, IsAt
<1>2. Exists(e)
  BY <1>1, BusyEvent DEF Apply, IsAt
<1>3. RowsInv' /\ Grows /\ NotNewer(e)'
  BY <1>1, ApplyEffect DEF HandlingInv, Apply, IsAt, RequestsType
<1>4. PICK x \in {"grant", "finish"} : /\ Goto(h, x)
                                       /\ x = "grant" <=> Type(e) = "paid"
  BY <1>1 DEF Apply
<1>5. handler'[h] = [place |-> x, event |-> e, cancel |-> FALSE]
  BY <1>1, <1>4 DEF Goto, Idle, HandlingInv, RequestsType
<1>6. Recorded(e)
  BY <1>1 DEF Apply, IsAt, HandlingInv, Knows, Event
<1>7. Knows(h)'
  <2>1. Exists(e)' /\ Type(e)' = Type(e)
    BY <1>2, <1>3 DEF Exists, Type, Grows, providerVars
  <2>2. Recorded(e)'
    BY <1>2, <1>3, <1>6, RecordLasts DEF HandlingInv, RowsInv
  <2>3. QED
    BY <1>3, <1>4, <1>5, <2>1, <2>2 DEF Knows
<1>8. RequestsType'
  BY <1>1, <1>4, HandlerType DEF Apply, Busy, RequestsType, answerVars, HandlingInv
<1>9. \A k \in Handlers : handler'[k] = handler[k] \/ Knows(k)'
  BY <1>4, <1>7, OthersStay DEF Goto, HandlingInv
<1>10. QED
  BY <1>3, <1>8, <1>9, StepKeeps

LEMMA GrantStep ==
  ASSUME HandlingInv, NEW h \in Handlers, Grant(h)
  PROVE  HandlingInv' /\ Grows
<1>1. PICK e \in Events : e = Event(h)
  BY BusyEvent DEF Grant, IsAt
<1>2. Exists(e)
  BY <1>1, BusyEvent DEF Grant, IsAt
<1>3. RowsInv' /\ Grows /\ grants'[content[e].invoice] = 1
  BY <1>1, GrantEffect DEF HandlingInv, Grant, IsAt
<1>4. handler'[h] = [place |-> "finish", event |-> e, cancel |-> FALSE]
  BY <1>1 DEF Grant, Goto, Idle, HandlingInv, RequestsType
<1>5. Type(e) = "paid" /\ NotNewer(e) /\ Recorded(e)
  BY <1>1 DEF Grant, IsAt, HandlingInv, Knows, Event, Stateful
<1>6. Knows(h)'
  <2>1. Exists(e)' /\ Type(e)' = Type(e) /\ content'[e] = content[e] /\ NotNewer(e)'
    BY <1>2, <1>3, <1>5 DEF Exists, Type, Grows, providerVars
  <2>2. Recorded(e)'
    BY <1>2, <1>3, <1>5, RecordLasts DEF HandlingInv, RowsInv
  <2>3. QED
    BY <1>3, <1>4, <1>5, <2>1, <2>2 DEF Knows
<1>7. RequestsType'
  BY <1>1, HandlerType DEF Grant, Busy, RequestsType, answerVars, HandlingInv
<1>8. \A k \in Handlers : handler'[k] = handler[k] \/ Knows(k)'
  BY <1>6, OthersStay DEF Grant, Goto, HandlingInv
<1>9. QED
  BY <1>3, <1>7, <1>8, StepKeeps

\* A request that ends, or goes to mark its event failed, after what it may have committed.
LEMMA LeavingKeeps ==
  ASSUME HandlingInv, RowsInv', Grows, NEW h \in Handlers, ~IsAt(h, "idle"),
         Goto(h, "fail") \/ End(h),
         acked' \subseteq Events, early' \subseteq acked', faults' \in 0 .. MaxFaults
  PROVE  HandlingInv' /\ Grows
<1>1. Event(h) \in Events /\ Exists(Event(h))
  BY BusyEvent
<1>2. RequestsType'
  BY <1>1, HandlerType DEF Idle, Busy, RequestsType, HandlingInv
<1>3. Knows(h)'
  <2>1. CASE End(h)
    BY <2>1, IdleKnows DEF End, HandlingInv, RequestsType
  <2>2. QED
    BY <1>1, <2>1, FailKnows
<1>4. \A k \in Handlers : handler'[k] = handler[k] \/ Knows(k)'
  BY <1>3, OthersStay DEF Goto, End, HandlingInv
<1>5. QED
  BY <1>2, <1>4, StepKeeps

LEMMA FinishStep ==
  ASSUME HandlingInv, NEW h \in Handlers, Finish(h) \/ Fail(h)
  PROVE  HandlingInv' /\ Grows
<1>1. RowsInv' /\ Grows
  BY FinishEffect DEF HandlingInv, Finish, Fail, IsAt
<1>2. Event(h) \in Events /\ ~IsAt(h, "idle") /\ End(h)
  BY BusyEvent DEF Finish, Fail, IsAt
<1>3. acked' \subseteq Events /\ early' \subseteq acked' /\ faults' \in 0 .. MaxFaults
  BY <1>2 DEF Finish, Fail, HandlingInv, RequestsType, answerVars
<1>4. QED
  BY <1>1, <1>2, <1>3, LeavingKeeps

LEMMA CommittedEffect ==
  ASSUME HandlingInv, NEW h \in Handlers, Committed(h), UNCHANGED <<providerVars, trial>>
  PROVE  RowsInv' /\ Grows
<1>1. Knows(h) /\ RowsInv /\ handler[h].cancel \in BOOLEAN
  BY DEF HandlingInv, RequestsType
<1>2. CASE IsAt(h, "store") /\ refunds' = refunds \cup {Event(h)}
           /\ UNCHANGED <<rowVars, subscriptionVars, invoice, grants>>
  BY <1>1, <1>2, StoreEffect DEF IsAt
<1>3. CASE IsAt(h, "write") /\ WriteInvoice(Event(h))
           /\ UNCHANGED <<rowVars, subscriptionVars, refunds, grants>>
  BY <1>1, <1>3, WriteEffect DEF IsAt
<1>4. CASE IsAt(h, "apply") /\ ApplyState(h) /\ UNCHANGED <<rowVars, evidenceVars>>
  <2>1. PICK e \in Events : e = Event(h)
    BY <1>4, BusyEvent DEF IsAt
  <2>2. QED
    BY <1>1, <1>4, <2>1, ApplyEffect DEF IsAt
<1>5. CASE IsAt(h, "grant") /\ GrantCredits(Event(h))
           /\ UNCHANGED <<rowVars, subscriptionVars, invoice, refunds>>
  BY <1>1, <1>5, GrantEffect DEF IsAt
<1>6. CASE /\ \/ IsAt(h, "finish") /\ FinishRow(Event(h), Outcome(Event(h)))
              \/ IsAt(h, "fail") /\ FinishRow(Event(h), "failed")
           /\ UNCHANGED <<subscriptionVars, evidenceVars>>
  BY <1>1, <1>6, FinishEffect DEF IsAt
<1>7. QED
  BY <1>2, <1>3, <1>4, <1>5, <1>6 DEF Committed

LEMMA FaultStep ==
  ASSUME HandlingInv, NEW h \in Handlers, CallFails(h) \/ Crash(h)
  PROVE  HandlingInv' /\ Grows
<1>1. RowsInv' /\ Grows
  <2>1. CASE UNCHANGED <<rowVars, subscriptionVars, evidenceVars>>
    BY <2>1, RowsSame DEF CallFails, Crash, HandlingInv
  <2>2. CASE Committed(h)
    BY <2>2, CommittedEffect DEF CallFails, Crash
  <2>3. QED
    BY <2>1, <2>2 DEF CallFails, Crash
<1>2. ~IsAt(h, "idle") /\ (Goto(h, "fail") \/ End(h))
  BY DEF CallFails, Crash
<1>3. Fault /\ UNCHANGED answerVars /\ RequestsType
  BY DEF CallFails, Crash, HandlingInv
<1>4. acked' \subseteq Events /\ early' \subseteq acked' /\ faults' \in 0 .. MaxFaults
  BY <1>3, PaymentWebhooksAssumption DEF Fault, RequestsType, answerVars
<1>5. QED
  BY <1>1, <1>2, <1>4, LeavingKeeps

\* What holds of an event before anything is stored for it.
FirstKnows(e) ==
  /\ FirstPlace(e) \in {"apply", "store", "finish", "write", "read"}
  /\ FirstPlace(e) = "apply" => Type(e) = "subscription"
  /\ FirstPlace(e) = "store" => Type(e) \in {"refunded", "refund"}
  /\ FirstPlace(e) = "finish" => Type(e) = "other"
  /\ FirstPlace(e) = "write" => Type(e) \in Reading /\ Invoiced(e) /\ ~content[e].listed
  /\ FirstPlace(e) = "read" => Type(e) \in Reading
  /\ FirstPlace(e) \in {"apply", "finish", "read"} => Recorded(e)

LEMMA FirstPlaceKnows ==
  ASSUME RowsType, NEW e \in Events, Exists(e)
  PROVE  FirstKnows(e)
<1>1. Shape(content[e])
  BY EventShape
<1>2. CASE Type(e) \in {"subscription", "other"}
  BY <1>1, <1>2 DEF FirstPlace, FirstKnows, Shape, Type, Recorded, Invoiced
<1>3. CASE Type(e) \notin {"subscription", "other"} /\ content[e].listed
  <2>1. FirstPlace(e) = "store" /\ Type(e) \in {"refunded", "refund"}
    BY <1>1, <1>3 DEF FirstPlace, Shape, Type, Reading
  <2>2. QED
    BY <2>1 DEF FirstKnows
<1>4. CASE Type(e) \notin {"subscription", "other"} /\ ~content[e].listed
  <2>1. FirstPlace(e) = AfterRefunds(e)
    BY <1>4 DEF FirstPlace
  <2>2. Type(e) \in Reading \/ Type(e) = "refund"
    BY <1>1, <1>4 DEF Shape, Type
  <2>3. Type(e) # "refund"
    BY <1>1, <1>4 DEF Shape, Type
  <2>4. QED
    BY <1>4, <2>1, <2>2, <2>3 DEF AfterRefunds, FirstKnows, Recorded, Invoiced
<1>5. QED
  BY <1>2, <1>3, <1>4

LEMMA DeliverStep ==
  ASSUME HandlingInv, NEW h \in Handlers, NEW e \in Events, Deliver(h, e)
  PROVE  HandlingInv' /\ Grows
<1>1. /\ Exists(e)
      /\ UNCHANGED <<providerVars, answerVars, subscriptionVars, evidenceVars, trial, faults>>
      /\ row' = [row EXCEPT ![e] = "received"] /\ ripe' = [ripe EXCEPT ![e] = FALSE]
  BY DEF Deliver, Receive, Exists
<1>2. Grows
  BY <1>1 DEF Grows, NotNewer, providerVars, subscriptionVars, evidenceVars
<1>3. RowsInv'
  BY <1>1
  DEF HandlingInv, RowsInv, RowsType, StoredWhenExists, CancelTraced, Canceled, Ends, Exists,
      NewestStored, CreditsStored, RefundsStored, Recorded, Invoiced, NotNewer, StandsFor,
      Type, providerVars, subscriptionVars, evidenceVars
<1>4. PICK p \in Busy : /\ p = FirstPlace(e)
                        /\ handler' = [handler EXCEPT ![h] =
                                        [Idle EXCEPT !.place = p, !.event = e]]
  BY <1>1, FirstPlaceKnows DEF Deliver, HandlingInv, RowsInv, Busy, FirstKnows
<1>5. RequestsType'
  BY <1>1, <1>4 DEF HandlingInv, RequestsType, Idle, answerVars
<1>6. Knows(h)'
  <2>1. handler'[h] = [place |-> p, event |-> e, cancel |-> FALSE]
    BY <1>4 DEF HandlingInv, RequestsType, Idle
  <2>2. Exists(e)' /\ Type(e)' = Type(e) /\ content' = content
    BY <1>1 DEF Exists, Type, providerVars
  <2>3. Recorded(e) => Recorded(e)'
    BY <1>1 DEF Recorded, Invoiced, providerVars, evidenceVars
  <2>4. Invoiced(e)' <=> Invoiced(e)
    BY <2>2 DEF Invoiced
  <2>5. FirstKnows(e)
    BY <1>1, FirstPlaceKnows DEF HandlingInv, RowsInv
  <2>6. /\ p \in {"apply", "store", "finish", "write", "read"}
        /\ p = "apply" => Type(e) = "subscription"
        /\ p = "store" => Type(e) \in {"refunded", "refund"}
        /\ p = "finish" => Type(e) = "other"
        /\ p = "write" => Type(e) \in Reading /\ Invoiced(e) /\ ~content[e].listed
        /\ p = "read" => Type(e) \in Reading
        /\ p \in {"apply", "finish", "read"} => Recorded(e)
    BY <1>4, <2>5 DEF FirstKnows
  <2>7. QED
    BY <2>1, <2>2, <2>3, <2>4, <2>6 DEF Knows, Stateful
<1>7. QED
  BY <1>2, <1>3, <1>4, <1>5, <1>6, StepKeeps, OthersStay DEF HandlingInv

LEMMA TimeStep ==
  ASSUME HandlingInv, NEW e \in Events, TimePasses(e) \/ Duplicate(e)
  PROVE  HandlingInv' /\ Grows
<1>1. /\ UNCHANGED <<providerVars, row, subscriptionVars, evidenceVars, trial, handler>>
      /\ ripe' \in [Events -> BOOLEAN]
  BY DEF TimePasses, Duplicate, rowVars, HandlingInv, RowsInv, RowsType
<1>2. RowsInv' /\ Grows
  BY <1>1
  DEF HandlingInv, RowsInv, RowsType, StoredWhenExists, CancelTraced, Canceled, Ends, Exists,
      NewestStored, CreditsStored, RefundsStored, Recorded, Invoiced, NotNewer, StandsFor,
      Type, Grows, providerVars, subscriptionVars, evidenceVars
<1>3. RequestsType'
  <2>1. CASE TimePasses(e)
    BY <1>1, <2>1, PaymentWebhooksAssumption
    DEF TimePasses, Fault, HandlingInv, RequestsType, answerVars
  <2>2. CASE Duplicate(e)
    BY <1>1, <2>2 DEF Duplicate, HandlingInv, RequestsType
  <2>3. QED
    BY <2>1, <2>2
<1>4. QED
  BY <1>1, <1>2, <1>3, StepKeeps

LEMMA OwnerStep ==
  ASSUME HandlingInv, GraceEnds \/ ActivateTrial
  PROVE  HandlingInv' /\ Grows
<1>1. UNCHANGED <<providerVars, answerVars, rowVars, cursor, applied, evidenceVars, handler, faults>>
  BY DEF GraceEnds, ActivateTrial
<1>2. /\ state' \in States /\ cancel' \in BOOLEAN /\ trial' \in BOOLEAN
      /\ ~(state' \in Canceling) /\ (cancel' => cancel)
  <2>1. CASE GraceEnds
    BY <2>1 DEF GraceEnds, States, Canceling, HandlingInv, RowsInv, RowsType
  <2>2. CASE ActivateTrial
    BY <2>2 DEF ActivateTrial, States, Canceling
  <2>3. QED
    BY <2>1, <2>2
<1>3. Grows
  BY <1>1 DEF Grows, NotNewer, providerVars, evidenceVars
<1>4. RowsType' /\ StoredWhenExists' /\ CancelTraced'
  BY <1>1, <1>2
  DEF HandlingInv, RowsInv, RowsType, StoredWhenExists, CancelTraced, Canceled, Ends, Exists,
      Type, providerVars, rowVars, evidenceVars
<1>5. cursor' # NoEvent => state' \in StandsFor(cursor)' \/ (trial' /\ state' = "trialing")
  <2>1. CASE ActivateTrial
    BY <2>1 DEF ActivateTrial
  <2>2. CASE GraceEnds
    <3>1. state = "past_due" /\ state' = "restricted" /\ cancel' = cancel /\ content' = content
      BY <2>2 DEF GraceEnds, providerVars
    <3>2. cursor # NoEvent => state \in StandsFor(cursor)
      BY <3>1 DEF HandlingInv, RowsInv, NewestStored
    <3>3. cursor # NoEvent => "restricted" \in StandsFor(cursor)
      BY <3>1, <3>2 DEF StandsFor
    <3>4. StandsFor(cursor)' = StandsFor(cursor)
      BY <1>1, <3>1 DEF StandsFor, Type
    <3>5. QED
      BY <1>1, <3>1, <3>3, <3>4
  <2>3. QED
    BY <2>1, <2>2
<1>6. NewestStored'
  BY <1>1, <1>5 DEF NewestStored, NotNewer, Type, HandlingInv, RowsInv, providerVars, rowVars
<1>7. CreditsStored' /\ RefundsStored'
  BY <1>1
  DEF CreditsStored, RefundsStored, Recorded, Invoiced, Canceled, Ends, Type, HandlingInv, RowsInv, providerVars, rowVars,
      evidenceVars
<1>8. RequestsType'
  BY <1>1 DEF HandlingInv, RequestsType, answerVars
<1>9. QED
  BY <1>1, <1>3, <1>4, <1>6, <1>7, <1>8, StepKeeps DEF RowsInv

LEMMA HandlingInit == Init => HandlingInv
<1> SUFFICES ASSUME Init PROVE HandlingInv
  OBVIOUS
<1> USE PaymentWebhooksAssumption DEF Init
<1>1. RowsType
  <2>1. state \in States
    BY DEF States
  <2>2. PICK x \in Histories : content = x.content /\ created = x.created
    OBVIOUS
  <2>3. /\ content \in [Events -> Contents \cup {NoContent}]
        /\ created \in [Events -> 1 .. MaxSecond]
    BY <2>2
  <2>4. QED
    BY <2>1, <2>3 DEF RowsType
<1>2. StoredWhenExists /\ CancelTraced
  BY DEF StoredWhenExists, CancelTraced, Canceling
<1>3. NewestStored /\ CreditsStored /\ RefundsStored
  BY DEF NewestStored, CreditsStored, RefundsStored
<1>4. RequestsType /\ \A h \in Handlers : Knows(h)
  BY DEF RequestsType, Knows, Idle
<1>5. QED
  BY <1>1, <1>2, <1>3, <1>4 DEF HandlingInv, RowsInv

LEMMA HandlingInductive == HandlingInv /\ [Next]_vars => HandlingInv' /\ Grows
<1> SUFFICES ASSUME HandlingInv, [Next]_vars PROVE HandlingInv' /\ Grows
  OBVIOUS
<1>1. CASE \E e \in Events : TimePasses(e) \/ Duplicate(e)
  BY <1>1, TimeStep
<1>2. CASE GraceEnds \/ ActivateTrial
  BY <1>2, OwnerStep
<1>3. CASE \E h \in Handlers, e \in Events : Deliver(h, e)
  BY <1>3, DeliverStep
<1>4. ASSUME NEW h \in Handlers, Handle(h) PROVE HandlingInv' /\ Grows
  BY <1>4, StoreStep, WriteStep, ReadStep, ApplyStep, GrantStep, FinishStep DEF Handle
<1>5. ASSUME NEW h \in Handlers, CallFails(h) \/ Crash(h) PROVE HandlingInv' /\ Grows
  BY <1>5, FaultStep
<1>6. CASE UNCHANGED vars
  <2>1. RowsInv' /\ Grows
    BY <1>6, RowsSame DEF vars, HandlingInv
  <2>2. RequestsType' /\ handler' = handler
    BY <1>6 DEF vars, HandlingInv, RequestsType, answerVars
  <2>3. QED
    BY <2>1, <2>2, StepKeeps
<1>7. QED
  BY <1>1, <1>2, <1>3, <1>4, <1>5, <1>6 DEF Next

-----------------------------------------------------------------------------
(* Events answered with success                                            *)

\* What the event was to change has been changed.
Done(e) ==
  /\ Exists(e)
  /\ Type(e) \in Stateful => NotNewer(e)
  /\ Type(e) = "paid" => grants[content[e].invoice] = 1
  /\ Recorded(e)

AnsweredDone == \A e \in acked \ early : Done(e)

\* The inductive invariant.
WebhooksInv == HandlingInv /\ AnsweredDone

LEMMA ProcessedIsDone ==
  ASSUME RowsInv, NEW e \in Events, row[e] \in {"processed", "ignored"}
  PROVE  Done(e)
<1>1. Exists(e) /\ (row[e] = "ignored" => Type(e) = "other")
  BY DEF RowsInv, StoredWhenExists
<1>2. Type(e) = "paid" => content[e].invoice \in Invoices
  BY <1>1, EventShape DEF RowsInv, Shape, Type
<1>3. Recorded(e)
  BY <1>1, EventShape DEF RowsInv, RefundsStored, Recorded, Invoiced, Shape, Type
<1>4. QED
  BY <1>1, <1>2, <1>3 DEF Done, RowsInv, NewestStored, CreditsStored, Stateful

LEMMA DoneLasts ==
  ASSUME RowsInv, Grows, NEW e \in Events, Done(e)
  PROVE  Done(e)'
<1>1. content' = content /\ Type(e)' = Type(e) /\ Exists(e)'
  BY DEF Done, Grows, Exists, Type, providerVars
<1>2. Type(e) = "paid" => content[e].invoice \in Invoices
  BY EventShape DEF Done, RowsInv, Shape, Type
<1>3. NotNewer(e) => NotNewer(e)'
  BY DEF Grows, Done
<1>4. Recorded(e)'
  BY RecordLasts DEF Done, RowsInv
<1>5. QED
  BY <1>1, <1>2, <1>3, <1>4 DEF Done, Grows

\* An event is answered by the handler that finished it, or as a duplicate of one that is
\* done; or the answer is remembered as early.
LEMMA AnswersFollow ==
  ASSUME HandlingInv, [Next]_vars, NEW e \in acked' \ early'
  PROVE  e \in acked \ early \/ (e \in Events /\ Done(e))
<1>1. CASE UNCHANGED answerVars
  BY <1>1 DEF answerVars
<1>2. ASSUME NEW f \in Events, Duplicate(f)
      PROVE  e \in acked \ early \/ (Done(f) /\ e = f)
  <2>1. CASE e = f
    <3>1. row[f] \in {"absent", "received", "failed", "processed", "ignored"}
      BY DEF HandlingInv, RowsInv, RowsType
    <3>2. row[f] # "absent" /\ row[f] # "received" /\ row[f] # "failed"
      BY <1>2, <2>1 DEF Duplicate, Reclaimable
    <3>3. QED
      BY <2>1, <3>1, <3>2, ProcessedIsDone DEF HandlingInv
  <2>2. CASE e # f
    <3>1. acked' = acked \cup {f} /\ early \subseteq early'
      BY <1>2 DEF Duplicate
    <3>2. e \in acked' /\ e \notin early'
      OBVIOUS
    <3>3. e \in acked /\ e \notin early
      BY <2>2, <3>1, <3>2
    <3>4. QED
      BY <3>3
  <2>3. QED
    BY <2>1, <2>2
<1>3. ASSUME NEW h \in Handlers, Finish(h)
      PROVE  e \in acked \ early \/ (e \in Events /\ Done(e))
  <2>1. Event(h) \in Events /\ Knows(h) /\ handler[h].place = "finish"
    BY <1>3, BusyEvent DEF Finish, IsAt, HandlingInv
  <2>2. Done(Event(h))
    BY <2>1 DEF Knows, Done, Event
  <2>3. QED
    BY <1>3, <2>1, <2>2 DEF Finish
<1>4. UNCHANGED answerVars \/ (\E f \in Events : Duplicate(f)) \/ (\E h \in Handlers : Finish(h))
  BY DEF Next, TimePasses, GraceEnds, ActivateTrial, Deliver, Handle, Store, Write, Read,
         Apply, Grant, Fail, CallFails, Crash, vars
<1>5. QED
  BY <1>1, <1>2, <1>3, <1>4

\* The strengthened invariant holds before the first event.
THEOREM WebhooksInit == Init => WebhooksInv
<1>1. Init => AnsweredDone
  BY DEF Init, AnsweredDone
<1>2. QED
  BY <1>1, HandlingInit DEF WebhooksInv

\* The strengthened invariant is kept by every step of the provider, the owner, the
\* handlers and the faults.
THEOREM WebhooksInductive == WebhooksInv /\ [Next]_vars => WebhooksInv'
<1> SUFFICES ASSUME WebhooksInv, [Next]_vars PROVE WebhooksInv'
  OBVIOUS
<1>1. HandlingInv' /\ Grows
  BY HandlingInductive DEF WebhooksInv
<1>2. ASSUME NEW e \in acked' \ early' PROVE Done(e)'
  <2>1. e \in Events /\ Done(e)
    BY AnswersFollow DEF WebhooksInv, AnsweredDone, HandlingInv, RequestsType
  <2>2. QED
    BY <1>1, <2>1, DoneLasts DEF WebhooksInv, HandlingInv
<1>3. QED
  BY <1>1, <1>2 DEF WebhooksInv, AnsweredDone

LEMMA ConcludedIsDone ==
  ASSUME WebhooksInv, NEW e \in Events, Concluded(e)
  PROVE  Done(e)
BY ProcessedIsDone DEF WebhooksInv, HandlingInv, AnsweredDone, Concluded

LEMMA InvConcludes == WebhooksInv => NewestEventWins /\ CreditsMatchInvoices /\ RefundEvidence
<1> SUFFICES ASSUME WebhooksInv PROVE NewestEventWins /\ CreditsMatchInvoices /\ RefundEvidence
  OBVIOUS
<1>1. NewestStored /\ CreditsStored /\ RefundsStored
  BY DEF WebhooksInv, HandlingInv, RowsInv
<1>2. NewestEventWins
  BY <1>1, ConcludedIsDone DEF NewestEventWins, NewestStored, Done, Stateful
<1>3. CreditsMatchInvoices
  BY <1>1, ConcludedIsDone DEF CreditsMatchInvoices, CreditsStored, Done
<1>4. RefundEvidence
  BY <1>1, ConcludedIsDone
  DEF RefundEvidence, RefundsStored, Recorded, Invoiced, Canceled, Done
<1>5. QED
  BY <1>2, <1>3, <1>4

\* The rows and the requests stay within their types (payment_webhook_events,
\* workspace_subscriptions, billing_invoices).
THEOREM WebhooksTyped == Spec => []TypeOK
<1>1. WebhooksInv => TypeOK
  BY DEF WebhooksInv, HandlingInv, RowsInv, RowsType, RequestsType, TypeOK
<1>2. QED
  BY WebhooksInit, WebhooksInductive, <1>1, PTL DEF Spec

\* However events are delivered, repeated and interleaved, the subscription stands
\* where the newest of the processed events left it (applySubscriptionState).
THEOREM SubscriptionFollowsNewestEvent == Spec => []NewestEventWins
<1>1. WebhooksInv => NewestEventWins
  BY InvConcludes
<1>2. QED
  BY WebhooksInit, WebhooksInductive, <1>1, PTL DEF Spec

\* The credits of an invoice are granted once, and a paid invoice is not finished without
\* them (invoicePaid, grantCredits).
THEOREM InvoicesGrantOnce == Spec => []CreditsMatchInvoices
<1>1. WebhooksInv => CreditsMatchInvoices
  BY InvConcludes
<1>2. QED
  BY WebhooksInit, WebhooksInductive, <1>1, PTL DEF Spec

\* Only a full refund ends a subscription, after an applied event that ended it or announced
\* its end, and the refunds and invoices that events name are stored (chargeRefunded).
THEOREM RefundsEndOnlyCancelled == Spec => []RefundEvidence
<1>1. WebhooksInv => RefundEvidence
  BY InvConcludes
<1>2. QED
  BY WebhooksInit, WebhooksInductive, <1>1, PTL DEF Spec
=============================================================================
