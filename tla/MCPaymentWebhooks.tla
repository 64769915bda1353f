-------------------------- MODULE MCPaymentWebhooks --------------------------
(* Instances of PaymentWebhooks for TLC: the values are in the configurations. *)
EXTENDS PaymentWebhooks, Sequences

Active == Subscription("active", FALSE)
Canceled == Subscription("cancel_at_period_end", TRUE)

OfAnInvoice(type) == [Plain(type) EXCEPT !.invoice = CHOOSE i \in Invoices : TRUE]
Paid == OfAnInvoice("paid")
Failed == OfAnInvoice("payment_failed")
Updated == OfAnInvoice("updated")

Refund == [Plain("refund") EXCEPT !.listed = TRUE]
PartialRefund == Refunded(CHOOSE i \in Invoices : TRUE, FALSE, TRUE)
FullRefund == Refunded(CHOOSE i \in Invoices : TRUE, TRUE, TRUE)
BareRefund == Refunded(NoInvoice, TRUE, FALSE)

Pairs ==
  {<<Active, Canceled>>, <<Canceled, Paid>>, <<Canceled, FullRefund>>, <<Canceled, BareRefund>>,
   <<Canceled, PartialRefund>>, <<Paid, FullRefund>>, <<Active, FullRefund>>, <<Paid, Paid>>,
   <<Paid, Failed>>, <<Failed, Active>>, <<Updated, Paid>>, <<Paid, Refund>>,
   <<Plain("other"), Canceled>>}

\* The first before, with or after the second.
TwoEvents ==
  [content : {Append(p, NoContent) : p \in Pairs},
   created : {<<1, 1, 1>>, <<1, 2, 1>>, <<2, 1, 1>>}]

\* A subscription that is past due and ends with its period is paid for and then refunded.
ThreeEvents ==
  [content : {<<Subscription("past_due", TRUE), Paid, FullRefund>>},
   created : {<<1, 1, 2>>}]

MCHistories == TwoEvents \cup ThreeEvents
=============================================================================
