--------------------------- MODULE PrepaidAccount ---------------------------
(***************************************************************************)
(* What the credit ledger promises to whoever pays for a workspace: an     *)
(* account that is topped up, charged at most what it holds, and given     *)
(* back at most what was spent.  Reservations do not show at this level.   *)
(***************************************************************************)
EXTENDS Integers

VARIABLES balance,      \* credits that are not spent, on hold or not
          spent         \* credits charged and not refunded

vars == <<balance, spent>>

Init == balance = 0 /\ spent = 0

TopUp == balance' > balance /\ spent' = spent

Charge ==
  /\ spent' > spent
  /\ balance' >= 0
  /\ balance' + spent' = balance + spent

Refund ==
  /\ spent' < spent
  /\ spent' >= 0
  /\ balance' + spent' = balance + spent

Next == TopUp \/ Charge \/ Refund

Spec == Init /\ [][Next]_vars
=============================================================================
