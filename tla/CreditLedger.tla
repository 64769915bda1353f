---------------------------- MODULE CreditLedger ----------------------------
(***************************************************************************)
(* The credit ledger of one workspace (asyncCreditLedgerRepository.ts and  *)
(* the triggers of migration billing.ts).  Every operation is one database *)
(* transaction under the advisory lock of the workspace, hence one step;   *)
(* two workspaces share no row.  An operation that throws is rolled back   *)
(* and one that replays an earlier call changes nothing: neither is a      *)
(* step.  The balances are the projection of the ledger entries that the   *)
(* trigger maintains; its CHECKs are not guards here, so that the          *)
(* invariants show the code itself keeps the balances from going negative. *)
(***************************************************************************)
EXTENDS Sums

CONSTANTS
  NumReservations,      \* the reservation keys are 1 .. NumReservations
  NumKeys,              \* the keys of grants and refunds are 1 .. NumKeys
  MaxAmount,            \* bound: the largest amount of one call
  BaselineCredits       \* monthly_credit_grant of the free plan

ASSUME CreditLedgerAssumption ==
  /\ NumReservations \in Nat
  /\ NumKeys \in Nat
  /\ MaxAmount \in Nat
  /\ BaselineCredits \in Nat

Reservations == 1 .. NumReservations
Keys == 1 .. NumKeys
Amounts == 1 .. MaxAmount

VARIABLES
  opened,               \* has the workspace its account and baseline grant?
  available, reserved, spent,   \* the row of credit_accounts
  state, held,          \* per reservation: state and reserved_credits
  charged,              \* per reservation: credits_charged of its usage event
  entryType,            \* per key: event_type of its ledger entry, or none
  entryAmount,          \* per key: available_delta of that entry
  entryUsage            \* per key: the reservation whose usage it refunds, or 0

accountVars == <<available, reserved, spent>>
reservationVars == <<state, held, charged>>
entryVars == <<entryType, entryAmount, entryUsage>>
ledgerVars == <<opened, accountVars, reservationVars, entryVars>>

TypeOK ==
  /\ opened \in BOOLEAN
  /\ available \in Nat /\ reserved \in Nat /\ spent \in Nat
  /\ state \in [Reservations -> {"none", "reserved", "settled", "released"}]
  /\ held \in [Reservations -> Nat]
  /\ charged \in [Reservations -> Nat]
  /\ entryType \in [Keys -> {"none", "grant", "refund"}]
  /\ entryAmount \in [Keys -> Nat]
  /\ entryUsage \in [Keys -> Reservations \cup {0}]

Init ==
  /\ opened = FALSE
  /\ available = 0 /\ reserved = 0 /\ spent = 0
  /\ state = [r \in Reservations |-> "none"]
  /\ held = [r \in Reservations |-> 0]
  /\ charged = [r \in Reservations |-> 0]
  /\ entryType = [k \in Keys |-> "none"]
  /\ entryAmount = [k \in Keys |-> 0]
  /\ entryUsage = [k \in Keys |-> 0]

-----------------------------------------------------------------------------
\* ensureBaseline() grants the free plan's credits once per workspace; the
\* balance it leaves is what accountWith() then reads.
OpenedAvailable == available + (IF opened THEN 0 ELSE BaselineCredits)

\* account() on a workspace that has no account yet.
OpenAccount ==
  /\ ~opened
  /\ opened' = TRUE
  /\ available' = OpenedAvailable
  /\ UNCHANGED <<reserved, spent, reservationVars, entryVars>>

Record(k, type, amount, usage) ==
  /\ entryType' = [entryType EXCEPT ![k] = type]
  /\ entryAmount' = [entryAmount EXCEPT ![k] = amount]
  /\ entryUsage' = [entryUsage EXCEPT ![k] = usage]

\* grant(): the first call with this key; a replay is validated and changes nothing.
Grant(k, amount) ==
  /\ entryType[k] = "none"
  /\ opened' = TRUE
  /\ available' = OpenedAvailable + amount
  /\ Record(k, "grant", amount, 0)
  /\ UNCHANGED <<reserved, spent, reservationVars>>

\* Mutant: the balance is not checked.
ReserveUnchecked(r, credits) ==
  /\ state[r] = "none"
  /\ opened' = TRUE
  /\ available' = OpenedAvailable - credits
  /\ reserved' = reserved + credits
  /\ state' = [state EXCEPT ![r] = "reserved"]
  /\ held' = [held EXCEPT ![r] = credits]
  /\ UNCHANGED <<spent, charged, entryVars>>

\* reserve(): the first call with this key.
Reserve(r, credits) ==
  /\ state[r] = "none"
  /\ OpenedAvailable >= credits
  /\ opened' = TRUE
  /\ available' = OpenedAvailable - credits
  /\ reserved' = reserved + credits
  /\ state' = [state EXCEPT ![r] = "reserved"]
  /\ held' = [held EXCEPT ![r] = credits]
  /\ UNCHANGED <<spent, charged, entryVars>>

\* A second reserve() with the key and the credits of the first returns the
\* reservation it finds, in whatever state that is.
ReserveReplays(r, credits) == state[r] # "none" /\ held[r] = credits

\* Mutant: reserved_delta is what was used instead of what was held.
SettleActualOnly(r, actual) ==
  /\ state[r] = "reserved"
  /\ available + held[r] >= actual
  /\ available' = available + held[r] - actual
  /\ reserved' = reserved - actual
  /\ spent' = spent + actual
  /\ state' = [state EXCEPT ![r] = "settled"]
  /\ charged' = [charged EXCEPT ![r] = actual]
  /\ UNCHANGED <<opened, held, entryVars>>

\* Mutant: the settlement may exceed the available credits.
SettleOnCredit(r, actual) ==
  /\ state[r] = "reserved"
  /\ available' = available + held[r] - actual
  /\ reserved' = reserved - held[r]
  /\ spent' = spent + actual
  /\ state' = [state EXCEPT ![r] = "settled"]
  /\ charged' = [charged EXCEPT ![r] = actual]
  /\ UNCHANGED <<opened, held, entryVars>>

\* settle(): more than the reservation holds is taken from the available credits.
Settle(r, actual) ==
  /\ state[r] = "reserved"
  /\ available + held[r] >= actual
  /\ available' = available + held[r] - actual
  /\ reserved' = reserved - held[r]
  /\ spent' = spent + actual
  /\ state' = [state EXCEPT ![r] = "settled"]
  /\ charged' = [charged EXCEPT ![r] = actual]
  /\ UNCHANGED <<opened, held, entryVars>>

\* A second settle() finds the usage event of the first.
SettleReplays(r, actual) == state[r] = "settled" /\ charged[r] = actual

\* Mutant: everything that is not released yet can be released.
ReleaseUnlessReleased(r) ==
  /\ state[r] \notin {"none", "released"}
  /\ available' = available + held[r]
  /\ reserved' = reserved - held[r]
  /\ state' = [state EXCEPT ![r] = "released"]
  /\ UNCHANGED <<opened, spent, held, charged, entryVars>>

\* release(): a reservation that is released already is returned as it is.
Release(r) ==
  /\ state[r] = "reserved"
  /\ available' = available + held[r]
  /\ reserved' = reserved - held[r]
  /\ state' = [state EXCEPT ![r] = "released"]
  /\ UNCHANGED <<opened, spent, held, charged, entryVars>>

\* The refunds of a usage event, as the join of refund() sums them.
RefundsOf(r) ==
  [k \in Keys |-> IF entryType[k] = "refund" /\ entryUsage[k] = r THEN entryAmount[k] ELSE 0]
Refunded(r) == SumTo(RefundsOf(r), NumKeys)

\* Mutant: earlier refunds of the usage event are not counted.
RefundUsageAgain(k, r, credits) ==
  /\ entryType[k] = "none"
  /\ state[r] = "settled"
  /\ credits <= charged[r]
  /\ available' = available + credits
  /\ spent' = spent - credits
  /\ Record(k, "refund", credits, r)
  /\ UNCHANGED <<opened, reserved, reservationVars>>

\* refund(): the first call with this key, of the usage event of r.
RefundUsage(k, r, credits) ==
  /\ entryType[k] = "none"
  /\ state[r] = "settled"
  /\ credits <= charged[r] - Refunded(r)
  /\ available' = available + credits
  /\ spent' = spent - credits
  /\ Record(k, "refund", credits, r)
  /\ UNCHANGED <<opened, reserved, reservationVars>>

Next ==
  \/ OpenAccount
  \/ \E k \in Keys, n \in Amounts :
       Grant(k, n) \/ \E r \in Reservations : RefundUsage(k, r, n)
  \/ \E r \in Reservations :
       \/ \E n \in Amounts : Reserve(r, n)
       \/ \E n \in Amounts \cup {0} : Settle(r, n)
       \/ Release(r)

Spec == Init /\ [][Next]_ledgerVars

-----------------------------------------------------------------------------
(* Properties                                                              *)

Holds == [r \in Reservations |-> IF state[r] = "reserved" THEN held[r] ELSE 0]
NetCharges == [r \in Reservations |-> charged[r] - Refunded(r)]
Grants == [k \in Keys |-> IF entryType[k] = "grant" THEN entryAmount[k] ELSE 0]

TotalHeld == SumTo(Holds, NumReservations)
TotalSpent == SumTo(NetCharges, NumReservations)
TotalGranted == SumTo(Grants, NumKeys)

\* The balances the trigger materializes are the ones the reservations, the usage
\* events and the ledger entries add up to: reserved_credits is the sum of the
\* reservations nobody settled or released, spent_credits that of the charges less
\* their refunds, and no credit is made or lost between the three.
Reconciles ==
  /\ reserved = TotalHeld
  /\ spent = TotalSpent
  /\ available + reserved + spent = TotalGranted + (IF opened THEN BaselineCredits ELSE 0)

\* However refunds of one usage event are split and retried, they never return more
\* than it charged.
RefundsWithinCharge == \A r \in Reservations : Refunded(r) <= charged[r]

\* An estimate is settled or released, never both, and what it charged and what it
\* held stay as they are: late calls of a retrying caller move no credits.
FinalReservation(r) == state[r] \in {"settled", "released"}

ReservationEndsOnce ==
  [][\A r \in Reservations :
       FinalReservation(r) =>
         state'[r] = state[r] /\ held'[r] = held[r] /\ charged'[r] = charged[r]]_ledgerVars

\* Seen from outside the ledger is a prepaid account.
Prepaid == INSTANCE PrepaidAccount WITH balance <- available + reserved, spent <- spent
ImplementsPrepaidAccount == Prepaid!Spec
=============================================================================
