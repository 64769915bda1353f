------------------------- MODULE CreditLedgerProofs -------------------------
(***************************************************************************)
(* The ledger's balances reconcile for every number of reservations and    *)
(* keys and every amount.  The inductive invariant adds to the checked     *)
(* ones that only a settled reservation has a charge.                      *)
(***************************************************************************)
EXTENDS CreditLedger, SumsTheorems

ChargedWhenSettled == \A r \in Reservations : state[r] # "settled" => charged[r] = 0

LedgerInv == TypeOK /\ Reconciles /\ RefundsWithinCharge /\ ChargedWhenSettled

-----------------------------------------------------------------------------
(* The tables that are summed                                              *)

LEMMA HoldsType ==
  ASSUME TypeOK
  PROVE  Holds \in [Reservations -> Nat]
BY DEF TypeOK, Holds

LEMMA GrantsType ==
  ASSUME TypeOK
  PROVE  Grants \in [Keys -> Nat]
BY DEF TypeOK, Grants

LEMMA RefundedType ==
  ASSUME TypeOK
  PROVE  \A r \in Reservations : RefundsOf(r) \in [Keys -> Nat] /\ Refunded(r) \in Nat
<1> TAKE r \in Reservations
<1>1. RefundsOf(r) \in [Keys -> Nat]
  BY DEF TypeOK, RefundsOf
<1>2. Refunded(r) \in Nat
  BY <1>1, SumNat, CreditLedgerAssumption DEF Refunded, Keys
<1>3. QED
  BY <1>1, <1>2

LEMMA NetChargesType ==
  ASSUME TypeOK, RefundsWithinCharge
  PROVE  NetCharges \in [Reservations -> Nat]
<1>1. \A r \in Reservations : charged[r] - Refunded(r) \in Nat
  BY RefundedType DEF TypeOK, RefundsWithinCharge
<1>2. QED
  BY <1>1 DEF NetCharges

\* Each balance is at least what one row adds to it: the subtractions of settle,
\* release and refund never trip the CHECKs of credit_accounts.
LEMMA BalancesCoverRows ==
  ASSUME LedgerInv, NEW r \in Reservations
  PROVE  /\ state[r] = "reserved" => held[r] <= reserved
         /\ charged[r] - Refunded(r) <= spent
<1>1. TypeOK /\ Reconciles /\ RefundsWithinCharge
  BY DEF LedgerInv
<1>2. Holds[r] <= reserved
  BY <1>1, HoldsType, SumNat, CreditLedgerAssumption DEF Reservations, Reconciles, TotalHeld
<1>3. NetCharges[r] <= spent
  BY <1>1, NetChargesType, SumNat, CreditLedgerAssumption DEF Reservations, Reconciles, TotalSpent
<1>4. QED
  BY <1>2, <1>3 DEF Holds, NetCharges

-----------------------------------------------------------------------------
\* The invariant holds of a workspace nobody has used yet...
THEOREM LedgerInit == Init => LedgerInv
<1> SUFFICES ASSUME Init PROVE LedgerInv
  OBVIOUS
<1>1. TypeOK /\ ChargedWhenSettled
  BY DEF Init, TypeOK, ChargedWhenSettled
<1>2. TotalGranted = 0
  BY <1>1, GrantsType, SumZero, CreditLedgerAssumption DEF Init, Grants, Keys, TotalGranted
<1>3. TotalHeld = 0
  BY <1>1, HoldsType, SumZero, CreditLedgerAssumption DEF Init, Holds, Reservations, TotalHeld
<1>4. \A r \in Reservations : Refunded(r) = 0
  <2> TAKE r \in Reservations
  <2>1. \A k \in Keys : RefundsOf(r)[k] = 0
    BY DEF Init, RefundsOf
  <2>2. QED
    BY <1>1, <2>1, RefundedType, SumZero, CreditLedgerAssumption DEF Refunded, Keys
<1>5. RefundsWithinCharge
  BY <1>1, <1>4 DEF RefundsWithinCharge, TypeOK
<1>6. TotalSpent = 0
  <2>1. \A r \in Reservations : NetCharges[r] = 0
    BY <1>4 DEF Init, NetCharges
  <2>2. QED
    BY <1>1, <1>5, <2>1, NetChargesType, SumZero, CreditLedgerAssumption
    DEF Reservations, TotalSpent
<1>7. QED
  BY <1>1, <1>2, <1>3, <1>5, <1>6 DEF Init, LedgerInv, Reconciles

\* How one changed row moves the totals.
LEMMA HoldChanges ==
  ASSUME TypeOK, NEW r \in Reservations, NEW n \in Int, Holds' = [Holds EXCEPT ![r] = n]
  PROVE  TotalHeld' = TotalHeld + n - Holds[r] /\ TotalHeld \in Int
<1>1. Holds \in [1 .. NumReservations -> Int]
  BY HoldsType DEF Reservations
<1>2. SumTo([Holds EXCEPT ![r] = n], NumReservations) = TotalHeld + n - Holds[r]
  BY <1>1, SumExcept, CreditLedgerAssumption DEF Reservations, TotalHeld
<1>3. TotalHeld \in Int
  BY <1>1, SumInt, CreditLedgerAssumption DEF TotalHeld
<1>4. QED
  BY <1>2, <1>3 DEF TotalHeld

LEMMA NetChargeChanges ==
  ASSUME TypeOK, RefundsWithinCharge, NEW r \in Reservations, NEW n \in Int,
         NetCharges' = [NetCharges EXCEPT ![r] = n]
  PROVE  TotalSpent' = TotalSpent + n - NetCharges[r] /\ TotalSpent \in Int
<1>1. NetCharges \in [1 .. NumReservations -> Int]
  BY NetChargesType DEF Reservations
<1>2. SumTo([NetCharges EXCEPT ![r] = n], NumReservations) = TotalSpent + n - NetCharges[r]
  BY <1>1, SumExcept, CreditLedgerAssumption DEF Reservations, TotalSpent
<1>3. TotalSpent \in Int
  BY <1>1, SumInt, CreditLedgerAssumption DEF TotalSpent
<1>4. QED
  BY <1>2, <1>3 DEF TotalSpent

LEMMA GrantChanges ==
  ASSUME TypeOK, NEW k \in Keys, NEW n \in Int, Grants' = [Grants EXCEPT ![k] = n]
  PROVE  TotalGranted' = TotalGranted + n - Grants[k] /\ TotalGranted \in Int
<1>1. Grants \in [1 .. NumKeys -> Int]
  BY GrantsType DEF Keys
<1>2. SumTo([Grants EXCEPT ![k] = n], NumKeys) = TotalGranted + n - Grants[k]
  BY <1>1, SumExcept, CreditLedgerAssumption DEF Keys, TotalGranted
<1>3. TotalGranted \in Int
  BY <1>1, SumInt, CreditLedgerAssumption DEF TotalGranted
<1>4. QED
  BY <1>2, <1>3 DEF TotalGranted

LEMMA TotalsType ==
  ASSUME TypeOK, RefundsWithinCharge
  PROVE  TotalHeld \in Nat /\ TotalSpent \in Nat /\ TotalGranted \in Nat
BY HoldsType, NetChargesType, GrantsType, SumNat, CreditLedgerAssumption
DEF TotalHeld, TotalSpent, TotalGranted, Reservations, Keys

\* The operations on reservations and the opening leave the entries alone.
LEMMA EntriesSame ==
  ASSUME UNCHANGED entryVars
  PROVE  /\ Grants' = Grants /\ TotalGranted' = TotalGranted
         /\ \A r \in Reservations : Refunded(r)' = Refunded(r)
<1>1. Grants' = Grants
  BY DEF Grants, entryVars
<1>2. \A r \in Reservations : Refunded(r)' = Refunded(r)
  BY DEF Refunded, RefundsOf, entryVars
<1>3. QED
  BY <1>1, <1>2 DEF TotalGranted

-----------------------------------------------------------------------------
\* account() on a new workspace: the baseline grant.
LEMMA OpenAccountStep ==
  ASSUME LedgerInv, OpenAccount
  PROVE  LedgerInv'
<1>1. TypeOK /\ Reconciles /\ RefundsWithinCharge
  BY DEF LedgerInv
<1>2. TypeOK'
  BY <1>1, CreditLedgerAssumption
  DEF TypeOK, OpenAccount, OpenedAvailable, reservationVars, entryVars
<1>3. /\ TotalGranted' = TotalGranted
      /\ \A s \in Reservations : Refunded(s)' = Refunded(s)
  BY EntriesSame DEF OpenAccount
<1>4. TotalHeld' = TotalHeld /\ TotalSpent' = TotalSpent
  BY <1>3 DEF OpenAccount, reservationVars, Holds, NetCharges, TotalHeld, TotalSpent
<1>5. Reconciles'
  BY <1>1, <1>2, <1>3, <1>4, TotalsType, CreditLedgerAssumption
  DEF Reconciles, OpenAccount, OpenedAvailable, TypeOK
<1>6. RefundsWithinCharge' /\ ChargedWhenSettled'
  BY <1>3 DEF LedgerInv, RefundsWithinCharge, ChargedWhenSettled, OpenAccount, reservationVars
<1>7. QED
  BY <1>2, <1>5, <1>6 DEF LedgerInv

\* A grant refunds nothing.
LEMMA GrantKeepsRefunds ==
  ASSUME TypeOK, NEW k \in Keys, NEW n \in Nat, Grant(k, n)
  PROVE  \A s \in Reservations : Refunded(s)' = Refunded(s)
<1> TAKE s \in Reservations
<1>1. entryType' = [entryType EXCEPT ![k] = "grant"] /\ entryType[k] = "none"
  BY DEF Grant, Record
<1>2. \A i \in Keys : RefundsOf(s)'[i] = RefundsOf(s)[i]
  BY <1>1 DEF RefundsOf, TypeOK, Grant, Record
<1>3. RefundsOf(s)' = RefundsOf(s)
  BY <1>2 DEF RefundsOf
<1>4. QED
  BY <1>3 DEF Refunded

\* grant(): a new ledger entry.
LEMMA GrantStep ==
  ASSUME LedgerInv, NEW k \in Keys, NEW n \in Nat, Grant(k, n)
  PROVE  LedgerInv'
<1>1. TypeOK /\ Reconciles /\ RefundsWithinCharge
  BY DEF LedgerInv
<1>2. TypeOK'
  BY <1>1, CreditLedgerAssumption
  DEF TypeOK, Grant, Record, OpenedAvailable, reservationVars
<1>3. \A s \in Reservations : Refunded(s)' = Refunded(s)
  BY <1>1, GrantKeepsRefunds
<1>4. Grants' = [Grants EXCEPT ![k] = n] /\ Grants[k] = 0
  BY <1>1 DEF Grants, Grant, Record, TypeOK
<1>5. TotalGranted' = TotalGranted + n
  <2>1. n \in Int
    OBVIOUS
  <2>2. TotalGranted' = TotalGranted + n - Grants[k] /\ TotalGranted \in Int
    BY <1>1, <1>4, <2>1, GrantChanges
  <2>3. QED
    BY <1>4, <2>1, <2>2
<1>6. TotalHeld' = TotalHeld /\ TotalSpent' = TotalSpent
  BY <1>3 DEF Grant, reservationVars, Holds, NetCharges, TotalHeld, TotalSpent
<1>7. Reconciles'
  BY <1>1, <1>2, <1>5, <1>6, TotalsType, CreditLedgerAssumption
  DEF Reconciles, Grant, OpenedAvailable, TypeOK
<1>8. RefundsWithinCharge' /\ ChargedWhenSettled'
  BY <1>3 DEF LedgerInv, RefundsWithinCharge, ChargedWhenSettled, Grant, reservationVars
<1>9. QED
  BY <1>2, <1>7, <1>8 DEF LedgerInv

\* reserve(): the new hold is the only row that changes.
LEMMA ReserveStep ==
  ASSUME LedgerInv, NEW r \in Reservations, NEW n \in Nat, Reserve(r, n)
  PROVE  LedgerInv'
<1>1. TypeOK /\ Reconciles /\ RefundsWithinCharge
  BY DEF LedgerInv
<1>2. TypeOK'
  BY <1>1, CreditLedgerAssumption DEF TypeOK, Reserve, OpenedAvailable, entryVars
<1>3. Holds' = [Holds EXCEPT ![r] = n] /\ Holds[r] = 0
  BY <1>1 DEF Holds, Reserve, TypeOK
<1>4. TotalHeld' = TotalHeld + n
  <2>1. n \in Int
    OBVIOUS
  <2>2. TotalHeld' = TotalHeld + n - Holds[r] /\ TotalHeld \in Int
    BY <1>1, <1>3, <2>1, HoldChanges
  <2>3. QED
    BY <1>3, <2>1, <2>2
<1>5. /\ TotalGranted' = TotalGranted
      /\ \A s \in Reservations : Refunded(s)' = Refunded(s)
  BY EntriesSame DEF Reserve
<1>6. TotalSpent' = TotalSpent
  BY <1>5 DEF Reserve, NetCharges, TotalSpent
<1>7. Reconciles'
  BY <1>1, <1>2, <1>4, <1>5, <1>6, TotalsType, CreditLedgerAssumption
  DEF Reconciles, Reserve, OpenedAvailable, TypeOK
<1>8. RefundsWithinCharge' /\ ChargedWhenSettled'
  BY <1>1, <1>5 DEF LedgerInv, RefundsWithinCharge, ChargedWhenSettled, Reserve, TypeOK
<1>9. QED
  BY <1>2, <1>7, <1>8 DEF LedgerInv

\* settle(): the hold goes and the charge comes.
LEMMA SettleStep ==
  ASSUME LedgerInv, NEW r \in Reservations, NEW n \in Nat, Settle(r, n)
  PROVE  LedgerInv'
<1>1. TypeOK /\ Reconciles /\ RefundsWithinCharge /\ charged[r] = 0
  BY DEF LedgerInv, Settle, ChargedWhenSettled
<1>2. TypeOK'
  BY <1>1, BalancesCoverRows DEF TypeOK, Settle, entryVars
<1>3. Holds' = [Holds EXCEPT ![r] = 0] /\ Holds[r] = held[r]
  BY <1>1 DEF Holds, Settle, TypeOK
<1>4. TotalHeld' = TotalHeld - held[r]
  <2>1. 0 \in Int /\ held[r] \in Int
    BY <1>1 DEF TypeOK
  <2>2. TotalHeld' = TotalHeld + 0 - Holds[r] /\ TotalHeld \in Int
    BY <1>1, <1>3, <2>1, HoldChanges
  <2>3. QED
    BY <1>3, <2>1, <2>2
<1>5. /\ TotalGranted' = TotalGranted
      /\ \A s \in Reservations : Refunded(s)' = Refunded(s)
  BY EntriesSame DEF Settle
<1>6. Refunded(r) = 0
  BY <1>1, RefundedType DEF RefundsWithinCharge
<1>7. NetCharges' = [NetCharges EXCEPT ![r] = n] /\ NetCharges[r] = 0
  <2>1. charged'[r] - Refunded(r)' = n /\ charged[r] - Refunded(r) = 0
    BY <1>1, <1>5, <1>6 DEF Settle, TypeOK
  <2>2. \A s \in Reservations \ {r} : charged'[s] - Refunded(s)' = charged[s] - Refunded(s)
    BY <1>1, <1>5 DEF Settle, TypeOK
  <2>3. QED
    BY <2>1, <2>2 DEF NetCharges
<1>8. TotalSpent' = TotalSpent + n
  <2>1. n \in Int
    OBVIOUS
  <2>2. TotalSpent' = TotalSpent + n - NetCharges[r] /\ TotalSpent \in Int
    BY <1>1, <1>7, <2>1, NetChargeChanges
  <2>3. QED
    BY <1>7, <2>1, <2>2
<1>9. Reconciles'
  BY <1>1, <1>2, <1>4, <1>5, <1>8, TotalsType DEF Reconciles, Settle, TypeOK
<1>10. RefundsWithinCharge' /\ ChargedWhenSettled'
  BY <1>1, <1>5, <1>6 DEF LedgerInv, RefundsWithinCharge, ChargedWhenSettled, Settle, TypeOK
<1>11. QED
  BY <1>2, <1>9, <1>10 DEF LedgerInv

\* release(): the hold goes back to the available credits.
LEMMA ReleaseStep ==
  ASSUME LedgerInv, NEW r \in Reservations, Release(r)
  PROVE  LedgerInv'
<1>1. TypeOK /\ Reconciles /\ RefundsWithinCharge
  BY DEF LedgerInv
<1>2. TypeOK'
  BY <1>1, BalancesCoverRows DEF TypeOK, Release, entryVars
<1>3. Holds' = [Holds EXCEPT ![r] = 0] /\ Holds[r] = held[r]
  BY <1>1 DEF Holds, Release, TypeOK
<1>4. TotalHeld' = TotalHeld - held[r]
  <2>1. 0 \in Int /\ held[r] \in Int
    BY <1>1 DEF TypeOK
  <2>2. TotalHeld' = TotalHeld + 0 - Holds[r] /\ TotalHeld \in Int
    BY <1>1, <1>3, <2>1, HoldChanges
  <2>3. QED
    BY <1>3, <2>1, <2>2
<1>5. /\ TotalGranted' = TotalGranted
      /\ \A s \in Reservations : Refunded(s)' = Refunded(s)
  BY EntriesSame DEF Release
<1>6. TotalSpent' = TotalSpent
  BY <1>5 DEF Release, NetCharges, TotalSpent
<1>7. Reconciles'
  BY <1>1, <1>2, <1>4, <1>5, <1>6, TotalsType DEF Reconciles, Release, TypeOK
<1>8. RefundsWithinCharge' /\ ChargedWhenSettled'
  BY <1>1, <1>5 DEF LedgerInv, RefundsWithinCharge, ChargedWhenSettled, Release, TypeOK
<1>9. QED
  BY <1>2, <1>7, <1>8 DEF LedgerInv

\* A refund adds its amount to what its own usage event was refunded, no other.
LEMMA RefundRaisesRefunded ==
  ASSUME TypeOK, NEW k \in Keys, NEW r \in Reservations, NEW n \in Nat, RefundUsage(k, r, n)
  PROVE  /\ Refunded(r)' = Refunded(r) + n
         /\ \A s \in Reservations \ {r} : Refunded(s)' = Refunded(s)
<1>1. /\ entryType' = [entryType EXCEPT ![k] = "refund"] /\ entryType[k] = "none"
      /\ entryAmount' = [entryAmount EXCEPT ![k] = n]
      /\ entryUsage' = [entryUsage EXCEPT ![k] = r]
  BY DEF RefundUsage, Record
<1>2. RefundsOf(r)' = [RefundsOf(r) EXCEPT ![k] = n] /\ RefundsOf(r)[k] = 0
  BY <1>1 DEF RefundsOf, TypeOK
<1>3. SumTo([RefundsOf(r) EXCEPT ![k] = n], NumKeys) = Refunded(r) + n - 0
  <2>1. RefundsOf(r) \in [1 .. NumKeys -> Int] /\ n \in Int
    BY RefundedType DEF Keys
  <2>2. SumTo([RefundsOf(r) EXCEPT ![k] = n], NumKeys)
          = SumTo(RefundsOf(r), NumKeys) + n - RefundsOf(r)[k]
    BY <2>1, SumExcept, CreditLedgerAssumption DEF Keys
  <2>3. QED
    BY <1>2, <2>2 DEF Refunded
<1>4. Refunded(r) \in Nat
  BY RefundedType
<1>5. Refunded(r)' = Refunded(r) + n
  BY <1>2, <1>3, <1>4 DEF Refunded
<1>6. ASSUME NEW s \in Reservations \ {r} PROVE Refunded(s)' = Refunded(s)
  <2>1. \A i \in Keys : RefundsOf(s)'[i] = RefundsOf(s)[i]
    BY <1>1 DEF RefundsOf, TypeOK
  <2>2. RefundsOf(s)' = RefundsOf(s)
    BY <2>1 DEF RefundsOf
  <2>3. QED
    BY <2>2 DEF Refunded
<1>7. QED
  BY <1>5, <1>6

\* refund(): a new ledger entry, and one usage event charges less.
LEMMA RefundStep ==
  ASSUME LedgerInv, NEW k \in Keys, NEW r \in Reservations, NEW n \in Nat, RefundUsage(k, r, n)
  PROVE  LedgerInv'
<1>1. TypeOK /\ Reconciles /\ RefundsWithinCharge
  BY DEF LedgerInv
<1>2. /\ Refunded(r) \in Nat /\ charged[r] \in Nat /\ n <= charged[r] - Refunded(r)
      /\ charged[r] - Refunded(r) <= spent
  BY <1>1, RefundedType, BalancesCoverRows DEF RefundUsage, TypeOK
<1>3. TypeOK'
  BY <1>1, <1>2 DEF TypeOK, RefundUsage, Record, reservationVars
<1>4. /\ Refunded(r)' = Refunded(r) + n
      /\ \A s \in Reservations \ {r} : Refunded(s)' = Refunded(s)
  BY <1>1, RefundRaisesRefunded
<1>5. charged' = charged /\ state' = state /\ Holds' = Holds
  BY DEF RefundUsage, reservationVars, Holds
<1>6. NetCharges' = [NetCharges EXCEPT ![r] = NetCharges[r] - n]
  <2>1. charged'[r] - Refunded(r)' = charged[r] - Refunded(r) - n
    BY <1>2, <1>4, <1>5
  <2>2. \A s \in Reservations \ {r} : charged'[s] - Refunded(s)' = charged[s] - Refunded(s)
    BY <1>4, <1>5
  <2>3. QED
    BY <2>1, <2>2 DEF NetCharges
<1>7. TotalSpent' = TotalSpent - n
  <2>1. NetCharges[r] \in Int
    BY <1>1, NetChargesType
  <2>2. NetCharges[r] - n \in Int
    BY <2>1
  <2>3. TotalSpent' = TotalSpent + (NetCharges[r] - n) - NetCharges[r] /\ TotalSpent \in Int
    BY <1>1, <1>6, <2>2, NetChargeChanges
  <2>4. QED
    BY <2>1, <2>3
<1>8. TotalHeld' = TotalHeld
  BY <1>5 DEF TotalHeld
<1>9. TotalGranted' = TotalGranted
  <2>1. \A i \in Keys : Grants'[i] = Grants[i]
    BY <1>1 DEF Grants, RefundUsage, Record, TypeOK
  <2>2. Grants' = Grants
    BY <2>1 DEF Grants
  <2>3. QED
    BY <2>2 DEF TotalGranted
<1>10. Reconciles'
  BY <1>1, <1>2, <1>7, <1>8, <1>9, TotalsType DEF Reconciles, RefundUsage, TypeOK
<1>11. RefundsWithinCharge'
  BY <1>1, <1>2, <1>4, <1>5 DEF RefundsWithinCharge
<1>12. ChargedWhenSettled'
  BY <1>5 DEF LedgerInv, ChargedWhenSettled
<1>13. QED
  BY <1>3, <1>10, <1>11, <1>12 DEF LedgerInv

LEMMA LedgerSame ==
  ASSUME LedgerInv, UNCHANGED ledgerVars
  PROVE  LedgerInv'
<1>1. /\ TypeOK' = TypeOK /\ ChargedWhenSettled' = ChargedWhenSettled
      /\ TotalHeld' = TotalHeld
  BY DEF ledgerVars, accountVars, reservationVars, entryVars, TypeOK, ChargedWhenSettled,
         TotalHeld, Holds
<1>2. TotalGranted' = TotalGranted /\ \A r \in Reservations : Refunded(r)' = Refunded(r)
  BY EntriesSame DEF ledgerVars
<1>3. TotalSpent' = TotalSpent /\ RefundsWithinCharge' = RefundsWithinCharge
  BY <1>2 DEF ledgerVars, reservationVars, TotalSpent, NetCharges, RefundsWithinCharge
<1>4. Reconciles' = Reconciles
  BY <1>1, <1>2, <1>3 DEF ledgerVars, accountVars, Reconciles
<1>5. QED
  BY <1>1, <1>3, <1>4 DEF LedgerInv

-----------------------------------------------------------------------------
(* A call of any amount.  Only TLC needs the bound MaxAmount of Next; the  *)
(* modules that use the ledger settle what their usage costs.              *)

AnyCall ==
  \/ OpenAccount
  \/ \E k \in Keys, n \in Nat :
       Grant(k, n) \/ \E r \in Reservations : n > 0 /\ RefundUsage(k, r, n)
  \/ \E r \in Reservations :
       \/ \E n \in Nat : Reserve(r, n) \/ Settle(r, n)
       \/ Release(r)

LEMMA NextIsCall == Next => AnyCall
<1>1. Amounts \subseteq Nat /\ Amounts \cup {0} \subseteq Nat /\ \A n \in Amounts : n > 0
  BY CreditLedgerAssumption DEF Amounts
<1>2. QED
  BY <1>1 DEF Next, AnyCall

LEMMA CallKeeps == LedgerInv /\ [AnyCall]_ledgerVars => LedgerInv'
<1> SUFFICES ASSUME LedgerInv, [AnyCall]_ledgerVars PROVE LedgerInv'
  OBVIOUS
<1>1. CASE OpenAccount
  BY <1>1, OpenAccountStep
<1>2. ASSUME NEW k \in Keys, NEW n \in Nat, Grant(k, n) PROVE LedgerInv'
  BY <1>2, GrantStep
<1>3. ASSUME NEW k \in Keys, NEW n \in Nat, NEW r \in Reservations, RefundUsage(k, r, n)
      PROVE  LedgerInv'
  BY <1>3, RefundStep
<1>4. ASSUME NEW r \in Reservations, NEW n \in Nat, Reserve(r, n) PROVE LedgerInv'
  BY <1>4, ReserveStep
<1>5. ASSUME NEW r \in Reservations, NEW n \in Nat, Settle(r, n) PROVE LedgerInv'
  BY <1>5, SettleStep
<1>6. ASSUME NEW r \in Reservations, Release(r) PROVE LedgerInv'
  BY <1>6, ReleaseStep
<1>7. CASE UNCHANGED ledgerVars
  BY <1>7, LedgerSame
<1>8. QED
  BY <1>1, <1>2, <1>3, <1>4, <1>5, <1>6, <1>7 DEF AnyCall

LEMMA CallSparesFinal ==
  ASSUME LedgerInv, [AnyCall]_ledgerVars, NEW r \in Reservations, FinalReservation(r)
  PROVE  state'[r] = state[r] /\ held'[r] = held[r] /\ charged'[r] = charged[r]
<1> USE DEF FinalReservation, LedgerInv, TypeOK
<1>1. CASE OpenAccount
  BY <1>1 DEF OpenAccount, reservationVars
<1>2. ASSUME NEW k \in Keys, NEW n \in Nat, Grant(k, n)
      PROVE  UNCHANGED reservationVars
  BY <1>2 DEF Grant
<1>3. ASSUME NEW k \in Keys, NEW n \in Nat, NEW s \in Reservations, RefundUsage(k, s, n)
      PROVE  UNCHANGED reservationVars
  BY <1>3 DEF RefundUsage
<1>4. ASSUME NEW s \in Reservations, NEW n \in Nat, Reserve(s, n)
      PROVE  state'[r] = state[r] /\ held'[r] = held[r] /\ charged'[r] = charged[r]
  BY <1>4 DEF Reserve
<1>5. ASSUME NEW s \in Reservations, NEW n \in Nat, Settle(s, n)
      PROVE  state'[r] = state[r] /\ held'[r] = held[r] /\ charged'[r] = charged[r]
  BY <1>5 DEF Settle
<1>6. ASSUME NEW s \in Reservations, Release(s)
      PROVE  state'[r] = state[r] /\ held'[r] = held[r] /\ charged'[r] = charged[r]
  BY <1>6 DEF Release
<1>7. CASE UNCHANGED ledgerVars
  BY <1>7 DEF ledgerVars, reservationVars
<1>8. QED
  BY <1>1, <1>2, <1>3, <1>4, <1>5, <1>6, <1>7 DEF AnyCall, reservationVars

LEMMA CallIsPrepaid ==
  ASSUME LedgerInv, [AnyCall]_ledgerVars
  PROVE  [Prepaid!Next]_(Prepaid!vars)
<1>1. TypeOK /\ TypeOK'
  BY CallKeeps DEF LedgerInv
<1> USE <1>1, CreditLedgerAssumption
    DEF Prepaid!Next, Prepaid!vars, Prepaid!TopUp, Prepaid!Charge, Prepaid!Refund
<1>2. CASE OpenAccount
  BY <1>2 DEF OpenAccount, OpenedAvailable, TypeOK
<1>3. ASSUME NEW k \in Keys, NEW n \in Nat, Grant(k, n)
      PROVE  [Prepaid!Next]_(Prepaid!vars)
  BY <1>3 DEF Grant, OpenedAvailable, TypeOK
<1>4. ASSUME NEW k \in Keys, NEW n \in Nat, n > 0, NEW r \in Reservations, RefundUsage(k, r, n)
      PROVE  [Prepaid!Next]_(Prepaid!vars)
  BY <1>4 DEF RefundUsage, TypeOK
<1>5. ASSUME NEW r \in Reservations, NEW n \in Nat, Reserve(r, n)
      PROVE  [Prepaid!Next]_(Prepaid!vars)
  BY <1>5 DEF Reserve, OpenedAvailable, TypeOK
<1>6. ASSUME NEW r \in Reservations, NEW n \in Nat, Settle(r, n)
      PROVE  [Prepaid!Next]_(Prepaid!vars)
  BY <1>6 DEF Settle, TypeOK
<1>7. ASSUME NEW r \in Reservations, Release(r)
      PROVE  [Prepaid!Next]_(Prepaid!vars)
  BY <1>7 DEF Release, TypeOK
<1>8. CASE UNCHANGED ledgerVars
  BY <1>8 DEF ledgerVars, accountVars
<1>9. QED
  BY <1>2, <1>3, <1>4, <1>5, <1>6, <1>7, <1>8 DEF AnyCall

-----------------------------------------------------------------------------
\* ... and no call of the ledger, whatever its key and amount, breaks it.
THEOREM LedgerInductive == LedgerInv /\ [Next]_ledgerVars => LedgerInv'
BY NextIsCall, CallKeeps

\* The balances equal what the rows add up to, refunds stay within their charge and
\* no balance ever goes negative, whatever the numbers of keys and the amounts.
THEOREM LedgerReconciles == Spec => [](TypeOK /\ Reconciles /\ RefundsWithinCharge)
<1>1. LedgerInv => TypeOK /\ Reconciles /\ RefundsWithinCharge
  BY DEF LedgerInv
<1>2. QED
  BY LedgerInit, LedgerInductive, <1>1, PTL DEF Spec

\* A settled or released reservation is never touched again.
THEOREM ReservationsAreFinal == Spec => ReservationEndsOnce
<1>1. LedgerInv /\ [Next]_ledgerVars
        => [\A r \in Reservations :
              FinalReservation(r) =>
                state'[r] = state[r] /\ held'[r] = held[r] /\ charged'[r] = charged[r]]_ledgerVars
  BY NextIsCall, CallSparesFinal
<1>2. QED
  BY LedgerInit, LedgerInductive, <1>1, PTL DEF Spec, ReservationEndsOnce

\* The ledger is a prepaid account: every operation tops it up, charges it within its
\* balance, refunds it, or moves nothing the payer can see.
THEOREM LedgerImplementsPrepaidAccount == Spec => ImplementsPrepaidAccount
<1>1. Init => Prepaid!Init
  BY DEF Init, Prepaid!Init
<1>2. LedgerInv /\ [Next]_ledgerVars => [Prepaid!Next]_(Prepaid!vars)
  BY NextIsCall, CallIsPrepaid
<1>3. QED
  BY LedgerInit, LedgerInductive, <1>1, <1>2, PTL DEF Spec, ImplementsPrepaidAccount, Prepaid!Spec

-----------------------------------------------------------------------------
(* A workspace without grants and refunds: what it has left of its plan's  *)
(* credits is told by its reservations alone.                              *)

LEMMA PlanCreditsOnly ==
  ASSUME LedgerInv, NumKeys = 0
  PROVE  /\ available + reserved + spent = IF opened THEN BaselineCredits ELSE 0
         /\ \A r \in Reservations : NetCharges[r] = charged[r]
<1>1. TypeOK /\ Reconciles /\ Keys = 1 .. 0
  BY DEF LedgerInv, Keys
<1>2. TotalGranted = 0
  <2>1. Grants \in [1 .. 0 -> Int]
    BY <1>1, GrantsType
  <2>2. QED
    BY <2>1, SumOfFew DEF TotalGranted
<1>3. ASSUME NEW r \in Reservations PROVE NetCharges[r] = charged[r]
  <2>1. RefundsOf(r) \in [1 .. 0 -> Int]
    BY <1>1, RefundedType
  <2>2. Refunded(r) = 0
    BY <2>1, SumOfFew DEF Refunded
  <2>3. charged[r] \in Nat
    BY <1>1 DEF TypeOK
  <2>4. QED
    BY <2>2, <2>3 DEF NetCharges
<1>4. available + reserved + spent = IF opened THEN BaselineCredits ELSE 0
  BY <1>1, <1>2, CreditLedgerAssumption DEF Reconciles
<1>5. QED
  BY <1>3, <1>4

LEMMA OneReservation ==
  ASSUME LedgerInv, NumKeys = 0, NumReservations = 1
  PROVE  spent = charged[1] /\ reserved = Holds[1]
<1>1. Reservations = 1 .. 1 /\ TypeOK /\ Reconciles /\ RefundsWithinCharge
  BY DEF LedgerInv, Reservations
<1>2. NetCharges \in [1 .. 1 -> Int] /\ Holds \in [1 .. 1 -> Int]
  BY <1>1, NetChargesType, HoldsType
<1>3. NetCharges[1] = charged[1]
  BY <1>1, PlanCreditsOnly
<1>4. QED
  BY <1>1, <1>2, <1>3, SumOfFew DEF Reconciles, TotalSpent, TotalHeld

LEMMA TwoReservations ==
  ASSUME LedgerInv, NumKeys = 0, NumReservations = 2
  PROVE  spent = charged[1] + charged[2] /\ reserved = Holds[1] + Holds[2]
<1>1. Reservations = 1 .. 2 /\ TypeOK /\ Reconciles /\ RefundsWithinCharge
  BY DEF LedgerInv, Reservations
<1>2. NetCharges \in [1 .. 2 -> Int] /\ Holds \in [1 .. 2 -> Int]
  BY <1>1, NetChargesType, HoldsType
<1>3. NetCharges[1] = charged[1] /\ NetCharges[2] = charged[2]
  BY <1>1, PlanCreditsOnly
<1>4. QED
  BY <1>1, <1>2, <1>3, SumOfFew DEF Reconciles, TotalSpent, TotalHeld
=============================================================================
