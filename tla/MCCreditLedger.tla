--------------------------- MODULE MCCreditLedger ---------------------------
(* The instance of CreditLedger for TLC: the values are in the .cfg.       *)
EXTENDS CreditLedger
=============================================================================
