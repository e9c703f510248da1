--------------------------- MODULE MCCreditLedger ---------------------------
(* Small instances of CreditLedger for TLC.                                *)
EXTENDS CreditLedger

(* Callers whose session does not hold the user row when it locks it.      *)
FreshCallers == {"grant", "deduct", "daily", "depleted", "set"}
=============================================================================
