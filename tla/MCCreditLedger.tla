--------------------------- MODULE MCCreditLedger ---------------------------
(* Small instance of CreditLedger: a window smaller than one chunk, frames  *)
(* smaller than a chunk, and room for the window to grow twice.             *)
EXTENDS CreditLedger
=============================================================================
