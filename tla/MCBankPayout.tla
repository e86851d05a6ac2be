----------------------------- MODULE MCBankPayout ------------------------------
EXTENDS BankPayout, TLC

CONSTANTS o1

(* One payout a day fits under the limit. *)
Kobo == o1 :> 1
================================================================================
