----------------------------- MODULE MCAccounts -----------------------------
(***************************************************************************)
(* Accounts with numbers for the codes, as they are issued in order.       *)
(***************************************************************************)
EXTENDS Accounts

MCMails == 1..2

=============================================================================
