------------------------------- MODULE MCMail -------------------------------
(***************************************************************************)
(* Two messages, which may be given out again while their old handlers     *)
(* run: two handlers at the same time.                                     *)
(***************************************************************************)
EXTENDS MailDelivery

=============================================================================
