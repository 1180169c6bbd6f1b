-------------------------- MODULE MCDepositPoller --------------------------
(* Instances of DepositPoller for TLC. *)
EXTENDS DepositPoller
=============================================================================
