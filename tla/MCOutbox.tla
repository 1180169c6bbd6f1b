------------------------------ MODULE MCOutbox ------------------------------
(* Instances of Outbox for TLC: the constants are all model values.         *)
EXTENDS Outbox
=============================================================================
