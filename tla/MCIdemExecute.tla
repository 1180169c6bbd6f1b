--------------------------- MODULE MCIdemExecute ---------------------------
(* Instances of IdemExecute for TLC: the constants are all model values.    *)
EXTENDS IdemExecute
=============================================================================
