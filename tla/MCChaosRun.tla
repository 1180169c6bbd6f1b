----------------------------- MODULE MCChaosRun -----------------------------
(* The whole grid of ChaosRun for TLC: every crash point under every        *)
(* schedule, and the two takeover runs.                                      *)
EXTENDS ChaosRun

AmountEach == [r \in Requests |-> Each]

PostOrder == <<"post1", "post2", "post3">>
=============================================================================
