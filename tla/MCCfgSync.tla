----------------------------- MODULE MCCfgSync -----------------------------
(* CfgSync for TLC: of the edits and the faults the bounds allow, one is    *)
(* spent at the start, so that two edits meet a fault and an edit two.      *)
EXTENDS CfgSync

MCInit ==
  \/ Rested([edit |-> 0, fault |-> 1])
  \/ Rested([edit |-> 1, fault |-> 0])

MCSpec == MCInit /\ [][Next]_vars
=============================================================================
