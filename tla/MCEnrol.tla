------------------------------ MODULE MCEnrol ------------------------------
(* Enrol for TLC: boards 1 and 2 are on the ring and interchangeable, with   *)
(* any ids of an earlier life; board 3 is new and joins later, if at all,    *)
(* and then finds the table full.                                            *)
EXTENDS Enrol

MCInit ==
  /\ Init
  /\ present = {1, 2}
  /\ zid[1] <= zid[2] /\ zid[3] = 0

MCSpec == MCInit /\ [][Next]_vars /\ Fairness
=============================================================================
