--------------------------- MODULE MCFraudSignals ---------------------------
(***************************************************************************)
(* A tick is about five minutes for purchases, and a day for top-ups; a    *)
(* purchase may wait for one.                                              *)
(***************************************************************************)
EXTENDS FraudSignals, TLC

Symmetry == Permutations(Targets)
=============================================================================
