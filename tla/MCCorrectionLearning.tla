------------------------- MODULE MCCorrectionLearning -------------------------
(***************************************************************************)
(* CorrectionLearning for TLC.                                             *)
(***************************************************************************)
EXTENDS CorrectionLearning, TLC

SessionSymmetry == Permutations(Session)
=============================================================================
