---------------------------- MODULE MCCalibration ----------------------------
(* Model-checking instances of Calibration.                                 *)
EXTENDS Calibration, TLC

Symmetry == Permutations(Requests)
=============================================================================
