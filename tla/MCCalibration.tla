---------------------------- MODULE MCCalibration ----------------------------
(***************************************************************************)
(* Small instances of Calibration for TLC.                                 *)
(***************************************************************************)
EXTENDS Calibration

CONSTANTS m1

OneMotor == {m1}

=============================================================================
