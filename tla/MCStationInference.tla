------------------------- MODULE MCStationInference -------------------------
(***************************************************************************)
(* Small instances of StationInference for TLC.                            *)
(***************************************************************************)
EXTENDS StationInference

CONSTANTS q1, q2

TwoQueues == {q1, q2}

=============================================================================
