---------------------------- MODULE MCPortWorker ----------------------------
(***************************************************************************)
(* Small instances of PortWorker for TLC.  The ids are interchangeable     *)
(* wherever all of them may be attached and none is singled out.           *)
(***************************************************************************)
EXTENDS PortWorker, TLC

CONSTANTS m1, m2

TwoMotors == {m1, m2}
OneMotor == {m1}
MotorSymmetry == Permutations(TwoMotors)

(* The liveness run has a motor for every id, but keeps its second motor   *)
(* off the bus once a command other than a plain write was issued: every   *)
(* kind of command meets one motor, plain writes meet the full bus.  Only  *)
(* the environment is restricted: what clients send, what gets plugged.    *)
PlainWritesOnly == \A k \in 1 .. Len(issued) : issued[k].kind = "write"
FullBusForWrites == PlainWritesOnly \/ m2 \notin online

LiveSpec ==
    /\ Init
    /\ [][Next /\ FullBusForWrites']_vars
    /\ Fairness

=============================================================================
