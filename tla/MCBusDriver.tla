----------------------------- MODULE MCBusDriver -----------------------------
(***************************************************************************)
(* Small instances of BusDriver for TLC: two ports that an adapter moves   *)
(* between, and one port that several adapters take turns at.              *)
(***************************************************************************)
EXTENDS BusDriver, TLC

CONSTANTS p1, p2, a1, a2, a3

OnePort == {p1}
TwoPorts == {p1, p2}
PortSymmetry == Permutations(TwoPorts)
OneAdapter == {a1}
ThreeAdapters == {a1, a2, a3}
OneNameless == {a3}
AllNamed == {}

=============================================================================
