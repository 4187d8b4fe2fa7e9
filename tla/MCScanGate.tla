------------------------------ MODULE MCScanGate ------------------------------
(* An instance of ScanGate for TLC. *)
EXTENDS ScanGate, TLC

CONSTANTS t1, i1, u1, k1, a1, s1, s2

ShiftedWeekend == {{1, 2}, {2, 3}}

GateSymmetry == Permutations({s1, s2})
=============================================================================
