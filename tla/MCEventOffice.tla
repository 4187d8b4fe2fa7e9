---------------------------- MODULE MCEventOffice ----------------------------
(* Instances of EventOffice for TLC. *)
EXTENDS EventOffice, TLC

CONSTANTS e1, e2, e3, p1, p2, r1, r2, r3

OfficeSymmetry == Permutations({p1, p2}) \cup Permutations({r1, r2, r3})
        \cup Permutations({e2, e3})
=============================================================================
