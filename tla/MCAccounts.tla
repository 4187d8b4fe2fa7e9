------------------------------ MODULE MCAccounts ------------------------------
(* Instances of Accounts for TLC. *)
EXTENDS Accounts, TLC

CONSTANTS u1, n1, n2, r1, r2, r3, r4

AccountSymmetry == Permutations({n1, n2}) \cup Permutations({r1, r2, r3, r4})
=============================================================================
