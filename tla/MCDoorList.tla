------------------------------ MODULE MCDoorList ------------------------------
(* Instances of DoorList for TLC. *)
EXTENDS DoorList

CONSTANTS g1, g2, p1
=============================================================================
