---------------------------- MODULE MCCheckoutTab ----------------------------
(* Instances of CheckoutTab for TLC. *)
EXTENDS CheckoutTab

CONSTANTS c1, c2, o1, o2, o3
=============================================================================
