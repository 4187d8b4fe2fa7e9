-------------------------- MODULE MCOrderPayments --------------------------
(* Instances of OrderPayments for TLC. *)
EXTENDS OrderPayments, TLC

CONSTANTS o1, o2, t1, r1, r2

OneTicket == {t1}
StockOfOne == t1 :> 1
StockOfTwo == t1 :> 2
SingleSeat == {t1 :> 1}
\* Buyers and attempts are alike.
OrderSymmetry == Permutations({o1, o2}) \cup Permutations({r1, r2})
=============================================================================
