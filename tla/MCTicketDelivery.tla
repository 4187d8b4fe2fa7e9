--------------------------- MODULE MCTicketDelivery ---------------------------
(* Instances of TicketDelivery for TLC. *)
EXTENDS TicketDelivery, TLC

CONSTANTS o1, t1, r1, b1, b2, b3

OneTicket == {t1}
StockOfTwo == t1 :> 2
TwoSeats == {t1 :> 2}
=============================================================================
