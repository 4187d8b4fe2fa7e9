----------------------------- MODULE EventSeats -----------------------------
(* The seats of an event, as carts ask for them and as stock.service.ts     *)
(* counts them.                                                             *)
EXTENDS Integers, FiniteSets

CONSTANTS
    Orders,       \* identifiers the order table may hand out
    Tickets,      \* kinds of ticket of the event
    Stock,        \* Stock[t]: the capacity of ticket t, fixed once created
    MaxQuantity,  \* maxPerOrder, the largest quantity of one ticket in a cart
    Carts         \* the merged carts buyers submit: a quantity per ticket

ASSUME OrdersAreFinite == IsFiniteSet(Orders)
ASSUME StockIsNat == Stock \in [Tickets -> Nat]
ASSUME CartsAreQuantities ==
    MaxQuantity \in Nat /\ Carts \subseteq [Tickets -> 0 .. MaxQuantity]

Quantities == [Orders -> [Tickets -> 0 .. MaxQuantity]]

\* One element per seat of ticket t in the carts k of the orders of S.
Seats(k, S, t) == {x \in S \X (1 .. MaxQuantity) : x[2] <= k[x[1]][t]}
=============================================================================
