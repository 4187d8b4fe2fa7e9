----------------------------- MODULE SeatLedger -----------------------------
(***************************************************************************)
(* What the order code promises about seats, without providers, webhooks   *)
(* or clocks: an order books its seats once, when they are free, and is    *)
(* then closed once, either paid, keeping its seats, or not, giving them   *)
(* back.                                                                   *)
(***************************************************************************)
EXTENDS EventSeats

VARIABLES
    state,  \* of each order
    cart,   \* seats of each order, per ticket
    sold    \* seats taken, per ticket

vars == <<state, cart, sold>>

Closed == {"PAID", "FAILED", "EXPIRED"}

Init ==
    /\ state = [o \in Orders |-> "none"]
    /\ cart = [o \in Orders |-> [t \in Tickets |-> 0]]
    /\ sold = [t \in Tickets |-> 0]

Book(o, c) ==
    /\ state[o] = "none"
    /\ \A t \in Tickets : c[t] > 0 => sold[t] + c[t] <= Stock[t]
    /\ state' = [state EXCEPT ![o] = "PENDING"]
    /\ cart' = [cart EXCEPT ![o] = c]
    /\ sold' = [t \in Tickets |-> sold[t] + c[t]]

Close(o, outcome) ==
    /\ state[o] = "PENDING"
    /\ state' = [state EXCEPT ![o] = outcome]
    /\ sold' = IF outcome = "PAID"
               THEN sold
               ELSE [t \in Tickets |-> sold[t] - cart[o][t]]
    /\ UNCHANGED cart

Next ==
    \E o \in Orders :
        \/ \E c \in Carts : Book(o, c)
        \/ \E outcome \in Closed : Close(o, outcome)

Spec == Init /\ [][Next]_vars

-----------------------------------------------------------------------------
TypeOK ==
    /\ state \in [Orders -> Closed \cup {"none", "PENDING"}]
    /\ cart \in Quantities
    /\ sold \in [Tickets -> Nat]

Holding == {o \in Orders : state[o] \in {"PENDING", "PAID"}}

\* The counter of every ticket is the number of seats of the orders that hold
\* some, and never exceeds the capacity: nothing is booked twice, given back
\* twice or forgotten.
Balanced ==
    \A t \in Tickets :
        /\ sold[t] = Cardinality(Seats(cart, Holding, t))
        /\ sold[t] <= Stock[t]
=============================================================================
