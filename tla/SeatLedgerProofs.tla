-------------------------- MODULE SeatLedgerProofs --------------------------
(* Counting the seats of any number of orders, and the ledger that keeps count. *)
EXTENDS SeatLedger, FiniteSetTheorems, TLAPS

\* A pair per number from 1 to n.
LEMMA NumberedSeats ==
    ASSUME NEW o, NEW n \in Nat
    PROVE  /\ IsFiniteSet({o} \X (1 .. n))
           /\ Cardinality({o} \X (1 .. n)) = n
<1>1. IsFiniteSet({o}) /\ Cardinality({o}) = 1
  BY FS_Singleton
<1>2. IsFiniteSet(1 .. n) /\ Cardinality(1 .. n) = n
  <2>1. 1 \in Int /\ n \in Int
    OBVIOUS
  <2> QED
    BY <2>1, FS_Interval
<1>3. /\ IsFiniteSet({o} \X (1 .. n))
      /\ Cardinality({o} \X (1 .. n)) = Cardinality({o}) * Cardinality(1 .. n)
  BY <1>1, <1>2, FS_Product
<1> QED
  BY <1>1, <1>2, <1>3

\* The seats of one order are as many as its cart says.
LEMMA OneOrderSeats ==
    ASSUME NEW k \in Quantities, NEW t \in Tickets, NEW o \in Orders
    PROVE  /\ IsFiniteSet(Seats(k, {o}, t))
           /\ Cardinality(Seats(k, {o}, t)) = k[o][t]
<1>1. k[o][t] \in 0 .. MaxQuantity /\ k[o][t] \in Nat /\ MaxQuantity \in Nat
  BY CartsAreQuantities DEF Quantities
<1>2. Seats(k, {o}, t) = {o} \X (1 .. k[o][t])
  BY <1>1 DEF Seats
<1>3. /\ IsFiniteSet({o} \X (1 .. k[o][t]))
      /\ Cardinality({o} \X (1 .. k[o][t])) = k[o][t]
  BY <1>1, NumberedSeats
<1> QED
  BY <1>2, <1>3

\* Seats of finitely many orders can be counted.
LEMMA SeatsFinite ==
    ASSUME NEW k \in Quantities, NEW t \in Tickets, NEW S \in SUBSET Orders
    PROVE  IsFiniteSet(Seats(k, S, t)) /\ Cardinality(Seats(k, S, t)) \in Nat
<1>1. IsFiniteSet(S)
  BY OrdersAreFinite, FS_Subset
<1>2. IsFiniteSet(1 .. MaxQuantity)
  BY CartsAreQuantities, FS_Interval
<1>3. IsFiniteSet(S \X (1 .. MaxQuantity))
  BY <1>1, <1>2, FS_Product
<1>4. Seats(k, S, t) \subseteq S \X (1 .. MaxQuantity)
  BY DEF Seats
<1>5. IsFiniteSet(Seats(k, S, t))
  BY <1>3, <1>4, FS_Subset
<1> QED
  BY <1>5, FS_CardinalityType

\* An order that joins the holders adds exactly its own seats.
LEMMA SeatsAdd ==
    ASSUME NEW k \in Quantities, NEW t \in Tickets,
           NEW S \in SUBSET Orders, NEW o \in Orders \ S
    PROVE  Cardinality(Seats(k, S \cup {o}, t)) = Cardinality(Seats(k, S, t)) + k[o][t]
<1>1. Seats(k, S \cup {o}, t) = Seats(k, S, t) \cup Seats(k, {o}, t)
  BY DEF Seats
<1>2. Seats(k, S, t) \cap Seats(k, {o}, t) = {}
  BY DEF Seats
<1>3. IsFiniteSet(Seats(k, S, t)) /\ Cardinality(Seats(k, S, t)) \in Nat
  BY SeatsFinite
<1>4. IsFiniteSet(Seats(k, {o}, t)) /\ Cardinality(Seats(k, {o}, t)) = k[o][t]
  BY OneOrderSeats
<1>5. k[o][t] \in Nat
  BY CartsAreQuantities DEF Quantities
<1>6. Cardinality(Seats(k, S, t) \cup Seats(k, {o}, t))
        = Cardinality(Seats(k, S, t)) + Cardinality(Seats(k, {o}, t)) - Cardinality({})
  BY <1>2, <1>3, <1>4, FS_Union
<1>7. Cardinality({}) = 0
  BY FS_EmptySet
<1>8. Cardinality(Seats(k, S, t) \cup Seats(k, {o}, t))
        = Cardinality(Seats(k, S, t)) + k[o][t]
  BY <1>3, <1>4, <1>5, <1>6, <1>7
<1> QED
  BY <1>1, <1>8

\* Only the carts of the holders count.
LEMMA SeatsDepend ==
    ASSUME NEW k \in Quantities, NEW m \in Quantities, NEW t \in Tickets,
           NEW S \in SUBSET Orders, \A o \in S : k[o] = m[o]
    PROVE  Seats(k, S, t) = Seats(m, S, t)
  BY DEF Seats

\* A counter that is right stays right when an order takes its seats.
LEMMA CountTaken ==
    ASSUME NEW k \in Quantities, NEW m \in Quantities, NEW t \in Tickets,
           NEW S \in SUBSET Orders, NEW o \in Orders \ S, NEW n,
           \A p \in S : m[p] = k[p],
           n = Cardinality(Seats(k, S, t))
    PROVE  n + m[o][t] = Cardinality(Seats(m, S \cup {o}, t))
  BY SeatsAdd, SeatsDepend

\* It stays right when an order gives its seats back.
LEMMA CountGivenBack ==
    ASSUME NEW k \in Quantities, NEW t \in Tickets,
           NEW S \in SUBSET Orders, NEW o \in Orders \ S, NEW n,
           n = Cardinality(Seats(k, S \cup {o}, t))
    PROVE  n - k[o][t] = Cardinality(Seats(k, S, t))
<1>1. k[o][t] \in Nat
  BY CartsAreQuantities DEF Quantities
<1>2. Cardinality(Seats(k, S, t)) \in Nat
  BY SeatsFinite
<1> QED
  BY <1>1, <1>2, SeatsAdd

\* Fewer orders, fewer seats.
LEMMA SeatsMonotone ==
    ASSUME NEW k \in Quantities, NEW t \in Tickets,
           NEW S \in SUBSET Orders, NEW R \in SUBSET S
    PROVE  /\ Cardinality(Seats(k, R, t)) \in Nat
           /\ Cardinality(Seats(k, S, t)) \in Nat
           /\ Cardinality(Seats(k, R, t)) <= Cardinality(Seats(k, S, t))
<1>1. Seats(k, R, t) \subseteq Seats(k, S, t)
  BY DEF Seats
<1> QED
  BY <1>1, SeatsFinite, FS_Subset

-----------------------------------------------------------------------------
\* The types, except that nothing yet keeps the counters from going below zero.
Typed ==
    /\ state \in [Orders -> Closed \cup {"none", "PENDING"}]
    /\ cart \in Quantities
    /\ sold \in [Tickets -> Int]

LEMMA AlwaysTyped == Spec => []Typed
<1>1. Init => Typed
  BY CartsAreQuantities DEF Init, Typed, Closed, Quantities
<1>2. Typed /\ [Next]_vars => Typed'
  <2> SUFFICES ASSUME Typed, [Next]_vars PROVE Typed'
    OBVIOUS
  <2>1. ASSUME NEW o \in Orders, NEW c \in Carts, Book(o, c) PROVE Typed'
    BY <2>1, StockIsNat, CartsAreQuantities DEF Typed, Book, Closed, Quantities
  <2>2. ASSUME NEW o \in Orders, NEW outcome \in Closed, Close(o, outcome)
        PROVE  Typed'
    BY <2>2, CartsAreQuantities DEF Typed, Close, Closed, Quantities
  <2>3. CASE UNCHANGED vars
    BY <2>3 DEF Typed, vars
  <2> QED
    BY <2>1, <2>2, <2>3 DEF Next
<1> QED
  BY <1>1, <1>2, PTL DEF Spec

LEMMA InitBalanced == Init => Balanced
<1> SUFFICES ASSUME Init, NEW t \in Tickets
             PROVE  sold[t] = Cardinality(Seats(cart, Holding, t)) /\ sold[t] <= Stock[t]
  BY DEF Balanced
<1>1. Seats(cart, Holding, t) = {}
  BY DEF Init, Holding, Seats
<1> QED
  BY <1>1, FS_EmptySet, StockIsNat DEF Init

\* A booking or a closure that finds the counters right leaves them right.
LEMMA StepBalanced ==
    ASSUME Typed, Balanced, [Next]_vars PROVE Balanced'
<1> SUFFICES ASSUME NEW t \in Tickets
             PROVE  /\ sold'[t] = Cardinality(Seats(cart', Holding', t))
                    /\ sold'[t] <= Stock[t]
  BY DEF Balanced, Seats
<1>1. /\ cart \in Quantities
      /\ Holding \in SUBSET Orders
      /\ sold[t] = Cardinality(Seats(cart, Holding, t))
      /\ sold[t] <= Stock[t]
      /\ sold[t] \in Int
      /\ Stock[t] \in Nat
  BY StockIsNat DEF Typed, Balanced, Holding
<1>2. ASSUME NEW o \in Orders, NEW c \in Carts, Book(o, c)
      PROVE  /\ sold'[t] = Cardinality(Seats(cart', Holding', t))
             /\ sold'[t] <= Stock[t]
  <2>1. /\ cart' \in Quantities /\ cart'[o] = c /\ c[t] \in Nat
        /\ \A p \in Holding : cart'[p] = cart[p]
    BY <1>2, CartsAreQuantities DEF Book, Holding, Typed, Quantities
  <2>2. Holding' = Holding \cup {o} /\ o \in Orders \ Holding
    BY <1>2 DEF Book, Holding, Typed
  <2>3. sold'[t] = sold[t] + c[t] /\ (c[t] > 0 => sold[t] + c[t] <= Stock[t])
    BY <1>2 DEF Book
  <2>4. sold[t] + cart'[o][t] = Cardinality(Seats(cart', Holding \cup {o}, t))
    BY <1>1, <2>1, <2>2, CountTaken
  <2> QED
    BY <1>1, <2>1, <2>2, <2>3, <2>4
<1>3. ASSUME NEW o \in Orders, NEW outcome \in Closed, Close(o, outcome)
      PROVE  /\ sold'[t] = Cardinality(Seats(cart', Holding', t))
             /\ sold'[t] <= Stock[t]
  <2>1. CASE outcome = "PAID"
    <3>1. Holding' = Holding /\ cart' = cart /\ sold' = sold
      BY <1>3, <2>1 DEF Close, Holding, Typed
    <3> QED
      BY <1>1, <3>1
  <2>2. CASE outcome # "PAID"
    <3>1. /\ cart' = cart
          /\ sold'[t] = sold[t] - cart[o][t]
          /\ cart[o][t] \in Nat
      BY <1>3, <2>2, CartsAreQuantities DEF Close, Typed, Quantities
    <3>2. /\ Holding' \in SUBSET Orders /\ o \in Orders \ Holding'
          /\ Holding = Holding' \cup {o}
      BY <1>3, <2>2 DEF Close, Holding, Typed, Closed
    <3>3. sold[t] - cart[o][t] = Cardinality(Seats(cart, Holding', t))
      BY <1>1, <3>2, CountGivenBack
    <3> QED
      BY <1>1, <3>1, <3>3
  <2> QED
    BY <2>1, <2>2
<1>4. CASE UNCHANGED vars
  BY <1>1, <1>4 DEF vars, Holding, Seats
<1> QED
  BY <1>2, <1>3, <1>4 DEF Next

\* Every ticket's counter is the number of seats held, within the capacity, for
\* any number of orders, tickets and seats.
THEOREM LedgerBalanced == Spec => []Balanced
<1>1. Typed /\ Balanced /\ [Next]_vars => Balanced'
  BY StepBalanced
<1> QED
  BY <1>1, InitBalanced, AlwaysTyped, PTL DEF Spec

\* The variables of the ledger keep their types: no counter goes below zero,
\* because it counts the seats held.
THEOREM LedgerTypes == Spec => []TypeOK
<1>1. Typed /\ Balanced => TypeOK
  <2> SUFFICES ASSUME Typed, Balanced, NEW t \in Tickets
               PROVE  sold[t] \in Nat
    BY DEF Typed, TypeOK
  <2>1. cart \in Quantities /\ Holding \in SUBSET Orders
    BY DEF Typed, Holding
  <2> QED
    BY <2>1, SeatsFinite DEF Balanced
<1> QED
  BY <1>1, AlwaysTyped, LedgerBalanced, PTL
=============================================================================
