----------------------------- MODULE OrderProofs -----------------------------
(* Proofs about the life of an order, for any orders, tickets, carts,       *)
(* providers, references, deliveries and faults, in every interleaving:     *)
(* what no overlap can break, and that the rest is broken by the late       *)
(* writes only.  Then the PDF queue on top of them, for any slots,          *)
(* attempts, browsers and faults: its types and bounds, and that the job    *)
(* that ends last has told the buyer.                                       *)
EXTENDS TicketDelivery, TLAPS

\* What the assumptions on the constants give, in one fact.
LEMMA Constants ==
    /\ Stock \in [Tickets -> Nat]
    /\ MaxQuantity \in Nat /\ Carts \subseteq [Tickets -> 0 .. MaxQuantity]
    /\ Null \notin Refs \cup Orders \cup Providers
  BY StockIsNat, CartsAreQuantities, NullIsNoRow

-----------------------------------------------------------------------------
(* The inductive invariant.                                                 *)

\* A reference belongs to an order from the moment it is in use, and only such
\* references are notified and delivered.
Linked ==
    /\ \A r \in Refs : txState[r] # "unused" => txOrder[r] \in Orders
    /\ \A r \in Refs, k \in Kinds : <<r, k>> \in sent => txState[r] # "unused"
    /\ \A d \in Deliveries : step[d] # "idle" => txState[d.ref] # "unused"
    /\ \A d \in Deliveries : step[d] \in PastGate => d.ref \in webhookEvents

\* The order of a reference in use exists, so its provider is fixed.
Placed ==
    /\ \A r \in Refs : txState[r] # "unused" => status[txOrder[r]] # "none"
    /\ \A o \in Orders : initStep[o] # "none" => status[o] # "none"

\* A transaction is settled only after the buyer was given the checkout.
Backed ==
    /\ \A r \in Refs : txState[r] \in {"approved", "captured"} =>
          initStep[txOrder[r]] = "returned"
    /\ \A d \in Deliveries : step[d] = "pay" => Settled(d.ref)
    /\ TicketIsBacked

\* A handler past the test of the status has read its order PENDING.
TestedPending ==
    \A d \in Deliveries : step[d] \in {"verify", "pay", "fail"} => seen[d] = "PENDING"

SafetyInv == TypeOK /\ Linked /\ Placed /\ Backed /\ OneDeliveryPastGate /\ TestedPending

-----------------------------------------------------------------------------
LEMMA InitTypes == Init => TypeOK
  BY Constants DEF Init, TypeOK, Quantities, Statuses, InitSteps, TxStates, Steps, InProgress,
     PastGate, Over

\* Types are kept by every action; the actions of a delivery need to know that
\* its reference belongs to an order.
LEMMA StepTypes ==
    ASSUME TypeOK, Linked, [Next]_vars PROVE TypeOK'
<1> USE Constants DEF TypeOK, Quantities, vars, orderVars, handlerVars, providerVars
<1>1. ASSUME NEW o \in Orders, NEW p \in Providers, NEW c \in Carts, Reserve(o, p, c)
      PROVE  TypeOK'
  BY <1>1 DEF Reserve, Statuses, InitSteps
<1>2. ASSUME NEW o \in Orders, NEW r \in Refs, CreateSession(o, r)
      PROVE  TypeOK'
  BY <1>2 DEF CreateSession, InitSteps, TxStates
<1>3. ASSUME NEW o \in Orders, ReturnWidget(o)
      PROVE  TypeOK'
  BY <1>3 DEF ReturnWidget, InitSteps
<1>4. ASSUME NEW o \in Orders, StoreRef(o)
      PROVE  TypeOK'
  BY <1>4 DEF StoreRef, InitSteps
<1>5. ASSUME NEW o \in Orders, AbortFailedInit(o)
      PROVE  TypeOK'
  BY <1>5 DEF AbortFailedInit, Release, Statuses, InitSteps
<1>6. ASSUME NEW o \in Orders, LoseInit(o)
      PROVE  TypeOK'
  BY <1>6 DEF LoseInit, InitSteps
<1>7. ASSUME NEW r \in Refs, NEW o \in Orders, OpenAttempt(o, r)
      PROVE  TypeOK'
  BY <1>7 DEF OpenAttempt, TxStates
<1>8. ASSUME NEW r \in Refs, Pay(r) \/ PayShort(r) \/ Refuse(r)
      PROVE  TypeOK'
  <2>1. PICK outcome \in TxStates, kind \in Kinds : Settle(r, outcome, kind)
    BY <1>8 DEF Pay, PayShort, Refuse, TxStates, Kinds
  <2> QED
    BY <2>1 DEF Settle, Notify
<1>9. ASSUME NEW r \in Refs, Progress(r)
      PROVE  TypeOK'
  BY <1>9 DEF Progress, Notify, Kinds
<1>10. ASSUME NEW d \in Deliveries, ReceiveUnknown(d) \/ Receive(d)
       PROVE  TypeOK'
  <2>1. CASE ReceiveUnknown(d)
    BY <2>1 DEF ReceiveUnknown, Advance, Steps, Over
  <2>2. CASE Receive(d)
    <3>1. d.ref \in Refs /\ d.kind \in Kinds
      BY DEF Deliveries
    <3>2. status[OrderOf(d)] \in Statuses
      BY <2>2, <3>1 DEF Receive, Delivered, Linked, OrderOf
    <3> QED
      BY <2>2, <3>2 DEF Receive, Steps, InProgress
  <2> QED
    BY <1>10, <2>1, <2>2
<1>11. ASSUME NEW d \in Deliveries, Gate(d)
       PROVE  TypeOK'
  <2>1. d.ref \in Refs
    BY DEF Deliveries
  <2>2. AfterGate(d) \in Steps /\ "done" \in Steps
    BY DEF AfterGate, Steps, InProgress, PastGate, Over
  <2> QED
    BY <1>11, <2>1, <2>2 DEF Gate, Advance
<1>12. ASSUME NEW d \in Deliveries, Late(d)
       PROVE  TypeOK'
  <2>1. d.ref \in Refs /\ "done" \in Steps
    BY DEF Deliveries, Steps, Over
  <2>2. OrderOf(d) \in Orders
    BY <1>12, <2>1 DEF Late, Linked, OrderOf
  <2> QED
    BY <1>12, <2>1, <2>2 DEF Late, Advance
<1>13. ASSUME NEW d \in Deliveries, Verify(d) \/ Drop(d)
       PROVE  TypeOK'
  BY <1>13 DEF Verify, Drop, Advance, Steps, InProgress, PastGate, Over
<1>14. ASSUME NEW d \in Deliveries, FinalizePaid(d)
       PROVE  TypeOK'
  <2>1. d.ref \in Refs
    BY DEF Deliveries
  <2>2. OrderOf(d) \in Orders
    BY <1>14, <2>1 DEF FinalizePaid, Linked, OrderOf
  <2>3. Items(OrderOf(d)) \subseteq Orders \X Tickets \X (1 .. MaxQuantity)
    BY <2>2 DEF Items
  <2> QED
    BY <1>14, <2>1, <2>2, <2>3 DEF FinalizePaid, Advance, Statuses, Steps,
       InProgress, PastGate
<1>15. ASSUME NEW d \in Deliveries, Enqueue(d)
       PROVE  TypeOK'
  <2>1. PICK item \in todo[d] :
          /\ pdfJobs' = pdfJobs \cup {item}
          /\ todo' = [todo EXCEPT ![d] = @ \ {item}]
          /\ Advance(d, IF todo[d] = {item} THEN "done" ELSE "enqueue")
    BY <1>15 DEF Enqueue
  <2> QED
    BY <1>15, <2>1 DEF Enqueue, Advance, Steps, InProgress, PastGate, Over
<1>16. ASSUME NEW d \in Deliveries, FinalizeFailed(d)
       PROVE  TypeOK'
  <2>1. OrderOf(d) \in Orders
    BY <1>16 DEF FinalizeFailed, Linked, OrderOf, Deliveries
  <2> QED
    BY <1>16, <2>1 DEF FinalizeFailed, Advance, Release, Statuses, Steps, Over
<1>17. ASSUME NEW o \in Orders, Age(o) \/ CronExpire(o) \/ CronFail(o)
       PROVE  TypeOK'
  <2>1. CASE Age(o)
    BY <2>1 DEF Age
  <2>2. CASE CronExpire(o)
    <3>1. CASE status[o] = "PENDING"
      <4>1. /\ status' = [status EXCEPT ![o] = "EXPIRED"]
            /\ Release(o)
        BY <2>2, <3>1 DEF CronExpire
      <4>2. cronList' = cronList \ {o}
        BY <2>2 DEF CronExpire
      <4>3. UNCHANGED <<provider, cart, paymentRef, qr, aged, initStep,
                        handlerVars, providerVars>>
        BY <2>2 DEF CronExpire
      <4> QED
        BY <4>1, <4>2, <4>3 DEF Release, Statuses
    <3>2. CASE status[o] # "PENDING"
      BY <2>2, <3>2 DEF CronExpire
    <3> QED
      BY <3>1, <3>2
  <2>3. CASE CronFail(o)
    BY <2>3 DEF CronFail
  <2> QED
    BY <1>17, <2>1, <2>2, <2>3
<1>18. CASE CronRead
  BY <1>18 DEF CronRead, Abandoned, With
<1>19. CASE UNCHANGED vars
  BY <1>19
<1> QED
  BY <1>1, <1>2, <1>3, <1>4, <1>5, <1>6, <1>7, <1>8, <1>9, <1>10, <1>11, <1>12,
     <1>13, <1>14, <1>15, <1>16, <1>17, <1>18, <1>19
     DEF Next, InitPayment, Provider, Handle

-----------------------------------------------------------------------------
\* The actions that neither deliver a notification nor touch a transaction.
OrderSide(o) ==
    \/ \E p \in Providers, c \in Carts : Reserve(o, p, c)
    \/ ReturnWidget(o) \/ StoreRef(o) \/ AbortFailedInit(o) \/ LoseInit(o)
    \/ Age(o) \/ CronExpire(o) \/ CronFail(o)

LEMMA InitLinked == Init => Linked
  BY DEF Init, Linked, PastGate, Deliveries

\* References stay attached to the order they were opened for.
LEMMA StepLinked ==
    ASSUME TypeOK, Linked, [Next]_vars PROVE Linked'
<1> USE DEF TypeOK, Linked, handlerVars, providerVars
<1>1. ASSUME NEW o \in Orders, OrderSide(o)
      PROVE  Linked'
  <2>1. UNCHANGED <<handlerVars, providerVars>>
    BY <1>1 DEF OrderSide, Reserve, ReturnWidget, StoreRef, AbortFailedInit,
       LoseInit, Age, CronExpire, CronFail
  <2> QED
    BY <2>1
<1>2. ASSUME NEW o \in Orders, NEW r \in Refs, CreateSession(o, r) \/ OpenAttempt(o, r)
      PROVE  Linked'
  BY <1>2 DEF CreateSession, OpenAttempt, Deliveries
<1>3. ASSUME NEW r \in Refs, Pay(r) \/ PayShort(r) \/ Refuse(r)
      PROVE  Linked'
  <2>1. PICK outcome \in TxStates \ {"unused"}, kind \in Kinds : Settle(r, outcome, kind)
    BY <1>3 DEF Pay, PayShort, Refuse, TxStates, Kinds
  <2> QED
    BY <2>1 DEF Settle, Notify, Deliveries
<1>4. ASSUME NEW r \in Refs, Progress(r)
      PROVE  Linked'
  BY <1>4 DEF Progress, Notify, Deliveries
<1>5. ASSUME NEW d \in Deliveries, ReceiveUnknown(d) \/ Receive(d)
      PROVE  Linked'
  <2>1. d.ref \in Refs /\ d.kind \in Kinds /\ <<d.ref, d.kind>> \in sent
    BY <1>5 DEF ReceiveUnknown, Receive, Delivered, Deliveries
  <2>2. PICK new \in {"read", "done"} : step' = [step EXCEPT ![d] = new]
    BY <1>5 DEF ReceiveUnknown, Receive, Advance
  <2>3. UNCHANGED <<providerVars, webhookEvents>>
    BY <1>5 DEF ReceiveUnknown, Receive
  <2> QED
    BY <2>1, <2>2, <2>3 DEF PastGate
<1>6. ASSUME NEW d \in Deliveries, Gate(d)
      PROVE  Linked'
  <2>1. d.ref \in Refs /\ step[d] # "idle"
    BY <1>6 DEF Gate, Deliveries
  <2>2. PICK new \in Steps : Advance(d, new) /\ (new \in PastGate => d.ref \in webhookEvents')
    BY <1>6 DEF Gate, AfterGate, Steps, InProgress, PastGate, Over
  <2>3. UNCHANGED providerVars /\ webhookEvents \subseteq webhookEvents'
    BY <1>6 DEF Gate
  <2> QED
    BY <2>1, <2>2, <2>3 DEF Advance
<1>7. ASSUME NEW d \in Deliveries,
             \/ Late(d) \/ Verify(d) \/ FinalizePaid(d) \/ Enqueue(d)
             \/ FinalizeFailed(d) \/ Drop(d)
      PROVE  Linked'
  <2>1. /\ d.ref \in Refs /\ step[d] \in InProgress
        /\ UNCHANGED <<providerVars, webhookEvents>>
    BY <1>7 DEF Late, Verify, FinalizePaid, Enqueue, FinalizeFailed, Drop,
       InProgress, PastGate, Deliveries
  <2>2. PICK new \in Steps : Advance(d, new) /\ (new \in PastGate => step[d] \in PastGate)
    BY <1>7 DEF Late, Verify, FinalizePaid, Enqueue, FinalizeFailed, Drop,
       Steps, InProgress, PastGate, Over
  <2>3. step[d] # "idle"
    BY <2>1 DEF InProgress, Over, PastGate
  <2> QED
    BY <2>1, <2>2, <2>3 DEF Advance
<1>8. CASE CronRead \/ UNCHANGED vars
  BY <1>8 DEF CronRead, vars
<1> QED
  BY <1>1, <1>2, <1>3, <1>4, <1>5, <1>6, <1>7, <1>8
     DEF Next, InitPayment, Provider, Handle, OrderSide

-----------------------------------------------------------------------------
\* Who changes what.
LEMMA Frame ==
    ASSUME [Next]_vars
    PROVE  /\ \/ UNCHANGED initStep
              \/ \E o \in Orders : InitPayment(o)
           /\ \/ UNCHANGED <<txState, txOrder>>
              \/ \E o \in Orders, r \in Refs : CreateSession(o, r) \/ OpenAttempt(o, r)
              \/ \E r \in Refs : Pay(r) \/ PayShort(r) \/ Refuse(r)
           /\ \/ UNCHANGED <<step, seen, webhookEvents>>
              \/ \E d \in Deliveries : Handle(d) \/ Drop(d)
           /\ \/ UNCHANGED <<provider, cart>>
              \/ \E o \in Orders, p \in Providers, c \in Carts : Reserve(o, p, c)
           /\ \/ UNCHANGED <<status, stockSold>>
              \/ \E o \in Orders, p \in Providers, c \in Carts : Reserve(o, p, c)
              \/ \E o \in Orders : AbortFailedInit(o) \/ CronExpire(o)
              \/ \E d \in Deliveries : FinalizePaid(d) \/ FinalizeFailed(d)
           /\ \/ UNCHANGED qr
              \/ \E d \in Deliveries : FinalizePaid(d)
           /\ \/ UNCHANGED paymentRef
              \/ \E o \in Orders : StoreRef(o)
              \/ \E d \in Deliveries : FinalizePaid(d)
           /\ \/ UNCHANGED sent
              \/ \E r \in Refs : Pay(r) \/ PayShort(r) \/ Refuse(r) \/ Progress(r)
           /\ \/ UNCHANGED orphanAudit
              \/ \E d \in Deliveries : Late(d)
<1> USE DEF Next, InitPayment, Provider, Handle, Reserve, ReturnWidget, CreateSession,
     StoreRef, AbortFailedInit, LoseInit, OpenAttempt, Pay, PayShort, Refuse,
     Progress, Settle, ReceiveUnknown, Receive, Gate, Late, Verify, FinalizePaid,
     Enqueue, FinalizeFailed, Drop, Age, CronRead, CronExpire, CronFail, vars,
     orderVars, handlerVars, providerVars
<1>1. CASE \E o \in Orders : InitPayment(o) \/ Age(o) \/ CronExpire(o) \/ CronFail(o)
  BY <1>1
<1>2. CASE \E r \in Refs : Provider(r)
  BY <1>2
<1>3. CASE \E d \in Deliveries : Handle(d) \/ Drop(d)
  BY <1>3
<1>4. CASE CronRead \/ UNCHANGED vars
  BY <1>4
<1> QED
  BY <1>1, <1>2, <1>3, <1>4

\* What no step takes back: an order's row and provider, and the reference of a
\* transaction in use.
LEMMA RowsStay ==
    ASSUME TypeOK, [Next]_vars
    PROVE  /\ \A o \in Orders : status[o] # "none" =>
                 status'[o] # "none" /\ provider'[o] = provider[o]
           /\ \A r \in Refs : txState[r] # "unused" =>
                 txState'[r] # "unused" /\ txOrder'[r] = txOrder[r]
<1>1. ASSUME NEW o \in Orders, status[o] # "none"
      PROVE  status'[o] # "none"
  BY <1>1, Frame DEF TypeOK, Reserve, AbortFailedInit, CronExpire, FinalizePaid,
     FinalizeFailed
<1>2. ASSUME NEW o \in Orders, status[o] # "none"
      PROVE  provider'[o] = provider[o]
  BY <1>2, Frame DEF TypeOK, Reserve
<1>3. ASSUME NEW r \in Refs, txState[r] # "unused"
      PROVE  txState'[r] # "unused" /\ txOrder'[r] = txOrder[r]
  BY <1>3, Frame DEF TypeOK, CreateSession, OpenAttempt, Pay, PayShort, Refuse, Settle
<1> QED
  BY <1>1, <1>2, <1>3

LEMMA InitPlaced == Init => Placed
  BY DEF Init, Placed

\* A transaction is opened, and an initPayment call runs, for existing orders.
LEMMA StepPlaced ==
    ASSUME TypeOK, Linked, Placed, [Next]_vars PROVE Placed'
<1>1. ASSUME NEW o \in Orders, initStep[o] = "none", initStep'[o] # "none"
      PROVE  status'[o] # "none"
  <2>1. PICK q \in Orders : InitPayment(q)
    BY <1>1, Frame
  <2>2. PICK p \in Providers, c \in Carts : Reserve(o, p, c)
    BY <1>1, <2>1 DEF TypeOK, InitPayment, Reserve, ReturnWidget, CreateSession,
       StoreRef, AbortFailedInit, LoseInit
  <2> QED
    BY <2>2 DEF Reserve, TypeOK
<1>2. ASSUME NEW r \in Refs, txState[r] = "unused", txState'[r] # "unused"
      PROVE  txOrder'[r] \in Orders /\ initStep[txOrder'[r]] # "none"
  <2>1. PICK o \in Orders : CreateSession(o, r) \/ OpenAttempt(o, r)
    BY <1>2, Frame DEF TypeOK, CreateSession, OpenAttempt, Pay, PayShort, Refuse, Settle
  <2> QED
    BY <2>1 DEF CreateSession, OpenAttempt, TypeOK
<1> QED
  BY <1>1, <1>2, RowsStay DEF Placed, Linked

-----------------------------------------------------------------------------
LEMMA InitGate == Init => OneDeliveryPastGate
  BY DEF Init, OneDeliveryPastGate, PastGate

\* Only Gate lets a delivery past, for a reference not yet recorded.
LEMMA StepGate ==
    ASSUME TypeOK, Linked, OneDeliveryPastGate, [Next]_vars
    PROVE  OneDeliveryPastGate'
<1> USE DEF TypeOK, OneDeliveryPastGate
<1>1. ASSUME NEW d \in Deliveries, Gate(d)
      PROVE  OneDeliveryPastGate'
  <2>1. CASE d.ref \in webhookEvents
    BY <1>1, <2>1 DEF Gate, Advance, PastGate
  <2>2. CASE d.ref \notin webhookEvents
    <3>1. \A e \in Deliveries : step[e] \in PastGate => e.ref # d.ref
      BY <2>2 DEF Linked
    <3>2. /\ webhookEvents' = webhookEvents \cup {d.ref}
          /\ \A e \in Deliveries : e # d => step'[e] = step[e]
      BY <1>1, <2>2 DEF Gate, Advance
    <3> QED
      BY <3>1, <3>2
  <2> QED
    BY <2>1, <2>2
<1>2. ASSUME NEW d \in Deliveries, (Handle(d) /\ ~Gate(d)) \/ Drop(d)
      PROVE  OneDeliveryPastGate'
  <2>1. PICK new \in Steps : /\ step' = [step EXCEPT ![d] = new]
                             /\ new \in PastGate => step[d] \in PastGate
    BY <1>2 DEF Handle, ReceiveUnknown, Receive, Late, Verify, FinalizePaid, Enqueue,
       FinalizeFailed, Drop, Advance, Steps, InProgress, Over, PastGate
  <2>2. UNCHANGED webhookEvents
    BY <1>2 DEF Handle, ReceiveUnknown, Receive, Late, Verify, FinalizePaid,
       Enqueue, FinalizeFailed, Drop
  <2> QED
    BY <2>1, <2>2
<1>3. CASE UNCHANGED <<step, webhookEvents>>
  BY <1>3
<1> QED
  BY <1>1, <1>2, <1>3, Frame

-----------------------------------------------------------------------------
\* Once an initPayment call has returned, nothing can abort it any more.
LEMMA ReturnedStays ==
    ASSUME TypeOK, Placed, [Next]_vars, NEW o \in Orders, initStep[o] = "returned"
    PROVE  initStep'[o] = "returned"
<1>1. CASE UNCHANGED initStep
  BY <1>1
<1>2. ASSUME NEW q \in Orders, InitPayment(q)
      PROVE  initStep'[o] = "returned"
  BY <1>2 DEF TypeOK, Placed, InitPayment, Reserve, ReturnWidget, CreateSession,
     StoreRef, AbortFailedInit, LoseInit
<1> QED
  BY <1>1, <1>2, Frame

\* A settled transaction stays settled, and stays with its order.
LEMMA SettledStays ==
    ASSUME TypeOK, Linked, Placed, Backed, [Next]_vars, NEW r \in Refs, Settled(r)
    PROVE  /\ Settled(r)'
           /\ txOrder'[r] = txOrder[r]
           /\ txOrder[r] \in Orders
           /\ initStep[txOrder[r]] = "returned"
<1>1. /\ txOrder[r] \in Orders /\ status[txOrder[r]] # "none"
      /\ initStep[txOrder[r]] = "returned"
      /\ txState[r] \in {"approved", "captured"}
  BY DEF Settled, Linked, Placed, Backed
<1>2. provider'[txOrder[r]] = provider[txOrder[r]] /\ txOrder'[r] = txOrder[r]
  BY <1>1, RowsStay
<1>3. txState'[r] = txState[r]
  BY <1>1, Frame DEF TypeOK, CreateSession, OpenAttempt, Pay, PayShort, Refuse, Settle
<1> QED
  BY <1>1, <1>2, <1>3 DEF Settled

LEMMA InitBacked == Init => Backed
  BY DEF Init, Backed, TicketIsBacked

LEMMA StepBacked ==
    ASSUME TypeOK, Linked, Placed, Backed, [Next]_vars PROVE Backed'
<1>1. ASSUME NEW r \in Refs, txState'[r] \in {"approved", "captured"}
      PROVE  initStep'[txOrder'[r]] = "returned"
  <2>1. CASE txState[r] = txState'[r]
    <3>1. /\ txOrder[r] \in Orders /\ initStep[txOrder[r]] = "returned"
          /\ txOrder'[r] = txOrder[r]
      BY <1>1, <2>1, RowsStay DEF Backed, Linked
    <3> QED
      BY <3>1, ReturnedStays
  <2>2. CASE txState[r] # txState'[r]
    <3>1. Pay(r)
      BY <1>1, <2>2, Frame DEF TypeOK, CreateSession, OpenAttempt, Pay, PayShort,
         Refuse, Settle
    <3> QED
      BY <3>1 DEF Pay, Settle, orderVars
  <2> QED
    BY <2>1, <2>2
<1>2. ASSUME NEW d \in Deliveries, step'[d] = "pay"
      PROVE  Settled(d.ref)'
  <2>1. Settled(d.ref)
    <3>1. CASE step[d] = "pay"
      BY <3>1 DEF Backed
    <3>2. CASE step[d] # "pay"
      <4>1. PICK e \in Deliveries : Handle(e) \/ Drop(e)
        BY <1>2, <3>2, Frame
      <4>2. Verify(d)
        BY <1>2, <3>2, <4>1 DEF TypeOK, Handle, ReceiveUnknown, Receive,
           Gate, AfterGate, Late, Verify, FinalizePaid, Enqueue,
           FinalizeFailed, Drop, Advance
      <4> QED
        BY <1>2, <4>2 DEF Verify, Advance, Confirmed, TypeOK
    <3> QED
      BY <3>1, <3>2
  <2> QED
    BY <2>1, SettledStays DEF Deliveries
<1>3. ASSUME NEW o \in Orders, qr'[o]
      PROVE  (/\ paymentRef[o] \in webhookEvents
              /\ txOrder[paymentRef[o]] = o
              /\ Settled(paymentRef[o]))'
  <2>1. webhookEvents \subseteq webhookEvents'
    BY Frame DEF Handle, ReceiveUnknown, Receive, Gate, Late, Verify, FinalizePaid,
       Enqueue, FinalizeFailed, Drop
  <2>2. PICK r \in webhookEvents : /\ paymentRef'[o] = r
                                   /\ txOrder[r] = o
                                   /\ Settled(r)
    <3>1. CASE \E d \in Deliveries : FinalizePaid(d) /\ OrderOf(d) = o
      <4>1. PICK d \in Deliveries : FinalizePaid(d) /\ OrderOf(d) = o
        BY <3>1
      <4>2. /\ Settled(d.ref) /\ d.ref \in webhookEvents /\ txOrder[d.ref] = o
        BY <4>1 DEF FinalizePaid, Backed, Linked, PastGate, OrderOf
      <4>3. paymentRef'[o] = d.ref
        BY <4>1 DEF FinalizePaid, TypeOK
      <4> QED
        BY <4>2, <4>3
    <3>2. CASE ~ \E d \in Deliveries : FinalizePaid(d) /\ OrderOf(d) = o
      <4>1. qr[o]
        BY <1>3, <3>2, Frame DEF FinalizePaid, TypeOK
      <4>2. /\ paymentRef[o] \in webhookEvents /\ paymentRef[o] \in Refs
            /\ txOrder[paymentRef[o]] = o /\ Settled(paymentRef[o])
        BY <4>1 DEF Backed, TicketIsBacked, TypeOK
      <4>3. initStep[o] = "returned"
        BY <4>2, SettledStays
      <4>4. paymentRef'[o] = paymentRef[o]
        BY <3>2, <4>3, Frame DEF StoreRef, FinalizePaid, TypeOK
      <4> QED
        BY <4>2, <4>4
    <3> QED
      BY <3>1, <3>2
  <2>3. r \in Refs
    BY <2>2 DEF TypeOK
  <2>4. r \in webhookEvents' /\ txOrder'[r] = o /\ Settled(r)'
    BY <2>1, <2>2, <2>3, SettledStays
  <2> QED
    BY <2>2, <2>4 DEF Settled
<1> QED
  BY <1>1, <1>2, <1>3 DEF Backed, TicketIsBacked

-----------------------------------------------------------------------------
LEMMA InitTested == Init => TestedPending
  BY DEF Init, TestedPending

\* The order object of a handler does not change under it, and only those that
\* have read PENDING pass the test.
LEMMA StepTested ==
    ASSUME TypeOK, TestedPending, [Next]_vars PROVE TestedPending'
<1> USE DEF TypeOK, TestedPending
<1>1. ASSUME NEW d \in Deliveries, Gate(d)
      PROVE  TestedPending'
  <2>1. PICK new \in Steps : Advance(d, new) /\ (new = "verify" => seen[d] = "PENDING")
                             /\ new \notin {"pay", "fail"}
    BY <1>1 DEF Gate, AfterGate, Steps, InProgress, PastGate, Over
  <2> QED
    BY <2>1 DEF Advance, Over
<1>2. ASSUME NEW d \in Deliveries, Verify(d)
      PROVE  TestedPending'
  <2>1. PICK new \in {"pay", "fail"} : Advance(d, new) /\ step[d] = "verify"
    BY <1>2 DEF Verify
  <2> QED
    BY <2>1 DEF Advance, Over
<1>3. ASSUME NEW d \in Deliveries, Receive(d)
      PROVE  TestedPending'
  BY <1>3 DEF Receive
<1>4. ASSUME NEW d \in Deliveries,
             \/ ReceiveUnknown(d) \/ Late(d) \/ FinalizePaid(d) \/ Enqueue(d)
             \/ FinalizeFailed(d) \/ Drop(d)
      PROVE  TestedPending'
  <2>1. PICK new \in {"enqueue", "done", "refused", "dropped", "lost"} : Advance(d, new)
    BY <1>4 DEF ReceiveUnknown, Late, FinalizePaid, Enqueue, FinalizeFailed, Drop
  <2> QED
    BY <2>1 DEF Advance, Over
<1>5. CASE UNCHANGED <<step, seen>>
  BY <1>5
<1> QED
  BY <1>1, <1>2, <1>3, <1>4, <1>5, Frame DEF Handle

-----------------------------------------------------------------------------
\* The invariant every behaviour keeps, whatever overlaps and whatever fails.
THEOREM SafetyInvariant == Spec => []SafetyInv
<1>1. Init => SafetyInv
  BY InitTypes, InitLinked, InitPlaced, InitBacked, InitGate, InitTested DEF SafetyInv
<1>2. SafetyInv /\ [Next]_vars => SafetyInv'
  BY StepTypes, StepLinked, StepPlaced, StepBacked, StepGate, StepTested DEF SafetyInv
<1> QED
  BY <1>1, <1>2, PTL DEF Spec

\* Every variable keeps its type.
THEOREM TypeCorrect == Spec => []TypeOK
  BY SafetyInvariant, PTL DEF SafetyInv

\* The gate of webhook-idempotency.service.ts lets one delivery per reference
\* through, however many notifications, copies and crashes there are.
THEOREM GateIsExclusive == Spec => []OneDeliveryPastGate
  BY SafetyInvariant, PTL DEF SafetyInv

\* No ticket without a settled transaction of its own order, whatever overlaps.
THEOREM TicketsAreBacked == Spec => []TicketIsBacked
  BY SafetyInvariant, PTL DEF SafetyInv, Backed

-----------------------------------------------------------------------------
\* A delivery carries what the provider sent, and a success is only sent for a
\* transaction that took or approved some money, which nothing takes back.
Taken == {"approved", "captured", "short"}

Founded ==
    /\ \A d \in Deliveries : step[d] # "idle" => <<d.ref, d.kind>> \in sent
    /\ \A r \in Refs : <<r, "success">> \in sent => txState[r] \in Taken
    /\ \A o \in orphanAudit : \E r \in Refs : txState[r] # "unused" /\ txOrder[r] = o
    /\ OrphanAuditIsFounded

LEMMA InitFounded == Init => Founded
  BY DEF Init, Founded, OrphanAuditIsFounded

LEMMA StepFounded ==
    ASSUME TypeOK, Linked, Placed, Founded, [Next]_vars PROVE Founded'
<1>1. sent \subseteq sent'
  BY Frame DEF Pay, PayShort, Refuse, Progress, Settle, Notify
<1>2. ASSUME NEW r \in Refs, txState[r] \in Taken PROVE txState'[r] = txState[r]
  BY <1>2, Frame DEF Taken, TypeOK, CreateSession, OpenAttempt, Pay, PayShort, Refuse, Settle
<1>3. ASSUME NEW d \in Deliveries, step'[d] # "idle" PROVE <<d.ref, d.kind>> \in sent'
  <2>1. CASE step[d] # "idle"
    BY <1>1, <2>1 DEF Founded
  <2>2. CASE step[d] = "idle"
    <3>1. PICK e \in Deliveries : Handle(e) \/ Drop(e)
      BY <1>3, <2>2, Frame
    <3>2. ReceiveUnknown(d) \/ Receive(d)
      BY <1>3, <2>2, <3>1 DEF TypeOK, Handle, ReceiveUnknown, Receive, Gate, Late, Verify,
         FinalizePaid, Enqueue, FinalizeFailed, Drop, Advance, Over, InProgress, PastGate
    <3> QED
      BY <1>1, <3>2 DEF ReceiveUnknown, Receive, Delivered
  <2> QED
    BY <2>1, <2>2
<1>4. ASSUME NEW r \in Refs, <<r, "success">> \in sent' PROVE txState'[r] \in Taken
  <2>1. CASE <<r, "success">> \in sent
    BY <1>2, <2>1 DEF Founded
  <2>2. CASE <<r, "success">> \notin sent
    <3>1. PICK q \in Refs : Pay(q) \/ PayShort(q) \/ Refuse(q) \/ Progress(q)
      BY <1>4, <2>2, Frame
    <3>2. PICK outcome \in Taken : Settle(r, outcome, "success")
      BY <1>4, <2>2, <3>1 DEF Pay, PayShort, Refuse, Progress, Settle, Notify, Taken
    <3> QED
      BY <3>2 DEF Settle, TypeOK
  <2> QED
    BY <2>1, <2>2
<1>5. ASSUME NEW o \in orphanAudit', provider'[o] = "KKIAPAY"
      PROVE  \E r \in Refs : txOrder'[r] = o /\ txState'[r] \in Taken
  <2>1. PICK r \in Refs : /\ txOrder[r] = o /\ o \in Orders
                          /\ txState[r] \in Taken
    <3>1. CASE o \in orphanAudit
      <4>1. o \in Orders /\ status[o] # "none"
        BY <3>1 DEF Founded, Placed, TypeOK
      <4>2. provider[o] = "KKIAPAY"
        BY <1>5, <4>1, RowsStay
      <4> QED
        BY <3>1, <4>1, <4>2 DEF Founded, OrphanAuditIsFounded, Taken
    <3>2. CASE o \notin orphanAudit
      <4>1. PICK d \in Deliveries : Late(d) /\ o = OrderOf(d) /\ AnnouncesPayment(d)
        BY <1>5, <3>2, Frame DEF Late
      <4>2. provider' = provider
        BY <4>1 DEF Late, orderVars
      <4>3. d.ref \in Refs /\ step[d] # "idle" /\ d.kind = "success"
        BY <1>5, <4>1, <4>2 DEF Late, AnnouncesPayment, Deliveries
      <4>4. txState[d.ref] \in Taken
        BY <4>3 DEF Founded
      <4> QED
        BY <4>1, <4>3, <4>4 DEF OrderOf, Linked
    <3> QED
      BY <3>1, <3>2
  <2> QED
    BY <1>2, <2>1, RowsStay DEF Taken
<1>6. ASSUME NEW o \in orphanAudit'
      PROVE  \E r \in Refs : txState'[r] # "unused" /\ txOrder'[r] = o
  <2>1. PICK r \in Refs : txState[r] # "unused" /\ txOrder[r] = o
    <3>1. CASE o \in orphanAudit
      BY <3>1 DEF Founded
    <3>2. CASE o \notin orphanAudit
      <4>1. PICK d \in Deliveries : Late(d) /\ o = OrderOf(d)
        BY <1>6, <3>2, Frame DEF Late
      <4> QED
        BY <4>1 DEF Late, OrderOf, Linked, Deliveries
    <3> QED
      BY <3>1, <3>2
  <2> QED
    BY <2>1, RowsStay
<1> QED
  BY <1>1, <1>2, <1>3, <1>4, <1>5, <1>6 DEF Founded, OrphanAuditIsFounded, Taken

\* An entry that asks for a refund of KkiaPay's money names an order somebody paid
\* for, whatever overlaps: a late refusal adds none.
THEOREM AuditIsFounded == Spec => []OrphanAuditIsFounded
<1>1. SafetyInv /\ Founded /\ [Next]_vars => Founded'
  BY StepFounded DEF SafetyInv
<1> QED
  BY <1>1, InitFounded, SafetyInvariant, PTL DEF Spec, Founded

-----------------------------------------------------------------------------
\* An order whose items carry a QR code was finalised and is not PENDING again.
TicketIsClosed ==
    \A o \in Orders : qr[o] => status[o] \notin {"none", "PENDING"}

LEMMA StepTicketIsClosed ==
    ASSUME TypeOK, TicketIsClosed, [Next]_vars
    PROVE  TicketIsClosed'
<1> SUFFICES ASSUME NEW o \in Orders, qr'[o]
             PROVE  status'[o] \notin {"none", "PENDING"}
  BY DEF TicketIsClosed
<1>1. CASE \E d \in Deliveries : FinalizePaid(d) /\ OrderOf(d) = o
  BY <1>1 DEF FinalizePaid, TypeOK
<1>2. CASE ~ \E d \in Deliveries : FinalizePaid(d) /\ OrderOf(d) = o
  <2>1. status[o] \notin {"none", "PENDING"}
    BY <1>2, Frame DEF FinalizePaid, TicketIsClosed, TypeOK
  <2> QED
    BY <1>2, <2>1, Frame DEF Reserve, AbortFailedInit, CronExpire, FinalizePaid,
       FinalizeFailed, TypeOK
<1> QED
  BY <1>1, <1>2

\* The expiry cron never closes an order that has tickets, even when a webhook
\* finalises it while the cron works through the list it has read before.
THEOREM ExpiryIsGuarded == Spec => ExpiryNeverTakesTicket
<1>1. Init => TicketIsClosed
  BY DEF Init, TicketIsClosed
<1>2. SafetyInv /\ TicketIsClosed /\ [Next]_vars => TicketIsClosed'
  BY StepTicketIsClosed DEF SafetyInv
<1>3. TypeOK /\ TicketIsClosed /\ [Next]_vars =>
        [\A o \in Orders : qr[o] /\ status[o] # "EXPIRED" => status'[o] # "EXPIRED"]_vars
  <2> SUFFICES ASSUME TypeOK, TicketIsClosed, [Next]_vars,
                      NEW o \in Orders, qr[o], status[o] # "EXPIRED"
               PROVE  status'[o] # "EXPIRED"
    OBVIOUS
  <2>1. ~ (CronExpire(o) /\ status[o] = "PENDING")
    BY DEF TicketIsClosed
  <2> QED
    BY <2>1, Frame DEF Reserve, AbortFailedInit, CronExpire, FinalizePaid,
       FinalizeFailed, TypeOK
<1>4. SafetyInv => TypeOK
  BY DEF SafetyInv
<1> QED
  BY <1>1, <1>2, <1>3, <1>4, SafetyInvariant, PTL DEF Spec, ExpiryNeverTakesTicket

-----------------------------------------------------------------------------
(* What the late writes alone can break: the ledger of seats, and the       *)
(* agreement of the tickets with the orders.                                *)

\* Who writes an order's status.
LEMMA StatusChange ==
    ASSUME TypeOK, [Next]_vars, NEW o \in Orders, status'[o] # status[o]
    PROVE  \/ status[o] = "none" /\ status'[o] = "PENDING"
           \/ AbortFailedInit(o)
           \/ CronExpire(o) /\ status[o] = "PENDING"
           \/ \E d \in Deliveries :
                 (FinalizePaid(d) \/ FinalizeFailed(d)) /\ OrderOf(d) = o
<1>1. ASSUME NEW q \in Orders, NEW p \in Providers, NEW c \in Carts, Reserve(q, p, c)
      PROVE  status[o] = "none" /\ status'[o] = "PENDING"
  BY <1>1 DEF Reserve, TypeOK
<1>2. ASSUME NEW q \in Orders, AbortFailedInit(q) \/ CronExpire(q)
      PROVE  AbortFailedInit(o) \/ (CronExpire(o) /\ status[o] = "PENDING")
  <2>1. q = o
    BY <1>2 DEF AbortFailedInit, CronExpire, TypeOK
  <2> QED
    BY <1>2, <2>1 DEF CronExpire
<1>3. ASSUME NEW d \in Deliveries, FinalizePaid(d) \/ FinalizeFailed(d)
      PROVE  OrderOf(d) = o
  BY <1>3 DEF FinalizePaid, FinalizeFailed, TypeOK
<1> QED
  BY <1>1, <1>2, <1>3, Frame

\* A handler that is not late writes an order that is still PENDING: the test
\* after the gate turned the others away.
LEMMA TimelyWrite ==
    ASSUME SafetyInv, NEW o \in Orders, ~LateWriteOf(o)
    PROVE  /\ AbortFailedInit(o) => status[o] = "PENDING"
           /\ \A d \in Deliveries :
                 (FinalizePaid(d) \/ FinalizeFailed(d)) /\ OrderOf(d) = o
                     => status[o] = "PENDING"
  BY DEF SafetyInv, TestedPending, LateWriteOf, FinalizePaid, FinalizeFailed

\* Every step of the code but the late writes is a booking, a closure or nothing
\* for the ledger.
LEMMA StepKeepsLedger ==
    ASSUME SafetyInv, [Next]_vars, ~LateWrite
    PROVE  [Ledger!Next]_(Ledger!vars)
<1> USE DEF Ledger!vars, Ledger!Next
<1>1. TypeOK
  BY DEF SafetyInv
<1>2. ASSUME NEW o \in Orders, NEW p \in Providers, NEW c \in Carts, Reserve(o, p, c)
      PROVE  Ledger!Book(o, c)
  <2>1. \A t \in Tickets : c[t] \in Int /\ stockSold[t] \in Int /\ Stock[t] \in Int
    BY <1>1, Constants DEF TypeOK
  <2> QED
    BY <1>2, <2>1 DEF Reserve, Fits, Ledger!Book
<1>3. ASSUME NEW o \in Orders, AbortFailedInit(o)
      PROVE  Ledger!Close(o, "FAILED")
  <2>1. status[o] = "PENDING"
    BY <1>3, TimelyWrite DEF LateWrite
  <2> QED
    BY <1>3, <2>1 DEF AbortFailedInit, Release, Ledger!Close
<1>4. ASSUME NEW o \in Orders, CronExpire(o)
      PROVE  Ledger!Close(o, "EXPIRED") \/ UNCHANGED Ledger!vars
  BY <1>4 DEF CronExpire, Release, Ledger!Close
<1>5. ASSUME NEW d \in Deliveries, FinalizePaid(d) \/ FinalizeFailed(d)
      PROVE  OrderOf(d) \in Orders /\ status[OrderOf(d)] = "PENDING"
  <2>1. OrderOf(d) \in Orders
    BY <1>5 DEF SafetyInv, Linked, FinalizePaid, FinalizeFailed, OrderOf, Deliveries
  <2> QED
    BY <1>5, <2>1, TimelyWrite DEF LateWrite
<1>6. ASSUME NEW d \in Deliveries, FinalizePaid(d)
      PROVE  Ledger!Close(OrderOf(d), "PAID")
  BY <1>5, <1>6 DEF FinalizePaid, Ledger!Close
<1>7. ASSUME NEW d \in Deliveries, FinalizeFailed(d)
      PROVE  Ledger!Close(OrderOf(d), "FAILED")
  BY <1>5, <1>7 DEF FinalizeFailed, Release, Ledger!Close
<1>8. \/ UNCHANGED <<status, cart, stockSold>>
      \/ \E o \in Orders, p \in Providers, c \in Carts : Reserve(o, p, c)
      \/ \E o \in Orders : AbortFailedInit(o) \/ CronExpire(o)
      \/ \E d \in Deliveries : FinalizePaid(d) \/ FinalizeFailed(d)
  BY Frame
<1> QED
  BY <1>2, <1>3, <1>4, <1>5, <1>6, <1>7, <1>8 DEF Ledger!Closed

\* A row and the QR codes of its items change together, but for a late write.
LEMMA StepTicketMatches ==
    ASSUME SafetyInv, [Next]_vars, NEW o \in Orders, ~LateWriteOf(o),
           qr[o] <=> status[o] = "PAID"
    PROVE  qr'[o] <=> status'[o] = "PAID"
<1>1. TypeOK
  BY DEF SafetyInv
<1>2. CASE \E d \in Deliveries : FinalizePaid(d) /\ OrderOf(d) = o
  BY <1>1, <1>2 DEF FinalizePaid, TypeOK
<1>3. CASE ~ \E d \in Deliveries : FinalizePaid(d) /\ OrderOf(d) = o
  <2>1. qr'[o] = qr[o]
    BY <1>1, <1>3, Frame DEF FinalizePaid, TypeOK
  <2>2. CASE status'[o] # status[o]
    <3>1. status[o] # "PAID" /\ status'[o] # "PAID"
      BY <1>1, <1>3, <2>2, StatusChange, TimelyWrite
         DEF AbortFailedInit, CronExpire, FinalizeFailed, TypeOK
    <3> QED
      BY <2>1, <3>1
  <2> QED
    BY <2>1, <2>2
<1> QED
  BY <1>2, <1>3

\* A paid order stays paid, but for a late write.
LEMMA StepPaid ==
    ASSUME SafetyInv, [Next]_vars, NEW o \in Orders, ~LateWriteOf(o), status[o] = "PAID"
    PROVE  status'[o] = "PAID"
  BY StatusChange, TimelyWrite DEF SafetyInv

-----------------------------------------------------------------------------
(* What is proved of the ledger holds of the orders that implement it.      *)

Proved == INSTANCE SeatLedgerProofs WITH state <- status, sold <- stockSold

\* The words of the two instances are the same, and the assumptions of the
\* ledger's module hold here.
LEMMA SameWords ==
    /\ Proved!IsFiniteSet(Orders)
    /\ [Ledger!Next]_(Ledger!vars) => [Proved!Next]_(Proved!vars)
    /\ Proved!Balanced <=> StockMatchesOrders
    /\ TypeOK => Proved!Typed
<1>1. Proved!IsFiniteSet(Orders)
  BY OrdersAreFinite DEF Proved!IsFiniteSet, IsFiniteSet
<1>2. [Ledger!Next]_(Ledger!vars) => [Proved!Next]_(Proved!vars)
  BY DEF Proved!Next, Proved!Book, Proved!Close, Proved!Closed, Proved!vars,
         Ledger!Next, Ledger!Book, Ledger!Close, Ledger!Closed, Ledger!vars
<1>3. Proved!Balanced <=> StockMatchesOrders
  BY DEF Proved!Balanced, Proved!Seats, Proved!Holding, Proved!Cardinality,
         StockMatchesOrders, Ledger!Balanced, Ledger!Seats, Ledger!Holding,
         Ledger!Cardinality
<1>4. TypeOK => Proved!Typed
  BY DEF TypeOK, Statuses, Quantities, Proved!Typed, Proved!Quantities, Proved!Closed
<1> QED
  BY <1>1, <1>2, <1>3, <1>4

\* A counter that matches the seats held still does after a step of the ledger.
LEMMA StepBalanced ==
    ASSUME TypeOK, StockMatchesOrders, [Ledger!Next]_(Ledger!vars)
    PROVE  StockMatchesOrders'
<1>1. Proved!Typed /\ Proved!Balanced /\ [Proved!Next]_(Proved!vars)
  BY SameWords
<1>2. Proved!Balanced'
  BY <1>1, SameWords, StockIsNat, CartsAreQuantities, Proved!StepBalanced
<1>3. (Proved!Balanced <=> StockMatchesOrders)'
  BY SameWords, PTL
<1> QED
  BY <1>2, <1>3

LEMMA InitBalanced == Init => StockMatchesOrders
<1>1. Init => Proved!Init
  BY DEF Init, Proved!Init
<1> QED
  BY <1>1, SameWords, StockIsNat, CartsAreQuantities, Proved!InitBalanced

\* A counter that matches leaves no seat sold twice.
LEMMA BalancedFits ==
    ASSUME TypeOK, StockMatchesOrders PROVE NoSeatSoldTwice
<1> SUFFICES ASSUME NEW t \in Tickets
             PROVE  Cardinality(Seats(cart, With({"PAID"}), t)) <= Stock[t]
  BY DEF NoSeatSoldTwice
<1> DEFINE Holders == With({"PENDING", "PAID"})
<1>1. /\ cart \in Quantities /\ Holders \in SUBSET Orders
      /\ With({"PAID"}) \in SUBSET Holders
  BY DEF TypeOK, With
<1>2. /\ Cardinality(Seats(cart, With({"PAID"}), t)) \in Nat
      /\ Cardinality(Seats(cart, Holders, t)) \in Nat
      /\ Cardinality(Seats(cart, With({"PAID"}), t)) <= Cardinality(Seats(cart, Holders, t))
  <2> HIDE DEF Holders
  <2>1. cart \in Proved!Quantities
    BY <1>1 DEF Proved!Quantities, Quantities
  <2> QED
    BY <1>1, <2>1, SameWords, StockIsNat, CartsAreQuantities, Proved!SeatsMonotone
       DEF Proved!Cardinality, Cardinality, Proved!Seats, Seats
<1>3. stockSold[t] = Cardinality(Seats(cart, Holders, t)) /\ stockSold[t] <= Stock[t]
  BY DEF StockMatchesOrders, Ledger!Balanced, Ledger!Seats, Seats, Ledger!Holding, With,
     Ledger!Cardinality, Cardinality
<1> QED
  BY <1>2, <1>3, Constants

-----------------------------------------------------------------------------
(* Two forms of the same fact.  Step by step: a step that leaves the ledger,*)
(* unbalances the counter or parts a ticket from its order is a late write. *)
(* Of a behaviour: unless a late write happens in it, it keeps the ledger.  *)

\* In every interleaving, and whatever has happened before, the three unguarded
\* updates are the only steps that do harm, and only when they come late.
THEOREM LateWritesAlone == Spec => OnlyLateWritesHarm
<1>1. SafetyInv /\ [Next]_vars =>
        [\/ LateWrite
         \/ /\ Ledger!Next \/ UNCHANGED Ledger!vars
            /\ StockMatchesOrders => StockMatchesOrders'
            /\ \A o \in Orders : (qr[o] <=> status[o] = "PAID")
                                   => (qr'[o] <=> status'[o] = "PAID")]_vars
  <2> SUFFICES ASSUME SafetyInv, [Next]_vars, ~LateWrite
               PROVE  /\ Ledger!Next \/ UNCHANGED Ledger!vars
                      /\ StockMatchesOrders => StockMatchesOrders'
                      /\ \A o \in Orders : (qr[o] <=> status[o] = "PAID")
                                             => (qr'[o] <=> status'[o] = "PAID")
    OBVIOUS
  <2>1. [Ledger!Next]_(Ledger!vars)
    BY StepKeepsLedger
  <2>2. StockMatchesOrders => StockMatchesOrders'
    BY <2>1, StepBalanced DEF SafetyInv
  <2>3. \A o \in Orders : ~LateWriteOf(o)
    BY DEF LateWrite
  <2> QED
    BY <2>1, <2>2, <2>3, StepTicketMatches
<1> QED
  BY <1>1, SafetyInvariant, PTL DEF Spec, OnlyLateWritesHarm

\* The orders of a behaviour implement the ledger of seats, unless a late write
\* happens in it.
THEOREM LedgerKept == Spec => KeepsLedger \/ <><<LateWrite>>_vars
<1>1. Init => Ledger!Init
  BY DEF Init, Ledger!Init
<1>2. SafetyInv /\ [Next]_vars => [Ledger!Next]_(Ledger!vars) \/ <<LateWrite>>_vars
  <2> SUFFICES ASSUME SafetyInv, [Next]_vars, ~<<LateWrite>>_vars
               PROVE  [Ledger!Next]_(Ledger!vars)
    OBVIOUS
  <2>1. CASE UNCHANGED vars
    BY <2>1 DEF vars, orderVars, Ledger!vars
  <2>2. CASE vars' # vars
    BY <2>2, StepKeepsLedger
  <2> QED
    BY <2>1, <2>2
<1> QED
  BY <1>1, <1>2, SafetyInvariant, PTL DEF Spec, KeepsLedger, Ledger!Spec

\* The counters match the seats held, and no seat is sold twice, unless a late
\* write happens first.
THEOREM CapacityHolds ==
    Spec => [](StockMatchesOrders /\ NoSeatSoldTwice) \/ <><<LateWrite>>_vars
<1>1. SafetyInv /\ StockMatchesOrders /\ [Next]_vars =>
        StockMatchesOrders' \/ <<LateWrite>>_vars
  <2> SUFFICES ASSUME SafetyInv, StockMatchesOrders, [Next]_vars, ~<<LateWrite>>_vars
               PROVE  StockMatchesOrders'
    OBVIOUS
  <2>1. CASE UNCHANGED vars
    BY <2>1 DEF vars, orderVars, StockMatchesOrders, Ledger!Balanced, Ledger!Seats,
       Ledger!Holding
  <2>2. CASE vars' # vars
    BY <2>2, StepKeepsLedger, StepBalanced DEF SafetyInv
  <2> QED
    BY <2>1, <2>2
<1>2. SafetyInv /\ StockMatchesOrders => NoSeatSoldTwice
  BY BalancedFits DEF SafetyInv
<1> QED
  BY <1>1, <1>2, InitBalanced, SafetyInvariant, PTL DEF Spec

\* The QR codes of an order are valid exactly while it is paid, unless this very
\* order is written late; what happens to other orders does not matter.
THEOREM TicketsMatchStatus ==
    ASSUME NEW o \in Orders
    PROVE  Spec => [](qr[o] <=> status[o] = "PAID") \/ <><<LateWriteOf(o)>>_vars
<1>1. Init => (qr[o] <=> status[o] = "PAID")
  BY DEF Init
<1>2. SafetyInv /\ (qr[o] <=> status[o] = "PAID") /\ [Next]_vars =>
        (qr[o] <=> status[o] = "PAID")' \/ <<LateWriteOf(o)>>_vars
  <2> SUFFICES ASSUME SafetyInv, qr[o] <=> status[o] = "PAID", [Next]_vars,
                      ~<<LateWriteOf(o)>>_vars
               PROVE  (qr[o] <=> status[o] = "PAID")'
    OBVIOUS
  <2>1. CASE UNCHANGED vars
    BY <2>1 DEF vars, orderVars
  <2>2. CASE vars' # vars
    BY <2>2, StepTicketMatches
  <2> QED
    BY <2>1, <2>2
<1> QED
  BY <1>1, <1>2, SafetyInvariant, PTL DEF Spec

\* A paid order stays paid, unless this very order is written late.
THEOREM PaidStaysPaid ==
    ASSUME NEW o \in Orders
    PROVE  Spec => [][status[o] = "PAID" => status'[o] = "PAID" \/ LateWriteOf(o)]_vars
<1>1. SafetyInv /\ [Next]_vars =>
        [status[o] = "PAID" => status'[o] = "PAID" \/ LateWriteOf(o)]_vars
  BY StepPaid
<1> QED
  BY <1>1, SafetyInvariant, PTL DEF Spec

-----------------------------------------------------------------------------
(* The orders the queue works for.                                          *)

\* The queue leaves the orders alone, and the orders move while it works.
LEMMA OrdersMove == [DeliveryNext]_allVars => [Next]_vars
  BY DEF DeliveryNext, allVars, Generate, Take, Reuse, Launch, Launched, Rendered,
     RenderFails, Throws, StoreUrl, Look, Tell, CloseIdle, BrowserDies, WorkerDies

\* The items of an order with tickets are settled.
LEMMA TicketsStay ==
    ASSUME TypeOK, TicketIsClosed, [Next]_vars, NEW o \in Orders, qr[o]
    PROVE  qr'[o] /\ cart'[o] = cart[o] /\ Items(o)' = Items(o)
<1>1. qr'[o]
  BY Frame DEF FinalizePaid, TypeOK
<1>2. cart'[o] = cart[o]
  BY Frame DEF Reserve, TicketIsClosed, TypeOK, Quantities
<1> QED
  BY <1>1, <1>2 DEF Items

\* A job is enqueued for an item of an order that has tickets.
Queued ==
    /\ \A i \in pdfJobs : qr[i[1]] /\ i \in Items(i[1])
    /\ \A d \in Deliveries : \A i \in todo[d] : qr[i[1]] /\ i \in Items(i[1])

LEMMA StepQueued ==
    ASSUME TypeOK, Linked, TicketIsClosed, Queued, [Next]_vars
    PROVE  Queued'
<1>1. ASSUME NEW i \in JobItems, qr[i[1]], i \in Items(i[1])
      PROVE  qr'[i[1]] /\ i \in Items(i[1])'
  BY <1>1, TicketsStay DEF JobItems
<1>2. \/ UNCHANGED <<todo, pdfJobs>>
      \/ \E d \in Deliveries : FinalizePaid(d) \/ Enqueue(d)
  BY DEF Next, InitPayment, Provider, Handle, Reserve, ReturnWidget, CreateSession,
     StoreRef, AbortFailedInit, LoseInit, OpenAttempt, Pay, PayShort, Refuse,
     Progress, Settle, ReceiveUnknown, Receive, Gate, Late, Verify,
     FinalizeFailed, Drop, Age, CronRead, CronExpire, CronFail, vars, handlerVars
<1>3. CASE UNCHANGED <<todo, pdfJobs>>
  BY <1>1, <1>3 DEF Queued, TypeOK, JobItems
<1>4. ASSUME NEW d \in Deliveries, FinalizePaid(d)
      PROVE  Queued'
  <2>1. OrderOf(d) \in Orders
    BY <1>4 DEF FinalizePaid, Linked, OrderOf, Deliveries
  <2>2. \A i \in Items(OrderOf(d)) : qr'[i[1]] /\ i \in Items(i[1])'
    BY <1>4, <2>1 DEF FinalizePaid, Items, TypeOK
  <2>3. \A e \in Deliveries : todo'[e] = IF e = d THEN Items(OrderOf(d)) ELSE todo[e]
    BY <1>4 DEF FinalizePaid, TypeOK
  <2>4. pdfJobs' = pdfJobs
    BY <1>4 DEF FinalizePaid
  <2> QED
    BY <1>1, <2>2, <2>3, <2>4 DEF Queued, TypeOK, JobItems
<1>5. ASSUME NEW d \in Deliveries, Enqueue(d)
      PROVE  Queued'
  <2>1. PICK item \in todo[d] :
          /\ pdfJobs' = pdfJobs \cup {item}
          /\ todo' = [todo EXCEPT ![d] = @ \ {item}]
    BY <1>5 DEF Enqueue
  <2> QED
    BY <1>1, <2>1 DEF Queued, TypeOK, JobItems
<1> QED
  BY <1>2, <1>3, <1>4, <1>5

-----------------------------------------------------------------------------
(* Types, and the bounds on attempts.                                       *)

\* A job that is not over has an attempt left and was given back once at most.
JobOf(i) ==
    /\ job[i].step \notin {"failed", "done"} => job[i].tries < Attempts /\ job[i].stalls < 2
    /\ job[i].step # "idle" => i \in pdfJobs

Working == DeliveryTypeOK /\ \A i \in JobItems : JobOf(i)

\* One step of one job leaves the other jobs as they are.
LEMMA StepWorking ==
    ASSUME Working, NEW i \in JobItems, Generate(i) \/ Throws(i)
    PROVE  Working'
<1> USE DeliveryBounds DEF JobSteps, Active, DeliveryTypeOK, Working
<1>1. i \in pdfJobs /\ pdfJobs' = pdfJobs
  BY DEF Generate, Take, Reuse, Launch, Launched, Rendered, RenderFails, Throws,
     StoreUrl, Look, Tell, JobOf, vars, handlerVars
<1>2. JobOf(i) /\ job[i].tries \in 0 .. Attempts /\ job[i].stalls \in 0 .. 2
  OBVIOUS
<1>3. CASE Take(i)
  BY <1>1, <1>3 DEF Take, Step, JobOf
<1>4. CASE Reuse(i) \/ Launch(i)
  BY <1>1, <1>4 DEF Reuse, Launch, Step, JobOf
<1>5. CASE Launched(i)
  <2>1. PICK b \in Browsers : /\ job' = [job EXCEPT ![i].step = "render", ![i].on = b]
                              /\ alive' = alive \cup {b} /\ browser' = b
    BY <1>5 DEF Launched, Unused
  <2>2. job' \in [JobItems -> [step : JobSteps, tries : 0 .. Attempts,
                               stalls : 0 .. 2, on : Browsers \cup {Null}]]
    BY <2>1
  <2>3. \A j \in JobItems : JobOf(j)'
    BY <1>1, <1>2, <1>5, <2>1 DEF Launched, JobOf
  <2> QED
    BY <1>1, <1>5, <2>1, <2>2, <2>3 DEF Launched
<1>6. CASE Rendered(i)
  BY <1>1, <1>6 DEF Rendered, JobOf
<1>7. CASE RenderFails(i) \/ Throws(i)
  <2>1. job' = [job EXCEPT ![i].tries = @ + 1, ![i].on = Null,
                           ![i].step = IF job[i].tries + 1 < Attempts
                                       THEN "idle" ELSE "failed"]
    BY <1>7 DEF RenderFails, Throws, Again
  <2>2. job[i].step \in {"render", "launch", "store", "look"}
    BY <1>7 DEF RenderFails, Throws
  <2>3. /\ job' \in [JobItems -> [step : JobSteps, tries : 0 .. Attempts,
                                  stalls : 0 .. 2, on : Browsers \cup {Null}]]
        /\ \A j \in JobItems : JobOf(j)'
    BY <1>1, <1>2, <2>1, <2>2 DEF JobOf
  <2> QED
    BY <1>1, <1>7, <2>3 DEF RenderFails, Throws
<1>8. CASE StoreUrl(i) \/ Look(i)
  BY <1>1, <1>8 DEF StoreUrl, Look, Step, JobOf
<1>9. CASE Tell(i)
  <2>1. i[1] \in Orders
    BY DEF JobItems
  <2> QED
    BY <1>1, <1>9, <2>1 DEF Tell, Step, JobOf
<1> QED
  BY <1>3, <1>4, <1>5, <1>6, <1>7, <1>8, <1>9 DEF Generate

\* The processes live and die.
LEMMA StepProcesses ==
    ASSUME Working, CloseIdle \/ (\E b \in Browsers : BrowserDies(b)) \/ WorkerDies
    PROVE  Working'
<1> USE DEF Working, DeliveryTypeOK
<1>1. pdfJobs' = pdfJobs
  BY DEF CloseIdle, BrowserDies, WorkerDies, vars, handlerVars
<1>2. CASE CloseIdle \/ \E b \in Browsers : BrowserDies(b)
  BY <1>1, <1>2 DEF CloseIdle, BrowserDies, JobOf
<1>3. CASE WorkerDies
  <2>1. ASSUME NEW i \in JobItems
        PROVE  /\ job'[i] \in [step : JobSteps, tries : 0 .. Attempts, stalls : 0 .. 2,
                               on : Browsers \cup {Null}]
               /\ JobOf(i)'
    <3>1. JobOf(i) /\ job[i].stalls \in 0 .. 2
      OBVIOUS
    <3>2. CASE i \in Running
      <4>1. job'[i] = [job[i] EXCEPT !.step = IF job[i].stalls = 0 THEN "idle" ELSE "failed",
                                     !.stalls = @ + 1, !.on = Null]
        BY <1>3, <3>2 DEF WorkerDies
      <4>2. job[i].step \in Active
        BY <3>2 DEF Running
      <4>3. job[i].stalls \in {0, 1} /\ i \in pdfJobs /\ job[i].tries < Attempts
        BY <3>1, <4>2 DEF JobOf, Active
      <4>4. /\ job'[i].step \in {"idle", "failed"} /\ job'[i].tries = job[i].tries
            /\ job'[i].stalls = job[i].stalls + 1 /\ job'[i].on = Null
            /\ job'[i].step = "idle" <=> job[i].stalls = 0
        BY <4>1
      <4>5. job'[i] = [step |-> job'[i].step, tries |-> job'[i].tries,
                       stalls |-> job'[i].stalls, on |-> job'[i].on]
        BY <4>1
      <4>6. job'[i] \in [step : JobSteps, tries : 0 .. Attempts, stalls : 0 .. 2,
                         on : Browsers \cup {Null}]
        BY <4>3, <4>4, <4>5 DEF JobSteps
      <4> QED
        BY <1>1, <4>3, <4>4, <4>6 DEF JobOf
    <3>3. CASE i \notin Running
      BY <1>1, <1>3, <3>1, <3>3 DEF WorkerDies, JobOf
    <3> QED
      BY <3>2, <3>3
  <2>2. job' = [i \in JobItems |-> job'[i]]
    BY <1>3 DEF WorkerDies
  <2> QED
    BY <1>1, <1>3, <2>1, <2>2 DEF WorkerDies
<1> QED
  BY <1>2, <1>3

\* The queue stands still: what it works for has grown.
LEMMA StepOrders ==
    ASSUME Working, [Next]_vars, UNCHANGED deliveryVars
    PROVE  Working'
<1>1. pdfJobs \subseteq pdfJobs'
  BY DEF Next, InitPayment, Provider, Handle, Reserve, ReturnWidget, CreateSession,
     StoreRef, AbortFailedInit, LoseInit, OpenAttempt, Pay, PayShort, Refuse,
     Progress, Settle, ReceiveUnknown, Receive, Gate, Late, Verify, FinalizePaid,
     Enqueue, FinalizeFailed, Drop, Age, CronRead, CronExpire, CronFail, vars,
     handlerVars
<1> QED
  BY <1>1 DEF Working, JobOf, DeliveryTypeOK, deliveryVars

-----------------------------------------------------------------------------
(* The notification.                                                        *)

\* A job past the upload has stored its URL, and the last one of an order tells.
Announced ==
    /\ \A i \in JobItems : job[i].step \in {"look", "tell", "done"} => i \in url
    /\ ReadyOrdersAreTold

LEMMA StepAnnounced ==
    ASSUME Working, Queued, Announced, NEW i \in JobItems, Generate(i) \/ Throws(i)
    PROVE  Announced'
<1>1. /\ i \in pdfJobs /\ qr[i[1]] /\ i[1] \in Orders
      /\ \A o \in Orders : Items(o)' = Items(o)
      /\ told \in [Orders -> Nat]
  BY DEF Generate, Take, Reuse, Launch, Launched, Rendered, RenderFails, Throws,
     StoreUrl, Look, Tell, Working, JobOf, Queued, vars, orderVars, Items,
     JobItems, DeliveryTypeOK
<1>2. /\ \A j \in JobItems \ {i} : job'[j] = job[j]
      /\ job \in [JobItems -> [step : JobSteps, tries : 0 .. Attempts, stalls : 0 .. 2,
                               on : Browsers \cup {Null}]]
  BY DEF Generate, Take, Reuse, Launch, Launched, Rendered, RenderFails, Throws, Again,
     StoreUrl, Look, Tell, Step, Working, DeliveryTypeOK
<1>3. url \subseteq url' /\ \A o \in Orders : told[o] > 0 => told'[o] > 0
  <2>1. CASE Tell(i)
    BY <1>1, <2>1 DEF Tell
  <2>2. CASE ~ Tell(i)
    BY <2>2 DEF Generate, Take, Reuse, Launch, Launched, Rendered, RenderFails, Throws,
       StoreUrl, Look
  <2> QED
    BY <2>1, <2>2
<1>4. CASE job'[i].step \notin {"look", "tell", "done"}
  BY <1>1, <1>2, <1>3, <1>4 DEF Announced, ReadyOrdersAreTold, Items, JobItems
<1>5. CASE StoreUrl(i)
  <2>1. job'[i].step = "look" /\ i \in url'
    BY <1>2, <1>5 DEF StoreUrl, Step
  <2>2. \A j \in JobItems : job'[j].step \in {"look", "tell", "done"} => j \in url'
    BY <1>2, <1>3, <2>1 DEF Announced
  <2>3. ReadyOrdersAreTold'
    BY <1>1, <1>2, <1>3, <2>1 DEF Announced, ReadyOrdersAreTold, Items, JobItems
  <2> QED
    BY <2>2, <2>3 DEF Announced
<1>6. CASE Look(i)
  <2>1. i \in url /\ url' = url /\ i \in Items(i[1])
    BY <1>1, <1>6 DEF Look, Announced, Queued
  <2>2. CASE Items(i[1]) \subseteq url
    BY <1>1, <1>2, <1>3, <1>6, <2>1, <2>2 DEF Look, Ready, Step, Announced,
       ReadyOrdersAreTold, Items, JobItems
  <2>3. CASE ~ (Items(i[1]) \subseteq url)
    <3>1. PICK j \in Items(i[1]) : j \notin url /\ j # i /\ j \in JobItems
      BY <2>1, <2>3, <1>1 DEF Items, JobItems
    <3>2. job'[j].step # "done"
      BY <1>2, <3>1 DEF Announced
    <3> QED
      BY <1>1, <1>2, <1>3, <2>1, <3>1, <3>2 DEF Announced, ReadyOrdersAreTold, Items,
         JobItems
  <2> QED
    BY <2>2, <2>3
<1>7. CASE Tell(i)
  <2>1. told'[i[1]] > 0 /\ i \in url
    BY <1>1, <1>7 DEF Tell, Announced
  <2> QED
    BY <1>1, <1>2, <1>3, <2>1 DEF Announced, ReadyOrdersAreTold, Items, JobItems
<1>8. \/ job'[i].step \notin {"look", "tell", "done"}
      \/ StoreUrl(i) \/ Look(i) \/ Tell(i)
  <2>1. CASE RenderFails(i) \/ Throws(i)
    <3>1. job'[i].step = IF job[i].tries + 1 < Attempts THEN "idle" ELSE "failed"
      BY <1>2, <2>1 DEF RenderFails, Throws, Again
    <3> QED
      BY <3>1
  <2>2. CASE Launched(i)
    <3>1. job'[i].step = "render"
      BY <1>2, <2>2 DEF Launched
    <3> QED
      BY <3>1
  <2>3. CASE Take(i) \/ Reuse(i) \/ Launch(i) \/ Rendered(i)
    BY <1>1, <1>2, <2>3 DEF Take, Reuse, Launch, Rendered, Step
  <2> QED
    BY <2>1, <2>2, <2>3 DEF Generate
<1> QED
  BY <1>4, <1>5, <1>6, <1>7, <1>8

LEMMA StepAnnouncedElse ==
    ASSUME Working, Queued, Announced, TypeOK, TicketIsClosed, [Next]_vars,
           \/ UNCHANGED deliveryVars
           \/ /\ CloseIdle \/ (\E b \in Browsers : BrowserDies(b)) \/ WorkerDies
              /\ UNCHANGED vars
    PROVE  Announced'
<1>1. /\ url' = url /\ told' = told
      /\ \A i \in JobItems : job'[i].step \in {"look", "tell", "done"} =>
            job[i].step = job'[i].step
  <2>1. CASE WorkerDies
    <3>1. url' = url /\ told' = told
      BY <2>1 DEF WorkerDies
    <3>2. ASSUME NEW i \in Running, i \in JobItems
          PROVE  job'[i].step = IF job[i].stalls = 0 THEN "idle" ELSE "failed"
      BY <2>1, <3>2 DEF WorkerDies, Working, DeliveryTypeOK
    <3>3. ASSUME NEW i \in JobItems \ Running
          PROVE  job'[i] = job[i]
      BY <2>1 DEF WorkerDies
    <3> QED
      BY <3>1, <3>2, <3>3
  <2>2. CASE ~ WorkerDies
    BY <2>2 DEF deliveryVars, CloseIdle, BrowserDies
  <2> QED
    BY <2>1, <2>2
<1>2. ASSUME NEW o \in Orders, Items(o)' # {}, \A i \in Items(o)' : job'[i].step = "done"
      PROVE  told'[o] > 0
  <2>1. \A i \in Items(o)' : i \in JobItems /\ i[1] = o
    BY DEF Items, JobItems
  <2>2. \A i \in Items(o)' : job[i].step = "done" /\ i \in pdfJobs
    BY <1>1, <1>2, <2>1 DEF Working, JobOf
  <2>3. qr[o]
    BY <1>2, <2>1, <2>2 DEF Queued
  <2>4. Items(o)' = Items(o)
    BY <2>3, TicketsStay
  <2> QED
    BY <1>1, <1>2, <2>2, <2>4 DEF Announced, ReadyOrdersAreTold
<1> QED
  BY <1>1, <1>2 DEF Announced, ReadyOrdersAreTold

-----------------------------------------------------------------------------
\* Everything the queue and the orders it works for keep.
DeliveryInv == SafetyInv /\ TicketIsClosed /\ Queued /\ Working /\ Announced

LEMMA InitDelivery == DeliveryInit => DeliveryInv
<1> SUFFICES ASSUME DeliveryInit PROVE DeliveryInv
  OBVIOUS
<1>1. SafetyInv
  BY InitTypes, InitLinked, InitPlaced, InitBacked, InitGate, InitTested DEF SafetyInv, DeliveryInit
<1>2. TicketIsClosed /\ Queued
  BY DEF DeliveryInit, Init, TicketIsClosed, Queued
<1>3. Working
  <2>1. \A i \in JobItems : job[i] = [step |-> "idle", tries |-> 0, stalls |-> 0, on |-> Null]
    BY DEF DeliveryInit
  <2>2. job \in [JobItems -> [step : JobSteps, tries : 0 .. Attempts, stalls : 0 .. 2,
                             on : Browsers \cup {Null}]]
    BY DeliveryBounds DEF DeliveryInit, JobSteps
  <2>3. DeliveryTypeOK
    BY <2>2 DEF DeliveryInit, DeliveryTypeOK
  <2> QED
    BY <2>1, <2>3, DeliveryBounds DEF Working, JobOf
<1>4. \A o \in Orders : Items(o) = {}
  BY Constants DEF DeliveryInit, Init, Items
<1>5. Announced
  BY <1>4 DEF DeliveryInit, Announced, ReadyOrdersAreTold
<1> QED
  BY <1>1, <1>2, <1>3, <1>5 DEF DeliveryInv

LEMMA StepDelivery == DeliveryInv /\ [DeliveryNext]_allVars => DeliveryInv'
<1> SUFFICES ASSUME DeliveryInv, [DeliveryNext]_allVars PROVE DeliveryInv'
  OBVIOUS
<1>1. [Next]_vars /\ TypeOK
  BY OrdersMove DEF DeliveryInv, SafetyInv
<1>2. SafetyInv' /\ TicketIsClosed' /\ Queued'
  BY <1>1, StepTypes, StepLinked, StepPlaced, StepBacked, StepGate, StepTested,
     StepTicketIsClosed, StepQueued DEF DeliveryInv, SafetyInv
<1>3. CASE UNCHANGED deliveryVars
  BY <1>1, <1>2, <1>3, StepOrders, StepAnnouncedElse DEF DeliveryInv
<1>4. ASSUME NEW i \in JobItems, Generate(i) \/ Throws(i)
      PROVE  Working' /\ Announced'
  BY <1>4, StepWorking, StepAnnounced DEF DeliveryInv
<1>5. CASE CloseIdle \/ (\E b \in Browsers : BrowserDies(b)) \/ WorkerDies
  <2>1. UNCHANGED vars
    BY <1>5 DEF CloseIdle, BrowserDies, WorkerDies
  <2> QED
    BY <1>1, <1>2, <1>5, <2>1, StepProcesses, StepAnnouncedElse DEF DeliveryInv
<1> QED
  BY <1>2, <1>3, <1>4, <1>5 DEF DeliveryNext, DeliveryInv, allVars

THEOREM DeliveryInvariant == DeliverySpec => []DeliveryInv
  BY InitDelivery, StepDelivery, PTL DEF DeliverySpec

\* The queue keeps its types: no job is tried more often than allowed, given back
\* more than once, or finished without having been enqueued.
THEOREM DeliveryIsTyped == DeliverySpec => []DeliveryTypeOK
<1>1. DeliveryInv => DeliveryTypeOK
  BY DEF DeliveryInv, Working
<1> QED
  BY <1>1, DeliveryInvariant, PTL

\* An order whose jobs are all done was announced, whatever fails and overlaps:
\* the jobs of one order need not agree on which of them is the last.
THEOREM ReadyAreTold == DeliverySpec => []ReadyOrdersAreTold
<1>1. DeliveryInv => ReadyOrdersAreTold
  BY DEF DeliveryInv, Announced
<1> QED
  BY <1>1, DeliveryInvariant, PTL
=============================================================================
