--------------------------- MODULE OrderPayments ---------------------------
(***************************************************************************)
(* The life of an order: the stock reserved when a payment is initiated,   *)
(* the provider's notifications that confirm or refuse it, and the cron    *)
(* that returns the seats of abandoned orders.                             *)
(*                                                                         *)
(* Every action is one database transaction, or one stretch of a handler   *)
(* between two awaits.  A notification is handled by a delivery; the       *)
(* provider delivers one notification up to MaxCopies times, and any two   *)
(* deliveries may be in progress at once, as they are in the Node process  *)
(* that serves them.                                                       *)
(***************************************************************************)
EXTENDS EventSeats

CONSTANTS
    Refs,         \* transaction references the providers hand out
    Null,         \* a column holding NULL
    Providers,    \* providers the event may have configured
    Chatty,       \* those that also notify a transaction still open
    MaxCopies,    \* bound: deliveries of one notification
    Faults        \* what may fail, a subset of FaultKinds

ASSUME NullIsNoRow == Null \notin Refs \cup Orders \cup Providers
ASSUME ProvidersAreKnown ==
    Providers \subseteq {"KKIAPAY", "CINETPAY", "FEDAPAY", "STRIPE", "PAYPAL"}
ASSUME CopiesAreCounted == MaxCopies \in Nat

\* The provider's init call or the write that follows it; the process, or any
\* statement of a webhook; the provider's verification; an expiry transaction.
FaultKinds == {"init", "crash", "verification", "expiry"}
ASSUME FaultsAreKnown == Faults \subseteq FaultKinds

Statuses   == {"none", "PENDING", "PAID", "FAILED", "EXPIRED"}
InitSteps  == {"none", "calling", "created", "returned", "aborted", "lost"}
TxStates   == {"unused", "open", "approved", "captured", "short", "refused"}
Kinds      == {"success", "failure", "progress"}
Deliveries == [ref : Refs, kind : Kinds, copy : 1 .. MaxCopies]
PastGate   == {"late", "verify", "pay", "fail", "enqueue"}
InProgress == PastGate \cup {"read"}
Over       == {"done", "refused", "dropped", "lost"}
Steps      == InProgress \cup Over \cup {"idle"}

VARIABLES
    status,         \* orders.status, "none" while the row does not exist
    provider,       \* orders.paymentProvider
    cart,           \* the order's items, as a quantity per ticket
    paymentRef,     \* orders.paymentRef
    qr,             \* do the order's items carry their signed QR code?
    aged,           \* is the order older than MINUTES_AVANT_EXPIRATION?
    initStep,       \* progress of the initPayment call that made the order
    stockSold,      \* tickets.stockSold
    webhookEvents,  \* table webhook_events, unique on (provider, transactionId)
    step,           \* progress of each delivery
    seen,           \* the status in the order object the delivery has read
    todo,           \* items whose PDF job the delivery has still to enqueue
    pdfJobs,        \* items whose PDF generation was enqueued
    orphanAudit,    \* orders with a 'payment.webhook.orphan' audit entry
    cronList,       \* orders an expiry pass has read and not yet treated
    txState,        \* the provider's state of each transaction
    txOrder,        \* the order each transaction pays for
    sent            \* the notifications the provider has emitted

orderVars    == <<status, provider, cart, paymentRef, qr, aged, initStep>>
handlerVars  == <<webhookEvents, step, seen, todo, pdfJobs, orphanAudit>>
providerVars == <<txState, txOrder, sent>>
vars == <<orderVars, stockSold, handlerVars, cronList, providerVars>>

-----------------------------------------------------------------------------
(* Derived views of the state. *)

\* One element per item of the order.  (Mutant: a line makes one item too many.)
ItemsOneMore(o) ==
    {x \in {o} \X Tickets \X (1 .. MaxQuantity + 1) :
        cart[o][x[2]] > 0 /\ x[3] <= cart[o][x[2]] + 1}

Items(o) ==
    {x \in {o} \X Tickets \X (1 .. MaxQuantity) : x[3] <= cart[o][x[2]]}

With(st) == {o \in Orders : status[o] \in st}

OrderOf(d) == txOrder[d.ref]

InitOver(o) == initStep[o] \in {"returned", "aborted", "lost"}

\* releaseStockAtomic for every item: the decrement has no guard.
Release(o) == stockSold' = [t \in Tickets |-> stockSold[t] - cart[o][t]]

\* A call that is over leaves its order object.
Advance(d, next) ==
    /\ step' = [step EXCEPT ![d] = next]
    /\ seen' = IF next \in Over THEN [seen EXCEPT ![d] = Null] ELSE seen

Init ==
    /\ status = [o \in Orders |-> "none"]
    /\ provider = [o \in Orders |-> Null]
    /\ cart = [o \in Orders |-> [t \in Tickets |-> 0]]
    /\ paymentRef = [o \in Orders |-> Null]
    /\ qr = [o \in Orders |-> FALSE]
    /\ aged = [o \in Orders |-> FALSE]
    /\ initStep = [o \in Orders |-> "none"]
    /\ stockSold = [t \in Tickets |-> 0]
    /\ webhookEvents = {}
    /\ step = [d \in Deliveries |-> "idle"]
    /\ seen = [d \in Deliveries |-> Null]
    /\ todo = [d \in Deliveries |-> {}]
    /\ pdfJobs = {}
    /\ orphanAudit = {}
    /\ cronList = {}
    /\ txState = [r \in Refs |-> "unused"]
    /\ txOrder = [r \in Refs |-> Null]
    /\ sent = {}

-----------------------------------------------------------------------------
(* initPayment: one transaction reserves the stock and creates the order,  *)
(* then the provider is called outside of any transaction.                 *)

\* The conditional increment of decrementStockAtomic.  (Mutant: off by one.)
FitsOneTooMany(c) == \A t \in Tickets : c[t] > 0 => stockSold[t] <= Stock[t]

Fits(c) == \A t \in Tickets : c[t] > 0 => stockSold[t] <= Stock[t] - c[t]

Reserve(o, p, c) ==
    /\ status[o] = "none"
    /\ \E t \in Tickets : c[t] > 0
    /\ Fits(c)
    /\ stockSold' = [t \in Tickets |-> stockSold[t] + c[t]]
    /\ status' = [status EXCEPT ![o] = "PENDING"]
    /\ provider' = [provider EXCEPT ![o] = p]
    /\ cart' = [cart EXCEPT ![o] = c]
    /\ initStep' = [initStep EXCEPT ![o] = "calling"]
    /\ UNCHANGED <<paymentRef, qr, aged, handlerVars, cronList, providerVars>>

\* KkiaPay has no server call: the widget's parameters are returned.
ReturnWidget(o) ==
    /\ initStep[o] = "calling"
    /\ provider[o] = "KKIAPAY"
    /\ initStep' = [initStep EXCEPT ![o] = "returned"]
    /\ UNCHANGED <<status, provider, cart, paymentRef, qr, aged,
                   stockSold, handlerVars, cronList, providerVars>>

\* The hosted providers create their transaction or session at that point.
CreateSession(o, r) ==
    /\ initStep[o] = "calling"
    /\ provider[o] # "KKIAPAY"
    /\ txState[r] = "unused"
    /\ txState' = [txState EXCEPT ![r] = "open"]
    /\ txOrder' = [txOrder EXCEPT ![r] = o]
    /\ initStep' = [initStep EXCEPT ![o] = "created"]
    /\ UNCHANGED <<status, provider, cart, paymentRef, qr, aged,
                   stockSold, handlerVars, cronList, sent>>

\* FedaPay, Stripe and PayPal choose the reference, so it is stored before the
\* checkout address is returned; CinetPay's reference is the order's id.
StoreRef(o) ==
    /\ initStep[o] = "created"
    /\ \E r \in Refs :
         /\ txOrder[r] = o
         /\ paymentRef' = IF provider[o] = "CINETPAY"
                          THEN paymentRef
                          ELSE [paymentRef EXCEPT ![o] = r]
    /\ initStep' = [initStep EXCEPT ![o] = "returned"]
    /\ UNCHANGED <<status, provider, cart, qr, aged,
                   stockSold, handlerVars, cronList, providerVars>>

\* Mutant: the aborted order keeps its seats.
AbortKeepsSeats(o) ==
    /\ "init" \in Faults
    /\ initStep[o] \in {"calling", "created"}
    /\ provider[o] # "KKIAPAY"
    /\ status' = [status EXCEPT ![o] = "FAILED"]
    /\ initStep' = [initStep EXCEPT ![o] = "aborted"]
    /\ UNCHANGED <<stockSold, provider, cart, paymentRef, qr, aged,
                   handlerVars, cronList, providerVars>>

\* abortFailedInit: the provider call or the write of the reference failed.
AbortFailedInit(o) ==
    /\ "init" \in Faults
    /\ initStep[o] \in {"calling", "created"}
    /\ provider[o] # "KKIAPAY"
    /\ status' = [status EXCEPT ![o] = "FAILED"]
    /\ Release(o)
    /\ initStep' = [initStep EXCEPT ![o] = "aborted"]
    /\ UNCHANGED <<provider, cart, paymentRef, qr, aged,
                   handlerVars, cronList, providerVars>>

\* The process dies, or KkiaPay has no public key: the order stays PENDING.
LoseInit(o) ==
    /\ "crash" \in Faults
    /\ initStep[o] \in {"calling", "created"}
    /\ initStep' = [initStep EXCEPT ![o] = "lost"]
    /\ UNCHANGED <<status, provider, cart, paymentRef, qr, aged,
                   stockSold, handlerVars, cronList, providerVars>>

-----------------------------------------------------------------------------
(* The provider (external): a buyer holding the checkout address pays, pays *)
(* the wrong amount, gives up; every outcome is notified.                   *)

Notify(r, kind) == sent' = sent \cup {<<r, kind>>}

\* The widget may be opened again for the same order after a refusal.
OpenAttempt(o, r) ==
    /\ initStep[o] = "returned"
    /\ provider[o] = "KKIAPAY"
    /\ txState[r] = "unused"
    /\ txState' = [txState EXCEPT ![r] = "open"]
    /\ txOrder' = [txOrder EXCEPT ![r] = o]
    /\ UNCHANGED <<orderVars, stockSold, handlerVars, cronList, sent>>

Settle(r, outcome, kind) ==
    /\ txState[r] = "open"
    /\ txState' = [txState EXCEPT ![r] = outcome]
    /\ Notify(r, kind)
    /\ UNCHANGED <<orderVars, stockSold, handlerVars, cronList, txOrder>>

\* PayPal notifies the buyer's approval, which takes no money yet.
Pay(r) ==
    /\ txState[r] = "open" /\ initStep[txOrder[r]] = "returned"
    /\ Settle(r, IF provider[txOrder[r]] = "PAYPAL" THEN "approved"
                                                    ELSE "captured", "success")

\* The amount of a KkiaPay payment is given to the widget by the browser.
PayShort(r) ==
    /\ txState[r] = "open" /\ provider[txOrder[r]] = "KKIAPAY"
    /\ Settle(r, "short", "success")

Refuse(r) == Settle(r, "refused", "failure")

Progress(r) ==
    /\ txState[r] = "open" /\ provider[txOrder[r]] \in Chatty
    /\ <<r, "progress">> \notin sent
    /\ Notify(r, "progress")
    /\ UNCHANGED <<orderVars, stockSold, handlerVars, cronList, txState, txOrder>>

-----------------------------------------------------------------------------
(* The webhook handlers.  The five handlers share their control; they      *)
(* differ in how the order is found, in what confirms the payment and in   *)
(* what a late notification is taken to announce.                          *)

Reverifying == {"KKIAPAY", "CINETPAY", "FEDAPAY"}

\* FedaPay finds the order by the stored paymentRef, the others by its id.
Found(d) == provider[OrderOf(d)] = "FEDAPAY" => paymentRef[OrderOf(d)] = d.ref

Delivered(d) ==
    /\ step[d] = "idle" /\ <<d.ref, d.kind>> \in sent
    /\ d.copy > 1 => step[[d EXCEPT !.copy = @ - 1]] # "idle"

\* No order under this reference: the notification is audited and acknowledged.
ReceiveUnknown(d) ==
    /\ Delivered(d)
    /\ ~Found(d)
    /\ Advance(d, "done")
    /\ UNCHANGED <<orderVars, stockSold, webhookEvents, todo, pdfJobs,
                   orphanAudit, cronList, providerVars>>

\* The order is read once; its status is not read again.
Receive(d) ==
    /\ Delivered(d)
    /\ Found(d)
    /\ step' = [step EXCEPT ![d] = "read"]
    /\ seen' = [seen EXCEPT ![d] = status[OrderOf(d)]]
    /\ UNCHANGED <<orderVars, stockSold, webhookEvents, todo, pdfJobs,
                   orphanAudit, cronList, providerVars>>

\* recordOrSkip: the unique insert lets one delivery per reference through.
\* The status tested next is the one read before the insert; a payment
\* confirmed again is only logged.
\* (AfterGateUnchecked: mutant, the status is not tested.)
AfterGateUnchecked(d) == "verify"

\* (AfterGatePaidAsPending: mutant, only closed unpaid orders are turned away.)
AfterGatePaidAsPending(d) ==
    IF seen[d] \in {"PENDING", "PAID"} THEN "verify" ELSE "late"

AfterGate(d) ==
    CASE seen[d] = "PENDING" -> "verify"
      [] seen[d] = "PAID"    -> "done"
      [] OTHER               -> "late"

\* Mutant: every delivery is let through.
GateAlwaysOpen(d) ==
    /\ step[d] = "read"
    /\ webhookEvents' = webhookEvents \cup {d.ref}
    /\ Advance(d, AfterGate(d))
    /\ UNCHANGED <<orderVars, stockSold, todo, pdfJobs, orphanAudit,
                   cronList, providerVars>>

Gate(d) ==
    /\ step[d] = "read"
    /\ IF d.ref \in webhookEvents
       THEN Advance(d, "done") /\ UNCHANGED webhookEvents
       ELSE /\ webhookEvents' = webhookEvents \cup {d.ref}
            /\ Advance(d, AfterGate(d))
    /\ UNCHANGED <<orderVars, stockSold, todo, pdfJobs, orphanAudit,
                   cronList, providerVars>>

\* signalerWebhookTardif.  Only KkiaPay's handler passes the announced outcome;
\* the four others pass TRUE.
\* (Mutant: KkiaPay's handler passes TRUE too.)
AnnouncesAlways(d) == TRUE

AnnouncesPayment(d) == provider[OrderOf(d)] = "KKIAPAY" => d.kind = "success"

\* Mutant: the former no-op on a late notification.
LateSilent(d) ==
    /\ step[d] = "late"
    /\ Advance(d, "done")
    /\ UNCHANGED <<orderVars, stockSold, webhookEvents, todo, pdfJobs,
                   orphanAudit, cronList, providerVars>>

Late(d) ==
    /\ step[d] = "late"
    /\ orphanAudit' = IF AnnouncesPayment(d)
                      THEN orphanAudit \cup {OrderOf(d)}
                      ELSE orphanAudit
    /\ Advance(d, "done")
    /\ UNCHANGED <<orderVars, stockSold, webhookEvents, todo, pdfJobs,
                   cronList, providerVars>>

\* What makes a notification a confirmed payment: the event's own outcome
\* (CinetPay's has none) and, where the provider is asked again, its answer.
Settled(r) ==
    txState[r] = IF provider[txOrder[r]] = "PAYPAL" THEN "approved" ELSE "captured"

\* (Mutant: the event is believed, its amount is not compared.)
ConfirmedByEvent(d) == provider[OrderOf(d)] # "CINETPAY" => d.kind = "success"

Confirmed(d) ==
    /\ Settled(d.ref)
    /\ provider[OrderOf(d)] # "CINETPAY" => d.kind = "success"

\* An exception of the server verification leaves it NULL: not succeeded.
Verify(d) ==
    /\ step[d] = "verify"
    /\ \/ Advance(d, IF Confirmed(d) THEN "pay" ELSE "fail")
       \/ /\ "verification" \in Faults /\ provider[OrderOf(d)] \in Reverifying
          /\ Advance(d, "fail")
    /\ UNCHANGED <<orderVars, stockSold, webhookEvents, todo, pdfJobs,
                   orphanAudit, cronList, providerVars>>

\* finalizeOrderPaid: the update of the order has no condition on its status.
FinalizePaid(d) ==
    LET o == OrderOf(d) IN
    /\ step[d] = "pay"
    /\ status' = [status EXCEPT ![o] = "PAID"]
    /\ paymentRef' = [paymentRef EXCEPT ![o] = d.ref]
    /\ qr' = [qr EXCEPT ![o] = TRUE]
    /\ todo' = [todo EXCEPT ![d] = Items(o)]
    /\ Advance(d, "enqueue")
    /\ UNCHANGED <<provider, cart, aged, initStep, stockSold, webhookEvents,
                   pdfJobs, orphanAudit, cronList, providerVars>>

Enqueue(d) ==
    /\ step[d] = "enqueue"
    /\ \E item \in todo[d] :
         /\ pdfJobs' = pdfJobs \cup {item}
         /\ todo' = [todo EXCEPT ![d] = @ \ {item}]
         /\ Advance(d, IF todo[d] = {item} THEN "done" ELSE "enqueue")
    /\ UNCHANGED <<orderVars, stockSold, webhookEvents, orphanAudit,
                   cronList, providerVars>>

\* Mutant: the refused order keeps its seats.
FinalizeFailedKeepsSeats(d) ==
    /\ step[d] = "fail"
    /\ status' = [status EXCEPT ![OrderOf(d)] = "FAILED"]
    /\ Advance(d, "refused")
    /\ UNCHANGED <<stockSold, provider, cart, paymentRef, qr, aged, initStep,
                   webhookEvents, todo, pdfJobs, orphanAudit, cronList,
                   providerVars>>

\* finalizeOrderFailed: neither update has a condition.  The handler then audits
\* the refusal of this transaction ('payment.webhook.failed').
FinalizeFailed(d) ==
    LET o == OrderOf(d) IN
    /\ step[d] = "fail"
    /\ status' = [status EXCEPT ![o] = "FAILED"]
    /\ Release(o)
    /\ Advance(d, "refused")
    /\ UNCHANGED <<provider, cart, paymentRef, qr, aged, initStep,
                   webhookEvents, todo, pdfJobs, orphanAudit, cronList,
                   providerVars>>

\* The process dies or a statement throws: no answer, so the provider delivers
\* again, until the last of its MaxCopies deliveries gets an answer.  What died
\* past the gate is lost: the next delivery is taken for a duplicate.
Drop(d) ==
    /\ "crash" \in Faults
    /\ d.copy < MaxCopies
    /\ step[d] \in InProgress
    /\ Advance(d, IF step[d] = "read" THEN "dropped" ELSE "lost")
    /\ UNCHANGED <<orderVars, stockSold, webhookEvents, todo, pdfJobs,
                   orphanAudit, cronList, providerVars>>

-----------------------------------------------------------------------------
(* expirerCommandesAbandonnees, every ten minutes.                         *)

\* Thirty minutes pass; the initPayment call ended long before.
Age(o) ==
    /\ status[o] # "none" /\ ~aged[o] /\ InitOver(o)
    /\ aged' = [aged EXCEPT ![o] = TRUE]
    /\ UNCHANGED <<status, provider, cart, paymentRef, qr, initStep,
                   stockSold, handlerVars, cronList, providerVars>>

\* Orders the pass selects.  (Mutant: only those that reached a provider.)
AbandonedWithRef == {o \in With({"PENDING"}) : aged[o] /\ paymentRef[o] # Null}

Abandoned == {o \in With({"PENDING"}) : aged[o]}

CronRead ==
    /\ ~(Abandoned \subseteq cronList)
    /\ cronList' = cronList \cup Abandoned
    /\ UNCHANGED <<orderVars, stockSold, handlerVars, providerVars>>

\* Mutant: the update of the order has no condition.
CronExpireUnguarded(o) ==
    /\ o \in cronList
    /\ status' = [status EXCEPT ![o] = "EXPIRED"]
    /\ Release(o)
    /\ cronList' = cronList \ {o}
    /\ UNCHANGED <<provider, cart, paymentRef, qr, aged, initStep,
                   handlerVars, providerVars>>

\* One transaction per order; the status is tested again by the update.
CronExpire(o) ==
    /\ o \in cronList
    /\ IF status[o] = "PENDING"
       THEN status' = [status EXCEPT ![o] = "EXPIRED"] /\ Release(o)
       ELSE UNCHANGED <<status, stockSold>>
    /\ cronList' = cronList \ {o}
    /\ UNCHANGED <<provider, cart, paymentRef, qr, aged, initStep,
                   handlerVars, providerVars>>

\* The transaction fails and is logged: the pass goes on without this order.
CronFail(o) ==
    /\ "expiry" \in Faults
    /\ o \in cronList
    /\ cronList' = cronList \ {o}
    /\ UNCHANGED <<orderVars, stockSold, handlerVars, providerVars>>

-----------------------------------------------------------------------------
InitPayment(o) ==
    \/ \E p \in Providers, c \in Carts : Reserve(o, p, c)
    \/ \E r \in Refs : CreateSession(o, r)
    \/ ReturnWidget(o)
    \/ StoreRef(o)
    \/ AbortFailedInit(o)
    \/ LoseInit(o)

Provider(r) ==
    \/ \E o \in Orders : OpenAttempt(o, r)
    \/ Pay(r)
    \/ PayShort(r)
    \/ Refuse(r)
    \/ Progress(r)

Handle(d) ==
    \/ ReceiveUnknown(d)
    \/ Receive(d)
    \/ Gate(d)
    \/ Late(d)
    \/ Verify(d)
    \/ FinalizePaid(d)
    \/ Enqueue(d)
    \/ FinalizeFailed(d)

Next ==
    \/ \E o \in Orders : InitPayment(o) \/ Age(o) \/ CronExpire(o) \/ CronFail(o)
    \/ \E r \in Refs : Provider(r)
    \/ \E d \in Deliveries : Handle(d) \/ Drop(d)
    \/ CronRead

Spec == Init /\ [][Next]_vars

\* The runtime finishes the calls it starts, providers deliver what they send,
\* time passes and the cron keeps running; buyers owe nothing.
Fairness ==
    /\ \A o \in Orders : WF_vars(ReturnWidget(o) \/ StoreRef(o) \/ LoseInit(o)
                                 \/ AbortFailedInit(o))
    /\ \A o \in Orders : WF_vars(\E r \in Refs : CreateSession(o, r))
    /\ \A d \in Deliveries : WF_vars(Handle(d))
    /\ \A o \in Orders : WF_vars(Age(o)) /\ SF_vars(CronExpire(o))
    /\ WF_vars(CronRead)

FairSpec == Spec /\ Fairness

\* A handler writes an order by its id although the order has moved since the
\* handler read it, or made it: none of the three updates tests the status.
LateWriteOf(o) ==
    \/ AbortFailedInit(o) /\ status[o] # "PENDING"
    \/ \E d \in Deliveries :
          /\ FinalizePaid(d) \/ FinalizeFailed(d)
          /\ OrderOf(d) = o /\ seen[d] # status[o]

LateWrite == \E o \in Orders : LateWriteOf(o)

\* Every interleaving and every fault, up to the first late write.
TimelySpec == Init /\ [][Next /\ ~LateWrite]_vars
-----------------------------------------------------------------------------
(* Properties. *)

TypeOK ==
    /\ status \in [Orders -> Statuses]
    /\ provider \in [Orders -> Providers \cup {Null}]
    /\ cart \in Quantities
    /\ paymentRef \in [Orders -> Refs \cup {Null}]
    /\ qr \in [Orders -> BOOLEAN]
    /\ aged \in [Orders -> BOOLEAN]
    /\ initStep \in [Orders -> InitSteps]
    /\ stockSold \in [Tickets -> Int]
    /\ webhookEvents \subseteq Refs
    /\ step \in [Deliveries -> Steps]
    /\ seen \in [Deliveries -> Statuses \cup {Null}]
    /\ todo \in [Deliveries -> SUBSET (Orders \X Tickets \X (1 .. MaxQuantity))]
    /\ pdfJobs \subseteq Orders \X Tickets \X (1 .. MaxQuantity)
    /\ orphanAudit \subseteq Orders
    /\ cronList \subseteq Orders
    /\ txState \in [Refs -> TxStates]
    /\ txOrder \in [Refs -> Orders \cup {Null}]
    /\ sent \subseteq Refs \X Kinds

\* The ledger of seats that stockSold and orders.status are meant to keep.
Ledger == INSTANCE SeatLedger WITH state <- status, sold <- stockSold

\* Up to the first late write, the code keeps the ledger: a seat is booked once
\* when it is free, an order is closed once, and it gives its seats back exactly
\* when it is closed unpaid, whichever of the webhooks, the aborted initialisation
\* or the expiry closes it, and however they overlap.
KeepsLedger == Ledger!Spec

\* The counter of every ticket is the number of seats of the orders that hold
\* some, and stays within the capacity (stock.service.ts: a release must
\* correspond to the initial reservation).
StockMatchesOrders == Ledger!Balanced

\* Seats really sold never exceed the capacity, whatever the counter says
\* (stock.service.ts: two transactions cannot exceed the capacity together).
NoSeatSoldTwice ==
    \A t \in Tickets :
        Cardinality(Seats(cart, With({"PAID"}), t)) <= Stock[t]

\* A QR code is valid exactly while its order is paid: no later notification,
\* expiry or aborted initialisation leaves a ticket behind or takes it away.
TicketMatchesStatus == \A o \in Orders : qr[o] <=> status[o] = "PAID"

\* A paid order stays paid: no second attempt, duplicate or expiry undoes it.
PaidIsFinal == [][\A o \in Orders : status[o] = "PAID" => status'[o] = "PAID"]_vars

\* Whatever has happened before, the three unguarded updates are the only steps
\* that leave the ledger, and only when they come late; so it is for the
\* counter, should it match, and for a QR code that matches its order.
OnlyLateWritesHarm ==
    [][\/ LateWrite
       \/ /\ Ledger!Next \/ UNCHANGED Ledger!vars
          /\ StockMatchesOrders => StockMatchesOrders'
          /\ \A o \in Orders : (qr[o] <=> status[o] = "PAID")
                                 => (qr'[o] <=> status'[o] = "PAID")]_vars

\* Idempotence (recordOrSkip): of all deliveries carrying one reference, at most
\* one is past the gate, and its reference is recorded.
OneDeliveryPastGate ==
    \A d \in Deliveries : step[d] \in PastGate =>
        /\ d.ref \in webhookEvents
        /\ \A e \in Deliveries : e.ref = d.ref /\ step[e] \in PastGate => e = d

\* An order is PAID, and its items have a QR code, only for a transaction of
\* that very order which its provider settled for the full amount, and whose
\* reference the order then carries.
TicketIsBacked ==
    \A o \in Orders : qr[o] =>
        LET r == paymentRef[o]
        IN  r \in webhookEvents /\ txOrder[r] = o /\ Settled(r)

\* The expiry cron never takes the seat of somebody who has a ticket, although
\* it works from a list read long before (order-expiry.service.ts, the
\* condition on the status in the update).
ExpiryNeverTakesTicket ==
    [][\A o \in Orders : qr[o] /\ status[o] # "EXPIRED" => status'[o] # "EXPIRED"]_vars

\* An orphan-payment audit entry of KkiaPay, the provider whose handler passes
\* the announced outcome on, names an order somebody paid for
\* (signalerWebhookTardif: a late failure "ne demande rien").
OrphanAuditIsFounded ==
    \A o \in orphanAudit : provider[o] = "KKIAPAY" =>
        \E r \in Refs : txOrder[r] = o /\ txState[r] \in {"approved", "captured", "short"}

\* No reservation lasts for ever: a PENDING order is eventually paid, refused or
\* expired, even if the call that made it died or an expiry pass failed.
PendingIsClosed ==
    \A o \in Orders : status[o] = "PENDING" ~> status[o] # "PENDING"

\* A handler of the transaction took it for refused and audited that, or died past
\* the gate.
TakenForRefused(r) ==
    \E d \in Deliveries : d.ref = r /\ step[d] \in {"refused", "lost"}

\* What becomes of money a provider took: the buyer gets his tickets, or has them
\* already by an earlier transaction; an orphan-payment entry asks for a refund;
\* a handler of that transaction took it for refused (a failed verification, or a
\* notification that came before the payment), or died past the gate.  There is
\* no other end.  Two of them are silent in the code: a second payment of a paid
\* order is logged as a confirmation sent twice (signalerWebhookTardif), and what
\* died past the gate leaves no trace.
MoneyIsAccountedFor ==
    \A r \in Refs, o \in Orders :
        txOrder[r] = o /\ txState[r] = "captured"
            ~> (qr[o] \/ o \in orphanAudit \/ TakenForRefused(r))
=============================================================================
