---------------------------- MODULE TicketDelivery ----------------------------
(***************************************************************************)
(* The queue that turns the items of a paid order into PDF files and tells *)
(* the buyer when all of them are ready: the worker, its retries, and the  *)
(* browser its jobs share.  It takes the jobs that OrderPayments enqueues. *)
(*                                                                         *)
(* A job runs from one await to the next; several run in one Node process. *)
(***************************************************************************)
EXTENDS OrderPayments

CONSTANTS
    Slots,          \* `concurrency` of the processor
    Attempts,       \* attempts of a job
    Browsers,       \* bound: Chromium processes that can be told apart
    WorkerFaults    \* what may fail in the worker, a subset of WorkerFaultKinds

\* Chromium dies; a statement, the rendering or the upload throws; the worker's
\* process dies.
WorkerFaultKinds == {"browser", "throw", "worker"}
ASSUME DeliveryBounds == Slots \in Nat \ {0} /\ Attempts \in Nat \ {0}
ASSUME WorkerFaultsAreKnown == WorkerFaults \subseteq WorkerFaultKinds
ASSUME NullIsNoBrowser == Null \notin Browsers

JobItems == Orders \X Tickets \X (1 .. MaxQuantity)
Active   == {"open", "launch", "render", "store", "look", "tell"}
JobSteps == Active \cup {"idle", "done", "failed"}

VARIABLES
    job,       \* each item's job: its step, failed attempts, stalls and browser
    url,       \* items with a PDF (order_items.qrCodeUrl)
    told,      \* times the buyer of each order was told "billets prêts"
    browser,   \* this.navigateur
    alive,     \* Chromium processes that run
    closing    \* is the timer of inactivity set?

deliveryVars == <<job, url, told, browser, alive, closing>>
allVars == <<vars, deliveryVars>>

DeliveryInit ==
    /\ Init
    /\ job = [i \in JobItems |-> [step |-> "idle", tries |-> 0, stalls |-> 0, on |-> Null]]
    /\ url = {}
    /\ told = [o \in Orders |-> 0]
    /\ browser = Null
    /\ alive = {}
    /\ closing = FALSE

-----------------------------------------------------------------------------
Step(i, next) == job' = [job EXCEPT ![i].step = next]

Running == {i \in JobItems : job[i].step \in Active}

\* The job is taken and reads its item: without a QR code there is nothing to do.
Take(i) ==
    /\ i \in pdfJobs
    /\ job[i].step = "idle"
    /\ Cardinality(Running) < Slots
    /\ Step(i, IF qr[i[1]] THEN "open" ELSE "done")
    /\ UNCHANGED <<vars, url, told, browser, alive, closing>>

\* obtenirNavigateur: a connected browser is shared,
Reuse(i) ==
    /\ job[i].step = "open"
    /\ browser \in alive
    /\ job' = [job EXCEPT ![i].step = "render", ![i].on = browser]
    /\ UNCHANGED <<vars, url, told, browser, alive, closing>>

\* otherwise one is launched, whoever else may be launching one.
Launch(i) ==
    /\ job[i].step = "open"
    /\ browser \notin alive
    /\ Step(i, "launch")
    /\ UNCHANGED <<vars, url, told, browser, alive, closing>>

\* A process that died may be remembered by a job or by this.navigateur.
Unused == Browsers \ (alive \cup {browser} \cup {job[j].on : j \in Running})

Launched(i) ==
    /\ job[i].step = "launch"
    /\ Unused # {}
    /\ LET b == CHOOSE x \in Unused : TRUE IN
         /\ alive' = alive \cup {b}
         /\ browser' = b
         /\ job' = [job EXCEPT ![i].step = "render", ![i].on = b]
    /\ UNCHANGED <<vars, url, told, closing>>

\* renderPdf ends: the page is closed, and the inactivity is counted from here.
Rendered(i) ==
    /\ job[i].step = "render"
    /\ job[i].on \in alive
    /\ job' = [job EXCEPT ![i].step = "store", ![i].on = Null]
    /\ closing' = TRUE
    /\ UNCHANGED <<vars, url, told, browser, alive>>

\* Mutant: the queue has no limit of attempts.
AgainForEver(i) ==
    job' = [job EXCEPT ![i].step = "idle", ![i].tries = @ + 1, ![i].on = Null]

\* Mutant: the error is logged and not thrown again.
AgainSwallowed(i) == job' = [job EXCEPT ![i].step = "done", ![i].on = Null]

\* A failed attempt goes back to the queue, unless it was the last.
Again(i) ==
    job' = [job EXCEPT ![i].tries = @ + 1, ![i].on = Null,
                       ![i].step = IF job[i].tries + 1 < Attempts THEN "idle" ELSE "failed"]

\* The browser is gone, or was closed under the job; `finally` sets the timer if
\* the page was open.
RenderFails(i) ==
    /\ job[i].step = "render"
    /\ job[i].on \notin alive
    /\ Again(i)
    /\ closing' \in {closing, TRUE}
    /\ UNCHANGED <<vars, url, told, browser, alive>>

\* The launch, the upload or a statement throws.  Sending never does.
Throws(i) ==
    /\ "throw" \in WorkerFaults
    /\ job[i].step \in {"launch", "store", "look"}
    /\ Again(i)
    /\ UNCHANGED <<vars, url, told, browser, alive, closing>>

\* Mutant: the order is read before the item is updated.
StoreUrlAfterLook(i) ==
    /\ job[i].step = "store"
    /\ url' = url \cup {i}
    /\ Step(i, IF Items(i[1]) \subseteq url THEN "tell" ELSE "done")
    /\ UNCHANGED <<vars, told, browser, alive, closing>>

\* The upload, then the update of the item.
StoreUrl(i) ==
    /\ job[i].step = "store"
    /\ url' = url \cup {i}
    /\ Step(i, "look")
    /\ UNCHANGED <<vars, told, browser, alive, closing>>

\* maybeSendTicketNotifications: are all PDF files of the order there?
Ready(o) == Items(o) \subseteq url

Look(i) ==
    /\ job[i].step = "look"
    /\ Step(i, IF Ready(i[1]) THEN "tell" ELSE "done")
    /\ UNCHANGED <<vars, url, told, browser, alive, closing>>

Tell(i) ==
    /\ job[i].step = "tell"
    /\ told' = [told EXCEPT ![i[1]] = @ + 1]
    /\ Step(i, "done")
    /\ UNCHANGED <<vars, url, browser, alive, closing>>

\* fermerNavigateur, when the timer fires.  It was set by the last rendering that
\* ended: another one may be under way.
CloseIdle ==
    /\ closing
    /\ closing' = FALSE
    /\ alive' = alive \ {browser}
    /\ browser' = Null
    /\ UNCHANGED <<vars, job, url, told>>

BrowserDies(b) ==
    /\ "browser" \in WorkerFaults
    /\ b \in alive
    /\ alive' = alive \ {b}
    /\ UNCHANGED <<vars, job, url, told, browser, closing>>

\* Bull gives a stalled job back to the queue once, then fails it.
WorkerDies ==
    /\ "worker" \in WorkerFaults
    /\ Running # {}
    /\ job' = [i \in JobItems |->
                 IF i \notin Running THEN job[i]
                 ELSE [job[i] EXCEPT !.step = IF job[i].stalls = 0 THEN "idle" ELSE "failed",
                                     !.stalls = @ + 1, !.on = Null]]
    /\ browser' = Null /\ alive' = {} /\ closing' = FALSE
    /\ UNCHANGED <<vars, url, told>>

-----------------------------------------------------------------------------
Generate(i) ==
    \/ Take(i) \/ Reuse(i) \/ Launch(i) \/ Launched(i) \/ Rendered(i)
    \/ RenderFails(i) \/ StoreUrl(i) \/ Look(i) \/ Tell(i)

DeliveryNext ==
    \/ Next /\ UNCHANGED deliveryVars
    \/ \E i \in JobItems : Generate(i) \/ Throws(i)
    \/ CloseIdle
    \/ \E b \in Browsers : BrowserDies(b)
    \/ WorkerDies

DeliverySpec == DeliveryInit /\ [][DeliveryNext]_allVars

\* The worker takes its jobs and finishes what it started; nothing forces the
\* idle timer to fire between two renderings.
FairDelivery ==
    DeliverySpec /\ Fairness /\ \A i \in JobItems : WF_allVars(Generate(i))

-----------------------------------------------------------------------------
DeliveryTypeOK ==
    /\ job \in [JobItems -> [step : JobSteps, tries : 0 .. Attempts, stalls : 0 .. 2,
                             on : Browsers \cup {Null}]]
    /\ url \subseteq pdfJobs
    /\ told \in [Orders -> Nat]
    /\ browser \in Browsers \cup {Null}
    /\ alive \subseteq Browsers
    /\ closing \in BOOLEAN

\* Whichever job ends last tells the buyer: an order whose jobs are all done was
\* announced, although no job waits for another and none is told to announce it.
ReadyOrdersAreTold ==
    \A o \in Orders :
        Items(o) # {} /\ (\A i \in Items(o) : job[i].step = "done") => told[o] > 0

\* A buyer who paid is told that the tickets are ready, unless a job gave up.
BuyerIsTold ==
    \A o \in Orders :
        status[o] = "PAID" ~> (told[o] > 0 \/ \E i \in Items(o) : job[i].step = "failed")
=============================================================================
