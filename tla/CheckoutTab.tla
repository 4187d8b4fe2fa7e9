------------------------------ MODULE CheckoutTab ------------------------------
(***************************************************************************)
(* The browser tab of a buyer on the page of an event: the cart handed     *)
(* over through sessionStorage and a Google pop-up, the tunnel that opens  *)
(* the payment, and the polling that waits for the webhook.                *)
(*                                                                         *)
(* JavaScript runs to the next await.  What the tab awaits (`chain`, the   *)
(* ticks of the polling) goes on whatever the tunnel shows meanwhile; it   *)
(* dies with the page when the tab navigates.  A purchase is named by the  *)
(* click on "Continuer" it comes from.                                     *)
(***************************************************************************)
EXTENDS Naturals, FiniteSets

CONSTANTS
    Clicks,     \* clicks on "Continuer"
    Orders,     \* orders they may create
    None,       \* a null reference
    Regimes,    \* access regimes and payment windows of the event
    MaxReloads, \* bound: times the buyer reloads the page
    MaxTicks    \* bound: polls in flight at once

\* TICKETED_GUEST needs no account; KkiaPay opens a widget in the page, the other
\* providers host their page.
AllRegimes == [guest : BOOLEAN, widget : BOOLEAN]
ASSUME RegimesAreKnown == Regimes \subseteq AllRegimes
ASSUME TabBounds == MaxReloads \in Nat /\ MaxTicks \in Nat \ {0}
ASSUME NamesDiffer ==
    /\ None \notin Clicks \cup Orders
    /\ {"page", "google", "plain", "resume", "refused"} \cap Orders = {}

Statuses  == {"none", "PENDING", "PAID", "FAILED", "EXPIRED"}
FlowSteps == {"idle", "guest", "phone", "initializing", "awaiting-payment",
              "confirming", "success", "error"}
Chains    == {"none", "me", "saving", "init"}
Answers   == Statuses \cup {"asked", "refused"}
Ticks     == [about : Orders, answer : Answers, own : BOOLEAN]

VARIABLES
    regime,     \* the event's accessMode and its active provider
    \* The browser, which outlives the page.
    place,      \* where the tab is: "page", "google", or the order being paid
    url,        \* "plain", "resume" (?resume=1) or an order (?orderId=)
    signedIn,   \* the session's cookie
    intent,     \* buy_intent_<slug> in sessionStorage: the click it comes from
    expired,    \* is the intent older than INTENT_TTL_MS?
    clicked,    \* clicks made
    reloads,    \* reloads made
    \* The page.
    flow,       \* FlowState of the tunnel, with its click and its order
    popup,      \* authPending
    token,      \* ticketTokenRef, by the order it opens
    widget,     \* the order KkiaPay's widget is open for
    chain,      \* what the tunnel awaits for each click
    ticks,      \* polls in flight: the order asked about, its status once answered,
                \* and whether the timer that sent them still runs
    late,       \* has the confirmation lasted for POLL_TIMEOUT_MS?
    \* The service.
    hasPhone,   \* users.phone of the buyer
    asked,      \* clicks whose POST /payments/init is on its way
    reply,      \* its answer: an order or "refused"
    order       \* status and click of each order

browserVars == <<place, url, signedIn, intent, expired, clicked, reloads>>
pageVars    == <<flow, popup, token, widget, chain, ticks, late>>
serverVars  == <<hasPhone, asked, reply, order>>
vars == <<regime, browserVars, pageVars, serverVars>>

-----------------------------------------------------------------------------
Show(step, c, o) == [step |-> step, click |-> c, order |-> o]
Idle == Show("idle", None, None)

\* A tick of a timer that was cleared still answers.
Orphaned(ts) == {[t EXCEPT !.own = FALSE] : t \in ts}

\* setState: the effect on [state] clears the timer, and a confirmation sets one.
SetState(f, remaining) ==
    /\ flow' = f
    /\ ticks' = Orphaned(remaining)
    /\ late' = FALSE

Init ==
    /\ regime \in Regimes
    /\ place = "page" /\ url = "plain"
    /\ signedIn \in BOOLEAN
    /\ intent = None /\ expired = FALSE /\ clicked = {} /\ reloads = 0
    /\ flow = Idle /\ popup = FALSE /\ token = None /\ widget = None
    /\ chain = [c \in Clicks |-> "none"]
    /\ ticks = {} /\ late = FALSE
    /\ hasPhone \in BOOLEAN
    /\ asked = {}
    /\ reply = [c \in Clicks |-> None]
    /\ order = [o \in Orders |-> [status |-> "none", click |-> None]]

-----------------------------------------------------------------------------
(* Entering the tunnel. *)

\* consumeIntent.  (Mutant: an intent is read and stays.)
ConsumeKeeping(next) == intent' = intent

Consume(next) == intent' = next

Usable == intent # None /\ ~expired

\* startCheckout: a guest is asked for an identity, a client looked up.
StartCheckout(c, pending) ==
    /\ SetState(Show(IF regime.guest THEN "guest" ELSE "initializing", c, None), ticks)
    /\ chain' = IF regime.guest THEN pending ELSE [pending EXCEPT ![c] = "me"]

\* The listener of CHECKOUT_RESUME_EVENT, and the effect of ?resume=1.
Resume(pending) ==
    /\ Consume(None)
    /\ IF Usable THEN StartCheckout(intent, pending)
       ELSE SetState(Show("error", None, None), ticks) /\ chain' = pending

\* handleContinue: the cart goes to sessionStorage; the overlay of the tunnel
\* covers the page unless it is idle.
Continue(c) ==
    /\ place = "page" /\ flow.step = "idle" /\ ~popup
    /\ c \notin clicked
    /\ clicked' = clicked \cup {c}
    /\ expired' = FALSE
    /\ \/ /\ regime.guest
          /\ Consume(None)
          /\ StartCheckout(c, chain)
          /\ UNCHANGED <<place, popup>>
       \/ /\ ~regime.guest
          /\ intent' = c
          /\ popup' = TRUE
          /\ UNCHANGED <<place, flow, ticks, late, chain>>
       \/ /\ ~regime.guest                       \* the pop-up is blocked
          /\ intent' = c
          /\ place' = "google"
          /\ UNCHANGED <<popup, flow, ticks, late, chain>>
    /\ UNCHANGED <<regime, url, signedIn, reloads, token, widget, serverVars>>

PopupDone ==
    /\ place = "page" /\ popup
    /\ popup' = FALSE
    /\ signedIn' = TRUE
    /\ Resume(chain)
    /\ UNCHANGED <<regime, place, url, expired, clicked, reloads, token, widget, serverVars>>

PopupClosed ==
    /\ place = "page" /\ popup
    /\ popup' = FALSE
    /\ UNCHANGED <<regime, browserVars, flow, token, widget, chain, ticks, late, serverVars>>

IntentExpires ==
    /\ intent # None /\ ~expired
    /\ expired' = TRUE
    /\ UNCHANGED <<regime, place, url, signedIn, intent, clicked, reloads, pageVars, serverVars>>

-----------------------------------------------------------------------------
(* The page is loaded: nothing of the former one is left, and the effects of *)
(* the first render look at the address.                                     *)

Load(u) ==
    /\ place' = "page" /\ url' = u
    /\ popup' = FALSE /\ token' = None /\ widget' = None
    /\ LET fresh == [c \in Clicks |-> "none"] IN
       CASE u = "plain"  -> /\ flow' = Idle /\ chain' = fresh /\ UNCHANGED intent
         [] u = "resume" -> /\ Consume(None)
                            /\ flow' = IF ~Usable THEN Show("error", None, None)
                                       ELSE Show(IF regime.guest THEN "guest"
                                                 ELSE "initializing", intent, None)
                            /\ chain' = IF Usable /\ ~regime.guest
                                        THEN [fresh EXCEPT ![intent] = "me"] ELSE fresh
         [] OTHER        -> /\ flow' = Show("confirming", None, u)
                            /\ chain' = fresh /\ UNCHANGED intent
    /\ ticks' = {} /\ late' = FALSE

Reload ==
    /\ place = "page" /\ reloads < MaxReloads
    /\ reloads' = reloads + 1
    /\ Load(url)
    /\ UNCHANGED <<regime, signedIn, expired, clicked, serverVars>>

BackFromGoogle ==
    /\ place = "google"
    /\ \/ signedIn' = TRUE /\ Load("resume")
       \/ UNCHANGED signedIn /\ Load("plain")
    /\ UNCHANGED <<regime, expired, clicked, reloads, serverVars>>

\* The provider's return address carries the order only; a session may have
\* ended meanwhile.
BackFromProvider ==
    /\ place \in Orders
    /\ \/ Load(place)
       \/ Load("plain")
    /\ signedIn' \in {signedIn, FALSE}
    /\ UNCHANGED <<regime, expired, clicked, reloads, serverVars>>

-----------------------------------------------------------------------------
(* Towards the payment. *)

\* initPayment, up to its await.
SendInit(c) ==
    /\ SetState(Show("initializing", c, None), ticks)
    /\ chain' = [chain EXCEPT ![c] = "init"]
    /\ asked' = asked \cup {c}
    /\ reply' = [reply EXCEPT ![c] = None]

\* GET /auth/me: without a phone the client is asked for it; an error lets the
\* purchase go on.
MeAnswered(c) ==
    /\ place = "page" /\ chain[c] = "me"
    /\ \/ /\ signedIn /\ ~hasPhone
          /\ SetState(Show("phone", c, None), ticks)
          /\ chain' = [chain EXCEPT ![c] = "none"]
          /\ UNCHANGED <<asked, reply>>
       \/ SendInit(c)
    /\ UNCHANGED <<regime, browserVars, popup, token, widget, hasPhone, order>>

SubmitGuest ==
    /\ place = "page" /\ flow.step = "guest"
    /\ SendInit(flow.click)
    /\ UNCHANGED <<regime, browserVars, popup, token, widget, hasPhone, order>>

SubmitPhone ==
    /\ place = "page" /\ flow.step = "phone" /\ chain[flow.click] # "saving"
    /\ chain' = [chain EXCEPT ![flow.click] = "saving"]
    /\ UNCHANGED <<regime, browserVars, flow, popup, token, widget, ticks, late, serverVars>>

\* The mutation's onSuccess runs although the dialog may have been cancelled.
PhoneSaved(c) ==
    /\ place = "page" /\ chain[c] = "saving"
    /\ hasPhone' = TRUE
    /\ SendInit(c)
    /\ UNCHANGED <<regime, browserVars, popup, token, widget, order>>

PhoneRefused(c) ==
    /\ place = "page" /\ chain[c] = "saving"
    /\ chain' = [chain EXCEPT ![c] = "none"]
    /\ UNCHANGED <<regime, browserVars, flow, popup, token, widget, ticks, late, serverVars>>

\* "Annuler" and "Fermer".
Dismiss ==
    /\ place = "page"
    /\ flow.step \in {"guest", "phone", "success", "error"}
    /\ SetState(Idle, ticks)
    /\ UNCHANGED <<regime, browserVars, popup, token, widget, chain, serverVars>>

\* The token comes with a guest's order.
TokenFor(o) == IF regime.guest THEN o ELSE None

InitAnswered(c) ==
    /\ place = "page" /\ chain[c] = "init" /\ reply[c] # None
    /\ chain' = [chain EXCEPT ![c] = "none"]
    /\ IF reply[c] = "refused"
       THEN SetState(Show("error", None, None), ticks) /\ UNCHANGED <<token, widget, place>>
       ELSE /\ SetState(Show("awaiting-payment", c, None), ticks)
            /\ token' = TokenFor(reply[c])
            /\ IF regime.widget THEN widget' = reply[c] /\ UNCHANGED place
                                ELSE place' = reply[c] /\ UNCHANGED widget
    /\ UNCHANGED <<regime, url, signedIn, intent, expired, clicked, reloads, popup, serverVars>>

\* Mutant: the widget's callback is believed.
WidgetConfirms ==
    /\ place = "page" /\ widget # None
    /\ SetState(Show("success", None, widget), ticks)
    /\ widget' = None
    /\ UNCHANGED <<regime, browserVars, popup, token, chain, serverVars>>

\* KkiaPay's callbacks.  After a failure the widget may be used again.
WidgetSuccess ==
    /\ place = "page" /\ widget # None
    /\ SetState(Show("confirming", None, widget), ticks)
    /\ widget' = None
    /\ UNCHANGED <<regime, browserVars, popup, token, chain, serverVars>>

WidgetFailed ==
    /\ place = "page" /\ widget # None
    /\ SetState(Show("error", None, None), ticks)
    /\ widget' \in {widget, None}
    /\ UNCHANGED <<regime, browserVars, popup, token, chain, serverVars>>

-----------------------------------------------------------------------------
(* The polling. *)

\* GET /payments/ticket/:token is public, GET /payments/orders/:id needs a session.
\* (Mutant: only the token is asked about.)
AboutToken == token

About == IF token # None THEN token ELSE flow.order


Tick ==
    /\ place = "page" /\ flow.step = "confirming"
    /\ Cardinality(ticks) < MaxTicks
    /\ ticks' = ticks \cup
         {[about |-> About, own |-> TRUE,
           answer |-> IF token # None \/ signedIn THEN "asked" ELSE "refused"]}
    /\ UNCHANGED <<regime, browserVars, flow, popup, token, widget, chain, late, serverVars>>

\* The minute is over; the timeout is tested with the next answer.
Minute ==
    /\ place = "page" /\ flow.step = "confirming" /\ ~late
    /\ late' = TRUE
    /\ UNCHANGED <<regime, browserVars, flow, popup, token, widget, chain, ticks, serverVars>>

\* setState is called whatever the tunnel shows by then.
TickAnswered(t) ==
    /\ place = "page" /\ t \in ticks /\ t.answer # "asked"
    /\ CASE t.answer = "PAID"    -> SetState(Show("success", None, t.about), ticks \ {t})
         [] t.answer = "FAILED"  -> SetState(Show("error", None, None), ticks \ {t})
         [] t.answer = "refused" -> ticks' = ticks \ {t} /\ UNCHANGED <<flow, late>>
         [] OTHER                ->
              \E over \in IF t.own THEN {late} ELSE BOOLEAN :
                IF over THEN SetState(Show("error", None, None), ticks \ {t})
                ELSE ticks' = ticks \ {t} /\ UNCHANGED <<flow, late>>
    /\ UNCHANGED <<regime, browserVars, popup, token, widget, chain, serverVars>>

-----------------------------------------------------------------------------
(* The service, as the tab sees it. *)

Unmade == {o \in Orders : order[o].status = "none"}

\* POST /payments/init or init-guest: refused without a session, without seats.
ServeInit(c) ==
    /\ c \in asked
    /\ asked' = asked \ {c}
    /\ \/ reply' = [reply EXCEPT ![c] = "refused"] /\ UNCHANGED order
       \/ /\ regime.guest \/ signedIn
          /\ Unmade # {}
          /\ LET o == CHOOSE x \in Unmade : TRUE IN
               /\ order' = [order EXCEPT ![o] = [status |-> "PENDING", click |-> c]]
               /\ reply' = [reply EXCEPT ![c] = o]
    /\ UNCHANGED <<regime, browserVars, pageVars, hasPhone>>

ServeTick(t) ==
    /\ t \in ticks /\ t.answer = "asked"
    /\ ticks' = (ticks \ {t}) \cup {[t EXCEPT !.answer = order[t.about].status]}
    /\ UNCHANGED <<regime, browserVars, flow, popup, token, widget, chain, late, serverVars>>

\* The webhooks and the expiry cron.
Settle(o) ==
    /\ order[o].status = "PENDING"
    /\ \E st \in {"PAID", "FAILED", "EXPIRED"} : order' = [order EXCEPT ![o].status = st]
    /\ UNCHANGED <<regime, browserVars, pageVars, hasPhone, asked, reply>>

-----------------------------------------------------------------------------
Buyer ==
    \/ clicked # Clicks /\ Continue(CHOOSE c \in Clicks : c \notin clicked)
    \/ PopupDone \/ PopupClosed \/ IntentExpires
    \/ Reload \/ BackFromGoogle \/ BackFromProvider
    \/ SubmitGuest \/ SubmitPhone \/ Dismiss
    \/ WidgetSuccess \/ WidgetFailed

Tunnel ==
    \/ \E c \in Clicks : MeAnswered(c) \/ PhoneSaved(c) \/ PhoneRefused(c) \/ InitAnswered(c)
    \/ Tick \/ Minute
    \/ \E t \in ticks : TickAnswered(t)

Service ==
    \/ \E c \in Clicks : ServeInit(c)
    \/ \E t \in ticks : ServeTick(t)
    \/ \E o \in Orders : Settle(o)

Next == Buyer \/ Tunnel \/ Service

Spec == Init /\ [][Next]_vars

\* Requests are answered, the interval keeps firing and time passes; the buyer and
\* the webhooks owe nothing.
Fairness ==
    /\ \A c \in Clicks : /\ WF_vars(MeAnswered(c)) /\ WF_vars(InitAnswered(c))
                         /\ WF_vars(PhoneSaved(c) \/ PhoneRefused(c))
                         /\ WF_vars(ServeInit(c))
    /\ WF_vars(Tick) /\ WF_vars(Minute)
    /\ WF_vars(\E t \in ticks : TickAnswered(t)) /\ WF_vars(\E t \in ticks : ServeTick(t))

FairSpec == Spec /\ Fairness

-----------------------------------------------------------------------------
TypeOK ==
    /\ regime \in Regimes
    /\ place \in {"page", "google"} \cup Orders
    /\ url \in {"plain", "resume"} \cup Orders
    /\ signedIn \in BOOLEAN /\ hasPhone \in BOOLEAN
    /\ intent \in clicked \cup {None} /\ expired \in BOOLEAN
    /\ clicked \subseteq Clicks /\ asked \subseteq clicked
    /\ reloads \in 0 .. MaxReloads
    /\ flow \in [step : FlowSteps, click : clicked \cup {None}, order : Orders \cup {None}]
    /\ popup \in BOOLEAN /\ late \in BOOLEAN
    /\ token \in Orders \cup {None} /\ widget \in Orders \cup {None}
    /\ chain \in [Clicks -> Chains]
    /\ ticks \subseteq Ticks /\ Cardinality(ticks) <= MaxTicks
    /\ reply \in [Clicks -> Orders \cup {None, "refused"}]
    /\ order \in [Orders -> [status : Statuses, click : Clicks \cup {None}]]

\* One click on "Continuer" makes at most one order, and takes its seats once,
\* through pop-up, redirection, reload, dialogs and retries: the intent is
\* consumed when it is read.
OneOrderPerClick ==
    \A o, n \in Orders : order[o].click # None /\ order[o].click = order[n].click => o = n

\* "Paiement confirmé !" is shown of a paid order only: neither the widget's
\* callback nor the provider's redirection confirms anything.
SuccessIsPaid == flow.step = "success" => order[flow.order].status = "PAID"

\* The tab does not wait for ever for the service: initialising ends, and a
\* confirmation that has a token or a session ends, paid, failed or too late.
Waiting ==
    \/ flow.step = "initializing"
    \/ flow.step = "confirming" /\ (token # None \/ signedIn)

=============================================================================
