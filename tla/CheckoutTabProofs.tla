--------------------------- MODULE CheckoutTabProofs ---------------------------
(* Proofs about the buyer's tab, for any clicks, orders, regimes, reloads and *)
(* polls: what it announces is paid, and a click makes one order at most.     *)
EXTENDS CheckoutTab, FiniteSetTheorems, TLAPS

-----------------------------------------------------------------------------
(* One order per click.                                                     *)

\* Nothing was asked of the service for a click.
Unordered(c) == \A o \in Orders : order[o].click # c
Fresh(c) == c \notin asked /\ Unordered(c)

\* The dialogs from which the payment is initialised.
InDialog(c) == flow.step \in {"guest", "phone"} /\ flow.click = c

\* Where the intent to buy is: not clicked yet, in sessionStorage, in a dialog,
\* awaited by the tunnel, on its way to the service, or an order; never at two of
\* these places, except that the telephone's dialog waits for the number it saves.
Somewhere ==
    /\ \A c \in Clicks \ clicked :
          Fresh(c) /\ chain[c] = "none" /\ intent # c /\ ~InDialog(c)
    /\ intent # None => intent \in clicked /\ Fresh(intent) /\ chain[intent] = "none"
                        /\ ~InDialog(intent)
    /\ \A c \in Clicks : InDialog(c) => Fresh(c) /\ chain[c] \in {"none", "saving"}
    /\ flow.step \in {"guest", "phone"} => flow.click \in Clicks
    /\ \A c \in Clicks : chain[c] \in {"me", "saving"} => Fresh(c)
    /\ \A c \in asked : Unordered(c)

Kept ==
    /\ clicked \subseteq Clicks /\ asked \subseteq Clicks
    /\ chain \in [Clicks -> Chains]
    /\ order \in [Orders -> [status : Statuses, click : Clicks \cup {None}]]
    /\ \A o \in Orders : order[o].status = "none" => order[o].click = None
    /\ Somewhere
    /\ OneOrderPerClick

LEMMA InitKept == Init => Kept
  BY NamesDiffer DEF Init, Kept, Somewhere, Fresh, Unordered, InDialog, Idle, Show,
     OneOrderPerClick, Chains, Statuses

\* The tunnel shows something else and no intent moves.
LEMMA ShowKept ==
    ASSUME Kept, UNCHANGED <<clicked, asked, chain, order>>,
           intent' = intent, flow'.step \notin {"guest", "phone"}
    PROVE  Kept'
  BY DEF Kept, Somewhere, Fresh, Unordered, InDialog, OneOrderPerClick

\* A click whose payment is initialised.
LEMMA SendKept ==
    ASSUME Kept, NEW c \in Clicks, SendInit(c), Fresh(c), intent # c, c \in clicked,
           UNCHANGED <<clicked, intent, order>>
    PROVE  Kept'
<1>1. /\ asked' = asked \cup {c}
      /\ chain' = [chain EXCEPT ![c] = "init"]
      /\ flow'.step = "initializing"
  BY DEF SendInit, SetState, Show
<1> QED
  BY <1>1 DEF Kept, Somewhere, Fresh, Unordered, InDialog, OneOrderPerClick, Chains

\* The intent leaves sessionStorage for the tunnel.
LEMMA ResumeKept ==
    ASSUME Kept, NEW pending \in [Clicks -> Chains], Resume(pending),
           \A c \in Clicks : pending[c] \in {chain[c], "none"},
           UNCHANGED <<clicked, asked, order>>
    PROVE  Kept'
<1>1. intent' = None
  BY DEF Resume, Consume
<1>2. CASE ~Usable
  BY <1>1, <1>2, NamesDiffer DEF Resume, SetState, Show, Kept, Somewhere, Fresh,
     Unordered, InDialog, OneOrderPerClick, Chains
<1>3. CASE Usable
  <2>1. intent \in clicked /\ Fresh(intent) /\ chain[intent] = "none"
    BY <1>3 DEF Usable, Kept, Somewhere
  <2>2. /\ flow' = Show(IF regime.guest THEN "guest" ELSE "initializing", intent, None)
        /\ chain' = IF regime.guest THEN pending ELSE [pending EXCEPT ![intent] = "me"]
    BY <1>3 DEF Resume, StartCheckout, SetState
  <2> QED
    BY <1>1, <2>1, <2>2, NamesDiffer DEF Show, Kept, Somewhere, Fresh, Unordered,
       InDialog, OneOrderPerClick, Chains
<1> QED
  BY <1>2, <1>3

\* A page that is loaded awaits nothing; it resumes the intent if it is told to.
LEMMA LoadKept ==
    ASSUME Kept, NEW u, Load(u), UNCHANGED <<clicked, asked, order>>
    PROVE  Kept'
<1> DEFINE fresh == [c \in Clicks |-> "none"]
<1>1. CASE u # "resume"
  <2>1. chain' = fresh /\ intent' = intent /\ flow'.step \notin {"guest", "phone"}
    BY <1>1 DEF Load, Idle, Show
  <2> QED
    BY <2>1 DEF Kept, Somewhere, Fresh, Unordered, InDialog, OneOrderPerClick, Chains
<1>2. CASE u = "resume"
  <2>1. /\ intent' = None
        /\ flow' = IF ~Usable THEN Show("error", None, None)
                   ELSE Show(IF regime.guest THEN "guest" ELSE "initializing", intent, None)
        /\ chain' = IF Usable /\ ~regime.guest THEN [fresh EXCEPT ![intent] = "me"]
                                                ELSE fresh
    BY <1>2 DEF Load, Consume
  <2>2. Usable => intent \in clicked /\ Fresh(intent)
    BY DEF Usable, Kept, Somewhere
  <2> QED
    BY <2>1, <2>2, NamesDiffer DEF Show, Kept, Somewhere, Fresh, Unordered,
       InDialog, OneOrderPerClick, Chains
<1> QED
  BY <1>1, <1>2

LEMMA StepKept ==
    ASSUME Kept, [Next]_vars PROVE Kept'
<1> USE DEF browserVars, pageVars, serverVars
<1>1. ASSUME NEW c \in Clicks, Continue(c) PROVE Kept'
  BY <1>1, NamesDiffer DEF Continue, Consume, StartCheckout, SetState, Show, Kept,
     Somewhere, Fresh, Unordered, InDialog, OneOrderPerClick
<1>2. CASE PopupDone
  BY <1>2, ResumeKept DEF PopupDone, Kept
<1>3. CASE PopupClosed \/ IntentExpires
  BY <1>3 DEF PopupClosed, IntentExpires, Kept, Somewhere, Fresh, Unordered, InDialog,
     OneOrderPerClick
<1>4. CASE Reload \/ BackFromGoogle \/ BackFromProvider
  BY <1>4, LoadKept DEF Reload, BackFromGoogle, BackFromProvider
<1>5. CASE SubmitGuest
  <2>1. flow.click \in Clicks /\ InDialog(flow.click)
    BY <1>5 DEF SubmitGuest, Kept, Somewhere, InDialog
  <2>2. Fresh(flow.click) /\ flow.click \in clicked /\ intent # flow.click
    BY <2>1, NamesDiffer DEF Kept, Somewhere
  <2> QED
    BY <1>5, <2>1, <2>2, SendKept DEF SubmitGuest
<1>6. CASE SubmitPhone
  <2>1. flow.click \in Clicks /\ InDialog(flow.click)
    BY <1>6 DEF SubmitPhone, Kept, Somewhere, InDialog
  <2>2. /\ Fresh(flow.click) /\ flow.click \in clicked /\ intent # flow.click
        /\ chain' = [chain EXCEPT ![flow.click] = "saving"]
        /\ UNCHANGED <<clicked, asked, order, intent, flow>>
    BY <1>6, <2>1, NamesDiffer DEF SubmitPhone, Kept, Somewhere
  <2> QED
    BY <2>1, <2>2 DEF Kept, Somewhere, Fresh, Unordered, InDialog, OneOrderPerClick, Chains
<1>7. CASE Dismiss
  BY <1>7, ShowKept DEF Dismiss, SetState, Idle, Show
<1>8. CASE WidgetSuccess \/ WidgetFailed
  BY <1>8, ShowKept DEF WidgetSuccess, WidgetFailed, SetState, Show
<1>9. ASSUME NEW c \in Clicks, MeAnswered(c) PROVE Kept'
  <2>1. Fresh(c) /\ c \in clicked /\ intent # c
    BY <1>9, NamesDiffer DEF MeAnswered, Kept, Somewhere
  <2>2. CASE SendInit(c)
    <3>1. UNCHANGED <<clicked, intent, order>>
      BY <1>9, <2>2 DEF MeAnswered
    <3> QED
      BY <2>1, <2>2, <3>1, SendKept
  <2>3. CASE ~SendInit(c)
    <3>1. /\ flow' = Show("phone", c, None) /\ chain' = [chain EXCEPT ![c] = "none"]
          /\ UNCHANGED <<clicked, asked, order, intent>>
      BY <1>9, <2>3 DEF MeAnswered, SetState
    <3> QED
      BY <2>1, <3>1 DEF Show, Kept, Somewhere, Fresh, Unordered, InDialog,
         OneOrderPerClick, Chains
  <2> QED
    BY <2>2, <2>3
<1>10. ASSUME NEW c \in Clicks, PhoneSaved(c) PROVE Kept'
  <2>1. Fresh(c) /\ c \in clicked /\ intent # c
    BY <1>10, NamesDiffer DEF PhoneSaved, Kept, Somewhere
  <2>2. SendInit(c) /\ UNCHANGED <<clicked, intent, order>>
    BY <1>10 DEF PhoneSaved
  <2> QED
    BY <2>1, <2>2, SendKept
<1>11. ASSUME NEW c \in Clicks, PhoneRefused(c) PROVE Kept'
  BY <1>11 DEF PhoneRefused, Kept, Somewhere, Fresh, Unordered, InDialog,
     OneOrderPerClick, Chains
<1>12. ASSUME NEW c \in Clicks, InitAnswered(c) PROVE Kept'
  <2>1. /\ chain' = [chain EXCEPT ![c] = "none"] /\ flow'.step \notin {"guest", "phone"}
        /\ UNCHANGED <<clicked, asked, order, intent>>
    BY <1>12 DEF InitAnswered, SetState, Show
  <2> QED
    BY <2>1 DEF Kept, Somewhere, Fresh, Unordered, InDialog, OneOrderPerClick, Chains
<1>13. CASE Tick \/ Minute
  BY <1>13 DEF Tick, Minute, Kept, Somewhere, Fresh, Unordered, InDialog, OneOrderPerClick
<1>14. ASSUME NEW t \in ticks, TickAnswered(t) PROVE Kept'
  <2>1. /\ UNCHANGED <<clicked, asked, chain, order, intent>>
        /\ UNCHANGED flow \/ flow'.step \notin {"guest", "phone"}
    BY <1>14 DEF TickAnswered, SetState, Show
  <2> QED
    BY <2>1, ShowKept DEF Kept, Somewhere, Fresh, Unordered, InDialog, OneOrderPerClick
<1>15. ASSUME NEW c \in Clicks, ServeInit(c) PROVE Kept'
  <2>1. CASE UNCHANGED order
    BY <1>15, <2>1 DEF ServeInit, Kept, Somewhere, Fresh, Unordered, InDialog,
       OneOrderPerClick
  <2>2. CASE ~UNCHANGED order
    <3>1. PICK o \in Unmade :
            order' = [order EXCEPT ![o] = [status |-> "PENDING", click |-> c]]
      BY <1>15, <2>2 DEF ServeInit
    <3>2. o \in Orders /\ order[o].click = None /\ Unordered(c) /\ c \in asked
      BY <1>15, <3>1 DEF Unmade, ServeInit, Kept, Somewhere
    <3>3. /\ asked' = asked \ {c}
          /\ UNCHANGED <<clicked, chain, intent, flow>>
      BY <1>15 DEF ServeInit
    <3>4. \A q \in Orders : order'[q] = IF q = o THEN [status |-> "PENDING", click |-> c]
                                                 ELSE order[q]
      BY <3>1, <3>2 DEF Kept
    <3>5. OneOrderPerClick'
      BY <3>2, <3>4, NamesDiffer DEF OneOrderPerClick, Unordered, Kept
    <3>6. \A k \in Clicks \ {c} : Fresh(k) => Fresh(k)'
      BY <3>2, <3>3, <3>4 DEF Fresh, Unordered
    <3>7. Somewhere'
      BY <3>2, <3>3, <3>4, <3>6 DEF Kept, Somewhere, Fresh, Unordered, InDialog
    <3>8. order' \in [Orders -> [status : Statuses, click : Clicks \cup {None}]]
      BY <3>1, <3>2 DEF Kept, Statuses
    <3> QED
      BY <3>3, <3>4, <3>5, <3>7, <3>8 DEF Kept
  <2> QED
    BY <2>1, <2>2
<1>16. ASSUME NEW t \in ticks, ServeTick(t) PROVE Kept'
  BY <1>16 DEF ServeTick, Kept, Somewhere, Fresh, Unordered, InDialog, OneOrderPerClick
<1>17. ASSUME NEW o \in Orders, Settle(o) PROVE Kept'
  <2>1. /\ \A q \in Orders : order'[q].click = order[q].click
        /\ \A q \in Orders : order'[q].status = "none" => order[q].status = "none"
        /\ order' \in [Orders -> [status : Statuses, click : Clicks \cup {None}]]
    BY <1>17 DEF Settle, Kept, Statuses
  <2> QED
    BY <1>17, <2>1 DEF Settle, Kept, Somewhere, Fresh, Unordered, InDialog, OneOrderPerClick
<1>18. CASE UNCHANGED vars
  BY <1>18 DEF vars, Kept, Somewhere, Fresh, Unordered, InDialog, OneOrderPerClick
<1>19. clicked # Clicks => (CHOOSE c \in Clicks : c \notin clicked) \in Clicks
  BY DEF Kept
<1> QED
  BY <1>19, <1>1, <1>2, <1>3, <1>4, <1>5, <1>6, <1>7, <1>8, <1>9, <1>10, <1>11, <1>12, <1>13,
     <1>14, <1>15, <1>16, <1>17, <1>18 DEF Next, Buyer, Tunnel, Service

\* A click on "Continuer" makes one order at most, whatever dialogs are cancelled
\* while they save, pages reloaded and intents resumed.
THEOREM OneOrder == Spec => []OneOrderPerClick
<1>1. Kept => OneOrderPerClick
  BY DEF Kept
<1> QED
  BY <1>1, InitKept, StepKept, PTL DEF Spec

-----------------------------------------------------------------------------
(* Types, and what the polls carry.                                         *)

\* Clearing the timer loses no poll and adds none.
LEMMA OrphanedTicks ==
    ASSUME NEW ts, ts \subseteq Ticks, IsFiniteSet(ts)
    PROVE  /\ Orphaned(ts) \subseteq Ticks /\ IsFiniteSet(Orphaned(ts))
           /\ Cardinality(Orphaned(ts)) <= Cardinality(ts)
<1> DEFINE f == [t \in ts |-> [t EXCEPT !.own = FALSE]]
<1>1. f \in Surjection(ts, Orphaned(ts))
  BY DEF Orphaned, Surjection
<1>2. Orphaned(ts) \subseteq Ticks
  BY DEF Orphaned, Ticks
<1> QED
  BY <1>1, <1>2, FS_Surjection

\* The polls in flight, and the order the tunnel confirms or has confirmed.
Polls(ts) ==
    /\ ts \subseteq Ticks /\ IsFiniteSet(ts) /\ Cardinality(ts) <= MaxTicks
    /\ \A t \in ts : t.answer = "PAID" => order[t.about].status = "PAID"

Typed ==
    /\ TypeOK
    /\ Polls(ticks)
    /\ flow.step \in {"confirming", "success"} => flow.order \in Orders
    /\ SuccessIsPaid

\* The parts of the types that a change of what the tunnel shows leaves alone.
Around ==
    /\ regime \in Regimes
    /\ place \in {"page", "google"} \cup Orders
    /\ url \in {"plain", "resume"} \cup Orders
    /\ signedIn \in BOOLEAN /\ hasPhone \in BOOLEAN
    /\ intent \in clicked \cup {None} /\ expired \in BOOLEAN
    /\ clicked \subseteq Clicks /\ asked \subseteq clicked
    /\ reloads \in 0 .. MaxReloads
    /\ popup \in BOOLEAN
    /\ token \in Orders \cup {None} /\ widget \in Orders \cup {None}
    /\ chain \in [Clicks -> Chains]
    /\ reply \in [Clicks -> Orders \cup {None, "refused"}]
    /\ order \in [Orders -> [status : Statuses, click : Clicks \cup {None}]]

\* What the tunnel shows, once its order exists.
Shows(f) ==
    /\ f \in [step : FlowSteps, click : clicked \cup {None}, order : Orders \cup {None}]
    /\ f.step \in {"confirming", "success"} => f.order \in Orders
    /\ f.step = "success" => order[f.order].status = "PAID"

LEMMA TypedParts == Typed <=> Around /\ Shows(flow) /\ late \in BOOLEAN /\ Polls(ticks)
  BY DEF Typed, TypeOK, Around, Shows, Polls, SuccessIsPaid

LEMMA InitTyped == Init => Typed
<1> SUFFICES ASSUME Init PROVE Typed
  OBVIOUS
<1>1. IsFiniteSet(ticks) /\ Cardinality(ticks) = 0 /\ ticks = {}
  BY FS_EmptySet DEF Init
<1>2. Polls(ticks)
  BY <1>1, TabBounds DEF Polls
<1>3. flow \in [step : FlowSteps, click : clicked \cup {None}, order : Orders \cup {None}]
  BY DEF Init, Idle, Show, FlowSteps
<1>4. chain \in [Clicks -> Chains] /\ reply \in [Clicks -> Orders \cup {None, "refused"}]
  BY DEF Init, Chains
<1>5. order \in [Orders -> [status : Statuses, click : Clicks \cup {None}]]
  BY DEF Init, Statuses
<1>6. Around
  <2>1. reloads \in 0 .. MaxReloads
    BY TabBounds DEF Init
  <2>2. /\ signedIn \in BOOLEAN /\ hasPhone \in BOOLEAN /\ expired \in BOOLEAN
        /\ popup \in BOOLEAN
    BY DEF Init
  <2>3. /\ regime \in Regimes /\ place = "page" /\ url = "plain" /\ intent = None
        /\ clicked = {} /\ asked = {} /\ token = None /\ widget = None
    BY DEF Init
  <2> QED
    BY <1>4, <1>5, <2>1, <2>2, <2>3 DEF Around
<1>7. TypeOK
  BY <1>2, <1>3, <1>6 DEF Init, TypeOK, Around, Polls
<1> QED
  BY <1>2, <1>7 DEF Init, Typed, SuccessIsPaid, Idle, Show

LEMMA OrphanedPolls ==
    ASSUME NEW ts \in SUBSET ticks, Polls(ticks)
    PROVE  Polls(Orphaned(ts))
<1>1. IsFiniteSet(ts) /\ Cardinality(ts) <= Cardinality(ticks) /\ ts \subseteq Ticks
  BY FS_Subset DEF Polls
<1>2. /\ Orphaned(ts) \subseteq Ticks /\ IsFiniteSet(Orphaned(ts))
      /\ Cardinality(Orphaned(ts)) <= Cardinality(ts)
  BY <1>1, OrphanedTicks
<1>3. Cardinality(Orphaned(ts)) <= MaxTicks
  <2>1. /\ Cardinality(Orphaned(ts)) \in Nat /\ Cardinality(ts) \in Nat
        /\ Cardinality(ticks) \in Nat
    BY <1>1, <1>2, FS_CardinalityType DEF Polls
  <2> QED
    BY <1>1, <1>2, <2>1, TabBounds DEF Polls
<1>4. \A t \in Orphaned(ts) : t.answer = "PAID" => order[t.about].status = "PAID"
  BY <1>1 DEF Orphaned, Polls, Ticks
<1> QED
  BY <1>2, <1>3, <1>4 DEF Polls

\* The tunnel shows f, and its timer is cleared.
LEMMA SetStateTyped ==
    ASSUME Typed, NEW f, NEW ts \in SUBSET ticks, SetState(f, ts), UNCHANGED order,
           Around', Shows(f)'
    PROVE  Typed'
<1>1. ticks' = Orphaned(ts) /\ flow' = f /\ late' = FALSE
  BY DEF SetState
<1>2. Polls(Orphaned(ts))
  BY OrphanedPolls, TypedParts
<1>3. Polls(ticks)'
  BY <1>1, <1>2 DEF Polls
<1> QED
  BY <1>1, <1>3, TypedParts DEF Around, Shows, Typed, TypeOK, Polls, SuccessIsPaid

\* A page is loaded: no poll is left.
LEMMA LoadTyped ==
    ASSUME Typed, NEW u \in {"plain", "resume"} \cup Orders, Load(u),
           UNCHANGED <<regime, expired, clicked, hasPhone, asked, reply, order>>,
           reloads' \in 0 .. MaxReloads, signedIn' \in BOOLEAN
    PROVE  Typed'
<1> DEFINE fresh == [c \in Clicks |-> "none"]
<1>1. ticks' = {} /\ late' = FALSE
  BY DEF Load
<1>2. Polls(ticks)'
  BY <1>1, FS_EmptySet, TabBounds DEF Polls
<1>3. place' = "page" /\ url' = u /\ popup' = FALSE /\ token' = None /\ widget' = None
  BY DEF Load
<1>4. intent \in clicked \cup {None} /\ clicked \subseteq Clicks
  BY DEF Typed, TypeOK
<1>5. fresh \in [Clicks -> Chains] /\ \A c \in Clicks : [fresh EXCEPT ![c] = "me"] \in [Clicks -> Chains]
  BY DEF Chains
<1>6. intent' \in clicked \cup {None} /\ chain' \in [Clicks -> Chains] /\ Shows(flow)'
  <2>1. CASE u = "plain"
    BY <1>4, <1>5, <2>1 DEF Load, Idle, Show, Shows, FlowSteps
  <2>2. CASE u = "resume"
    <3>1. Usable => intent \in clicked
      BY <1>4 DEF Usable
    <3> QED
      BY <1>4, <1>5, <2>2, <3>1 DEF Load, Show, Shows, FlowSteps, Consume
  <2>3. CASE u \in Orders
    <3>1. u # "plain" /\ u # "resume"
      BY <2>3, NamesDiffer
    <3>2. flow' = Show("confirming", None, u) /\ chain' = fresh /\ intent' = intent
      BY <3>1 DEF Load
    <3> QED
      BY <1>4, <1>5, <2>3, <3>2 DEF Show, Shows, FlowSteps
  <2> QED
    BY <2>1, <2>2, <2>3
<1>7. Around'
  BY <1>3, <1>6 DEF Typed, TypeOK, Around
<1> QED
  BY <1>1, <1>2, <1>6, <1>7 DEF Typed, TypeOK, Around, Shows, Polls, SuccessIsPaid

\* One lemma per kind of step that needs one.
LEMMA ContinueTyped ==
    ASSUME Typed, NEW c \in Clicks, Continue(c) PROVE Typed'
<1> USE DEF serverVars
<1>1. /\ clicked' = clicked \cup {c} /\ expired' = FALSE /\ UNCHANGED order
      /\ clicked \subseteq Clicks
  BY DEF Continue, Typed, TypeOK
<1>2. CASE regime.guest
  <2>1. /\ SetState(Show("guest", c, None), ticks) /\ chain' = chain /\ intent' = None
        /\ UNCHANGED <<place, popup>>
    BY <1>2 DEF Continue, StartCheckout, Consume
  <2>2. Around' /\ Shows(Show("guest", c, None))'
    BY <1>1, <2>1 DEF Continue, Typed, TypeOK, Around, Shows, Show, FlowSteps
  <2> QED
    BY <1>1, <2>1, <2>2, SetStateTyped
<1>3. CASE ~regime.guest
  <2>1. /\ intent' = c /\ UNCHANGED <<flow, ticks, late, chain>>
        /\ popup' \in BOOLEAN /\ place' \in {"page", "google"}
    BY <1>3 DEF Continue, Typed, TypeOK
  <2>2. Around' /\ Shows(flow)'
    BY <1>1, <2>1 DEF Continue, Typed, TypeOK, Around, Shows, SuccessIsPaid
  <2>3. Polls(ticks)'
    BY <1>1, <2>1 DEF Typed, Polls
  <2> QED
    BY <2>1, <2>2, <2>3 DEF Typed, TypeOK, Around, Shows, Polls, SuccessIsPaid
<1> QED
  BY <1>2, <1>3

LEMMA PopupDoneTyped ==
    ASSUME Typed, PopupDone PROVE Typed'
<1> USE DEF serverVars
<1>1. /\ intent' = None /\ popup' = FALSE /\ signedIn' = TRUE
      /\ UNCHANGED <<regime, place, url, expired, clicked, reloads, token, widget, hasPhone,
                     asked, reply, order>>
  BY DEF PopupDone, Resume, Consume
<1>2. CASE Usable
  <2>1. intent \in clicked /\ clicked \subseteq Clicks
    BY <1>2 DEF Usable, Typed, TypeOK
  <2>2. PICK f : /\ SetState(f, ticks)
                 /\ f \in {Show("guest", intent, None), Show("initializing", intent, None)}
    BY <1>2 DEF PopupDone, Resume, StartCheckout
  <2>3. chain' \in [Clicks -> Chains]
    BY <1>2 DEF PopupDone, Resume, StartCheckout, Typed, TypeOK, Chains
  <2>4. Around' /\ Shows(f)'
    <3>1. Around'
      BY <1>1, <2>3 DEF Typed, TypeOK, Around
    <3>2. Shows(f)'
      BY <1>1, <2>1, <2>2 DEF Shows, Show, FlowSteps
    <3> QED
      BY <3>1, <3>2
  <2>5. UNCHANGED order
    BY <1>1
  <2> QED
    BY <2>2, <2>4, <2>5, SetStateTyped
<1>3. CASE ~Usable
  <2>1. SetState(Show("error", None, None), ticks) /\ chain' = chain
    BY <1>3 DEF PopupDone, Resume
  <2>2. Around' /\ Shows(Show("error", None, None))'
    BY <1>1, <2>1 DEF Typed, TypeOK, Around, Shows, Show, FlowSteps
  <2> QED
    BY <1>1, <2>1, <2>2, SetStateTyped
<1> QED
  BY <1>2, <1>3

\* The payment of a click is initialised.
LEMMA SendTyped ==
    ASSUME Typed, NEW c \in clicked, SendInit(c), hasPhone' \in BOOLEAN,
           UNCHANGED <<regime, browserVars, popup, token, widget, order>>
    PROVE  Typed'
<1>1. /\ SetState(Show("initializing", c, None), ticks)
      /\ chain' = [chain EXCEPT ![c] = "init"] /\ asked' = asked \cup {c}
      /\ reply' = [reply EXCEPT ![c] = None]
  BY DEF SendInit
<1>2. chain' \in [Clicks -> Chains] /\ reply' \in [Clicks -> Orders \cup {None, "refused"}]
  BY <1>1 DEF Typed, TypeOK, Chains
<1>3. Around' /\ Shows(Show("initializing", c, None))'
  BY <1>1, <1>2 DEF browserVars, Typed, TypeOK, Around, Shows, Show, FlowSteps
<1> QED
  BY <1>1, <1>3, SetStateTyped

LEMMA InitAnsweredTyped ==
    ASSUME Typed, Kept, NEW c \in Clicks, InitAnswered(c) PROVE Typed'
<1>1. /\ chain' = [chain EXCEPT ![c] = "none"]
      /\ UNCHANGED <<regime, url, signedIn, intent, expired, clicked, reloads, popup,
                     hasPhone, asked, reply, order>>
  BY DEF InitAnswered, serverVars
<1>2. c \in clicked /\ chain' \in [Clicks -> Chains]
  BY <1>1 DEF InitAnswered, Kept, Somewhere, Chains
<1>3. CASE reply[c] = "refused"
  <2>1. SetState(Show("error", None, None), ticks) /\ UNCHANGED <<token, widget, place>>
    BY <1>3 DEF InitAnswered
  <2>2. Around' /\ Shows(Show("error", None, None))'
    BY <1>1, <1>2, <2>1 DEF Typed, TypeOK, Around, Shows, Show, FlowSteps
  <2> QED
    BY <1>1, <2>1, <2>2, SetStateTyped
<1>4. CASE reply[c] # "refused"
  <2>1. reply[c] \in Orders
    BY <1>4 DEF InitAnswered, Typed, TypeOK
  <2>2. /\ SetState(Show("awaiting-payment", c, None), ticks)
        /\ token' \in Orders \cup {None} /\ place' \in {place} \cup Orders
        /\ widget' \in {widget} \cup Orders
    BY <1>4, <2>1 DEF InitAnswered, TokenFor
  <2>3. Around' /\ Shows(Show("awaiting-payment", c, None))'
    BY <1>1, <1>2, <2>2 DEF Typed, TypeOK, Around, Shows, Show, FlowSteps
  <2> QED
    BY <1>1, <2>2, <2>3, SetStateTyped
<1> QED
  BY <1>3, <1>4

LEMMA TickTyped ==
    ASSUME Typed, Tick PROVE Typed'
<1> DEFINE t == [about |-> About, own |-> TRUE,
                 answer |-> IF token # None \/ signedIn THEN "asked" ELSE "refused"]
<1>1. ticks' = ticks \cup {t} /\ t.answer # "PAID"
  BY DEF Tick
<1>2. About \in Orders
  BY DEF Tick, About, Typed, TypeOK
<1>3. t \in Ticks
  BY <1>2 DEF Ticks, Answers
<1> HIDE DEF t
<1>4. Cardinality(ticks) < MaxTicks /\ IsFiniteSet(ticks)
  BY DEF Tick, Typed, Polls
<1>5. IsFiniteSet(ticks') /\ Cardinality(ticks') <= MaxTicks
  <2>1. Cardinality(ticks) \in Nat
    BY <1>4, FS_CardinalityType
  <2>2. /\ IsFiniteSet(ticks \cup {t})
        /\ Cardinality(ticks \cup {t}) \in {Cardinality(ticks), Cardinality(ticks) + 1}
    BY <1>4, FS_AddElement
  <2> QED
    BY <1>1, <1>4, <2>1, <2>2, TabBounds
<1>6. Polls(ticks)'
  BY <1>1, <1>3, <1>5 DEF Tick, serverVars, Typed, Polls
<1> QED
  BY <1>6 DEF Tick, browserVars, serverVars, Typed, TypeOK, Polls, SuccessIsPaid

\* An answer is shown whatever the tunnel shows by then.
LEMMA TickAnsweredTyped ==
    ASSUME Typed, NEW t \in ticks, TickAnswered(t) PROVE Typed'
<1>1. UNCHANGED <<regime, browserVars, popup, token, widget, chain, serverVars>>
  BY DEF TickAnswered
<1>2. t.about \in Orders /\ (t.answer = "PAID" => order[t.about].status = "PAID")
  BY DEF Typed, Polls, Ticks
<1>3. CASE UNCHANGED <<flow, late>> /\ ticks' = ticks \ {t}
  <2>1. ticks \ {t} \in SUBSET ticks /\ IsFiniteSet(ticks)
    BY DEF Typed, Polls
  <2>2. /\ IsFiniteSet(ticks \ {t}) /\ Cardinality(ticks \ {t}) <= Cardinality(ticks)
        /\ Cardinality(ticks) \in Nat /\ Cardinality(ticks \ {t}) \in Nat
    BY <2>1, FS_Subset, FS_CardinalityType
  <2>3. Cardinality(ticks') <= MaxTicks
    BY <1>3, <2>2, TabBounds DEF Typed, Polls
  <2>4. Polls(ticks)'
    BY <1>1, <1>3, <2>2, <2>3 DEF serverVars, Typed, Polls
  <2> QED
    BY <1>1, <1>3, <2>4 DEF browserVars, serverVars, Typed, TypeOK, Polls, SuccessIsPaid
<1>4. ASSUME NEW f \in {Show("success", None, t.about), Show("error", None, None)},
             SetState(f, ticks \ {t}), f.step = "success" => t.answer = "PAID"
      PROVE  Typed'
  <2>1. Around' /\ Shows(f)'
    BY <1>1, <1>2, <1>4 DEF browserVars, serverVars, Typed, TypeOK, Around, Shows, Show,
       FlowSteps
  <2>2. UNCHANGED order /\ ticks \ {t} \in SUBSET ticks
    BY <1>1 DEF serverVars
  <2> QED
    BY <1>4, <2>1, <2>2, SetStateTyped
<1>5. \/ UNCHANGED <<flow, late>> /\ ticks' = ticks \ {t}
      \/ SetState(Show("error", None, None), ticks \ {t})
      \/ t.answer = "PAID" /\ SetState(Show("success", None, t.about), ticks \ {t})
  BY DEF TickAnswered
<1> QED
  BY <1>3, <1>4, <1>5 DEF Show

\* An order that is paid stays paid, and a poll learns what its order is.
LEMMA ServeTyped ==
    ASSUME Typed, Kept, Service PROVE Typed'
<1>1. ASSUME NEW c \in Clicks, ServeInit(c) PROVE Typed'
  <2>1. UNCHANGED <<regime, browserVars, pageVars, hasPhone>> /\ asked' \subseteq asked
    BY <1>1 DEF ServeInit
  <2>2. CASE reply' = [reply EXCEPT ![c] = "refused"] /\ UNCHANGED order
    BY <2>1, <2>2 DEF browserVars, pageVars, Typed, TypeOK, Polls, SuccessIsPaid
  <2>3. CASE ~(reply' = [reply EXCEPT ![c] = "refused"] /\ UNCHANGED order)
    <3>1. PICK o \in Unmade :
            /\ order' = [order EXCEPT ![o] = [status |-> "PENDING", click |-> c]]
            /\ reply' = [reply EXCEPT ![c] = o]
      BY <1>1, <2>3 DEF ServeInit
    <3>2. o \in Orders /\ order[o].status = "none"
      BY <3>1 DEF Unmade
    <3>3. /\ order' \in [Orders -> [status : Statuses, click : Clicks \cup {None}]]
          /\ reply' \in [Clicks -> Orders \cup {None, "refused"}]
          /\ \A q \in Orders : order[q].status = "PAID" => order'[q].status = "PAID"
      BY <3>1, <3>2 DEF Typed, TypeOK, Statuses
    <3>4. Polls(ticks)'
      BY <2>1, <3>3 DEF pageVars, Typed, Polls, Ticks
    <3> QED
      BY <2>1, <3>3, <3>4 DEF browserVars, pageVars, Typed, TypeOK, Polls, SuccessIsPaid
  <2> QED
    BY <2>2, <2>3
<1>2. ASSUME NEW t \in ticks, ServeTick(t) PROVE Typed'
  <2> DEFINE s == [t EXCEPT !.answer = order[t.about].status]
  <2>1. /\ ticks' = (ticks \ {t}) \cup {s}
        /\ UNCHANGED <<regime, browserVars, flow, popup, token, widget, chain, late, serverVars>>
    BY <1>2 DEF ServeTick
  <2>2. t \in Ticks /\ t.about \in Orders /\ order[t.about].status \in Statuses
    BY DEF Typed, TypeOK, Polls, Ticks
  <2>3. s \in Ticks /\ (s.answer = "PAID" => order[s.about].status = "PAID")
    BY <2>2 DEF Ticks, Answers
  <2> HIDE DEF s
  <2>4. IsFiniteSet(ticks) /\ Cardinality(ticks) \in Nat
    BY FS_CardinalityType DEF Typed, Polls
  <2>5. IsFiniteSet(ticks \ {t}) /\ Cardinality(ticks \ {t}) = Cardinality(ticks) - 1
    BY <2>4, FS_RemoveElement
  <2>6. /\ IsFiniteSet((ticks \ {t}) \cup {s})
        /\ Cardinality((ticks \ {t}) \cup {s})
             \in {Cardinality(ticks \ {t}), Cardinality(ticks \ {t}) + 1}
    BY <2>5, FS_AddElement
  <2>7. Cardinality(ticks') <= MaxTicks
    BY <2>1, <2>4, <2>5, <2>6, TabBounds DEF Typed, Polls
  <2>8. Polls(ticks)'
    BY <2>1, <2>3, <2>6, <2>7 DEF serverVars, Typed, Polls
  <2> QED
    BY <2>1, <2>8 DEF browserVars, serverVars, Typed, TypeOK, Polls, SuccessIsPaid
<1>3. ASSUME NEW o \in Orders, Settle(o) PROVE Typed'
  <2>1. /\ UNCHANGED <<regime, browserVars, pageVars, hasPhone, asked, reply>>
        /\ order' \in [Orders -> [status : Statuses, click : Clicks \cup {None}]]
        /\ \A q \in Orders : order[q].status = "PAID" => order'[q].status = "PAID"
    BY <1>3 DEF Settle, Typed, TypeOK, Statuses
  <2>2. Polls(ticks)'
    BY <2>1 DEF pageVars, Typed, Polls, Ticks
  <2> QED
    BY <2>1, <2>2 DEF browserVars, pageVars, Typed, TypeOK, Polls, SuccessIsPaid
<1> QED
  BY <1>1, <1>2, <1>3 DEF Service

\* The widget's callbacks, and the dialogs that close.
LEMMA CallbackTyped ==
    ASSUME Typed, Dismiss \/ WidgetSuccess \/ WidgetFailed PROVE Typed'
<1>1. UNCHANGED <<regime, browserVars, popup, token, chain, serverVars>>
  BY DEF Dismiss, WidgetSuccess, WidgetFailed
<1>2. PICK f : /\ SetState(f, ticks)
               /\ \/ f \in {Idle, Show("error", None, None)}
                  \/ widget # None /\ f = Show("confirming", None, widget)
  BY DEF Dismiss, WidgetSuccess, WidgetFailed
<1>3. widget' \in {widget, None}
  BY DEF Dismiss, WidgetSuccess, WidgetFailed
<1>4. Around' /\ Shows(f)'
  BY <1>1, <1>2, <1>3 DEF browserVars, serverVars, Typed, TypeOK, Around, Shows, Idle, Show,
     FlowSteps
<1>5. UNCHANGED order /\ ticks \in SUBSET ticks
  BY <1>1 DEF serverVars
<1> QED
  BY <1>2, <1>4, <1>5, SetStateTyped

LEMMA SameTunnel ==
    ASSUME Typed, Around', UNCHANGED <<flow, late, ticks, order, clicked>>
    PROVE  Typed'
<1>1. Polls(ticks)' /\ Shows(flow)'
  BY DEF Typed, TypeOK, Polls, Shows, SuccessIsPaid
<1> QED
  BY <1>1 DEF Typed, TypeOK, Around, Polls, Shows, SuccessIsPaid

LEMMA StepTyped ==
    ASSUME Typed, Kept, [Next]_vars PROVE Typed'
<1>1. ASSUME NEW c \in Clicks, Continue(c) PROVE Typed'
  BY <1>1, ContinueTyped
<1>2. CASE PopupDone
  BY <1>2, PopupDoneTyped
<1>3. CASE PopupClosed
  BY <1>3, SameTunnel DEF PopupClosed, browserVars, serverVars, Typed, TypeOK, Around
<1>4. CASE IntentExpires
  BY <1>4, SameTunnel DEF IntentExpires, pageVars, serverVars, Typed, TypeOK, Around
<1>5. CASE Reload
  <2>1. reloads' \in 0 .. MaxReloads /\ reloads' = reloads + 1
    BY <1>5, TabBounds DEF Reload, Typed, TypeOK
  <2>2. Load(url) /\ url \in {"plain", "resume"} \cup Orders /\ signedIn' \in BOOLEAN
    BY <1>5 DEF Reload, Typed, TypeOK
  <2> QED
    BY <1>5, <2>1, <2>2, LoadTyped DEF Reload, serverVars
<1>6. CASE BackFromGoogle \/ BackFromProvider
  <2>1. PICK u \in {"plain", "resume"} \cup Orders : Load(u)
    BY <1>6 DEF BackFromGoogle, BackFromProvider
  <2>2. signedIn' \in BOOLEAN
    BY <1>6 DEF BackFromGoogle, BackFromProvider, Typed, TypeOK
  <2>3. /\ UNCHANGED <<regime, expired, clicked, hasPhone, asked, reply, order>>
        /\ reloads' \in 0 .. MaxReloads
    BY <1>6 DEF BackFromGoogle, BackFromProvider, serverVars, Typed, TypeOK
  <2> QED
    BY <2>1, <2>2, <2>3, LoadTyped
<1>7. CASE SubmitGuest
  <2>1. flow.click \in clicked
    BY <1>7, NamesDiffer DEF SubmitGuest, Kept, Somewhere, InDialog
  <2> QED
    BY <1>7, <2>1, SendTyped DEF SubmitGuest, Typed, TypeOK
<1>8. CASE SubmitPhone
  <2>1. chain' \in [Clicks -> Chains]
    BY <1>8 DEF SubmitPhone, Typed, TypeOK, Chains
  <2> QED
    BY <1>8, <2>1, SameTunnel DEF SubmitPhone, browserVars, serverVars, Typed, TypeOK, Around
<1>9. CASE Dismiss \/ WidgetSuccess \/ WidgetFailed
  BY <1>9, CallbackTyped
<1>10. ASSUME NEW c \in Clicks, MeAnswered(c) PROVE Typed'
  <2>1. c \in clicked
    BY <1>10 DEF MeAnswered, Kept, Somewhere
  <2>2. UNCHANGED <<regime, browserVars, popup, token, widget, hasPhone, order>>
    BY <1>10 DEF MeAnswered
  <2>3. CASE SendInit(c)
    BY <2>1, <2>2, <2>3, SendTyped DEF Typed, TypeOK
  <2>4. CASE ~SendInit(c)
    <3>1. /\ SetState(Show("phone", c, None), ticks)
          /\ chain' = [chain EXCEPT ![c] = "none"]
          /\ UNCHANGED <<asked, reply>>
      BY <1>10, <2>4 DEF MeAnswered
    <3>2. chain' \in [Clicks -> Chains]
      BY <3>1 DEF Typed, TypeOK, Chains
    <3>3. Around' /\ Shows(Show("phone", c, None))'
      BY <2>1, <2>2, <3>1, <3>2 DEF browserVars, Typed, TypeOK, Around, Shows, Show, FlowSteps
    <3> QED
      BY <2>2, <3>1, <3>3, SetStateTyped
  <2> QED
    BY <2>3, <2>4
<1>11. ASSUME NEW c \in Clicks, PhoneSaved(c) PROVE Typed'
  <2>1. c \in clicked
    BY <1>11 DEF PhoneSaved, Kept, Somewhere
  <2> QED
    BY <1>11, <2>1, SendTyped DEF PhoneSaved
<1>12. ASSUME NEW c \in Clicks, PhoneRefused(c) PROVE Typed'
  <2>1. chain' \in [Clicks -> Chains]
    BY <1>12 DEF PhoneRefused, Typed, TypeOK, Chains
  <2> QED
    BY <1>12, <2>1, SameTunnel DEF PhoneRefused, browserVars, serverVars, Typed, TypeOK,
       Around
<1>13. ASSUME NEW c \in Clicks, InitAnswered(c) PROVE Typed'
  BY <1>13, InitAnsweredTyped
<1>14. CASE Tick
  BY <1>14, TickTyped
<1>15. CASE Minute
  BY <1>15 DEF Minute, browserVars, serverVars, Typed, TypeOK, Polls, SuccessIsPaid
<1>16. ASSUME NEW t \in ticks, TickAnswered(t) PROVE Typed'
  BY <1>16, TickAnsweredTyped
<1>17. CASE Service
  BY <1>17, ServeTyped
<1>18. CASE UNCHANGED vars
  BY <1>18 DEF vars, browserVars, pageVars, serverVars, Typed, TypeOK, Polls, SuccessIsPaid
<1>19. clicked # Clicks => (CHOOSE c \in Clicks : c \notin clicked) \in Clicks
  BY DEF Kept
<1> QED
  BY <1>1, <1>2, <1>3, <1>4, <1>5, <1>6, <1>7, <1>8, <1>9, <1>10, <1>11, <1>12, <1>13,
     <1>14, <1>15, <1>16, <1>17, <1>18, <1>19 DEF Next, Buyer, Tunnel

LEMMA AlwaysTyped == Spec => [](Typed /\ Kept)
  BY InitTyped, InitKept, StepTyped, StepKept, PTL DEF Spec

\* The tab is typed: what it confirms is an order, and no more polls are in flight
\* than the interval sends.
THEOREM TabIsTyped == Spec => []TypeOK
<1>1. Typed => TypeOK
  BY DEF Typed
<1> QED
  BY <1>1, AlwaysTyped, PTL

\* "Paiement confirmé !" is shown of a paid order only, whatever answers come late.
THEOREM ConfirmedIsPaid == Spec => []SuccessIsPaid
<1>1. Typed => SuccessIsPaid
  BY DEF Typed
<1> QED
  BY <1>1, AlwaysTyped, PTL
=============================================================================
