---------------------------- MODULE EventProgramme ----------------------------
(***************************************************************************)
(* The programme of an event: its ticket policy, the days it declares and  *)
(* the tickets on sale for them.  The organiser edits it through           *)
(* updateMyEvent and createTicket, which read, decide and write in         *)
(* statements of their own, while buyers order tickets.                    *)
(***************************************************************************)
EXTENDS Naturals

CONSTANTS
    Dates,      \* civil dates
    DayLists,   \* lists of days an organiser submits, as sets of dates
    Tickets,    \* identifiers of tickets
    Items,      \* order items buyers may create
    Updates,    \* bound: calls of updateMyEvent
    Creations,  \* bound: calls of createTicket
    Null        \* a column or an argument that is absent

ASSUME DatesAreNumbers == Dates \subseteq Nat
ASSUME NullIsApart == Null \notin Nat \cup Tickets
ASSUME ListsAreDates == DayLists \subseteq SUBSET Dates

Policies == {"SINGLE_DAY", "PASS_ALL_DAYS", "PER_DAY"}

UpdateSteps   == {"idle", "count", "existing", "replace", "write", "done", "refused"}
CreationSteps == {"idle", "findDay", "insert", "done", "refused"}

VARIABLES
    policy,      \* events.ticketPolicy
    days,        \* rows of event_days, each known by its date (unique per event)
    tickets,     \* rows of tickets
    boundDay,    \* tickets.eventDayId, as the date of the day
    crossed,     \* history: tickets created while an edit of the programme was in progress
    itemTicket,  \* order_items.ticketId, Null while the item does not exist
    update,      \* progress and arguments of each updateMyEvent
    creation     \* progress and argument of each createTicket, whether an edit overlapped
                 \* it and whether the day it found has lost its row

programme == <<policy, days, tickets, boundDay, crossed>>
programmeVars == <<programme, itemTicket, update, creation>>

-----------------------------------------------------------------------------
Sold(i) == itemTicket[i] # Null

UpdateBusy(u) == update[u].step \notin {"idle", "done", "refused"}

CreationBusy(k) == creation[k].step \notin {"idle", "done", "refused"}

\* One day is SINGLE_DAY, which declares none; the other policies need two.
Coherent(p, ds) ==
    IF p = "SINGLE_DAY" THEN ds = {} ELSE \E d, e \in ds : d # e

\* Tickets carry a day exactly when each of them opens one.
TicketDayMatches(p, d) == (p = "PER_DAY") <=> (d # Null)

NoUpdate   == [step |-> "idle", policy |-> Null, days |-> {}, changed |-> FALSE]
NoCreation == [step |-> "idle", day |-> Null, crossed |-> FALSE, gone |-> FALSE]

\* Any programme an organiser may have set up, before the first sale.
ProgrammeInit ==
    /\ policy \in Policies
    /\ days \in DayLists \cup {{}}
    /\ Coherent(policy, days)
    /\ tickets \in SUBSET Tickets
    /\ boundDay \in [Tickets -> days \cup {Null}]
    /\ \A t \in Tickets :
         IF t \in tickets THEN TicketDayMatches(policy, boundDay[t])
                          ELSE boundDay[t] = Null
    /\ crossed = {}
    /\ itemTicket = [i \in Items |-> Null]
    /\ update = [u \in Updates |-> NoUpdate]
    /\ creation = [k \in Creations |-> NoCreation]

-----------------------------------------------------------------------------
(* updateMyEvent: applyDaysAndPolicy, then the update of the event.        *)

GoesTo(u, next) == update' = [update EXCEPT ![u].step = next]
EndsAs(u, end) == update' = [update EXCEPT ![u] = [NoUpdate EXCEPT !.step = end]]

\* The current policy is read; an absent one (Null) keeps it, and an absent list
\* counts as an empty one.
BeginUpdate(u, p, ds) ==
    LET effective == IF p = Null THEN policy ELSE p
        changed   == p # Null /\ p # policy
    IN  /\ update[u].step = "idle"
        /\ IF Coherent(effective, ds)
           THEN update' = [update EXCEPT ![u] =
                  [step |-> IF changed THEN "count" ELSE "existing",
                   policy |-> p, days |-> ds, changed |-> changed]]
           ELSE EndsAs(u, "refused")
        /\ creation' = [k \in Creations |->
             IF CreationBusy(k) THEN [creation[k] EXCEPT !.crossed = TRUE] ELSE creation[k]]
        /\ UNCHANGED <<programme, itemTicket>>

\* TICKET_POLICY_LOCKED once a ticket of the event was ordered.
CountSold(u) ==
    /\ update[u].step = "count"
    /\ IF \E i \in Items : Sold(i) THEN EndsAs(u, "refused") ELSE GoesTo(u, "existing")
    /\ UNCHANGED <<programme, itemTicket, creation>>

\* A day some ticket is bound to is not removed.  (Mutant: it is.)
DoomsNothing(u) == FALSE

Dooms(u) == \E t \in tickets : boundDay[t] \in days \ update[u].days

ReadExisting(u) ==
    /\ update[u].step = "existing"
    /\ IF Dooms(u) THEN EndsAs(u, "refused") ELSE GoesTo(u, "replace")
    /\ UNCHANGED <<programme, itemTicket, creation>>

\* Mutant: the tickets are deleted whatever was ordered.
ReplaceSold(u) ==
    LET kept == IF update[u].changed THEN {} ELSE tickets IN
    /\ update[u].step = "replace"
    /\ GoesTo(u, "write")
    /\ days' = update[u].days
    /\ tickets' = kept
    /\ boundDay' = [t \in Tickets |->
         IF t \in kept /\ boundDay[t] \in update[u].days
         THEN boundDay[t] ELSE Null]
    /\ crossed' = crossed \cap kept
    /\ UNCHANGED <<policy, itemTicket, creation>>

\* One transaction.  A changed policy deletes every ticket, which the foreign
\* key of an order item refuses; a removed day is set to NULL in its tickets,
\* and a day that stays keeps its row.
ReplaceDays(u) ==
    LET kept == IF update[u].changed THEN {} ELSE tickets IN
    /\ update[u].step = "replace"
    /\ IF \E i \in Items : itemTicket[i] \in tickets \ kept
       THEN EndsAs(u, "refused") /\ UNCHANGED <<days, tickets, boundDay, crossed, creation>>
       ELSE /\ GoesTo(u, "write")
            /\ days' = update[u].days
            /\ tickets' = kept
            /\ boundDay' = [t \in Tickets |->
                 IF t \in kept /\ boundDay[t] \in update[u].days
                 THEN boundDay[t] ELSE Null]
            /\ crossed' = crossed \cap kept
            /\ creation' = [k \in Creations |->
                 IF creation[k].step = "insert" /\ creation[k].day \in days \ update[u].days
                 THEN [creation[k] EXCEPT !.gone = TRUE] ELSE creation[k]]
    /\ UNCHANGED <<policy, itemTicket>>

\* The update of the event, in a statement of its own.
WritePolicy(u) ==
    /\ update[u].step = "write"
    /\ policy' = IF update[u].policy = Null THEN policy ELSE update[u].policy
    /\ EndsAs(u, "done")
    /\ UNCHANGED <<days, tickets, boundDay, crossed, itemTicket, creation>>

-----------------------------------------------------------------------------
(* createTicket and deleteTicket.                                          *)

CreationEnds(k, end) == creation' = [creation EXCEPT ![k] = [NoCreation EXCEPT !.step = end]]

\* The policy decides whether a day must be given.
BeginCreation(k, d) ==
    /\ creation[k].step = "idle"
    /\ IF TicketDayMatches(policy, d)
       THEN creation' = [creation EXCEPT ![k] =
              [step |-> IF d = Null THEN "insert" ELSE "findDay", day |-> d,
               crossed |-> \E u \in Updates : UpdateBusy(u), gone |-> FALSE]]
       ELSE CreationEnds(k, "refused")
    /\ UNCHANGED <<programme, itemTicket, update>>

FindDay(k) ==
    /\ creation[k].step = "findDay"
    /\ IF creation[k].day \in days
       THEN creation' = [creation EXCEPT ![k].step = "insert"]
       ELSE CreationEnds(k, "refused")
    /\ UNCHANGED <<programme, itemTicket, update>>

\* The foreign key refuses a day that disappeared since FindDay, even if its date
\* was added again: that is another row.
InsertTicket(k, t) ==
    /\ creation[k].step = "insert"
    /\ t \notin tickets
    /\ IF ~creation[k].gone
       THEN /\ tickets' = tickets \cup {t}
            /\ boundDay' = [boundDay EXCEPT ![t] = creation[k].day]
            /\ crossed' = IF creation[k].crossed THEN crossed \cup {t} ELSE crossed
            /\ CreationEnds(k, "done")
       ELSE /\ CreationEnds(k, "refused")
            /\ UNCHANGED <<tickets, boundDay, crossed>>
    /\ UNCHANGED <<policy, days, itemTicket, update>>

\* One statement; the foreign key refuses a ticket with orders.
DeleteTicket(t) ==
    /\ t \in tickets
    /\ \A i \in Items : itemTicket[i] # t
    /\ tickets' = tickets \ {t}
    /\ boundDay' = [boundDay EXCEPT ![t] = Null]
    /\ crossed' = crossed \ {t}
    /\ UNCHANGED <<policy, days, itemTicket, update, creation>>

\* The transaction of initPayment: items are never deleted.
Order(i, t) ==
    /\ ~Sold(i)
    /\ t \in tickets
    /\ itemTicket' = [itemTicket EXCEPT ![i] = t]
    /\ UNCHANGED <<programme, update, creation>>

-----------------------------------------------------------------------------
UpdateMyEvent(u) ==
    \/ \E p \in Policies \cup {Null}, ds \in DayLists \cup {{}} : BeginUpdate(u, p, ds)
    \/ CountSold(u)
    \/ ReadExisting(u)
    \/ WritePolicy(u)

CreateTicket(k) ==
    \/ \E d \in Dates \cup {Null} : BeginCreation(k, d)
    \/ FindDay(k)
    \/ \E t \in Tickets : InsertTicket(k, t)

\* Every step but ReplaceDays, to which scanner/ adds what the deletion of a day
\* cascades to.
ProgrammeStep ==
    \/ \E u \in Updates : UpdateMyEvent(u)
    \/ \E k \in Creations : CreateTicket(k)
    \/ \E t \in Tickets : DeleteTicket(t)
    \/ \E i \in Items, t \in Tickets : Order(i, t)

ProgrammeNext == ProgrammeStep \/ \E u \in Updates : ReplaceDays(u)

ProgrammeSpec == ProgrammeInit /\ [][ProgrammeNext]_programmeVars
-----------------------------------------------------------------------------
(* Properties. *)

\* Types, with the foreign keys: a ticket is bound to a day that exists, an item
\* to a ticket that exists, and a creation to the row of the day it found.
ProgrammeTypeOK ==
    /\ policy \in Policies
    /\ days \in SUBSET Dates
    /\ tickets \in SUBSET Tickets
    /\ boundDay \in [Tickets -> days \cup {Null}]
    /\ crossed \in SUBSET tickets
    /\ itemTicket \in [Items -> tickets \cup {Null}]
    /\ update \in [Updates ->
         [step : UpdateSteps, policy : Policies \cup {Null},
          days : SUBSET Dates, changed : BOOLEAN]]
    /\ creation \in [Creations ->
         [step : CreationSteps, day : Dates \cup {Null}, crossed : BOOLEAN, gone : BOOLEAN]]
    /\ \A k \in Creations : creation[k].step = "insert" /\ ~creation[k].gone =>
         creation[k].day \in days \cup {Null}

\* A ticket somebody ordered opens a day of the event where one is needed: the
\* gate never finds a paid ticket without its day (events.service.ts, the third
\* guard of applyDaysAndPolicy; tickets.service.ts, assertTicketDayMatchesPolicy),
\* whatever calls of the organiser overlap.  Only a ticket created while an edit was
\* in progress may lose its day: the edit had counted the tickets before.
SoldTicketOpensADay ==
    policy = "PER_DAY" =>
        \A i \in Items : Sold(i) => boundDay[itemTicket[i]] \in days \/ itemTicket[i] \in crossed

\* Somebody has ordered a ticket that no edit of the programme overlapped.
Locked == \E i \in Items : Sold(i) /\ itemTicket[i] \notin crossed

\* The policy of an event does not change under tickets already ordered
\* (TICKET_POLICY_LOCKED), whatever calls overlap.  Only a ticket created and ordered
\* between an edit's transaction and its last statement may see it change.
PolicyIsLocked == [][Locked => policy' = policy]_programmeVars
=============================================================================
