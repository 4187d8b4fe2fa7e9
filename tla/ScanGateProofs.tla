--------------------------- MODULE ScanGateProofs ---------------------------
(* Proofs about the programme of an event, edited while buyers order, and   *)
(* about its gate, for any scans, agents, tickets and dates.                *)
EXTENDS ScanGate, TLAPS

LEMMA NullIsNoDate == Null \notin Dates \cup Tickets
  BY NullIsApart, DatesAreNumbers

LEMMA InitIsTyped == ProgrammeInit => ProgrammeTypeOK
  BY NullIsNoDate, ListsAreDates DEF ProgrammeInit, ProgrammeTypeOK, Policies, UpdateSteps,
     CreationSteps, NoUpdate, NoCreation

UpdateType == [step : UpdateSteps, policy : Policies \cup {Null},
               days : SUBSET Dates, changed : BOOLEAN]
CreationType == [step : CreationSteps, day : Dates \cup {Null},
                 crossed : BOOLEAN, gone : BOOLEAN]

\* Calls that end are typed, and keep no argument.
LEMMA UpdateEnded ==
    ASSUME ProgrammeTypeOK, NEW u \in Updates, NEW end \in {"done", "refused"}, EndsAs(u, end)
    PROVE  update' \in [Updates -> UpdateType]
<1>1. [NoUpdate EXCEPT !.step = end] \in UpdateType
  BY DEF NoUpdate, UpdateType, UpdateSteps
<1> QED
  BY <1>1 DEF ProgrammeTypeOK, EndsAs, UpdateType

LEMMA CreationEnded ==
    ASSUME ProgrammeTypeOK, NEW k \in Creations, NEW end \in {"done", "refused"},
           CreationEnds(k, end)
    PROVE  /\ creation' \in [Creations -> CreationType]
           /\ creation'[k].step = end
           /\ \A l \in Creations \ {k} : creation'[l] = creation[l]
<1>1. /\ [NoCreation EXCEPT !.step = end] \in CreationType
      /\ [NoCreation EXCEPT !.step = end].step = end
  BY DEF NoCreation, CreationType, CreationSteps
<1> QED
  BY <1>1 DEF ProgrammeTypeOK, CreationEnds, CreationType

\* No item loses its ticket and no ticket keeps a day that is gone.
LEMMA StepIsTyped ==
    ASSUME ProgrammeTypeOK, [ProgrammeNext]_programmeVars
    PROVE  ProgrammeTypeOK'
<1> USE NullIsNoDate DEF ProgrammeTypeOK
<1>1. CASE UNCHANGED programmeVars
  BY <1>1 DEF programmeVars, programme
<1>2. ASSUME NEW u \in Updates, NEW p \in Policies \cup {Null},
             NEW ds \in DayLists \cup {{}}, BeginUpdate(u, p, ds)
      PROVE  ProgrammeTypeOK'
  <2>1. ds \in SUBSET Dates
    BY ListsAreDates
  <2>2. update' \in [Updates -> [step : UpdateSteps, policy : Policies \cup {Null},
                                 days : SUBSET Dates, changed : BOOLEAN]]
    <3>1. CASE EndsAs(u, "refused")
      BY <3>1, UpdateEnded DEF UpdateType
    <3>2. CASE ~EndsAs(u, "refused")
      <4> DEFINE new == [step |-> IF p # Null /\ p # policy THEN "count" ELSE "existing",
                         policy |-> p, days |-> ds, changed |-> p # Null /\ p # policy]
      <4>1. update' = [update EXCEPT ![u] = new]
        BY <1>2, <3>2 DEF BeginUpdate
      <4>2. (p # Null /\ p # policy) \in BOOLEAN
        OBVIOUS
      <4>3. new \in UpdateType
        BY <2>1, <4>2 DEF UpdateType, UpdateSteps
      <4> QED
        BY <4>1, <4>3 DEF UpdateType
    <3> QED
      BY <3>1, <3>2
  <2>3. \A k \in Creations :
          /\ creation'[k] \in [step : CreationSteps, day : Dates \cup {Null},
                               crossed : BOOLEAN, gone : BOOLEAN]
          /\ creation'[k].step = creation[k].step
          /\ creation'[k].day = creation[k].day
          /\ creation'[k].gone = creation[k].gone
    <3> TAKE k \in Creations
    <3>1. creation'[k] = creation[k] \/ creation'[k] = [creation[k] EXCEPT !.crossed = TRUE]
      BY <1>2 DEF BeginUpdate
    <3>2. creation[k] \in [step : CreationSteps, day : Dates \cup {Null},
                            crossed : BOOLEAN, gone : BOOLEAN]
      OBVIOUS
    <3> QED
      BY <3>1, <3>2
  <2>4. creation' = [k \in Creations |-> creation'[k]]
    BY <1>2 DEF BeginUpdate
  <2> QED
    BY <1>2, <2>2, <2>3, <2>4 DEF BeginUpdate, programme
<1>3. ASSUME NEW u \in Updates, CountSold(u) \/ ReadExisting(u)
      PROVE  ProgrammeTypeOK'
  <2>1. update' \in [Updates -> UpdateType]
    <3>1. CASE EndsAs(u, "refused")
      BY <3>1, UpdateEnded
    <3>2. CASE ~EndsAs(u, "refused")
      BY <1>3, <3>2 DEF CountSold, ReadExisting, GoesTo, UpdateSteps, UpdateType
    <3> QED
      BY <3>1, <3>2
  <2> QED
    BY <1>3, <2>1 DEF CountSold, ReadExisting, programme, UpdateType
<1>4. ASSUME NEW u \in Updates, ReplaceDays(u)
      PROVE  ProgrammeTypeOK'
  <2>1. update' \in [Updates -> [step : UpdateSteps, policy : Policies \cup {Null},
                                 days : SUBSET Dates, changed : BOOLEAN]]
    <3>1. CASE EndsAs(u, "refused")
      BY <3>1, UpdateEnded DEF UpdateType
    <3>2. CASE ~EndsAs(u, "refused")
      BY <1>4, <3>2 DEF ReplaceDays, GoesTo, UpdateSteps
    <3> QED
      BY <3>1, <3>2
  <2>2. CASE UNCHANGED <<days, tickets, boundDay, crossed, creation>>
    BY <1>4, <2>1, <2>2 DEF ReplaceDays
  <2>3. CASE ~UNCHANGED <<days, tickets, boundDay, crossed, creation>>
    <3>1. \A k \in Creations :
            /\ creation'[k] \in [step : CreationSteps, day : Dates \cup {Null},
                                 crossed : BOOLEAN, gone : BOOLEAN]
            /\ creation'[k].step = "insert" /\ ~creation'[k].gone =>
                 creation'[k].day \in days' \cup {Null}
      <4> TAKE k \in Creations
      <4> DEFINE lost == creation[k].step = "insert" /\ creation[k].day \in days \ days'
      <4>1. creation'[k] = IF lost THEN [creation[k] EXCEPT !.gone = TRUE] ELSE creation[k]
        BY <1>4, <2>3 DEF ReplaceDays
      <4>2. creation[k].step = "insert" /\ ~creation[k].gone /\ ~lost =>
              creation[k].day \in days' \cup {Null}
        OBVIOUS
      <4>3. creation[k] \in [step : CreationSteps, day : Dates \cup {Null},
                             crossed : BOOLEAN, gone : BOOLEAN]
        OBVIOUS
      <4> HIDE DEF lost
      <4> QED
        BY <4>1, <4>2, <4>3
    <3>2. creation' = [k \in Creations |-> creation'[k]]
      BY <1>4, <2>3 DEF ReplaceDays
    <3>3. /\ days' \in SUBSET Dates /\ tickets' \in SUBSET Tickets
          /\ boundDay' \in [Tickets -> days' \cup {Null}]
          /\ crossed' \in SUBSET tickets'
      BY <1>4, <2>3 DEF ReplaceDays
    <3>4. itemTicket' \in [Items -> tickets' \cup {Null}]
      BY <1>4, <2>3 DEF ReplaceDays
    <3> QED
      BY <1>4, <2>1, <3>1, <3>2, <3>3, <3>4 DEF ReplaceDays
  <2> QED
    BY <2>2, <2>3
<1>5. ASSUME NEW u \in Updates, WritePolicy(u)
      PROVE  ProgrammeTypeOK'
  <2>1. update' \in [Updates -> UpdateType]
    BY <1>5, UpdateEnded DEF WritePolicy
  <2> QED
    BY <1>5, <2>1 DEF WritePolicy, UpdateType
<1>6. ASSUME NEW k \in Creations, NEW d \in Dates \cup {Null}, BeginCreation(k, d)
      PROVE  ProgrammeTypeOK'
  <2>1. CASE CreationEnds(k, "refused")
    BY <1>6, <2>1, CreationEnded DEF BeginCreation, programme, CreationType
  <2>2. CASE ~CreationEnds(k, "refused")
    <3> DEFINE crossing == \E u \in Updates : UpdateBusy(u)
               new == [step |-> IF d = Null THEN "insert" ELSE "findDay", day |-> d,
                       crossed |-> crossing, gone |-> FALSE]
    <3>1. /\ creation' = [creation EXCEPT ![k] = new]
          /\ UNCHANGED <<programme, itemTicket, update>>
      BY <1>6, <2>2 DEF BeginCreation
    <3>2. crossing \in BOOLEAN
      OBVIOUS
    <3>3. new.step = "insert" => new.day = Null
      OBVIOUS
    <3> HIDE DEF crossing
    <3>4. new \in CreationType
      BY <3>2 DEF CreationType, CreationSteps
    <3> HIDE DEF new
    <3> QED
      BY <3>1, <3>3, <3>4 DEF programme, CreationType
  <2> QED
    BY <2>1, <2>2
<1>7. ASSUME NEW k \in Creations, FindDay(k)
      PROVE  ProgrammeTypeOK'
  <2>1. CASE CreationEnds(k, "refused")
    BY <1>7, <2>1, CreationEnded DEF FindDay, programme, CreationType
  <2>2. CASE ~CreationEnds(k, "refused")
    BY <1>7, <2>2 DEF FindDay, programme, CreationSteps
  <2> QED
    BY <2>1, <2>2
<1>8. ASSUME NEW k \in Creations, NEW t \in Tickets, InsertTicket(k, t)
      PROVE  ProgrammeTypeOK'
  <2>1. CreationEnds(k, "done") \/ CreationEnds(k, "refused")
    BY <1>8 DEF InsertTicket
  <2>2. creation' \in [Creations -> [step : CreationSteps, day : Dates \cup {Null},
                                     crossed : BOOLEAN, gone : BOOLEAN]]
    BY <2>1, CreationEnded DEF CreationType
  <2>3. \A l \in Creations : creation'[l].step = "insert" /\ ~creation'[l].gone =>
          creation'[l].day \in days \cup {Null}
    BY <2>1, CreationEnded
  <2>4. tickets' \in SUBSET Tickets /\ tickets \subseteq tickets' /\ crossed' \in SUBSET tickets'
    BY <1>8 DEF InsertTicket
  <2>5. boundDay' \in [Tickets -> days \cup {Null}]
    BY <1>8 DEF InsertTicket
  <2> QED
    BY <1>8, <2>2, <2>3, <2>4, <2>5 DEF InsertTicket
<1>9. ASSUME NEW t \in Tickets, DeleteTicket(t)
      PROVE  ProgrammeTypeOK'
  BY <1>9 DEF DeleteTicket
<1>10. ASSUME NEW i \in Items, NEW t \in Tickets, Order(i, t)
       PROVE  ProgrammeTypeOK'
  BY <1>10 DEF Order, programme
<1> QED
  BY <1>1, <1>2, <1>3, <1>4, <1>5, <1>6, <1>7, <1>8, <1>9, <1>10
     DEF ProgrammeNext, ProgrammeStep, UpdateMyEvent, CreateTicket

\* An item once ordered remains.
LEMMA SoldStays ==
    ASSUME ProgrammeTypeOK, [ProgrammeNext]_programmeVars, NEW i \in Items, Sold(i)
    PROVE  Sold(i)'
<1>1. ASSUME NEW j \in Items, NEW t \in Tickets, Order(j, t)
      PROVE  Sold(i)'
  BY <1>1 DEF ProgrammeTypeOK, Order, Sold
<1>2. CASE UNCHANGED itemTicket
  BY <1>2 DEF Sold
<1> QED
  BY <1>1, <1>2 DEF ProgrammeNext, ProgrammeStep, UpdateMyEvent, CreateTicket, BeginUpdate,
     CountSold, ReadExisting, ReplaceDays, WritePolicy, BeginCreation, FindDay,
     InsertTicket, DeleteTicket, programmeVars

\* Every order item has its ticket and every bound ticket its day, in every
\* interleaving of organisers and buyers.
THEOREM ProgrammeIsTyped == ProgrammeSpec => []ProgrammeTypeOK
<1> QED
  BY InitIsTyped, StepIsTyped, PTL DEF ProgrammeSpec

-----------------------------------------------------------------------------
(* What holds of a ticket no edit overlapped, however the calls of the       *)
(* organiser and the orders of buyers interleave.                            *)

Uncrossed == tickets \ crossed

Effective(u) == IF update[u].policy = Null THEN policy ELSE update[u].policy

\* While such a ticket exists, an update in progress dooms no day of it and will
\* write the policy in force, unless its transaction deletes the ticket first.
UpdateSpares(u) ==
    UpdateBusy(u) =>
        /\ update[u].step = "replace" =>
             \A t \in Uncrossed : boundDay[t] \in update[u].days \cup {Null}
        /\ update[u].step = "write" /\ update[u].changed => Uncrossed = {}
        /\ Uncrossed # {} => update[u].changed \/ Effective(u) = policy

\* A creation no edit has overlapped yet still knows the policy, and its day.
CreationKnows(k) ==
    CreationBusy(k) /\ ~creation[k].crossed =>
        /\ \A u \in Updates : ~UpdateBusy(u)
        /\ TicketDayMatches(policy, creation[k].day)
        /\ ~creation[k].gone

Spared ==
    /\ \A t \in Uncrossed : TicketDayMatches(policy, boundDay[t])
    /\ \A u \in Updates : UpdateSpares(u)
    /\ \A k \in Creations : CreationKnows(k)

LEMMA InitSpared == ProgrammeInit => Spared
  BY DEF ProgrammeInit, NoUpdate, NoCreation, Spared, Uncrossed, UpdateSpares, CreationKnows,
     UpdateBusy, CreationBusy

\* A step of an update, the first apart: what it does to the tickets spared.
LEMMA StepUpdateSpares ==
    ASSUME ProgrammeTypeOK, Spared, NEW u \in Updates,
           CountSold(u) \/ ReadExisting(u) \/ ReplaceDays(u) \/ WritePolicy(u)
    PROVE  /\ UpdateBusy(u)
           /\ policy' = policy \/ Uncrossed' = {}
           /\ Uncrossed' \subseteq Uncrossed
           /\ \A t \in Uncrossed' : boundDay'[t] = boundDay[t]
           /\ \A v \in Updates \ {u} : update'[v] = update[v]
           /\ \A k \in Creations : /\ creation'[k].step = creation[k].step
                                   /\ creation'[k].crossed = creation[k].crossed
<1> USE NullIsNoDate DEF ProgrammeTypeOK, UpdateBusy, Uncrossed
<1>1. CASE CountSold(u)
  BY <1>1 DEF CountSold, GoesTo, EndsAs, programme
<1>2. CASE ReadExisting(u)
  BY <1>2 DEF ReadExisting, GoesTo, EndsAs, programme
<1>3. CASE ReplaceDays(u)
  <2>1. UpdateBusy(u) /\ \A v \in Updates \ {u} : update'[v] = update[v]
    BY <1>3 DEF ReplaceDays, GoesTo, EndsAs
  <2>2. \A k \in Creations : /\ creation'[k].step = creation[k].step
                             /\ creation'[k].crossed = creation[k].crossed
    BY <1>3 DEF ReplaceDays
  <2>3. \A t \in Uncrossed : boundDay[t] \in update[u].days \cup {Null}
    BY <1>3 DEF ReplaceDays, Spared, UpdateSpares
  <2>4. policy' = policy /\ Uncrossed' \subseteq Uncrossed
    BY <1>3 DEF ReplaceDays
  <2>5. \A t \in Uncrossed' : boundDay'[t] = boundDay[t]
    BY <1>3, <2>3, <2>4 DEF ReplaceDays
  <2> QED
    BY <2>1, <2>2, <2>4, <2>5
<1>4. CASE WritePolicy(u)
  <2>1. policy' = Effective(u)
    BY <1>4 DEF WritePolicy, Effective
  <2>2. Uncrossed # {} => Effective(u) = policy
    BY <1>4 DEF WritePolicy, Spared, UpdateSpares
  <2> QED
    BY <1>4, <2>1, <2>2 DEF WritePolicy, EndsAs
<1> QED
  BY <1>1, <1>2, <1>3, <1>4

LEMMA StepSpared ==
    ASSUME ProgrammeTypeOK, Spared, [ProgrammeNext]_programmeVars
    PROVE  Spared'
<1>1. CASE UNCHANGED programmeVars
  BY <1>1 DEF programmeVars, programme, Spared, Uncrossed, UpdateSpares, CreationKnows,
     UpdateBusy, CreationBusy, Effective, TicketDayMatches
<1>2. ASSUME NEW u \in Updates, NEW p \in Policies \cup {Null},
             NEW ds \in DayLists \cup {{}}, BeginUpdate(u, p, ds)
      PROVE  Spared'
  <2>1. \A t \in Uncrossed' : TicketDayMatches(policy, boundDay[t])'
    BY <1>2 DEF BeginUpdate, programme, Spared, Uncrossed, TicketDayMatches
  <2>2. \A v \in Updates \ {u} : UpdateSpares(v)'
    <3>1. \A v \in Updates \ {u} : update'[v] = update[v]
      BY <1>2 DEF ProgrammeTypeOK, BeginUpdate, EndsAs
    <3> QED
      BY <1>2, <3>1 DEF BeginUpdate, programme, Spared, Uncrossed, UpdateSpares, UpdateBusy,
         Effective
  <2>3. UpdateSpares(u)'
    <3>1. \/ update'[u].step = "refused"
          \/ /\ update'[u].step \in {"count", "existing"}
             /\ update'[u].policy = p
             /\ update'[u].changed <=> p # Null /\ p # policy
      <4>1. CASE EndsAs(u, "refused")
        BY <4>1 DEF ProgrammeTypeOK, EndsAs, NoUpdate
      <4>2. CASE ~EndsAs(u, "refused")
        <5> DEFINE changed == p # Null /\ p # policy
        <5>1. update'[u] = [step |-> IF changed THEN "count" ELSE "existing",
                            policy |-> p, days |-> ds, changed |-> changed]
          BY <1>2, <4>2 DEF ProgrammeTypeOK, BeginUpdate
        <5> HIDE DEF changed
        <5>2. /\ update'[u].step \in {"count", "existing"}
              /\ update'[u].policy = p
              /\ update'[u].changed = changed
          BY <5>1
        <5> QED
          BY <5>2 DEF changed
      <4> QED
        BY <4>1, <4>2
    <3> QED
      BY <1>2, <3>1 DEF BeginUpdate, programme, UpdateSpares, UpdateBusy, Effective
  <2>4. \A k \in Creations : CreationBusy(k)' => creation'[k].crossed
    BY <1>2 DEF ProgrammeTypeOK, BeginUpdate, CreationBusy
  <2> QED
    BY <2>1, <2>2, <2>3, <2>4 DEF Spared, CreationKnows
<1>3. ASSUME NEW u \in Updates,
             CountSold(u) \/ ReadExisting(u) \/ ReplaceDays(u) \/ WritePolicy(u)
      PROVE  Spared'
  <2>1. /\ UpdateBusy(u)
        /\ policy' = policy \/ Uncrossed' = {}
        /\ Uncrossed' \subseteq Uncrossed
        /\ \A t \in Uncrossed' : boundDay'[t] = boundDay[t]
        /\ \A v \in Updates \ {u} : update'[v] = update[v]
        /\ \A k \in Creations : /\ creation'[k].step = creation[k].step
                                /\ creation'[k].crossed = creation[k].crossed
    BY <1>3, StepUpdateSpares
  <2>2. \A t \in Uncrossed' : TicketDayMatches(policy, boundDay[t])'
    BY <2>1 DEF Spared, TicketDayMatches
  <2>3. \A v \in Updates \ {u} : UpdateSpares(v)'
    BY <2>1 DEF Spared, UpdateSpares, UpdateBusy, Effective
  <2>4. UpdateSpares(u)'
    <3> SUFFICES ASSUME UpdateBusy(u)'
                 PROVE  UpdateSpares(u)'
      BY DEF UpdateSpares
    <3>1. /\ update'[u].policy = update[u].policy
          /\ update'[u].changed = update[u].changed
          /\ update'[u].days = update[u].days
      BY <1>3 DEF ProgrammeTypeOK, CountSold, ReadExisting, ReplaceDays, WritePolicy, GoesTo,
         EndsAs, NoUpdate, UpdateBusy
    <3>2. Uncrossed' # {} => update'[u].changed \/ Effective(u)' = policy'
      BY <2>1, <3>1 DEF Spared, UpdateSpares, Effective
    <3>3. update'[u].step = "replace" =>
            \A t \in Uncrossed' : boundDay'[t] \in update'[u].days \cup {Null}
      <4>1. update'[u].step = "replace" => ReadExisting(u) /\ ~Dooms(u)
        BY <1>3 DEF ProgrammeTypeOK, CountSold, ReadExisting, ReplaceDays, WritePolicy, GoesTo,
           EndsAs, NoUpdate
      <4>2. ~Dooms(u) => \A t \in Uncrossed : boundDay[t] \in update[u].days \cup {Null}
        BY DEF ProgrammeTypeOK, Dooms, Uncrossed
      <4> QED
        BY <2>1, <3>1, <4>1, <4>2
    <3>4. update'[u].step = "write" /\ update'[u].changed => Uncrossed' = {}
      <4>1. update'[u].step = "write" => ReplaceDays(u) /\ (update[u].changed => tickets' = {})
        BY <1>3 DEF ProgrammeTypeOK, CountSold, ReadExisting, ReplaceDays, WritePolicy, GoesTo,
           EndsAs, NoUpdate
      <4> QED
        BY <3>1, <4>1 DEF Uncrossed
    <3> QED
      BY <3>2, <3>3, <3>4 DEF UpdateSpares
  <2>5. \A k \in Creations : ~(CreationBusy(k)' /\ ~creation'[k].crossed)
    BY <2>1 DEF Spared, CreationKnows, CreationBusy
  <2> QED
    BY <2>2, <2>3, <2>4, <2>5 DEF Spared, CreationKnows
<1>4. ASSUME NEW k \in Creations,
             (\E d \in Dates \cup {Null} : BeginCreation(k, d)) \/ FindDay(k)
      PROVE  Spared'
  <2>1. UNCHANGED <<policy, tickets, boundDay, crossed, update>>
    BY <1>4 DEF BeginCreation, FindDay, programme
  <2>2. \A l \in Creations \ {k} : creation'[l] = creation[l]
    BY <1>4 DEF ProgrammeTypeOK, BeginCreation, FindDay, CreationEnds
  <2>3. CreationKnows(k)'
    BY <1>4, <2>1 DEF ProgrammeTypeOK, Spared, CreationKnows, CreationBusy, UpdateBusy,
       BeginCreation, FindDay, CreationEnds, NoCreation, TicketDayMatches
  <2>4. \A l \in Creations : CreationKnows(l)'
    BY <2>1, <2>2, <2>3 DEF Spared, CreationKnows, CreationBusy, UpdateBusy, TicketDayMatches
  <2> QED
    BY <2>1, <2>4 DEF Spared, Uncrossed, UpdateSpares, UpdateBusy, Effective, TicketDayMatches
<1>5. ASSUME NEW k \in Creations, NEW t \in Tickets, InsertTicket(k, t)
      PROVE  Spared'
  <2>1. /\ UNCHANGED <<policy, update>>
        /\ \A l \in Creations \ {k} : creation'[l] = creation[l]
        /\ ~CreationBusy(k)'
    BY <1>5 DEF ProgrammeTypeOK, InsertTicket, CreationEnds, NoCreation, CreationBusy
  <2>2. \A l \in Creations : CreationKnows(l)'
    BY <2>1 DEF Spared, CreationKnows, CreationBusy, UpdateBusy, TicketDayMatches
  <2>3. CASE Uncrossed' = Uncrossed
    <3>1. \A v \in Uncrossed : boundDay'[v] = boundDay[v]
      BY <1>5, <2>3 DEF ProgrammeTypeOK, InsertTicket, Uncrossed
    <3> QED
      BY <2>1, <2>2, <2>3, <3>1 DEF Spared, UpdateSpares, UpdateBusy, Effective, TicketDayMatches
  <2>4. CASE Uncrossed' # Uncrossed
    <3>1. /\ ~creation[k].crossed /\ CreationBusy(k)
          /\ Uncrossed' = Uncrossed \cup {t}
          /\ boundDay' = [boundDay EXCEPT ![t] = creation[k].day]
      BY <1>5, <2>4 DEF ProgrammeTypeOK, InsertTicket, Uncrossed, CreationBusy
    <3>2. \A u \in Updates : ~UpdateBusy(u)'
      BY <2>1, <3>1 DEF Spared, CreationKnows, UpdateBusy
    <3>3. \A v \in Uncrossed' : TicketDayMatches(policy, boundDay[v])'
      BY <2>1, <3>1 DEF ProgrammeTypeOK, Spared, CreationKnows, TicketDayMatches
    <3> QED
      BY <2>2, <3>2, <3>3 DEF Spared, UpdateSpares
  <2> QED
    BY <2>3, <2>4
<1>6. ASSUME NEW t \in Tickets, DeleteTicket(t)
      PROVE  Spared'
  <2>1. /\ UNCHANGED <<policy, update, creation>>
        /\ Uncrossed' \subseteq Uncrossed
        /\ \A v \in Uncrossed' : boundDay'[v] = boundDay[v]
    BY <1>6 DEF ProgrammeTypeOK, DeleteTicket, Uncrossed
  <2> QED
    BY <2>1 DEF Spared, UpdateSpares, UpdateBusy, Effective, CreationKnows, CreationBusy,
       TicketDayMatches
<1>7. ASSUME NEW i \in Items, NEW t \in Tickets, Order(i, t)
      PROVE  Spared'
  BY <1>7 DEF Order, programme, Spared, Uncrossed, UpdateSpares, UpdateBusy, Effective,
     CreationKnows, CreationBusy, TicketDayMatches
<1> QED
  BY <1>1, <1>2, <1>3, <1>4, <1>5, <1>6, <1>7
     DEF ProgrammeNext, ProgrammeStep, UpdateMyEvent, CreateTicket

\* The tickets no edit overlapped are spared by every edit, whatever calls of the
\* organiser and orders interleave.
THEOREM TicketsAreSpared == ProgrammeSpec => [](ProgrammeTypeOK /\ Spared)
<1> QED
  BY InitIsTyped, StepIsTyped, InitSpared, StepSpared, PTL DEF ProgrammeSpec

\* Under PER_DAY a ticket somebody ordered opens a day of the event, unless an edit
\* was in progress when it was created.
THEOREM SoldTicketsOpenADay == ProgrammeSpec => []SoldTicketOpensADay
<1>1. ProgrammeTypeOK /\ Spared => SoldTicketOpensADay
  BY NullIsNoDate DEF ProgrammeTypeOK, Spared, Uncrossed, TicketDayMatches,
     SoldTicketOpensADay, Sold
<1> QED
  BY <1>1, TicketsAreSpared, PTL

\* The policy does not change under an ordered ticket that no edit overlapped.
LEMMA PolicyStays ==
    ASSUME ProgrammeTypeOK, Spared, [ProgrammeNext]_programmeVars, Locked
    PROVE  policy' = policy
<1>1. ASSUME NEW u \in Updates, WritePolicy(u)
      PROVE  policy' = policy
  <2>1. Uncrossed # {}
    BY DEF ProgrammeTypeOK, Locked, Uncrossed, Sold
  <2>2. policy' = Effective(u)
    BY <1>1 DEF WritePolicy, Effective
  <2> QED
    BY <1>1, <2>1, <2>2 DEF Spared, UpdateSpares, UpdateBusy, WritePolicy
<1> QED
  BY <1>1 DEF ProgrammeNext, ProgrammeStep, UpdateMyEvent, CreateTicket, BeginUpdate,
     CountSold, ReadExisting, ReplaceDays, BeginCreation, FindDay, InsertTicket,
     DeleteTicket, Order, programmeVars, programme

\* TICKET_POLICY_LOCKED in every interleaving of the organiser's calls and orders,
\* for an event with an order on such a ticket.
THEOREM PolicyLocked == ProgrammeSpec => PolicyIsLocked
<1>1. ProgrammeTypeOK /\ Spared /\ [ProgrammeNext]_programmeVars
        => [Locked => policy' = policy]_programmeVars
  BY PolicyStays
<1> QED
  BY <1>1, TicketsAreSpared, PTL DEF ProgrammeSpec, PolicyIsLocked

-----------------------------------------------------------------------------
(* Frame of the gate.                                                      *)

\* Every step of the gate is a step of the programme or leaves it alone.
LEMMA ProgrammeMoves == [Next]_vars => [ProgrammeNext]_programmeVars
  BY DEF Next, vars, gateVars, ProgrammeNext, ValidateScan, StartScan, ReadScanner,
     ReadItem, Decide, Mark, Enter, RecordScan, LoseScan, ManageScanner, SetActive,
     CountLogs, DeleteScanner, SettleOrder, ReplaceDaysOfGate, SetStatus, NextDay

\* Steps that are not a scan's leave every scan as it is.
LEMMA ScansMove ==
    ASSUME [Next]_vars, scan' # scan
    PROVE  \E s \in Scans : ValidateScan(s)
  BY DEF Next, vars, gateVars, ManageScanner, SetActive, CountLogs, DeleteScanner,
     SettleOrder, ReplaceDaysOfGate, SetStatus, NextDay

-----------------------------------------------------------------------------
(* Types and foreign keys.                                                 *)

LEMMA InitGateTyped == Init => TypeOK
<1>1. ASSUME Init PROVE scan \in [Scans -> ScanCalls]
  BY <1>1 DEF Init, NoScan, ScanCalls, ScanSteps, Codes, Accounts, OrderStatuses
<1> QED
  BY <1>1, InitIsTyped, DatesAreNumbers DEF Init, TypeOK, Accounts, OrderStatuses

\* What a call of validateScan knows of its item, and how far its answer is.
KnownOf(s) ==
    /\ scan[s].step # "idle" =>
         scan[s].agent \in Agents /\ scan[s].item \in Items /\ Sold(scan[s].item)
    /\ scan[s].step \in {"idle", "reading"} => scan[s].result = Null /\ scan[s].day = Null
    /\ scan[s].step = "mark"  => scan[s].result = "VALID" /\ scan[s].day = Null
    /\ scan[s].step = "enter" => scan[s].result = "VALID" /\ scan[s].day # Null

\* The day a scan is about to enter exists, or its row is known to be gone.
RowOf(s) == scan[s].step = "enter" => s \in rowGone \/ scan[s].day \in days

Known ==
    /\ \A i \in Items : order[i] # "PENDING" => Sold(i)
    /\ \A s \in Scans : KnownOf(s) /\ RowOf(s)

LEMMA InitKnown == Init => Known
  BY DEF Init, Known, KnownOf, RowOf, NoScan

\* A step of one scan leaves the others where they are, and itself typed.
LEMMA StepScanTyped ==
    ASSUME TypeOK, Known, NEW s \in Scans, ValidateScan(s)
    PROVE  /\ scan' = [scan EXCEPT ![s] = scan'[s]]
           /\ scan'[s] \in ScanCalls
<1>1. scan \in [Scans -> ScanCalls] /\ scan[s] \in ScanCalls
  BY DEF TypeOK
<1>2. ASSUME NEW a \in Agents, NEW i \in Items, NEW c \in Codes, StartScan(s, a, i, c)
      PROVE  scan' = [scan EXCEPT ![s] = scan'[s]] /\ scan'[s] \in ScanCalls
  BY <1>1, <1>2 DEF StartScan, NoScan, ScanSteps, ScanCalls, Accounts, OrderStatuses
<1>3. CASE ReadScanner(s)
  <2>1. scanner[scan[s].agent] \in Accounts
    BY <1>3 DEF TypeOK, Known, KnownOf, ReadScanner
  <2> QED
    BY <1>1, <1>3, <2>1 DEF ReadScanner, ScanCalls
<1>4. CASE ReadItem(s)
  <2>1. order[scan[s].item] \in OrderStatuses
    BY <1>4 DEF TypeOK, Known, KnownOf, ReadItem
  <2> DEFINE used == scan[s].item \in isScanned
             ord  == order[scan[s].item]
  <2>2. scan' = [scan EXCEPT ![s].unread = @ \ {"item"}, ![s].used = used, ![s].order = ord]
    BY <1>4 DEF ReadItem
  <2>3. used \in BOOLEAN /\ ord \in OrderStatuses
    BY <2>1
  <2> HIDE DEF used, ord
  <2> QED
    BY <1>1, <2>2, <2>3 DEF ScanCalls
<1>5. CASE Decide(s)
  <2>1. Decision(s) \in Results
    BY <1>1 DEF Decision, Results
  <2>2. today \in Nat
    BY DEF TypeOK
  <2> QED
    BY <1>1, <1>5, <2>1, <2>2 DEF Decide, ScanSteps, ScanCalls
<1>6. CASE Mark(s)
  BY <1>1, <1>6 DEF Mark, ScanSteps, Results, ScanCalls
<1>7. CASE Enter(s)
  BY <1>1, <1>7 DEF Enter, ScanSteps, Results, ScanCalls
<1>8. CASE RecordScan(s)
  BY <1>1, <1>8 DEF RecordScan, ScanSteps, ScanCalls
<1>9. CASE LoseScan(s)
  BY <1>1, <1>9 DEF LoseScan, ScanSteps, ScanCalls
<1> QED
  BY <1>2, <1>3, <1>4, <1>5, <1>6, <1>7, <1>8, <1>9 DEF ValidateScan

\* A step of a scan touches its own marks and log, nothing else.
LEMMA StepScanFrame ==
    ASSUME TypeOK, Known, NEW s \in Scans, ValidateScan(s)
    PROVE  /\ UNCHANGED <<programmeVars, today, published, order, scanner, removing, rowGone>>
           /\ logged' \in SUBSET Scans
           /\ trouble' \in Nat
           /\ \/ isScanned' = isScanned
              \/ Mark(s) /\ isScanned' = isScanned \cup {scan[s].item}
           /\ \/ dayScans' = dayScans
              \/ /\ Enter(s) /\ scan[s].day \in days
                 /\ dayScans' = dayScans \cup {<<scan[s].item, scan[s].day>>}
<1>1. trouble' \in Nat
  <2>1. trouble' = trouble \/ Happens
    BY DEF ValidateScan, StartScan, ReadScanner, ReadItem, Decide, Mark, Enter, RecordScan,
       LoseScan
  <2> QED
    BY <2>1 DEF TypeOK, Happens
<1>2. CASE \E a \in Agents, i \in Items, c \in Codes : StartScan(s, a, i, c)
  BY <1>1, <1>2 DEF TypeOK, StartScan
<1>3. CASE ReadScanner(s) \/ ReadItem(s) \/ Decide(s)
  BY <1>1, <1>3 DEF TypeOK, ReadScanner, ReadItem, Decide
<1>4. CASE Mark(s)
  BY <1>1, <1>4 DEF TypeOK, Mark
<1>5. CASE Enter(s)
  BY <1>1, <1>5 DEF TypeOK, Known, RowOf, Enter
<1>6. CASE RecordScan(s) \/ LoseScan(s)
  BY <1>1, <1>6 DEF TypeOK, RecordScan, LoseScan
<1> QED
  BY <1>2, <1>3, <1>4, <1>5, <1>6 DEF ValidateScan

\* The days change with ReplaceDays alone.
LEMMA DaysMove == ProgrammeStep => days' = days
  BY DEF ProgrammeStep, UpdateMyEvent, CreateTicket, BeginUpdate, CountSold, ReadExisting,
     WritePolicy, BeginCreation, FindDay, InsertTicket, DeleteTicket, Order, programme

LEMMA StepGateTyped ==
    ASSUME TypeOK, Known, [Next]_vars
    PROVE  TypeOK'
<1>1. ProgrammeTypeOK'
  BY StepIsTyped, ProgrammeMoves DEF TypeOK
<1>2. CASE UNCHANGED vars
  BY <1>1, <1>2 DEF TypeOK, vars, gateVars, programmeVars, programme
<1>3. ASSUME NEW s \in Scans, ValidateScan(s)
      PROVE  TypeOK'
  <2>1. scan' \in [Scans -> ScanCalls]
    BY <1>3, StepScanTyped DEF TypeOK
  <2>2. days' = days /\ UNCHANGED <<today, published, order, scanner, removing, rowGone>>
    BY <1>3, StepScanFrame DEF programmeVars, programme
  <2>0. Mark(s) \/ Enter(s) => scan[s].item \in Items
    BY DEF Known, KnownOf, Mark, Enter
  <2>3. isScanned' \in SUBSET Items
    BY <1>3, <2>0, StepScanFrame DEF TypeOK
  <2>4. dayScans' \in SUBSET (Items \X days)
    BY <1>3, <2>0, StepScanFrame DEF TypeOK
  <2>5. logged' \in SUBSET Scans /\ trouble' \in Nat
    BY <1>3, StepScanFrame
  <2> QED
    BY <1>1, <2>1, <2>2, <2>3, <2>4, <2>5 DEF TypeOK
<1>4. ASSUME NEW a \in Agents, ManageScanner(a)
      PROVE  TypeOK'
  <2>1. /\ scanner' \in [Agents -> Accounts] /\ removing' \in SUBSET Agents
        /\ trouble' \in Nat
    BY <1>4 DEF TypeOK, ManageScanner, SetActive, CountLogs, DeleteScanner, Accounts, Happens
  <2>2. UNCHANGED <<programmeVars, today, published, order, isScanned, dayScans, logged,
                    rowGone, scan>>
    BY <1>4 DEF ManageScanner, SetActive, CountLogs, DeleteScanner
  <2> QED
    BY <1>1, <2>1, <2>2 DEF TypeOK, programmeVars, programme
<1>5. ASSUME NEW i \in Items, SettleOrder(i)
      PROVE  TypeOK'
  BY <1>1, <1>5 DEF TypeOK, SettleOrder, Happens, OrderStatuses, programmeVars, programme
<1>6. ASSUME NEW u \in Updates, ReplaceDaysOfGate(u)
      PROVE  TypeOK'
  <2>1. dayScans' \in SUBSET (Items \X days')
    BY <1>6 DEF TypeOK, ReplaceDaysOfGate
  <2> QED
    BY <1>1, <1>6, <2>1 DEF TypeOK, ReplaceDaysOfGate
<1>7. CASE ProgrammeStep /\ UNCHANGED gateVars
  BY <1>1, <1>7, DaysMove DEF TypeOK, gateVars
<1>8. CASE SetStatus
  <2>1. published' \in BOOLEAN /\ trouble' \in Nat
    BY <1>8 DEF TypeOK, SetStatus, Happens
  <2> QED
    BY <1>1, <1>8, <2>1 DEF TypeOK, SetStatus, programmeVars, programme
<1>9. CASE NextDay
  BY <1>1, <1>9 DEF TypeOK, NextDay, programmeVars, programme
<1> QED
  BY <1>2, <1>3, <1>4, <1>5, <1>6, <1>7, <1>8, <1>9 DEF Next

\* How a step of a scan moves what is known of that scan.
LEMMA StepKnownOf ==
    ASSUME TypeOK, Known, NEW s \in Scans, ValidateScan(s)
    PROVE  KnownOf(s)'
<1>1. scan \in [Scans -> ScanCalls] /\ scan[s] \in ScanCalls /\ KnownOf(s)
  BY DEF TypeOK, Known
<1>2. itemTicket' = itemTicket
  BY StepScanFrame DEF programmeVars
<1> USE <1>1, <1>2 DEF KnownOf, Sold, ScanCalls
<1>3. ASSUME NEW a \in Agents, NEW i \in Items, NEW c \in Codes, StartScan(s, a, i, c)
      PROVE  KnownOf(s)'
  BY <1>3 DEF Known, StartScan, NoScan
<1>4. CASE ReadScanner(s)
  BY <1>4 DEF ReadScanner
<1>5. CASE ReadItem(s)
  BY <1>5 DEF ReadItem
<1>6. CASE Decide(s)
  <2>1. today # Null
    BY NullIsApart DEF TypeOK
  <2> QED
    BY <1>6, <2>1 DEF Decide
<1>7. CASE Mark(s)
  BY <1>7 DEF Mark
<1>8. CASE Enter(s)
  BY <1>8 DEF Enter
<1>9. CASE RecordScan(s)
  BY <1>9 DEF RecordScan
<1>10. CASE LoseScan(s)
  BY <1>10 DEF LoseScan
<1> QED
  BY <1>3, <1>4, <1>5, <1>6, <1>7, <1>8, <1>9, <1>10 DEF ValidateScan

LEMMA StepRowOf ==
    ASSUME TypeOK, Known, [Next]_vars, NEW s \in Scans
    PROVE  RowOf(s)'
<1>1. CASE UNCHANGED <<scan, days, rowGone>>
  BY <1>1 DEF Known, RowOf
<1>2. ASSUME NEW r \in Scans, ValidateScan(r)
      PROVE  RowOf(s)'
  <2>1. UNCHANGED <<days, rowGone>>
    BY <1>2, StepScanFrame DEF programmeVars, programme
  <2>2. CASE s # r
    <3>1. scan'[s] = scan[s]
      BY <1>2, <2>2, StepScanTyped DEF TypeOK
    <3> QED
      BY <2>1, <3>1 DEF Known, RowOf
  <2>3. CASE s = r
    <3>1. CASE Decide(s)
      <4>1. Decision(s) = "VALID" /\ policy = "PASS_ALL_DAYS" => today \in days
        <5>1. scan[s].code \notin {"EXPIRED", "INVALID"} => scan[s].code # "VALID"
          BY DEF TypeOK, ScanCalls, Codes
        <5> QED
          BY DEF Decision, WrongDay
      <4>2. scan'[s].step = "enter" =>
              Decision(s) = "VALID" /\ policy = "PASS_ALL_DAYS" /\ scan'[s].day = today
        BY <3>1 DEF TypeOK, ScanCalls, Decide
      <4> QED
        BY <2>1, <4>1, <4>2 DEF RowOf
    <3>2. CASE ~Decide(s)
      <4>1. scan'[s].step # "enter"
        <5>1. scan \in [Scans -> ScanCalls] /\ scan[s] \in ScanCalls
          BY DEF TypeOK
        <5>2. CASE \E a \in Agents, i \in Items, c \in Codes : StartScan(s, a, i, c)
          BY <5>1, <5>2 DEF ScanCalls, StartScan, NoScan
        <5>3. CASE ReadScanner(s)
          BY <5>1, <5>3 DEF ScanCalls, ReadScanner
        <5>4. CASE ReadItem(s)
          BY <5>1, <5>4 DEF ScanCalls, ReadItem
        <5>5. CASE Mark(s)
          BY <5>1, <5>5 DEF ScanCalls, Mark
        <5>6. CASE Enter(s)
          BY <5>1, <5>6 DEF ScanCalls, Enter
        <5>7. CASE RecordScan(s) \/ LoseScan(s)
          BY <5>1, <5>7 DEF ScanCalls, RecordScan, LoseScan
        <5> QED
          BY <1>2, <2>3, <3>2, <5>2, <5>3, <5>4, <5>5, <5>6, <5>7 DEF ValidateScan
      <4> QED
        BY <4>1 DEF RowOf
    <3> QED
      BY <3>1, <3>2
  <2> QED
    BY <2>2, <2>3
<1>3. ASSUME NEW u \in Updates, ReplaceDaysOfGate(u)
      PROVE  RowOf(s)'
  BY <1>3 DEF Known, KnownOf, ReplaceDaysOfGate, RowOf
<1>4. CASE ProgrammeStep /\ UNCHANGED gateVars
  BY <1>1, <1>4, DaysMove DEF gateVars
<1> QED
  BY <1>1, <1>2, <1>3, <1>4 DEF Next, vars, gateVars, programmeVars, programme,
     ManageScanner, SetActive, CountLogs, DeleteScanner, SettleOrder, SetStatus, NextDay

LEMMA StepKnown ==
    ASSUME TypeOK, Known, [Next]_vars
    PROVE  Known'
<1>1. \A i \in Items : Sold(i) => Sold(i)'
  BY SoldStays, ProgrammeMoves DEF TypeOK
<1>2. \A i \in Items : order'[i] # "PENDING" => Sold(i)
  <2>1. CASE order' = order
    BY <2>1 DEF Known
  <2>2. ASSUME NEW j \in Items, SettleOrder(j)
        PROVE  \A i \in Items : order'[i] # "PENDING" => Sold(i)
    BY <2>2 DEF TypeOK, Known, SettleOrder
  <2>3. ASSUME NEW s \in Scans, ValidateScan(s)
        PROVE  order' = order
    BY <2>3, StepScanFrame
  <2> QED
    BY <2>1, <2>2, <2>3 DEF Next, vars, gateVars, ManageScanner, SetActive, CountLogs,
       DeleteScanner, ReplaceDaysOfGate, SetStatus, NextDay
<1>3. CASE UNCHANGED scan
  BY <1>1, <1>2, <1>3, StepRowOf DEF Known, KnownOf
<1>4. ASSUME NEW s \in Scans, ValidateScan(s)
      PROVE  Known'
  <2>1. \A r \in Scans \ {s} : scan'[r] = scan[r]
    BY <1>4, StepScanTyped DEF TypeOK
  <2>2. \A r \in Scans \ {s} : KnownOf(r)'
    BY <1>1, <2>1 DEF Known, KnownOf
  <2>3. KnownOf(s)'
    BY <1>4, StepKnownOf
  <2> QED
    BY <1>1, <1>2, <2>2, <2>3, StepRowOf DEF Known
<1> QED
  BY <1>3, <1>4, ScansMove

THEOREM KnownIsKept == Spec => [](TypeOK /\ Known)
<1> QED
  BY InitGateTyped, StepGateTyped, InitKnown, StepKnown, PTL DEF Spec

\* The gate's tables are typed and keep their foreign keys: an entry of a pass
\* names a day the event still declares.
THEOREM GateIsTyped == Spec => []TypeOK
<1> QED
  BY KnownIsKept, PTL

-----------------------------------------------------------------------------
(* What the answer ALREADY_USED means.                                     *)

\* A scan past its decision keeps its item, its day and its answer.
LEMMA AnsweredStays ==
    ASSUME TypeOK, Known, [Next]_vars, NEW r \in Scans,
           scan[r].step \in {"log", "answered", "failed"}
    PROVE  /\ scan'[r].step \in {"log", "answered", "failed"}
           /\ scan'[r].item = scan[r].item
           /\ scan'[r].day = scan[r].day
           /\ scan'[r].result = scan[r].result
<1> DEFINE Stays == /\ scan'[r].step \in {"log", "answered", "failed"}
                    /\ scan'[r].item = scan[r].item
                    /\ scan'[r].day = scan[r].day
                    /\ scan'[r].result = scan[r].result
<1>1. CASE UNCHANGED scan
  BY <1>1
<1>2. ASSUME NEW s \in Scans, ValidateScan(s), s # r
      PROVE  Stays
  <2>1. scan'[r] = scan[r]
    BY <1>2, StepScanTyped DEF TypeOK
  <2> QED
    BY <2>1
<1>3. ASSUME ValidateScan(r)
      PROVE  Stays
  <2>1. scan \in [Scans -> ScanCalls] /\ scan[r] \in ScanCalls
    BY DEF TypeOK
  <2>2. RecordScan(r) \/ LoseScan(r)
    BY <1>3 DEF ValidateScan, StartScan, ReadScanner, ReadItem, Decide, Mark, Enter
  <2>3. CASE RecordScan(r)
    BY <2>1, <2>3 DEF RecordScan, ScanCalls
  <2>4. CASE LoseScan(r)
    BY <2>1, <2>4 DEF LoseScan, ScanCalls
  <2> QED
    BY <2>2, <2>3, <2>4
<1> QED
  BY <1>1, <1>2, <1>3, ScansMove

\* A scan that has its answer is past its decision.
LEMMA AnsweredIsPast ==
    ASSUME TypeOK, Known, NEW r \in Scans, scan[r].result \in Results,
           scan[r].step \notin {"mark", "enter"}
    PROVE  scan[r].step \in {"log", "answered", "failed"}
  BY NullIsNoResult DEF TypeOK, ScanCalls, ScanSteps, Known, KnownOf

\* Some scan has let the holder of item i in, for day d.
Marked(i, d) == \E r \in Scans : Admitted(r) /\ scan[r].item = i /\ scan[r].day = d

LEMMA MarkedStays ==
    ASSUME TypeOK, Known, [Next]_vars, NEW i, NEW d, Marked(i, d)
    PROVE  Marked(i, d)'
<1>1. PICK r \in Scans : Admitted(r) /\ scan[r].item = i /\ scan[r].day = d
  BY DEF Marked
<1>2. scan[r].step \in {"log", "answered", "failed"}
  BY <1>1, AnsweredIsPast DEF Admitted, Results
<1>3. Admitted(r)' /\ scan'[r].item = i /\ scan'[r].day = d
  BY <1>1, <1>2, AnsweredStays DEF Admitted
<1> QED
  BY <1>3 DEF Marked

\* Every row of the tables was put there by a scan that let the holder in, and a
\* refusal rests on such a row.
BackedOf(s) ==
    /\ scan[s].step = "reading" /\ scan[s].used => Marked(scan[s].item, Null)
    /\ scan[s].result = "ALREADY_USED" => Marked(scan[s].item, scan[s].day)

Backed ==
    /\ \A i \in isScanned : Marked(i, Null)
    /\ \A x \in dayScans : Marked(x[1], x[2])
    /\ \A s \in Scans : BackedOf(s)

LEMMA InitBacked == Init => Backed
  BY NullIsNoResult DEF Init, NoScan, Backed, BackedOf, Results

LEMMA StepBackedOf ==
    ASSUME TypeOK, Known, Backed, NEW s \in Scans, ValidateScan(s)
    PROVE  BackedOf(s)'
<1>1. scan \in [Scans -> ScanCalls] /\ scan[s] \in ScanCalls /\ KnownOf(s) /\ BackedOf(s)
  BY DEF TypeOK, Known, Backed
<1>2. \A i, d : Marked(i, d) => Marked(i, d)'
  BY MarkedStays DEF Next
<1> SUFFICES /\ scan'[s].step = "reading" /\ scan'[s].used => Marked(scan'[s].item, Null)
             /\ scan'[s].result = "ALREADY_USED" => Marked(scan'[s].item, scan'[s].day)
  BY <1>2 DEF BackedOf
<1> USE <1>1 DEF ScanCalls, KnownOf, BackedOf
<1>3. ASSUME NEW a \in Agents, NEW i \in Items, NEW c \in Codes, StartScan(s, a, i, c)
      PROVE  scan'[s].used = FALSE /\ scan'[s].result = Null
  BY <1>3 DEF StartScan, NoScan
<1>4. CASE ReadScanner(s)
  BY <1>4, NullIsNoResult DEF ReadScanner, Results
<1>5. CASE ReadItem(s)
  <2>1. scan'[s].used => scan[s].item \in isScanned
    BY <1>5 DEF ReadItem
  <2>2. scan'[s].item = scan[s].item /\ scan'[s].result = Null
    BY <1>5 DEF ReadItem
  <2> QED
    BY <2>1, <2>2, NullIsNoResult DEF Backed, Results
<1>6. CASE Decide(s)
  <2>1. Decision(s) = "ALREADY_USED" => scan[s].used
    BY DEF Decision
  <2>2. /\ scan'[s].step # "reading" /\ scan'[s].item = scan[s].item
        /\ scan'[s].result = Decision(s)
        /\ Decision(s) = "ALREADY_USED" => scan'[s].day = Null
    BY <1>6 DEF Decide
  <2>3. scan[s].step = "reading"
    BY <1>6 DEF Decide
  <2> QED
    BY <2>1, <2>2, <2>3
<1>7. CASE Mark(s)
  <2>1. /\ scan'[s].step = "log" /\ scan'[s].item = scan[s].item /\ scan'[s].day = Null
        /\ scan'[s].result = "ALREADY_USED" => scan[s].item \in isScanned
    BY <1>7 DEF Mark
  <2> QED
    BY <2>1 DEF Backed
<1>8. CASE Enter(s)
  <2>1. /\ scan'[s].step # "reading"
        /\ scan'[s].item = scan[s].item /\ scan'[s].day = scan[s].day
        /\ scan'[s].result = "ALREADY_USED" => EnteredToday(s)
    BY <1>8, NullIsNoResult DEF Enter, Results
  <2> QED
    BY <2>1 DEF Backed, EnteredToday
<1>9. CASE RecordScan(s) \/ LoseScan(s)
  BY <1>9, NullIsNoResult DEF RecordScan, LoseScan, Results
<1> QED
  BY <1>3, <1>4, <1>5, <1>6, <1>7, <1>8, <1>9, NullIsNoResult DEF ValidateScan, Results

LEMMA StepBacked ==
    ASSUME TypeOK, Known, Backed, [Next]_vars
    PROVE  Backed'
<1>1. \A i, d : Marked(i, d) => Marked(i, d)'
  BY MarkedStays
<1>2. ASSUME NEW s \in Scans, ValidateScan(s)
      PROVE  Backed'
  <2>1. \A r \in Scans \ {s} : BackedOf(r)'
    <3>1. \A r \in Scans \ {s} : scan'[r] = scan[r]
      BY <1>2, StepScanTyped DEF TypeOK
    <3> QED
      BY <1>1, <3>1 DEF Backed, BackedOf
  <2>2. BackedOf(s)'
    BY <1>2, StepBackedOf
  <2>3. \A i \in isScanned' : Marked(i, Null)'
    <3>1. CASE isScanned' = isScanned
      BY <1>1, <3>1 DEF Backed
    <3>2. CASE Mark(s) /\ isScanned' = isScanned \cup {scan[s].item}
      <4>1. scan[s] \in ScanCalls /\ KnownOf(s)
        BY DEF TypeOK, Known
      <4>2. scan[s].item \notin isScanned =>
              /\ scan'[s].result = "VALID" /\ scan'[s].step = "log"
              /\ scan'[s].item = scan[s].item /\ scan'[s].day = Null
        BY <3>2, <4>1 DEF TypeOK, ScanCalls, KnownOf, Mark
      <4>3. \A i : i = scan[s].item /\ i \notin isScanned => Marked(i, Null)'
        BY <4>2 DEF Marked, Admitted
      <4> QED
        BY <1>1, <3>2, <4>3 DEF Backed
    <3> QED
      BY <1>2, <3>1, <3>2, StepScanFrame
  <2>4. \A x \in dayScans' : Marked(x[1], x[2])'
    <3>1. CASE dayScans' = dayScans
      BY <1>1, <3>1 DEF Backed
    <3>2. CASE /\ Enter(s) /\ scan[s].day \in days
               /\ dayScans' = dayScans \cup {<<scan[s].item, scan[s].day>>}
      <4>1. scan[s] \in ScanCalls /\ KnownOf(s)
        BY DEF TypeOK, Known
      <4>2. ~EnteredToday(s) =>
              /\ scan'[s].result = "VALID" /\ scan'[s].step = "log"
              /\ scan'[s].item = scan[s].item /\ scan'[s].day = scan[s].day
        <5>1. ~EnteredToday(s) => s \notin rowGone
          BY <3>2 DEF Enter, EnteredToday
        <5> QED
          BY <3>2, <4>1, <5>1 DEF TypeOK, ScanCalls, KnownOf, Enter
      <4>3. \A i, d : i = scan[s].item /\ d = scan[s].day /\ ~EnteredToday(s) => Marked(i, d)'
        BY <4>2 DEF Marked, Admitted
      <4> QED
        BY <1>1, <3>2, <4>3 DEF Backed, EnteredToday
    <3> QED
      BY <1>2, <3>1, <3>2, StepScanFrame
  <2> QED
    BY <2>1, <2>2, <2>3, <2>4 DEF Backed
<1>3. CASE UNCHANGED scan
  <2>1. \/ isScanned' = isScanned /\ dayScans' \subseteq dayScans
        \/ \E s \in Scans : ValidateScan(s)
    BY DEF Next, vars, gateVars, ManageScanner, SetActive, CountLogs, DeleteScanner,
       SettleOrder, ReplaceDaysOfGate, SetStatus, NextDay
  <2>2. CASE isScanned' = isScanned /\ dayScans' \subseteq dayScans
    BY <1>1, <1>3, <2>2 DEF Backed, BackedOf
  <2> QED
    BY <1>2, <2>1, <2>2
<1> QED
  BY <1>2, <1>3, ScansMove

\* ALREADY_USED is answered only where another scan of the ticket let its holder
\* in by the same kind of entry, in every interleaving, with overlapping edits,
\* lost answers and crashes.
THEOREM RefusalsAreRight == Spec => []RefusedOnlyIfUsed
<1>1. Backed => RefusedOnlyIfUsed
  BY DEF Backed, BackedOf, Marked, RefusedOnlyIfUsed, SameEntry, Admitted
<1> QED
  BY <1>1, KnownIsKept, InitBacked, StepBacked, PTL DEF Spec

-----------------------------------------------------------------------------
(* The journal.                                                            *)

\* Only scans that were answered are in the journal, under agents with a row.
Journal ==
    \A s \in logged : scan[s].step = "answered" /\ scanner[scan[s].agent] # "gone"

LEMMA StepJournal ==
    ASSUME TypeOK, Known, Journal, [Next]_vars
    PROVE  Journal'
<1>1. logged \subseteq Scans /\ \A s \in logged : scan[s].agent \in Agents
  BY DEF TypeOK, Known, KnownOf, Journal
<1>2. ASSUME NEW s \in Scans, ValidateScan(s)
      PROVE  Journal'
  <2>1. scanner' = scanner /\ \A r \in Scans \ {s} : scan'[r] = scan[r]
    BY <1>2, StepScanFrame, StepScanTyped DEF TypeOK
  <2>2. CASE RecordScan(s)
    <3>1. scan'[s].step = "answered" /\ scan'[s].agent = scan[s].agent
      BY <2>2 DEF TypeOK, ScanCalls, RecordScan
    <3> QED
      BY <1>1, <2>1, <2>2, <3>1 DEF Journal, RecordScan
  <2>3. CASE ~RecordScan(s)
    <3>1. logged' = logged /\ scan[s].step # "answered"
      BY <1>2, <2>3 DEF ValidateScan, StartScan, ReadScanner, ReadItem, Decide, Mark, Enter,
         LoseScan
    <3> QED
      BY <1>1, <2>1, <3>1 DEF Journal
  <2> QED
    BY <2>2, <2>3
<1>3. ASSUME NEW a \in Agents, ManageScanner(a)
      PROVE  Journal'
  <2>1. logged' = logged /\ scan' = scan
    BY <1>3 DEF ManageScanner, SetActive, CountLogs, DeleteScanner
  <2>2. \A b \in Agents : LogsOf(b) # {} /\ scanner[b] # "gone" => scanner'[b] # "gone"
    BY <1>3 DEF TypeOK, ManageScanner, SetActive, CountLogs, DeleteScanner
  <2> QED
    BY <1>1, <2>1, <2>2 DEF Journal, LogsOf
<1>4. CASE UNCHANGED <<logged, scan, scanner>>
  BY <1>4 DEF Journal
<1> QED
  BY <1>2, <1>3, <1>4 DEF Next, vars, gateVars, SettleOrder, ReplaceDaysOfGate, SetStatus, NextDay

\* The removal of an agent, which counts his logs in a statement of its own,
\* never leaves a row of the journal without its agent.
THEOREM JournalKept == Spec => []JournalIsTraceable
<1>1. Init => Journal
  BY DEF Init, Journal
<1>2. Journal => JournalIsTraceable
  BY DEF Journal, JournalIsTraceable
<1> QED
  BY <1>1, <1>2, KnownIsKept, StepJournal, PTL DEF Spec

-----------------------------------------------------------------------------
(* One entry per ticket.                                                    *)

\* An admission names a day exactly under PASS_ALL_DAYS, while the policy is locked
\* for its ticket, and its row is there as long as its day's is.
EntryOf(s) ==
    scan[s].result = "VALID" =>
        /\ itemTicket[scan[s].item] \notin crossed =>
             (scan[s].day # Null <=> policy = "PASS_ALL_DAYS")
        /\ Admitted(s) =>
             IF scan[s].day = Null
             THEN scan[s].item \in isScanned
             ELSE s \in rowGone \/ <<scan[s].item, scan[s].day>> \in dayScans

Entries == (\A s \in Scans : EntryOf(s)) /\ OneEntryPerTicket

LEMMA InitEntries == Init => Spared /\ Entries
  BY InitSpared, NullIsNoResult DEF Init, NoScan, Entries, EntryOf, Admitted,
     OneEntryPerTicket, Results

\* The ticket of an item sold stays, crossed or not as it was.
LEMMA CrossedStays ==
    ASSUME ProgrammeTypeOK, [ProgrammeNext]_programmeVars, NEW i \in Items, Sold(i)
    PROVE  /\ itemTicket'[i] = itemTicket[i]
           /\ itemTicket[i] \in crossed' <=> itemTicket[i] \in crossed
<1> USE DEF ProgrammeTypeOK, Sold
<1>1. ASSUME NEW u \in Updates, ReplaceDays(u)
      PROVE  UNCHANGED itemTicket /\ (itemTicket[i] \in crossed' <=> itemTicket[i] \in crossed)
  BY <1>1 DEF ReplaceDays
<1>2. ASSUME NEW k \in Creations, NEW t \in Tickets, InsertTicket(k, t)
      PROVE  UNCHANGED itemTicket /\ (itemTicket[i] \in crossed' <=> itemTicket[i] \in crossed)
  BY <1>2 DEF InsertTicket
<1>3. ASSUME NEW t \in Tickets, DeleteTicket(t)
      PROVE  UNCHANGED itemTicket /\ (itemTicket[i] \in crossed' <=> itemTicket[i] \in crossed)
  BY <1>3 DEF DeleteTicket
<1>4. ASSUME NEW j \in Items, NEW t \in Tickets, Order(j, t)
      PROVE  itemTicket'[i] = itemTicket[i] /\ crossed' = crossed
  BY <1>4 DEF Order, programme
<1>5. CASE UNCHANGED <<itemTicket, crossed>>
  BY <1>5
<1> QED
  BY <1>1, <1>2, <1>3, <1>4, <1>5 DEF ProgrammeNext, ProgrammeStep, UpdateMyEvent,
     CreateTicket, BeginUpdate, CountSold, ReadExisting, WritePolicy, BeginCreation,
     FindDay, programmeVars, programme

\* What a scan's admission rests on stays: its ticket, the policy that ticket locks,
\* and the row of its entry, which goes only with the row of its day.
LEMMA EntriesStay ==
    ASSUME TypeOK, Known, Spared, [Next]_vars,
           NEW r \in Scans, scan[r].result = "VALID"
    PROVE  /\ itemTicket'[scan[r].item] = itemTicket[scan[r].item]
           /\ itemTicket[scan[r].item] \in crossed' <=> itemTicket[scan[r].item] \in crossed
           /\ itemTicket[scan[r].item] \notin crossed => policy' = policy
           /\ isScanned \subseteq isScanned'
           /\ rowGone \subseteq rowGone'
           /\ scan[r].day # Null /\ <<scan[r].item, scan[r].day>> \in dayScans
                => r \in rowGone' \/ <<scan[r].item, scan[r].day>> \in dayScans'
<1>1. scan[r].item \in Items /\ Sold(scan[r].item)
  BY NullIsNoResult DEF TypeOK, ScanCalls, Known, KnownOf, Results
<1>2. /\ itemTicket'[scan[r].item] = itemTicket[scan[r].item]
      /\ itemTicket[scan[r].item] \in crossed' <=> itemTicket[scan[r].item] \in crossed
  BY <1>1, CrossedStays, ProgrammeMoves DEF TypeOK
<1>3. itemTicket[scan[r].item] \notin crossed => policy' = policy
  BY <1>1, PolicyStays, ProgrammeMoves DEF TypeOK, Locked
<1>4. ASSUME NEW s \in Scans, ValidateScan(s)
      PROVE  isScanned \subseteq isScanned' /\ dayScans \subseteq dayScans' /\ rowGone' = rowGone
  BY <1>4, StepScanFrame
<1>5. ASSUME NEW u \in Updates, ReplaceDaysOfGate(u)
      PROVE  /\ isScanned' = isScanned /\ rowGone \subseteq rowGone'
             /\ scan[r].day # Null /\ <<scan[r].item, scan[r].day>> \in dayScans
                  => r \in rowGone' \/ <<scan[r].item, scan[r].day>> \in dayScans'
  BY <1>5 DEF ReplaceDaysOfGate
<1>6. \/ isScanned' = isScanned /\ dayScans' = dayScans /\ rowGone' = rowGone
      \/ \E s \in Scans : ValidateScan(s)
      \/ \E u \in Updates : ReplaceDaysOfGate(u)
  BY DEF Next, vars, gateVars, ManageScanner, SetActive, CountLogs, DeleteScanner,
     SettleOrder, SetStatus, NextDay
<1> QED
  BY <1>2, <1>3, <1>4, <1>5, <1>6

\* A scan that is let in finds no row of its own.
LEMMA StepEntryOf ==
    ASSUME TypeOK, Known, NEW s \in Scans, EntryOf(s), ValidateScan(s)
    PROVE  /\ EntryOf(s)'
           /\ Admitted(s)' => scan'[s].item = scan[s].item /\ scan'[s].day = scan[s].day
           /\ Admitted(s)' /\ ~Admitted(s) =>
                /\ scan[s].result = "VALID"
                /\ scan[s].day = Null => scan[s].item \notin isScanned
                /\ scan[s].day # Null => <<scan[s].item, scan[s].day>> \notin dayScans
<1>1. scan \in [Scans -> ScanCalls] /\ scan[s] \in ScanCalls /\ KnownOf(s)
  BY DEF TypeOK, Known
<1>2. UNCHANGED <<policy, itemTicket, crossed, rowGone>>
  BY StepScanFrame DEF programmeVars, programme
<1>3. isScanned \subseteq isScanned' /\ dayScans \subseteq dayScans'
  BY StepScanFrame
<1> USE <1>1, <1>2, <1>3, NullIsNoResult DEF ScanCalls, KnownOf, EntryOf, Admitted, Results
<1>4. ASSUME NEW a \in Agents, NEW i \in Items, NEW c \in Codes, StartScan(s, a, i, c)
      PROVE  scan'[s].result = Null
  BY <1>4 DEF StartScan, NoScan
<1>5. CASE ReadScanner(s) \/ ReadItem(s)
  <2>1. scan'[s].result = Null
    BY <1>5 DEF ReadScanner, ReadItem
  <2> QED
    BY <2>1
<1>6. CASE Decide(s)
  <2>1. today # Null
    BY NullIsApart DEF TypeOK
  <2>2. scan'[s].result = "VALID" =>
          /\ scan'[s].step \in {"mark", "enter"}
          /\ scan'[s].day # Null <=> policy = "PASS_ALL_DAYS"
    BY <1>6, <2>1 DEF Decide
  <2> QED
    BY <2>2
<1>7. CASE Mark(s)
  <2>1. /\ scan'[s].step = "log" /\ scan'[s].item = scan[s].item /\ scan'[s].day = Null
        /\ scan[s].day = Null /\ scan[s].result = "VALID"
        /\ scan'[s].result = "VALID" => scan[s].item \notin isScanned
        /\ isScanned' = isScanned \cup {scan[s].item}
    BY <1>7 DEF Mark
  <2> QED
    BY <2>1
<1>8. CASE Enter(s)
  <2>1. /\ scan'[s].item = scan[s].item /\ scan'[s].day = scan[s].day
        /\ scan[s].day # Null /\ scan[s].result = "VALID"
        /\ scan'[s].result = "VALID" =>
             /\ <<scan[s].item, scan[s].day>> \notin dayScans
             /\ dayScans' = dayScans \cup {<<scan[s].item, scan[s].day>>}
    BY <1>8 DEF Enter, EnteredToday
  <2> QED
    BY <2>1
<1>9. CASE RecordScan(s) \/ LoseScan(s)
  <2>1. /\ scan'[s].item = scan[s].item /\ scan'[s].day = scan[s].day
        /\ scan'[s].result = "VALID" =>
             scan[s].step \notin {"mark", "enter"} /\ scan[s].result = "VALID"
    BY <1>9 DEF RecordScan, LoseScan
  <2> QED
    BY <2>1
<1> QED
  BY <1>4, <1>5, <1>6, <1>7, <1>8, <1>9 DEF ValidateScan

LEMMA StepEntries ==
    ASSUME TypeOK, Known, Spared, Entries, [Next]_vars
    PROVE  Entries'
<1>1. ASSUME NEW r \in Scans, scan'[r] = scan[r]
      PROVE  EntryOf(r)'
  BY <1>1, EntriesStay DEF Entries, EntryOf, Admitted
<1>2. \A r \in Scans : scan[r].result = "VALID" =>
        /\ itemTicket'[scan[r].item] = itemTicket[scan[r].item]
        /\ itemTicket[scan[r].item] \in crossed' <=> itemTicket[scan[r].item] \in crossed
        /\ rowGone \subseteq rowGone'
  BY EntriesStay
<1>3. CASE UNCHANGED scan
  <2>1. OneEntryPerTicket'
    BY <1>2, <1>3 DEF Entries, OneEntryPerTicket, Admitted
  <2> QED
    BY <1>1, <1>3, <2>1 DEF Entries
<1>4. ASSUME NEW s \in Scans, ValidateScan(s)
      PROVE  Entries'
  <2>1. /\ \A r \in Scans \ {s} : scan'[r] = scan[r]
        /\ itemTicket' = itemTicket /\ crossed' = crossed /\ rowGone' = rowGone
    BY <1>4, StepScanTyped, StepScanFrame DEF TypeOK, programmeVars, programme
  <2>2. \A r \in Scans : EntryOf(r)'
    BY <1>1, <1>4, <2>1, StepEntryOf DEF Entries
  <2>3. ASSUME NEW r \in Scans, r # s, Admitted(r), Admitted(s)', scan'[s].item = scan[r].item
        PROVE  \/ r \in rowGone
               \/ s \in rowGone
               \/ /\ scan'[s].day # scan[r].day
                  /\ Null \in {scan'[s].day, scan[r].day} => itemTicket[scan'[s].item] \in crossed
    <3>1. scan'[s].item = scan[s].item /\ scan'[s].day = scan[s].day
      BY <1>4, <2>3, StepEntryOf DEF Entries
    <3>2. CASE Admitted(s)
      BY <2>3, <3>1, <3>2 DEF Entries, OneEntryPerTicket
    <3>3. CASE ~Admitted(s)
      <4>1. /\ scan[s].result = "VALID"
            /\ scan[s].day = Null => scan[s].item \notin isScanned
            /\ scan[s].day # Null => <<scan[s].item, scan[s].day>> \notin dayScans
        BY <1>4, <2>3, <3>3, StepEntryOf DEF Entries
      <4> QED
        BY <2>3, <3>1, <4>1 DEF Entries, EntryOf, Admitted
    <3> QED
      BY <3>2, <3>3
  <2>4. OneEntryPerTicket'
    BY <2>1, <2>3 DEF Entries, OneEntryPerTicket, Admitted
  <2> QED
    BY <2>2, <2>4 DEF Entries
<1> QED
  BY <1>3, <1>4, ScansMove

\* Nobody enters twice on one ticket, in every interleaving of agents, organiser,
\* buyers and webhooks, with days removed and added again and processes lost, save
\* what the organiser undoes himself.
THEOREM OneEntry == Spec => []OneEntryPerTicket
<1>1. TypeOK /\ Known /\ Spared /\ Entries /\ [Next]_vars => (Spared /\ Entries)'
  BY StepSpared, StepEntries, ProgrammeMoves DEF TypeOK
<1>2. Entries => OneEntryPerTicket
  BY DEF Entries
<1> QED
  BY <1>1, <1>2, KnownIsKept, InitEntries, PTL DEF Spec
=============================================================================
