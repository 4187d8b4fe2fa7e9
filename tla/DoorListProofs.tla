---------------------------- MODULE DoorListProofs ----------------------------
(* Proofs about the list at the doors, for any guests, phones and calls: what *)
(* a phone shows when it waits for nothing.                                   *)
EXTENDS DoorList, TLAPS

\* Calls, and what they keep.
Steps == {"idle", "sent", "found", "written", "refused", "done"}

CallType == [step : Steps, by : Phones \cup {Desk}, guest : Guests \cup {NoList},
             write : Rows \cup {"gone"}, waiting : BOOLEAN, avant : Lists \cup {NoList}]

Typed ==
    /\ TypeOK
    /\ call \in [Calls -> CallType]
    /\ fetch \in [Phones -> Lists \cup {NoList, Asked}]
    /\ \A c \in Calls : call[c].step \in {"sent", "found"} => call[c].guest \in Guests
    /\ stale \in [Phones -> BOOLEAN]
    /\ marked \in [Guests -> Phones \cup {Desk, NoList}]
    /\ \A c \in Calls : call[c].step \in {"idle", "done"} => ~call[c].waiting

LEMMA ListingIsAList == Typed => Listing \in Lists
  BY DEF Typed, TypeOK, Listing, Registered, Lists, Rows

LEMMA InitTyped == Init => Typed
  BY DEF Init, Typed, TypeOK, CallType, NoCall, Steps, Lists, Rows

\* A call that goes on keeps its guest, one that ends waits for nothing.
LEMMA GoesTyped ==
    ASSUME Typed, NEW c \in Calls, NEW step \in {"found", "written", "refused"}, Goes(c, step),
           call[c].guest \in Guests
    PROVE  /\ call' \in [Calls -> CallType]
           /\ \A d \in Calls : call'[d].step \in {"idle", "done"} => ~call'[d].waiting
           /\ \A d \in Calls : call'[d].step \in {"sent", "found"} => call'[d].guest \in Guests
           /\ \A d \in Calls : call'[d].waiting => call'[d].by \in Phones /\ call'[d].avant \in Lists
<1> DEFINE next == IF call[c].waiting \/ step = "found"
                   THEN [call[c] EXCEPT !.step = step] ELSE [NoCall EXCEPT !.step = "done"]
<1>1. next \in CallType /\ (next.waiting => next.by \in Phones /\ next.avant \in Lists)
      /\ (next.step \in {"sent", "found"} => next.guest \in Guests)
      /\ (next.step \in {"idle", "done"} => ~next.waiting)
  BY DEF Typed, TypeOK, CallType, NoCall, Steps, Rows
<1>2. call' = [call EXCEPT ![c] = next]
  BY DEF Goes
<1> HIDE DEF next
<1> QED
  BY <1>1, <1>2 DEF Typed, TypeOK

LEMMA StepTyped ==
    ASSUME Typed, [Next]_vars PROVE Typed'
<1> USE DeskIsNoPhone, NoListIsNoList DEF Typed, TypeOK, CallType, Steps
<1>1. ASSUME NEW g \in Guests, Register(g) PROVE Typed'
  BY <1>1 DEF Register, Rows
<1>2. ASSUME NEW c \in Calls, Find(c) \/ Refuse(c) PROVE Typed'
  BY <1>2, GoesTyped DEF Find, Refuse
<1>3. ASSUME NEW c \in Calls, Write(c) PROVE Typed'
  <2>1. call[c].guest \in Guests /\ call[c].write \in Rows \cup {"gone"}
    BY <1>3 DEF Write, CallType
  <2>2. /\ call' \in [Calls -> CallType]
        /\ \A d \in Calls : call'[d].step \in {"sent", "found"} => call'[d].guest \in Guests
        /\ \A d \in Calls : call'[d].waiting => call'[d].by \in Phones /\ call'[d].avant \in Lists
        /\ \A d \in Calls : call'[d].step \in {"idle", "done"} => ~call'[d].waiting
    BY <1>3, <2>1, GoesTyped DEF Write
  <2>3. /\ registration' \in [Guests -> Rows \cup {"gone"}]
        /\ marked' \in [Guests -> Phones \cup {Desk, NoList}]
    BY <1>3, <2>1 DEF Write, CallType
  <2> QED
    BY <1>3, <2>2, <2>3 DEF Write
<1>4. ASSUME NEW c \in Calls, Succeed(c) PROVE Typed'
  BY <1>4 DEF Succeed, Invalidate, NoCall
<1>5. ASSUME NEW c \in Calls, Fail(c) PROVE Typed'
  BY <1>5 DEF Fail, Restore, Invalidate, NoCall
<1>6. ASSUME NEW c \in Calls, Cut(c) PROVE Typed'
  <2> DEFINE next == IF call[c].step = "written" THEN [NoCall EXCEPT !.step = "done"]
                     ELSE [call[c] EXCEPT !.waiting = FALSE, !.avant = NoList, !.by = Desk]
  <2>1. call' = [call EXCEPT ![c] = next]
    BY <1>6 DEF Cut
  <2>2. /\ next \in CallType /\ ~next.waiting
        /\ next.step \in {"sent", "found"} => next.guest \in Guests
    <3>1. CASE call[c].step = "written"
      BY <3>1 DEF NoCall, Rows
    <3>2. CASE call[c].step # "written"
      <4>1. call[c] \in CallType /\ call[c].step \in {"sent", "found"}
        BY <1>6, <3>2 DEF Cut
      <4> QED
        BY <3>2, <4>1
    <3> QED
      BY <3>1, <3>2
  <2>3. call[c].by \in Phones /\ call[c].avant \in Lists
    BY <1>6 DEF Cut
  <2>4. /\ shown' \in [Phones -> Lists \cup {NoList}] /\ stale' \in [Phones -> BOOLEAN]
        /\ fetch' \in [Phones -> Lists \cup {NoList, Asked}]
        /\ UNCHANGED <<registration, marked>>
    BY <1>6, <2>3 DEF Cut, Restore, Invalidate
  <2> HIDE DEF next
  <2> QED
    BY <2>1, <2>2, <2>4
<1>7. ASSUME NEW p \in Phones, Read(p) PROVE Typed'
  BY <1>7, ListingIsAList DEF Read
<1>8. ASSUME NEW p \in Phones, Poll(p) \/ Receive(p) \/ FetchFails(p) PROVE Typed'
  BY <1>8 DEF Poll, Receive, FetchFails
<1>9. ASSUME NEW g \in Guests, NEW c \in Calls, AtTheDesk(c, g) PROVE Typed'
  <2>1. PICK w \in {"expected", "arrived", "gone"} :
          call' = [call EXCEPT ![c] = [NoCall EXCEPT !.step = "sent", !.guest = g, !.write = w]]
    BY <1>9 DEF AtTheDesk
  <2>2. [NoCall EXCEPT !.step = "sent", !.guest = g, !.write = w] \in CallType
    BY DEF NoCall, Rows
  <2> QED
    BY <1>9, <2>1, <2>2 DEF AtTheDesk, NoCall
<1>10. ASSUME NEW p \in Phones, NEW g \in Guests, NEW c \in Calls, Tap(p, g, c) PROVE Typed'
  BY <1>10 DEF Tap, Toggled, Lists, Rows
<1>11. CASE UNCHANGED vars
  BY <1>11 DEF vars
<1> QED
  BY <1>1, <1>2, <1>3, <1>4, <1>5, <1>6, <1>7, <1>8, <1>9, <1>10, <1>11
     DEF Next, Service, Settle

-----------------------------------------------------------------------------
(* Marks.                                                                   *)

\* A row that nobody but p has written.
Own(p, g) == marked[g] \in {p, NoList}

\* p waits for the answer of a call that is written.
Answerable(p) == \E c \in Calls : call[c].waiting /\ call[c].by = p /\ call[c].step = "written"

\* What the service has read for a phone is what is stored, unless one of its own
\* marks was stored since, and then its answer, which drops the query, is to come.
ReadIsReal ==
    \A p \in Phones, g \in Guests :
        fetch[p] \notin {NoList, Asked} /\ ~Answerable(p) /\ Own(p, g)
            => fetch[p][g] = Listing[g]

Real ==
    /\ ReadIsReal
    /\ MarksAreReal

LEMMA InitReal == Init => Real
  BY NoListIsNoList DEF Init, Real, ReadIsReal, MarksAreReal, AtRest

\* Calls move, and nothing else.
LEMMA QuietReal ==
    ASSUME Real, UNCHANGED <<registration, marked, shown, fetch>>,
           \A p \in Phones : Answerable(p) => Answerable(p)',
           \A p \in Phones : AtRest(p)' => AtRest(p)
    PROVE  Real'
<1>1. Listing' = Listing /\ \A p, g : Own(p, g)' <=> Own(p, g)
  BY DEF Listing, Registered, Own
<1>2. ReadIsReal'
  BY <1>1 DEF Real, ReadIsReal
<1>3. MarksAreReal'
  BY <1>1 DEF Real, MarksAreReal
<1> QED
  BY <1>2, <1>3 DEF Real

\* A row is written: by the desk, or by a phone that waits for the answer.
LEMMA WriteReal ==
    ASSUME Typed, Real, NEW c \in Calls, Write(c) PROVE Real'
<1> USE DeskIsNoPhone
<1>0. PICK g \in Guests : g = call[c].guest
  BY DEF Write, Typed
<1>1. /\ UNCHANGED <<shown, stale, fetch>>
      /\ call[c].step = "found" /\ call[c] \in CallType
      /\ call[c].waiting => call[c].by \in Phones
  BY DEF Write, Typed, TypeOK
<1>2. /\ \A d \in Calls : call'[d].waiting <=> call[d].waiting
      /\ \A d \in Calls : call[d].waiting => call'[d].by = call[d].by
      /\ \A d \in Calls \ {c} : call'[d] = call[d]
  BY <1>1 DEF Write, Goes, NoCall, Typed, CallType
<1>3. \A p \in Phones : AtRest(p)' => AtRest(p)
  BY <1>1, <1>2 DEF AtRest
<1>4. \A p \in Phones : Answerable(p) => Answerable(p)'
  BY <1>1, <1>2 DEF Answerable
<1>5. CASE ~Registered(g)
  BY <1>0, <1>1, <1>3, <1>4, <1>5, QuietReal DEF Write
<1>6. CASE Registered(g)
  <2>1. /\ marked' = [marked EXCEPT ![g] = IF call[c].waiting THEN call[c].by ELSE Desk]
        /\ registration' = [registration EXCEPT ![g] = call[c].write]
        /\ call[c].waiting => call'[c].step = "written"
    BY <1>0, <1>6 DEF Write, Goes, Typed, CallType
  <2>2. \A h \in Guests \ {g} : Listing'[h] = Listing[h] /\ marked'[h] = marked[h]
    BY <2>1 DEF Listing, Registered, Typed, TypeOK
  <2>3. \A p \in Phones : Own(p, g)' => Answerable(p)' /\ ~AtRest(p)'
    BY <1>1, <1>2, <2>1 DEF Own, Answerable, AtRest, Typed
  <2>4. \A p \in Phones, h \in Guests \ {g} : Own(p, h)' => Own(p, h)
    BY <2>2 DEF Own
  <2>5. ReadIsReal'
    BY <1>1, <1>4, <2>2, <2>3, <2>4 DEF Real, ReadIsReal
  <2>6. MarksAreReal'
    BY <1>1, <1>3, <2>2, <2>3, <2>4 DEF Real, MarksAreReal, Own
  <2> QED
    BY <2>5, <2>6 DEF Real
<1> QED
  BY <1>5, <1>6

LEMMA StepReal ==
    ASSUME Typed, Typed', Real, [Next]_vars PROVE Real'
<1> USE DeskIsNoPhone, NoListIsNoList
<1>1. ASSUME NEW g \in Guests, Register(g) PROVE Real'
  BY <1>1 DEF Register, Real, ReadIsReal, MarksAreReal, AtRest, Own, Answerable, Listing,
     Registered, Typed, TypeOK
<1>2. ASSUME NEW c \in Calls, Find(c) \/ Refuse(c) PROVE Real'
  <2>1. /\ UNCHANGED <<registration, marked, shown, stale, fetch>>
        /\ call[c].step = "sent" /\ call[c] \in CallType
    BY <1>2 DEF Find, Refuse, Typed
  <2>0. PICK step \in {"found", "refused"} : Goes(c, step)
    BY <1>2 DEF Find, Refuse
  <2>2. /\ \A d \in Calls : call'[d].waiting <=> call[d].waiting
        /\ \A d \in Calls : call[d].waiting => call'[d].by = call[d].by
        /\ \A d \in Calls \ {c} : call'[d] = call[d]
    BY <2>0, <2>1 DEF Goes, NoCall, Typed, CallType
  <2>3. \A p \in Phones : AtRest(p)' => AtRest(p)
    BY <2>1, <2>2 DEF AtRest
  <2>4. \A p \in Phones : Answerable(p) => Answerable(p)'
    BY <2>1, <2>2 DEF Answerable
  <2> QED
    BY <2>1, <2>3, <2>4, QuietReal
<1>3. ASSUME NEW c \in Calls, Write(c) PROVE Real'
  BY <1>3, WriteReal
<1>4. ASSUME NEW c \in Calls, NEW p \in Phones, Invalidate(p), call[c].by = p,
             UNCHANGED <<registration, marked>>,
             \A d \in Calls \ {c} : call'[d] = call[d],
             \A q \in Phones \ {p} : shown'[q] = shown[q]
      PROVE  Real'
  <2>1. /\ fetch'[p] = Asked /\ stale'[p] = TRUE
        /\ \A q \in Phones \ {p} : fetch'[q] = fetch[q] /\ stale'[q] = stale[q]
    BY <1>4 DEF Invalidate, Typed
  <2>2. Listing' = Listing
    BY <1>4 DEF Listing, Registered
  <2>4. ~AtRest(p)'
    BY <2>1 DEF AtRest
  <2>5. ReadIsReal'
    <3> SUFFICES ASSUME NEW q \in Phones, NEW h \in Guests,
                        fetch'[q] \notin {NoList, Asked}, ~Answerable(q)', Own(q, h)'
                 PROVE  fetch'[q][h] = Listing'[h]
      BY DEF ReadIsReal
    <3>1. q # p
      BY <2>1
    <3>2. fetch[q] \notin {NoList, Asked} /\ ~Answerable(q) /\ Own(q, h)
      BY <3>1, <1>4, <2>1 DEF Answerable, Own
    <3> QED
      BY <3>1, <3>2, <2>1, <2>2 DEF Real, ReadIsReal
  <2>6. MarksAreReal'
    <3> SUFFICES ASSUME NEW q \in Phones, NEW h \in Guests,
                        AtRest(q)', Own(q, h)'
                 PROVE  shown'[q][h] = Listing'[h]
      BY DEF MarksAreReal, Own
    <3>1. q # p
      BY <2>4
    <3>2. AtRest(q) /\ Own(q, h) /\ shown'[q] = shown[q]
      BY <3>1, <1>4, <2>1 DEF AtRest, Own
    <3> QED
      BY <3>2, <2>2 DEF Real, MarksAreReal, Own
  <2> QED
    BY <2>5, <2>6 DEF Real
<1>5. ASSUME NEW c \in Calls, Succeed(c) \/ Fail(c) \/ Cut(c) PROVE Real'
  <2>1. /\ call[c].by \in Phones /\ Invalidate(call[c].by) /\ UNCHANGED <<registration, marked>>
        /\ \A d \in Calls \ {c} : call'[d] = call[d]
    BY <1>5 DEF Succeed, Fail, Cut, NoCall, Typed, TypeOK
  <2>2. \A q \in Phones \ {call[c].by} : shown'[q] = shown[q]
    BY <1>5 DEF Succeed, Fail, Cut, Restore, Typed, TypeOK
  <2> QED
    BY <1>4, <2>1, <2>2
<1>6. ASSUME NEW p \in Phones, Read(p) PROVE Real'
  BY <1>6 DEF Read, Real, ReadIsReal, MarksAreReal, AtRest, Own, Answerable, Listing,
     Registered, Typed
<1>7. ASSUME NEW p \in Phones, Poll(p) \/ FetchFails(p) PROVE Real'
  BY <1>7 DEF Poll, FetchFails, Real, ReadIsReal, MarksAreReal, AtRest, Own, Answerable,
     Listing, Registered, Typed
<1>8. ASSUME NEW p \in Phones, Receive(p) PROVE Real'
  BY <1>8 DEF Receive, Real, ReadIsReal, MarksAreReal, AtRest, Own, Answerable, Listing,
     Registered, Typed, TypeOK
<1>9. ASSUME NEW g \in Guests, NEW c \in Calls, AtTheDesk(c, g) PROVE Real'
  <2>1. /\ UNCHANGED <<registration, marked, shown, stale, fetch>>
        /\ call[c].step = "idle" /\ call[c] \in CallType
        /\ \A d \in Calls \ {c} : call'[d] = call[d]
    BY <1>9 DEF AtTheDesk, Unused, Typed
  <2>2. /\ \A p \in Phones : Answerable(p) => Answerable(p)'
        /\ ~call[c].waiting => \A p \in Phones : AtRest(p)' => AtRest(p)
    BY <2>1 DEF Answerable, AtRest
  <2>3. ~call[c].waiting
    BY <2>1 DEF Typed
  <2> QED
    BY <2>1, <2>2, <2>3, QuietReal
<1>10. ASSUME NEW p \in Phones, NEW g \in Guests, NEW c \in Calls, Tap(p, g, c) PROVE Real'
  <2>1. /\ fetch'[p] = NoList /\ call'[c].waiting /\ call'[c].by = p
        /\ \A q \in Phones \ {p} : fetch'[q] = fetch[q] /\ stale'[q] = stale[q]
                                  /\ shown'[q] = shown[q]
        /\ \A d \in Calls \ {c} : call'[d] = call[d]
        /\ UNCHANGED <<registration, marked>> /\ call[c].step = "idle"
    BY <1>10 DEF Tap, Unused, Typed, TypeOK
  <2>2. Listing' = Listing
    BY <2>1 DEF Listing, Registered
  <2>4. ~AtRest(p)'
    BY <2>1 DEF AtRest
  <2>5. ReadIsReal'
    <3> SUFFICES ASSUME NEW q \in Phones, NEW h \in Guests,
                        fetch'[q] \notin {NoList, Asked}, ~Answerable(q)', Own(q, h)'
                 PROVE  fetch'[q][h] = Listing'[h]
      BY DEF ReadIsReal
    <3>1. q # p
      BY <2>1
    <3>2. fetch[q] \notin {NoList, Asked} /\ ~Answerable(q) /\ Own(q, h)
      BY <3>1, <2>1 DEF Answerable, Own
    <3> QED
      BY <3>1, <3>2, <2>1, <2>2 DEF Real, ReadIsReal
  <2>6. ~call[c].waiting
    BY <2>1 DEF Typed
  <2>7. MarksAreReal'
    <3> SUFFICES ASSUME NEW q \in Phones, NEW h \in Guests,
                        AtRest(q)', Own(q, h)'
                 PROVE  shown'[q][h] = Listing'[h]
      BY DEF MarksAreReal, Own
    <3>1. q # p
      BY <2>4
    <3>2. AtRest(q) /\ Own(q, h) /\ shown'[q] = shown[q]
      BY <3>1, <2>1, <2>6 DEF AtRest, Own
    <3> QED
      BY <3>2, <2>2 DEF Real, MarksAreReal, Own
  <2> QED
    BY <2>5, <2>7 DEF Real
<1>11. CASE UNCHANGED vars
  BY <1>11 DEF vars, Real, ReadIsReal, MarksAreReal, AtRest, Own, Answerable, Listing,
     Registered
<1> QED
  BY <1>1, <1>2, <1>3, <1>5, <1>6, <1>7, <1>8, <1>9, <1>10, <1>11 DEF Next, Service, Settle

\* A phone shows rows of the table, never a withdrawn one, and a call that is waited
\* for belongs to a phone that kept its list.
THEOREM ListIsTyped == Spec => []TypeOK
<1>1. Typed => TypeOK
  BY DEF Typed
<1> QED
  BY <1>1, InitTyped, StepTyped, PTL DEF Spec

\* No phone at rest shows a mark that nobody stored, or misses one it stored, for any
\* number of doors, guests and overlapping marks.
THEOREM MarksReal == Spec => []MarksAreReal
<1>1. Real => MarksAreReal
  BY DEF Real
<1> QED
  BY <1>1, InitTyped, InitReal, StepTyped, StepReal, PTL DEF Spec
=============================================================================
