-------------------------- MODULE EventOfficeProofs --------------------------
(* Proofs about the payment providers of an organiser's events, for any       *)
(* number of events, providers and calls.                                     *)
EXTENDS EventOffice, WellFoundedInduction, TLAPS

-----------------------------------------------------------------------------
(* Types: whatever overlaps.                                                  *)

RowType == [active : BOOLEAN, global : BOOLEAN, keys : Requests \cup {First, None}, at : Nat]

CallType ==
    [step : Steps, op : Ops, event : Events \cup {None}, provider : Providers \cup {None},
     active : BOOLEAN, targets : SUBSET Events, left : SUBSET Events, seen : SUBSET Rows,
     wrote : SUBSET (Rows \X RowType), data : SUBSET (Rows \X RowType)]

InTransaction == {"others", "wait", "write", "commit"}

Tables ==
    /\ events \in SUBSET Events
    /\ clock \in Nat
    /\ apart \in SUBSET Rows
    /\ row \in [Rows -> RowType]
    /\ holder \in [Rows -> Requests \cup {None}]
    /\ \A x \in Rows : row[x].at <= clock /\ (Exists(x) => x[1] \in events)
    /\ \A x \in Rows : holder[x] # None => request[holder[x]].step \in InTransaction

\* A call of the organiser names an event of his; what its transaction wrote, it holds.
CallOK(r) ==
    /\ request[r].step \in {"targets", "exists", "remove"} \cup InTransaction =>
         /\ request[r].event \in events /\ request[r].provider \in Providers
         /\ request[r].left \subseteq events
    /\ request[r].step \in {"insert", "quota"} => request[r].event \in Events
    /\ request[r].step \in {"globals", "inherit"} => request[r].event \in events
    /\ \A w \in request[r].wrote :
         holder[w[1]] = r /\ w[1][1] \in events /\ w[2].at <= clock

Typed ==
    /\ Tables
    /\ request \in [Requests -> CallType]
    /\ \A r \in Requests : CallOK(r)

LEMMA NothingIsTyped ==
    /\ NoRow \in RowType /\ NoRow.at = 0 /\ NoRow.keys = None
    /\ NoCall \in CallType /\ NoCall.wrote = {} /\ NoCall.step = "idle"
  BY DEF NoRow, NoCall, RowType, CallType, Steps, Ops

LEMMA InitTyped == Init => Typed
<1> SUFFICES ASSUME Init PROVE Typed
  OBVIOUS
<1>1. row \in [Rows -> RowType] /\ \A x \in Rows : row[x].at = 0 /\ (Exists(x) => x[1] = First)
  <2>1. CASE row = [x \in Rows |-> NoRow]
    BY <2>1, NothingIsTyped DEF Exists
  <2>2. CASE \E p \in Providers :
               row = [x \in Rows |->
                        IF x[1] # First THEN NoRow
                        ELSE [active |-> x[2] = p, global |-> TRUE, keys |-> First, at |-> 0]]
    BY <2>2, NothingIsTyped DEF Exists, RowType
  <2> QED
    BY <2>1, <2>2 DEF Init
<1> QED
  BY <1>1, NothingIsTyped, FirstIsAnEvent DEF Init, Typed, Tables, CallOK, InTransaction

\* What a call of a typed state has.
LEMMA CallTyped ==
    ASSUME Typed, NEW r \in Requests
    PROVE  /\ request[r] \in CallType
           /\ request[r].step \in Steps /\ request[r].op \in Ops
           /\ request[r].event \in Events \cup {None}
           /\ request[r].provider \in Providers \cup {None} /\ request[r].active \in BOOLEAN
           /\ request[r].targets \subseteq Events
           /\ request[r].left \subseteq Events /\ request[r].seen \subseteq Rows
           /\ request[r].wrote \subseteq Rows \X RowType
           /\ request[r].data \subseteq Rows \X RowType
  BY DEF Typed, CallType

\* What a transaction has made of a row.
LEMMA LatestTyped ==
    ASSUME Typed, NEW r \in Requests, NEW x \in Rows
    PROVE  /\ Latest(r, x) \in RowType /\ Latest(r, x).at <= clock
           /\ \/ /\ Latest(r, x) = row[x]
                 /\ \A w \in request[r].wrote : w[1] # x
              \/ /\ <<x, Latest(r, x)>> \in request[r].wrote
                 /\ holder[x] = r /\ x[1] \in events
<1>1. CASE \E w \in request[r].wrote : w[1] = x
  <2>1. PICK w \in request[r].wrote : w[1] = x /\ Latest(r, x) = w[2]
    BY <1>1 DEF Latest
  <2>2. w \in Rows \X RowType /\ CallOK(r)
    BY CallTyped DEF Typed
  <2>3. w = <<x, Latest(r, x)>>
    BY <2>1, <2>2
  <2> QED
    BY <2>1, <2>2, <2>3 DEF CallOK
<1>2. CASE \A w \in request[r].wrote : w[1] # x
  BY <1>2 DEF Latest, Typed, Tables
<1> QED
  BY <1>1, <1>2

\* A call that goes on, and leaves the rows alone.
LEMMA MovesTyped ==
    ASSUME Typed, NEW r \in Requests, NEW new \in CallType,
           request' = [request EXCEPT ![r] = new],
           UNCHANGED <<row, holder, clock>>, apart' \in SUBSET Rows,
           events' \in SUBSET Events, events \subseteq events',
           request[r].step \in InTransaction => new.step \in InTransaction,
           new.wrote \subseteq request[r].wrote,
           CallOK(r)'
    PROVE  Typed'
<1>1. /\ request' \in [Requests -> CallType] /\ request'[r] = new
      /\ \A q \in Requests \ {r} : request'[q] = request[q]
  BY DEF Typed
<1>2. \A q \in Requests \ {r} : CallOK(q)'
  BY <1>1 DEF Typed, CallOK
<1>3. Tables'
  BY <1>1 DEF Typed, Tables, Exists
<1> QED
  BY <1>1, <1>2, <1>3 DEF Typed

\* A transaction that writes rows, and from then on holds them.
LEMMA WritesTyped ==
    ASSUME Typed, NEW r \in Requests, NEW new \in CallType, NEW xs \in SUBSET Rows,
           request[r].step \in InTransaction, new.step \in InTransaction \ {"wait"},
           new.event \in events, new.provider \in Providers, new.left \subseteq events,
           request' = [request EXCEPT ![r] = new],
           Free(r, xs), \A x \in xs : x[1] \in events,
           holder' = [x \in Rows |-> IF x \in xs THEN r ELSE holder[x]],
           clock' \in {clock, clock + 1},
           \A w \in new.wrote : w \in request[r].wrote \/ (w[1] \in xs /\ w[2].at <= clock'),
           UNCHANGED <<events, row, apart>>
    PROVE  Typed'
<1>1. /\ request' \in [Requests -> CallType] /\ request'[r] = new
      /\ \A q \in Requests \ {r} : request'[q] = request[q]
  BY DEF Typed
<1>2. clock \in Nat /\ clock' \in Nat /\ clock <= clock'
  BY DEF Typed, Tables
<1>3. Tables'
  <2>1. holder' \in [Rows -> Requests \cup {None}]
    BY DEF Typed, Tables
  <2>2. ASSUME NEW x \in Rows PROVE row[x].at <= clock' /\ (Exists(x) => x[1] \in events)
    BY <1>2, <2>2 DEF Typed, Tables, RowType
  <2>3. ASSUME NEW x \in Rows, holder'[x] # None PROVE request'[holder'[x]].step \in InTransaction
    BY <1>1, <2>3 DEF Typed, Tables
  <2> QED
    BY <1>2, <2>1, <2>2, <2>3 DEF Typed, Tables, Exists
<1>4. ASSUME NEW q \in Requests, NEW w \in request[q].wrote
      PROVE  /\ w[1] \in Rows /\ w[2] \in RowType /\ holder[w[1]] = q /\ w[1][1] \in events
             /\ w[2].at <= clock'
  <2>1. w \in Rows \X RowType /\ CallOK(q)
    BY CallTyped DEF Typed
  <2>2. holder[w[1]] = q /\ w[1][1] \in events /\ w[2].at <= clock
    BY <2>1 DEF CallOK
  <2> QED
    BY <1>2, <2>1, <2>2 DEF RowType
<1>5. CallOK(r)'
  <2>1. ASSUME NEW w \in new.wrote
        PROVE  holder'[w[1]] = r /\ w[1][1] \in events /\ w[2].at <= clock'
    <3>1. CASE w \in request[r].wrote
      BY <1>4, <3>1
    <3>2. CASE w[1] \in xs /\ w[2].at <= clock'
      BY <3>2
    <3> QED
      BY <3>1, <3>2
  <2> QED
    BY <1>1, <2>1 DEF CallOK, InTransaction
<1>6. ASSUME NEW q \in Requests \ {r} PROVE CallOK(q)'
  <2>1. ASSUME NEW w \in request[q].wrote
        PROVE  holder'[w[1]] = q /\ w[1][1] \in events /\ w[2].at <= clock'
    BY <1>4, NoneIsNone DEF Free
  <2>2. request'[q] = request[q] /\ CallOK(q)
    BY <1>1 DEF Typed
  <2> QED
    BY <2>1, <2>2 DEF CallOK
<1> QED
  BY <1>1, <1>3, <1>5, <1>6 DEF Typed

\* A call that others do not see moving.
Alike(q) ==
    \A f \in {"step", "event", "provider", "left", "wrote"} : request'[q][f] = request[q][f]

\* A call that ends: its locks are released, what it changed is committed.
LEMMA EndsTyped ==
    ASSUME Typed, NEW r \in Requests, NEW new \in CallType,
           new.step \in {"done", "refused"}, new.wrote = {},
           request' \in [Requests -> CallType], request'[r] = new,
           \A q \in Requests \ {r} : Alike(q),
           \/ holder' = Released(r)
           \/ holder' = holder /\ request[r].step \notin InTransaction,
           row' \in [Rows -> RowType], apart' \in SUBSET Rows, UNCHANGED events,
           clock' \in {clock, clock + 1},
           \A x \in Rows : row'[x].at <= clock' /\ (row'[x].keys # None => x[1] \in events)
    PROVE  Typed'
<1>1. \A q \in Requests \ {r} :
        /\ request'[q].step = request[q].step /\ request'[q].event = request[q].event
        /\ request'[q].provider = request[q].provider /\ request'[q].left = request[q].left
        /\ request'[q].wrote = request[q].wrote
  BY DEF Alike
<1>2. clock \in Nat /\ clock' \in Nat /\ clock <= clock'
  BY DEF Typed, Tables
<1>3. /\ holder' \in [Rows -> Requests \cup {None}]
      /\ \A x \in Rows : holder'[x] # None => holder'[x] = holder[x] /\ holder[x] # r
      /\ \A x \in Rows : holder[x] # r => holder'[x] = holder[x]
  BY NoneIsNone DEF Typed, Tables, Released
<1>4. Tables'
  <2>1. ASSUME NEW x \in Rows, holder'[x] # None PROVE request'[holder'[x]].step \in InTransaction
    BY <1>1, <1>3, <2>1 DEF Typed, Tables
  <2> QED
    BY <1>2, <1>3, <2>1 DEF Typed, Tables, Exists
<1>5. CallOK(r)'
  BY <1>1 DEF CallOK, InTransaction
<1>6. ASSUME NEW q \in Requests \ {r} PROVE CallOK(q)'
  <2>1. ASSUME NEW w \in request[q].wrote
        PROVE  holder'[w[1]] = q /\ w[1][1] \in events /\ w[2].at <= clock'
    <3>1. w \in Rows \X RowType /\ CallOK(q)
      BY CallTyped DEF Typed
    <3>2. holder[w[1]] = q /\ w[1][1] \in events /\ w[2].at <= clock
      BY <3>1 DEF CallOK
    <3> QED
      BY <1>2, <1>3, <3>1, <3>2 DEF RowType
  <2>2. CallOK(q)
    BY DEF Typed
  <2> QED
    BY <1>1, <2>1, <2>2 DEF CallOK
<1> QED
  BY <1>4, <1>5, <1>6 DEF Typed

\* A set of numbers that are at most n has a greatest one.
LEMMA Greatest ==
    ASSUME NEW n \in Nat, NEW S \in SUBSET (0..n), S # {}
    PROVE  \E x \in S : \A y \in S : x >= y
<1> DEFINE R == {ss \in Nat \X Nat : ss[1] < ss[2]}
           T == {n - x : x \in S}
<1>1. IsWellFoundedOn(R, Nat)
  BY NatLessThanWellFounded DEF OpToRel
<1>2. T \subseteq Nat /\ T # {}
  <2>1. ASSUME NEW x \in S PROVE n - x \in Nat
    BY SMT
  <2> QED
    BY <2>1
<1> HIDE DEF R, T
<1>3. PICK t \in T : \A u \in T : <<u, t>> \notin R
  BY <1>1, <1>2, WFMin
<1>4. ASSUME NEW u \in T PROVE t <= u
  <2>1. u \in Nat /\ t \in Nat /\ <<u, t>> \notin R
    BY <1>2, <1>3
  <2>2. ~(u < t)
    BY <2>1 DEF R
  <2> QED
    BY <2>1, <2>2
<1>5. PICK x \in S : t = n - x
  BY DEF T
<1>6. ASSUME NEW y \in S PROVE x >= y
  <2>1. n - y \in T
    BY DEF T
  <2> QED
    BY <1>4, <1>5, <2>1
<1> QED
  BY <1>6

LEMMA BeginTyped ==
    ASSUME Typed, NEW r \in Requests, Start(r)
    PROVE  Typed'
<1>1. PICK op \in Ops, e \in Events, p \in Providers \cup {None}, on \in BOOLEAN :
        /\ Begin(r, op, e, p, on)
        /\ op # "create" => e \in events /\ p \in Providers
  BY DEF Start, Typed, Tables, Ops
<1> DEFINE new == [NoCall EXCEPT
         !.op = op, !.event = e, !.provider = p, !.active = on,
         !.targets = {e}, !.left = {e},
         !.step = CASE op \in {"save", "adminSave"} -> "others"
                    [] op = "saveAll" -> "targets"
                    [] op = "toggle"  -> "exists"
                    [] op = "remove"  -> "remove"
                    [] op = "create"  -> "quota"]
<1>2. /\ new \in CallType /\ new.wrote = {} /\ new.event = e /\ new.provider = p /\ new.left = {e}
      /\ IF op = "create" THEN new.step = "quota"
                          ELSE new.step \in {"others", "targets", "exists", "remove"}
  BY <1>1 DEF NoCall, CallType, Steps, Ops
<1>3. /\ request' = [request EXCEPT ![r] = new]
      /\ request[r].step = "idle"
      /\ UNCHANGED <<events, row, holder, clock, apart>>
  BY <1>1 DEF Begin
<1>4. request'[r] = new
  BY <1>3 DEF Typed
<1> HIDE DEF new
<1>5. CallOK(r)'
  BY <1>1, <1>2, <1>3, <1>4 DEF CallOK, InTransaction
<1> QED
  BY <1>2, <1>3, <1>5, MovesTyped DEF Typed, Tables, InTransaction

LEMMA ReadsTyped ==
    ASSUME Typed, NEW r \in Requests, Targets(r) \/ CheckExists(r) \/ CountEvents(r)
    PROVE  Typed'
<1>1. PICK s \in Steps, t \in {events, request[r].targets}, l \in {events, request[r].left} :
        /\ request' = [request EXCEPT ![r] =
                         [request[r] EXCEPT !.step = s, !.targets = t, !.left = l]]
        /\ UNCHANGED <<events, row, holder, clock, apart>>
        /\ \/ request[r].step \in {"targets", "exists"} /\ s \in {"others", "refused"}
           \/ request[r].step = "quota" /\ s \in {"refused", "insert"}
  <2>1. CASE Targets(r)
    <3>1. request' = [request EXCEPT ![r] =
                        [request[r] EXCEPT !.step = "others", !.targets = events, !.left = events]]
      BY <2>1, CallTyped DEF Targets, Typed, CallType
    <3> QED
      BY <2>1, <3>1 DEF Targets, Steps
  <2>2. CASE CheckExists(r) \/ CountEvents(r)
    <3>1. PICK s \in {"others", "refused", "insert"} :
            /\ request' = [request EXCEPT ![r].step = s]
            /\ \/ request[r].step = "exists" /\ s \in {"others", "refused"}
               \/ request[r].step = "quota" /\ s \in {"refused", "insert"}
      BY <2>2 DEF CheckExists, CountEvents
    <3>2. request' = [request EXCEPT ![r] = [request[r] EXCEPT
                        !.step = s, !.targets = request[r].targets, !.left = request[r].left]]
      BY <3>1, CallTyped DEF Typed, CallType
    <3>3. UNCHANGED <<events, row, holder, clock, apart>>
      BY <2>2 DEF CheckExists, CountEvents
    <3>4. s \in Steps
      BY DEF Steps
    <3> QED
      BY <3>1, <3>2, <3>3, <3>4
  <2> QED
    BY <2>1, <2>2
<1> DEFINE new == [request[r] EXCEPT !.step = s, !.targets = t, !.left = l]
<1>2. /\ new \in CallType /\ new.wrote = request[r].wrote /\ new.event = request[r].event
      /\ new.provider = request[r].provider /\ new.left = l /\ new.step = s
  <2>1. request[r] \in CallType /\ l \in SUBSET Events /\ t \in SUBSET Events
    BY CallTyped DEF Typed, Tables
  <2> QED
    BY <2>1 DEF CallType, Steps
<1>3. request'[r] = new /\ request' = [request EXCEPT ![r] = new]
  BY <1>1 DEF Typed
<1> HIDE DEF new
<1>4. CallOK(r)'
  BY <1>1, <1>2, <1>3 DEF CallOK, InTransaction, Typed
<1>5. request[r].step \notin InTransaction
  BY <1>1 DEF InTransaction
<1>6. apart' \in SUBSET Rows /\ events' \in SUBSET Events /\ events \subseteq events'
  BY <1>1 DEF Typed, Tables
<1> QED
  BY <1>1, <1>2, <1>3, <1>4, <1>5, <1>6, MovesTyped

\* The newest of the rows of a provider that are meant for every event.
Newest(p) == CHOOSE x \in Globals(p) : \A y \in Globals(p) : row[x].at >= row[y].at

LEMMA NewestIsOne ==
    ASSUME Typed, NEW p \in Providers, Globals(p) # {}
    PROVE  Newest(p) \in Globals(p)
<1> DEFINE S == {row[x].at : x \in Globals(p)}
<1>1. Globals(p) \subseteq Rows
  BY DEF Globals
<1>2. S \subseteq 0..clock /\ clock \in Nat /\ S # {}
  <2>1. ASSUME NEW x \in Globals(p) PROVE row[x].at \in 0..clock
    BY <1>1 DEF Typed, Tables, RowType
  <2> QED
    BY <2>1 DEF Typed, Tables
<1> HIDE DEF S
<1>3. PICK n \in S : \A m \in S : n >= m
  BY <1>2, Greatest
<1>4. PICK x \in Globals(p) : n = row[x].at
  BY DEF S
<1>5. \A y \in Globals(p) : row[x].at >= row[y].at
  BY <1>3, <1>4 DEF S
<1> QED
  BY <1>5 DEF Newest

LEMMA GlobalsTyped ==
    ASSUME Typed
    PROVE  NewestGlobals \subseteq Rows
<1>1. NewestGlobals = {Newest(p) : p \in {q \in Providers : Globals(q) # {}}}
  BY DEF NewestGlobals, Newest
<1>2. ASSUME NEW p \in Providers, Globals(p) # {}
      PROVE  Newest(p) \in Rows
  BY <1>2, NewestIsOne DEF Globals
<1> QED
  BY <1>1, <1>2

\* What a creation has read.
LEMMA ReadCall ==
    ASSUME Typed, NEW r \in Requests, ReadGlobals(r)
    PROVE  \E s \in {"done", "inherit"}, data \in SUBSET (Rows \X RowType) :
             /\ request' = [request EXCEPT ![r] = [request[r] EXCEPT !.step = s, !.data = data]]
             /\ \A d \in data : d[2] = row[d[1]]
<1> DEFINE data == {<<x, row[x]>> : x \in NewestGlobals}
<1>1. data \in SUBSET (Rows \X RowType) /\ \A d \in data : d[2] = row[d[1]]
  BY GlobalsTyped DEF Typed, Tables
<1>2. PICK s \in {"done", "inherit"} :
        request' = [request EXCEPT ![r].data = data, ![r].step = s]
  BY DEF ReadGlobals
<1> HIDE DEF data
<1>3. request' = [request EXCEPT ![r] = [request[r] EXCEPT !.step = s, !.data = data]]
  BY <1>2, CallTyped DEF Typed, CallType
<1> QED
  BY <1>1, <1>3

LEMMA ReadGlobalsTyped ==
    ASSUME Typed, NEW r \in Requests, ReadGlobals(r)
    PROVE  Typed'
<1>1. PICK s \in {"done", "inherit"}, data \in SUBSET (Rows \X RowType) :
        request' = [request EXCEPT ![r] = [request[r] EXCEPT !.step = s, !.data = data]]
  BY ReadCall
<1>2. UNCHANGED <<events, row, holder, clock>> /\ request[r].step = "globals"
  BY DEF ReadGlobals
<1> DEFINE new == [request[r] EXCEPT !.step = s, !.data = data]
<1>3. /\ new \in CallType /\ new.wrote = request[r].wrote /\ new.event = request[r].event
      /\ new.step = s
  <2>1. s \in Steps /\ request[r] \in CallType
    BY CallTyped DEF Steps
  <2> QED
    BY <2>1 DEF CallType
<1>4. request'[r] = new /\ request' = [request EXCEPT ![r] = new]
  BY <1>1 DEF Typed
<1> HIDE DEF new
<1>5. CallOK(r)'
  BY <1>2, <1>3, <1>4 DEF CallOK, InTransaction, Typed
<1>6. request[r].step \notin InTransaction
  BY <1>2 DEF InTransaction
<1>7. apart' \in SUBSET Rows
  <2>1. request[r].event \in Events
    BY <1>2 DEF Typed, CallOK, Tables
  <2>2. {request[r].event} \X TakenApart \subseteq Rows
    BY <2>1 DEF TakenApart, Rows
  <2> HIDE DEF TakenApart
  <2> QED
    BY <2>2 DEF ReadGlobals, Typed, Tables
<1> QED
  BY <1>2, <1>3, <1>4, <1>5, <1>6, <1>7, MovesTyped DEF Typed, Tables

LEMMA InsertTyped ==
    ASSUME Typed, NEW r \in Requests, InsertEvent(r)
    PROVE  Typed'
<1>1. PICK s \in {"refused", "globals"} :
        /\ request' = [request EXCEPT ![r] = [request[r] EXCEPT !.step = s]]
        /\ UNCHANGED <<row, holder, clock, apart>>
        /\ request[r].step = "insert"
        /\ IF s = "globals" THEN events' = events \cup {request[r].event} ELSE events' = events
  BY CallTyped DEF InsertEvent, Typed, CallType
<1> DEFINE new == [request[r] EXCEPT !.step = s]
<1>2. /\ new \in CallType /\ new.wrote = request[r].wrote /\ new.event = request[r].event
      /\ new.step = s
  <2>1. request[r] \in CallType
    BY CallTyped
  <2> QED
    BY <2>1 DEF CallType, Steps
<1>3. request'[r] = new /\ request' = [request EXCEPT ![r] = new]
  BY <1>1 DEF Typed
<1> HIDE DEF new
<1>4. CallOK(r) /\ request[r].event \in Events
  BY <1>1 DEF Typed, CallOK
<1>5. events' \in SUBSET Events /\ events \subseteq events'
  BY <1>1, <1>4 DEF Typed, Tables
<1>6. CallOK(r)'
  BY <1>1, <1>2, <1>3, <1>4, <1>5 DEF CallOK, InTransaction
<1>7. request[r].step \notin InTransaction
  BY <1>1 DEF InTransaction
<1> QED
  BY <1>1, <1>2, <1>3, <1>5, <1>6, <1>7, MovesTyped DEF Typed, Tables

\* A transaction of a call names its event and its provider.
LEMMA TransactionTyped ==
    ASSUME Typed, NEW r \in Requests, request[r].step \in InTransaction
    PROVE  /\ request[r].event \in events /\ request[r].event \in Events
           /\ request[r].provider \in Providers /\ request[r].left \subseteq events
  BY DEF Typed, CallOK, Tables

\* A row as a transaction leaves it.
LEMMA SwitchedRow ==
    ASSUME NEW old \in RowType, NEW n \in Nat, NEW on \in BOOLEAN
    PROVE  /\ [old EXCEPT !.active = on, !.at = n] \in RowType
           /\ [old EXCEPT !.active = on, !.at = n].at = n
           /\ [old EXCEPT !.active = on, !.at = n].active = on
           /\ [old EXCEPT !.active = on, !.at = n].keys = old.keys
  BY DEF RowType

LEMMA InheritedRow ==
    ASSUME NEW old \in RowType, NEW n \in Nat
    PROVE  /\ [old EXCEPT !.global = TRUE, !.at = n] \in RowType
           /\ [old EXCEPT !.global = TRUE, !.at = n].at = n
           /\ [old EXCEPT !.global = TRUE, !.at = n].active = old.active
           /\ [old EXCEPT !.global = TRUE, !.at = n].keys = old.keys
  BY DEF RowType

LEMMA SwitchedOffTyped ==
    ASSUME Typed, NEW r \in Requests, NEW x \in Rows
    PROVE  /\ [Latest(r, x) EXCEPT !.active = FALSE, !.at = clock + 1] \in RowType
           /\ [Latest(r, x) EXCEPT !.active = FALSE, !.at = clock + 1].at = clock + 1
           /\ [Latest(r, x) EXCEPT !.active = FALSE, !.at = clock + 1].active = FALSE
           /\ [Latest(r, x) EXCEPT !.active = FALSE, !.at = clock + 1].keys = Latest(r, x).keys
<1>1. PICK old \in RowType : old = Latest(r, x)
  BY LatestTyped
<1>2. clock + 1 \in Nat
  BY DEF Typed, Tables
<1> QED
  BY <1>1, <1>2, SwitchedRow

LEMMA SwitchTyped ==
    ASSUME Typed, NEW r \in Requests, SwitchOthersOff(r)
    PROVE  Typed'
<1>1. PICK e \in request[r].left :
         LET found == IF request[r].active THEN Siblings(r, e) ELSE {}
             Off(x) == [Latest(r, x) EXCEPT !.active = FALSE, !.at = clock + 1]
         IN  IF Free(r, found)
             THEN /\ holder' = [x \in Rows |-> IF x \in found THEN r ELSE holder[x]]
                  /\ clock' = IF found = {} THEN clock ELSE clock + 1
                  /\ request' = [request EXCEPT ![r].step = "write", ![r].event = e,
                                                ![r].seen = request[r].seen \cup found,
                                                ![r].wrote = Wrote(r, found, Off)]
             ELSE /\ request' = [request EXCEPT ![r].step = "wait", ![r].event = e,
                                                ![r].seen = request[r].seen \cup found]
                  /\ UNCHANGED <<holder, clock>>
  BY DEF SwitchOthersOff
<1> DEFINE found == IF request[r].active THEN Siblings(r, e) ELSE {}
           Off(x) == [Latest(r, x) EXCEPT !.active = FALSE, !.at = clock + 1]
           kept == {w \in request[r].wrote : w[1] \notin found}
           wrote == kept \cup {<<x, Off(x)>> : x \in found}
           seen == request[r].seen \cup found
<1>2. request[r].step = "others" /\ UNCHANGED <<events, row, apart>>
  BY DEF SwitchOthersOff
<1>3. /\ request[r] \in CallType /\ e \in events /\ e \in Events /\ clock \in Nat
      /\ request[r].provider \in Providers /\ request[r].left \subseteq events
  BY <1>2, CallTyped, TransactionTyped DEF InTransaction, Typed, Tables
<1>4. found \in SUBSET Rows /\ found \subseteq {e} \X Providers /\ seen \in SUBSET Rows
  <2>1. found \in SUBSET Rows /\ found \subseteq {e} \X Providers
    BY <1>3 DEF Siblings, Rows
  <2> HIDE DEF found
  <2> QED
    BY <2>1, CallTyped
<1>5. CASE Free(r, found)
  <2> DEFINE new == [request[r] EXCEPT !.step = "write", !.event = e, !.seen = seen, !.wrote = wrote]
  <2>1. request' = [request EXCEPT ![r] = new]
    BY <1>1, <1>3, <1>5 DEF Wrote, Typed, CallType
  <2>2. \A x \in found : Off(x) \in RowType /\ Off(x).at = clock + 1
    BY <1>4, SwitchedOffTyped
  <2>3. /\ holder' = [x \in Rows |-> IF x \in found THEN r ELSE holder[x]]
        /\ clock' = IF found = {} THEN clock ELSE clock + 1
    BY <1>1, <1>5
  <2> HIDE DEF found, Off, seen
  <2>4. wrote \in SUBSET (Rows \X RowType)
    BY <1>4, <2>2, CallTyped
  <2>5. \A w \in wrote : w \in request[r].wrote \/ (w[1] \in found /\ w[2].at <= clock')
    BY <1>3, <2>2, <2>3
  <2> HIDE DEF wrote
  <2>6. /\ new \in CallType /\ new.wrote = wrote /\ new.event = e /\ new.step = "write"
        /\ new.provider = request[r].provider /\ new.left = request[r].left
    <3>1. seen \in SUBSET Rows
      BY <1>4 DEF seen
    <3> QED
      BY <1>3, <2>4, <3>1 DEF CallType, Steps
  <2>7. \A x \in found : x[1] \in events
    BY <1>3, <1>4
  <2>8. clock' \in {clock, clock + 1}
    BY <2>3
  <2>9. new.step \in InTransaction \ {"wait"} /\ request[r].step \in InTransaction
    BY <1>2, <2>6 DEF InTransaction
  <2> HIDE DEF new
  <2> QED
    BY <1>2, <1>3, <1>4, <1>5, <2>1, <2>3, <2>5, <2>6, <2>7, <2>8, <2>9, WritesTyped
<1>6. CASE ~Free(r, found)
  <2> DEFINE new == [request[r] EXCEPT !.step = "wait", !.event = e, !.seen = seen]
  <2>1. request' = [request EXCEPT ![r] = new] /\ UNCHANGED <<holder, clock>>
    BY <1>1, <1>3, <1>6 DEF Typed, CallType
  <2> HIDE DEF found, seen
  <2>2. /\ new \in CallType /\ new.wrote = request[r].wrote /\ new.event = e /\ new.step = "wait"
        /\ new.provider = request[r].provider /\ new.left = request[r].left
    BY <1>3, <1>4 DEF CallType, Steps
  <2>3. request'[r] = new
    BY <2>1 DEF Typed
  <2> HIDE DEF new
  <2>4. CallOK(r)'
    BY <1>2, <1>3, <1>4, <2>1, <2>2, <2>3 DEF CallOK, InTransaction, Typed
  <2>5. new.step \in InTransaction
    BY <2>2 DEF InTransaction
  <2> QED
    BY <1>2, <2>1, <2>2, <2>4, <2>5, MovesTyped DEF Typed, Tables
<1> QED
  BY <1>5, <1>6

LEMMA ReleasedTyped ==
    ASSUME Typed, NEW r \in Requests, OthersReleased(r)
    PROVE  Typed'
<1> DEFINE found == {x \in request[r].seen : x[1] = request[r].event}
           Off(x) == [Latest(r, x) EXCEPT !.active = FALSE, !.at = clock + 1]
           kept == {w \in request[r].wrote : w[1] \notin found}
           wrote == kept \cup {<<x, Off(x)>> : x \in found}
           new == [request[r] EXCEPT !.step = "write", !.wrote = wrote]
<1>1. /\ request[r].step = "wait" /\ UNCHANGED <<events, row, apart>> /\ clock' = clock + 1
      /\ holder' = [x \in Rows |-> IF x \in found THEN r ELSE holder[x]]
      /\ Free(r, found)
  BY DEF OthersReleased, Free
<1>2. /\ request[r] \in CallType /\ clock \in Nat /\ request[r].event \in events
      /\ request[r].provider \in Providers /\ request[r].left \subseteq events
  BY <1>1, CallTyped, TransactionTyped DEF InTransaction, Typed, Tables
<1>3. request' = [request EXCEPT ![r] = new]
  BY <1>2 DEF OthersReleased, Wrote, Typed, CallType
<1>4. found \in SUBSET Rows /\ \A x \in found : x[1] \in events
  BY <1>2, CallTyped
<1>5. \A x \in found : Off(x) \in RowType /\ Off(x).at = clock + 1
  BY <1>4, SwitchedOffTyped
<1> HIDE DEF found, Off
<1>6. wrote \in SUBSET (Rows \X RowType)
  BY <1>4, <1>5, CallTyped
<1>7. \A w \in wrote : w \in request[r].wrote \/ (w[1] \in found /\ w[2].at <= clock')
  BY <1>1, <1>2, <1>5
<1> HIDE DEF wrote
<1>8. /\ new \in CallType /\ new.wrote = wrote /\ new.event = request[r].event
      /\ new.step = "write" /\ new.provider = request[r].provider /\ new.left = request[r].left
  BY <1>2, <1>6 DEF CallType, Steps
<1>9. new.step \in InTransaction \ {"wait"} /\ request[r].step \in InTransaction
  BY <1>1, <1>8 DEF InTransaction
<1> HIDE DEF new
<1> QED
  BY <1>1, <1>2, <1>3, <1>4, <1>7, <1>8, <1>9, WritesTyped

LEMMA WriteTyped ==
    ASSUME Typed, NEW r \in Requests, WriteRow(r)
    PROVE  Typed'
<1> DEFINE x == <<request[r].event, request[r].provider>>
           row1 == IF request[r].op = "toggle" THEN Switched(r, Latest(r, x))
                                               ELSE Saved(r, Latest(r, x))
           kept == {w \in request[r].wrote : w[1] # x}
           wrote == kept \cup {<<x, row1>>}
           next == IF Remaining(r) = {} THEN "commit" ELSE "others"
           new == [request[r] EXCEPT !.wrote = wrote, !.left = Remaining(r), !.step = next]
<1>1. /\ request[r].step = "write" /\ UNCHANGED <<events, row, apart>> /\ clock' = clock + 1
      /\ Free(r, {x})
  BY DEF WriteRow
<1>2. /\ request[r] \in CallType /\ clock \in Nat /\ request[r].event \in events
      /\ request[r].event \in Events
      /\ request[r].provider \in Providers /\ request[r].left \subseteq events
      /\ x \in Rows /\ x[1] = request[r].event
  BY <1>1, CallTyped, TransactionTyped DEF InTransaction, Typed, Tables, Rows
<1>3. request' = [request EXCEPT ![r] = new]
  <2> DEFINE New(y) == IF request[r].op = "toggle" THEN Switched(r, Latest(r, y))
                                                   ELSE Saved(r, Latest(r, y))
  <2>1. /\ New(x) = row1
        /\ request' = [request EXCEPT ![r].wrote = {w \in request[r].wrote : w[1] \notin {x}}
                                                    \cup {<<y, New(y)>> : y \in {x}},
                                      ![r].left = Remaining(r), ![r].step = next]
    BY DEF WriteRow, Wrote
  <2> HIDE DEF x, New, row1, next
  <2>2. {w \in request[r].wrote : w[1] \notin {x}} \cup {<<y, New(y)>> : y \in {x}} = wrote
    BY <2>1
  <2> HIDE DEF wrote
  <2> QED
    BY <1>2, <2>1, <2>2 DEF Typed, CallType
<1>4. holder' = [y \in Rows |-> IF y \in {x} THEN r ELSE holder[y]]
  BY <1>2 DEF WriteRow, Typed, Tables
<1>5. row1 \in RowType /\ row1.at = clock + 1
  <2>1. PICK old \in RowType : old = Latest(r, x)
    BY <1>2, LatestTyped
  <2>2. request[r].active \in BOOLEAN /\ old.global \in BOOLEAN /\ clock + 1 \in Nat
    BY <1>2, <2>1 DEF CallType, RowType
  <2>3. (request[r].op = "saveAll" \/ (request[r].op = "adminSave" /\ old.global)) \in BOOLEAN
    OBVIOUS
  <2> HIDE DEF x
  <2>4. Switched(r, old) \in RowType /\ Switched(r, old).at = clock + 1
    BY <2>2 DEF Switched, RowType
  <2>5. Saved(r, old) \in RowType /\ Saved(r, old).at = clock + 1
    BY <1>2, <2>2, <2>3 DEF Saved, RowType
  <2> QED
    BY <2>1, <2>4, <2>5
<1>11. {x} \in SUBSET Rows /\ \A y \in {x} : y[1] \in events
  BY <1>2
<1> HIDE DEF row1, x
<1>6. wrote \in SUBSET (Rows \X RowType)
  BY <1>2, <1>5, CallTyped
<1>7. \A w \in wrote : w \in request[r].wrote \/ (w[1] \in {x} /\ w[2].at <= clock')
  BY <1>1, <1>2, <1>5
<1> HIDE DEF wrote
<1>8. /\ new \in CallType /\ new.wrote = wrote /\ new.event = request[r].event
      /\ new.step = next /\ new.provider = request[r].provider /\ new.left = Remaining(r)
  BY <1>2, <1>6 DEF CallType, Steps, Remaining
<1>9. new.step \in InTransaction \ {"wait"} /\ request[r].step \in InTransaction
  BY <1>1, <1>8 DEF InTransaction
<1>10. Remaining(r) \subseteq events
  BY <1>2 DEF Remaining
<1>12. clock' \in {clock, clock + 1} /\ new.left \subseteq events
  BY <1>1, <1>8, <1>10
<1> HIDE DEF new
<1> QED
  BY <1>1, <1>2, <1>3, <1>4, <1>7, <1>8, <1>9, <1>11, <1>12, WritesTyped

\* What a call is when it has ended.
LEMMA EndedCall ==
    ASSUME NEW s \in {"done", "refused"}
    PROVE  /\ [NoCall EXCEPT !.step = s] \in CallType /\ [NoCall EXCEPT !.step = s].step = s
           /\ [NoCall EXCEPT !.step = s].wrote = {}
  BY DEF NoCall, CallType, Steps, Ops

\* The other calls when one ends.
LEMMA EndsAlone ==
    ASSUME Typed, NEW r \in Requests, NEW s \in {"done", "refused"},
           request' = [request EXCEPT ![r] = [NoCall EXCEPT !.step = s]]
    PROVE  /\ request' \in [Requests -> CallType] /\ request'[r] = [NoCall EXCEPT !.step = s]
           /\ \A q \in Requests \ {r} : request'[q] = request[q] /\ Alike(q)
  BY EndedCall DEF Typed, Alike

LEMMA CommitTyped ==
    ASSUME Typed, NEW r \in Requests, Commit(r)
    PROVE  Typed'
<1>1. /\ request' = [request EXCEPT ![r] = [NoCall EXCEPT !.step = "done"]]
      /\ holder' = Released(r) /\ UNCHANGED <<events, clock>>
      /\ row' = [x \in Rows |-> Latest(r, x)]
      /\ request[r].step \in InTransaction
  BY DEF Commit, InTransaction
<1>2. /\ row' \in [Rows -> RowType]
      /\ \A x \in Rows : row'[x].at <= clock /\ (row'[x].keys # None => x[1] \in events)
  BY <1>1, LatestTyped DEF Typed, Tables, Exists
<1>3. apart' \in SUBSET Rows
  <2> DEFINE Of(es) == es \X {request[r].provider}
  <2>1. \A es \in SUBSET Events : Of(es) \subseteq Rows
    BY <1>1, TransactionTyped DEF Rows
  <2>2. /\ request[r].targets \in SUBSET Events /\ events \ request[r].targets \in SUBSET Events
        /\ apart \in SUBSET Rows
    BY CallTyped DEF Typed, Tables
  <2>3. \/ apart' = (apart \ Of(request[r].targets)) \cup Of(events \ request[r].targets)
        \/ apart' = apart
        \/ apart' = apart \cup Of(request[r].targets)
    BY DEF Commit
  <2> HIDE DEF Of
  <2> QED
    BY <2>1, <2>2, <2>3
<1> QED
  BY <1>1, <1>2, <1>3, EndsTyped, EndedCall, EndsAlone

LEMMA RollbackTyped ==
    ASSUME Typed, NEW r \in Requests, Rollback(r)
    PROVE  Typed'
<1>1. /\ request' = [request EXCEPT ![r] = [NoCall EXCEPT !.step = "refused"]]
      /\ holder' = Released(r) /\ UNCHANGED <<events, row, clock, apart>>
  BY DEF Rollback
<1> QED
  BY <1>1, EndsTyped, EndedCall, EndsAlone DEF Typed, Tables, Exists

LEMMA InheritFailsTyped ==
    ASSUME Typed, NEW r \in Requests, InheritFails(r)
    PROVE  Typed'
<1>1. /\ request' = [request EXCEPT ![r] = [NoCall EXCEPT !.step = "done"]]
      /\ UNCHANGED <<events, row, holder, clock>>
      /\ apart' \subseteq apart \cup ({request[r].event} \X Providers)
      /\ request[r].step \in {"globals", "inherit"}
  BY DEF InheritFails
<1>2. request[r].event \in Events
  BY <1>1 DEF Typed, CallOK, Tables
<1>3. apart' \in SUBSET Rows
  BY <1>1, <1>2 DEF Typed, Tables, Rows
<1>4. request[r].step \notin InTransaction
  BY <1>1 DEF InTransaction
<1> QED
  BY <1>1, <1>3, <1>4, EndsTyped, EndedCall, EndsAlone DEF Typed, Tables, Exists

\* A removal takes the row from what the waiting calls had found.
LEMMA RemovedCalls ==
    ASSUME Typed, NEW r \in Requests, Remove(r)
    PROVE  /\ request' \in [Requests -> CallType]
           /\ request'[r] = [NoCall EXCEPT !.step = "done"]
           /\ \A q \in Requests \ {r} :
                /\ Alike(q) /\ request'[q].seen \subseteq request[q].seen
                /\ request'[q].op = request[q].op /\ request'[q].active = request[q].active
                /\ request'[q].targets = request[q].targets /\ request'[q].data = request[q].data
<1>1. ASSUME NEW q \in Requests \ {r}, NEW x
      PROVE  LET c == [request[q] EXCEPT !.seen = @ \ {x}] IN
             /\ c \in CallType /\ c.seen \subseteq request[q].seen
             /\ \A f \in {"step", "event", "provider", "left", "wrote"} : c[f] = request[q][f]
             /\ c.op = request[q].op /\ c.active = request[q].active
             /\ c.targets = request[q].targets /\ c.data = request[q].data
  <2>1. request[q] \in CallType
    BY CallTyped
  <2> QED
    BY <2>1 DEF CallType
<1>2. [NoCall EXCEPT !.step = "done"] \in CallType
  BY EndedCall
<1>3. \A q \in Requests : request[q] \in CallType
  BY CallTyped
<1> QED
  BY <1>1, <1>2, <1>3 DEF Remove, Alike

LEMMA RemoveTyped ==
    ASSUME Typed, NEW r \in Requests, Remove(r)
    PROVE  Typed'
<1> DEFINE x == <<request[r].event, request[r].provider>>
<1>1. /\ UNCHANGED <<events, holder, clock>>
      /\ row' = [row EXCEPT ![x] = NoRow] /\ apart' = apart \cup {x}
      /\ request[r].step = "remove"
  BY DEF Remove
<1>2. x \in Rows /\ request[r].step \notin InTransaction
  BY <1>1 DEF Typed, CallOK, Tables, Rows, InTransaction
<1>3. /\ row' \in [Rows -> RowType]
      /\ \A y \in Rows : row'[y].at <= clock /\ (row'[y].keys # None => y[1] \in events)
  <2> HIDE DEF x
  <2> QED
    BY <1>1, <1>2, NothingIsTyped DEF Typed, Tables, Exists
<1>4. apart' \in SUBSET Rows
  BY <1>1, <1>2 DEF Typed, Tables
<1> QED
  BY <1>1, <1>2, <1>3, <1>4, EndedCall, RemovedCalls, EndsTyped

LEMMA InheritTyped ==
    ASSUME Typed, NEW r \in Requests, Inherit(r)
    PROVE  Typed'
<1> DEFINE copied == {x \in {request[r].event} \X {d[1][2] : d \in request[r].data} : ~Exists(x)}
           Source(p) == (CHOOSE d \in request[r].data : d[1][2] = p)[2]
<1>1. /\ request' = [request EXCEPT ![r] = [NoCall EXCEPT !.step = "done"]]
      /\ UNCHANGED <<events, holder, apart>> /\ clock' = clock + 1
      /\ row' = [x \in Rows |-> IF x \in copied
                                 THEN [Source(x[2]) EXCEPT !.global = TRUE, !.at = clock + 1]
                                 ELSE row[x]]
      /\ request[r].step = "inherit"
  BY DEF Inherit
<1>2. request[r].step \notin InTransaction /\ request[r].event \in events /\ clock \in Nat
  BY <1>1 DEF InTransaction, Typed, CallOK, Tables
<1>3. ASSUME NEW x \in copied PROVE Source(x[2]) \in RowType /\ x[1] \in events
  <2>1. x[1] = request[r].event /\ \E d \in request[r].data : d[1][2] = x[2]
    OBVIOUS
  <2>2. request[r].data \subseteq Rows \X RowType
    BY CallTyped
  <2> QED
    BY <1>2, <2>1, <2>2
<1> HIDE DEF copied, Source
<1>4. clock' = clock + 1 /\ clock \in Nat /\ clock' \in Nat
  <2>1. clock' = clock + 1
    BY <1>1
  <2> QED
    BY <1>2, <2>1
<1>5. ASSUME NEW x \in Rows
      PROVE  row'[x] \in RowType /\ row'[x].at <= clock' /\ (row'[x].keys # None => x[1] \in events)
  <2>1. CASE x \in copied
    <3>1. PICK old \in RowType : old = Source(x[2])
      BY <1>3, <2>1
    <3>2. row'[x] = [old EXCEPT !.global = TRUE, !.at = clock + 1]
      BY <1>1, <2>1, <3>1
    <3>3. row'[x] \in RowType /\ row'[x].at = clock'
      BY <1>4, <3>2 DEF RowType
    <3>4. x[1] \in events
      BY <1>3, <2>1
    <3> QED
      BY <1>4, <3>3, <3>4
  <2>2. CASE x \notin copied
    <3>1. row'[x] = row[x]
      BY <1>1, <2>2
    <3>2. /\ row[x] \in RowType /\ row[x].at <= clock /\ row[x].at \in Nat
          /\ row[x].keys # None => x[1] \in events
      BY DEF Typed, Tables, RowType, Exists
    <3> QED
      BY <1>4, <3>1, <3>2
  <2> QED
    BY <2>1, <2>2
<1>6. row' \in [Rows -> RowType] /\ apart' \in SUBSET Rows /\ clock' \in {clock, clock + 1}
  BY <1>1, <1>5 DEF Typed, Tables
<1> QED
  BY <1>1, <1>2, <1>5, <1>6, EndsTyped, EndedCall, EndsAlone

-----------------------------------------------------------------------------
LEMMA StepTyped == Typed /\ [Next]_vars => Typed'
<1> SUFFICES ASSUME Typed, [Next]_vars PROVE Typed'
  OBVIOUS
<1>1. ASSUME NEW r \in Requests, Start(r) \/ Configure(r) \/ CreateEvent(r) PROVE Typed'
  BY <1>1, BeginTyped, ReadsTyped, SwitchTyped, ReleasedTyped, WriteTyped, CommitTyped,
     RollbackTyped, RemoveTyped, InsertTyped, ReadGlobalsTyped, InheritTyped, InheritFailsTyped
     DEF Configure, CreateEvent
<1>2. CASE UNCHANGED vars
  BY <1>2 DEF vars, Typed, Tables, CallOK, Exists
<1> QED
  BY <1>1, <1>2 DEF Next

LEMMA AlwaysTyped == Spec => []Typed
  BY InitTyped, StepTyped, PTL DEF Spec

-----------------------------------------------------------------------------
(* What a transaction does, and what it has found.                            *)

\* Credentials that anyone may see.
Committed(k) == k \in Requests => request[k].step = "done"

\* A transaction writes its own provider, or switches others off, on its targets.
Writes(r, w) ==
    /\ w[2].active => /\ w[1][2] = request[r].provider /\ request[r].active
                      /\ w[2].keys # None
    /\ w[1][1] \in request[r].targets
    /\ w[2].keys = r \/ Committed(w[2].keys)

\* A row that it found is switched off, or about to be.
Found(r, x) ==
    /\ x[2] # request[r].provider
    /\ \/ request[r].step = "wait" /\ x[1] = request[r].event
       \/ \E w \in request[r].wrote : w[1] = x

Aimed(r) ==
    /\ request[r].step \in {"targets", "exists"} \cup InTransaction =>
         request[r].left \subseteq request[r].targets
    /\ request[r].step \in {"wait", "write"} => request[r].event \in request[r].left

\* It has yet to write its own row of the targets that are left.
Once(r) ==
    \A w \in request[r].wrote : w[1][2] = request[r].provider => w[1][1] \notin request[r].left

CallFine(r) ==
    /\ \A w \in request[r].wrote : Writes(r, w)
    /\ Once(r)
    /\ \A x \in request[r].seen : Found(r, x)
    /\ \A d \in request[r].data : (d[2].active => d[2].keys # None) /\ Committed(d[2].keys)
    /\ Aimed(r)

RowsFine == \A x \in Rows : (row[x].active => Exists(x)) /\ Committed(row[x].keys)

Inv == Typed /\ RowsFine /\ \A r \in Requests : CallFine(r)

LEMMA InitInv == Init => Inv
<1> SUFFICES ASSUME Init PROVE Inv
  OBVIOUS
<1>1. \A r \in Requests : CallFine(r)
  BY DEF Init, NoCall, CallFine, Aimed, Once, InTransaction
<1>2. RowsFine
  <2>1. ASSUME NEW x \in Rows
        PROVE  (row[x].active => row[x].keys # None) /\ row[x].keys \in {None, First}
    <3>1. CASE row = [y \in Rows |-> NoRow]
      BY <3>1 DEF NoRow
    <3>2. CASE \E p \in Providers :
                 row = [y \in Rows |->
                          IF y[1] # First THEN NoRow
                          ELSE [active |-> y[2] = p, global |-> TRUE, keys |-> First, at |-> 0]]
      BY <3>2, FirstIsAnEvent, NoneIsNone DEF NoRow
    <3> QED
      BY <3>1, <3>2 DEF Init
  <2> QED
    BY <2>1, FirstIsAnEvent, NoneIsNone, CallsAreNotEvents DEF RowsFine, Exists, Committed
<1> QED
  BY <1>1, <1>2, InitTyped DEF Inv

\* A call that is done stays so.
LEMMA DoneStays ==
    ASSUME Typed, [Next]_vars
    PROVE  \A k : Committed(k) => Committed(k)'
<1> SUFFICES ASSUME NEW k \in Requests, request[k].step = "done" PROVE request'[k].step = "done"
  BY DEF Committed
<1>1. ASSUME NEW r \in Requests, Start(r) \/ Configure(r) \/ CreateEvent(r)
      PROVE  request'[k].step = "done"
  <2>1. CASE Remove(r)
    BY <2>1, RemovedCalls DEF Remove, Alike
  <2>2. CASE ~Remove(r)
    <3>1. request[r].step # "done"
      BY <1>1, <2>2 DEF Start, Begin, Configure, CreateEvent, Targets, CheckExists, SwitchOthersOff,
         OthersReleased, WriteRow, Commit, Rollback, CountEvents, InsertEvent, ReadGlobals, Inherit,
         InheritFails
    <3>2. \E new : request' = [request EXCEPT ![r] = new]
      BY <1>1, <2>2 DEF Start, Begin, Configure, CreateEvent, Targets, CheckExists, SwitchOthersOff,
         OthersReleased, WriteRow, Commit, Rollback, CountEvents, InsertEvent, ReadGlobals, Inherit,
         InheritFails
    <3>3. k # r
      BY <3>1
    <3> QED
      BY <3>2, <3>3 DEF Typed
  <2> QED
    BY <2>1, <2>2
<1> QED
  BY <1>1 DEF Next, vars

\* A call that a step of another leaves alone.
LEMMA OthersFine ==
    ASSUME Inv, [Next]_vars, NEW q \in Requests,
           Alike(q), request'[q].seen \subseteq request[q].seen,
           request'[q].active = request[q].active, request'[q].targets = request[q].targets,
           request'[q].data = request[q].data
    PROVE  CallFine(q)'
<1>1. /\ request'[q].step = request[q].step /\ request'[q].event = request[q].event
      /\ request'[q].provider = request[q].provider /\ request'[q].left = request[q].left
      /\ request'[q].wrote = request[q].wrote
  BY DEF Alike
<1>2. CallFine(q) /\ \A k : Committed(k) => Committed(k)'
  BY DoneStays DEF Inv
<1>3. \A w \in request[q].wrote : Writes(q, w)'
  BY <1>1, <1>2 DEF CallFine, Writes
<1>4. \A x \in request'[q].seen : Found(q, x)'
  BY <1>1, <1>2 DEF CallFine, Found
<1>5. Aimed(q)' /\ Once(q)'
  BY <1>1, <1>2 DEF CallFine, Aimed, Once
<1> QED
  BY <1>1, <1>2, <1>3, <1>4, <1>5 DEF CallFine

LEMMA UntouchedFine ==
    ASSUME Inv, [Next]_vars, NEW q \in Requests, request'[q] = request[q]
    PROVE  CallFine(q)'
  BY OthersFine DEF Alike

\* Rows that nobody writes.
LEMMA SameRowsFine ==
    ASSUME Inv, [Next]_vars, row' = row PROVE RowsFine'
  BY DoneStays DEF Inv, RowsFine, Exists

\* A call that begins or reads.
LEMMA BeginFine ==
    ASSUME Inv, NEW r \in Requests, Start(r) PROVE Inv'
<1>1. PICK op \in Ops : \E e, p, on : Begin(r, op, e, p, on)
  BY DEF Start, Ops
<1>5. PICK e, p, on : Begin(r, op, e, p, on)
  BY <1>1
<1>2. /\ \A q \in Requests \ {r} : request'[q] = request[q]
      /\ request'[r].wrote = {} /\ request'[r].seen = {} /\ request'[r].data = {}
      /\ request'[r].left = {e} /\ request'[r].targets = {e}
      /\ request'[r].step \notin {"wait", "write"} /\ row' = row
  BY <1>5 DEF Begin, NoCall, Inv, Typed, Ops
<1>3. [Next]_vars
  BY DEF Next
<1>4. CallFine(r)'
  BY <1>2 DEF CallFine, Aimed, Once
<1> QED
  BY <1>2, <1>3, <1>4, UntouchedFine, SameRowsFine, StepTyped DEF Inv

LEMMA ReadsFine ==
    ASSUME Inv, NEW r \in Requests,
           Targets(r) \/ CheckExists(r) \/ CountEvents(r) \/ InsertEvent(r)
    PROVE  Inv'
<1>1. PICK s, t, l :
        /\ request' = [request EXCEPT ![r] =
                         [request[r] EXCEPT !.step = s, !.targets = t, !.left = l]]
        /\ s \notin {"wait", "write"} /\ row' = row
        /\ \/ t = l
           \/ /\ t = request[r].targets /\ l = request[r].left
              /\ request[r].step = "exists" \/ s \in {"refused", "insert", "globals"}
  <2>1. CASE Targets(r)
    <3>1. request' = [request EXCEPT ![r] =
                        [request[r] EXCEPT !.step = "others", !.targets = events, !.left = events]]
      BY <2>1, CallTyped DEF Targets, Inv, Typed, CallType
    <3>2. row' = row
      BY <2>1 DEF Targets
    <3> WITNESS "others", events, events
    <3> QED
      BY <3>1, <3>2
  <2>2. CASE CheckExists(r) \/ CountEvents(r) \/ InsertEvent(r)
    <3>1. PICK s \in {"others", "refused", "insert", "globals"} :
            /\ request' = [request EXCEPT ![r].step = s] /\ row' = row
            /\ request[r].step = "exists" \/ s \in {"refused", "insert", "globals"}
      BY <2>2 DEF CheckExists, CountEvents, InsertEvent
    <3>2. request' = [request EXCEPT ![r] = [request[r] EXCEPT
                        !.step = s, !.targets = request[r].targets, !.left = request[r].left]]
      BY <3>1, CallTyped DEF Inv, Typed, CallType
    <3> QED
      BY <3>1, <3>2
  <2> QED
    BY <2>1, <2>2
<1>2. /\ \A q \in Requests \ {r} : request'[q] = request[q]
      /\ request'[r].wrote = request[r].wrote /\ request'[r].seen = request[r].seen
      /\ request'[r].data = request[r].data /\ request'[r].step = s
      /\ request'[r].left = l /\ request'[r].targets = t
      /\ request'[r].provider = request[r].provider /\ request'[r].active = request[r].active
  <2>1. request[r] \in CallType
    BY CallTyped DEF Inv
  <2> QED
    BY <1>1, <2>1 DEF Inv, Typed, CallType
<1>3. [Next]_vars
  BY DEF Next, Configure, CreateEvent
<1>4. request[r].wrote = {} /\ request[r].seen = {}
  <2>1. ASSUME NEW w \in request[r].wrote PROVE FALSE
    <3>1. w[1] \in Rows /\ holder[w[1]] = r
      BY CallTyped DEF Inv, Typed, CallOK
    <3>2. request[r].step \in InTransaction
      BY <3>1, NoneIsNone DEF Inv, Typed, Tables
    <3> QED
      BY <3>2 DEF InTransaction, Targets, CheckExists, CountEvents, InsertEvent
  <2>2. request[r].step # "wait"
    BY DEF Targets, CheckExists, CountEvents, InsertEvent
  <2> QED
    BY <2>1, <2>2 DEF Inv, CallFine, Found
<1>5. CallFine(r)'
  <2>1. CallFine(r) /\ \A k : Committed(k) => Committed(k)'
    BY <1>3, DoneStays DEF Inv
  <2>2. Aimed(r)'
    BY <1>1, <1>2, <2>1 DEF CallFine, Aimed, InTransaction
  <2> QED
    BY <1>2, <1>4, <2>1, <2>2 DEF CallFine, Once
<1> QED
  BY <1>1, <1>2, <1>3, <1>5, UntouchedFine, SameRowsFine, StepTyped DEF Inv

LEMMA ReadGlobalsFine ==
    ASSUME Inv, NEW r \in Requests, ReadGlobals(r) PROVE Inv'
<1>1. PICK s \in {"done", "inherit"}, data \in SUBSET (Rows \X RowType) :
        /\ request' = [request EXCEPT ![r] = [request[r] EXCEPT !.step = s, !.data = data]]
        /\ \A d \in data : d[2] = row[d[1]]
  BY ReadCall DEF Inv
<1>2. /\ \A q \in Requests \ {r} : request'[q] = request[q]
      /\ request'[r].wrote = request[r].wrote /\ request'[r].seen = request[r].seen
      /\ request'[r].data = data /\ request'[r].step = s
      /\ request'[r].provider = request[r].provider /\ request'[r].active = request[r].active
      /\ request'[r].targets = request[r].targets /\ request'[r].left = request[r].left
      /\ request[r].step = "globals" /\ row' = row
  <2>1. request[r] \in CallType
    BY CallTyped DEF Inv
  <2> QED
    BY <1>1, <2>1 DEF Inv, Typed, CallType, ReadGlobals
<1>3. [Next]_vars
  BY DEF Next, CreateEvent
<1>4. \A k : Committed(k) => Committed(k)'
  BY <1>3, DoneStays DEF Inv
<1>5. \A w \in request[r].wrote : Writes(r, w)'
  BY <1>2, <1>4 DEF Inv, CallFine, Writes
<1>6. \A x \in request[r].seen : Found(r, x)'
  BY <1>2 DEF Inv, CallFine, Found
<1>7. \A d \in data : (d[2].active => d[2].keys # None) /\ Committed(d[2].keys)'
  BY <1>1, <1>4 DEF Inv, RowsFine, Exists
<1>8. Aimed(r)' /\ Once(r)'
  BY <1>2 DEF Inv, CallFine, Aimed, Once, InTransaction
<1> QED
  BY <1>2, <1>3, <1>5, <1>6, <1>7, <1>8, UntouchedFine, SameRowsFine, StepTyped DEF Inv, CallFine

-----------------------------------------------------------------------------
(* The statements of a transaction.                                           *)

\* What it has made of a row shows credentials that are its own or committed.
LEMMA LatestFine ==
    ASSUME Inv, NEW r \in Requests, NEW x \in Rows
    PROVE  /\ Latest(r, x).keys = r \/ Committed(Latest(r, x).keys)
           /\ Latest(r, x).active => Latest(r, x).keys # None
<1>1. \/ Latest(r, x) = row[x]
      \/ <<x, Latest(r, x)>> \in request[r].wrote
  BY LatestTyped DEF Inv
<1> QED
  BY <1>1 DEF Inv, RowsFine, CallFine, Writes, Exists

\* A statement that writes the rows xs, all of which its transaction may write.
LEMMA StatementFine ==
    ASSUME Inv, [Next]_vars, NEW r \in Requests, NEW xs,
           row' = row, \A q \in Requests \ {r} : request'[q] = request[q],
           request'[r].provider = request[r].provider, request'[r].active = request[r].active,
           request'[r].targets = request[r].targets, request'[r].data = request[r].data,
           \A w \in request'[r].wrote : w \in request[r].wrote \/ Writes(r, w),
           \A w \in request[r].wrote : w[1] \in xs \/ w \in request'[r].wrote,
           \A x \in xs : \E w \in request'[r].wrote : w[1] = x,
           \A x \in request'[r].seen : x[2] # request[r].provider,
           \A x \in request'[r].seen :
              x \in xs \/ (x \in request[r].seen /\ \E w \in request[r].wrote : w[1] = x),
           Aimed(r)', Once(r)'
    PROVE  Inv'
<1>1. CallFine(r) /\ \A k : Committed(k) => Committed(k)'
  BY DoneStays DEF Inv
<1>2. ASSUME NEW w \in request'[r].wrote PROVE Writes(r, w)'
  <2>1. Writes(r, w)
    BY <1>1 DEF CallFine
  <2> QED
    BY <1>1, <2>1 DEF Writes
<1>3. ASSUME NEW x \in request'[r].seen PROVE Found(r, x)'
  <2>1. CASE x \in xs
    BY <2>1 DEF Found
  <2>2. CASE x \notin xs
    <3>1. PICK w \in request[r].wrote : w[1] = x
      BY <2>2
    <3>2. w \in request'[r].wrote
      BY <2>2, <3>1
    <3> QED
      BY <3>1, <3>2 DEF Found
  <2> QED
    BY <2>1, <2>2
<1>4. \A d \in request'[r].data : (d[2].active => d[2].keys # None) /\ Committed(d[2].keys)'
  BY <1>1 DEF CallFine
<1>5. CallFine(r)'
  BY <1>2, <1>3, <1>4 DEF CallFine
<1> QED
  BY <1>5, UntouchedFine, SameRowsFine, StepTyped DEF Inv

\* What it writes when it switches the rows found off.
LEMMA OffFine ==
    ASSUME Inv, NEW r \in Requests, NEW x \in Rows, NEW row1 \in RowType,
           row1.active = FALSE, row1.keys = Latest(r, x).keys, x[1] \in request[r].targets
    PROVE  Writes(r, <<x, row1>>)
  BY LatestFine DEF Writes

LEMMA SwitchFine ==
    ASSUME Inv, NEW r \in Requests, SwitchOthersOff(r) PROVE Inv'
<1>1. PICK e \in request[r].left :
         LET found == IF request[r].active THEN Siblings(r, e) ELSE {}
             Off(x) == [Latest(r, x) EXCEPT !.active = FALSE, !.at = clock + 1]
         IN  IF Free(r, found)
             THEN /\ holder' = [x \in Rows |-> IF x \in found THEN r ELSE holder[x]]
                  /\ clock' = IF found = {} THEN clock ELSE clock + 1
                  /\ request' = [request EXCEPT ![r].step = "write", ![r].event = e,
                                                ![r].seen = request[r].seen \cup found,
                                                ![r].wrote = Wrote(r, found, Off)]
             ELSE /\ request' = [request EXCEPT ![r].step = "wait", ![r].event = e,
                                                ![r].seen = request[r].seen \cup found]
                  /\ UNCHANGED <<holder, clock>>
  BY DEF SwitchOthersOff
<1> DEFINE found == IF request[r].active THEN Siblings(r, e) ELSE {}
           Off(x) == [Latest(r, x) EXCEPT !.active = FALSE, !.at = clock + 1]
           wrote == {w \in request[r].wrote : w[1] \notin found} \cup {<<x, Off(x)>> : x \in found}
           seen == request[r].seen \cup found
<1>2. /\ request[r].step = "others" /\ row' = row /\ [Next]_vars
      /\ request[r] \in CallType /\ CallFine(r)
  BY CallTyped DEF SwitchOthersOff, Inv, Next, Configure
<1>3. /\ e \in request[r].targets /\ e \in request[r].left /\ request[r].left \subseteq request[r].targets
      /\ e \in Events /\ request[r].provider \in Providers
  <2>1. request[r].left \subseteq request[r].targets
    BY <1>2 DEF CallFine, Aimed, InTransaction
  <2> QED
    BY <1>2, <2>1, CallTyped, TransactionTyped DEF InTransaction, Inv
<1>4. \A x \in found : x \in Rows /\ x[1] = e /\ x[2] # request[r].provider
  BY <1>3 DEF Siblings, Rows
<1>5. \A x \in request[r].seen : x[2] # request[r].provider /\ \E w \in request[r].wrote : w[1] = x
  BY <1>2 DEF CallFine, Found
<1>6. CASE Free(r, found)
  <2>1. request' = [request EXCEPT ![r] = [request[r] EXCEPT
                      !.step = "write", !.event = e, !.seen = seen, !.wrote = wrote]]
    BY <1>1, <1>2, <1>6 DEF Wrote, Inv, Typed, CallType
  <2>2. \A x \in found : Writes(r, <<x, Off(x)>>)
    BY <1>3, <1>4, SwitchedOffTyped, OffFine DEF Inv
  <2> HIDE DEF found, Off
  <2>3. /\ \A w \in wrote : w \in request[r].wrote \/ Writes(r, w)
        /\ \A w \in request[r].wrote : w[1] \in found \/ w \in wrote
        /\ \A x \in found : \E w \in wrote : w[1] = x
    <3>1. \A x \in found : <<x, Off(x)>> \in wrote /\ <<x, Off(x)>>[1] = x
      OBVIOUS
    <3> QED
      BY <2>2, <3>1
  <2>4. /\ \A x \in seen : x[2] # request[r].provider
        /\ \A x \in seen : x \in found \/ (x \in request[r].seen /\ \E w \in request[r].wrote : w[1] = x)
    BY <1>4, <1>5
  <2> HIDE DEF wrote, seen
  <2>5. /\ \A q \in Requests \ {r} : request'[q] = request[q]
        /\ request'[r].wrote = wrote /\ request'[r].seen = seen
        /\ request'[r].data = request[r].data /\ request'[r].step = "write"
        /\ request'[r].event = e /\ request'[r].left = request[r].left
        /\ request'[r].targets = request[r].targets
        /\ request'[r].provider = request[r].provider /\ request'[r].active = request[r].active
    BY <1>2, <2>1 DEF Inv, Typed, CallType
  <2>6. Aimed(r)'
    BY <1>3, <2>5 DEF Aimed
  <2>7. Once(r)'
    <3>1. \A w \in wrote : w \in request[r].wrote \/ w[1][2] # request[r].provider
      BY <1>4 DEF wrote
    <3> QED
      BY <1>2, <2>5, <3>1 DEF CallFine, Once
  <2> QED
    BY <1>2, <2>3, <2>4, <2>5, <2>6, <2>7, StatementFine
<1>7. CASE ~Free(r, found)
  <2>1. request' = [request EXCEPT ![r] = [request[r] EXCEPT
                      !.step = "wait", !.event = e, !.seen = seen]]
    BY <1>1, <1>2, <1>7 DEF Inv, Typed, CallType
  <2> HIDE DEF found
  <2>2. \A x \in seen : /\ x[2] # request[r].provider
                        /\ x[1] = e \/ \E w \in request[r].wrote : w[1] = x
    BY <1>4, <1>5
  <2> HIDE DEF seen
  <2>3. /\ \A q \in Requests \ {r} : request'[q] = request[q]
        /\ request'[r].wrote = request[r].wrote /\ request'[r].seen = seen
        /\ request'[r].data = request[r].data /\ request'[r].step = "wait"
        /\ request'[r].event = e /\ request'[r].left = request[r].left
        /\ request'[r].targets = request[r].targets
        /\ request'[r].provider = request[r].provider /\ request'[r].active = request[r].active
    BY <1>2, <2>1 DEF Inv, Typed, CallType
  <2>4. Aimed(r)'
    BY <1>3, <2>3 DEF Aimed
  <2>5. \A k : Committed(k) => Committed(k)'
    BY <1>2, DoneStays DEF Inv
  <2>6. \A w \in request[r].wrote : Writes(r, w)'
    BY <1>2, <2>3, <2>5 DEF CallFine, Writes
  <2>7. \A x \in seen : Found(r, x)'
    BY <2>2, <2>3 DEF Found
  <2>8. CallFine(r)'
    BY <1>2, <2>3, <2>4, <2>5, <2>6, <2>7 DEF CallFine, Once
  <2> QED
    BY <1>2, <2>3, <2>8, UntouchedFine, SameRowsFine, StepTyped DEF Inv
<1> QED
  BY <1>6, <1>7

LEMMA ReleasedFine ==
    ASSUME Inv, NEW r \in Requests, OthersReleased(r) PROVE Inv'
<1> DEFINE found == {x \in request[r].seen : x[1] = request[r].event}
           Off(x) == [Latest(r, x) EXCEPT !.active = FALSE, !.at = clock + 1]
           wrote == {w \in request[r].wrote : w[1] \notin found} \cup {<<x, Off(x)>> : x \in found}
<1>1. /\ request[r].step = "wait" /\ row' = row /\ [Next]_vars
      /\ request[r] \in CallType /\ CallFine(r)
  BY CallTyped DEF OthersReleased, Inv, Next, Configure
<1>2. request' = [request EXCEPT ![r] = [request[r] EXCEPT !.step = "write", !.wrote = wrote]]
  BY <1>1 DEF OthersReleased, Wrote, Inv, Typed, CallType
<1>3. request[r].event \in request[r].left /\ request[r].left \subseteq request[r].targets
  BY <1>1 DEF CallFine, Aimed, InTransaction
<1>4. \A x \in found : x \in Rows /\ Writes(r, <<x, Off(x)>>)
  <2>1. \A x \in found : x \in Rows /\ x[1] = request[r].event
    BY CallTyped DEF Inv
  <2> QED
    BY <1>3, <2>1, SwitchedOffTyped, OffFine DEF Inv
<1>5. \A x \in request[r].seen :
         /\ x[2] # request[r].provider
         /\ x \in found \/ \E w \in request[r].wrote : w[1] = x
  BY <1>1 DEF CallFine, Found
<1>9. \A x \in found : x[2] # request[r].provider
  BY <1>5
<1> HIDE DEF found, Off
<1>6. /\ \A w \in wrote : w \in request[r].wrote \/ Writes(r, w)
      /\ \A w \in request[r].wrote : w[1] \in found \/ w \in wrote
      /\ \A x \in found : \E w \in wrote : w[1] = x
  <2>1. \A x \in found : <<x, Off(x)>> \in wrote /\ <<x, Off(x)>>[1] = x
    OBVIOUS
  <2> QED
    BY <1>4, <2>1
<1>10. \A w \in wrote : w \in request[r].wrote \/ w[1][2] # request[r].provider
  BY <1>9
<1> HIDE DEF wrote
<1>7. /\ \A q \in Requests \ {r} : request'[q] = request[q]
      /\ request'[r].wrote = wrote /\ request'[r].seen = request[r].seen
      /\ request'[r].data = request[r].data /\ request'[r].step = "write"
      /\ request'[r].event = request[r].event /\ request'[r].left = request[r].left
      /\ request'[r].targets = request[r].targets
      /\ request'[r].provider = request[r].provider /\ request'[r].active = request[r].active
  BY <1>1, <1>2 DEF Inv, Typed, CallType
<1>8. Aimed(r)' /\ Once(r)'
  BY <1>1, <1>3, <1>7, <1>10 DEF Aimed, CallFine, Once
<1> QED
  BY <1>1, <1>5, <1>6, <1>7, <1>8, StatementFine

LEMMA WriteFine ==
    ASSUME Inv, NEW r \in Requests, WriteRow(r) PROVE Inv'
<1> DEFINE x == <<request[r].event, request[r].provider>>
           row1 == IF request[r].op = "toggle" THEN Switched(r, Latest(r, x))
                                               ELSE Saved(r, Latest(r, x))
           wrote == {w \in request[r].wrote : w[1] # x} \cup {<<x, row1>>}
           next == IF Remaining(r) = {} THEN "commit" ELSE "others"
<1>1. /\ request[r].step = "write" /\ row' = row /\ [Next]_vars
      /\ request[r] \in CallType /\ CallFine(r)
      /\ request[r].op = "toggle" => Exists(x)
  BY CallTyped DEF WriteRow, Inv, Next, Configure
<1>2. request' = [request EXCEPT ![r] = [request[r] EXCEPT
                    !.wrote = wrote, !.left = Remaining(r), !.step = next]]
  <2> DEFINE New(y) == IF request[r].op = "toggle" THEN Switched(r, Latest(r, y))
                                                   ELSE Saved(r, Latest(r, y))
  <2>1. /\ New(x) = row1
        /\ request' = [request EXCEPT ![r].wrote = {w \in request[r].wrote : w[1] \notin {x}}
                                                    \cup {<<y, New(y)>> : y \in {x}},
                                      ![r].left = Remaining(r), ![r].step = next]
    BY DEF WriteRow, Wrote
  <2> HIDE DEF x, New, row1, next
  <2>2. {w \in request[r].wrote : w[1] \notin {x}} \cup {<<y, New(y)>> : y \in {x}} = wrote
    BY <2>1
  <2> HIDE DEF wrote
  <2> QED
    BY <1>1, <2>1, <2>2 DEF Inv, Typed, CallType
<1>3. /\ request[r].event \in request[r].left /\ request[r].left \subseteq request[r].targets
      /\ x \in Rows
  <2>1. request[r].event \in request[r].left /\ request[r].left \subseteq request[r].targets
    BY <1>1 DEF CallFine, Aimed, InTransaction
  <2> QED
    BY <1>1, <2>1, TransactionTyped DEF InTransaction, Inv, Rows
<1>4. Writes(r, <<x, row1>>)
  <2>1. row1.active = request[r].active /\ row1.keys \in {r, Latest(r, x).keys}
    <3>1. PICK old \in RowType : old = Latest(r, x)
      BY <1>3, LatestTyped DEF Inv
    <3>2. Saved(r, old).active = request[r].active /\ Saved(r, old).keys = r
      BY DEF Saved
    <3>3. Switched(r, old).active = request[r].active /\ Switched(r, old).keys = old.keys
      BY <3>1 DEF Switched, RowType
    <3> QED
      BY <3>1, <3>2, <3>3
  <2>2. row1.keys # None
    <3>1. CASE request[r].op = "toggle"
      <4>1. \A w \in request[r].wrote : w[1] # x
        BY <1>1, <1>3 DEF CallFine, Once
      <4>2. Latest(r, x) = row[x]
        BY <4>1 DEF Latest
      <4>5. row[x].keys # None
        BY <1>1, <3>1 DEF Exists
      <4>3. PICK old \in RowType : old = Latest(r, x) /\ old.keys # None
        <5> HIDE DEF x
        <5> QED
          BY <1>3, <4>2, <4>5, LatestTyped DEF Inv
      <4>4. Switched(r, old).keys # None
        BY <4>3 DEF Switched, RowType
      <4> QED
        BY <3>1, <4>3, <4>4
    <3>2. CASE request[r].op # "toggle"
      BY <3>2, NoneIsNone DEF Saved
    <3> QED
      BY <3>1, <3>2
  <2>3. row1.keys = r \/ Committed(row1.keys)
    BY <1>3, <2>1, LatestFine
  <2>4. x[1] = request[r].event /\ x[2] = request[r].provider
    OBVIOUS
  <2> HIDE DEF x, row1
  <2> QED
    BY <1>3, <2>1, <2>2, <2>3, <2>4 DEF Writes
<1>5. \A y \in request[r].seen :
         y[2] # request[r].provider /\ \E w \in request[r].wrote : w[1] = y
  BY <1>1 DEF CallFine, Found
<1> HIDE DEF x, row1
<1>6. /\ \A w \in wrote : w \in request[r].wrote \/ Writes(r, w)
      /\ \A w \in request[r].wrote : w[1] \in {x} \/ w \in wrote
      /\ \A y \in {x} : \E w \in wrote : w[1] = y
  BY <1>4
<1>9. \A w \in wrote : w \in request[r].wrote \/ w[1] = <<request[r].event, request[r].provider>>
  BY DEF x
<1> HIDE DEF wrote
<1>7. /\ \A q \in Requests \ {r} : request'[q] = request[q]
      /\ request'[r].wrote = wrote /\ request'[r].seen = request[r].seen
      /\ request'[r].data = request[r].data /\ request'[r].step = next
      /\ request'[r].event = request[r].event /\ request'[r].left = Remaining(r)
      /\ request'[r].targets = request[r].targets
      /\ request'[r].provider = request[r].provider /\ request'[r].active = request[r].active
  BY <1>1, <1>2 DEF Inv, Typed, CallType
<1>8. Aimed(r)' /\ Once(r)'
  <2>1. Aimed(r)'
    BY <1>3, <1>7 DEF Aimed, Remaining
  <2>2. ASSUME NEW w \in wrote, w[1][2] = request[r].provider PROVE w[1][1] \notin Remaining(r)
    <3>1. CASE w \in request[r].wrote
      BY <1>1, <2>2, <3>1 DEF CallFine, Once, Remaining
    <3>2. CASE w[1] = <<request[r].event, request[r].provider>>
      BY <3>2 DEF Remaining
    <3> QED
      BY <1>9, <3>1, <3>2
  <2> QED
    BY <1>7, <2>1, <2>2 DEF Once
<1>10. \A y \in request'[r].seen :
         /\ y[2] # request[r].provider
         /\ y \in request[r].seen /\ \E w \in request[r].wrote : w[1] = y
  BY <1>5, <1>7
<1> DEFINE xs == {x}
<1>11. /\ \A w \in request'[r].wrote : w \in request[r].wrote \/ Writes(r, w)
       /\ \A w \in request[r].wrote : w[1] \in xs \/ w \in request'[r].wrote
       /\ \A y \in xs : \E w \in request'[r].wrote : w[1] = y
  BY <1>6, <1>7
<1> HIDE DEF xs
<1>12. /\ \A q \in Requests \ {r} : request'[q] = request[q]
       /\ request'[r].provider = request[r].provider /\ request'[r].active = request[r].active
       /\ request'[r].targets = request[r].targets /\ request'[r].data = request[r].data
       /\ row' = row /\ [Next]_vars
  BY <1>1, <1>7
<1> QED
  BY <1>8, <1>10, <1>11, <1>12, StatementFine

-----------------------------------------------------------------------------
(* The end of a transaction, and the calls of one statement.                  *)

\* A call that ends, and the rows that it leaves.
LEMMA EndFine ==
    ASSUME Inv, [Next]_vars, NEW r \in Requests, NEW s \in {"done", "refused"},
           request' = [request EXCEPT ![r] = [NoCall EXCEPT !.step = s]], RowsFine'
    PROVE  Inv'
<1>1. /\ request'[r] = [NoCall EXCEPT !.step = s]
      /\ \A q \in Requests \ {r} : request'[q] = request[q]
  BY EndsAlone DEF Inv
<1>2. CallFine(r)'
  <2>1. /\ request'[r].wrote = {} /\ request'[r].seen = {} /\ request'[r].data = {}
        /\ request'[r].step = s
    BY <1>1 DEF NoCall
  <2> QED
    BY <2>1 DEF CallFine, Aimed, Once, InTransaction
<1> QED
  BY <1>1, <1>2, UntouchedFine, StepTyped DEF Inv

LEMMA CommitFine ==
    ASSUME Inv, NEW r \in Requests, Commit(r) PROVE Inv'
<1>1. /\ request' = [request EXCEPT ![r] = [NoCall EXCEPT !.step = "done"]]
      /\ row' = [x \in Rows |-> Latest(r, x)]
      /\ [Next]_vars
  BY DEF Commit, Next, Configure
<1>2. /\ request'[r].step = "done"
      /\ \A k \in Requests : request[k].step = "done" => request'[k].step = "done"
  BY <1>1, EndsAlone, EndedCall, DoneStays DEF Inv, Committed
<1>3. ASSUME NEW x \in Rows
      PROVE  /\ row'[x].active => row'[x].keys # None
             /\ row'[x].keys \in Requests => request'[row'[x].keys].step = "done"
  <2>1. row'[x] = Latest(r, x)
    BY <1>1
  <2> QED
    BY <1>2, <2>1, LatestFine DEF Committed
<1>4. RowsFine'
  BY <1>3 DEF RowsFine, Exists, Committed
<1> QED
  BY <1>1, <1>4, EndFine

LEMMA RollbackFine ==
    ASSUME Inv, NEW r \in Requests, Rollback(r) \/ InheritFails(r) PROVE Inv'
<1>1. /\ \E s \in {"done", "refused"} : request' = [request EXCEPT ![r] = [NoCall EXCEPT !.step = s]]
      /\ row' = row /\ [Next]_vars
  BY DEF Rollback, InheritFails, Next, Configure, CreateEvent
<1> QED
  BY <1>1, SameRowsFine, EndFine

\* A removal.
LEMMA RemoveFine ==
    ASSUME Inv, NEW r \in Requests, Remove(r) PROVE Inv'
<1>1. [Next]_vars
  BY DEF Next, Configure
<1>2. /\ request'[r] = [NoCall EXCEPT !.step = "done"]
      /\ \A q \in Requests \ {r} : CallFine(q)'
  BY <1>1, RemovedCalls, OthersFine DEF Inv
<1>3. CallFine(r)'
  <2>1. /\ request'[r].wrote = {} /\ request'[r].seen = {} /\ request'[r].data = {}
        /\ request'[r].step = "done"
    BY <1>2 DEF NoCall
  <2> QED
    BY <2>1 DEF CallFine, Aimed, Once, InTransaction
<1>4. \A x \in Rows : row'[x] \in {row[x], NoRow}
  BY DEF Remove, Inv, Typed, Tables
<1>5. NoRow.active = FALSE /\ NoRow.keys = None
  BY DEF NoRow
<1>6. ASSUME NEW x \in Rows
      PROVE  /\ row'[x].active => row'[x].keys # None
             /\ row'[x].keys \in Requests => request'[row'[x].keys].step = "done"
  <2>1. CASE row'[x] = row[x]
    BY <1>1, <2>1, DoneStays DEF Inv, RowsFine, Exists, Committed
  <2>2. CASE row'[x] = NoRow
    BY <1>5, <2>2, NoneIsNone
  <2> QED
    BY <1>4, <2>1, <2>2
<1>7. RowsFine'
  BY <1>6 DEF RowsFine, Exists, Committed
<1> QED
  BY <1>1, <1>2, <1>3, <1>7, StepTyped DEF Inv

\* The rows that an inheritance makes are those of the new event that it did not
\* have, each after a row that the creation has read.
LEMMA Inherited ==
    ASSUME Typed, NEW r \in Requests, Inherit(r), NEW x \in Rows
    PROVE  \/ row'[x] = row[x]
           \/ /\ x[1] = request[r].event /\ ~Exists(x)
              /\ \E d \in request[r].data :
                   /\ d[1][2] = x[2] /\ d[2] \in RowType
                   /\ row'[x].active = d[2].active /\ row'[x].keys = d[2].keys
<1> DEFINE copied == {y \in {request[r].event} \X {d[1][2] : d \in request[r].data} : ~Exists(y)}
           Source(p) == (CHOOSE d \in request[r].data : d[1][2] = p)[2]
<1>1. row'[x] = IF x \in copied THEN [Source(x[2]) EXCEPT !.global = TRUE, !.at = clock + 1]
                                ELSE row[x]
  BY DEF Inherit
<1>2. ASSUME x \in copied
      PROVE  /\ x[1] = request[r].event /\ ~Exists(x)
             /\ \E d \in request[r].data : d[1][2] = x[2]
  BY <1>2
<1>3. ASSUME x \in copied
      PROVE  \E d \in request[r].data : d[1][2] = x[2] /\ d[2] = Source(x[2]) /\ d[2] \in RowType
  <2>1. PICK d \in request[r].data : d[1][2] = x[2] /\ d[2] = Source(x[2])
    BY <1>2, <1>3
  <2>2. d \in Rows \X RowType
    BY CallTyped
  <2> QED
    BY <2>1, <2>2
<1> HIDE DEF copied, Source
<1>4. CASE x \in copied
  <2>1. PICK d \in request[r].data : d[1][2] = x[2] /\ d[2] = Source(x[2]) /\ d[2] \in RowType
    BY <1>3, <1>4
  <2>2. PICK old \in RowType : old = d[2]
    BY <2>1
  <2>3. row'[x] = [old EXCEPT !.global = TRUE, !.at = clock + 1] /\ clock + 1 \in Nat
    BY <1>1, <1>4, <2>1, <2>2 DEF Typed, Tables
  <2>5. row'[x].active = old.active /\ row'[x].keys = old.keys
    BY <2>3 DEF RowType
  <2>4. row'[x].active = d[2].active /\ row'[x].keys = d[2].keys
    BY <2>2, <2>5
  <2> QED
    BY <1>2, <1>4, <2>1, <2>4
<1> QED
  BY <1>1, <1>4

LEMMA InheritFine ==
    ASSUME Inv, NEW r \in Requests, Inherit(r) PROVE Inv'
<1>1. /\ request' = [request EXCEPT ![r] = [NoCall EXCEPT !.step = "done"]]
      /\ [Next]_vars
  BY DEF Inherit, Next, CreateEvent
<1>2. \A k \in Requests : request[k].step = "done" => request'[k].step = "done"
  BY <1>1, DoneStays DEF Inv, Committed
<1>3. ASSUME NEW x \in Rows
      PROVE  /\ row'[x].active => row'[x].keys # None
             /\ row'[x].keys \in Requests => request'[row'[x].keys].step = "done"
  <2>1. CASE row'[x] = row[x]
    BY <1>2, <2>1 DEF Inv, RowsFine, Exists, Committed
  <2>2. CASE row'[x] # row[x]
    <3>1. PICK d \in request[r].data : row'[x].active = d[2].active /\ row'[x].keys = d[2].keys
      BY <2>2, Inherited DEF Inv
    <3>2. (d[2].active => d[2].keys # None) /\ Committed(d[2].keys)
      BY DEF Inv, CallFine
    <3> QED
      BY <1>2, <3>1, <3>2 DEF Committed
  <2> QED
    BY <2>1, <2>2
<1>4. RowsFine'
  BY <1>3 DEF RowsFine, Exists, Committed
<1> QED
  BY <1>1, <1>4, EndFine

LEMMA StepInv == Inv /\ [Next]_vars => Inv'
<1> SUFFICES ASSUME Inv, [Next]_vars PROVE Inv'
  OBVIOUS
<1>1. ASSUME NEW r \in Requests, Start(r) \/ Configure(r) \/ CreateEvent(r) PROVE Inv'
  BY <1>1, BeginFine, ReadsFine, SwitchFine, ReleasedFine, WriteFine, CommitFine, RollbackFine,
     RemoveFine, ReadGlobalsFine, InheritFine DEF Configure, CreateEvent
<1>2. CASE UNCHANGED vars
  <2>1. row' = row /\ request' = request /\ [Next]_vars
    BY <1>2 DEF vars
  <2> QED
    BY <2>1, UntouchedFine, SameRowsFine, StepTyped DEF Inv
<1> QED
  BY <1>1, <1>2 DEF Next

LEMMA AlwaysInv == Spec => []Inv
  BY InitInv, StepInv, PTL DEF Spec

-----------------------------------------------------------------------------
(* Theorems. *)

\* The transactions keep apart: whatever calls overlap and whichever fail, only a
\* running one holds rows, each holds what it wrote, and no call reads or copies
\* credentials of one that did not commit.
THEOREM OfficeIsTyped == Spec => []TypeOK
<1>1. ASSUME Inv PROVE TypeOK
  <2>1. ASSUME NEW x \in Rows
        PROVE  /\ row[x] \in [active : BOOLEAN, global : BOOLEAN,
                              keys : Requests \cup {First, None}, at : 0..clock]
               /\ Exists(x) => x[1] \in events
               /\ row[x].keys \in Requests => request[row[x].keys].step = "done"
               /\ holder[x] # None => Running(holder[x])
    <3>1. row[x] \in RowType /\ row[x].at <= clock /\ clock \in Nat
      BY <1>1 DEF Inv, Typed, Tables
    <3>2. row[x] \in [active : BOOLEAN, global : BOOLEAN,
                      keys : Requests \cup {First, None}, at : 0..clock]
      BY <3>1 DEF RowType
    <3> QED
      BY <1>1, <3>2 DEF Inv, Typed, Tables, RowsFine, Committed, Running, InTransaction
  <2>2. ASSUME NEW r \in Requests
        PROVE  /\ request[r].step \in Steps /\ request[r].op \in Ops
               /\ \A w \in request[r].wrote : holder[w[1]] = r
    BY <1>1, CallTyped DEF Inv, Typed, CallOK
  <2> QED
    BY <1>1, <2>1, <2>2 DEF TypeOK, Inv, Typed, Tables
<1> QED
  BY <1>1, AlwaysInv, PTL

\* A row that a transaction makes active, or leaves so.
LEMMA ActiveAfter ==
    ASSUME Inv, NEW r \in Requests, Commit(r), NEW x \in Rows, row'[x].active
    PROVE  \/ x[2] = request[r].provider /\ x[1] \in request[r].targets
           \/ row[x].active /\ Exists(x) /\ x \notin request[r].seen
<1>1. row'[x] = Latest(r, x) /\ request[r].step = "commit" /\ CallFine(r)
  BY DEF Commit, Inv
<1>2. CASE <<x, Latest(r, x)>> \in request[r].wrote
  BY <1>1, <1>2 DEF CallFine, Writes
<1>3. CASE Latest(r, x) = row[x] /\ \A w \in request[r].wrote : w[1] # x
  BY <1>1, <1>3 DEF CallFine, Found, Inv, RowsFine
<1> QED
  BY <1>2, <1>3, LatestTyped DEF Inv

LEMMA CommitKeepsOne ==
    ASSUME Inv, NEW r \in Requests, Commit(r), NEW e \in events, OneActive(e), ~OneActive(e)'
    PROVE  request[r].step = "commit" /\ e \in request[r].targets /\ CameSince(r, e)
<1>1. PICK p \in Providers, q \in Providers :
        row'[<<e, p>>].active /\ row'[<<e, q>>].active /\ p # q
  BY DEF OneActive
<1>2. request[r].step = "commit" /\ e \in Events /\ request[r].provider \in Providers
  BY TransactionTyped DEF Commit, Inv, Typed, Tables, InTransaction
<1>3. ~(row[<<e, p>>].active /\ row[<<e, q>>].active)
  BY <1>1 DEF OneActive
<1>4. <<e, p>> \in Rows /\ <<e, q>> \in Rows
  BY <1>2 DEF Rows
<1>5. ASSUME NEW s \in Providers, row'[<<e, s>>].active
      PROVE  \/ s = request[r].provider /\ e \in request[r].targets
             \/ row[<<e, s>>].active /\ Exists(<<e, s>>) /\ <<e, s>> \notin request[r].seen
  <2>1. <<e, s>> \in Rows
    BY <1>2 DEF Rows
  <2> QED
    BY <1>5, <2>1, ActiveAfter
<1>6. e \in request[r].targets
  BY <1>1, <1>3, <1>5
<1>7. PICK s \in {p, q} : s # request[r].provider /\ row'[<<e, s>>].active
  BY <1>1
<1>8. Exists(<<e, s>>) /\ <<e, s>> \notin request[r].seen
  BY <1>5, <1>7
<1>9. <<e, s>> \in Siblings(r, e)
  BY <1>7, <1>8 DEF Siblings
<1> QED
  BY <1>2, <1>6, <1>8, <1>9 DEF CameSince

LEMMA InheritKeepsOne ==
    ASSUME Inv, NEW r \in Requests, Inherit(r), NEW e \in events, OneActive(e), ~OneActive(e)'
    PROVE  request[r].step = "inherit" /\ request[r].event = e /\ LendsTwo(r, e)
<1>1. PICK p \in Providers, q \in Providers :
        row'[<<e, p>>].active /\ row'[<<e, q>>].active /\ p # q
  BY DEF OneActive
<1>2. <<e, p>> \in Rows /\ <<e, q>> \in Rows
  BY DEF Rows, Inv, Typed, Tables
<1>3. request[r].event = e
  BY <1>1, <1>2, Inherited DEF OneActive, Inv
<1>4. CASE \A s \in Providers : ~Exists(<<e, s>>)
  <2>1. ~row[<<e, p>>].active /\ ~row[<<e, q>>].active
    BY <1>2, <1>4 DEF Inv, RowsFine
  <2>2. PICK c \in request[r].data : c[1][2] = p /\ c[2].active
    BY <1>1, <1>2, <2>1, Inherited DEF Inv
  <2>3. PICK d \in request[r].data : d[1][2] = q /\ d[2].active
    BY <1>1, <1>2, <2>1, Inherited DEF Inv
  <2>4. c # d
    BY <1>1, <2>2, <2>3
  <2> QED
    BY <1>3, <2>2, <2>3, <2>4 DEF LendsTwo, Inherit
<1>5. CASE \E s \in Providers : Exists(<<e, s>>)
  BY <1>3, <1>5 DEF LendsTwo, Inherit
<1> QED
  BY <1>4, <1>5

\* "Un seul fournisseur actif par événement": whatever calls overlap, an event goes
\* to two active providers only by the copy of what two events lend to a new one, or
\* by the commit of a call whose event got another provider since it looked.
THEOREM SwitchingKeepsOne == Spec => OneActiveProvider
<1>1. ASSUME Inv, [Next]_vars, NEW e \in events, OneActive(e), ~OneActive(e)'
      PROVE  \E r \in Requests :
               \/ request[r].step = "inherit" /\ request[r].event = e /\ LendsTwo(r, e)
               \/ request[r].step = "commit" /\ e \in request[r].targets /\ CameSince(r, e)
  <2>1. CASE row' = row
    BY <1>1, <2>1 DEF OneActive
  <2>2. ASSUME NEW r \in Requests, Remove(r) PROVE FALSE
    <3>1. \A x \in Rows : row'[x] \in {row[x], NoRow}
      BY <1>1, <2>2 DEF Remove, Inv, Typed, Tables
    <3>2. \A p \in Providers : row'[<<e, p>>].active => row[<<e, p>>].active
      BY <1>1, <3>1 DEF NoRow, Rows, Inv, Typed, Tables
    <3> QED
      BY <1>1, <3>2 DEF OneActive
  <2>3. ASSUME NEW r \in Requests, Start(r) \/ Configure(r) \/ CreateEvent(r), row' # row
        PROVE  Commit(r) \/ Remove(r) \/ Inherit(r)
    BY <2>3 DEF Start, Begin, Configure, CreateEvent, Targets, CheckExists, SwitchOthersOff,
       OthersReleased, WriteRow, Rollback, CountEvents, InsertEvent, ReadGlobals, InheritFails
  <2> QED
    BY <1>1, <2>1, <2>2, <2>3, CommitKeepsOne, InheritKeepsOne DEF Next, vars
<1>2. Inv /\ [Next]_vars => [KeepsOne]_vars
  BY <1>1 DEF KeepsOne
<1> QED
  BY <1>2, AlwaysInv, PTL DEF Spec, OneActiveProvider

=============================================================================
