---------------------------- MODULE AccountsProofs ----------------------------
(* Proofs about the accounts, for any addresses, numbers and calls, whatever  *)
(* calls and nightly jobs overlap.                                           *)
EXTENDS Accounts, TLAPS

-----------------------------------------------------------------------------
(* Types.                                                                   *)

Running(r) == request[r].step \notin {"idle", "done", "refused"}

AccountType ==
    [id : Requests \cup {None}, role : {"CLIENT", "MANAGER", "SCANNER", None},
     previous : {"CLIENT", None}, guest : BOOLEAN, google : BOOLEAN, active : BOOLEAN,
     aged : BOOLEAN, phone : Numbers \cup {None}, verified : BOOLEAN,
     code : Numbers \cup {None}]

Steps == {"idle", "done", "refused", "find", "upsert", "order", "findAddress", "complete",
          "createGuest", "savePhone", "sendCode", "storeCode", "readCode", "verify",
          "readProfile", "enrich", "countAgents", "findFree", "createAgent", "findClient",
          "attach", "findAgent", "detach", "listOrphans", "delete", "listStale", "anonymise"}

RowType ==
    [user : Users, id : Requests, role : {"CLIENT", "MANAGER", "SCANNER", None},
     orders : SUBSET {"coming", "past"}]

CallType ==
    [step : Steps, op : Ops, user : Users \cup {None}, number : Numbers \cup {None},
     read : AccountType, row : Requests \cup {None}, list : SUBSET RowType]

Tables ==
    /\ account \in [Users -> AccountType]
    /\ profile \in [Users -> Requests \cup {None}]
    /\ orders \in [Users -> SUBSET {"coming", "past"}]
    /\ declared \in [Users -> Numbers \cup {None}]
    /\ proven \in [Users -> Numbers \cup {None}]

\* An order and a profile have their account.
Owned == \A u \in Users : ~Exists(u) => account[u] = NoAccount /\ profile[u] = None /\ orders[u] = {}

Typed ==
    /\ Tables
    /\ Owned
    /\ request \in [Requests -> CallType]
    /\ \A r \in Requests : Running(r) => request[r].user \in Users
    /\ \A r \in Requests : request[r].step \in {"findAgent", "detach"} => request[r].row # None

LEMMA NothingIsTyped == NoAccount \in AccountType /\ NoCall \in CallType
  BY DEF NoAccount, NoCall, AccountType, CallType, Steps, Ops

LEMMA InitTyped == Init => Typed
  BY NothingIsTyped DEF Init, Typed, Tables, Owned, NoCall, NoAccount, Exists, Running

\* What a call of a typed state has.
LEMMA CallTyped ==
    ASSUME Typed, NEW r \in Requests
    PROVE  /\ request[r] \in CallType
           /\ request[r].step \in Steps /\ request[r].op \in Ops
           /\ request[r].number \in Numbers \cup {None}
           /\ request[r].read \in AccountType
           /\ request[r].row \in Requests \cup {None}
           /\ request[r].list \subseteq RowType
           /\ \A x \in request[r].list : x.user \in Users
           /\ Running(r) => request[r].user \in Users /\ account[request[r].user] \in AccountType
  BY DEF Typed, Tables, CallType, RowType

\* How a call goes on.
LEMMA CallMoves ==
    ASSUME Typed, NEW r \in Requests, NEW new \in CallType,
           request' = [request EXCEPT ![r] = new],
           new.step \notin {"idle", "done", "refused"} => new.user \in Users,
           new.step \in {"findAgent", "detach"} => new.row # None
    PROVE  /\ request' \in [Requests -> CallType]
           /\ \A q \in Requests : Running(q)' => request'[q].user \in Users
           /\ \A q \in Requests : request'[q].step \in {"findAgent", "detach"} => request'[q].row # None
  BY DEF Typed, Running

Calls ==
    /\ request \in [Requests -> CallType]
    /\ \A r \in Requests : Running(r) => request[r].user \in Users
    /\ \A r \in Requests : request[r].step \in {"findAgent", "detach"} => request[r].row # None

LEMMA GoesTyped ==
    ASSUME Typed, NEW r \in Requests, Running(r), NEW step \in Steps,
           step \in {"findAgent", "detach"} => request[r].step = "findAgent",
           Goes(r, step) \/ Reads(r, step)
    PROVE  Calls'
<1>1. PICK read \in AccountType :
        request' = [request EXCEPT ![r] = [request[r] EXCEPT !.step = step, !.read = read]]
  <2>1. CASE Goes(r, step)
    <3>1. request' = [request EXCEPT ![r] = [request[r] EXCEPT !.step = step, !.read = request[r].read]]
      BY <2>1, CallTyped DEF Goes, CallType, Typed
    <3> QED
      BY <3>1, CallTyped
  <2>2. CASE Reads(r, step)
    <3>1. request' = [request EXCEPT ![r] = [request[r] EXCEPT !.step = step,
                                                              !.read = account[request[r].user]]]
      BY <2>2, CallTyped DEF Reads, CallType, Typed
    <3> QED
      BY <3>1, CallTyped
  <2> QED
    BY <2>1, <2>2
<1> DEFINE new == [request[r] EXCEPT !.step = step, !.read = read]
<1>2. /\ new \in CallType /\ new.user \in Users
      /\ new.step \in {"findAgent", "detach"} => new.row # None
  BY CallTyped DEF CallType, Typed
<1> HIDE DEF new
<1> QED
  BY <1>1, <1>2, CallMoves DEF Calls, new

LEMMA EndsTyped ==
    ASSUME Typed, NEW r \in Requests, NEW step \in {"done", "refused"}, Ends(r, step)
    PROVE  Calls'
<1>1. /\ [NoCall EXCEPT !.step = step] \in CallType
      /\ [NoCall EXCEPT !.step = step].step = step
  BY NothingIsTyped DEF CallType, Steps, NoCall
<1> QED
  BY <1>1, CallMoves DEF Calls, Ends

LEMMA CallsApart == Typed <=> Tables /\ Owned /\ Calls
  BY DEF Typed, Calls

LEMMA SameRows ==
    ASSUME Typed, UNCHANGED <<account, profile, orders, declared, proven>>
    PROVE  Tables' /\ Owned'
  BY DEF Typed, Tables, Owned, Exists

LEMMA LeavesTyped ==
    ASSUME Typed, NEW u \in Users, Leaves(u)
    PROVE  Tables' /\ Owned'
  BY NothingIsTyped DEF Typed, Tables, Owned, Exists, Leaves, NoAccount

\* What a call writes into an account that is there.
LEMMA ChangesTyped ==
    ASSUME Typed, NEW r \in Requests, NEW u \in Users, Exists(u)
    PROVE  /\ [account[u] EXCEPT !.phone = request[r].number] \in AccountType
           /\ Unverified(account[u], request[r].number) \in AccountType
           /\ Unverified(account[u], request[r].number).id = account[u].id
           /\ [account[u] EXCEPT !.verified = TRUE, !.code = None] \in AccountType
           /\ [account[u] EXCEPT !.aged = TRUE] \in AccountType
           /\ request[r].read.role = "CLIENT" =>
                Promoted(account[u], request[r].read) \in AccountType
           /\ Promoted(account[u], request[r].read).id = account[u].id
           /\ Restored(account[u], request[r].read) \in AccountType
           /\ Restored(account[u], request[r].read).id = account[u].id
<1>1. account[u] \in AccountType /\ request[r].read \in AccountType
      /\ request[r].number \in Numbers \cup {None}
  BY CallTyped DEF Typed, Tables
<1> QED
  BY <1>1 DEF AccountType, Unverified, Promoted, Restored

\* A call that only reads.
LEMMA ReadTyped ==
    ASSUME Typed, NEW r \in Requests, Running(r), NEW step \in Steps,
           step \in {"findAgent", "detach"} => request[r].step = "findAgent",
           Goes(r, step) \/ Reads(r, step) \/ (step \in {"done", "refused"} /\ Ends(r, step)),
           UNCHANGED <<account, profile, orders, declared, proven>>
    PROVE  Typed'
<1>1. Calls'
  BY GoesTyped, EndsTyped
<1> QED
  BY <1>1, SameRows, CallsApart DEF Typed, Calls, Tables, Owned, Exists, Running

\* A call that writes a row that is there, or is born.
LEMMA WritesTyped ==
    ASSUME Typed, Calls', NEW u \in Users, NEW new \in AccountType, new.id # None,
           Write(u, new), orders' = orders,
           declared' \in [Users -> Numbers \cup {None}],
           proven' \in [Users -> Numbers \cup {None}],
           profile' \in [Users -> Requests \cup {None}],
           \A v \in Users \ {u} : profile'[v] = profile[v]
    PROVE  Typed'
<1>1. /\ account' \in [Users -> AccountType]
      /\ account'[u] = new /\ \A v \in Users \ {u} : account'[v] = account[v]
  BY DEF Write, Typed, Tables
<1> QED
  BY <1>1 DEF Typed, Tables, Owned, Exists, Calls, Running

LEMMA BeginTyped ==
    ASSUME Typed, NEW r \in Requests, NEW op \in Ops, NEW u \in Users,
           NEW n \in Numbers \cup {None}, Begin(r, op, u, n)
    PROVE  Typed'
<1> DEFINE new == [NoCall EXCEPT !.op = op, !.user = u, !.number = n, !.row = profile[u],
                                 !.read = account[u], !.step = FirstStep(op)]
<1>1. /\ account[u] \in AccountType /\ profile[u] \in Requests \cup {None}
      /\ FirstStep(op) \in Steps /\ FirstStep(op) # "detach"
      /\ FirstStep(op) = "findAgent" => profile[u] # None
  BY DEF Typed, Tables, Begin, MayCall, FirstStep, Steps, Ops
<1>2. /\ new \in CallType /\ new.user = u /\ new.step = FirstStep(op) /\ new.row = profile[u]
  BY <1>1, NothingIsTyped DEF CallType, NoCall
<1>3. request' = [request EXCEPT ![r] = new]
  BY DEF Begin
<1> HIDE DEF new
<1>4. Calls'
  BY <1>1, <1>2, <1>3, CallMoves DEF Calls
<1> QED
  BY <1>4, SameRows DEF Begin, Typed, Calls, Tables, Owned, Exists, Running

LEMMA LoginTyped ==
    ASSUME Typed, NEW r \in Requests, Login(r) PROVE Typed'
<1> DEFINE u == request[r].user
<1>1. CASE FindGoogle(r)
  BY <1>1, ReadTyped DEF FindGoogle, Running, Steps
<1>2. CASE Upsert(r)
  <2>1. u \in Users /\ Calls'
    BY <1>2, CallTyped, EndsTyped DEF Upsert, Running
  <2>2. CASE Exists(u)
    BY <1>2, <2>1, <2>2 DEF Upsert, Typed, Calls, Tables, Owned, Exists, Running
  <2>3. CASE ~Exists(u)
    <3> DEFINE new == [Born(r, SignupRole(r)) EXCEPT !.google = TRUE]
    <3>1. new \in AccountType /\ new.id # None
      BY NothingIsTyped, NoneIsNone DEF Born, SignupRole, AccountType, NoAccount
    <3>2. Write(u, new)
      BY <1>2, <2>3 DEF Upsert
    <3> HIDE DEF new
    <3> QED
      BY <1>2, <2>1, <2>3, <3>1, <3>2, WritesTyped DEF Upsert, Typed, Tables
  <2> QED
    BY <2>2, <2>3
<1> QED
  BY <1>1, <1>2 DEF Login

LEMMA PurchaseTyped ==
    ASSUME Typed, NEW r \in Requests, Purchase(r) PROVE Typed'
<1> DEFINE u == request[r].user
<1>1. CASE FindAddress(r)
  BY <1>1, ReadTyped DEF FindAddress, Running, Steps
<1>2. CASE Complete(r)
  <2>1. u \in Users
    BY <1>2, CallTyped DEF Complete, Running
  <2>2. CASE Same(r, u)
    <3>1. Calls'
      BY <1>2, <2>2, GoesTyped DEF Complete, Running, Steps
    <3> DEFINE new == [account[u] EXCEPT !.phone = request[r].number]
    <3>2. new \in AccountType /\ new.id = account[u].id /\ account[u].id # None
      <4>1. account[u] \in AccountType /\ account[u].id # None
        BY <2>1, <2>2 DEF Same, Exists, Typed, Tables
      <4>2. new \in AccountType
        BY <2>1, <4>1, ChangesTyped DEF Exists
      <4> QED
        BY <4>1, <4>2 DEF AccountType
    <3>3. Write(u, new)
      BY <1>2, <2>2 DEF Complete
    <3> HIDE DEF new
    <3> QED
      BY <1>2, <2>1, <3>1, <3>2, <3>3, WritesTyped DEF Complete, Typed, Tables
  <2>3. CASE ~Same(r, u)
    BY <1>2, <2>3, ReadTyped DEF Complete, Misses, Running, Steps
  <2> QED
    BY <2>2, <2>3
<1>3. CASE CreateGuest(r)
  <2>1. u \in Users
    BY <1>3, CallTyped DEF CreateGuest, Running
  <2>2. CASE Exists(u)
    BY <1>3, <2>2, ReadTyped DEF CreateGuest, Running, Steps
  <2>3. CASE ~Exists(u)
    <3> DEFINE new == [Born(r, "CLIENT") EXCEPT !.guest = TRUE, !.phone = request[r].number]
               next == [request[r] EXCEPT !.step = "order", !.read = account'[u]]
    <3>1. new \in AccountType /\ new.id # None
      BY NothingIsTyped, NoneIsNone, CallTyped DEF Born, AccountType, NoAccount
    <3>2. Write(u, new)
      BY <1>3, <2>3 DEF CreateGuest
    <3> HIDE DEF new
    <3>3. account'[u] \in AccountType
      BY <2>1, <3>1, <3>2 DEF Write, Typed, Tables
    <3>4. request' = [request EXCEPT ![r] = next]
      BY <1>3, <2>3 DEF CreateGuest, Typed, CallType
    <3>5. next \in CallType /\ next.step = "order" /\ next.user \in Users
      BY <2>1, <3>3, CallTyped DEF CallType, Steps
    <3> HIDE DEF next
    <3>6. Calls'
      BY <3>4, <3>5, CallMoves DEF Calls
    <3> QED
      BY <1>3, <2>1, <3>1, <3>2, <3>6, WritesTyped DEF CreateGuest, Typed, Tables
  <2> QED
    BY <2>2, <2>3
<1>4. CASE PlaceOrder(r)
  <2>1. u \in Users
    BY <1>4, CallTyped DEF PlaceOrder, Running
  <2>2. CASE Same(r, u)
    <3>1. Calls'
      BY <1>4, <2>2, EndsTyped DEF PlaceOrder
    <3> QED
      BY <1>4, <2>1, <2>2, <3>1
         DEF PlaceOrder, Same, Typed, Calls, Tables, Owned, Exists, Running
  <2>3. CASE ~Same(r, u)
    BY <1>4, <2>3, ReadTyped DEF PlaceOrder, Misses, Running, Steps
  <2> QED
    BY <2>2, <2>3
<1> QED
  BY <1>1, <1>2, <1>3, <1>4 DEF Purchase

LEMMA TelephoneTyped ==
    ASSUME Typed, NEW r \in Requests, Telephone(r) PROVE Typed'
<1> DEFINE u == request[r].user
<1>1. CASE SavePhone(r)
  <2>1. u \in Users /\ request[r].number \in Numbers \cup {None}
    BY <1>1, CallTyped DEF SavePhone, Running
  <2>2. CASE Same(r, u)
    <3> DEFINE new == [account[u] EXCEPT !.phone = request[r].number]
    <3>1. Calls'
      BY <1>1, <2>2, EndsTyped DEF SavePhone
    <3>2. new \in AccountType /\ new.id = account[u].id /\ account[u].id # None
      <4>1. account[u] \in AccountType /\ account[u].id # None
        BY <2>1, <2>2 DEF Same, Exists, Typed, Tables
      <4>2. new \in AccountType
        BY <2>1, <4>1, ChangesTyped DEF Exists
      <4> QED
        BY <4>1, <4>2 DEF AccountType
    <3>3. Write(u, new)
      BY <1>1, <2>2 DEF SavePhone
    <3> HIDE DEF new
    <3> QED
      BY <1>1, <2>1, <2>2, <3>1, <3>2, <3>3, WritesTyped DEF SavePhone, Typed, Tables
  <2>3. CASE ~Same(r, u)
    BY <1>1, <2>3, ReadTyped DEF SavePhone, Misses, Running, Steps
  <2> QED
    BY <2>2, <2>3
<1>2. CASE SendCode(r)
  BY <1>2, ReadTyped DEF SendCode, Running, Steps
<1>3. CASE StoreCode(r)
  <2>1. u \in Users /\ request[r].number \in Numbers \cup {None}
    BY <1>3, CallTyped DEF StoreCode, Running
  <2>2. CASE Same(r, u)
    <3> DEFINE new == Unverified(account[u], request[r].number)
    <3>1. Calls'
      BY <1>3, <2>2, EndsTyped DEF StoreCode
    <3>2. new \in AccountType /\ new.id = account[u].id /\ account[u].id # None
      BY <2>1, <2>2, ChangesTyped DEF Same, Exists
    <3>3. Write(u, new)
      BY <1>3, <2>2 DEF StoreCode
    <3> HIDE DEF new
    <3> QED
      BY <1>3, <2>1, <2>2, <3>1, <3>2, <3>3, WritesTyped DEF StoreCode, Typed, Tables
  <2>3. CASE ~Same(r, u)
    BY <1>3, <2>3, ReadTyped DEF StoreCode, Misses, Running, Steps
  <2> QED
    BY <2>2, <2>3
<1>4. CASE ReadCode(r)
  BY <1>4, ReadTyped DEF ReadCode, Misses, Running, Steps
<1>5. CASE Verify(r)
  <2>1. u \in Users /\ request[r].number \in Numbers \cup {None}
    BY <1>5, CallTyped DEF Verify, Running
  <2>2. CASE Same(r, u)
    <3> DEFINE new == [account[u] EXCEPT !.verified = TRUE, !.code = None]
    <3>1. Calls'
      BY <1>5, <2>2, EndsTyped DEF Verify
    <3>2. new \in AccountType /\ new.id = account[u].id /\ account[u].id # None
      <4>1. account[u] \in AccountType /\ account[u].id # None
        BY <2>1, <2>2 DEF Same, Exists, Typed, Tables
      <4>2. new \in AccountType
        BY <2>1, <4>1, ChangesTyped DEF Exists
      <4> QED
        BY <4>1, <4>2 DEF AccountType
    <3>3. Write(u, new)
      BY <1>5, <2>2 DEF Verify
    <3> HIDE DEF new
    <3> QED
      BY <1>5, <2>1, <2>2, <3>1, <3>2, <3>3, WritesTyped DEF Verify, Typed, Tables
  <2>3. CASE ~Same(r, u)
    BY <1>5, <2>3, ReadTyped DEF Verify, Misses, Running, Steps
  <2> QED
    BY <2>2, <2>3
<1>6. CASE ReadProfile(r)
  BY <1>6, ReadTyped DEF ReadProfile, Running, Steps
<1>7. CASE Enrich(r)
  <2>1. u \in Users /\ request[r].number \in Numbers \cup {None}
    BY <1>7, CallTyped DEF Enrich, Running
  <2>2. CASE Same(r, u)
    <3> DEFINE new == [account[u] EXCEPT !.phone = request[r].number]
    <3>1. Calls'
      BY <1>7, <2>2, EndsTyped DEF Enrich
    <3>2. new \in AccountType /\ new.id = account[u].id /\ account[u].id # None
      <4>1. account[u] \in AccountType /\ account[u].id # None
        BY <2>1, <2>2 DEF Same, Exists, Typed, Tables
      <4>2. new \in AccountType
        BY <2>1, <4>1, ChangesTyped DEF Exists
      <4> QED
        BY <4>1, <4>2 DEF AccountType
    <3>3. Write(u, new)
      BY <1>7, <2>2 DEF Enrich
    <3> HIDE DEF new
    <3> QED
      BY <1>7, <2>1, <2>2, <3>1, <3>2, <3>3, WritesTyped DEF Enrich, Typed, Tables
  <2>3. CASE ~Same(r, u)
    BY <1>7, <2>3, ReadTyped DEF Enrich, Running, Steps
  <2> QED
    BY <2>2, <2>3
<1> QED
  BY <1>1, <1>2, <1>3, <1>4, <1>5, <1>6, <1>7 DEF Telephone

-----------------------------------------------------------------------------
(* Roles and places at the gate.                                            *)

\* A client, or an agent who was one.
Buyer(a) == a.role = "CLIENT" \/ (a.role = "SCANNER" /\ a.previous = "CLIENT")

\* Steps of a call that may have given its id to a row.
Past == {"order", "done", "refused"}

\* An id is given once.
Fresh ==
    \A r \in Requests : request[r].step \notin Past =>
        /\ \A u \in Users : account[u].id # r /\ profile[u] # r
        /\ \A q \in Requests : request[q].read.id # r /\ request[q].row # r

RowOK(u) ==
    /\ account[u].active => (account[u].role = "SCANNER" <=> profile[u] # None)
    /\ account[u].previous = "CLIENT" => profile[u] # None
    /\ profile[u] # None => account[u].role = "SCANNER"
    /\ account[u].google => account[u].role = "MANAGER" \/ Buyer(account[u])
    /\ orders[u] # {} => Buyer(account[u])

\* What a call has read is still so of the row it is about to write.
CallOK(r) ==
    LET u == request[r].user IN
    /\ request[r].step = "attach" => request[r].read.role = "CLIENT"
    /\ request[r].step \in {"complete", "order"} /\ Same(r, u) => Buyer(account[u])
    /\ request[r].step = "detach" /\ profile[u] = request[r].row =>
         request[r].read.previous = account[u].previous

Lives ==
    /\ Fresh
    /\ \A u \in Users : RowOK(u)
    /\ \A r \in Requests : CallOK(r)

LEMMA InitLives == Init => Lives
  BY NoneIsNone DEF Init, Lives, Fresh, RowOK, CallOK, NoAccount, NoCall, Past

\* A call r that writes the rows of u: what the rest of the invariant needs.
LEMMA OneRow ==
    ASSUME Typed, Lives, NEW r \in Requests, NEW u \in Users,
           \A q \in Requests \ {r} : request'[q] = request[q],
           \A v \in Users \ {u} : /\ account'[v] = account[v] /\ profile'[v] = profile[v]
                                  /\ orders'[v] = orders[v],
           \/ account'[u].id = account[u].id /\ (Buyer(account[u]) => Buyer(account'[u]))
           \/ account'[u].id = r /\ request[r].step \notin Past
           \/ account'[u].id = None,
           \/ profile'[u] = profile[u] /\ account'[u].previous = account[u].previous
           \/ profile'[u] = r /\ request[r].step \notin Past
           \/ profile'[u] = None,
           request[r].step \in Past \/ request'[r].read.id = r => request'[r].step \in Past,
           account'[u].id \in {account[u].id, None} \/ request'[r].step \in Past,
           profile'[u] \in {profile[u], None} \/ request'[r].step \in Past,
           request'[r].read.id \in {request[r].read.id, r, None}
             \/ \E v \in Users : request'[r].read.id = account[v].id,
           request'[r].row \in {request[r].row, None}
             \/ \E v \in Users : request'[r].row = profile[v],
           RowOK(u)', CallOK(r)'
    PROVE  Lives'
<1>1. ASSUME NEW q \in Requests, request'[q].step \notin Past
      PROVE  request[q].step \notin Past
             /\ (q = r => request'[r].read.id # r /\ account'[u].id \in {account[u].id, None}
                          /\ profile'[u] \in {profile[u], None})
  BY <1>1
<1>2. Fresh'
  <2> SUFFICES ASSUME NEW q \in Requests, request'[q].step \notin Past
               PROVE  /\ \A v \in Users : account'[v].id # q /\ profile'[v] # q
                      /\ \A p \in Requests : request'[p].read.id # q /\ request'[p].row # q
    BY DEF Fresh
  <2>1. /\ \A v \in Users : account[v].id # q /\ profile[v] # q
        /\ \A p \in Requests : request[p].read.id # q /\ request[p].row # q
    BY <1>1 DEF Lives, Fresh
  <2>2. \A v \in Users : account'[v].id # q /\ profile'[v] # q
    BY <2>1, <1>1, NoneIsNone
  <2>3. \A p \in Requests : request'[p].read.id # q /\ request'[p].row # q
    BY <2>1, <1>1, NoneIsNone
  <2> QED
    BY <2>2, <2>3
<1>3. ASSUME NEW v \in Users PROVE RowOK(v)'
  <2>1. CASE v = u
    BY <2>1
  <2>2. CASE v # u
    BY <2>2 DEF Lives, RowOK
  <2> QED
    BY <2>1, <2>2
<1>4. ASSUME NEW q \in Requests PROVE CallOK(q)'
  <2>1. CASE q = r
    BY <2>1
  <2>2. CASE q # r
    <3>1. CallOK(q) /\ request'[q] = request[q]
      BY <2>2 DEF Lives
    <3>2. request[q].step \in {"complete", "order", "detach"} => request[q].user \in Users
      BY DEF Typed, Running
    <3>3. request[r].step \notin Past => request[q].read.id # r /\ request[q].row # r
      BY DEF Lives, Fresh
    <3>4. request[q].step = "detach" => request[q].row # None
      BY DEF Typed
    <3>5. CASE request[q].user = u
      <4>1. request[q].step \in {"complete", "order"} /\ account'[u].id # None
              /\ account'[u].id = request[q].read.id => Buyer(account'[u])
        BY <3>1, <3>3, <3>5 DEF CallOK, Same, Exists
      <4>2. request[q].step = "detach" /\ profile'[u] = request[q].row =>
              request[q].read.previous = account'[u].previous
        BY <3>1, <3>3, <3>4, <3>5 DEF CallOK
      <4> QED
        BY <4>1, <4>2, <3>1, <3>5 DEF CallOK, Same, Exists
    <3>6. CASE request[q].user # u
      BY <3>1, <3>2, <3>6 DEF CallOK, Same, Exists
    <3> QED
      BY <3>5, <3>6
  <2> QED
    BY <2>1, <2>2
<1> QED
  BY <1>2, <1>3, <1>4 DEF Lives

LEMMA GateTyped ==
    ASSUME Typed, Lives, NEW r \in Requests, Gate(r) PROVE Typed'
<1> DEFINE u == request[r].user
<1>1. CASE CountAgents(r) \/ FindFree(r) \/ FindClient(r) \/ FindAgent(r)
  BY <1>1, ReadTyped DEF CountAgents, FindFree, FindClient, FindAgent, Misses, Running, Steps
<1>2. CASE CreateAgent(r)
  <2>1. u \in Users /\ Calls'
    BY <1>2, CallTyped, EndsTyped DEF CreateAgent, Running
  <2>2. CASE Exists(u)
    BY <1>2, <2>2, ReadTyped DEF CreateAgent, Running, Steps
  <2>3. CASE ~Exists(u)
    <3>1. Born(r, "SCANNER") \in AccountType /\ Born(r, "SCANNER").id # None
      BY NothingIsTyped, NoneIsNone DEF Born, AccountType, NoAccount
    <3>2. Write(u, Born(r, "SCANNER")) /\ profile' = [profile EXCEPT ![u] = r]
      BY <1>2, <2>3 DEF CreateAgent
    <3> QED
      BY <1>2, <2>1, <3>1, <3>2, WritesTyped DEF CreateAgent, Typed, Tables
  <2> QED
    BY <2>2, <2>3
<1>3. CASE Attach(r)
  <2>1. u \in Users /\ Calls'
    BY <1>3, CallTyped, EndsTyped DEF Attach, Misses, Running
  <2>2. CASE Same(r, u) /\ profile[u] = None
    <3> DEFINE new == Promoted(account[u], request[r].read)
    <3>1. request[r].read.role = "CLIENT"
      BY <1>3 DEF Attach, Lives, CallOK
    <3>2. new \in AccountType /\ new.id = account[u].id /\ account[u].id # None
      BY <2>1, <2>2, <3>1, ChangesTyped DEF Same, Exists
    <3>3. Write(u, new) /\ profile' = [profile EXCEPT ![u] = r]
      BY <1>3, <2>2 DEF Attach
    <3> HIDE DEF new
    <3> QED
      BY <1>3, <2>1, <3>2, <3>3, WritesTyped DEF Attach, Typed, Tables
  <2>3. CASE ~(Same(r, u) /\ profile[u] = None)
    BY <1>3, <2>3, ReadTyped DEF Attach, Misses, Running, Steps
  <2> QED
    BY <2>2, <2>3
<1>4. CASE Detach(r)
  <2>1. u \in Users /\ Calls' /\ request[r].row # None
    BY <1>4, CallTyped, EndsTyped DEF Detach, Misses, Running, Typed
  <2>2. CASE profile[u] = request[r].row
    <3> DEFINE new == Restored(account[u], request[r].read)
    <3>1. Exists(u)
      BY <2>1, <2>2 DEF Typed, Owned
    <3>2. new \in AccountType /\ new.id = account[u].id /\ account[u].id # None
      BY <2>1, <3>1, ChangesTyped DEF Exists
    <3>3. Write(u, new) /\ profile' = [profile EXCEPT ![u] = None]
      BY <1>4, <2>2 DEF Detach
    <3> HIDE DEF new
    <3> QED
      BY <1>4, <2>1, <3>2, <3>3, WritesTyped DEF Detach, Typed, Tables
  <2>3. CASE profile[u] # request[r].row
    BY <1>4, <2>3, ReadTyped DEF Detach, Misses, Running, Steps
  <2> QED
    BY <2>2, <2>3
<1> QED
  BY <1>1, <1>2, <1>3, <1>4 DEF Gate

\* A step of the nightly job goes on with a list.
LEMMA ListMoves ==
    ASSUME Typed, NEW r \in Requests, Running(r),
           NEW step \in {"delete", "listStale", "anonymise"},
           NEW list \in SUBSET RowType,
           \/ request' = [request EXCEPT ![r].step = step, ![r].list = list]
           \/ request[r].step = step /\ request' = [request EXCEPT ![r].list = list]
    PROVE  Calls'
<1> DEFINE new == [request[r] EXCEPT !.step = step, !.list = list]
<1>1. new \in CallType /\ new.step = step /\ new.user \in Users
  BY CallTyped DEF CallType, Steps
<1>2. request' = [request EXCEPT ![r] = new]
  <2>1. request \in [Requests -> CallType] /\ request[r] \in CallType
    BY CallTyped DEF Typed
  <2>2. CASE request' = [request EXCEPT ![r].step = step, ![r].list = list]
    BY <2>1, <2>2 DEF CallType
  <2>3. CASE request[r].step = step /\ request' = [request EXCEPT ![r].list = list]
    <3>1. [request[r] EXCEPT !.list = list] = new
      BY <2>1, <2>3 DEF CallType
    <3> QED
      BY <2>1, <2>3, <3>1
  <2> QED
    BY <2>2, <2>3
<1> HIDE DEF new
<1> QED
  BY <1>1, <1>2, CallMoves DEF Calls

LEMMA RetentionTyped ==
    ASSUME Typed, NEW r \in Requests, Retention(r) PROVE Typed'
<1>0. request[r].list \subseteq RowType
  BY CallTyped
<1>1. CASE ListOrphans(r)
  <2>1. PICK list \in SUBSET RowType :
          request' = [request EXCEPT ![r].step = "delete", ![r].list = list]
    <3>1. {Row(u) : u \in {v \in Users : Orphan(v)}} \subseteq RowType
      BY DEF Orphan, Row, RowType, Exists, Typed, Tables, AccountType
    <3> QED
      BY <1>1, <3>1 DEF ListOrphans, Listed
  <2>2. Running(r)
    BY <1>1 DEF ListOrphans, Running
  <2>3. Calls'
    BY <2>1, <2>2, ListMoves
  <2> QED
    BY <1>1, <2>3 DEF ListOrphans, Typed, Calls, Tables, Owned, Exists, Running
<1>2. CASE DeleteOrphan(r)
  <2>1. CASE request[r].list = {}
    BY <1>2, <2>1, ReadTyped DEF DeleteOrphan, Untouched, Running, Steps
  <2>2. CASE request[r].list # {}
    <3>1. PICK x \in request[r].list :
            /\ request' = [request EXCEPT ![r].list = request[r].list \ {x}]
            /\ Leaves(x.user) \/ Untouched
      BY <1>2, <2>2 DEF DeleteOrphan
    <3>2. request[r].list \ {x} \in SUBSET RowType /\ x.user \in Users
      BY <1>0, CallTyped
    <3>3. Calls'
      <4>1. request[r].step = "delete" /\ Running(r)
        BY <1>2 DEF DeleteOrphan, Running
      <4> QED
        BY <3>1, <3>2, <4>1, ListMoves
    <3> QED
      <4>1. Tables' /\ Owned'
        BY <3>1, <3>2, LeavesTyped, SameRows DEF Untouched
      <4> QED
        BY <3>3, <4>1 DEF Typed, Calls, Running
  <2> QED
    BY <2>1, <2>2
<1>3. CASE ListStale(r)
  <2>1. PICK list \in SUBSET RowType :
          request' = [request EXCEPT ![r].step = "anonymise", ![r].list = list]
    <3>1. {Row(u) : u \in {v \in Users : Stale(v)}} \subseteq RowType
      BY DEF Stale, Row, RowType, Exists, Typed, Tables, AccountType
    <3> QED
      BY <1>3, <3>1 DEF ListStale, Listed
  <2>2. Running(r)
    BY <1>3 DEF ListStale, Running
  <2>3. Calls'
    BY <2>1, <2>2, ListMoves
  <2> QED
    BY <1>3, <2>3 DEF ListStale, Typed, Calls, Tables, Owned, Exists, Running
<1>4. CASE Anonymise(r)
  <2>1. CASE request[r].list = {}
    BY <1>4, <2>1, ReadTyped DEF Anonymise, Untouched, Running, Steps
  <2>2. CASE request[r].list # {}
    <3>1. PICK x \in request[r].list :
            \/ request' = [request EXCEPT ![r].list = request[r].list \ {x}] /\ Leaves(x.user)
            \/ Ends(r, "refused") /\ Untouched
      BY <1>4, <2>2 DEF Anonymise
    <3>2. request[r].list \ {x} \in SUBSET RowType /\ x.user \in Users
      BY <1>0, CallTyped
    <3>3. Calls'
      <4>1. request[r].step = "anonymise" /\ Running(r)
        BY <1>4 DEF Anonymise, Running
      <4> QED
        BY <3>1, <3>2, <4>1, ListMoves, EndsTyped
    <3> QED
      <4>1. Tables' /\ Owned'
        BY <3>1, <3>2, LeavesTyped, SameRows DEF Untouched
      <4> QED
        BY <3>3, <4>1 DEF Typed, Calls, Running
  <2> QED
    BY <2>1, <2>2
<1> QED
  BY <1>1, <1>2, <1>3, <1>4 DEF Retention

LEMMA TimeTyped ==
    ASSUME Typed, NEW u \in Users, Ages(u) \/ EventsEnd(u) PROVE Typed'
<1>0. Calls'
  BY DEF Ages, EventsEnd, Typed, Calls, Running
<1>1. CASE Ages(u)
  <2> DEFINE new == [account[u] EXCEPT !.aged = TRUE]
  <2>1. new \in AccountType /\ new.id # None
    BY <1>1 DEF Ages, Exists, Typed, Tables, AccountType
  <2>2. Write(u, new)
    BY <1>1 DEF Ages
  <2> HIDE DEF new
  <2> QED
    BY <1>0, <1>1, <2>1, <2>2, WritesTyped DEF Ages, Typed, Tables
<1>2. CASE EventsEnd(u)
  BY <1>0, <1>2 DEF EventsEnd, Typed, Calls, Tables, Owned, Exists, Running
<1> QED
  BY <1>1, <1>2

\* A call that leaves every row its id, its role and its place.
LEMMA TouchedLives ==
    ASSUME Typed, Lives, NEW r \in Requests, NEW u \in Users,
           \A q \in Requests \ {r} : request'[q] = request[q],
           UNCHANGED <<profile, orders>>,
           \A v \in Users \ {u} : account'[v] = account[v],
           account'[u].id = account[u].id, account'[u].role = account[u].role,
           account'[u].previous = account[u].previous,
           account'[u].google = account[u].google, account'[u].active = account[u].active,
           request[r].step \in Past => request'[r].step \in Past,
           request'[r].read \in {request[r].read, account[u], NoAccount},
           request'[r].row \in {request[r].row, profile[u], None},
           CallOK(r)'
    PROVE  Lives'
<1>1. Buyer(account[u]) <=> Buyer(account'[u])
  BY DEF Buyer
<1>2. RowOK(u)'
  BY <1>1 DEF Lives, RowOK
<1>3. request[r].step \notin Past =>
        request'[r].read.id # r /\ account[u].id # r
  BY NoneIsNone DEF Lives, Fresh, NoAccount
<1>4. NoAccount.id = None
  BY DEF NoAccount
<1> QED
  BY <1>1, <1>2, <1>3, <1>4, OneRow

LEMMA EndsLives ==
    ASSUME Typed, Lives, NEW r \in Requests, NEW u \in Users,
           NEW step \in {"done", "refused"}, Ends(r, step), UNCHANGED <<account, profile, orders>>
    PROVE  Lives'
<1>1. /\ request'[r] = [NoCall EXCEPT !.step = step]
      /\ \A q \in Requests \ {r} : request'[q] = request[q]
  BY DEF Ends, Typed
<1>2. /\ request'[r].step = step /\ request'[r].read = NoAccount /\ request'[r].row = None
  BY <1>1 DEF NoCall
<1>3. CallOK(r)'
  BY <1>2 DEF CallOK
<1> QED
  BY <1>1, <1>2, <1>3, TouchedLives DEF Past

\* A call that fills the telephone of a row, and ends.
LEMMA FilledLives ==
    ASSUME Typed, Lives, NEW r \in Requests, NEW u \in Users,
           request' = [request EXCEPT ![r] = [NoCall EXCEPT !.step = "done"]],
           UNCHANGED <<profile, orders>>,
           NEW new, account' = [account EXCEPT ![u] = new],
           new.id = account[u].id, new.role = account[u].role, new.active = account[u].active,
           new.previous = account[u].previous, new.google = account[u].google
    PROVE  Lives'
<1>1. /\ request'[r].step = "done" /\ request'[r].read = NoAccount /\ request'[r].row = None
      /\ \A q \in Requests \ {r} : request'[q] = request[q]
  BY DEF Typed, NoCall
<1>2. CallOK(r)'
  BY <1>1 DEF CallOK
<1>3. /\ account'[u].id = account[u].id /\ account'[u].role = account[u].role
      /\ account'[u].previous = account[u].previous /\ account'[u].google = account[u].google
      /\ account'[u].active = account[u].active
      /\ \A v \in Users \ {u} : account'[v] = account[v]
  BY DEF Typed, Tables
<1> QED
  BY <1>1, <1>2, <1>3, TouchedLives DEF Past

\* A call that goes on, having read.
LEMMA GoesLives ==
    ASSUME Typed, Lives, NEW r \in Requests, NEW step \in Steps, Running(r),
           Goes(r, step) \/ Reads(r, step), UNCHANGED <<account, profile, orders>>,
           request[r].step \notin Past, CallOK(r)'
    PROVE  Lives'
<1>1. /\ request[r].user \in Users /\ request[r] \in CallType
      /\ request'[r].read \in {request[r].read, account[request[r].user]}
      /\ request'[r].row = request[r].row
      /\ \A q \in Requests \ {r} : request'[q] = request[q]
  BY CallTyped DEF Goes, Reads, Typed, CallType
<1> QED
  BY <1>1, TouchedLives

LEMMA BeginLives ==
    ASSUME Typed, Lives, NEW r \in Requests, NEW op \in Ops, NEW u \in Users,
           NEW n \in Numbers \cup {None}, Begin(r, op, u, n)
    PROVE  Lives'
<1>1. /\ request'[r].step = FirstStep(op) /\ request'[r].user = u
      /\ request'[r].read = account[u] /\ request'[r].row = profile[u]
      /\ \A q \in Requests \ {r} : request'[q] = request[q]
      /\ request[r].step = "idle" /\ UNCHANGED <<account, profile, orders>>
  BY DEF Begin, Typed, NoCall
<1>2. FirstStep(op) \notin {"attach", "complete", "detach"}
      /\ (FirstStep(op) = "order" => op = "buy")
  BY DEF FirstStep, Ops
<1>3. FirstStep(op) = "order" => Buyer(account[u])
  BY <1>2 DEF Begin, MayCall, SignedIn, Lives, RowOK
<1>4. CallOK(r)'
  BY <1>1, <1>2, <1>3 DEF CallOK
<1> QED
  BY <1>1, <1>4, TouchedLives DEF Past

LEMMA LoginLives ==
    ASSUME Typed, Lives, NEW r \in Requests, Login(r) PROVE Lives'
<1>0. PICK u \in Users : u = request[r].user
  BY CallTyped DEF Login, FindGoogle, Upsert, Running
<1>1. CASE FindGoogle(r)
  <2>1. /\ Reads(r, "upsert") /\ Running(r) /\ request[r].step \notin Past
        /\ UNCHANGED <<account, profile, orders>>
    BY <1>1 DEF FindGoogle, Running, Past
  <2>2. CallOK(r)'
    BY <2>1, CallTyped DEF Reads, CallOK, Typed, CallType
  <2> QED
    BY <2>1, <2>2, GoesLives DEF Steps
<1>2. CASE Upsert(r)
  <2>1. CASE Exists(u)
    BY <1>0, <1>2, <2>1, EndsLives DEF Upsert
  <2>2. CASE ~Exists(u)
    <3> DEFINE new == [Born(r, SignupRole(r)) EXCEPT !.google = TRUE]
    <3>1. /\ new.id = r /\ new.role \in {"CLIENT", "MANAGER"} /\ new.previous = None
      BY DEF Born, SignupRole, NoAccount
    <3>2. /\ request'[r] = [NoCall EXCEPT !.step = "done"] /\ request[r].step \notin Past
          /\ \A q \in Requests \ {r} : request'[q] = request[q]
          /\ account' = [account EXCEPT ![u] = new] /\ UNCHANGED <<profile, orders>>
      BY <1>0, <1>2, <2>2 DEF Upsert, Ends, Write, Typed, Past
    <3> HIDE DEF new
    <3>3. /\ account'[u] = new /\ \A v \in Users \ {u} : account'[v] = account[v]
          /\ profile[u] = None /\ orders[u] = {}
      BY <1>0, <2>2, <3>2 DEF Typed, Tables, Owned
    <3>4. RowOK(u)'
      BY <3>1, <3>2, <3>3, NoneIsNone DEF RowOK, Buyer
    <3>5. /\ request'[r].step = "done" /\ request'[r].read.id = None /\ request'[r].row = None
          /\ CallOK(r)'
      BY <3>2 DEF NoCall, NoAccount, CallOK
    <3> QED
      BY <1>0, <3>1, <3>2, <3>3, <3>4, <3>5, OneRow DEF Past
  <2> QED
    BY <2>1, <2>2
<1> QED
  BY <1>1, <1>2 DEF Login

LEMMA TelephoneLives ==
    ASSUME Typed, Lives, NEW r \in Requests, Telephone(r) PROVE Lives'
<1>0. PICK u \in Users : u = request[r].user
  BY CallTyped DEF Telephone, SavePhone, SendCode, StoreCode, ReadCode, Verify, ReadProfile,
     Enrich, Running
<1>1. CASE SavePhone(r)
  <2>1. CASE Same(r, u)
    <3> DEFINE new == [account[u] EXCEPT !.phone = request[r].number]
    <3>1. account' = [account EXCEPT ![u] = new] /\ UNCHANGED <<profile, orders>>
      BY <1>0, <1>1, <2>1 DEF SavePhone, Write
    <3>2. request' = [request EXCEPT ![r] = [NoCall EXCEPT !.step = "done"]]
      BY <1>0, <1>1, <2>1 DEF SavePhone, Ends
    <3>3. /\ new.id = account[u].id /\ new.role = account[u].role
          /\ new.previous = account[u].previous /\ new.google = account[u].google
          /\ new.active = account[u].active
      BY DEF Typed, Tables, AccountType
    <3> HIDE DEF new
    <3> QED
      BY <3>1, <3>2, <3>3, FilledLives
  <2>2. CASE ~Same(r, u)
    BY <1>0, <1>1, <2>2, EndsLives DEF SavePhone, Misses
  <2> QED
    BY <2>1, <2>2
<1>2. CASE SendCode(r)
  <2>1. CASE Ends(r, "refused") \/ Ends(r, "done")
    BY <1>2, <2>1, EndsLives DEF SendCode
  <2>2. CASE Goes(r, "storeCode") \/ Reads(r, "storeCode")
    <3>1. Running(r) /\ request[r].step \notin Past /\ UNCHANGED <<account, profile, orders>>
      BY <1>2 DEF SendCode, Running, Past
    <3>2. CallOK(r)'
      BY <2>2 DEF Goes, Reads, CallOK, Typed, CallType
    <3> QED
      BY <2>2, <3>1, <3>2, GoesLives DEF Steps
  <2> QED
    BY <1>2, <2>1, <2>2 DEF SendCode
<1>3. CASE StoreCode(r)
  <2>1. CASE Same(r, u)
    <3> DEFINE new == [account[u] EXCEPT !.phone = request[r].number, !.code = request[r].number, !.verified = FALSE]
    <3>1. account' = [account EXCEPT ![u] = new] /\ UNCHANGED <<profile, orders>>
      BY <1>0, <1>3, <2>1 DEF StoreCode, Write, Unverified
    <3>2. request' = [request EXCEPT ![r] = [NoCall EXCEPT !.step = "done"]]
      BY <1>0, <1>3, <2>1 DEF StoreCode, Ends
    <3>3. /\ new.id = account[u].id /\ new.role = account[u].role
          /\ new.previous = account[u].previous /\ new.google = account[u].google
          /\ new.active = account[u].active
      BY DEF Typed, Tables, AccountType
    <3> HIDE DEF new
    <3> QED
      BY <3>1, <3>2, <3>3, FilledLives
  <2>2. CASE ~Same(r, u)
    BY <1>0, <1>3, <2>2, EndsLives DEF StoreCode, Misses
  <2> QED
    BY <2>1, <2>2
<1>4. CASE ReadCode(r)
  <2>1. CASE Ends(r, "refused") \/ Ends(r, "done")
    BY <1>4, <2>1, EndsLives DEF ReadCode
  <2>2. CASE Goes(r, "verify") \/ Reads(r, "verify")
    <3>1. Running(r) /\ request[r].step \notin Past /\ UNCHANGED <<account, profile, orders>>
      BY <1>4 DEF ReadCode, Running, Past
    <3>2. CallOK(r)'
      BY <2>2 DEF Goes, Reads, CallOK, Typed, CallType
    <3> QED
      BY <2>2, <3>1, <3>2, GoesLives DEF Steps
  <2> QED
    BY <1>4, <2>1, <2>2 DEF ReadCode, Misses
<1>5. CASE Verify(r)
  <2>1. CASE Same(r, u)
    <3> DEFINE new == [account[u] EXCEPT !.verified = TRUE, !.code = None]
    <3>1. account' = [account EXCEPT ![u] = new] /\ UNCHANGED <<profile, orders>>
      BY <1>0, <1>5, <2>1 DEF Verify, Write
    <3>2. request' = [request EXCEPT ![r] = [NoCall EXCEPT !.step = "done"]]
      BY <1>0, <1>5, <2>1 DEF Verify, Ends
    <3>3. /\ new.id = account[u].id /\ new.role = account[u].role
          /\ new.previous = account[u].previous /\ new.google = account[u].google
          /\ new.active = account[u].active
      BY DEF Typed, Tables, AccountType
    <3> HIDE DEF new
    <3> QED
      BY <3>1, <3>2, <3>3, FilledLives
  <2>2. CASE ~Same(r, u)
    BY <1>0, <1>5, <2>2, EndsLives DEF Verify, Misses
  <2> QED
    BY <2>1, <2>2
<1>6. CASE ReadProfile(r)
  <2>1. CASE Ends(r, "refused") \/ Ends(r, "done")
    BY <1>6, <2>1, EndsLives DEF ReadProfile
  <2>2. CASE Goes(r, "enrich") \/ Reads(r, "enrich")
    <3>1. Running(r) /\ request[r].step \notin Past /\ UNCHANGED <<account, profile, orders>>
      BY <1>6 DEF ReadProfile, Running, Past
    <3>2. CallOK(r)'
      BY <2>2 DEF Goes, Reads, CallOK, Typed, CallType
    <3> QED
      BY <2>2, <3>1, <3>2, GoesLives DEF Steps
  <2> QED
    BY <1>6, <2>1, <2>2 DEF ReadProfile
<1>7. CASE Enrich(r)
  <2>1. CASE Same(r, u)
    <3> DEFINE new == [account[u] EXCEPT !.phone = request[r].number]
    <3>1. account' = [account EXCEPT ![u] = new] /\ UNCHANGED <<profile, orders>>
      BY <1>0, <1>7, <2>1 DEF Enrich, Write
    <3>2. request' = [request EXCEPT ![r] = [NoCall EXCEPT !.step = "done"]]
      BY <1>0, <1>7, <2>1 DEF Enrich, Ends
    <3>3. /\ new.id = account[u].id /\ new.role = account[u].role
          /\ new.previous = account[u].previous /\ new.google = account[u].google
          /\ new.active = account[u].active
      BY DEF Typed, Tables, AccountType
    <3> HIDE DEF new
    <3> QED
      BY <3>1, <3>2, <3>3, FilledLives
  <2>2. CASE ~Same(r, u)
    BY <1>0, <1>7, <2>2, EndsLives DEF Enrich
  <2> QED
    BY <2>1, <2>2
<1> QED
  BY <1>1, <1>2, <1>3, <1>4, <1>5, <1>6, <1>7 DEF Telephone

LEMMA PurchaseLives ==
    ASSUME Typed, Lives, NEW r \in Requests, Purchase(r) PROVE Lives'
<1>0. PICK u \in Users : u = request[r].user
  BY CallTyped DEF Purchase, FindAddress, Complete, CreateGuest, PlaceOrder, Running
<1>1. CASE FindAddress(r)
  <2>0. /\ Running(r) /\ request[r].step \notin Past /\ UNCHANGED <<account, profile, orders>>
    BY <1>1 DEF FindAddress, Running, Past
  <2>1. CASE ~Exists(u)
    <3>1. Goes(r, "createGuest")
      BY <1>0, <1>1, <2>1 DEF FindAddress
    <3>2. CallOK(r)'
      BY <3>1 DEF Goes, CallOK, Typed, CallType
    <3> QED
      BY <2>0, <3>1, <3>2, GoesLives DEF Steps
  <2>2. CASE Exists(u) /\ account[u].role # "CLIENT"
    BY <1>0, <1>1, <2>2, EndsLives DEF FindAddress
  <2>3. CASE Exists(u) /\ account[u].role = "CLIENT"
    <3>1. PICK step \in {"complete", "order"} : Reads(r, step)
      BY <1>0, <1>1, <2>3 DEF FindAddress
    <3>2. CallOK(r)'
      BY <1>0, <2>0, <2>3, <3>1 DEF Reads, CallOK, Buyer, Typed, CallType
    <3> QED
      BY <2>0, <3>1, <3>2, GoesLives DEF Steps
  <2> QED
    BY <2>1, <2>2, <2>3
<1>2. CASE Complete(r)
  <2>1. CASE Same(r, u)
    <3> DEFINE new == [account[u] EXCEPT !.phone = request[r].number]
    <3>1. /\ account' = [account EXCEPT ![u] = new] /\ UNCHANGED <<profile, orders>>
          /\ request' = [request EXCEPT ![r].step = "order"] /\ request[r].step = "complete"
      BY <1>0, <1>2, <2>1 DEF Complete, Write, Goes
    <3>2. /\ new.id = account[u].id /\ new.role = account[u].role
          /\ new.previous = account[u].previous /\ new.google = account[u].google
          /\ new.active = account[u].active
      BY DEF Typed, Tables, AccountType
    <3> HIDE DEF new
    <3>3. /\ request'[r].step = "order" /\ request'[r].read = request[r].read
          /\ request'[r].row = request[r].row /\ request'[r].user = u
          /\ \A q \in Requests \ {r} : request'[q] = request[q]
          /\ account'[u] = new /\ \A v \in Users \ {u} : account'[v] = account[v]
      BY <1>0, <3>1 DEF Typed, Tables, CallType
    <3>4. Buyer(account'[u])
      BY <1>0, <2>1, <3>1, <3>2, <3>3 DEF Lives, CallOK, Buyer
    <3>5. CallOK(r)'
      BY <3>3, <3>4 DEF CallOK
    <3> QED
      BY <3>1, <3>2, <3>3, <3>5, TouchedLives DEF Past
  <2>2. CASE ~Same(r, u)
    BY <1>0, <1>2, <2>2, EndsLives DEF Complete, Misses
  <2> QED
    BY <2>1, <2>2
<1>3. CASE CreateGuest(r)
  <2>1. CASE Exists(u)
    BY <1>0, <1>3, <2>1, EndsLives DEF CreateGuest
  <2>2. CASE ~Exists(u)
    <3> DEFINE new == [Born(r, "CLIENT") EXCEPT !.guest = TRUE, !.phone = request[r].number]
    <3>1. new.id = r /\ new.role = "CLIENT" /\ new.previous = None
      BY DEF Born, NoAccount
    <3>2. /\ account' = [account EXCEPT ![u] = new] /\ UNCHANGED <<profile, orders>>
          /\ request' = [request EXCEPT ![r].step = "order", ![r].read = account'[u]]
          /\ request[r].step \notin Past
      BY <1>0, <1>3, <2>2 DEF CreateGuest, Write, Past
    <3> HIDE DEF new
    <3>3. /\ account'[u] = new /\ \A v \in Users \ {u} : account'[v] = account[v]
          /\ request'[r].step = "order" /\ request'[r].read = new
          /\ request'[r].row = request[r].row /\ request'[r].user = u
          /\ \A q \in Requests \ {r} : request'[q] = request[q]
          /\ profile[u] = None /\ orders[u] = {}
      BY <1>0, <2>2, <3>2 DEF Typed, Tables, Owned, CallType
    <3>4. RowOK(u)' /\ CallOK(r)'
      BY <3>1, <3>2, <3>3, NoneIsNone DEF RowOK, CallOK, Buyer
    <3> QED
      BY <3>1, <3>2, <3>3, <3>4, OneRow DEF Past
  <2> QED
    BY <2>1, <2>2
<1>4. CASE PlaceOrder(r)
  <2>1. CASE Same(r, u)
    <3>1. /\ UNCHANGED <<account, profile>> /\ Ends(r, "done") /\ request[r].step = "order"
          /\ orders' = [orders EXCEPT ![u] = orders[u] \cup {"coming"}]
      BY <1>0, <1>4, <2>1 DEF PlaceOrder
    <3>2. /\ request'[r].step = "done" /\ request'[r].read.id = None /\ request'[r].row = None
          /\ \A q \in Requests \ {r} : request'[q] = request[q]
          /\ \A v \in Users \ {u} : orders'[v] = orders[v]
      BY <3>1 DEF Ends, NoCall, NoAccount, Typed, Tables
    <3>3. Buyer(account[u])
      BY <1>0, <2>1, <3>1 DEF Lives, CallOK
    <3>4. RowOK(u)' /\ CallOK(r)'
      BY <3>1, <3>2, <3>3 DEF Lives, RowOK, CallOK
    <3> QED
      BY <3>1, <3>2, <3>4, NoneIsNone, OneRow DEF Past
  <2>2. CASE ~Same(r, u)
    BY <1>0, <1>4, <2>2, EndsLives DEF PlaceOrder, Misses
  <2> QED
    BY <2>1, <2>2
<1> QED
  BY <1>1, <1>2, <1>3, <1>4 DEF Purchase

LEMMA GateLives ==
    ASSUME Typed, Lives, NEW r \in Requests, Gate(r) PROVE Lives'
<1>0. PICK u \in Users : u = request[r].user
  BY CallTyped DEF Gate, CountAgents, FindFree, FindClient, FindAgent, CreateAgent, Attach,
     Detach, Running
<1>1. CASE CountAgents(r) \/ FindFree(r) \/ FindClient(r) \/ FindAgent(r)
  <2>0. /\ Running(r) /\ request[r].step \notin Past /\ UNCHANGED <<account, profile, orders>>
    BY <1>1 DEF CountAgents, FindFree, FindClient, FindAgent, Running, Past
  <2>1. CASE Misses(r) \/ Ends(r, "refused")
    BY <2>0, <2>1, EndsLives DEF Misses
  <2>2. CASE \E step \in {"findFree", "findClient", "createAgent"} : Goes(r, step)
    <3>1. PICK step \in {"findFree", "findClient", "createAgent"} : Goes(r, step)
      BY <2>2
    <3>2. CallOK(r)'
      BY <3>1 DEF Goes, CallOK, Typed, CallType
    <3> QED
      BY <2>0, <3>1, <3>2, GoesLives DEF Steps
  <2>3. CASE Reads(r, "attach") /\ account[u].role = "CLIENT"
    <3>1. CallOK(r)'
      BY <1>0, <2>3 DEF Reads, CallOK, Typed, CallType
    <3> QED
      BY <2>0, <2>3, <3>1, GoesLives DEF Steps
  <2>4. CASE Reads(r, "detach")
    <3>1. CallOK(r)'
      BY <1>0, <2>0, <2>4 DEF Reads, CallOK, Typed, CallType
    <3> QED
      BY <2>0, <2>4, <3>1, GoesLives DEF Steps
  <2> QED
    BY <1>0, <1>1, <2>1, <2>2, <2>3, <2>4 DEF CountAgents, FindFree, FindClient, FindAgent
<1>2. CASE CreateAgent(r)
  <2>1. CASE Exists(u)
    BY <1>0, <1>2, <2>1, EndsLives DEF CreateAgent
  <2>2. CASE ~Exists(u)
    <3> DEFINE new == Born(r, "SCANNER")
    <3>1. new.id = r /\ new.role = "SCANNER" /\ new.previous = None /\ ~new.google
      BY DEF Born, NoAccount
    <3>2. /\ account' = [account EXCEPT ![u] = new] /\ profile' = [profile EXCEPT ![u] = r]
          /\ orders' = orders /\ Ends(r, "done") /\ request[r].step \notin Past
      BY <1>0, <1>2, <2>2 DEF CreateAgent, Write, Past
    <3> HIDE DEF new
    <3>3. /\ account'[u] = new /\ \A v \in Users \ {u} : account'[v] = account[v]
          /\ profile'[u] = r /\ \A v \in Users \ {u} : profile'[v] = profile[v]
          /\ request'[r].step = "done" /\ request'[r].read.id = None /\ request'[r].row = None
          /\ \A q \in Requests \ {r} : request'[q] = request[q]
          /\ orders[u] = {}
      BY <2>2, <3>2 DEF Ends, NoCall, NoAccount, Typed, Tables, Owned
    <3>4. RowOK(u)' /\ CallOK(r)'
      BY <3>1, <3>2, <3>3, NoneIsNone DEF RowOK, CallOK
    <3> QED
      BY <3>1, <3>2, <3>3, <3>4, NoneIsNone, OneRow DEF Past
  <2> QED
    BY <2>1, <2>2
<1>3. CASE Attach(r)
  <2>1. CASE Same(r, u) /\ profile[u] = None
    <3> DEFINE new == Promoted(account[u], request[r].read)
    <3>1. request[r].read.role = "CLIENT" /\ request[r].step = "attach"
      BY <1>3 DEF Attach, Lives, CallOK
    <3>2. new.id = account[u].id /\ new.role = "SCANNER" /\ new.previous = "CLIENT"
      BY <3>1 DEF Promoted, Typed, Tables, AccountType
    <3>3. /\ account' = [account EXCEPT ![u] = new] /\ profile' = [profile EXCEPT ![u] = r]
          /\ orders' = orders /\ Ends(r, "done")
      BY <1>0, <1>3, <2>1 DEF Attach, Write
    <3> HIDE DEF new
    <3>4. /\ account'[u] = new /\ \A v \in Users \ {u} : account'[v] = account[v]
          /\ profile'[u] = r /\ \A v \in Users \ {u} : profile'[v] = profile[v]
          /\ request'[r].step = "done" /\ request'[r].read.id = None /\ request'[r].row = None
          /\ \A q \in Requests \ {r} : request'[q] = request[q]
      BY <3>3 DEF Ends, NoCall, NoAccount, Typed, Tables
    <3>5. Buyer(account'[u]) /\ RowOK(u)' /\ CallOK(r)'
      BY <3>2, <3>4, NoneIsNone DEF RowOK, CallOK, Buyer
    <3> QED
      BY <3>1, <3>2, <3>3, <3>4, <3>5, NoneIsNone, OneRow DEF Past
  <2>2. CASE ~(Same(r, u) /\ profile[u] = None)
    BY <1>0, <1>3, <2>2, EndsLives DEF Attach, Misses
  <2> QED
    BY <2>1, <2>2
<1>4. CASE Detach(r)
  <2>1. CASE profile[u] = request[r].row
    <3> DEFINE new == Restored(account[u], request[r].read)
    <3>1. /\ request[r].read.previous = account[u].previous
          /\ account[u] \in AccountType
      BY <1>0, <1>4, <2>1 DEF Detach, Lives, CallOK, Typed, Tables
    <3>2. /\ new.id = account[u].id /\ new.previous = None /\ new.google = account[u].google
          /\ \/ new.role = "CLIENT"
             \/ account[u].previous = None /\ new.role = account[u].role /\ ~new.active
      BY <3>1, NoneIsNone DEF Restored, AccountType
    <3>3. /\ account' = [account EXCEPT ![u] = new] /\ profile' = [profile EXCEPT ![u] = None]
          /\ orders' = orders /\ Ends(r, "done")
      BY <1>0, <1>4, <2>1 DEF Detach, Write
    <3> HIDE DEF new
    <3>4. /\ account'[u] = new /\ \A v \in Users \ {u} : account'[v] = account[v]
          /\ profile'[u] = None /\ \A v \in Users \ {u} : profile'[v] = profile[v]
          /\ request'[r].step = "done" /\ request'[r].read.id = None /\ request'[r].row = None
          /\ \A q \in Requests \ {r} : request'[q] = request[q]
      BY <3>3 DEF Ends, NoCall, NoAccount, Typed, Tables
    <3>5. Buyer(account[u]) => Buyer(account'[u])
      BY <3>2, <3>4, NoneIsNone DEF Buyer
    <3>6. RowOK(u)' /\ CallOK(r)'
      BY <3>2, <3>3, <3>4, <3>5, NoneIsNone DEF Lives, RowOK, CallOK, Buyer
    <3> QED
      BY <3>2, <3>3, <3>4, <3>5, <3>6, NoneIsNone, OneRow DEF Past
  <2>2. CASE profile[u] # request[r].row
    BY <1>0, <1>4, <2>2, EndsLives DEF Detach, Misses
  <2> QED
    BY <2>1, <2>2
<1> QED
  BY <1>1, <1>2, <1>3, <1>4 DEF Gate

\* The account of an address leaves, and the job goes on.
LEMMA LeavesLives ==
    ASSUME Typed, Lives, NEW r \in Requests, NEW u \in Users, Leaves(u),
           NEW list, request' = [request EXCEPT ![r].list = list],
           request[r].step \in {"delete", "anonymise"}
    PROVE  Lives'
<1>1. /\ account'[u] = NoAccount /\ \A v \in Users \ {u} : account'[v] = account[v]
      /\ profile'[u] = None /\ \A v \in Users \ {u} : profile'[v] = profile[v]
      /\ orders'[u] = {} /\ \A v \in Users \ {u} : orders'[v] = orders[v]
      /\ request'[r].step = request[r].step /\ request'[r].read = request[r].read
      /\ request'[r].row = request[r].row
      /\ \A q \in Requests \ {r} : request'[q] = request[q]
  BY DEF Leaves, Typed, Tables, CallType
<1>2. NoAccount.id = None /\ ~NoAccount.active /\ ~NoAccount.google /\ NoAccount.previous = None
  BY DEF NoAccount
<1>3. RowOK(u)' /\ CallOK(r)'
  BY <1>1, <1>2, NoneIsNone DEF RowOK, CallOK
<1>4. request[r].step \notin Past /\ request[r].read.id # r
  BY DEF Lives, Fresh, Past
<1> QED
  BY <1>1, <1>2, <1>3, <1>4, OneRow

\* The job reads, or skips an account that is served.
LEMMA ListLives ==
    ASSUME Typed, Lives, NEW r \in Requests, NEW u \in Users,
           UNCHANGED <<account, profile, orders>>,
           NEW step \in {"delete", "listStale", "anonymise"}, NEW list,
           \/ request' = [request EXCEPT ![r].step = step, ![r].list = list]
           \/ request[r].step = step /\ request' = [request EXCEPT ![r].list = list],
           request[r].step \notin Past
    PROVE  Lives'
<1>1. /\ request'[r].step = step /\ request'[r].read = request[r].read
      /\ request'[r].row = request[r].row
      /\ \A q \in Requests \ {r} : request'[q] = request[q]
  BY DEF Typed, CallType
<1>2. CallOK(r)'
  BY <1>1 DEF CallOK
<1> QED
  BY <1>1, <1>2, TouchedLives

LEMMA RetentionLives ==
    ASSUME Typed, Lives, NEW r \in Requests, Retention(r) PROVE Lives'
<1>0. /\ request[r].user \in Users /\ request[r].step \notin Past /\ Running(r)
      /\ \A x \in request[r].list : x.user \in Users
  BY CallTyped DEF Retention, ListOrphans, DeleteOrphan, ListStale, Anonymise, Running, Past
<1>1. CASE ListOrphans(r) \/ ListStale(r)
  <2>1. \E step \in {"delete", "anonymise"} : \E list :
          request' = [request EXCEPT ![r].step = step, ![r].list = list]
    BY <1>1 DEF ListOrphans, ListStale, Listed
  <2>2. PICK step \in {"delete", "anonymise"} : \E list :
          request' = [request EXCEPT ![r].step = step, ![r].list = list]
    BY <2>1
  <2>3. PICK list : request' = [request EXCEPT ![r].step = step, ![r].list = list]
    BY <2>2
  <2>4. UNCHANGED <<account, profile, orders>>
    BY <1>1 DEF ListOrphans, ListStale
  <2> QED
    BY <1>0, <2>3, <2>4, ListLives
<1>2. CASE DeleteOrphan(r)
  <2>1. CASE request[r].list = {}
    <3>1. Goes(r, "listStale") /\ UNCHANGED <<account, profile, orders>>
      BY <1>2, <2>1 DEF DeleteOrphan, Untouched
    <3>2. CallOK(r)'
      BY <3>1 DEF Goes, CallOK, Typed, CallType
    <3> QED
      BY <1>0, <3>1, <3>2, GoesLives DEF Steps
  <2>2. CASE request[r].list # {}
    <3>1. PICK x \in request[r].list :
            /\ request' = [request EXCEPT ![r].list = request[r].list \ {x}]
            /\ Leaves(x.user) \/ Untouched
      BY <1>2, <2>2 DEF DeleteOrphan
    <3>2. request[r].step = "delete"
      BY <1>2 DEF DeleteOrphan
    <3>3. CASE Leaves(x.user)
      BY <1>0, <3>1, <3>2, <3>3, LeavesLives
    <3>4. CASE Untouched
      BY <1>0, <3>1, <3>2, <3>4, ListLives DEF Untouched
    <3> QED
      BY <3>1, <3>3, <3>4
  <2> QED
    BY <2>1, <2>2
<1>3. CASE Anonymise(r)
  <2>1. CASE \E step \in {"done", "refused"} : Ends(r, step) /\ Untouched
    BY <1>0, <2>1, EndsLives DEF Untouched
  <2>2. CASE ~ \E step \in {"done", "refused"} : Ends(r, step) /\ Untouched
    <3>1. PICK x \in request[r].list :
            request' = [request EXCEPT ![r].list = request[r].list \ {x}] /\ Leaves(x.user)
      BY <1>3, <2>2 DEF Anonymise
    <3>2. request[r].step = "anonymise"
      BY <1>3 DEF Anonymise
    <3> QED
      BY <1>0, <3>1, <3>2, LeavesLives
  <2> QED
    BY <2>1, <2>2
<1> QED
  BY <1>1, <1>2, <1>3 DEF Retention

LEMMA TimeLives ==
    ASSUME Typed, Lives, NEW u \in Users, Ages(u) \/ EventsEnd(u) PROVE Lives'
<1>1. /\ \A v \in Users : /\ account'[v].id = account[v].id
                          /\ account'[v].role = account[v].role
                          /\ account'[v].previous = account[v].previous
                          /\ account'[v].google = account[v].google
                          /\ account'[v].active = account[v].active
                          /\ orders'[v] # {} => orders[v] # {}
      /\ UNCHANGED <<profile, request>>
  BY DEF Ages, EventsEnd, Write, Typed, Tables, AccountType
<1>2. Fresh'
  BY <1>1 DEF Lives, Fresh
<1>3. \A v \in Users : RowOK(v)'
  BY <1>1 DEF Lives, RowOK, Buyer
<1>4. ASSUME NEW r \in Requests PROVE CallOK(r)'
  <2>1. request[r].step \in {"complete", "order", "detach"} => request[r].user \in Users
    BY DEF Typed, Running
  <2> QED
    BY <1>1, <2>1 DEF Lives, CallOK, Same, Exists, Buyer
<1> QED
  BY <1>2, <1>3, <1>4 DEF Lives

-----------------------------------------------------------------------------
Kept == Typed /\ Lives

LEMMA StepKept == Kept /\ [Next]_vars => Kept'
<1> SUFFICES ASSUME Typed, Lives, [Next]_vars PROVE Typed' /\ Lives'
  BY DEF Kept
<1>1. ASSUME NEW r \in Requests, Start(r) PROVE Typed' /\ Lives'
  BY <1>1, BeginTyped, BeginLives DEF Start
<1>2. ASSUME NEW r \in Requests, Login(r) PROVE Typed' /\ Lives'
  BY <1>2, LoginTyped, LoginLives
<1>3. ASSUME NEW r \in Requests, Purchase(r) PROVE Typed' /\ Lives'
  BY <1>3, PurchaseTyped, PurchaseLives
<1>4. ASSUME NEW r \in Requests, Telephone(r) PROVE Typed' /\ Lives'
  BY <1>4, TelephoneTyped, TelephoneLives
<1>5. ASSUME NEW r \in Requests, Gate(r) PROVE Typed' /\ Lives'
  BY <1>5, GateTyped, GateLives
<1>6. ASSUME NEW r \in Requests, Retention(r) PROVE Typed' /\ Lives'
  BY <1>6, RetentionTyped, RetentionLives
<1>7. ASSUME NEW u \in Users, Ages(u) \/ EventsEnd(u) PROVE Typed' /\ Lives'
  BY <1>7, TimeTyped, TimeLives
<1>8. CASE UNCHANGED vars
  BY <1>8 DEF vars, Typed, Tables, Owned, Exists, Running, Lives, Fresh, RowOK, CallOK, Same, Buyer
<1> QED
  BY <1>1, <1>2, <1>3, <1>4, <1>5, <1>6, <1>7, <1>8 DEF Next

LEMMA AlwaysKept == Spec => []Kept
<1>1. Init => Kept
  BY InitTyped, InitLives DEF Kept
<1> QED
  BY <1>1, StepKept, PTL DEF Spec

\* Accounts, profiles and orders are typed and keep their foreign keys, and a role is
\* only kept aside at the gate.
THEOREM AccountsAreTyped == Spec => []TypeOK
<1>1. Kept => TypeOK
  BY DEF Kept, Typed, Tables, Owned, Lives, RowOK, AccountType, CallType, TypeOK
<1> QED
  BY <1>1, AlwaysKept, PTL

\* An account that can sign in scans exactly if it has a place at the gate, whatever
\* overlaps.
THEOREM RolesFollow == Spec => []RoleFollowsProfile
<1>1. Kept => RoleFollowsProfile
  BY DEF Kept, Lives, RowOK, RoleFollowsProfile
<1> QED
  BY <1>1, AlwaysKept, PTL

\* Who has orders and no place at the gate is a client, whatever overlaps: the id of
\* an account tells a promoted client from an agent who was invited.
THEOREM TicketsAreBack == Spec => []TicketsComeBack
<1>1. Kept => TicketsComeBack
  BY DEF Kept, Lives, RowOK, Buyer, TicketsComeBack
<1> QED
  BY <1>1, AlwaysKept, PTL

-----------------------------------------------------------------------------
(* What a call that is about to write has read.                             *)

\* A fill read no number; the second pass listed clients whose events were over.
ReadOK(r) ==
    /\ request[r].step \in {"complete", "enrich"} => request[r].read.phone = None
    /\ request[r].step = "anonymise" =>
         \A x \in request[r].list : x.role = "CLIENT" /\ x.orders = {"past"}

Informed == \A r \in Requests : ReadOK(r)

LEMMA InitInformed == Init => Informed
  BY DEF Init, Informed, ReadOK, NoCall

\* A call that goes on without a list, or ends.
LEMMA MovesInformed ==
    ASSUME Typed, Informed, NEW r \in Requests,
           \A q \in Requests \ {r} : request'[q] = request[q],
           request'[r].step # "anonymise",
           request'[r].step \in {"complete", "enrich"} => request'[r].read.phone = None
    PROVE  Informed'
  BY DEF Informed, ReadOK

LEMMA GoesInformed ==
    ASSUME Typed, Informed, NEW r \in Requests, NEW step,
           step \notin {"complete", "enrich", "anonymise"},
           Goes(r, step) \/ Reads(r, step) \/ Ends(r, step)
    PROVE  Informed'
<1>1. /\ \A q \in Requests \ {r} : request'[q] = request[q]
      /\ request'[r].step = step
  <2>1. request \in [Requests -> CallType] /\ request[r] \in CallType
    BY CallTyped DEF Typed
  <2>2. CASE Goes(r, step)
    BY <2>1, <2>2 DEF Goes, CallType
  <2>3. CASE Reads(r, step)
    BY <2>1, <2>3 DEF Reads, CallType
  <2>4. CASE Ends(r, step)
    BY <2>1, <2>4 DEF Ends, NoCall
  <2> QED
    BY <2>2, <2>3, <2>4
<1> QED
  BY <1>1, MovesInformed

LEMMA BeginInformed ==
    ASSUME Typed, Informed, NEW r \in Requests, NEW op \in Ops, NEW u \in Users,
           NEW n \in Numbers \cup {None}, Begin(r, op, u, n)
    PROVE  Informed'
<1>1. /\ request'[r].step = FirstStep(op)
      /\ \A q \in Requests \ {r} : request'[q] = request[q]
  BY DEF Begin, Typed, NoCall
<1>2. FirstStep(op) \notin {"complete", "enrich", "anonymise"}
  BY DEF FirstStep, Ops
<1> QED
  BY <1>1, <1>2, MovesInformed

\* A fill is decided on a row without number.
LEMMA FillInformed ==
    ASSUME Typed, Informed, NEW r \in Requests, NEW step \in {"complete", "enrich"},
           Reads(r, step), account[request[r].user].phone = None
    PROVE  Informed'
<1>1. /\ \A q \in Requests \ {r} : request'[q] = request[q]
      /\ request'[r].step = step /\ request'[r].read = account[request[r].user]
  <2>1. request \in [Requests -> CallType] /\ request[r] \in CallType
    BY CallTyped DEF Typed
  <2> QED
    BY <2>1 DEF Reads, CallType
<1> QED
  BY <1>1, MovesInformed

LEMMA PurchaseInformed ==
    ASSUME Typed, Informed, NEW r \in Requests, Login(r) \/ Purchase(r) PROVE Informed'
<1> DEFINE u == request[r].user
<1>1. CASE Login(r)
  BY <1>1, GoesInformed DEF Login, FindGoogle, Upsert
<1>2. CASE FindAddress(r)
  <2>1. CASE Exists(u) /\ account[u].role = "CLIENT" /\ Missing(r)
    <3>1. Reads(r, "complete") /\ account[u].phone = None
      BY <1>2, <2>1 DEF FindAddress, Missing
    <3> QED
      BY <3>1, FillInformed
  <2>2. CASE ~(Exists(u) /\ account[u].role = "CLIENT" /\ Missing(r))
    BY <1>2, <2>2, GoesInformed DEF FindAddress
  <2> QED
    BY <2>1, <2>2
<1>3. CASE CreateGuest(r)
  <2>1. CASE Exists(u)
    BY <1>3, <2>1, GoesInformed DEF CreateGuest
  <2>2. CASE ~Exists(u)
    <3>1. /\ request'[r].step = "order"
          /\ \A q \in Requests \ {r} : request'[q] = request[q]
      BY <1>3, <2>2 DEF CreateGuest, Typed, CallType
    <3> QED
      BY <3>1, MovesInformed
  <2> QED
    BY <2>1, <2>2
<1>4. CASE Complete(r) \/ PlaceOrder(r)
  BY <1>4, GoesInformed DEF Complete, PlaceOrder, Misses
<1> QED
  BY <1>1, <1>2, <1>3, <1>4 DEF Purchase

LEMMA TelephoneInformed ==
    ASSUME Typed, Informed, NEW r \in Requests, Telephone(r) PROVE Informed'
<1>1. CASE ReadProfile(r)
  <2>1. CASE Same(r, request[r].user) /\ Missing(r)
    <3>1. Reads(r, "enrich") /\ account[request[r].user].phone = None
      BY <1>1, <2>1 DEF ReadProfile, Missing
    <3> QED
      BY <3>1, FillInformed
  <2>2. CASE ~(Same(r, request[r].user) /\ Missing(r))
    BY <1>1, <2>2, GoesInformed DEF ReadProfile
  <2> QED
    BY <2>1, <2>2
<1>2. CASE SavePhone(r) \/ StoreCode(r) \/ Verify(r) \/ Enrich(r)
  BY <1>2, GoesInformed DEF SavePhone, StoreCode, Verify, Enrich, Misses
<1>3. CASE SendCode(r) \/ ReadCode(r)
  BY <1>3, GoesInformed DEF SendCode, ReadCode, Misses
<1> QED
  BY <1>1, <1>2, <1>3 DEF Telephone

LEMMA GateInformed ==
    ASSUME Typed, Informed, NEW r \in Requests, Gate(r) PROVE Informed'
<1>1. CASE CountAgents(r) \/ FindFree(r) \/ FindClient(r) \/ FindAgent(r)
  BY <1>1, GoesInformed DEF CountAgents, FindFree, FindClient, FindAgent, Misses
<1>2. CASE CreateAgent(r) \/ Attach(r) \/ Detach(r)
  BY <1>2, GoesInformed DEF CreateAgent, Attach, Detach, Misses
<1> QED
  BY <1>1, <1>2 DEF Gate

LEMMA RetentionInformed ==
    ASSUME Typed, Informed, NEW r \in Requests, Retention(r) PROVE Informed'
<1>0. request \in [Requests -> CallType] /\ request[r] \in CallType
  BY CallTyped DEF Typed
<1>1. CASE ListOrphans(r)
  <2>1. /\ request'[r].step = "delete"
        /\ \A q \in Requests \ {r} : request'[q] = request[q]
    BY <1>0, <1>1 DEF ListOrphans, CallType
  <2> QED
    BY <2>1, MovesInformed
<1>2. CASE ListStale(r)
  <2>1. /\ request'[r].step = "anonymise" /\ request'[r].list = Listed(Stale)
        /\ \A q \in Requests \ {r} : request'[q] = request[q]
    BY <1>0, <1>2 DEF ListStale, CallType
  <2>2. \A x \in Listed(Stale) : x.role = "CLIENT" /\ x.orders = {"past"}
    BY DEF Listed, Stale, AllOver, Row
  <2> QED
    BY <2>1, <2>2 DEF Informed, ReadOK
<1>3. CASE DeleteOrphan(r) \/ Anonymise(r)
  <2>1. CASE \E step \in {"listStale", "done", "refused"} : Goes(r, step) \/ Ends(r, step)
    BY <2>1, GoesInformed
  <2>2. CASE \E x \in request[r].list : request' = [request EXCEPT ![r].list = @ \ {x}]
    <3>1. /\ request'[r].step = request[r].step /\ request'[r].read = request[r].read
          /\ request'[r].list \subseteq request[r].list
          /\ \A q \in Requests \ {r} : request'[q] = request[q]
      BY <1>0, <2>2 DEF CallType
    <3> QED
      BY <3>1 DEF Informed, ReadOK
  <2> QED
    BY <1>3, <2>1, <2>2 DEF DeleteOrphan, Anonymise
<1> QED
  BY <1>1, <1>2, <1>3 DEF Retention

LEMMA StepInformed == Typed /\ Informed /\ [Next]_vars => Informed'
<1> SUFFICES ASSUME Typed, Informed, [Next]_vars PROVE Informed'
  OBVIOUS
<1>1. ASSUME NEW r \in Requests, Start(r) PROVE Informed'
  BY <1>1, BeginInformed DEF Start
<1>2. CASE UNCHANGED request
  BY <1>2 DEF Informed, ReadOK
<1> QED
  BY <1>1, <1>2, PurchaseInformed, TelephoneInformed, GateInformed, RetentionInformed
     DEF Next, Ages, EventsEnd, vars

LEMMA AlwaysInformed == Spec => [](Kept /\ Informed)
<1>1. Init => Kept /\ Informed
  BY InitTyped, InitLives, InitInformed DEF Kept
<1>2. Kept /\ Informed /\ [Next]_vars => (Kept /\ Informed)'
  BY StepKept, StepInformed DEF Kept
<1> QED
  BY <1>1, <1>2, PTL DEF Spec

\* The number of the account a call writes.
LEMMA NumberWritten ==
    ASSUME Typed, NEW r \in Requests, NEW u \in Users, Exists(u), Exists(u)',
           Telephone(r) \/ Complete(r)
    PROVE  \/ account'[u].phone \in {account[u].phone, declared'[u]}
           \/ /\ request[r].step \in {"complete", "enrich"} /\ request[r].user = u
              /\ request'[r].step # request[r].step
<1> DEFINE v == request[r].user
           n == request[r].number
<1>0. /\ account \in [Users -> AccountType] /\ account[u] \in AccountType
      /\ declared \in [Users -> Numbers \cup {None}]
      /\ request \in [Requests -> CallType] /\ request[r] \in CallType
  BY CallTyped DEF Typed, Tables
<1>1. CASE SendCode(r) \/ ReadCode(r) \/ ReadProfile(r)
  BY <1>1 DEF SendCode, ReadCode, ReadProfile
<1>2. CASE SavePhone(r)
  <2>1. CASE Same(r, v) /\ u = v
    <3>1. account'[u].phone = n /\ declared'[u] = n
      BY <1>0, <1>2, <2>1 DEF SavePhone, Write, AccountType
    <3> QED
      BY <3>1
  <2>2. CASE ~(Same(r, v) /\ u = v)
    BY <1>0, <1>2, <2>2 DEF SavePhone, Write
  <2> QED
    BY <2>1, <2>2
<1>3. CASE StoreCode(r)
  <2>1. CASE Same(r, v) /\ u = v
    <3>1. account'[u] = Unverified(account[u], n) /\ declared'[u] = n
      BY <1>0, <1>3, <2>1 DEF StoreCode, Write
    <3> QED
      BY <1>0, <3>1 DEF Unverified, AccountType
  <2>2. CASE ~(Same(r, v) /\ u = v)
    BY <1>0, <1>3, <2>2 DEF StoreCode, Write
  <2> QED
    BY <2>1, <2>2
<1>4. CASE Verify(r)
  <2>1. CASE Same(r, v) /\ u = v
    <3>1. account'[u] = [account[u] EXCEPT !.verified = TRUE, !.code = None]
      BY <1>0, <1>4, <2>1 DEF Verify, Write
    <3> QED
      BY <1>0, <3>1 DEF AccountType
  <2>2. CASE ~(Same(r, v) /\ u = v)
    BY <1>0, <1>4, <2>2 DEF Verify, Write
  <2> QED
    BY <2>1, <2>2
<1>5. CASE Enrich(r) \/ Complete(r)
  <2>1. CASE u = v
    <3>1. request'[r].step \in {"done", "order", "refused"}
      BY <1>0, <1>5 DEF Enrich, Complete, Ends, Misses, Goes, NoCall, CallType
    <3> QED
      BY <1>5, <2>1, <3>1 DEF Enrich, Complete
  <2>2. CASE u # v
    BY <1>0, <1>5, <2>2 DEF Enrich, Complete, Write
  <2> QED
    BY <2>1, <2>2
<1> QED
  BY <1>1, <1>2, <1>3, <1>4, <1>5 DEF Telephone

\* The other calls, and time, leave a number as it is.
LEMMA NumberLeft ==
    ASSUME Typed, NEW u \in Users, Exists(u), Exists(u)', [Next]_vars,
           ~ \E r \in Requests : Telephone(r) \/ Complete(r)
    PROVE  account'[u].phone = account[u].phone
<1>0. account \in [Users -> AccountType] /\ account[u] \in AccountType
  BY DEF Typed, Tables
<1>1. ASSUME NEW r \in Requests,
             Start(r) \/ FindGoogle(r) \/ FindAddress(r) \/ PlaceOrder(r) \/ CountAgents(r)
               \/ FindFree(r) \/ FindClient(r) \/ FindAgent(r) \/ ListOrphans(r) \/ ListStale(r)
      PROVE  account' = account
  BY <1>1 DEF Start, Begin, FindGoogle, FindAddress, PlaceOrder, CountAgents, FindFree,
     FindClient, FindAgent, ListOrphans, ListStale
<1>2. ASSUME NEW r \in Requests, Upsert(r) \/ CreateGuest(r) \/ CreateAgent(r)
      PROVE  account'[u] = account[u]
  BY <1>0, <1>2 DEF Upsert, CreateGuest, CreateAgent, Write
<1>3. ASSUME NEW r \in Requests, Attach(r) \/ Detach(r)
      PROVE  account'[u].phone = account[u].phone
  <2>1. account'[u] \in {account[u], Promoted(account[u], request[r].read),
                         Restored(account[u], request[r].read)}
    BY <1>0, <1>3 DEF Attach, Detach, Write
  <2> QED
    BY <1>0, <2>1 DEF Promoted, Restored, AccountType
<1>4. ASSUME NEW r \in Requests, DeleteOrphan(r) \/ Anonymise(r)
      PROVE  account'[u] = account[u]
  <2>1. ASSUME NEW v, Leaves(v) PROVE account'[u] = account[u]
    BY <1>0, <2>1 DEF Leaves, NoAccount, Exists
  <2> QED
    BY <1>4, <2>1 DEF DeleteOrphan, Anonymise, Untouched
<1>5. ASSUME NEW v \in Users, Ages(v) \/ EventsEnd(v)
      PROVE  account'[u].phone = account[u].phone
  BY <1>0, <1>5 DEF Ages, EventsEnd, Write, AccountType
<1> QED
  BY <1>1, <1>2, <1>3, <1>4, <1>5 DEF Next, vars, Login, Purchase, Gate, Retention

\* The number of an account is only replaced by its owner, or by a purchase or a payment
\* that read the account before the number came, whatever calls overlap.
THEOREM OwnersNumberWins == Spec => DeclaredWins
<1>1. Kept /\ Informed /\ [Next]_vars => [OwnersNumber]_vars
  <2> SUFFICES ASSUME Typed, Informed, [Next]_vars, NEW u \in Users,
                      Exists(u), Exists(u)', account[u].phone # None,
                      account'[u].phone \notin {account[u].phone, declared'[u]}
               PROVE  \E r \in Requests : LateFill(r, u)
    BY DEF Kept, OwnersNumber
  <2>1. PICK r \in Requests : Telephone(r) \/ Complete(r)
    BY NumberLeft
  <2>2. /\ request[r].step \in {"complete", "enrich"} /\ request[r].user = u
        /\ request'[r] # request[r]
    BY <2>1, NumberWritten
  <2>3. request[r].read.phone = None
    BY <2>2 DEF Informed, ReadOK
  <2> QED
    BY <2>2, <2>3 DEF LateFill
<1> QED
  BY <1>1, AlwaysInformed, PTL DEF Spec, DeclaredWins

\* Who takes an account away.
LEMMA TakenByTheJob ==
    ASSUME Typed, NEW u \in Users, [Next]_vars, Exists(u), account'[u] = NoAccount
    PROVE  \E r \in Requests : DeleteOrphan(r) \/ Anonymise(r)
<1>0. /\ account \in [Users -> AccountType] /\ account[u] \in AccountType
      /\ account[u].id # None /\ account'[u].id = None
  BY DEF Typed, Tables, Exists, NoAccount
<1>1. ASSUME NEW r \in Requests,
             Start(r) \/ FindGoogle(r) \/ FindAddress(r) \/ PlaceOrder(r) \/ CountAgents(r)
               \/ FindFree(r) \/ FindClient(r) \/ FindAgent(r) \/ ListOrphans(r) \/ ListStale(r)
      PROVE  account' = account
  BY <1>1 DEF Start, Begin, FindGoogle, FindAddress, PlaceOrder, CountAgents, FindFree,
     FindClient, FindAgent, ListOrphans, ListStale
<1>2. ASSUME NEW r \in Requests, Upsert(r) \/ CreateGuest(r) \/ CreateAgent(r)
      PROVE  account'[u] = account[u]
  BY <1>0, <1>2 DEF Upsert, CreateGuest, CreateAgent, Write, Exists
<1>3. ASSUME NEW r \in Requests, Attach(r) \/ Detach(r) PROVE account'[u].id = account[u].id
  <2>1. account'[u] \in {account[u], Promoted(account[u], request[r].read),
                         Restored(account[u], request[r].read)}
    BY <1>0, <1>3 DEF Attach, Detach, Write
  <2> QED
    BY <1>0, <2>1 DEF Promoted, Restored, AccountType
<1>4. ASSUME NEW r \in Requests, Telephone(r) \/ Complete(r)
      PROVE  account'[u].id = account[u].id
  <2>1. CASE SendCode(r) \/ ReadCode(r) \/ ReadProfile(r)
    BY <2>1 DEF SendCode, ReadCode, ReadProfile
  <2>2. CASE SavePhone(r) \/ Enrich(r) \/ Complete(r)
    <3>1. account'[u] \in {account[u], [account[u] EXCEPT !.phone = request[r].number]}
      BY <1>0, <2>2 DEF SavePhone, Enrich, Complete, Write
    <3> QED
      BY <1>0, <3>1 DEF AccountType
  <2>3. CASE StoreCode(r) \/ Verify(r)
    <3>1. account'[u] \in {account[u], Unverified(account[u], request[r].number),
                           [account[u] EXCEPT !.verified = TRUE, !.code = None]}
      BY <1>0, <2>3 DEF StoreCode, Verify, Write
    <3> QED
      BY <1>0, <3>1 DEF Unverified, AccountType
  <2> QED
    BY <1>4, <2>1, <2>2, <2>3 DEF Telephone
<1>5. ASSUME NEW v \in Users, Ages(v) \/ EventsEnd(v) PROVE account'[u].id = account[u].id
  BY <1>0, <1>5 DEF Ages, EventsEnd, Write, AccountType
<1> QED
  BY <1>0, <1>1, <1>2, <1>3, <1>4, <1>5 DEF Next, vars, Login, Purchase, Gate, Retention

\* The nightly job takes an account that is served, an agent's or one with an order for
\* an event to come, only by a write of its second pass that comes after the account
\* changed since it was listed, whatever calls and jobs overlap.
THEOREM ServedAccountsStay == Spec => ServedStay
<1>1. Kept /\ Informed /\ [Next]_vars => [TakesUnserved]_vars
  <2> SUFFICES ASSUME Typed, Lives, Informed, [Next]_vars, NEW u \in Users,
                      Exists(u), account'[u] = NoAccount,
                      "coming" \in orders[u] \/ profile[u] # None
               PROVE  \E r \in Requests : LateTake(r, u)
    BY DEF Kept, TakesUnserved
  <2>1. PICK r \in Requests : DeleteOrphan(r) \/ Anonymise(r)
    BY TakenByTheJob
  <2>2. account'[u] # account[u]
    BY DEF Exists, NoAccount
  <2>3. PICK x \in request[r].list :
          /\ Leaves(x.user) /\ x.user \in Users
          /\ request' = [request EXCEPT ![r].list = @ \ {x}]
          /\ DeleteOrphan(r) => Deletable(x.user, x.id)
    BY <2>1, <2>2, CallTyped DEF DeleteOrphan, Anonymise, Untouched
  <2>4. x.user = u
    BY <2>2, <2>3 DEF Leaves, Typed, Tables
  <2>5. Anonymise(r)
    BY <2>1, <2>3, <2>4 DEF Deletable
  <2>6. request[r].step = "anonymise"
    BY <2>5 DEF Anonymise
  <2>7. x # Row(u)
    <3>1. x.role = "CLIENT" /\ x.orders = {"past"}
      BY <2>6 DEF Informed, ReadOK
    <3>2. Row(u).role = account[u].role /\ Row(u).orders = orders[u]
      BY DEF Row
    <3>3. profile[u] # None => account[u].role = "SCANNER"
      BY DEF Lives, RowOK
    <3> QED
      BY <3>1, <3>2, <3>3
  <2>8. request'[r] # request[r]
    <3>1. request'[r].list = request[r].list \ {x}
      BY <2>3, CallTyped DEF Typed, CallType
    <3> QED
      BY <3>1
  <2> QED
    BY <2>4, <2>6, <2>7, <2>8 DEF LateTake
<1> QED
  BY <1>1, AlwaysInformed, PTL DEF Spec, ServedStay
=============================================================================
