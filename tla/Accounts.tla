------------------------------- MODULE Accounts -------------------------------
(***************************************************************************)
(* The accounts of an event's public and of its gate.  An account is born  *)
(* of a Google login, of a purchase without account or of an invitation to *)
(* scan; a client may be promoted to the gate and given his role back; his *)
(* telephone comes from him, from a form or from the payment provider; and *)
(* a nightly job deletes or anonymises those that served.                  *)
(***************************************************************************)
EXTENDS Integers, FiniteSets

CONSTANTS
    Users,      \* e-mail addresses
    Numbers,    \* telephone numbers
    Requests,   \* bound: calls of the API and nightly jobs
    MaxAgents,  \* plafondScanners(event)
    None        \* no number, no account, no profile

ASSUME MaxAgentsIsANumber == MaxAgents \in Nat \ {0}
ASSUME NoneIsNone == None \notin Users \cup Numbers \cup Requests \cup {"CLIENT"}

Ops == {"google", "signup", "buy", "guest", "savePhone", "askCode", "confirm", "enrich",
        "promote", "invite", "remove", "retention"}

VARIABLES
    account,   \* table users, unique on the address
    profile,   \* table scanners, unique on the account: the id of its row
    orders,    \* of each account: orders for events to come, and past ones
    declared,  \* the number its owner gave last
    proven,    \* the number whose code its owner typed back
    request    \* progress of each call, and what it has read

vars == <<account, profile, orders, declared, proven, request>>

NoAccount == [id |-> None, role |-> None, previous |-> None, guest |-> FALSE,
              google |-> FALSE, active |-> FALSE, aged |-> FALSE,
              phone |-> None, verified |-> FALSE, code |-> None]

NoCall == [step |-> "idle", op |-> "guest", user |-> None, number |-> None,
           read |-> NoAccount, row |-> None, list |-> {}]

Init ==
    /\ account = [u \in Users |-> NoAccount]
    /\ profile = [u \in Users |-> None]
    /\ orders = [u \in Users |-> {}]
    /\ declared = [u \in Users |-> None]
    /\ proven = [u \in Users |-> None]
    /\ request = [r \in Requests |-> NoCall]

-----------------------------------------------------------------------------
Exists(u) == account[u].id # None

\* Who may call.  Owners sign in with Google, and keep the role their session was
\* opened with.
SignedIn(u) == Exists(u) /\ account[u].active /\ account[u].google
MayCall(op, u) ==
    CASE op = "buy" -> SignedIn(u) /\ account[u].role # "MANAGER"
      [] op \in {"savePhone", "askCode", "confirm"} -> SignedIn(u)
      [] op = "enrich" -> orders[u] # {}
      [] op = "remove" -> profile[u] # None
      [] OTHER -> TRUE

FirstStep(op) ==
    CASE op \in {"google", "signup"} -> "find"
      [] op = "buy"       -> "order"
      [] op = "guest"     -> "findAddress"
      [] op = "savePhone" -> "savePhone"
      [] op = "askCode"   -> "sendCode"
      [] op = "confirm"   -> "readCode"
      [] op = "enrich"    -> "readProfile"
      [] op \in {"promote", "invite"} -> "countAgents"
      [] op = "remove"    -> "findAgent"
      [] op = "retention" -> "listOrphans"

Takes == {"guest", "savePhone", "askCode", "confirm", "enrich"}

Begin(r, op, u, n) ==
    /\ request[r].step = "idle"
    /\ MayCall(op, u)
    /\ op \in Takes \/ n = None
    /\ op \in Takes \ {"guest", "enrich"} => n # None
    /\ request' = [request EXCEPT ![r] = [NoCall EXCEPT
         !.op = op, !.user = u, !.number = n, !.row = profile[u], !.read = account[u],
         !.step = FirstStep(op)]]
    /\ UNCHANGED <<account, profile, orders, declared, proven>>

\* What the handler goes on to, with what it has read, or how it ends.
Goes(r, step) == request' = [request EXCEPT ![r].step = step]
Reads(r, step) == request' = [request EXCEPT ![r].step = step,
                                             ![r].read = account[request[r].user]]
Ends(r, step) == request' = [request EXCEPT ![r] = [NoCall EXCEPT !.step = step]]

Write(u, new) == account' = [account EXCEPT ![u] = new]
Born(r, role) == [NoAccount EXCEPT !.id = r, !.role = role, !.active = TRUE]

\* The row a handler has read, by id, still is the account of the address.
Same(r, u) == Exists(u) /\ account[u].id = request[r].read.id

\* It is not: the row was deleted and the statement throws, or it was anonymised and
\* the call ends with a row that has no address any more.
Misses(r) == Ends(r, "refused") \/ Ends(r, "done")

-----------------------------------------------------------------------------
(* loginWithGoogle.                                                        *)

\* Whether this Google account is known; one that is not may ask to be a manager.
FindGoogle(r) ==
    /\ request[r].step = "find"
    /\ Reads(r, "upsert")
    /\ UNCHANGED <<account, profile, orders, declared, proven>>

\* The upsert is by Google id: it creates the account, which the unique address
\* refuses when another account has it.
SignupRole(r) ==
    IF request[r].op = "signup" /\ ~request[r].read.google THEN "MANAGER" ELSE "CLIENT"

Upsert(r) ==
    LET u == request[r].user IN
    /\ request[r].step = "upsert"
    /\ IF Exists(u)
       THEN /\ Ends(r, IF account[u].google /\ account[u].active THEN "done" ELSE "refused")
            /\ UNCHANGED account
       ELSE /\ Write(u, [Born(r, SignupRole(r)) EXCEPT !.google = TRUE])
            /\ Ends(r, "done")
    /\ UNCHANGED <<profile, orders, declared, proven>>

-----------------------------------------------------------------------------
(* resoudreAcheteur, then the order it is for.                             *)

\* A number is only put where there is none.  (Mutant FillAlways: anywhere.)
FillAlways(r) == request[r].number # None
Missing(r) == request[r].number # None /\ account[request[r].user].phone = None

\* The account of the address carries the order, if it is a client's.
FindAddress(r) ==
    LET u == request[r].user IN
    /\ request[r].step = "findAddress"
    /\ IF ~Exists(u) THEN Goes(r, "createGuest")
       ELSE IF account[u].role # "CLIENT" THEN Ends(r, "refused")
       ELSE Reads(r, IF Missing(r) THEN "complete" ELSE "order")
    /\ UNCHANGED <<account, profile, orders, declared, proven>>

\* By id, whatever the number has become.
Complete(r) ==
    LET u == request[r].user IN
    /\ request[r].step = "complete"
    /\ IF Same(r, u)
       THEN /\ Write(u, [account[u] EXCEPT !.phone = request[r].number])
            /\ Goes(r, "order")
       ELSE /\ Misses(r)
            /\ UNCHANGED account
    /\ UNCHANGED <<profile, orders, declared, proven>>

\* The address is unique: of two creations, one throws.
CreateGuest(r) ==
    LET u == request[r].user IN
    /\ request[r].step = "createGuest"
    /\ IF Exists(u)
       THEN /\ Ends(r, "refused")
            /\ UNCHANGED account
       ELSE /\ Write(u, [Born(r, "CLIENT") EXCEPT !.guest = TRUE, !.phone = request[r].number])
            /\ request' = [request EXCEPT ![r].step = "order", ![r].read = account'[u]]
    /\ UNCHANGED <<profile, orders, declared, proven>>

\* initPayment: the order references its client.
PlaceOrder(r) ==
    LET u == request[r].user IN
    /\ request[r].step = "order"
    /\ IF Same(r, u)
       THEN /\ orders' = [orders EXCEPT ![u] = @ \cup {"coming"}]
            /\ Ends(r, "done")
       ELSE /\ Misses(r)
            /\ UNCHANGED orders
    /\ UNCHANGED <<account, profile, declared, proven>>

-----------------------------------------------------------------------------
(* The telephone: savePhone, its verification, enrichClientProfile.        *)

SavePhone(r) ==
    LET u == request[r].user
        n == request[r].number
    IN  /\ request[r].step = "savePhone"
        /\ IF Same(r, u)
           THEN /\ Write(u, [account[u] EXCEPT !.phone = n])
                /\ declared' = [declared EXCEPT ![u] = n]
                /\ Ends(r, "done")
           ELSE /\ Misses(r)
                /\ UNCHANGED <<account, declared>>
        /\ UNCHANGED <<profile, orders, proven>>

\* requestPhoneVerification: the code is sent before it is stored.
SendCode(r) ==
    /\ request[r].step = "sendCode"
    /\ Goes(r, "storeCode") \/ Ends(r, "refused")
    /\ UNCHANGED <<account, profile, orders, declared, proven>>

\* A new number is not verified.
Unverified(a, n) == [a EXCEPT !.phone = n, !.code = n, !.verified = FALSE]

StoreCode(r) ==
    LET u == request[r].user
        n == request[r].number
    IN  /\ request[r].step = "storeCode"
        /\ IF Same(r, u)
           THEN /\ Write(u, Unverified(account[u], n))
                /\ declared' = [declared EXCEPT ![u] = n]
                /\ Ends(r, "done")
           ELSE /\ Misses(r)
                /\ UNCHANGED <<account, declared>>
        /\ UNCHANGED <<profile, orders, proven>>

\* confirmPhoneVerification: a code names the number it was sent to; it may have
\* expired.
ReadCode(r) ==
    /\ request[r].step = "readCode"
    /\ \/ /\ Same(r, request[r].user)
          /\ account[request[r].user].code = request[r].number
          /\ Goes(r, "verify")
       \/ Ends(r, "refused")
       \/ ~Same(r, request[r].user) /\ Misses(r)
    /\ UNCHANGED <<account, profile, orders, declared, proven>>

Verify(r) ==
    LET u == request[r].user IN
    /\ request[r].step = "verify"
    /\ IF Same(r, u)
       THEN /\ Write(u, [account[u] EXCEPT !.verified = TRUE, !.code = None])
            /\ proven' = [proven EXCEPT ![u] = request[r].number]
            /\ Ends(r, "done")
       ELSE /\ Misses(r)
            /\ UNCHANGED <<account, proven>>
    /\ UNCHANGED <<profile, orders, declared>>

\* enrichClientProfile, after a payment: only what is missing.
ReadProfile(r) ==
    /\ request[r].step = "readProfile"
    /\ IF Same(r, request[r].user) /\ Missing(r) THEN Reads(r, "enrich") ELSE Ends(r, "done")
    /\ UNCHANGED <<account, profile, orders, declared, proven>>

Enrich(r) ==
    LET u == request[r].user IN
    /\ request[r].step = "enrich"
    /\ Ends(r, "done")
    /\ IF Same(r, u) THEN Write(u, [account[u] EXCEPT !.phone = request[r].number])
                     ELSE UNCHANGED account
    /\ UNCHANGED <<profile, orders, declared, proven>>

-----------------------------------------------------------------------------
(* The agents of the gate: invite, promote, remove.                        *)

\* assertPlafondScanners, a count before the creation.
NoAgentLeft == Cardinality({u \in Users : profile[u] # None}) >= MaxAgents

CountAgents(r) ==
    /\ request[r].step = "countAgents"
    /\ IF NoAgentLeft THEN Ends(r, "refused")
       ELSE Goes(r, IF request[r].op = "invite" THEN "findFree" ELSE "findClient")
    /\ UNCHANGED <<account, profile, orders, declared, proven>>

FindFree(r) ==
    /\ request[r].step = "findFree"
    /\ IF Exists(request[r].user) THEN Ends(r, "refused") ELSE Goes(r, "createAgent")
    /\ UNCHANGED <<account, profile, orders, declared, proven>>

\* Account and profile in one transaction.
CreateAgent(r) ==
    LET u == request[r].user IN
    /\ request[r].step = "createAgent"
    /\ IF Exists(u)
       THEN /\ Ends(r, "refused")
            /\ UNCHANGED <<account, profile>>
       ELSE /\ Write(u, Born(r, "SCANNER"))
            /\ profile' = [profile EXCEPT ![u] = r]
            /\ Ends(r, "done")
    /\ UNCHANGED <<orders, declared, proven>>

FindClient(r) ==
    LET u == request[r].user IN
    /\ request[r].step = "findClient"
    /\ IF Exists(u) /\ profile[u] = None /\ account[u].role = "CLIENT"
       THEN Reads(r, "attach") ELSE Ends(r, "refused")
    /\ UNCHANGED <<account, profile, orders, declared, proven>>

\* The role he had is kept, to be given back.  (Mutant Forgotten: it is not.)
Forgotten(a, read) == [a EXCEPT !.role = "SCANNER"]
Promoted(a, read) == [a EXCEPT !.role = "SCANNER", !.previous = read.role]

\* The account has one profile at most, or nothing is written.
Attach(r) ==
    LET u == request[r].user IN
    /\ request[r].step = "attach"
    /\ IF Same(r, u) /\ profile[u] = None
       THEN /\ Write(u, Promoted(account[u], request[r].read))
            /\ profile' = [profile EXCEPT ![u] = r]
            /\ Ends(r, "done")
       ELSE /\ Misses(r)
            /\ UNCHANGED <<account, profile>>
    /\ UNCHANGED <<orders, declared, proven>>

\* An agent who has scanned is refused (ScanGate has the journal).
FindAgent(r) ==
    /\ request[r].step = "findAgent"
    /\ IF profile[request[r].user] = request[r].row
       THEN Reads(r, "detach") \/ Ends(r, "refused")
       ELSE Misses(r)
    /\ UNCHANGED <<account, profile, orders, declared, proven>>

\* The role read earlier is given back; an account that has none is closed.
\* (Mutants LeftOpen: it is not; KeptAside: the role stays aside too.)
LeftOpen(a, read) ==
    IF read.previous # None THEN [a EXCEPT !.role = read.previous, !.previous = None] ELSE a

KeptAside(a, read) ==
    IF read.previous # None THEN [a EXCEPT !.role = read.previous] ELSE [a EXCEPT !.active = FALSE]

Restored(a, read) ==
    IF read.previous # None THEN [a EXCEPT !.role = read.previous, !.previous = None]
                            ELSE [a EXCEPT !.active = FALSE]

Detach(r) ==
    LET u == request[r].user IN
    /\ request[r].step = "detach"
    /\ IF profile[u] = request[r].row
       THEN /\ profile' = [profile EXCEPT ![u] = None]
            /\ Write(u, Restored(account[u], request[r].read))
            /\ Ends(r, "done")
       ELSE /\ Misses(r)
            /\ UNCHANGED <<account, profile>>
    /\ UNCHANGED <<orders, declared, proven>>

-----------------------------------------------------------------------------
(* runDailyRetention.                                                      *)

\* What a pass reads of the accounts it lists.
Row(u) == [user |-> u, id |-> account[u].id, role |-> account[u].role, orders |-> orders[u]]
Listed(Served(_)) == {Row(u) : u \in {v \in Users : Served(v)}}

Orphan(u) ==
    Exists(u) /\ account[u].role = "CLIENT" /\ account[u].google
    /\ account[u].aged /\ orders[u] = {}

ListOrphans(r) ==
    /\ request[r].step = "listOrphans"
    /\ request' = [request EXCEPT ![r].step = "delete", ![r].list = Listed(Orphan)]
    /\ UNCHANGED <<account, profile, orders, declared, proven>>

\* The address is free again: the row is deleted, or keeps its id, orders and profile
\* under an address nobody has.
Leaves(u) ==
    /\ account' = [account EXCEPT ![u] = NoAccount]
    /\ profile' = [profile EXCEPT ![u] = None]
    /\ orders' = [orders EXCEPT ![u] = {}]
    /\ declared' = [declared EXCEPT ![u] = None]
    /\ proven' = [proven EXCEPT ![u] = None]

Untouched == UNCHANGED <<account, profile, orders, declared, proven>>

\* An order or a profile keeps its account (foreign keys).
Deletable(u, id) == account[u].id = id /\ orders[u] = {} /\ profile[u] = None

DeleteOrphan(r) ==
    /\ request[r].step = "delete"
    /\ IF request[r].list = {} THEN Goes(r, "listStale") /\ Untouched
       ELSE \E x \in request[r].list :
              /\ request' = [request EXCEPT ![r].list = @ \ {x}]
              /\ IF Deletable(x.user, x.id) THEN Leaves(x.user) ELSE Untouched

\* The clients all of whose events are over.  (Mutant EverBought: over or not.)
EverBought(u) == orders[u] # {}
AllOver(u) == orders[u] = {"past"}

Stale(u) ==
    Exists(u) /\ account[u].role = "CLIENT" /\ account[u].google /\ AllOver(u)

ListStale(r) ==
    /\ request[r].step = "listStale"
    /\ request' = [request EXCEPT ![r].step = "anonymise", ![r].list = Listed(Stale)]
    /\ UNCHANGED <<account, profile, orders, declared, proven>>

\* An account that is gone makes the job stop.
Anonymise(r) ==
    /\ request[r].step = "anonymise"
    /\ IF request[r].list = {} THEN Ends(r, "done") /\ Untouched
       ELSE \E x \in request[r].list :
              IF account[x.user].id = x.id
              THEN Leaves(x.user) /\ request' = [request EXCEPT ![r].list = @ \ {x}]
              ELSE Ends(r, "refused") /\ Untouched

-----------------------------------------------------------------------------
(* Time.                                                                   *)

Ages(u) ==
    /\ Exists(u) /\ ~account[u].aged
    /\ Write(u, [account[u] EXCEPT !.aged = TRUE])
    /\ UNCHANGED <<profile, orders, declared, proven, request>>

EventsEnd(u) ==
    /\ "coming" \in orders[u]
    /\ orders' = [orders EXCEPT ![u] = {"past"}]
    /\ UNCHANGED <<account, profile, declared, proven, request>>

-----------------------------------------------------------------------------
Start(r) ==
    \E op \in Ops, u \in Users, n \in Numbers \cup {None} : Begin(r, op, u, n)

Login(r) == FindGoogle(r) \/ Upsert(r)
Purchase(r) == FindAddress(r) \/ Complete(r) \/ CreateGuest(r) \/ PlaceOrder(r)
Telephone(r) ==
    \/ SavePhone(r)
    \/ SendCode(r)
    \/ StoreCode(r)
    \/ ReadCode(r)
    \/ Verify(r)
    \/ ReadProfile(r)
    \/ Enrich(r)
Gate(r) ==
    \/ CountAgents(r)
    \/ FindFree(r)
    \/ CreateAgent(r)
    \/ FindClient(r)
    \/ Attach(r)
    \/ FindAgent(r)
    \/ Detach(r)
Retention(r) == ListOrphans(r) \/ DeleteOrphan(r) \/ ListStale(r) \/ Anonymise(r)

Next ==
    \/ \E r \in Requests :
         Start(r) \/ Login(r) \/ Purchase(r) \/ Telephone(r) \/ Gate(r) \/ Retention(r)
    \/ \E u \in Users : Ages(u) \/ EventsEnd(u)

Spec == Init /\ [][Next]_vars
-----------------------------------------------------------------------------
(* Properties. *)

\* Types, with the foreign keys: an order and a profile have their account; and a role
\* is only kept aside for those who are at the gate.
TypeOK ==
    /\ \A u \in Users :
         /\ account[u].id \in Requests \cup {None}
         /\ account[u].role \in {"CLIENT", "MANAGER", "SCANNER", None}
         /\ account[u].previous # None => account[u].role = "SCANNER"
         /\ account[u].phone \in Numbers \cup {None}
         /\ orders[u] \subseteq {"coming", "past"}
         /\ ~Exists(u) => account[u] = NoAccount /\ profile[u] = None /\ orders[u] = {}
    /\ \A r \in Requests : request[r].op \in Ops

\* An account that can sign in scans exactly if it has a place at the gate,
\* whatever promotions, removals, logins and purchases overlap: nobody keeps the
\* role without the profile, or a profile under another role.
RoleFollowsProfile ==
    \A u \in Users : account[u].active => (account[u].role = "SCANNER" <=> profile[u] # None)

\* "Promouvoir un client [...] lui fait perdre l'accès à ses propres billets. On
\* garde d'où il vient pour pouvoir le lui rendre" (schema.prisma:32-35): who has
\* orders and is not at the gate is a client.
TicketsComeBack ==
    \A u \in Users : orders[u] # {} /\ profile[u] = None => account[u].role = "CLIENT"

\* A purchase or a payment fills in a number, and another came since it read none.
LateFill(r, u) ==
    /\ request[r].step \in {"complete", "enrich"}
    /\ request[r].user = u
    /\ account[u].phone # request[r].read.phone
    /\ request'[r] # request[r]

\* A number that is there is only replaced by one its owner gives (schema.prisma:51,
\* "jamais écrasé si déjà renseigné"; guest-checkout.service.ts:107), whatever calls
\* overlap, or by a purchase that read the account before the number came.
OwnersNumber ==
    \A u \in Users :
        Exists(u) /\ Exists(u)' /\ account[u].phone # None =>
            \/ account'[u].phone \in {account[u].phone, declared'[u]}
            \/ \E r \in Requests : LateFill(r, u)

DeclaredWins == [][OwnersNumber]_vars

\* A telephone said to be verified is the one whose code came back: "un numéro déclaré
\* n'est pas un numéro vérifié" (auth-orchestrator.service.ts:407-409).
VerifiedIsProven ==
    \A u \in Users : account[u].verified => account[u].phone = proven[u]

\* The second pass writes an account that is not what it listed any more.
LateTake(r, u) ==
    /\ request[r].step = "anonymise"
    /\ \E x \in request[r].list : x.user = u /\ x # Row(u)
    /\ request'[r] # request[r]

\* The nightly job takes an account with an order for an event to come, or an agent's
\* (retention.service.ts:42, "jamais"), whatever calls overlap it, only in its second
\* pass, and only if the account has ordered or was promoted since the pass listed it.
TakesUnserved ==
    \A u \in Users :
        Exists(u) /\ account'[u] = NoAccount =>
            \/ "coming" \notin orders[u] /\ profile[u] = None
            \/ \E r \in Requests : LateTake(r, u)

ServedStay == [][TakesUnserved]_vars

\* Who bought without an account finds his tickets the day he signs in
\* (schema.prisma:44-45; guest-checkout.service.ts:91-93): no Google login of an
\* address whose account is open is refused.
GuestRecovers ==
    [][\A r \in Requests :
         request[r].step = "upsert" /\ request'[r].step = "refused" =>
             ~account[request[r].user].active]_vars
=============================================================================
