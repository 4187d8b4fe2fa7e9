----------------------------- MODULE EventOffice -----------------------------
(***************************************************************************)
(* The payment providers of one organiser's events: their credentials are  *)
(* saved for one event or for all of them, switched on and off, removed,   *)
(* and copied to the events he creates, by him and by the administrator.   *)
(* Transactions run at READ COMMITTED: a statement sees what is committed  *)
(* when it starts, waits for the rows others hold, and keeps its own until *)
(* the transaction ends.                                                   *)
(***************************************************************************)
EXTENDS Integers, FiniteSets

CONSTANTS
    Events,      \* events the organiser has or may create
    First,       \* the one he starts with
    Providers,   \* payment providers
    Requests,    \* bound: calls of the API
    Quota,       \* limitesDuPlan(plan).maxEvenements
    None         \* no provider, no event

ASSUME FirstIsAnEvent == First \in Events
ASSUME QuotaIsANumber == Quota \in Nat \ {0}
ASSUME NoneIsNone == None \notin Events \cup Providers \cup Requests
ASSUME CallsAreNotEvents == Events \cap Requests = {}

Rows == Events \X Providers

VARIABLES
    events,   \* events of the organiser
    row,      \* table payment_provider_configs, unique on (event, provider)
    holder,   \* the transaction that holds each row, or its key in the index
    clock,    \* counts the writes: updatedAt
    apart,    \* history: rows given to one event alone, removed, or that a save for
              \* all events or an inheritance passed by
    request   \* progress of each call, and what it has read

vars == <<events, row, holder, clock, apart, request>>

NoRow == [active |-> FALSE, global |-> FALSE, keys |-> None, at |-> 0]
Exists(x) == row[x].keys # None

Ops == {"save", "saveAll", "adminSave", "toggle", "remove", "create"}
Steps == {"idle", "targets", "exists", "others", "wait", "write", "commit", "remove",
          "quota", "insert", "globals", "inherit", "done", "refused"}

NoCall == [step |-> "idle", op |-> "save", event |-> None, provider |-> None,
           active |-> FALSE, targets |-> {}, left |-> {}, seen |-> {}, wrote |-> {},
           data |-> {}]

\* The first event has no provider yet, or both were applied to all events and
\* one of them is in use.
Init ==
    /\ events = {First}
    /\ \/ row = [x \in Rows |-> NoRow]
       \/ \E p \in Providers :
            row = [x \in Rows |->
                     IF x[1] # First THEN NoRow
                     ELSE [active |-> x[2] = p, global |-> TRUE, keys |-> First, at |-> 0]]
    /\ holder = [x \in Rows |-> None]
    /\ clock = 0
    /\ apart = {}
    /\ request = [r \in Requests |-> NoCall]

-----------------------------------------------------------------------------
\* The condition of assertQuotaEvenements.
QuotaReached == Cardinality(events) >= Quota

Running(r) == request[r].step \notin {"idle", "done", "refused"}
Writers == {"save", "saveAll", "adminSave", "toggle"}

Begin(r, op, e, p, on) ==
    /\ request[r].step = "idle"
    /\ request' = [request EXCEPT ![r] = [NoCall EXCEPT
         !.op = op, !.event = e, !.provider = p, !.active = on,
         !.targets = {e}, !.left = {e},
         !.step = CASE op \in {"save", "adminSave"} -> "others"
                    [] op = "saveAll" -> "targets"
                    [] op = "toggle"  -> "exists"
                    [] op = "remove"  -> "remove"
                    [] op = "create"  -> "quota"]]
    /\ UNCHANGED <<events, row, holder, clock, apart>>

-----------------------------------------------------------------------------
(* enregistrer and basculer; upsertEventPaymentConfig and                  *)
(* setEventPaymentConfigActive of the administrator.                       *)

\* evenementsDuManager, before the transaction.
Targets(r) ==
    /\ request[r].step = "targets"
    /\ request' = [request EXCEPT ![r].step = "others", ![r].targets = events,
                                  ![r].left = events]
    /\ UNCHANGED <<events, row, holder, clock, apart>>

\* A provider that was never configured cannot be switched.
CheckExists(r) ==
    /\ request[r].step = "exists"
    /\ request' = [request EXCEPT ![r].step =
         IF Exists(<<request[r].event, request[r].provider>>) THEN "others" ELSE "refused"]
    /\ UNCHANGED <<events, row, holder, clock, apart>>

Free(r, xs) == \A x \in xs : holder[x] \in {None, r}

\* The rows of an event other than the provider's, as updateMany finds them.
Siblings(r, e) == {x \in {e} \X (Providers \ {request[r].provider}) : Exists(x)}

\* What r's transaction has made of a row.
Latest(r, x) ==
    IF \E w \in request[r].wrote : w[1] = x
    THEN (CHOOSE w \in request[r].wrote : w[1] = x)[2]
    ELSE row[x]

Wrote(r, xs, New(_)) ==
    {w \in request[r].wrote : w[1] \notin xs} \cup {<<x, New(x)>> : x \in xs}

\* The other providers of the next event are switched off, if this one goes on;
\* the statement waits for rows that another transaction holds.
\* (Mutant SwitchedApart: it is committed at once, before the transaction.)
SwitchedApart(r) ==
    /\ request[r].step = "others"
    /\ \E e \in request[r].left :
         LET found == IF request[r].active THEN Siblings(r, e) ELSE {} IN
         /\ Free(r, found)
         /\ row' = [x \in Rows |-> IF x \in found THEN [row[x] EXCEPT !.active = FALSE] ELSE row[x]]
         /\ request' = [request EXCEPT ![r].step = "write", ![r].event = e,
                                       ![r].seen = @ \cup found]
    /\ UNCHANGED <<events, holder, clock, apart>>

SwitchOthersOff(r) ==
    /\ request[r].step = "others"
    /\ \E e \in request[r].left :
         LET found == IF request[r].active THEN Siblings(r, e) ELSE {}
             Off(x) == [Latest(r, x) EXCEPT !.active = FALSE, !.at = clock + 1]
         IN  IF Free(r, found)
             THEN /\ holder' = [x \in Rows |-> IF x \in found THEN r ELSE holder[x]]
                  /\ clock' = IF found = {} THEN clock ELSE clock + 1
                  /\ request' = [request EXCEPT ![r].step = "write", ![r].event = e,
                                                ![r].seen = request[r].seen \cup found,
                                                ![r].wrote = Wrote(r, found, Off)]
             ELSE /\ request' = [request EXCEPT ![r].step = "wait", ![r].event = e,
                                                ![r].seen = request[r].seen \cup found]
                  /\ UNCHANGED <<holder, clock>>
    /\ UNCHANGED <<events, row, apart>>

\* It goes on with the rows it had found, those removed meanwhile excepted.
OthersReleased(r) ==
    LET found == {x \in request[r].seen : x[1] = request[r].event}
        Off(x) == [Latest(r, x) EXCEPT !.active = FALSE, !.at = clock + 1]
    IN  /\ request[r].step = "wait"
        /\ Free(r, found)
        /\ holder' = [x \in Rows |-> IF x \in found THEN r ELSE holder[x]]
        /\ clock' = clock + 1
        /\ request' = [request EXCEPT ![r].step = "write", ![r].wrote = Wrote(r, found, Off)]
        /\ UNCHANGED <<events, row, apart>>

\* The credentials are inserted or replaced, and say whether they are meant for
\* every event; the administrator's form leaves that mark as it is.
Saved(r, old) ==
    [active |-> request[r].active,
     global |-> request[r].op = "saveAll" \/ (request[r].op = "adminSave" /\ old.global),
     keys |-> r, at |-> clock + 1]

Switched(r, old) == [old EXCEPT !.active = request[r].active, !.at = clock + 1]

\* (Mutant FirstTargetOnly: the loop ends after one event.)
FirstTargetOnly(r) == {}

Remaining(r) == request[r].left \ {request[r].event}

\* upsert, or update: of a row removed meanwhile it throws.
\* (Mutant WrittenApart: by `this.prisma`, hence outside the transaction.)
WrittenApart(r) ==
    LET x == <<request[r].event, request[r].provider>> IN
    /\ request[r].step = "write"
    /\ Free(r, {x})
    /\ request[r].op = "toggle" => Exists(x)
    /\ row' = [row EXCEPT ![x] = IF request[r].op = "toggle" THEN Switched(r, @) ELSE Saved(r, @)]
    /\ clock' = clock + 1
    /\ request' = [request EXCEPT
         ![r].left = Remaining(r), ![r].step = IF Remaining(r) = {} THEN "commit" ELSE "others"]
    /\ UNCHANGED <<events, holder, apart>>

WriteRow(r) ==
    LET x == <<request[r].event, request[r].provider>>
        New(y) == IF request[r].op = "toggle" THEN Switched(r, Latest(r, y))
                                              ELSE Saved(r, Latest(r, y))
    IN  /\ request[r].step = "write"
        /\ Free(r, {x})
        /\ request[r].op = "toggle" => Exists(x)
        /\ holder' = [holder EXCEPT ![x] = r]
        /\ clock' = clock + 1
        /\ request' = [request EXCEPT
             ![r].wrote = Wrote(r, {x}, New),
             ![r].left = Remaining(r),
             ![r].step = IF Remaining(r) = {} THEN "commit" ELSE "others"]
        /\ UNCHANGED <<events, row, apart>>

\* The transaction ends, and with it its locks.
Released(r) == [x \in Rows |-> IF holder[x] = r THEN None ELSE holder[x]]

Commit(r) ==
    LET c == request[r]
        Of(es) == es \X {c.provider}
    IN  /\ c.step = "commit"
        /\ row' = [x \in Rows |-> Latest(r, x)]
        /\ holder' = Released(r)
        /\ apart' = CASE c.op = "saveAll" -> (apart \ Of(c.targets)) \cup Of(events \ c.targets)
                      [] c.op = "toggle"  -> apart
                      [] OTHER            -> apart \cup Of(c.targets)
        /\ request' = [request EXCEPT ![r] = [NoCall EXCEPT !.step = "done"]]
        /\ UNCHANGED <<events, clock>>

\* A deadlock, the transaction's time limit, a lost connection, or a row that is
\* gone: nothing is written.
Rollback(r) ==
    /\ request[r].op \in Writers
    /\ request[r].step \in {"others", "wait", "write", "commit"}
    /\ holder' = Released(r)
    /\ request' = [request EXCEPT ![r] = [NoCall EXCEPT !.step = "refused"]]
    /\ UNCHANGED <<events, row, clock, apart>>

\* supprimer, deleteEventPaymentConfig: one statement, committed at once.  A call
\* that waits for the row will not find it.
Remove(r) ==
    LET x == <<request[r].event, request[r].provider>> IN
    /\ request[r].step = "remove"
    /\ Free(r, {x})
    /\ row' = [row EXCEPT ![x] = NoRow]
    /\ apart' = apart \cup {x}
    /\ request' = [q \in Requests |->
                      IF q = r THEN [NoCall EXCEPT !.step = "done"]
                      ELSE IF request[q].step = "wait"
                           THEN [request[q] EXCEPT !.seen = @ \ {x}]
                           ELSE request[q]]
    /\ UNCHANGED <<events, holder, clock>>

-----------------------------------------------------------------------------
(* createEvent, and the providers the new event inherits.                  *)

\* assertQuotaEvenements, before the insert.
CountEvents(r) ==
    /\ request[r].step = "quota"
    /\ request' = [request EXCEPT ![r].step = IF QuotaReached THEN "refused" ELSE "insert"]
    /\ UNCHANGED <<events, row, holder, clock, apart>>

\* The event named in the call is the one created; a slug already taken is refused.
InsertEvent(r) ==
    LET e == request[r].event IN
    /\ request[r].step = "insert"
    /\ IF e \in events
       THEN /\ request' = [request EXCEPT ![r].step = "refused"]
            /\ UNCHANGED events
       ELSE /\ request' = [request EXCEPT ![r].step = "globals"]
            /\ events' = events \cup {e}
    /\ UNCHANGED <<row, holder, clock, apart>>

\* The rows meant for every event, the most recent of each provider.
Globals(p) == {x \in Rows : x[1] \in events /\ x[2] = p /\ row[x].global}

NewestGlobals ==
    {CHOOSE x \in Globals(p) : \A y \in Globals(p) : row[x].at >= row[y].at :
        p \in {q \in Providers : Globals(q) # {}}}

\* Providers that an event created now takes after an event set apart, or after none
\* because they were.
TakenApart ==
    {p \in Providers : /\ \A x \in NewestGlobals : x[2] = p => x \in apart
                      /\ \E f \in events : <<f, p>> \in apart}

ReadGlobals(r) ==
    /\ request[r].step = "globals"
    /\ request' = [request EXCEPT
         ![r].data = {<<x, row[x]>> : x \in NewestGlobals},
         ![r].step = IF NewestGlobals = {} THEN "done" ELSE "inherit"]
    /\ apart' = apart \cup ({request[r].event} \X TakenApart)
    /\ UNCHANGED <<events, row, holder, clock>>

\* createMany with skipDuplicates: a row that exists already stays.
Inherit(r) ==
    LET e == request[r].event
        copied == {x \in {e} \X {d[1][2] : d \in request[r].data} : ~Exists(x)}
        Source(p) == (CHOOSE d \in request[r].data : d[1][2] = p)[2]
    IN  /\ request[r].step = "inherit"
        /\ Free(r, copied)
        /\ row' = [x \in Rows |-> IF x \in copied
                                   THEN [Source(x[2]) EXCEPT !.global = TRUE, !.at = clock + 1]
                                   ELSE row[x]]
        /\ clock' = clock + 1
        /\ request' = [request EXCEPT ![r] = [NoCall EXCEPT !.step = "done"]]
        /\ UNCHANGED <<events, holder, apart>>

\* A failure is only logged: the event stays, without providers.
InheritFails(r) ==
    LET bare == {x \in {request[r].event} \X Providers : ~Exists(x)} IN
    /\ request[r].step \in {"globals", "inherit"}
    /\ apart' = apart \cup bare
    /\ request' = [request EXCEPT ![r] = [NoCall EXCEPT !.step = "done"]]
    /\ UNCHANGED <<events, row, holder, clock>>

-----------------------------------------------------------------------------
Configure(r) ==
    \/ Targets(r)
    \/ CheckExists(r)
    \/ SwitchOthersOff(r)
    \/ OthersReleased(r)
    \/ WriteRow(r)
    \/ Commit(r)
    \/ Rollback(r)
    \/ Remove(r)

CreateEvent(r) ==
    \/ CountEvents(r)
    \/ InsertEvent(r)
    \/ ReadGlobals(r)
    \/ Inherit(r)
    \/ InheritFails(r)

Start(r) ==
    \/ \E op \in Ops \ {"create"}, e \in events, p \in Providers, on \in BOOLEAN :
         (op = "remove" => ~on) /\ Begin(r, op, e, p, on)
    \/ \E e \in Events \ events : Begin(r, "create", e, None, FALSE)

Next == \E r \in Requests : Start(r) \/ Configure(r) \/ CreateEvent(r)

Spec == Init /\ [][Next]_vars

-----------------------------------------------------------------------------
(* Properties. *)

\* Types, with the transactions: only a running one holds rows, and holds what
\* it wrote; credentials are seen once the call that saved them is done.
TypeOK ==
    /\ events \in SUBSET Events
    /\ clock \in Nat
    /\ apart \in SUBSET Rows
    /\ \A x \in Rows :
         /\ row[x] \in [active : BOOLEAN, global : BOOLEAN,
                        keys : Requests \cup {First, None}, at : 0..clock]
         /\ Exists(x) => x[1] \in events
         /\ row[x].keys \in Requests => request[row[x].keys].step = "done"
         /\ holder[x] # None => Running(holder[x])
    /\ \A r \in Requests :
         /\ request[r].step \in Steps
         /\ request[r].op \in Ops
         /\ \A w \in request[r].wrote : holder[w[1]] = r

OneActive(e) ==
    \A p, q \in Providers : row[<<e, p>>].active /\ row[<<e, q>>].active => p = q

\* A row of the event that came after r had switched the others off.
CameSince(r, e) == \E x \in Siblings(r, e) : x \notin request[r].seen

\* The events of the organiser lend two active rows to the new one, or it has some.
LendsTwo(r, e) ==
    \/ \E c, d \in request[r].data : c # d /\ c[2].active /\ d[2].active
    \/ \E p \in Providers : Exists(<<e, p>>)

\* An event goes to two active providers only by a row that the others could not know
\* of: the copy of what two events lend to a new one (221-247), and the commit of a
\* call whose event got another provider since it looked.
KeepsOne ==
    \A e \in events : OneActive(e) /\ ~OneActive(e)' =>
        \E r \in Requests :
          \/ request[r].step = "inherit" /\ request[r].event = e /\ LendsTwo(r, e)
          \/ request[r].step = "commit" /\ e \in request[r].targets /\ CameSince(r, e)

\* "Un seul fournisseur actif par événement" (payment-config.service.ts:99): calls
\* that overlap in any way, and the rollbacks of those that lock each other out,
\* never take an event to two, the two exceptions of KeepsOne apart.
OneActiveProvider == [][KeepsOne]_vars

\* What the organiser applied to all his events holds on all of them, the one
\* he creates next included (payment-config.service.ts:208-215): the events that
\* were not set apart agree on the credentials of a provider, whatever calls
\* overlapped.  An event created after a save for all had listed its targets is
\* passed by, and one that inherits from an event set apart is so itself.
AppliedEverywhere ==
    (\A r \in Requests : ~Running(r)) =>
        \A e, f \in events, p \in Providers :
            <<e, p>> \notin apart /\ <<f, p>> \notin apart =>
                row[<<e, p>>].keys = row[<<f, p>>].keys
=============================================================================
