------------------------------- MODULE DoorList -------------------------------
(***************************************************************************)
(* The list of an event on registration, checked at its doors: the rows of *)
(* registrations, the agents' phones that show them from their query cache *)
(* and mark them optimistically, and the organiser's desk.                 *)
(***************************************************************************)
EXTENDS Integers

CONSTANTS
    Guests,    \* ids of registrations: who registers again has another one
    Late,      \* those who register while others arrive
    Phones,    \* agents of the event
    Desk,      \* the organiser
    MaxCalls,  \* bound: marks and withdrawals
    NoList,    \* the list before its first answer
    Asked      \* a query on its way to the service

ASSUME DeskIsNoPhone == Desk \notin Phones /\ NoList \notin Phones \cup {Desk}
ASSUME MaxCallsIsANumber == MaxCalls \in Nat

Calls == 1 .. MaxCalls

VARIABLES
    registration,  \* table registrations: "arrived" when checkedInAt is set
    marked,        \* audit log: who wrote the row last, if he was told so
    shown,         \* each phone's cache entry ['emargement'], its items
    stale,         \* its isInvalidated
    fetch,         \* its query in flight, with what the service has read
    call           \* each mark or withdrawal: its step, and the phone's `avant`

vars == <<registration, marked, shown, stale, fetch, call>>

Rows == {"none", "expected", "arrived"}
Lists == [Guests -> Rows]
ASSUME NoListIsNoList == {NoList, Asked} \cap Lists = {} /\ NoList # Asked

NoCall == [step |-> "idle", by |-> Desk, guest |-> NoList, write |-> "gone",
           waiting |-> FALSE, avant |-> NoList]

Init ==
    /\ registration = [g \in Guests |-> IF g \in Late THEN "none" ELSE "expected"]
    /\ marked = [g \in Guests |-> NoList]
    /\ shown = [p \in Phones |-> NoList]
    /\ stale = [p \in Phones |-> FALSE]
    /\ fetch = [p \in Phones |-> Asked]
    /\ call = [c \in Calls |-> NoCall]

-----------------------------------------------------------------------------
(* RegistrationsService.                                                   *)

Unused(c) == call[c].step = "idle" /\ \A d \in 1 .. c - 1 : call[d].step # "idle"
Registered(g) == registration[g] \in {"expected", "arrived"}

\* Mutant: a withdrawn row is only flagged.
ListingFlagged == registration
Listing == [g \in Guests |-> IF Registered(g) THEN registration[g] ELSE "none"]

\* inscrire.
Register(g) ==
    /\ registration[g] = "none"
    /\ registration' = [registration EXCEPT ![g] = "expected"]
    /\ marked' = [marked EXCEPT ![g] = Desk]
    /\ UNCHANGED <<shown, stale, fetch, call>>

\* Nobody waits for the answer of a call that was cut, or of the desk's.
Goes(c, step) ==
    call' = [call EXCEPT ![c] = IF call[c].waiting \/ step = "found"
                                THEN [@ EXCEPT !.step = step]
                                ELSE [NoCall EXCEPT !.step = "done"]]

\* pointerParAgent, pointer and retirer: the row is found first.
Find(c) ==
    /\ call[c].step = "sent"
    /\ Goes(c, IF Registered(call[c].guest) THEN "found" ELSE "refused")
    /\ UNCHANGED <<registration, marked, shown, stale, fetch>>

\* The request never arrives, or the agent's profile is switched off.
Refuse(c) ==
    /\ call[c].step = "sent"
    /\ Goes(c, "refused")
    /\ UNCHANGED <<registration, marked, shown, stale, fetch>>

\* Then updated or deleted by id; the row may have been withdrawn since.
Write(c) ==
    LET g == call[c].guest IN
    /\ call[c].step = "found"
    /\ IF Registered(g)
       THEN /\ registration' = [registration EXCEPT ![g] = call[c].write]
            /\ marked' = [marked EXCEPT ![g] = IF call[c].waiting THEN call[c].by ELSE Desk]
            /\ Goes(c, "written")
       ELSE /\ Goes(c, "refused")
            /\ UNCHANGED <<registration, marked>>
    /\ UNCHANGED <<shown, stale, fetch>>

\* listerPourAgent.
Read(p) ==
    /\ fetch[p] = Asked
    /\ fetch' = [fetch EXCEPT ![p] = Listing]
    /\ UNCHANGED <<registration, marked, shown, stale, call>>

-----------------------------------------------------------------------------
(* ListeEmargement, on each phone.                                         *)

\* Mutant: the list is asked for once.
PollOnce(p) ==
    /\ fetch[p] = NoList /\ shown[p] = NoList
    /\ fetch' = [fetch EXCEPT ![p] = Asked]
    /\ UNCHANGED <<registration, marked, shown, stale, call>>

\* refetchInterval, and the button that tries again.
Poll(p) ==
    /\ fetch[p] = NoList
    /\ fetch' = [fetch EXCEPT ![p] = Asked]
    /\ UNCHANGED <<registration, marked, shown, stale, call>>

Receive(p) ==
    /\ fetch[p] \notin {NoList, Asked}
    /\ shown' = [shown EXCEPT ![p] = fetch[p]]
    /\ stale' = [stale EXCEPT ![p] = FALSE]
    /\ fetch' = [fetch EXCEPT ![p] = NoList]
    /\ UNCHANGED <<registration, marked, call>>

\* Its answer is lost: what it would have read does not matter.
FetchFails(p) ==
    /\ fetch[p] = Asked
    /\ fetch' = [fetch EXCEPT ![p] = NoList]
    /\ UNCHANGED <<registration, marked, shown, stale, call>>

\* onMutate: the query in flight is cancelled, what is shown is kept aside, and
\* the row turned over at once.
Toggled(list, g) == [list EXCEPT ![g] = IF @ = "arrived" THEN "expected" ELSE "arrived"]

Tap(p, g, c) ==
    /\ shown[p] # NoList
    /\ shown[p][g] # "none"
    /\ Unused(c)
    /\ fetch' = [fetch EXCEPT ![p] = NoList]
    /\ shown' = [shown EXCEPT ![p] = Toggled(@, g)]
    /\ stale' = [stale EXCEPT ![p] = FALSE]
    /\ call' = [call EXCEPT ![c] = [step |-> "sent", by |-> p, guest |-> g,
                                    write |-> shown'[p][g], waiting |-> TRUE,
                                    avant |-> shown[p]]]
    /\ UNCHANGED <<registration, marked>>

\* onSettled: the list is invalidated, hence asked for again; an answer on its way
\* is dropped.  (Mutant StaleOnly: it is left to the next poll.)
StaleOnly(p) ==
    /\ stale' = stale
    /\ fetch' = fetch
Invalidate(p) ==
    /\ stale' = [stale EXCEPT ![p] = TRUE]
    /\ fetch' = [fetch EXCEPT ![p] = Asked]

Succeed(c) ==
    /\ call[c].step = "written" /\ call[c].waiting
    /\ Invalidate(call[c].by)
    /\ call' = [call EXCEPT ![c] = [NoCall EXCEPT !.step = "done"]]
    /\ UNCHANGED <<registration, marked, shown>>

\* onError: back to what was shown before, of all the rows.
Restore(c) == shown' = [shown EXCEPT ![call[c].by] = call[c].avant]

Fail(c) ==
    /\ call[c].step = "refused" /\ call[c].waiting
    /\ Restore(c)
    /\ Invalidate(call[c].by)
    /\ call' = [call EXCEPT ![c] = [NoCall EXCEPT !.step = "done"]]
    /\ UNCHANGED <<registration, marked>>

\* The connection is lost: the same on the phone, while the service goes on.
Cut(c) ==
    /\ call[c].step \in {"sent", "found", "written"} /\ call[c].waiting
    /\ Restore(c)
    /\ Invalidate(call[c].by)
    /\ call' = [call EXCEPT ![c] =
                  IF @.step = "written" THEN [NoCall EXCEPT !.step = "done"]
                  ELSE [@ EXCEPT !.waiting = FALSE, !.avant = NoList, !.by = Desk]]
    /\ UNCHANGED <<registration, marked>>

\* ListeInscriptions, the organiser's page: he marks, unmarks or withdraws.
AtTheDesk(c, g) ==
    /\ Unused(c)
    /\ registration[g] # "none"
    /\ \E w \in {"expected", "arrived", "gone"} :
         call' = [call EXCEPT ![c] = [NoCall EXCEPT !.step = "sent", !.guest = g, !.write = w]]
    /\ UNCHANGED <<registration, marked, shown, stale, fetch>>

-----------------------------------------------------------------------------
Service(c) == Find(c) \/ Refuse(c) \/ Write(c)
Settle(c) == Succeed(c) \/ Fail(c)
Next ==
    \/ \E g \in Guests : Register(g)
    \/ \E c \in Calls : Service(c) \/ Settle(c) \/ Cut(c)
    \/ \E p \in Phones : Read(p) \/ Poll(p) \/ Receive(p) \/ FetchFails(p)
    \/ \E g \in Guests, c \in Calls : AtTheDesk(c, g) \/ \E p \in Phones : Tap(p, g, c)

\* Calls are answered, the phone asks again every half minute, and its answers do
\* not all get lost.
Fairness ==
    /\ \A c \in Calls : WF_vars(Service(c)) /\ WF_vars(Settle(c))
    /\ \A p \in Phones : WF_vars(Poll(p)) /\ SF_vars(Read(p)) /\ WF_vars(Receive(p))

Spec == Init /\ [][Next]_vars /\ Fairness
-----------------------------------------------------------------------------
(* Properties. *)

\* Types; a phone shows rows of the table, never a withdrawn one.
TypeOK ==
    /\ registration \in [Guests -> Rows \cup {"gone"}]
    /\ shown \in [Phones -> Lists \cup {NoList}]
    /\ \A p \in Phones : fetch[p] \in Lists \cup {NoList, Asked}
    /\ \A c \in Calls : call[c].waiting => call[c].by \in Phones /\ call[c].avant \in Lists

\* A phone that waits for nothing, its list read again since its last mark.
AtRest(p) ==
    /\ shown[p] # NoList /\ ~stale[p]
    /\ \A c \in Calls : call[c].waiting => call[c].by # p

\* "une coche qui reste alors que rien n'a été enregistré ferait entrer quelqu'un
\* deux fois, ou pas du tout" (liste-emargement.tsx:114-115): on a phone at rest, a
\* row nobody wrote, or which this phone wrote last, is shown as it is stored,
\* whatever marks overlapped, failed and were restored over each other.
MarksAreReal ==
    \A p \in Phones, g \in Guests :
        AtRest(p) /\ marked[g] \in {p, NoList} => shown[p][g] = Listing[g]

\* "Deux agents sur deux portes travaillent sur la même liste"
\* (liste-emargement.tsx:79-83): once the marks stop, every phone comes to show the
\* table.
DoorsAgree == <>[](\A p \in Phones : shown[p] = Listing)
=============================================================================
