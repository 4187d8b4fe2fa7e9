----------------------------- MODULE BuilderPage -----------------------------
(***************************************************************************)
(* The public page of an event and the sessions that edit it: the tab of   *)
(* the builder with the browser's query cache, and the service that stores *)
(* the page under optimistic concurrency control.                          *)
(*                                                                         *)
(* The blocks and the theme of a page are the set of edits they carry:     *)
(* adding, moving, changing or removing a block is an edit, and a save     *)
(* replaces the stored set by that of the tab.  The column updatedAt is a  *)
(* version, 0 while the page has no row.                                   *)
(***************************************************************************)
EXTENDS Naturals, FiniteSets

CONSTANTS
    Editors,      \* sessions editing the page of one event
    MaxEdits,     \* bound: edits of one session
    MaxSaves,     \* bound: clicks on "Enregistrer" of each session
    Steady,       \* bound: sessions that stay on the page and whose network holds
    NoData,       \* a query without an answer
    Asked         \* a query on its way to the service

ASSUME BuilderBounds == MaxEdits \in Nat /\ MaxSaves \in [Editors -> Nat]

Edits     == Editors \X (1 .. MaxEdits)
Snapshots == [version : Nat, blocks : SUBSET Edits]
ASSUME NoDataIsNoSnapshot == {NoData, Asked} \cap Snapshots = {} /\ NoData # Asked

Saves     == UNION {{e} \X (1 .. MaxSaves[e]) : e \in Editors}
SaveSteps == {"idle", "sent", "checked", "stored", "refused", "done"}
InFlight  == {"sent", "checked", "stored", "refused"}

\* Who hears the answer of a save: the tab that clicked; the query cache alone,
\* once the session left that visit; nobody, once the mutation failed on its own.
Listeners == {"tab", "cache", "none"}

VARIABLES
    page,    \* the row of event_pages
    tab,     \* each session's component: its blocks and lastKnownUpdatedAt
    cache,   \* the browser's entry ['builder-mine', evenement]
    fetch,   \* the query in flight: NoData, Asked, or the answer on its way
    marks,   \* what the query of each session is marked with: "invalid", "failed"
    save,    \* each save: its step, its body, the version it was compared with,
             \* the one it stored, who hears of it
    blind    \* history, read by no action: was a save ever written over a version
             \* that it was not compared with?

vars == <<page, tab, cache, fetch, marks, save, blind>>
browser == <<tab, cache, fetch, marks>>

-----------------------------------------------------------------------------
\* A failed query hides the page that it had loaded (isError || !data).
Shown(e) == tab[e].open /\ cache[e] # NoData /\ "failed" \notin marks[e]

\* The button waits for the mutation of the mounted component, not for the PUT.
Waits(s) == save[s].step \in InFlight /\ save[s].hears = "tab"
Disabled(e) == \E s \in Saves : s[1] = e /\ Waits(s)

NextSave(e) == {s \in Saves : s[1] = e /\ save[s].step = "idle"
                              /\ \A r \in Saves : r[1] = e /\ r[2] < s[2]
                                                  => save[r].step # "idle"}

\* The effect on [data]: the tab takes over what was loaded.
Synced(snapshot) == [open |-> TRUE, blocks |-> snapshot.blocks, known |-> snapshot.version]
Blank == [open |-> TRUE, blocks |-> {}, known |-> 0]

Unsent == [step |-> "idle", blocks |-> {}, base |-> 0, compared |-> 0, stored |-> 0,
           hears |-> "tab"]
Done == [Unsent EXCEPT !.step = "done"]

\* The event has no page yet, or an empty one.
Init ==
    /\ page \in [version : {0, 1}, blocks : {{}}]
    /\ tab = [e \in Editors |-> [open |-> FALSE, blocks |-> {}, known |-> 0]]
    /\ cache = [e \in Editors |-> NoData]
    /\ fetch = [e \in Editors |-> NoData]
    /\ marks = [e \in Editors |-> {}]
    /\ save = [s \in Saves |-> Unsent]
    /\ blind = FALSE

-----------------------------------------------------------------------------
(* The tab. *)

\* A visit shows the cached page at once, and asks again for one that is marked
\* invalid or (old) was loaded more than staleTime, a minute, ago.
Open(e) ==
    /\ ~tab[e].open
    /\ tab' = [tab EXCEPT ![e] = IF cache[e] = NoData THEN Blank ELSE Synced(cache[e])]
    /\ \E old \in BOOLEAN :
         fetch' = [fetch EXCEPT ![e] =
                     IF @ = NoData /\ (old \/ cache[e] = NoData \/ "invalid" \in marks[e])
                     THEN Asked ELSE @]
    /\ UNCHANGED <<page, cache, marks, save, blind>>

Leave(e) ==
    /\ tab[e].open
    /\ e \notin Steady
    /\ tab' = [tab EXCEPT ![e] = [open |-> FALSE, blocks |-> {}, known |-> 0]]
    /\ save' = [s \in Saves |-> IF s[1] = e /\ Waits(s)
                                THEN [save[s] EXCEPT !.hears = "cache"] ELSE save[s]]
    /\ UNCHANGED <<page, cache, fetch, marks, blind>>

\* insertBlockAt, toggleBlockType, moveBlockToIndex, updateSelected...,
\* removeSelected, moveSelected, the theme: local until the next save.
Edit(e, x) ==
    /\ Shown(e)
    /\ x[1] = e /\ x \notin tab[e].blocks
    /\ tab' = [tab EXCEPT ![e].blocks = @ \cup {x}]
    /\ UNCHANGED <<page, cache, fetch, marks, save, blind>>

ClickSave(e) ==
    /\ Shown(e)
    /\ ~Disabled(e)
    /\ \E s \in NextSave(e) :
         save' = [save EXCEPT ![s] = [step |-> "sent", blocks |-> tab[e].blocks,
                                      base |-> tab[e].known, compared |-> 0,
                                      stored |-> 0, hears |-> "tab"]]
    /\ UNCHANGED <<page, browser, blind>>

\* onSuccess: the version is taken from the answer, the blocks stay those of the
\* tab.  The cache entry written is ['builder-mine'], which no query reads.
Saved(s) ==
    /\ save[s].step = "stored" /\ save[s].hears # "none"
    /\ tab' = IF Waits(s) THEN [tab EXCEPT ![s[1]].known = save[s].stored] ELSE tab
    /\ save' = [save EXCEPT ![s] = Done]
    /\ UNCHANGED <<page, cache, fetch, marks, blind>>

\* Promise.all: the PATCH sent along is refused, or the network is lost, before the
\* PUT is answered.  The mutation fails as a whole and the button is back.
Fail(s) ==
    /\ save[s].step \in InFlight /\ save[s].hears # "none"
    /\ s[1] \notin Steady
    /\ save' = [save EXCEPT ![s].hears = "none"]
    /\ UNCHANGED <<page, browser, blind>>

\* The end of such a PUT: answered to nobody, or lost on its way.
Unheard(s) ==
    /\ save[s].step \in InFlight /\ save[s].hears = "none"
    /\ save' = [save EXCEPT ![s] = Done]
    /\ UNCHANGED <<page, browser, blind>>

\* Mutant: the conflict is only announced.
ConflictIgnored(s) ==
    /\ save[s].step = "refused" /\ save[s].hears # "none"
    /\ save' = [save EXCEPT ![s] = Done]
    /\ UNCHANGED <<page, browser, blind>>

\* onError, BUILDER_CONFLICT: the query is marked invalid.  A page on the screen is
\* asked again at once, and an answer on its way is dropped; a page that was left
\* is asked again by the next visit.
Conflict(s) ==
    /\ save[s].step = "refused" /\ save[s].hears # "none"
    /\ save' = [save EXCEPT ![s] = Done]
    /\ marks' = [marks EXCEPT ![s[1]] = @ \cup {"invalid"}]
    /\ fetch' = [fetch EXCEPT ![s[1]] = IF tab[s[1]].open THEN Asked ELSE @]
    /\ UNCHANGED <<page, tab, cache, blind>>

\* The network comes back: a query older than a minute is asked again.
Reconnect(e) ==
    /\ tab[e].open
    /\ e \notin Steady
    /\ fetch[e] = NoData
    /\ fetch' = [fetch EXCEPT ![e] = Asked]
    /\ UNCHANGED <<page, tab, cache, marks, save, blind>>

\* An answer equal to the cached one leaves `data` as it is (structural sharing).
\* Any answer clears the marks, one read before the query was marked included.
Loaded(e) ==
    /\ fetch[e] \in Snapshots
    /\ cache' = [cache EXCEPT ![e] = fetch[e]]
    /\ tab' = IF tab[e].open /\ cache[e] # fetch[e]
              THEN [tab EXCEPT ![e] = Synced(fetch[e])] ELSE tab
    /\ fetch' = [fetch EXCEPT ![e] = NoData]
    /\ marks' = [marks EXCEPT ![e] = {}]
    /\ UNCHANGED <<page, save, blind>>

\* The query and its retry fail: what was loaded stays, hidden.
NotLoaded(e) ==
    /\ fetch[e] # NoData
    /\ e \notin Steady
    /\ fetch' = [fetch EXCEPT ![e] = NoData]
    /\ marks' = [marks EXCEPT ![e] = @ \cup {"failed"}]
    /\ UNCHANGED <<page, tab, cache, save, blind>>

-----------------------------------------------------------------------------
(* The service. *)

GetMyBlocks(e) ==
    /\ fetch[e] = Asked
    /\ fetch' = [fetch EXCEPT ![e] = page]
    /\ UNCHANGED <<page, tab, cache, marks, save, blind>>

\* detectConcurrencyConflict.  (Mutant: one version of tolerance.)
TolerantConflict(version, base) == base # 0 /\ version > base + 1

DetectConflict(version, base) == base # 0 /\ version > base

\* saveBlocks, up to the comparison.
Check(s) ==
    /\ save[s].step = "sent"
    /\ save' = [save EXCEPT ![s].compared = page.version,
                   ![s].step = IF page.version # 0 /\ DetectConflict(page.version, save[s].base)
                               THEN "refused" ELSE "checked"]
    /\ UNCHANGED <<page, browser, blind>>

\* A save that overwrites what it was not compared with: another one was written
\* since its comparison, or it has no version to compare, its session having seen
\* no page.
Blind(s) == page.version > save[s].compared \/ (save[s].base = 0 /\ page.version > 0)

\* The upsert.  (Mutant: the answer is dated, the row is not.)
UpsertUndated(s) ==
    /\ save[s].step = "checked"
    /\ page' = [version |-> page.version, blocks |-> save[s].blocks]
    /\ save' = [save EXCEPT ![s].step = "stored", ![s].stored = page.version + 1]
    /\ blind' = (blind \/ Blind(s))
    /\ UNCHANGED browser

Upsert(s) ==
    /\ save[s].step = "checked"
    /\ page' = [version |-> page.version + 1, blocks |-> save[s].blocks]
    /\ save' = [save EXCEPT ![s].step = "stored", ![s].stored = page.version + 1]
    /\ blind' = (blind \/ Blind(s))
    /\ UNCHANGED browser

-----------------------------------------------------------------------------
System ==
    \/ \E e \in Editors : GetMyBlocks(e) \/ Loaded(e) \/ NotLoaded(e)
    \/ \E s \in Saves : Check(s) \/ Upsert(s) \/ Saved(s) \/ Conflict(s) \/ Fail(s) \/ Unheard(s)

Editor ==
    \E e \in Editors :
        \/ Open(e) \/ Leave(e) \/ ClickSave(e) \/ Reconnect(e)
        \/ \E x \in Edits : Edit(e, x)

Next == System \/ Editor

Spec == Init /\ [][Next]_vars

\* Requests are answered or fail, and their answers are handled; people owe nothing.
Fairness ==
    /\ \A e \in Editors : WF_vars(GetMyBlocks(e) \/ NotLoaded(e))
                          /\ WF_vars(Loaded(e) \/ NotLoaded(e))
    /\ \A s \in Saves : WF_vars(Check(s)) /\ WF_vars(Upsert(s))
                        /\ WF_vars(Saved(s) \/ Conflict(s)) /\ WF_vars(Unheard(s))

FairSpec == Spec /\ Fairness

-----------------------------------------------------------------------------
Issued == 0 .. page.version
Answer == [version : Issued, blocks : SUBSET Edits]

\* Types: every version that a browser, a request or an answer carries was issued
\* by the row.
TypeOK ==
    /\ page \in Snapshots
    /\ tab \in [Editors -> [open : BOOLEAN, blocks : SUBSET Edits, known : Issued]]
    /\ cache \in [Editors -> Answer \cup {NoData}]
    /\ fetch \in [Editors -> Answer \cup {NoData, Asked}]
    /\ marks \in [Editors -> SUBSET {"invalid", "failed"}]
    /\ save \in [Saves -> [step : SaveSteps, blocks : SUBSET Edits, base : Issued,
                           compared : Issued, stored : Issued, hears : Listeners]]
    /\ blind \in BOOLEAN

Others(e, blocks) == {x \in blocks : x[1] # e}

\* As long as no save was written over a version that it was not compared with, no
\* save undoes another session's: what the others had stored is in the page that
\* replaces it, because the session that saves had it before its eyes (edits only
\* add to the set a tab carries).  This is what the tests of the concurrency control
\* promise ("plutôt qu'écraser le travail d'autrui"); the comparison and the write
\* are two statements, and a first save is not compared, so a blind write may undo
\* anything, and the sessions that it confuses as well.
OthersEditsStay ==
    [][\A s \in Saves : save[s].step = "checked" /\ save'[s].step = "stored" /\ ~blind'
           => Others(s[1], page.blocks) \subseteq page'.blocks]_vars

\* A refusal heard by the tab that saved brings the page that refused it, or a later
\* one, to the session's browser, as its message announces, even if the session
\* leaves before the page comes or an older answer is on its way; unless the query
\* fails too.  (A refusal that comes after the visit, or after the mutation failed
\* on its own, is not heard by the tab.)
RefusedIsReloaded ==
    \A s \in Saves : \A v \in 1 .. (1 + Cardinality(Saves)) :
        (save[s].step = "refused" /\ save[s].hears = "tab" /\ page.version = v)
            ~> \/ cache[s[1]] # NoData /\ cache[s[1]].version >= v
               \/ "failed" \in marks[s[1]]
               \/ save[s].hears # "tab"
=============================================================================
