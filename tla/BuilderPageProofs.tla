-------------------------- MODULE BuilderPageProofs --------------------------
(* Proofs about the builder, for any sessions, edits and numbers of saves and  *)
(* in every interleaving: its types, and that no save undoes another session's *)
(* edits as long as none was written over a version that it was not compared   *)
(* with.                                                                       *)
EXTENDS BuilderPage, TLAPS

-----------------------------------------------------------------------------
(* Types.                                                                    *)

SaveType == [step : SaveSteps, blocks : SUBSET Edits, base : Issued,
             compared : Issued, stored : Issued, hears : Listeners]
TabType == [open : BOOLEAN, blocks : SUBSET Edits, known : Issued]

\* What a typed state has.
LEMMA Parts ==
    ASSUME TypeOK
    PROVE  /\ page.version \in Nat /\ page.blocks \in SUBSET Edits
           /\ page \in Answer
           /\ NoData \notin Snapshots /\ Asked \notin Snapshots /\ NoData # Asked
           /\ Answer \subseteq Snapshots
           /\ tab \in [Editors -> TabType]
           /\ save \in [Saves -> SaveType]
           /\ \A e \in Editors : cache[e] # NoData => cache[e] \in Answer
           /\ \A e \in Editors : fetch[e] \notin {NoData, Asked} => fetch[e] \in Answer
           /\ \A s \in Saves : s[1] \in Editors
           /\ marks \in [Editors -> SUBSET {"invalid", "failed"}] /\ blind \in BOOLEAN
  BY NoDataIsNoSnapshot DEF TypeOK, Snapshots, Answer, Issued, TabType, SaveType, Saves

LEMMA InitTyped == Init => TypeOK
<1> SUFFICES ASSUME Init PROVE TypeOK
  OBVIOUS
<1>1. page \in Snapshots /\ 0 \in Issued
  BY DEF Init, Snapshots, Issued
<1>2. Unsent \in [step : SaveSteps, blocks : SUBSET Edits, base : Issued, compared : Issued,
                 stored : Issued, hears : Listeners]
  BY <1>1 DEF Unsent, SaveSteps, Listeners
<1> QED
  BY <1>1, <1>2 DEF Init, TypeOK

\* What was issued stays so.
LEMMA StaysIssued ==
    ASSUME TypeOK, page' \in Snapshots, page'.version >= page.version,
           tab' \in [Editors -> TabType], cache' \in [Editors -> Answer \cup {NoData}],
           fetch' \in [Editors -> Answer \cup {NoData, Asked}],
           marks' \in [Editors -> SUBSET {"invalid", "failed"}], blind' \in BOOLEAN,
           save' \in [Saves -> [step : SaveSteps, blocks : SUBSET Edits, base : Issued,
                                compared : Issued, stored : Issued \cup {page'.version},
                                hears : Listeners]]
    PROVE  TypeOK'
<1>1. Issued \subseteq Issued' /\ page'.version \in Issued'
  BY DEF TypeOK, Issued, Snapshots
<1>2. Answer \subseteq Answer'
  BY <1>1 DEF Answer
<1>3. tab' \in [Editors -> [open : BOOLEAN, blocks : SUBSET Edits, known : Issued']]
  BY <1>1 DEF TabType
<1>4. save' \in [Saves -> [step : SaveSteps, blocks : SUBSET Edits, base : Issued',
                           compared : Issued', stored : Issued', hears : Listeners]]
  BY <1>1
<1>5. cache' \in [Editors -> Answer' \cup {NoData}]
  BY <1>2
<1>6. fetch' \in [Editors -> Answer' \cup {NoData, Asked}]
  BY <1>2
<1> QED
  BY <1>3, <1>4, <1>5, <1>6 DEF TypeOK

\* A step that issues no version.
LEMMA SameRow ==
    ASSUME TypeOK, page' = page, tab' \in [Editors -> TabType],
           cache' \in [Editors -> Answer \cup {NoData}],
           fetch' \in [Editors -> Answer \cup {NoData, Asked}], save' \in [Saves -> SaveType],
           marks' \in [Editors -> SUBSET {"invalid", "failed"}], blind' \in BOOLEAN
    PROVE  TypeOK'
  BY DEF TypeOK, TabType, SaveType, Issued, Answer

LEMMA StepTyped ==
    ASSUME TypeOK, [Next]_vars PROVE TypeOK'
<1> USE Parts
<1>0. /\ page \in Snapshots /\ cache \in [Editors -> Answer \cup {NoData}]
      /\ fetch \in [Editors -> Answer \cup {NoData, Asked}] /\ 0 \in Issued
      /\ Unsent \in SaveType /\ Done \in SaveType
  BY DEF TypeOK, Issued, Unsent, Done, SaveType, SaveSteps, Listeners
<1>1. ASSUME NEW e \in Editors, Open(e) PROVE TypeOK'
  <2>1. /\ Blank \in TabType
        /\ cache[e] # NoData => Synced(cache[e]) \in TabType
    BY <1>0 DEF Blank, Synced, TabType, Answer
  <2> QED
    BY <1>0, <1>1, <2>1, SameRow DEF Open
<1>2. ASSUME NEW e \in Editors, Leave(e) PROVE TypeOK'
  <2>1. [open |-> FALSE, blocks |-> {}, known |-> 0] \in TabType
    BY <1>0 DEF TabType
  <2>2. \A s \in Saves : [save[s] EXCEPT !.hears = "cache"] \in SaveType
    BY DEF SaveType, Listeners
  <2> QED
    BY <1>0, <1>2, <2>1, <2>2, SameRow DEF Leave
<1>3. ASSUME NEW e \in Editors, NEW x \in Edits, Edit(e, x) PROVE TypeOK'
  <2>1. tab' \in [Editors -> TabType]
    BY <1>3 DEF Edit, TabType
  <2> QED
    BY <1>0, <1>3, <2>1, SameRow DEF Edit
<1>4. ASSUME NEW e \in Editors, ClickSave(e) PROVE TypeOK'
  <2>1. [step |-> "sent", blocks |-> tab[e].blocks, base |-> tab[e].known, compared |-> 0,
         stored |-> 0, hears |-> "tab"] \in SaveType
    BY <1>0 DEF TabType, SaveType, SaveSteps, Listeners
  <2> QED
    BY <1>0, <1>4, <2>1, SameRow DEF ClickSave, NextSave, browser
<1>5. ASSUME NEW s \in Saves, Saved(s) \/ Conflict(s) \/ Unheard(s) PROVE TypeOK'
  <2>1. [tab EXCEPT ![s[1]].known = save[s].stored] \in [Editors -> TabType]
    BY DEF SaveType, TabType
  <2>2. tab' \in [Editors -> TabType]
    BY <1>5, <2>1 DEF Saved, Conflict, Unheard, browser
  <2> QED
    BY <1>0, <1>5, <2>2, SameRow DEF Saved, Conflict, Unheard, browser
<1>6. ASSUME NEW e \in Editors, Reconnect(e) \/ GetMyBlocks(e) \/ NotLoaded(e) PROVE TypeOK'
  BY <1>0, <1>6, SameRow DEF Reconnect, GetMyBlocks, NotLoaded
<1>7. ASSUME NEW e \in Editors, Loaded(e) PROVE TypeOK'
  <2>1. fetch[e] \in Answer
    BY <1>7 DEF Loaded
  <2>2. Synced(fetch[e]) \in TabType
    BY <2>1 DEF Synced, TabType, Answer
  <2> QED
    BY <1>0, <1>7, <2>1, <2>2, SameRow DEF Loaded
<1>8. ASSUME NEW s \in Saves, Check(s) \/ Fail(s) PROVE TypeOK'
  <2>1. page.version \in Issued
    BY DEF Issued
  <2>2. save' \in [Saves -> SaveType]
    BY <1>8, <2>1 DEF Check, Fail, SaveType, SaveSteps, Listeners
  <2> QED
    BY <1>0, <1>8, <2>2, SameRow DEF Check, Fail, browser
<1>9. ASSUME NEW s \in Saves, Upsert(s) PROVE TypeOK'
  <2>1. /\ page' = [version |-> page.version + 1, blocks |-> save[s].blocks]
        /\ UNCHANGED <<tab, cache, fetch, marks>> /\ blind' \in BOOLEAN
        /\ save' = [save EXCEPT ![s].step = "stored", ![s].stored = page.version + 1]
    BY <1>9 DEF Upsert, browser
  <2>2. page' \in Snapshots /\ page'.version = page.version + 1
    BY <2>1 DEF Snapshots, SaveType
  <2>3. save' \in [Saves -> [step : SaveSteps, blocks : SUBSET Edits, base : Issued,
                             compared : Issued, stored : Issued \cup {page.version + 1},
                             hears : Listeners]]
    <3> DEFINE Wider == [step : SaveSteps, blocks : SUBSET Edits, base : Issued,
                         compared : Issued, stored : Issued \cup {page.version + 1},
                         hears : Listeners]
    <3>1. [save[s] EXCEPT !.step = "stored", !.stored = page.version + 1] \in Wider
      BY DEF SaveType, SaveSteps
    <3>2. save \in [Saves -> Wider]
      BY DEF SaveType
    <3>3. save' = [save EXCEPT ![s] = [save[s] EXCEPT !.step = "stored",
                                                      !.stored = page.version + 1]]
      BY <2>1
    <3> HIDE DEF Wider
    <3>4. save' \in [Saves -> Wider]
      BY <3>1, <3>2, <3>3
    <3> QED
      BY <3>4 DEF Wider
  <2> QED
    BY <1>0, <2>1, <2>2, <2>3, StaysIssued
<1>10. CASE UNCHANGED vars
  BY <1>0, <1>10, SameRow DEF vars
<1> QED
  BY <1>1, <1>2, <1>3, <1>4, <1>5, <1>6, <1>7, <1>8, <1>9, <1>10 DEF Next, System, Editor

\* Every version that a browser, a request or an answer carries was issued by the
\* row, whatever overlaps.
THEOREM BuilderIsTyped == Spec => []TypeOK
  BY InitTyped, StepTyped, PTL DEF Spec

-----------------------------------------------------------------------------
(* No save undoes another session's edits.                                   *)

Answered(e) == fetch[e] \notin {NoData, Asked}

\* What the others have in blocks is what they have in the page.
Same(e, blocks) == Others(e, blocks) = Others(e, page.blocks)

\* A page to save, though a failed query may hide it.
Held(e) == tab[e].open /\ cache[e] # NoData

\* A save that the component still waits for was clicked in the visit that lasts.
Visits == \A s \in Saves : Waits(s) => Held(s[1])

\* A save about to be written has the version that it was compared with, unless it
\* has none.
Compared ==
    \A s \in Saves : save[s].step = "checked" /\ save[s].base > 0
                        => save[s].base = save[s].compared

\* A session whose next save would not be refused, or whose last one was not.
ToSave(s) == save[s].step \in {"sent", "checked"} /\ save[s].base = page.version
ToLearn(s) == save[s].step = "stored" /\ save[s].stored = page.version

Current(e) ==
    \/ Held(e) /\ tab[e].known = page.version
    \/ \E s \in Saves : s[1] = e /\ save[s].hears = "tab" /\ (ToSave(s) \/ ToLearn(s))

\* What the browser holds of the page: a copy, if it is dated of today; an answer
\* that comes late to a current session is older than its own saves only.
Copies ==
    \A e \in Editors :
      /\ Answered(e) =>
            /\ fetch[e].version = page.version => fetch[e].blocks = page.blocks
            /\ Current(e) => Same(e, fetch[e].blocks)
      /\ cache[e] # NoData =>
            /\ cache[e].version = page.version => cache[e].blocks = page.blocks
            /\ Answered(e) => cache[e].version <= fetch[e].version

\* What a current session works on has the others' edits.
Works ==
    /\ \A e \in Editors : Current(e) => Same(e, tab[e].blocks)
    /\ \A s \in Saves : ToSave(s) => Same(s[1], save[s].blocks)

Core == Visits /\ Compared /\ Copies /\ Works
Inv == blind \/ Core

LEMMA InitInv == ASSUME Init PROVE Core
  BY DEF Init, Core, Visits, Compared, Copies, Works, Current, Answered, Held, Waits, InFlight,
     ToSave, ToLearn, Unsent

LEMMA OpenInv == ASSUME TypeOK, Core, NEW e \in Editors, Open(e) PROVE Core'
<1> USE Parts DEF Answered, Held, Waits, ToSave, ToLearn
<1>1. /\ ~tab[e].open /\ UNCHANGED <<page, cache, save>>
      /\ \A f \in Editors \ {e} : tab'[f] = tab[f]
      /\ cache[e] # NoData => tab'[e] = Synced(cache[e])
      /\ \A f \in Editors : Answered(f)' => Answered(f) /\ fetch'[f] = fetch[f]
      /\ \A f \in Editors : tab[f].open => tab'[f].open
  BY DEF Open, TypeOK
<1>2. \A f \in Editors :
        Current(f)' => \/ f # e /\ Current(f)
                       \/ f = e /\ cache[e] # NoData /\ cache[e].version = page.version
                                /\ cache[e].blocks = page.blocks
  BY <1>1 DEF Current, Core, Visits, InFlight, Copies, Synced
<1>3. Visits'
  BY <1>1 DEF Core, Visits
<1>4. Compared'
  BY <1>1 DEF Core, Compared
<1>5. Copies'
  <2>1. ASSUME Answered(e), cache[e] # NoData, cache[e].version = page.version
        PROVE  fetch[e].blocks = page.blocks
    <3>1. fetch[e].version \in Nat /\ fetch[e].version <= page.version
      BY <2>1 DEF Answer, Issued
    <3> QED
      BY <2>1, <3>1 DEF Core, Copies
  <2> QED
    BY <1>1, <1>2, <2>1 DEF Core, Copies, Same
<1>6. Works'
  BY <1>1, <1>2 DEF Core, Works, Same, Synced
<1> QED
  BY <1>3, <1>4, <1>5, <1>6 DEF Core

LEMMA LeaveInv == ASSUME TypeOK, Core, NEW e \in Editors, Leave(e) PROVE Core'
<1> USE Parts DEF Leave, Answered, Held, Waits, ToSave, ToLearn
<1>0. \A s \in Saves : /\ save'[s].step = save[s].step /\ save'[s].base = save[s].base
                       /\ save'[s].stored = save[s].stored
                       /\ save'[s].compared = save[s].compared
                       /\ save'[s].blocks = save[s].blocks
                       /\ save'[s].hears = "tab" => save[s].hears = "tab"
                       /\ s[1] = e /\ save[s].step \in InFlight => save'[s].hears # "tab"
  BY DEF SaveType
<1>1. Visits'
  BY <1>0 DEF Core, Visits
<1>2. Compared'
  BY <1>0 DEF Core, Compared
<1>3. Copies'
  BY <1>0 DEF Core, Copies, Current, Same, Others
<1>4. Works'
  BY <1>0 DEF Core, Works, Current, Same, Others, InFlight
<1> QED
  BY <1>1, <1>2, <1>3, <1>4 DEF Core

LEMMA EditInv == ASSUME TypeOK, Core, NEW e \in Editors, NEW x \in Edits, Edit(e, x) PROVE Core'
<1> USE Parts DEF Edit, Answered, Held, Waits, ToSave, ToLearn
<1>0. \A f \in Editors : /\ tab'[f].open = tab[f].open /\ tab'[f].known = tab[f].known
                         /\ Others(f, tab'[f].blocks) = Others(f, tab[f].blocks)
  BY DEF TabType, Others
<1>1. Visits'
  BY <1>0 DEF Core, Visits
<1>2. Compared'
  BY DEF Core, Compared
<1>3. Copies'
  BY <1>0 DEF Core, Copies, Current, Same, Others
<1>4. Works'
  BY <1>0 DEF Core, Works, Current, Same, Others
<1> QED
  BY <1>1, <1>2, <1>3, <1>4 DEF Core

LEMMA ClickInv == ASSUME TypeOK, Core, NEW e \in Editors, ClickSave(e) PROVE Core'
<1> USE Parts DEF ClickSave, Answered, Held, Waits, ToSave, ToLearn, browser
<1>0. PICK s \in Saves :
        /\ s[1] = e /\ \A r \in Saves \ {s} : save'[r] = save[r]
        /\ save'[s] = [step |-> "sent", blocks |-> tab[e].blocks, base |-> tab[e].known,
                       compared |-> 0, stored |-> 0, hears |-> "tab"]
  BY DEF NextSave
<1>a. /\ save'[s].step = "sent" /\ save'[s].blocks = tab[e].blocks
      /\ save'[s].base = tab[e].known /\ save'[s].hears = "tab" /\ Held(e)
  BY <1>0 DEF Shown
<1>1. Visits'
  BY <1>0, <1>a DEF Core, Visits
<1>2. Compared'
  BY <1>0, <1>a DEF Core, Compared
<1>3. Copies'
  BY <1>0, <1>a DEF Core, Copies, Current, Same, Others
<1>4. Works'
  BY <1>0, <1>a DEF Core, Works, Current, Same, Others
<1> QED
  BY <1>1, <1>2, <1>3, <1>4 DEF Core

\* The ends of a save, heard or not.
LEMMA SavedInv ==
    ASSUME TypeOK, Core, NEW s \in Saves, Saved(s) \/ Conflict(s) \/ Unheard(s) \/ Fail(s)
    PROVE  Core'
<1> USE Parts DEF Answered, Held, Waits, ToSave, ToLearn
<1>0. /\ \A r \in Saves \ {s} : save'[r] = save[r]
      /\ \/ save'[s].step = "done"
         \/ save'[s].hears = "none" /\ \A f \in {"step", "base", "blocks", "stored", "compared"} :
                                         save'[s][f] = save[s][f]
      /\ UNCHANGED <<page, cache>>
      /\ \A f \in Editors : Answered(f)' => Answered(f) /\ fetch'[f] = fetch[f]
      /\ \A f \in Editors :
           /\ tab'[f].open = tab[f].open /\ tab'[f].blocks = tab[f].blocks
           /\ \/ tab'[f].known = tab[f].known
              \/ /\ f = s[1] /\ save[s].step = "stored" /\ save[s].hears = "tab"
                 /\ tab'[f].known = save[s].stored
  <2>0. Done.step = "done"
    BY DEF Done, Unsent
  <2>1. CASE Saved(s)
    BY <2>0, <2>1 DEF Saved, TabType
  <2>2. CASE Unheard(s)
    BY <2>0, <2>2 DEF Unheard, browser
  <2>3. CASE Conflict(s)
    BY <2>0, <2>3 DEF Conflict, TypeOK
  <2>4. CASE Fail(s)
    BY <2>4 DEF Fail, browser, SaveType
  <2> QED
    BY <2>1, <2>2, <2>3, <2>4
<1>1. Visits'
  BY <1>0 DEF Core, Visits, InFlight
<1>2. Compared'
  BY <1>0 DEF Core, Compared
<1>3. Copies'
  BY <1>0 DEF Core, Copies, Current, Same, Others
<1>4. Works'
  BY <1>0 DEF Core, Works, Current, Same, Others
<1> QED
  BY <1>1, <1>2, <1>3, <1>4 DEF Core

LEMMA QueryInv ==
    ASSUME TypeOK, Core, NEW e \in Editors, Reconnect(e) \/ GetMyBlocks(e) \/ NotLoaded(e)
    PROVE  Core'
<1> USE Parts DEF Answered, Held, Waits, ToSave, ToLearn
<1>0. /\ UNCHANGED <<page, tab, cache, save>>
      /\ \A f \in Editors : Answered(f)' => \/ Answered(f) /\ fetch'[f] = fetch[f]
                                            \/ fetch'[f] = page
  BY DEF Reconnect, GetMyBlocks, NotLoaded, TypeOK
<1>1. Visits'
  BY <1>0 DEF Core, Visits
<1>2. Compared'
  BY <1>0 DEF Core, Compared
<1>3. Copies'
  <2>1. \A f \in Editors : cache[f] # NoData => cache[f].version <= page.version
    BY DEF Answer, Issued
  <2> QED
    BY <1>0, <2>1 DEF Core, Copies, Current, Same
<1>4. Works'
  BY <1>0 DEF Core, Works, Current, Same
<1> QED
  BY <1>1, <1>2, <1>3, <1>4 DEF Core

LEMMA LoadedInv == ASSUME TypeOK, Core, NEW e \in Editors, Loaded(e) PROVE Core'
<1> USE Parts DEF Answered, Held, Waits, ToSave, ToLearn
<1>0. /\ fetch[e] \in Answer /\ cache' = [cache EXCEPT ![e] = fetch[e]]
      /\ fetch' = [fetch EXCEPT ![e] = NoData] /\ UNCHANGED <<page, save>>
      /\ \A f \in Editors \ {e} : tab'[f] = tab[f]
      /\ \/ tab'[e] = tab[e] /\ (tab[e].open => cache[e] # NoData)
         \/ tab[e].open /\ tab'[e] = Synced(fetch[e])
  BY DEF Loaded, TypeOK
<1>1. Visits'
  BY <1>0 DEF Core, Visits, Synced, TypeOK
<1>2. Compared'
  BY <1>0 DEF Core, Compared
<1>3. Copies'
  BY <1>0 DEF Core, Copies, Current, Same, Others, TypeOK
<1>4. Works'
  BY <1>0 DEF Core, Works, Copies, Current, Same, Others, Synced, TypeOK
<1> QED
  BY <1>1, <1>2, <1>3, <1>4 DEF Core

LEMMA CheckInv == ASSUME TypeOK, Core, NEW s \in Saves, Check(s) PROVE Core'
<1> USE Parts DEF Answered, Held, Waits, ToSave, ToLearn
<1>0. /\ save[s].step = "sent"
      /\ UNCHANGED <<page, tab, cache, fetch>>
      /\ \A r \in Saves \ {s} : save'[r] = save[r]
      /\ save'[s].base = save[s].base /\ save'[s].blocks = save[s].blocks
      /\ save'[s].hears = save[s].hears
      /\ save'[s].step \in {"checked", "refused"}
      /\ save'[s].step = "checked" /\ save[s].base > 0 => save[s].base = save'[s].compared
  <2>1. save[s].base \in Nat /\ save[s].base <= page.version
    BY DEF SaveType, Issued
  <2>2. save'[s].step = "checked" /\ save[s].base > 0 => save[s].base = page.version
    BY <2>1 DEF Check, DetectConflict, SaveType
  <2> QED
    BY <2>1, <2>2 DEF Check, SaveType, browser
<1>1. Visits'
  BY <1>0 DEF Core, Visits, InFlight
<1>2. Compared'
  BY <1>0 DEF Core, Compared
<1>3. Copies'
  BY <1>0 DEF Core, Copies, Current, Same, Others
<1>4. Works'
  BY <1>0 DEF Core, Works, Current, Same, Others
<1> QED
  BY <1>1, <1>2, <1>3, <1>4 DEF Core

\* A save that is not blind replaces the version of its own tab.
LEMMA NotBlind ==
    ASSUME TypeOK, Core, NEW s \in Saves, Upsert(s), ~Blind(s)
    PROVE  ToSave(s) /\ Same(s[1], save[s].blocks)
<1>1. save[s].base \in Nat /\ save[s].compared \in Nat /\ save[s].compared <= page.version
      /\ page.version \in Nat
  BY Parts DEF SaveType, Issued
<1>2. save[s].step = "checked" /\ save[s].base = page.version
  BY <1>1 DEF Upsert, Blind, Core, Compared
<1> QED
  BY <1>2 DEF ToSave, Core, Works

LEMMA UpsertInv ==
    ASSUME TypeOK, Core, NEW s \in Saves, Upsert(s), ~Blind(s) PROVE Core'
<1> USE Parts DEF Answered, Held, Waits, ToSave, ToLearn
<1>0. /\ save[s].step = "checked" /\ save[s].base = page.version
      /\ page'.version = page.version + 1 /\ page'.blocks = save[s].blocks
      /\ UNCHANGED <<tab, cache, fetch>>
      /\ \A r \in Saves \ {s} : save'[r] = save[r]
      /\ save'[s].step = "stored" /\ save'[s].stored = page.version + 1
      /\ save'[s].hears = save[s].hears
  BY NotBlind DEF Upsert, SaveType, browser
<1>1. /\ \A r \in Saves : save[r].base # page'.version /\ save[r].stored # page'.version
      /\ \A e \in Editors : /\ tab[e].known # page'.version
                            /\ cache[e] # NoData => cache[e].version # page'.version
                            /\ Answered(e) => fetch[e].version # page'.version
  BY <1>0 DEF SaveType, TabType, Answer, Issued
<1>2. Same(s[1], save[s].blocks)
  BY NotBlind
<1>3. ASSUME NEW e \in Editors, Current(e)' PROVE e = s[1] /\ Current(e)
  <2>1. tab'[e].known # page'.version
    BY <1>0, <1>1
  <2>2. PICK r \in Saves : /\ r[1] = e /\ save'[r].hears = "tab"
                           /\ ToSave(r)' \/ ToLearn(r)'
    BY <1>3, <2>1 DEF Current
  <2>3. r = s
    BY <1>0, <1>1, <2>2
  <2> QED
    BY <1>0, <2>2, <2>3 DEF Current
<1>4. Visits'
  BY <1>0 DEF Core, Visits, InFlight
<1>5. Compared'
  BY <1>0 DEF Core, Compared
<1>6. Copies'
  <2>1. ASSUME NEW e \in Editors, Answered(e)
        PROVE  Current(e)' => Others(e, fetch[e].blocks) = Others(e, page'.blocks)
    BY <1>0, <1>2, <1>3, <2>1 DEF Core, Copies, Same
  <2>2. ASSUME NEW e \in Editors
        PROVE  /\ cache'[e] = cache[e] /\ fetch'[e] = fetch[e]
               /\ Answered(e) => fetch[e].version # page'.version
               /\ cache[e] # NoData => cache[e].version # page'.version
    BY <1>0, <1>1
  <2> QED
    BY <2>1, <2>2 DEF Core, Copies, Same
<1>7. Works'
  BY <1>0, <1>1, <1>2, <1>3 DEF Core, Works, Same
<1> QED
  BY <1>4, <1>5, <1>6, <1>7 DEF Core

\* Only Upsert writes a save or the history.
LEMMA OnlyUpsert ==
    ASSUME TypeOK, [Next]_vars, \A s \in Saves : ~Upsert(s)
    PROVE  /\ blind' = blind
           /\ \A s \in Saves : save[s].step = "checked" => save'[s].step # "stored"
<1> USE Parts
<1>1. ASSUME NEW e \in Editors,
             \/ Open(e) \/ Leave(e) \/ ClickSave(e) \/ Reconnect(e) \/ GetMyBlocks(e)
             \/ Loaded(e) \/ NotLoaded(e) \/ \E x \in Edits : Edit(e, x)
      PROVE  /\ blind' = blind
             /\ \A s \in Saves : save[s].step = "checked" => save'[s].step # "stored"
  <2>1. CASE ClickSave(e)
    BY <2>1 DEF ClickSave, SaveType, Unsent
  <2>2. CASE Leave(e)
    BY <2>2 DEF Leave, SaveType
  <2> QED
    BY <1>1, <2>1, <2>2 DEF Open, Reconnect, GetMyBlocks, Loaded, NotLoaded, Edit
<1>2. ASSUME NEW r \in Saves, Check(r) \/ Saved(r) \/ Conflict(r) \/ Fail(r) \/ Unheard(r)
      PROVE  /\ blind' = blind
             /\ \A s \in Saves : save[s].step = "checked" => save'[s].step # "stored"
  BY <1>2 DEF Check, Saved, Conflict, Fail, Unheard, Done, Unsent, SaveType
<1> QED
  BY <1>1, <1>2 DEF Next, System, Editor, vars

LEMMA StepInv ==
    ASSUME TypeOK, Inv, [Next]_vars PROVE Inv'
<1> SUFFICES ASSUME ~blind' PROVE Core'
  BY DEF Inv
<1>1. ASSUME NEW s \in Saves, Upsert(s) PROVE Core'
  <2>1. ~blind /\ ~Blind(s)
    BY <1>1, Parts DEF Upsert
  <2> QED
    BY <1>1, <2>1, UpsertInv DEF Inv
<1>2. ASSUME \A s \in Saves : ~Upsert(s) PROVE Core'
  <2>1. Core
    BY <1>2, OnlyUpsert DEF Inv
  <2>2. CASE UNCHANGED vars
    BY <2>1, <2>2 DEF vars, Core, Visits, Compared, Copies, Works, Current, Answered, Held,
       Waits, Same, ToSave, ToLearn
  <2>3. CASE Next
    BY <1>2, <2>1, <2>3, OpenInv, LeaveInv, EditInv, ClickInv, SavedInv, QueryInv, LoadedInv,
       CheckInv DEF Next, System, Editor
  <2> QED
    BY <2>2, <2>3
<1> QED
  BY <1>1, <1>2

\* No save undoes another session's edits, for any number of sessions, edits and
\* saves, in every interleaving, as long as no save was written over a version that
\* it was not compared with.
THEOREM NoEditIsLost == Spec => OthersEditsStay
<1>1. Init => Inv
  BY InitInv DEF Inv
<1>2. TypeOK /\ Inv /\ [Next]_vars => Inv'
  BY StepInv
<1>3. TypeOK /\ Inv /\ [Next]_vars =>
        [\A s \in Saves : save[s].step = "checked" /\ save'[s].step = "stored" /\ ~blind'
           => Others(s[1], page.blocks) \subseteq page'.blocks]_vars
  <2> SUFFICES ASSUME TypeOK, Inv, [Next]_vars, NEW s \in Saves, ~blind',
                      save[s].step = "checked", save'[s].step = "stored"
               PROVE  Others(s[1], page.blocks) \subseteq page'.blocks
    OBVIOUS
  <2>1. PICK r \in Saves : Upsert(r)
    BY OnlyUpsert
  <2>2. r = s
    BY <2>1, Parts DEF Upsert, SaveType
  <2>3. Core /\ ~Blind(s)
    BY <2>1, <2>2, Parts DEF Upsert, Inv
  <2>4. page'.blocks = save[s].blocks /\ Same(s[1], save[s].blocks)
    BY <2>1, <2>2, <2>3, NotBlind DEF Upsert
  <2> QED
    BY <2>4 DEF Same, Others
<1> QED
  BY <1>1, <1>2, <1>3, BuilderIsTyped, PTL DEF Spec, OthersEditsStay
=============================================================================
