------------------------------- MODULE ScanGate -------------------------------
(***************************************************************************)
(* The gate of an event: agents scan QR codes, and one conditional write   *)
(* admits a ticket once, or once a day under PASS_ALL_DAYS, while the      *)
(* organiser edits the programme and the accounts of the agents.           *)
(***************************************************************************)
EXTENDS EventProgramme

CONSTANTS
    Agents,    \* rows of scanners
    Scans,     \* bound: calls of validateScan
    LastDate,  \* bound: the last date reached
    Troubles   \* bound: how often a process dies, a log is lost, a payment is reversed, the
               \* code shown is not one of this event, its status or an agent's account changes

ASSUME TroublesIsNat == Troubles \in Nat

\* What verifyQrToken says of a code; a valid one names an item, of this event
\* or of another one.
Codes == {"valid", "foreign", "EXPIRED", "INVALID"}

Results == {"VALID", "ALREADY_USED", "EXPIRED", "INVALID", "EVENT_MISMATCH", "WRONG_DAY"}
ASSUME NullIsNoResult == Null \notin Results \cup Items \cup Agents

Accounts      == {"active", "inactive", "gone"}
OrderStatuses == {"PENDING", "PAID", "FAILED"}

ScanSteps == {"idle", "reading", "mark", "enter", "log", "answered", "failed"}

VARIABLES
    today,      \* the civil date in the event's time zone
    published,  \* events.status = PUBLISHED
    order,      \* orders.status, of the order of each item
    isScanned,  \* order_items.isScanned
    dayScans,   \* table ticket_day_scans, unique on (item, day)
    scanner,    \* of each agent: its row's isActive, or no row
    logged,     \* scans with a row in scanner_logs, each naming its agent
    removing,   \* agents whose removal has found no log
    rowGone,    \* scans whose day has lost its row since they decided, or entered
    scan,       \* progress of each validateScan, and what it has read
    trouble     \* how many of the Troubles have happened

gateVars == <<today, published, order, isScanned, dayScans, scanner, logged, removing, rowGone, scan,
              trouble>>
vars == <<programmeVars, gateVars>>

ScanCalls ==
    [step : ScanSteps, agent : Agents \cup {Null}, item : Items \cup {Null},
     code : Codes, unread : SUBSET {"scanner", "item"}, account : Accounts,
     used : BOOLEAN, order : OrderStatuses, day : Nat \cup {Null}, result : Results \cup {Null}]

NoScan == [step |-> "idle", agent |-> Null, item |-> Null, code |-> "INVALID",
           unread |-> {}, account |-> "gone", used |-> FALSE, order |-> "PENDING",
           day |-> Null, result |-> Null]

Init ==
    /\ ProgrammeInit
    /\ today \in Dates
    /\ published = TRUE
    /\ order = [i \in Items |-> "PENDING"]
    /\ isScanned = {}
    /\ dayScans = {}
    /\ scanner = [a \in Agents |-> "active"]
    /\ logged = {}
    /\ removing = {}
    /\ rowGone = {}
    /\ scan = [s \in Scans |-> NoScan]
    /\ trouble = 0

\* Only a bounded number of the Troubles happens.
Happens == trouble < Troubles /\ trouble' = trouble + 1

-----------------------------------------------------------------------------
(* validateScan.                                                           *)

\* The code is verified first; the item is read only if it is authentic.  Codes
\* are signed when an order is paid.
StartScan(s, a, i, c) ==
    /\ scan[s].step = "idle"
    /\ scanner[a] # "gone"
    /\ order[i] # "PENDING"
    /\ IF c = "valid" THEN UNCHANGED trouble ELSE Happens
    /\ scan' = [scan EXCEPT ![s] = [NoScan EXCEPT
         !.step = "reading", !.agent = a, !.item = i, !.code = c,
         !.unread = IF c \in {"valid", "foreign"} THEN {"scanner", "item"} ELSE {"scanner"}]]
    /\ UNCHANGED <<programmeVars, today, published, order, isScanned, dayScans,
                   scanner, logged, removing, rowGone>>

\* Two queries sent together: each is answered when it is.
ReadScanner(s) ==
    /\ scan[s].step = "reading"
    /\ "scanner" \in scan[s].unread
    /\ scan' = [scan EXCEPT ![s].unread = @ \ {"scanner"},
                            ![s].account = scanner[scan[s].agent]]
    /\ UNCHANGED <<programmeVars, today, published, order, isScanned, dayScans,
                   scanner, logged, removing, rowGone, trouble>>

ReadItem(s) ==
    /\ scan[s].step = "reading"
    /\ "item" \in scan[s].unread
    /\ scan' = [scan EXCEPT ![s].unread = @ \ {"item"},
                            ![s].used = scan[s].item \in isScanned,
                            ![s].order = order[scan[s].item]]
    /\ UNCHANGED <<programmeVars, today, published, order, isScanned, dayScans,
                   scanner, logged, removing, rowGone, trouble>>

\* A ticket of another day than the one it is bound to, or a pass on a day the
\* event does not declare.  (A ticket read earlier gives the same answer: it
\* loses its day only when the day's row goes.)
WrongDay(i) ==
    \/ policy = "PER_DAY" /\ ~(today \in days /\ boundDay[itemTicket[i]] = today)
    \/ policy = "PASS_ALL_DAYS" /\ today \notin days

\* decideScan, in its order; a code that is not authentic carries its own result.
Decision(s) ==
    LET c == scan[s] IN
    IF      c.code \in {"EXPIRED", "INVALID"} THEN c.code
    ELSE IF c.account # "active"              THEN "INVALID"
    ELSE IF c.code = "foreign"                THEN "EVENT_MISMATCH"
    ELSE IF ~published                        THEN "EXPIRED"
    ELSE IF c.used                            THEN "ALREADY_USED"
    ELSE IF c.order # "PAID"                  THEN "INVALID"
    ELSE IF WrongDay(c.item)                  THEN "WRONG_DAY"
    ELSE "VALID"

\* The event is read and the decision taken.
Decide(s) ==
    /\ scan[s].step = "reading"
    /\ scan[s].unread = {}
    /\ LET admits == Decision(s) = "VALID"
           pass   == policy = "PASS_ALL_DAYS"
       IN  scan' = [scan EXCEPT
             ![s].result = Decision(s),
             ![s].day = IF admits /\ pass THEN today ELSE Null,
             ![s].step = IF ~admits THEN "log" ELSE IF pass THEN "enter" ELSE "mark"]
    /\ UNCHANGED <<programmeVars, today, published, order, isScanned, dayScans,
                   scanner, logged, removing, rowGone, trouble>>

\* The conditional update: the loser of a race is told ALREADY_USED.
\* (Mutant: the update has no condition.)
MarkUnguarded(s) ==
    /\ scan[s].step = "mark"
    /\ isScanned' = isScanned \cup {scan[s].item}
    /\ scan' = [scan EXCEPT ![s].step = "log"]
    /\ UNCHANGED <<programmeVars, today, published, order, dayScans,
                   scanner, logged, removing, rowGone, trouble>>

Mark(s) ==
    /\ scan[s].step = "mark"
    /\ isScanned' = isScanned \cup {scan[s].item}
    /\ scan' = [scan EXCEPT
         ![s].step = "log",
         ![s].result = IF scan[s].item \in isScanned THEN "ALREADY_USED" ELSE @]
    /\ UNCHANGED <<programmeVars, today, published, order, dayScans,
                   scanner, logged, removing, rowGone, trouble>>

\* The unique index on (item, day) decides.  A day removed meanwhile makes the
\* insert throw, even if its date was added again: that is another row.
\* (Mutant OncePerPass: the index is on the item.)
OncePerPass(s) == \E x \in dayScans : x[1] = scan[s].item

EnteredToday(s) == <<scan[s].item, scan[s].day>> \in dayScans

Enter(s) ==
    /\ scan[s].step = "enter"
    /\ IF s \in rowGone
       THEN /\ scan' = [scan EXCEPT ![s].step = "failed", ![s].result = Null]
            /\ UNCHANGED dayScans
       ELSE IF EnteredToday(s)
       THEN /\ scan' = [scan EXCEPT ![s].step = "log", ![s].result = "ALREADY_USED"]
            /\ UNCHANGED dayScans
       ELSE /\ scan' = [scan EXCEPT ![s].step = "log"]
            /\ dayScans' = dayScans \cup {<<scan[s].item, scan[s].day>>}
    /\ UNCHANGED <<programmeVars, today, published, order, isScanned,
                   scanner, logged, removing, rowGone, trouble>>

\* recordScan, then the answer.  A failed insert is only logged, and so is the
\* foreign key of an agent removed meanwhile.
RecordScan(s) ==
    /\ scan[s].step = "log"
    /\ \/ /\ scanner[scan[s].agent] # "gone"
          /\ logged' = logged \cup {s}
          /\ UNCHANGED trouble
       \/ /\ IF scanner[scan[s].agent] = "gone" THEN UNCHANGED trouble ELSE Happens
          /\ UNCHANGED logged
    /\ scan' = [scan EXCEPT ![s].step = "answered"]
    /\ UNCHANGED <<programmeVars, today, published, order, isScanned, dayScans,
                   scanner, removing, rowGone>>

\* The process dies: the agent gets no answer.
LoseScan(s) ==
    /\ Happens
    /\ scan[s].step \in {"reading", "mark", "enter", "log"}
    /\ scan' = [scan EXCEPT
         ![s].step = "failed",
         ![s].result = IF scan[s].step = "log" THEN @ ELSE Null]
    /\ UNCHANGED <<programmeVars, today, published, order, isScanned, dayScans,
                   scanner, logged, removing, rowGone>>

-----------------------------------------------------------------------------
(* The rest of the system, as the gate sees it.                            *)

\* The deletion of a day deletes the entries of that day (ON DELETE CASCADE).
\* (Mutant: they stay.)
ReplaceWithoutCascade(u) ==
    /\ ReplaceDays(u)
    /\ UNCHANGED <<today, published, order, isScanned, dayScans, scanner, logged,
                   removing, rowGone, scan, trouble>>

ReplaceDaysOfGate(u) ==
    /\ ReplaceDays(u)
    /\ dayScans' = {x \in dayScans : x[2] \in days'}
    /\ rowGone' = rowGone \cup
         {s \in Scans : scan[s].day # Null /\ scan[s].day \notin days'}
    /\ UNCHANGED <<today, published, order, isScanned, scanner, logged, removing, scan, trouble>>

\* finalizeOrderPaid; then, only for an attempt that overlaps it,
\* finalizeOrderFailed.
SettleOrder(i) ==
    /\ Sold(i)
    /\ \/ order[i] = "PENDING" /\ order' = [order EXCEPT ![i] = "PAID"] /\ UNCHANGED trouble
       \/ Happens /\ order[i] = "PAID" /\ order' = [order EXCEPT ![i] = "FAILED"]
    /\ UNCHANGED <<programmeVars, today, published, isScanned, dayScans,
                   scanner, logged, removing, rowGone, scan>>

SetStatus ==
    /\ Happens
    /\ published' = ~published
    /\ UNCHANGED <<programmeVars, today, order, isScanned, dayScans,
                   scanner, logged, removing, rowGone, scan>>

SetActive(a) ==
    /\ Happens
    /\ scanner[a] # "gone"
    /\ \E state \in {"active", "inactive"} :
         scanner' = [scanner EXCEPT ![a] = state]
    /\ UNCHANGED <<programmeVars, today, published, order, isScanned, dayScans,
                   logged, removing, rowGone, scan>>

LogsOf(a) == {s \in logged : scan[s].agent = a}

\* remove: an agent with a log is refused,
CountLogs(a) ==
    /\ Happens
    /\ scanner[a] # "gone"
    /\ LogsOf(a) = {}
    /\ removing' = removing \cup {a}
    /\ UNCHANGED <<programmeVars, today, published, order, isScanned, dayScans,
                   scanner, logged, rowGone, scan>>

\* and the foreign key of a log refuses the deletion.  (Mutant: it does not.)
DeleteCounted(a) ==
    /\ a \in removing
    /\ removing' = removing \ {a}
    /\ scanner' = [scanner EXCEPT ![a] = "gone"]
    /\ UNCHANGED <<programmeVars, today, published, order, isScanned, dayScans,
                   logged, rowGone, scan, trouble>>

DeleteScanner(a) ==
    /\ a \in removing
    /\ removing' = removing \ {a}
    /\ scanner' = IF LogsOf(a) = {} THEN [scanner EXCEPT ![a] = "gone"] ELSE scanner
    /\ UNCHANGED <<programmeVars, today, published, order, isScanned, dayScans,
                   logged, rowGone, scan, trouble>>

NextDay ==
    /\ today < LastDate
    /\ today' = today + 1
    /\ UNCHANGED <<programmeVars, published, order, isScanned, dayScans,
                   scanner, logged, removing, rowGone, scan, trouble>>

-----------------------------------------------------------------------------
ValidateScan(s) ==
    \/ \E a \in Agents, i \in Items, c \in Codes : StartScan(s, a, i, c)
    \/ ReadScanner(s)
    \/ ReadItem(s)
    \/ Decide(s)
    \/ Mark(s)
    \/ Enter(s)
    \/ RecordScan(s)
    \/ LoseScan(s)

ManageScanner(a) == SetActive(a) \/ CountLogs(a) \/ DeleteScanner(a)

Next ==
    \/ \E s \in Scans : ValidateScan(s)
    \/ \E a \in Agents : ManageScanner(a)
    \/ \E i \in Items : SettleOrder(i)
    \/ \E u \in Updates : ReplaceDaysOfGate(u)
    \/ ProgrammeStep /\ UNCHANGED gateVars
    \/ SetStatus
    \/ NextDay

Spec == Init /\ [][Next]_vars
-----------------------------------------------------------------------------
(* Properties. *)

\* Types, with the foreign keys: an entry of a pass names a day that exists.
TypeOK ==
    /\ ProgrammeTypeOK
    /\ today \in Nat
    /\ published \in BOOLEAN
    /\ order \in [Items -> OrderStatuses]
    /\ isScanned \in SUBSET Items
    /\ dayScans \in SUBSET (Items \X days)
    /\ scanner \in [Agents -> Accounts]
    /\ logged \in SUBSET Scans
    /\ removing \in SUBSET Agents
    /\ rowGone \in SUBSET Scans
    /\ scan \in [Scans -> ScanCalls]
    /\ trouble \in Nat

\* A scan whose write has let the holder in, whether or not the agent saw it.
Admitted(s) == scan[s].result = "VALID" /\ scan[s].step \notin {"mark", "enter"}

SameEntry(s, r) == scan[s].item = scan[r].item /\ scan[s].day = scan[r].day

\* Nobody enters twice on one ticket: two scans of one item that both let the
\* holder in are entries of a pass on two different days, whatever agents,
\* organiser and webhooks do meanwhile (RULES.md, anti double-scan).  The organiser
\* may undo an entry, by removing its day (the entries go with its row), and change
\* what one means, by the policy he may still change under a crossed ticket.
OneEntryPerTicket ==
    \A s, r \in Scans :
        s # r /\ Admitted(s) /\ Admitted(r) /\ scan[s].item = scan[r].item =>
            \/ {s, r} \cap rowGone # {}
            \/ /\ scan[s].day # scan[r].day
               /\ Null \in {scan[s].day, scan[r].day} => itemTicket[scan[s].item] \in crossed

\* A ticket is said to be used only because it let its holder in, by the same
\* kind of entry: the loser of a race had a winner, and a pass used yesterday is
\* not refused today.
RefusedOnlyIfUsed ==
    \A s \in Scans : scan[s].result = "ALREADY_USED" =>
        \E r \in Scans : r # s /\ Admitted(r) /\ SameEntry(s, r)

\* The agent of a scan in the journal keeps his account, although his removal
\* counts his logs before it deletes him (scanner-admin.service.ts: "son journal
\* doit rester traçable").
JournalIsTraceable == \A s \in logged : scanner[scan[s].agent] # "gone"
=============================================================================
