--------------------------- MODULE FuelTransactions ---------------------------
(***************************************************************************)
(* Fuel issuances as concurrent MySQL transactions over the issuance rows, *)
(* the monthly RIS counters, the append-only ledger and the driver,        *)
(* vehicle, office and budget-allocation rows they rely on, which master   *)
(* data and the budget workflow change at the same time.                   *)
(*                                                                         *)
(* A posting locks its issuance, then the counter of its month, then the   *)
(* driver, vehicle, allocation and office, and writes everything at its    *)
(* commit; the counter's new value is the session's own until then.  Each  *)
(* read is made under the lock of its row, so the isolation level plays no *)
(* part.  The budget and void use cases lock the row they change before    *)
(* they read it and are one action each.                                   *)
(***************************************************************************)
EXTENDS Integers, FiniteSetsExt

CONSTANTS
    Txns,          \* database sessions, each serving one request at a time
    Issuances,     \* public identifiers of issuance rows
    Drivers, Vehicles, Offices, Allocations,
    FuelTypes, Quantities,
    Dates,         \* entry dates, as day numbers
    Months, MonthOf,     \* the calendar month of a date
    Periods, PeriodOf,   \* the fiscal year and quarter of a date
    Volatile,      \* bound: the records that leave service, are edited or deleted
    None           \* "no value": null in the code

Resources == Drivers \cup Vehicles \cup Offices
Lockable  == Issuances \cup Months \cup Resources \cup Allocations

ASSUME RowsAssumption ==
    /\ None \notin Lockable \cup Txns \cup {"create", "update", "post"}
    /\ Issuances \cap (Months \cup Resources \cup Allocations) = {}
    /\ Months \cap (Resources \cup Allocations) = {}
    /\ Resources \cap Allocations = {}
ASSUME CalendarAssumption ==
    /\ Dates \subseteq Int /\ Quantities \subseteq Nat \ {0}
    /\ MonthOf \in [Dates -> Months] /\ PeriodOf \in [Dates -> Periods]
ASSUME NoneAssumption ==
    None \notin [driver : Drivers, vehicle : Vehicles, allocation : Allocations,
                 date : Dates, fuel : FuelTypes]

Details == [driver : Drivers, vehicle : Vehicles, allocation : Allocations,
            date : Dates, fuel : FuelTypes]

Statuses         == {"ABSENT", "DRAFT", "POSTED", "VOIDED"}
BudgetStatuses   == {"ABSENT", "DRAFT", "ACTIVE", "CLOSED", "CANCELLED"}
AllocationRows   == [status : BudgetStatuses, deleted : BOOLEAN,
                     office : Offices, period : Periods]
LedgerEntries    == [issuance : Issuances, kind : {"ISSUANCE", "ADJUSTMENT"},
                     fuel : FuelTypes, date : Dates, signed : Int]

VARIABLES
    \* committed rows
    status,       \* status[i]: lifecycle status, "ABSENT" before insertion
    details,      \* details[i]: its driver, vehicle, allocation, entry date, fuel type
    ris,          \* ris[i]: the sequence part of its RIS number, 0 while it has none
    liters,       \* liters[i]: the posted liters, 0 before posting
    counter,      \* counter[m]: last_number of month m's sequence row
    ledger,       \* the ledger rows, append-only
    allocation,   \* allocation[a]: the budget-allocation row
    operational,  \* operational[r]: r is current and active (a vehicle: serviceable)
    \* sessions
    pc, op, target, want, number, xlocks

issuanceRows == <<status, details, ris, liters, counter, ledger>>
rows         == <<issuanceRows, allocation, operational>>
vars         == <<rows, pc, op, target, want, number, xlocks>>

-----------------------------------------------------------------------------
CanLock(t, items) == \A u \in Txns \ {t} : items \cap xlocks[u] = {}
Unlocked(items)   == \A u \in Txns : items \cap xlocks[u] = {}

\* The session ends its transaction; a commit and a rollback release every lock.
Finish(t) ==
    /\ pc'     = [pc     EXCEPT ![t] = "idle"]
    /\ op'     = [op     EXCEPT ![t] = None]
    /\ target' = [target EXCEPT ![t] = None]
    /\ want'   = [want   EXCEPT ![t] = None]
    /\ number' = [number EXCEPT ![t] = 0]
    /\ xlocks' = [xlocks EXCEPT ![t] = {}]

Start(t, name, i, d, step) ==
    /\ pc[t] = "idle"
    /\ pc'     = [pc     EXCEPT ![t] = step]
    /\ op'     = [op     EXCEPT ![t] = name]
    /\ target' = [target EXCEPT ![t] = i]
    /\ want'   = [want   EXCEPT ![t] = d]
    /\ UNCHANGED <<rows, number, xlocks>>

Init ==
    /\ status      = [i \in Issuances |-> "ABSENT"]
    /\ details     = [i \in Issuances |-> None]
    /\ ris         = [i \in Issuances |-> 0]
    /\ liters      = [i \in Issuances |-> 0]
    /\ counter     = [m \in Months |-> 0]
    /\ ledger      = {}
    /\ allocation  = [a \in Allocations |-> None]
    /\ operational = [r \in Resources |-> TRUE]
    /\ pc     = [t \in Txns |-> "idle"]
    /\ op     = [t \in Txns |-> None]
    /\ target = [t \in Txns |-> None]
    /\ want   = [t \in Txns |-> None]
    /\ number = [t \in Txns |-> 0]
    /\ xlocks = [t \in Txns |-> {}]

-----------------------------------------------------------------------------
(***************************************************************************)
(* Creating, editing and posting an issuance                               *)
(***************************************************************************)

\* The public id of a new issuance is fresh.
BeginCreate(t, i, d) ==
    /\ status[i] = "ABSENT"
    /\ \A u \in Txns : ~(op[u] = "create" /\ target[u] = i)
    /\ Start(t, "create", i, d, "references")

BeginUpdate(t, i, d) == status[i] # "ABSENT" /\ Start(t, "update", i, d, "issuance")
BeginPost(t, i)      == status[i] # "ABSENT" /\ Start(t, "post", i, None, "issuance")

\* The issuance row is locked, then read; a posting works with its details.
LockIssuance(t) ==
    /\ pc[t] = "issuance"
    /\ CanLock(t, {target[t]})
    /\ xlocks' = [xlocks EXCEPT ![t] = {target[t]}]
    /\ pc'   = [pc   EXCEPT ![t] = IF op[t] = "post" THEN "sequence" ELSE "references"]
    /\ want' = [want EXCEPT ![t] = IF op[t] = "post" THEN details[target[t]] ELSE @]
    /\ UNCHANGED <<rows, op, target, number>>

\* Mutant: the counter is advanced in a transaction of its own.
TakeNumberAtOnce(t) ==
    LET m == MonthOf[want[t].date] IN
    /\ pc[t] = "sequence"
    /\ CanLock(t, {m})
    /\ number'  = [number EXCEPT ![t] = counter[m] + 1]
    /\ counter' = [counter EXCEPT ![m] = @ + 1]
    /\ xlocks'  = [xlocks EXCEPT ![t] = @ \cup {m}]
    /\ pc'      = [pc EXCEPT ![t] = "references"]
    /\ UNCHANGED <<status, details, ris, liters, ledger, allocation, operational, op, target, want>>

\* The month's counter is inserted if missing, locked, read and incremented;
\* the increment is undone if the transaction rolls back.
TakeNumber(t) ==
    LET m == MonthOf[want[t].date] IN
    /\ pc[t] = "sequence"
    /\ CanLock(t, {m})
    /\ number' = [number EXCEPT ![t] = counter[m] + 1]
    /\ xlocks' = [xlocks EXCEPT ![t] = @ \cup {m}]
    /\ pc'     = [pc EXCEPT ![t] = "references"]
    /\ UNCHANGED <<rows, op, target, want>>

\* assertEligibleAllocation and the operational checks on booking d.
Eligible(d) ==
    LET a == allocation[d.allocation] IN
    /\ a # None
    /\ operational[d.driver] /\ operational[d.vehicle] /\ operational[a.office]
    /\ a.status = "ACTIVE" /\ ~a.deleted
    /\ a.period = PeriodOf[d.date]

\* Mutant: the allocation is read without FOR UPDATE.
ReferenceRowsUnlocked(d) == {d.driver, d.vehicle}

\* The query for the allocation joins its office and locks both.
ReferenceRows(d) ==
    {d.driver, d.vehicle, d.allocation}
        \cup (IF allocation[d.allocation] = None THEN {} ELSE {allocation[d.allocation].office})

LockReferences(t) ==
    /\ pc[t] = "references"
    /\ CanLock(t, ReferenceRows(want[t]))
    /\ Eligible(want[t])
    /\ xlocks' = [xlocks EXCEPT ![t] = @ \cup ReferenceRows(want[t])]
    /\ pc'     = [pc EXCEPT ![t] = "ready"]
    /\ UNCHANGED <<rows, op, target, want, number>>

\* Every end without a commit: a missing or ineligible reference, a wrong
\* status, a total that rounds to zero, a deadlock victim, a lost connection.
Rollback(t) ==
    /\ pc[t] # "idle"
    /\ Finish(t)
    /\ UNCHANGED rows

CommitCreate(t) ==
    /\ pc[t] = "ready" /\ op[t] = "create"
    /\ status'  = [status  EXCEPT ![target[t]] = "DRAFT"]
    /\ details' = [details EXCEPT ![target[t]] = want[t]]
    /\ Finish(t)
    /\ UNCHANGED <<ris, liters, counter, ledger, allocation, operational>>

\* Mutant: an issuance can be edited after it has been posted.
CommitUpdateAny(t) ==
    /\ pc[t] = "ready" /\ op[t] = "update"
    /\ details' = [details EXCEPT ![target[t]] = want[t]]
    /\ Finish(t)
    /\ UNCHANGED <<status, ris, liters, counter, ledger, allocation, operational>>

CommitUpdate(t) ==
    /\ pc[t] = "ready" /\ op[t] = "update"
    /\ status[target[t]] = "DRAFT"
    /\ details' = [details EXCEPT ![target[t]] = want[t]]
    /\ Finish(t)
    /\ UNCHANGED <<status, ris, liters, counter, ledger, allocation, operational>>

\* A ledger row, unless the issuance already has one of its kind (a unique key).
Entry(i, kind, d, signed) ==
    [issuance |-> i, kind |-> kind, fuel |-> d.fuel, date |-> d.date, signed |-> signed]

Record(i, kind, d, signed) ==
    /\ \A e \in ledger : ~(e.issuance = i /\ e.kind = kind)
    /\ ledger' = ledger \cup {Entry(i, kind, d, signed)}

CommitPost(t, q) ==
    LET i == target[t] IN
    /\ pc[t] = "ready" /\ op[t] = "post"
    /\ status[i] = "DRAFT"
    /\ status'  = [status  EXCEPT ![i] = "POSTED"]
    /\ ris'     = [ris     EXCEPT ![i] = number[t]]
    /\ liters'  = [liters  EXCEPT ![i] = q]
    /\ counter' = [counter EXCEPT ![MonthOf[want[t].date]] = number[t]]
    /\ Record(i, "ISSUANCE", want[t], -q)
    /\ Finish(t)
    /\ UNCHANGED <<details, allocation, operational>>

\* Mutant: the compensating entry has the sign of the entry it compensates.
VoidIssuanceTwiceOut(i) ==
    /\ Unlocked({i}) /\ status[i] = "POSTED"
    /\ status' = [status EXCEPT ![i] = "VOIDED"]
    /\ Record(i, "ADJUSTMENT", details[i], -liters[i])
    /\ UNCHANGED <<details, ris, liters, counter, allocation, operational,
                   pc, op, target, want, number, xlocks>>

\* VoidFuelIssuance: the posted evidence stays, a positive entry compensates it.
VoidIssuance(i) ==
    /\ Unlocked({i}) /\ status[i] = "POSTED"
    /\ status' = [status EXCEPT ![i] = "VOIDED"]
    /\ Record(i, "ADJUSTMENT", details[i], liters[i])
    /\ UNCHANGED <<details, ris, liters, counter, allocation, operational,
                   pc, op, target, want, number, xlocks>>

-----------------------------------------------------------------------------
(***************************************************************************)
(* Budget allocations and master data, one transaction each                *)
(***************************************************************************)
SetAllocation(a, row) ==
    /\ allocation' = [allocation EXCEPT ![a] = row]
    /\ UNCHANGED <<issuanceRows, operational, pc, op, target, want, number, xlocks>>

\* An allocation that is not deleted, locked together with its office.
Current(a) ==
    /\ allocation[a] # None /\ ~allocation[a].deleted
    /\ Unlocked({a, allocation[a].office})

CreateAllocation(a, o, p) ==
    /\ allocation[a] = None
    /\ operational[o] /\ Unlocked({o})
    /\ SetAllocation(a, [status |-> "DRAFT", deleted |-> FALSE, office |-> o, period |-> p])

\* Only a draft is edited; a new office must be operational.
EditAllocation(a, o, p) ==
    /\ Current(a) /\ a \in Volatile
    /\ allocation[a].status = "DRAFT"
    /\ o # allocation[a].office => operational[o] /\ Unlocked({o})
    /\ <<o, p>> # <<allocation[a].office, allocation[a].period>>
    /\ SetAllocation(a, [allocation[a] EXCEPT !.office = o, !.period = p])

ActivateAllocation(a) ==
    /\ Current(a)
    /\ allocation[a].status = "DRAFT" /\ operational[allocation[a].office]
    /\ SetAllocation(a, [allocation[a] EXCEPT !.status = "ACTIVE"])

CloseAllocation(a) ==
    /\ Current(a) /\ a \in Volatile
    /\ allocation[a].status = "ACTIVE"
    /\ SetAllocation(a, [allocation[a] EXCEPT !.status = "CLOSED"])

CancelAllocation(a) ==
    /\ Current(a) /\ a \in Volatile
    /\ allocation[a].status \in {"DRAFT", "ACTIVE"}
    /\ SetAllocation(a, [allocation[a] EXCEPT !.status = "CANCELLED"])

DeleteAllocation(a) ==
    /\ Current(a) /\ a \in Volatile
    /\ SetAllocation(a, [allocation[a] EXCEPT !.deleted = TRUE])

\* What was ACTIVE comes back as DRAFT.
RestoreAllocation(a) ==
    /\ allocation[a] # None /\ a \in Volatile
    /\ allocation[a].deleted /\ Unlocked({a, allocation[a].office})
    /\ SetAllocation(a, [allocation[a] EXCEPT !.deleted = FALSE,
                             !.status = IF @ = "ACTIVE" THEN "DRAFT" ELSE @])

\* A driver, vehicle or office goes out of service, or comes back.
ChangeMasterRecord(r) ==
    /\ r \in Volatile /\ Unlocked({r})
    /\ operational' = [operational EXCEPT ![r] = ~@]
    /\ UNCHANGED <<issuanceRows, allocation, pc, op, target, want, number, xlocks>>

-----------------------------------------------------------------------------
Session(t) ==
    \/ \E i \in Issuances, d \in Details : BeginCreate(t, i, d) \/ BeginUpdate(t, i, d)
    \/ \E i \in Issuances : BeginPost(t, i)
    \/ LockIssuance(t) \/ TakeNumber(t) \/ LockReferences(t) \/ Rollback(t)
    \/ CommitCreate(t) \/ CommitUpdate(t)
    \/ \E q \in Quantities : CommitPost(t, q)

Budget(a) ==
    \/ \E o \in Offices, p \in Periods : CreateAllocation(a, o, p) \/ EditAllocation(a, o, p)
    \/ ActivateAllocation(a) \/ CloseAllocation(a) \/ CancelAllocation(a)
    \/ DeleteAllocation(a) \/ RestoreAllocation(a)

Next ==
    \/ \E t \in Txns : Session(t)
    \/ \E i \in Issuances : VoidIssuance(i)
    \/ \E a \in Allocations : Budget(a)
    \/ \E r \in Resources : ChangeMasterRecord(r)

Spec == Init /\ [][Next]_vars

-----------------------------------------------------------------------------
(***************************************************************************)
(* Balances: what KyselyFuelLedgerRepository.summarize returns             *)
(***************************************************************************)
SumOfSigned(entries)   == MapThenSumSet(LAMBDA e : e.signed, entries)
SumOfQuantity(entries) == MapThenSumSet(LAMBDA e : IF e.signed < 0 THEN -e.signed ELSE e.signed,
                                        entries)

\* Mutant: the opening balance includes the first day.
SummarizeFromFirstDay(fuel, first, last) ==
    LET upTo   == {e \in ledger : e.fuel = fuel /\ e.date <= last}
        within == {e \in upTo : e.date >= first} IN
    [opening     |-> SumOfSigned({e \in upTo : e.date <= first}),
     adjustments |-> SumOfSigned({e \in within : e.kind = "ADJUSTMENT"}),
     issuances   |-> SumOfQuantity({e \in within : e.kind = "ISSUANCE"}),
     net         |-> SumOfSigned(within),
     closing     |-> SumOfSigned(upTo)]

Summarize(fuel, first, last) ==
    LET upTo   == {e \in ledger : e.fuel = fuel /\ e.date <= last}
        within == {e \in upTo : e.date >= first} IN
    [opening     |-> SumOfSigned({e \in upTo : e.date < first}),
     adjustments |-> SumOfSigned({e \in within : e.kind = "ADJUSTMENT"}),
     issuances   |-> SumOfQuantity({e \in within : e.kind = "ISSUANCE"}),
     net         |-> SumOfSigned(within),
     closing     |-> SumOfSigned(upTo)]


-----------------------------------------------------------------------------
(***************************************************************************)
(* Properties                                                              *)
(***************************************************************************)
Requests == {"create", "update", "post"}
Given    == {"POSTED", "VOIDED"}

\* Rows, sessions and locks are well formed; an inserted row has its references
\* and a date, a numbered row its liters.
TypeOK ==
    /\ status \in [Issuances -> Statuses]
    /\ details \in [Issuances -> Details \cup {None}]
    /\ \A i \in Issuances : details[i] = None <=> status[i] = "ABSENT"
    /\ ris \in [Issuances -> Nat]
    /\ liters \in [Issuances -> Quantities \cup {0}]
    /\ \A i \in Issuances : (status[i] \in Given) <=> (liters[i] # 0)
    /\ counter \in [Months -> Nat]
    /\ ledger \subseteq LedgerEntries
    /\ allocation \in [Allocations -> AllocationRows \cup {None}]
    /\ operational \in [Resources -> BOOLEAN]
    /\ pc \in [Txns -> {"idle", "issuance", "sequence", "references", "ready"}]
    /\ op \in [Txns -> Requests \cup {None}]
    /\ target \in [Txns -> Issuances \cup {None}]
    /\ want \in [Txns -> Details \cup {None}]
    /\ number \in [Txns -> Nat]
    /\ xlocks \in [Txns -> SUBSET Lockable]

\* What pc says of a session's request.
SessionsOK ==
    \A t \in Txns :
        /\ pc[t] = "idle" => op[t] = None /\ xlocks[t] = {}
        /\ pc[t] # "idle" => op[t] \in Requests /\ target[t] \in Issuances
        /\ pc[t] = "issuance" => op[t] \in {"update", "post"}
        /\ pc[t] = "sequence" => op[t] = "post"
        /\ pc[t] \in {"sequence", "references", "ready"} \/ op[t] \in {"create", "update"}
               => want[t] \in Details
        /\ op[t] \in {"update", "post"} => status[target[t]] # "ABSENT"
        /\ op[t] = "create" =>
               /\ status[target[t]] = "ABSENT"
               /\ \A u \in Txns \ {t} : ~(op[u] = "create" /\ target[u] = target[t])

\* The locks it then holds, and that locks exclude.
LocksOK ==
    \A t \in Txns :
        /\ pc[t] \in {"sequence", "references", "ready"} /\ op[t] \in {"update", "post"}
               => target[t] \in xlocks[t]
        /\ pc[t] \in {"references", "ready"} /\ op[t] = "post"
               => MonthOf[want[t].date] \in xlocks[t]
        /\ pc[t] = "ready" => ReferenceRows(want[t]) \subseteq xlocks[t]
        /\ \A u \in Txns \ {t} : xlocks[t] \cap xlocks[u] = {}

\* What it has read is still so.
ReadsStand ==
    \A t \in Txns :
        /\ pc[t] \in {"sequence", "references", "ready"} /\ op[t] = "post"
               => want[t] = details[target[t]]
        /\ pc[t] \in {"references", "ready"} /\ op[t] = "post"
               => number[t] = counter[MonthOf[want[t].date]] + 1
        /\ pc[t] = "ready" => Eligible(want[t])

\* The inductive invariant of the proofs: until its commit a request works with
\* the issuance, the counter and the reference rows as they are (LockIssuance,
\* TakeNumber, LockReferences), because it holds their locks.
Serialized == SessionsOK /\ LocksOK /\ ReadsStand

\* RIS numbers (PostFuelIssuance, KyselyFuelSequenceRepository.next): within a
\* month they are given out once each and without gaps, rollbacks, edits of
\* the entry date and concurrent postings notwithstanding.
Numbered(m) == {i \in Issuances : status[i] \in Given /\ MonthOf[details[i].date] = m}

NumbersDense ==
    \A m \in Months :
        /\ {ris[i] : i \in Numbered(m)} = 1 .. counter[m]
        /\ \A i, j \in Numbered(m) : ris[i] = ris[j] => i = j

\* The ledger says what the issuances say (PostFuelIssuance, VoidFuelIssuance):
\* nothing for a draft, the issued liters on its entry date for a posted one,
\* and the same liters back on that date for a voided one.
LedgerAgrees ==
    \A i \in Issuances :
        {e \in ledger : e.issuance = i} =
            (IF status[i] \in Given THEN {Entry(i, "ISSUANCE", details[i], -liters[i])} ELSE {})
                \cup
            (IF status[i] = "VOIDED" THEN {Entry(i, "ADJUSTMENT", details[i], liters[i])} ELSE {})

\* A balance report (summarize) of any range closes on what the posted issuances
\* of that fuel have taken out up to its last day, opens on what they had taken
\* out before its first, and its movements lead from one to the other.
TakenOut(fuel, dates) ==
    MapThenSumSet(LAMBDA i : liters[i],
        {i \in Issuances : status[i] = "POSTED" /\ details[i].fuel = fuel
                              /\ details[i].date \in dates})

BalancesAgree ==
    \A fuel \in FuelTypes, first, last \in Dates :
        first <= last =>
            LET b == Summarize(fuel, first, last) IN
            /\ b.closing = -TakenOut(fuel, {d \in Dates : d <= last})
            /\ b.opening = -TakenOut(fuel, {d \in Dates : d < first})
            /\ b.net = b.adjustments - b.issuances
            /\ b.closing = b.opening + b.net

\* Posting (PostFuelIssuance) and everything it relies on: at the commit of a
\* posting its driver, vehicle and office are in service and its allocation is
\* current, ACTIVE and of the period of the entry date, whatever master data and
\* the budget workflow did while the posting ran.
PostedAgainstEligible ==
    [][\A i \in Issuances :
          status[i] = "DRAFT" /\ status'[i] = "POSTED" => Eligible(details[i])]_vars

\* The transactions, the counters and the ledger implement the book of issuances:
\* each commit is one step of the book, every other step leaves it as it is.
\* The unique key of the ledger makes it at most one row per issuance and kind.
Signed(i, kind) ==
    LET es == {e \in ledger : e.issuance = i /\ e.kind = kind} IN
    IF es = {} THEN 0 ELSE (CHOOSE e \in es : TRUE).signed

BookMonth  == [i \in Issuances |-> IF details[i] = None THEN None ELSE MonthOf[details[i].date]]
BookNet    == [i \in Issuances |-> Signed(i, "ISSUANCE") + Signed(i, "ADJUSTMENT")]

Book == INSTANCE FuelBook
            WITH state <- status, month <- BookMonth, number <- ris, net <- BookNet

ImplementsBook == Book!Spec
=============================================================================
