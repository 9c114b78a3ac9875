------------------------- MODULE DispatchTransactions -------------------------
(***************************************************************************)
(* The vehicle-dispatch workflow as concurrent MySQL transactions over the *)
(* dispatch rows, the office, driver and vehicle rows they reference, the  *)
(* singleton schedule policy and the append-only conflict evidence.        *)
(*                                                                         *)
(* Every use case runs in one transaction that takes row locks in a fixed  *)
(* order and holds them to its end.  Acquiring a lock commutes to the      *)
(* right of what the other transactions do, so the locks a use case takes  *)
(* between two reads or writes are taken here by one action: `Begin...`    *)
(* reads what the request reads before any lock, `Lock...` takes the       *)
(* resource and dispatch rows, `Resolve` takes the policy and the          *)
(* conflicting rows in share mode and judges them, and a commit writes     *)
(* everything and releases the locks.  Completion, cancellation and a      *)
(* master-data change lock one row and are one action each.                *)
(*                                                                         *)
(* A transaction that has not yet written is invisible to the others: its  *)
(* writes are made by its commit, and all its other ends are rollbacks.    *)
(*                                                                         *)
(* The code sets no isolation level, so each transaction runs at MySQL's   *)
(* default, REPEATABLE READ: its first plain read fixes the view of all    *)
(* its plain reads, and only reads that lock see later commits.            *)
(***************************************************************************)
EXTENDS Integers, FiniteSets, Sequences

CONSTANTS
    Txns,          \* database sessions, each serving one request at a time
    Overriders,    \* the sessions whose principal holds dispatch.conflict.override
    Dispatches,    \* public identifiers of dispatch rows
    Offices, Drivers, Vehicles, Dates,
    Volatile,      \* bound: the offices, drivers and vehicles whose record changes
    None,          \* "no value": null in the code
    PolicyRow,     \* the lock on the singleton dispatch_schedule_settings row
    MaxRevision,   \* bound: policy changes explored
    MaxTrail       \* bound: lifecycle audit events of one dispatch explored

Resources == Offices \cup Drivers \cup Vehicles
Lockable  == Resources \cup Dispatches \cup {PolicyRow}

ASSUME TxnsAssumption == Overriders \subseteq Txns /\ None \notin Txns
ASSUME RowsAssumption ==
    /\ None \notin Lockable /\ None \notin Dates
    /\ PolicyRow \notin Resources \cup Dispatches
    /\ Dispatches \cap Resources = {}
    /\ Volatile \subseteq Resources
    /\ Offices \cap (Drivers \cup Vehicles) = {} /\ Drivers \cap Vehicles = {}
ASSUME NoneAssumption ==
    /\ None \notin {"create", "update", "dispatch", "policy"}
    /\ None \notin [office : Offices, driver : Drivers, vehicle : Vehicles, date : Dates]
ASSUME BoundsAssumption   == MaxRevision \in Nat /\ MaxTrail \in Nat

Details == [office : Offices, driver : Drivers, vehicle : Vehicles, date : Dates]

Statuses  == {"ABSENT", "DRAFT", "DISPATCHED", "COMPLETED", "CANCELLED"}
Reserving == {"DRAFT", "DISPATCHED", "COMPLETED"}
Terminal  == {"COMPLETED", "CANCELLED"}

ConflictTypes == {"DRIVER", "VEHICLE", "DRIVER_AND_VEHICLE"}
Evidence      == [dispatch : Dispatches, conflicting : Dispatches, type : ConflictTypes]
Settings      == [policy : {"WARN_AND_ACK", "BLOCK"}, revision : 0 .. MaxRevision]

\* What a transaction's plain read of a dispatch returns.
Views == [status : Statuses, booking : Details, evidence : SUBSET Evidence]

\* What a booking is judged by: the office plays no part in a conflict.
Candidates == [driver : Drivers, vehicle : Vehicles, date : Dates]
Candidate(details) ==
    [driver |-> details.driver, vehicle |-> details.vehicle, date |-> details.date]

\* What the client acknowledges: everything that enters the fingerprint's hash.
Fingerprints ==
    [settings : Settings, candidate : Candidates, excluded : Dispatches \cup {None},
     conflicts : SUBSET (Dispatches \X ConflictTypes)]

ASSUME ReviewAssumption == None \notin Fingerprints

VARIABLES
    \* committed rows
    status,       \* status[d]: lifecycle status of dispatch d, "ABSENT" before insertion
    booking,      \* booking[d]: its office, driver, vehicle and travel date
    operational,  \* operational[r]: r is current and active (a vehicle: serviceable)
    settings,     \* the schedule policy; `revision` stands for its updated_at
    evidence,     \* the conflict-override rows, append-only
    trail,        \* trail[d]: lifecycle audit events of d, in commit order
    \* sessions
    pc, op, target, want, ack, view, append, xlocks, slocks,
    \* history, written by CommitDispatch and read by the properties only
    overtaken     \* the dispatches sent out on a view of their row that was out of date

rows == <<status, booking, operational, settings, evidence, trail, overtaken>>
vars == <<rows, pc, op, target, want, ack, view, append, xlocks, slocks>>

(***************************************************************************)
(* Conflicts: another reserving dispatch of the same day with the same     *)
(* driver or the same vehicle.                                             *)
(***************************************************************************)
SharesResource(a, b) == a.date = b.date /\ (a.driver = b.driver \/ a.vehicle = b.vehicle)

ConflictType(a, b) ==
    IF a.driver # b.driver THEN "VEHICLE"
    ELSE IF a.vehicle # b.vehicle THEN "DRIVER" ELSE "DRIVER_AND_VEHICLE"

Conflicts(d, details) ==
    {c \in Dispatches \ {d} : status[c] \in Reserving /\ SharesResource(details, booking[c])}

\* The fingerprint of the conflicts of booking `details` for dispatch d; the
\* candidate of a dispatch that does not exist yet excludes no row.
Fingerprint(d, details) ==
    [settings |-> settings, candidate |-> Candidate(details),
     excluded |-> IF status[d] = "ABSENT" THEN None ELSE d,
     conflicts |-> {<<c, ConflictType(details, booking[c])>> : c \in Conflicts(d, details)}]

EvidenceRows(d, details) ==
    {[dispatch |-> d, conflicting |-> c, type |-> ConflictType(details, booking[c])] :
        c \in Conflicts(d, details)}

-----------------------------------------------------------------------------
(***************************************************************************)
(* Row locks                                                               *)
(***************************************************************************)
CanLockX(t, items) == \A u \in Txns \ {t} : items \cap (xlocks[u] \cup slocks[u]) = {}
CanLockS(t, items) == \A u \in Txns \ {t} : items \cap xlocks[u] = {}
Unlocked(item)     == \A u \in Txns : item \notin xlocks[u] \cup slocks[u]

ResourcesOf(details) == {details.office, details.driver, details.vehicle}

\* Mutant: the policy is read without a lock.
RowsJudgedWithoutPolicy(d, details) ==
    UNION {{c} \cup ResourcesOf(booking[c]) : c \in Conflicts(d, details)}

\* The rows the share-mode conflict query locks: it joins each conflicting
\* dispatch with its office, driver and vehicle.
RowsJudged(d, details) ==
    {PolicyRow} \cup UNION {{c} \cup ResourcesOf(booking[c]) : c \in Conflicts(d, details)}

\* The session ends its transaction; a commit and a rollback release every lock.
Finish(t) ==
    /\ pc'     = [pc     EXCEPT ![t] = "idle"]
    /\ op'     = [op     EXCEPT ![t] = None]
    /\ target' = [target EXCEPT ![t] = None]
    /\ want'   = [want   EXCEPT ![t] = None]
    /\ ack'    = [ack    EXCEPT ![t] = None]
    /\ view'   = [view   EXCEPT ![t] = None]
    /\ append' = [append EXCEPT ![t] = {}]
    /\ xlocks' = [xlocks EXCEPT ![t] = {}]
    /\ slocks' = [slocks EXCEPT ![t] = {}]

Start(t, name, d, details, a, seen) ==
    /\ pc[t] = "idle"
    /\ pc'     = [pc     EXCEPT ![t] = "begun"]
    /\ op'     = [op     EXCEPT ![t] = name]
    /\ target' = [target EXCEPT ![t] = d]
    /\ want'   = [want   EXCEPT ![t] = details]
    /\ ack'    = [ack    EXCEPT ![t] = a]
    /\ view'   = [view   EXCEPT ![t] = seen]
    /\ UNCHANGED <<rows, append, xlocks, slocks>>

-----------------------------------------------------------------------------
Init ==
    /\ status      = [d \in Dispatches |-> "ABSENT"]
    /\ booking     = [d \in Dispatches |-> None]
    /\ operational = [r \in Resources |-> TRUE]
    /\ settings    = [policy |-> "WARN_AND_ACK", revision |-> 0]
    /\ evidence    = {}
    /\ trail       = [d \in Dispatches |-> <<>>]
    /\ pc     = [t \in Txns |-> "idle"]
    /\ op     = [t \in Txns |-> None]
    /\ target = [t \in Txns |-> None]
    /\ want   = [t \in Txns |-> None]
    /\ ack    = [t \in Txns |-> None]
    /\ view   = [t \in Txns |-> None]
    /\ append = [t \in Txns |-> {}]
    /\ xlocks = [t \in Txns |-> {}]
    /\ slocks = [t \in Txns |-> {}]
    /\ overtaken = {}

\* The acknowledgments a client may send with a command about booking `details`
\* for d: none, or the fingerprint of the conflicts it was shown, by
\* CheckDispatchScheduleAvailability (a plain read) or by a refused command.
\* They are as of the sending of the command; the transaction takes its locks
\* any number of commits later.
Reviews(d, details) ==
    {None} \cup {f \in {Fingerprint(d, details)} : f.conflicts # {}}

\* CreateDispatch up to its first lock; the public id is fresh.
BeginCreate(t, d, details, a) ==
    /\ status[d] = "ABSENT"
    /\ \A u \in Txns : ~(op[u] = "create" /\ target[u] = d)
    /\ Start(t, "create", d, details, a, None)

\* UpdateDraftDispatch up to its first lock.
BeginUpdate(t, d, details, a) ==
    /\ status[d] # "ABSENT"
    /\ Start(t, "update", d, details, a, None)

\* DispatchVehicle discovers which office, driver and vehicle to lock with a
\* plain read, the first of its transaction: every later plain read of the
\* transaction sees the rows as they are now.
BeginDispatch(t, d, a) ==
    /\ status[d] # "ABSENT"
    /\ Start(t, "dispatch", d, booking[d], a,
             [status |-> status[d], booking |-> booking[d],
              evidence |-> {e \in evidence : e.dispatch = d}])

\* UpdateDispatchScheduleSettings reads the policy row in share mode; it
\* returns at once when the requested policy is the current one.
BeginPolicy(t) ==
    /\ pc[t] = "idle" /\ settings.revision < MaxRevision
    /\ CanLockS(t, {PolicyRow})
    /\ pc'     = [pc     EXCEPT ![t] = "resolved"]
    /\ op'     = [op     EXCEPT ![t] = "policy"]
    /\ slocks' = [slocks EXCEPT ![t] = {PolicyRow}]
    /\ UNCHANGED <<rows, target, want, ack, view, append, xlocks>>

\* Mutant: the office, driver and vehicle are read without a lock.
RowLocksDispatchOnly(t) == IF op[t] = "create" THEN {} ELSE {target[t]}

RowLocks(t) ==
    ResourcesOf(want[t]) \cup (IF op[t] = "create" THEN {} ELSE {target[t]})

\* What findByPublicIdForUpdate returns.  It locks the row, then reads it with
\* a plain query: the first plain query of an update, so a read of the row as
\* it is; a later one of a dispatch, so a read in the view the discovery opened.
RowRead(t) ==
    IF op[t] = "dispatch" THEN view[t]
    ELSE [status |-> status[target[t]], booking |-> booking[target[t]],
          evidence |-> {e \in evidence : e.dispatch = target[t]}]

\* The office, driver and vehicle are locked and found operational, then the
\* dispatch row is locked and read.  A dispatch whose row, as read, no longer
\* names the discovered office, driver and vehicle is refused (Rollback): two
\* reads in one view, so the check never fires.
LockRows(t) ==
    /\ pc[t] = "begun"
    /\ CanLockX(t, RowLocks(t))
    /\ \A r \in ResourcesOf(want[t]) : operational[r]
    /\ IF op[t] = "create" THEN UNCHANGED <<view, want>>
       ELSE /\ op[t] = "dispatch" => ResourcesOf(RowRead(t).booking) = ResourcesOf(want[t])
            /\ view' = [view EXCEPT ![t] = RowRead(t)]
            /\ want' = [want EXCEPT ![t] =
                            IF op[t] = "dispatch" THEN RowRead(t).booking ELSE want[t]]
    /\ pc'     = [pc     EXCEPT ![t] = "locked"]
    /\ xlocks' = [xlocks EXCEPT ![t] = RowLocks(t)]
    /\ UNCHANGED <<rows, op, target, ack, append, slocks>>

\* Evidence of an earlier acknowledgment, in the view of the transaction, lets
\* a dispatch go ahead without a new one when it covers every current conflict
\* with its current type.
Covered(t) ==
    /\ op[t] = "dispatch" /\ ack[t] = None
    /\ EvidenceRows(target[t], want[t]) \subseteq view[t].evidence

\* Mutant: the fingerprint leaves out settingsUpdatedAt and the policy.
AcknowledgedAnyRevision(t) ==
    /\ t \in Overriders /\ ack[t] # None
    /\ ack[t] = [Fingerprint(target[t], want[t]) EXCEPT !.settings = ack[t].settings]

Acknowledged(t) ==
    /\ t \in Overriders
    /\ ack[t] = Fingerprint(target[t], want[t])

\* DispatchConflictResolutionService.resolve, when it does not throw.
Judge(t, accepted) ==
    LET conflicts == Conflicts(target[t], want[t]) IN
    \/ conflicts = {} /\ ack[t] = None /\ accepted = {}
    \/ /\ conflicts # {} /\ settings.policy = "WARN_AND_ACK"
       /\ \/ Covered(t) /\ accepted = {}
          \/ Acknowledged(t) /\ accepted = EvidenceRows(target[t], want[t])

\* Mutant: dispatching is allowed from any status.
StatusAllowsAny(t) == op[t] = "update" => view[t].status = "DRAFT"

\* The status rule of the entity, applied to the row as it was read.
StatusAllows(t) == op[t] # "create" => view[t].status = "DRAFT"

\* The policy and the conflicting rows are read under share locks and judged.
Resolve(t) ==
    /\ pc[t] = "locked"
    /\ CanLockS(t, RowsJudged(target[t], want[t]))
    /\ StatusAllows(t)
    /\ \E accepted \in {{}, EvidenceRows(target[t], want[t])} :
          /\ Judge(t, accepted)
          /\ append' = [append EXCEPT ![t] = accepted]
    /\ pc'     = [pc     EXCEPT ![t] = "resolved"]
    /\ slocks' = [slocks EXCEPT ![t] = RowsJudged(target[t], want[t])]
    /\ UNCHANGED <<rows, op, target, want, ack, view, xlocks>>

\* Every end without a commit: a conflict refused by resolve, a missing or
\* non-operational reference, a permission, reason or status error, the retry
\* error, a deadlock victim, a lock wait that times out, a lost connection.
Rollback(t) ==
    /\ pc[t] # "idle"
    /\ Finish(t)
    /\ UNCHANGED rows

-----------------------------------------------------------------------------
(***************************************************************************)
(* Commits                                                                 *)
(***************************************************************************)
Record(d, event) ==
    /\ Len(trail[d]) < MaxTrail
    /\ trail' = [trail EXCEPT ![d] = Append(@, event)]

CommitCreate(t) ==
    /\ pc[t] = "resolved" /\ op[t] = "create"
    /\ status'   = [status  EXCEPT ![target[t]] = "DRAFT"]
    /\ booking'  = [booking EXCEPT ![target[t]] = want[t]]
    /\ evidence' = evidence \cup append[t]
    /\ Record(target[t], "created")
    /\ Finish(t)
    /\ UNCHANGED <<operational, settings, overtaken>>

\* updateDetails writes only a row that is still DRAFT.
CommitUpdate(t) ==
    /\ pc[t] = "resolved" /\ op[t] = "update"
    /\ booking'  = [booking EXCEPT ![target[t]] =
                        IF status[target[t]] = "DRAFT" THEN want[t] ELSE @]
    /\ evidence' = evidence \cup append[t]
    /\ Finish(t)
    /\ UNCHANGED <<status, operational, settings, trail, overtaken>>

\* The row is no longer what the dispatching session takes it for.
Overtaken(t) ==
    \/ view[t].status # status[target[t]]
    \/ view[t].booking # booking[target[t]]

\* updateLifecycle writes the row whatever its committed status is, and leaves
\* its office, driver, vehicle and date alone.
CommitDispatch(t) ==
    /\ pc[t] = "resolved" /\ op[t] = "dispatch"
    /\ status'   = [status EXCEPT ![target[t]] = "DISPATCHED"]
    /\ evidence' = evidence \cup append[t]
    /\ overtaken' = IF Overtaken(t) THEN overtaken \cup {target[t]} ELSE overtaken
    /\ Record(target[t], "dispatched")
    /\ Finish(t)
    /\ UNCHANGED <<booking, operational, settings>>

\* The update of the policy row needs its exclusive lock.
CommitPolicy(t) ==
    /\ pc[t] = "resolved" /\ op[t] = "policy"
    /\ CanLockX(t, {PolicyRow})
    /\ settings.revision < MaxRevision
    /\ settings' = [policy   |-> IF settings.policy = "BLOCK" THEN "WARN_AND_ACK" ELSE "BLOCK",
                    revision |-> settings.revision + 1]
    /\ Finish(t)
    /\ UNCHANGED <<status, booking, operational, evidence, trail, overtaken>>

\* CompleteDispatch locks the row before any other read.
Complete(d) ==
    /\ status[d] = "DISPATCHED" /\ Unlocked(d)
    /\ status' = [status EXCEPT ![d] = "COMPLETED"]
    /\ Record(d, "completed")
    /\ UNCHANGED <<booking, operational, settings, evidence, overtaken,
                   pc, op, target, want, ack, view, append, xlocks, slocks>>

\* CancelDispatch, likewise.
Cancel(d) ==
    /\ status[d] \in {"DRAFT", "DISPATCHED"} /\ Unlocked(d)
    /\ status' = [status EXCEPT ![d] = "CANCELLED"]
    /\ Record(d, "cancelled")
    /\ UNCHANGED <<booking, operational, settings, evidence, overtaken,
                   pc, op, target, want, ack, view, append, xlocks, slocks>>

\* Mutant: the master record changes without waiting for its lock.
ChangeMasterRecordUnlocked(r) ==
    /\ operational' = [operational EXCEPT ![r] = ~@]
    /\ UNCHANGED <<status, booking, settings, evidence, trail, overtaken,
                   pc, op, target, want, ack, view, append, xlocks, slocks>>

\* A status change, soft delete or restoration of an office, driver or vehicle
\* makes it usable or unusable under its row lock.
ChangeMasterRecord(r) ==
    /\ Unlocked(r)
    /\ operational' = [operational EXCEPT ![r] = ~@]
    /\ UNCHANGED <<status, booking, settings, evidence, trail, overtaken,
                   pc, op, target, want, ack, view, append, xlocks, slocks>>

-----------------------------------------------------------------------------
Request(t) ==
    \/ \E d \in Dispatches, details \in Details : \E a \in Reviews(d, details) :
          \/ BeginCreate(t, d, details, a)
          \/ BeginUpdate(t, d, details, a)
          \/ details = booking[d] /\ BeginDispatch(t, d, a)
    \/ BeginPolicy(t)

Work(t) ==
    \/ LockRows(t) \/ Resolve(t)
    \/ CommitCreate(t) \/ CommitUpdate(t) \/ CommitDispatch(t) \/ CommitPolicy(t)

Next ==
    \/ \E t \in Txns : Request(t) \/ Work(t) \/ Rollback(t)
    \/ \E d \in Dispatches : Complete(d) \/ Cancel(d)
    \/ \E r \in Volatile : ChangeMasterRecord(r)

Spec == Init /\ [][Next]_vars

-----------------------------------------------------------------------------
(***************************************************************************)
(* Properties                                                              *)
(***************************************************************************)
\* The rows, the sessions and their locks are well formed.
TypeOK ==
    /\ status \in [Dispatches -> Statuses]
    /\ booking \in [Dispatches -> Details \cup {None}]
    /\ \A d \in Dispatches : booking[d] = None <=> status[d] = "ABSENT"
    /\ operational \in [Resources -> BOOLEAN]
    /\ settings \in Settings
    /\ evidence \subseteq Evidence
    /\ trail \in [Dispatches -> Seq({"created", "dispatched", "completed", "cancelled"})]
    /\ pc \in [Txns -> {"idle", "begun", "locked", "resolved"}]
    /\ op \in [Txns -> {None, "create", "update", "dispatch", "policy"}]
    /\ target \in [Txns -> Dispatches \cup {None}]
    /\ want \in [Txns -> Details \cup {None}]
    /\ ack \in [Txns -> Fingerprints \cup {None}]
    /\ view \in [Txns -> Views \cup {None}]
    /\ append \in [Txns -> SUBSET Evidence]
    /\ xlocks \in [Txns -> SUBSET Lockable]
    /\ slocks \in [Txns -> SUBSET Lockable]
    /\ overtaken \subseteq Dispatches

Acknowledges(e, d, c, type) ==
    e.type = type /\ {e.dispatch, e.conflicting} = {d, c}

\* Any two dispatches that hold the same driver or vehicle on the same day have
\* been acknowledged as that kind of conflict by one of the two, whatever the
\* order in which they were created, edited, dispatched and cancelled, unless
\* one of them was dispatched on an out-of-date view of its row: that is the
\* only way to an unacknowledged double booking.
NoUnacknowledgedDoubleBooking ==
    \A d, c \in Dispatches \ overtaken :
        /\ c # d /\ status[d] \in Reserving /\ status[c] \in Reserving
        /\ SharesResource(booking[d], booking[c])
        => \E e \in evidence : Acknowledges(e, d, c, ConflictType(booking[d], booking[c]))

DoubleBooked(d, c) ==
    /\ c # d /\ status[d] \in Reserving /\ status[c] \in Reserving
    /\ SharesResource(booking[d], booking[c])

\* While the policy in force is BLOCK no step books a resource twice: a pair of
\* dispatches in conflict after the step was in conflict before it, unless one
\* of the two was dispatched, in this step or before, on an out-of-date view.
BlockAddsNoConflict ==
    [][settings.policy = "BLOCK" =>
         \A d, c \in Dispatches \ overtaken' :
             DoubleBooked(d, c)' => DoubleBooked(d, c)]_vars

\* Review a is of this booking, and of override row e and all the others.
ReviewsBooking(a, e, details) ==
    LET named == EvidenceRows(e.dispatch, details) IN
    /\ a.candidate = Candidate(details)
    /\ e \in named
    /\ \A o \in named : o.conflicting \notin overtaken => <<o.conflicting, o.type>> \in a.conflicts

\* An override row is written only under WARN_AND_ACK, by a session allowed to
\* override, whose review is of the policy revision in force and names the
\* conflict.  Unless that session's view of its dispatch is out of date, the
\* review is of the booking the dispatch has after the commit, the conflict
\* still holds, and the review names every other conflict of that booking,
\* except those with a dispatch that itself went out on an out-of-date view.
AcknowledgmentIsCurrent ==
    [][\A e \in evidence' \ evidence :
         /\ settings.policy = "WARN_AND_ACK"
         /\ \E t \in Overriders :
               /\ target[t] = e.dispatch /\ ack[t] # None
               /\ ack[t].settings = settings
               /\ <<e.conflicting, e.type>> \in ack[t].conflicts
               /\ e.dispatch \notin overtaken' =>
                     ReviewsBooking(ack[t], e, booking'[e.dispatch])]_vars

\* A completed or cancelled dispatch never changes again.
TerminalIsFinal ==
    [][\A d \in Dispatches : status[d] \in Terminal =>
         status'[d] = status[d] /\ booking'[d] = booking[d]]_vars

\* The office, driver and vehicle of a dispatch are usable at the instant it is
\* committed as dispatched, not only when the transaction looked, unless its
\* session's view was out of date: it then checked those of the earlier row.
DispatchedResourcesOperational ==
    [][\A d \in Dispatches \ overtaken' : status[d] # "DISPATCHED" /\ status'[d] = "DISPATCHED" =>
         \A r \in ResourcesOf(booking'[d]) : operational[r]]_vars

\* The audit trail tells one legal life: replaying it never takes a transition
\* the lifecycle forbids, except for a dispatch that went out on an out-of-date
\* view of its row.
LegalLife ==
    {<<>>, <<"created">>, <<"created", "cancelled">>, <<"created", "dispatched">>,
     <<"created", "dispatched", "completed">>, <<"created", "dispatched", "cancelled">>}

TrailIsLegal == \A d \in Dispatches \ overtaken : trail[d] \in LegalLife

-----------------------------------------------------------------------------
(***************************************************************************)
(* What the locks guarantee to a transaction between its reads and its     *)
(* commit.  These are the parts of the inductive invariant behind          *)
(* NoUnacknowledgedDoubleBooking.                                          *)
(***************************************************************************)
Writers == {"create", "update", "dispatch"}

\* What a session at each point of its transaction is working on.
SessionsOK ==
    \A t \in Txns :
        /\ pc[t] = "idle" <=> op[t] = None
        /\ op[t] = "policy" => pc[t] = "resolved"
        /\ op[t] \in Writers => target[t] \in Dispatches /\ want[t] \in Details
        /\ op[t] \in {"update", "dispatch"} => status[target[t]] # "ABSENT"
        /\ \/ op[t] = "dispatch"
           \/ op[t] = "update" /\ pc[t] \in {"locked", "resolved"}
           => view[t] \in Views
        /\ op[t] = "create" => status[target[t]] = "ABSENT"
        /\ \A u \in Txns \ {t} :
              op[t] = "create" /\ op[u] = "create" => target[t] # target[u]

\* No two sessions hold conflicting locks, and each holds those of its rows.
LocksOK ==
    /\ \A t, u \in Txns : t # u => xlocks[t] \cap (xlocks[u] \cup slocks[u]) = {}
    /\ \A t \in Txns :
          op[t] \in Writers /\ pc[t] \in {"locked", "resolved"} => RowLocks(t) \subseteq xlocks[t]

\* A dispatch judges the booking of its view, and knows no evidence that is not
\* there; the row an update read under its lock is still as it was read.
ReadsStand ==
    \A t \in Txns :
        /\ op[t] = "dispatch" =>
               want[t] = view[t].booking /\ view[t].evidence \subseteq evidence
        /\ op[t] = "update" /\ pc[t] \in {"locked", "resolved"} =>
               view[t].status = status[target[t]]
        /\ op[t] \in {"update", "dispatch"} /\ pc[t] = "resolved" => view[t].status = "DRAFT"

\* From its judgment to its commit a transaction's acknowledgment covers every
\* conflict of the booking it judged: no conflict can appear but with a dispatch
\* that goes out on an out-of-date view.
JudgmentsStand ==
    \A t \in Txns :
        op[t] \in Writers /\ pc[t] = "resolved" =>
            \A c \in Conflicts(target[t], want[t]) \ overtaken :
                \E e \in evidence \cup append[t] :
                    Acknowledges(e, target[t], c, ConflictType(want[t], booking[c]))

TransactionsOK == SessionsOK /\ LocksOK /\ ReadsStand /\ JudgmentsStand
=============================================================================
