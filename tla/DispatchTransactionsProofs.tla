---------------------- MODULE DispatchTransactionsProofs ----------------------
(***************************************************************************)
(* Theorems about DispatchTransactions, for any number of sessions,        *)
(* dispatches, offices, drivers, vehicles and dates.  The first half is    *)
(* about the state: its type, the row locks and the conflicts they keep    *)
(* out.  The second is what the locks are worth to the rules of the        *)
(* workflow: the lifecycle and its trail, the records a dispatch goes out  *)
(* with, and the acknowledgments and the policy a booking is judged by.    *)
(***************************************************************************)
EXTENDS DispatchTransactions, SequenceTheorems, TLAPS

USE DEF Writers

\* A conflict is by driver, by vehicle or by both.
LEMMA ConflictTypeTyped == \A a, b : ConflictType(a, b) \in ConflictTypes
BY DEF ConflictType, ConflictTypes

\* The evidence of an acknowledged booking is well formed.
LEMMA EvidenceRowsTyped ==
    \A d \in Dispatches : \A details : EvidenceRows(d, details) \subseteq Evidence
BY ConflictTypeTyped DEF EvidenceRows, Evidence, Conflicts

\* So is the fingerprint a client is shown.
LEMMA FingerprintTyped ==
    ASSUME TypeOK, NEW d \in Dispatches, NEW details \in Details
    PROVE  Fingerprint(d, details) \in Fingerprints
<1> DEFINE shown == {<<c, ConflictType(details, booking[c])>> : c \in Conflicts(d, details)}
<1>1. shown \in SUBSET (Dispatches \X ConflictTypes)
  BY ConflictTypeTyped DEF Conflicts
<1>2. settings \in Settings
  BY DEF TypeOK
<1> HIDE DEF shown
<1>3. Fingerprint(d, details) = [settings |-> settings, candidate |-> Candidate(details),
          excluded |-> IF status[d] = "ABSENT" THEN None ELSE d, conflicts |-> shown]
  BY DEF Fingerprint, shown
<1>4. QED
  BY <1>1, <1>2, <1>3 DEF Fingerprints, Candidate, Candidates, Details

\* The initial state is well formed.
LEMMA InitTyped == Init => TypeOK /\ SessionsOK
<1> SUFFICES ASSUME Init PROVE TypeOK /\ SessionsOK
  OBVIOUS
<1>1. TypeOK
  BY BoundsAssumption DEF Init, TypeOK, Statuses, Settings
<1>2. SessionsOK
  BY NoneAssumption DEF Init, SessionsOK
<1>3. QED BY <1>1, <1>2

-----------------------------------------------------------------------------
(***************************************************************************)
(* Type correctness                                                        *)
(***************************************************************************)
\* A session that starts is well formed.
LEMMA StartTyped ==
    ASSUME TypeOK, NEW t \in Txns, NEW name \in Writers, NEW d \in Dispatches,
           NEW details \in Details, NEW a \in Reviews(d, details),
           NEW seen \in Views \cup {None}, Start(t, name, d, details, a, seen)
    PROVE  TypeOK'
<1>1. a \in Fingerprints \cup {None}
  BY FingerprintTyped DEF Reviews
<1>2. QED
  BY <1>1 DEF TypeOK, Start, rows

\* The fields of a session that ends are well formed.
LEMMA FinishTyped ==
    ASSUME TypeOK, NEW t \in Txns, Finish(t)
    PROVE  /\ pc' \in [Txns -> {"idle", "begun", "locked", "resolved"}]
           /\ op' \in [Txns -> {None, "create", "update", "dispatch", "policy"}]
           /\ target' \in [Txns -> Dispatches \cup {None}]
           /\ want' \in [Txns -> Details \cup {None}]
           /\ ack' \in [Txns -> Fingerprints \cup {None}]
           /\ view' \in [Txns -> Views \cup {None}]
           /\ append' \in [Txns -> SUBSET Evidence]
           /\ xlocks' \in [Txns -> SUBSET Lockable]
           /\ slocks' \in [Txns -> SUBSET Lockable]
BY DEF TypeOK, Finish

\* An audit event keeps the trail well formed.
LEMMA RecordTyped ==
    ASSUME TypeOK, NEW d \in Dispatches,
           NEW event \in {"created", "dispatched", "completed", "cancelled"}, Record(d, event)
    PROVE  trail' \in [Dispatches -> Seq({"created", "dispatched", "completed", "cancelled"})]
BY DEF TypeOK, Record

\* What a session reads of its own dispatch is a view.
LEMMA RowReadTyped ==
    ASSUME TypeOK, SessionsOK, NEW t \in Txns, pc[t] = "begun", op[t] # "create"
    PROVE  RowRead(t) \in Views
<1>1. op[t] \in {"update", "dispatch"} /\ target[t] \in Dispatches
  BY DEF SessionsOK, TypeOK
<1>2. status[target[t]] # "ABSENT" /\ booking[target[t]] \in Details
  BY <1>1 DEF SessionsOK, TypeOK
<1>3. {e \in evidence : e.dispatch = target[t]} \in SUBSET Evidence
  BY DEF TypeOK
<1>4. CASE op[t] = "dispatch"
  BY <1>4 DEF RowRead, SessionsOK
<1>5. CASE op[t] # "dispatch"
  BY <1>1, <1>2, <1>3, <1>5 DEF RowRead, Views, TypeOK
<1>6. QED BY <1>4, <1>5

\* Every step keeps the type invariant.
LEMMA NextTyped == TypeOK /\ SessionsOK /\ [Next]_vars => TypeOK'
<1> SUFFICES ASSUME TypeOK, SessionsOK, [Next]_vars
             PROVE  TypeOK'
  OBVIOUS
<1>1. ASSUME NEW t \in Txns, NEW d \in Dispatches, NEW details \in Details,
             NEW a \in Reviews(d, details), BeginCreate(t, d, details, a)
      PROVE  TypeOK'
  BY <1>1, StartTyped DEF BeginCreate
<1>2. ASSUME NEW t \in Txns, NEW d \in Dispatches, NEW details \in Details,
             NEW a \in Reviews(d, details), BeginUpdate(t, d, details, a)
      PROVE  TypeOK'
  BY <1>2, StartTyped DEF BeginUpdate
<1>3. ASSUME NEW t \in Txns, NEW d \in Dispatches, NEW details \in Details,
             NEW a \in Reviews(d, details), details = booking[d], BeginDispatch(t, d, a)
      PROVE  TypeOK'
  <2>1. {e \in evidence : e.dispatch = d} \in SUBSET Evidence
    BY DEF TypeOK
  <2>2. [status |-> status[d], booking |-> booking[d],
         evidence |-> {e \in evidence : e.dispatch = d}] \in Views
    BY <1>3, <2>1 DEF TypeOK, Views
  <2>3. QED BY <1>3, <2>2, StartTyped DEF BeginDispatch
<1>4. ASSUME NEW t \in Txns, BeginPolicy(t)
      PROVE  TypeOK'
  BY <1>4 DEF BeginPolicy, TypeOK, rows, Lockable
<1>5. ASSUME NEW t \in Txns, LockRows(t)
      PROVE  TypeOK'
  <2>1. op[t] \in Writers /\ target[t] \in Dispatches /\ want[t] \in Details
    BY <1>5 DEF LockRows, SessionsOK, TypeOK
  <2>2. RowLocks(t) \subseteq Lockable
    BY <2>1 DEF RowLocks, ResourcesOf, Lockable, Resources, Details
  <2>3. op[t] # "create" => RowRead(t) \in Views
    BY <1>5, RowReadTyped DEF LockRows
  <2>4. view' \in [Txns -> Views \cup {None}] /\ want' \in [Txns -> Details \cup {None}]
    <3>1. CASE op[t] = "create"
      BY <1>5, <3>1 DEF LockRows, TypeOK
    <3>2. CASE op[t] # "create"
      BY <1>5, <2>1, <2>3, <3>2 DEF LockRows, TypeOK, Views
    <3>3. QED BY <3>1, <3>2
  <2>5. QED BY <1>5, <2>2, <2>4 DEF LockRows, TypeOK, rows
<1>6. ASSUME NEW t \in Txns, Resolve(t)
      PROVE  TypeOK'
  <2>1. target[t] \in Dispatches /\ want[t] \in Details
    BY <1>6 DEF Resolve, SessionsOK, TypeOK
  <2>2. RowsJudged(target[t], want[t]) \subseteq Lockable
    BY DEF RowsJudged, Lockable, Resources, ResourcesOf, Conflicts, TypeOK, Details, Reserving
  <2>3. append' \in [Txns -> SUBSET Evidence]
    BY <1>6, <2>1, EvidenceRowsTyped DEF Resolve, TypeOK
  <2>4. QED BY <1>6, <2>2, <2>3 DEF Resolve, TypeOK, rows
<1>7. ASSUME NEW t \in Txns, CommitCreate(t)
      PROVE  TypeOK'
  <2>1. target[t] \in Dispatches /\ want[t] \in Details
    BY <1>7 DEF CommitCreate, SessionsOK, TypeOK
  <2>2. want[t] # None
    BY <2>1, NoneAssumption DEF Details
  <2>3. QED BY <1>7, <2>1, <2>2, FinishTyped, RecordTyped DEF CommitCreate, TypeOK, Statuses
<1>8. ASSUME NEW t \in Txns, CommitUpdate(t)
      PROVE  TypeOK'
  <2>1. target[t] \in Dispatches /\ want[t] \in Details
    BY <1>8 DEF CommitUpdate, SessionsOK, TypeOK
  <2>2. want[t] # None
    BY <2>1, NoneAssumption DEF Details
  <2>3. QED BY <1>8, <2>1, <2>2, FinishTyped DEF CommitUpdate, TypeOK
<1>9. ASSUME NEW t \in Txns, CommitDispatch(t)
      PROVE  TypeOK'
  <2>1. target[t] \in Dispatches /\ status[target[t]] # "ABSENT"
    BY <1>9 DEF CommitDispatch, SessionsOK, TypeOK
  <2>2. QED BY <1>9, <2>1, FinishTyped, RecordTyped DEF CommitDispatch, TypeOK, Statuses
<1>10. ASSUME NEW t \in Txns, CommitPolicy(t)
       PROVE  TypeOK'
  <2>1. settings' \in Settings
    BY <1>10, BoundsAssumption DEF CommitPolicy, TypeOK, Settings
  <2>2. QED BY <1>10, <2>1, FinishTyped DEF CommitPolicy, TypeOK
<1>11. ASSUME NEW t \in Txns, Rollback(t)
       PROVE  TypeOK'
  BY <1>11, FinishTyped DEF Rollback, TypeOK, rows
<1>12. ASSUME NEW d \in Dispatches, Complete(d) \/ Cancel(d)
       PROVE  TypeOK'
  BY <1>12, RecordTyped DEF Complete, Cancel, TypeOK, Statuses
<1>13. ASSUME NEW r \in Volatile, ChangeMasterRecord(r)
       PROVE  TypeOK'
  BY <1>13, RowsAssumption DEF ChangeMasterRecord, TypeOK
<1>14. CASE UNCHANGED vars
  BY <1>14 DEF vars, rows, TypeOK
<1>15. QED
  BY <1>1, <1>2, <1>3, <1>4, <1>5, <1>6, <1>7, <1>8, <1>9, <1>10, <1>11, <1>12, <1>13, <1>14
     DEF Next, Request, Work

(***************************************************************************)
(* The steps of one session leave the state of the others alone.           *)
(***************************************************************************)
Others(t) ==
    \A u \in Txns \ {t} :
        /\ pc'[u] = pc[u] /\ op'[u] = op[u] /\ target'[u] = target[u] /\ want'[u] = want[u]
        /\ view'[u] = view[u] /\ append'[u] = append[u]
        /\ xlocks'[u] = xlocks[u] /\ slocks'[u] = slocks[u]

\* A session that ends is idle, holds no lock, and leaves the others alone.
LEMMA FinishIdle ==
    ASSUME TypeOK, NEW t \in Txns, Finish(t)
    PROVE  /\ Others(t)
           /\ pc'[t] = "idle" /\ op'[t] = None /\ xlocks'[t] = {} /\ slocks'[t] = {}
BY DEF Finish, TypeOK, Others

\* Every step keeps what each pc says of its session.
LEMMA NextSessions == TypeOK /\ SessionsOK /\ [Next]_vars => SessionsOK'
<1> SUFFICES ASSUME TypeOK, SessionsOK, [Next]_vars
             PROVE  SessionsOK'
  OBVIOUS
<1> USE NoneAssumption
<1>1. ASSUME NEW t \in Txns, NEW d \in Dispatches, NEW details \in Details,
             NEW a \in Reviews(d, details), BeginCreate(t, d, details, a)
      PROVE  SessionsOK'
  BY <1>1 DEF BeginCreate, Start, SessionsOK, TypeOK, rows
<1>2. ASSUME NEW t \in Txns, NEW d \in Dispatches, NEW details \in Details,
             NEW a \in Reviews(d, details), BeginUpdate(t, d, details, a)
      PROVE  SessionsOK'
  BY <1>2 DEF BeginUpdate, Start, SessionsOK, TypeOK, rows
<1>3. ASSUME NEW t \in Txns, NEW d \in Dispatches, NEW details \in Details,
             NEW a \in Reviews(d, details), details = booking[d], BeginDispatch(t, d, a)
      PROVE  SessionsOK'
  <2>1. {e \in evidence : e.dispatch = d} \in SUBSET Evidence
    BY DEF TypeOK
  <2>2. [status |-> status[d], booking |-> booking[d],
         evidence |-> {e \in evidence : e.dispatch = d}] \in Views
    BY <1>3, <2>1 DEF TypeOK, Views
  <2>3. QED BY <1>3, <2>2 DEF BeginDispatch, Start, SessionsOK, TypeOK, rows
<1>4. ASSUME NEW t \in Txns, BeginPolicy(t)
      PROVE  SessionsOK'
  BY <1>4 DEF BeginPolicy, SessionsOK, TypeOK, rows
<1>5. ASSUME NEW t \in Txns, LockRows(t)
      PROVE  SessionsOK'
  <2>1. op[t] # "create" => RowRead(t) \in Views
    BY <1>5, RowReadTyped DEF LockRows
  <2>2. CASE op[t] = "create"
    BY <1>5, <2>2 DEF LockRows, SessionsOK, TypeOK, rows
  <2>3. CASE op[t] # "create"
    <3>1. op[t] = "dispatch" => RowRead(t).booking \in Details
      BY <1>5, <2>1, <2>3 DEF LockRows, Views, ResourcesOf
    <3>2. QED BY <1>5, <2>1, <2>3, <3>1 DEF LockRows, SessionsOK, TypeOK, rows
  <2>4. QED BY <2>2, <2>3
<1>6. ASSUME NEW t \in Txns, Resolve(t)
      PROVE  SessionsOK'
  BY <1>6 DEF Resolve, SessionsOK, TypeOK, rows
<1>7. ASSUME NEW t \in Txns, CommitCreate(t)
      PROVE  SessionsOK'
  <2>1. \A u \in Txns \ {t} : op[u] = "create" => target[u] # target[t]
    BY <1>7 DEF CommitCreate, SessionsOK
  <2>2. \A d \in Dispatches : status'[d] = IF d = target[t] THEN "DRAFT" ELSE status[d]
    BY <1>7 DEF CommitCreate, TypeOK
  <2>3. QED BY <1>7, <2>1, <2>2, FinishIdle DEF CommitCreate, SessionsOK, Others
<1>8. ASSUME NEW t \in Txns, CommitUpdate(t) \/ CommitPolicy(t) \/ Rollback(t)
      PROVE  SessionsOK'
  BY <1>8, FinishIdle DEF CommitUpdate, CommitPolicy, Rollback, SessionsOK, Others, rows
<1>9. ASSUME NEW t \in Txns, CommitDispatch(t)
      PROVE  SessionsOK'
  <2>1. status[target[t]] # "ABSENT"
    BY <1>9 DEF CommitDispatch, SessionsOK
  <2>2. \A d \in Dispatches : (status'[d] = "ABSENT") <=> (status[d] = "ABSENT")
    BY <1>9, <2>1 DEF CommitDispatch, TypeOK
  <2>3. QED BY <1>9, <2>2, FinishIdle DEF CommitDispatch, SessionsOK, Others
<1>10. ASSUME NEW d \in Dispatches, Complete(d) \/ Cancel(d)
       PROVE  SessionsOK'
  <2>1. \A c \in Dispatches : (status'[c] = "ABSENT") <=> (status[c] = "ABSENT")
    BY <1>10 DEF Complete, Cancel, TypeOK
  <2>2. QED BY <1>10, <2>1 DEF Complete, Cancel, SessionsOK
<1>11. ASSUME NEW r \in Volatile, ChangeMasterRecord(r)
       PROVE  SessionsOK'
  BY <1>11 DEF ChangeMasterRecord, SessionsOK
<1>12. CASE UNCHANGED vars
  BY <1>12 DEF vars, rows, SessionsOK
<1>13. QED
  BY <1>1, <1>2, <1>3, <1>4, <1>5, <1>6, <1>7, <1>8, <1>9, <1>10, <1>11, <1>12
     DEF Next, Request, Work

\* Rows, sessions and locks are well formed in every reachable state.
THEOREM TypeCorrect == Spec => [](TypeOK /\ SessionsOK)
<1>1. Init => TypeOK /\ SessionsOK
  BY InitTyped
<1>2. (TypeOK /\ SessionsOK) /\ [Next]_vars => (TypeOK /\ SessionsOK)'
  BY NextTyped, NextSessions
<1>3. QED BY <1>1, <1>2, PTL DEF Spec

-----------------------------------------------------------------------------
(***************************************************************************)
(* Locks.  A session acquires a lock only when no other session holds a    *)
(* conflicting one, and gives up its locks all at once.                    *)
(***************************************************************************)
\* Every step keeps locks as the pcs say, and exclusive.
LEMMA NextLocks == TypeOK /\ SessionsOK /\ LocksOK /\ [Next]_vars => LocksOK'
<1> SUFFICES ASSUME TypeOK, SessionsOK, LocksOK, [Next]_vars
             PROVE  LocksOK'
  OBVIOUS
<1> USE NoneAssumption
<1>1. ASSUME NEW t \in Txns, NEW d \in Dispatches, NEW details, NEW a,
             \/ BeginCreate(t, d, details, a)
             \/ BeginUpdate(t, d, details, a)
             \/ BeginDispatch(t, d, a)
      PROVE  LocksOK'
  BY <1>1 DEF BeginCreate, BeginUpdate, BeginDispatch, Start, LocksOK, TypeOK, RowLocks
<1>2. ASSUME NEW t \in Txns, BeginPolicy(t)
      PROVE  LocksOK'
  BY <1>2 DEF BeginPolicy, CanLockS, LocksOK, TypeOK, RowLocks, SessionsOK
<1>3. ASSUME NEW t \in Txns, LockRows(t)
      PROVE  LocksOK'
  <2>1. \A u \in Txns \ {t} : RowLocks(t) \cap (xlocks[u] \cup slocks[u]) = {}
    BY <1>3 DEF LockRows, CanLockX
  <2>2. /\ xlocks'[t] = RowLocks(t)
        /\ \A u \in Txns \ {t} : xlocks'[u] = xlocks[u]
        /\ slocks' = slocks
    BY <1>3 DEF LockRows, TypeOK
  <2>3. \A u \in Txns \ {t} : xlocks[u] \cap slocks[t] = {}
    BY DEF LocksOK
  <2>4. ResourcesOf(want'[t]) = ResourcesOf(want[t]) /\ op' = op /\ target' = target
    BY <1>3 DEF LockRows, TypeOK
  <2>5. RowLocks(t)' = RowLocks(t)
    BY <2>4 DEF RowLocks
  <2>6. \A u \in Txns \ {t} : RowLocks(u)' = RowLocks(u) /\ pc'[u] = pc[u]
    BY <1>3 DEF LockRows, TypeOK, RowLocks
  <2>7. QED BY <2>1, <2>2, <2>3, <2>4, <2>5, <2>6 DEF LocksOK
<1>4. ASSUME NEW t \in Txns, Resolve(t)
      PROVE  LocksOK'
  <2>1. \A u \in Txns \ {t} : RowsJudged(target[t], want[t]) \cap xlocks[u] = {}
    BY <1>4 DEF Resolve, CanLockS
  <2>2. /\ slocks'[t] = RowsJudged(target[t], want[t])
        /\ \A u \in Txns \ {t} : slocks'[u] = slocks[u]
        /\ xlocks' = xlocks
    BY <1>4 DEF Resolve, TypeOK
  <2>3. \A u \in Txns : RowLocks(u)' = RowLocks(u)
    BY <1>4 DEF Resolve, RowLocks
  <2>4. QED BY <1>4, <2>1, <2>2, <2>3 DEF Resolve, LocksOK, TypeOK
<1>5. ASSUME NEW t \in Txns, Finish(t)
      PROVE  LocksOK'
  <2>1. \A u \in Txns \ {t} : RowLocks(u)' = RowLocks(u)
    BY <1>5, FinishIdle DEF Others, RowLocks
  <2>2. QED BY <1>5, <2>1, FinishIdle DEF LocksOK, Others
<1>6. ASSUME UNCHANGED <<pc, op, target, want, xlocks, slocks>>
      PROVE  LocksOK'
  BY <1>6 DEF LocksOK, RowLocks
<1>7. QED
  BY <1>1, <1>2, <1>3, <1>4, <1>5, <1>6
     DEF Next, Request, Work, CommitCreate, CommitUpdate, CommitDispatch, CommitPolicy, Rollback,
         Complete, Cancel, ChangeMasterRecord, vars

(***************************************************************************)
(* Reads.  An update reads its row for the first time under the lock it    *)
(* needs, and whoever would change the row needs that lock.  A dispatch    *)
(* has only the view of its discovery; what it judges is the booking there.*)
(***************************************************************************)
\* Two sessions that have locked their dispatches have different ones.
LEMMA HoldsTarget ==
    ASSUME SessionsOK, LocksOK, NEW t \in Txns, NEW u \in Txns \ {t},
           op[t] \in {"update", "dispatch"}, pc[t] \in {"locked", "resolved"},
           op[u] \in {"update", "dispatch"}, pc[u] \in {"locked", "resolved"}
    PROVE  target[t] # target[u]
<1>1. target[t] \in xlocks[t] /\ target[u] \in xlocks[u]
  BY DEF LocksOK, RowLocks
<1>2. xlocks[t] \cap xlocks[u] = {}
  BY DEF LocksOK
<1>3. QED BY <1>1, <1>2

\* A dispatch nobody has locked is not the one a session has locked.
LEMMA HeldRow ==
    ASSUME LocksOK, NEW t \in Txns, NEW d, Unlocked(d),
           op[t] \in {"update", "dispatch"}, pc[t] \in {"locked", "resolved"}
    PROVE  target[t] # d
<1>1. target[t] \in xlocks[t]
  BY DEF LocksOK, RowLocks
<1>2. QED BY <1>1 DEF Unlocked

\* Every step keeps what sessions have read as ReadsStand says.
LEMMA NextReads ==
    TypeOK /\ SessionsOK /\ LocksOK /\ ReadsStand /\ [Next]_vars => ReadsStand'
<1> SUFFICES ASSUME TypeOK, SessionsOK, LocksOK, ReadsStand, [Next]_vars
             PROVE  ReadsStand'
  OBVIOUS
<1> USE NoneAssumption
<1>1. ASSUME NEW t \in Txns, NEW d \in Dispatches, NEW details, NEW a,
             BeginCreate(t, d, details, a) \/ BeginUpdate(t, d, details, a)
      PROVE  ReadsStand'
  BY <1>1 DEF BeginCreate, BeginUpdate, Start, ReadsStand, TypeOK, rows
<1>2. ASSUME NEW t \in Txns, NEW d \in Dispatches, NEW a, BeginDispatch(t, d, a)
      PROVE  ReadsStand'
  <2>1. /\ op'[t] = "dispatch" /\ pc'[t] = "begun" /\ want'[t] = booking[d]
        /\ view'[t] = [status |-> status[d], booking |-> booking[d],
                       evidence |-> {e \in evidence : e.dispatch = d}]
        /\ evidence' = evidence /\ status' = status
        /\ \A u \in Txns \ {t} : /\ op'[u] = op[u] /\ pc'[u] = pc[u] /\ want'[u] = want[u]
                                 /\ view'[u] = view[u] /\ target'[u] = target[u]
    BY <1>2 DEF BeginDispatch, Start, TypeOK, rows
  <2>2. view'[t].booking = booking[d] /\ view'[t].evidence \subseteq evidence
    BY <2>1
  <2>3. QED BY <2>1, <2>2 DEF ReadsStand
<1>3. ASSUME NEW t \in Txns, BeginPolicy(t)
      PROVE  ReadsStand'
  BY <1>3 DEF BeginPolicy, ReadsStand, TypeOK, rows
<1>4. ASSUME NEW t \in Txns, LockRows(t)
      PROVE  ReadsStand'
  <2>1. CASE op[t] = "create"
    BY <1>4, <2>1 DEF LockRows, ReadsStand, TypeOK, rows
  <2>2. CASE op[t] # "create"
    <3>1. op[t] = "update" => RowRead(t).status = status[target[t]]
      BY DEF RowRead
    <3>2. op[t] = "dispatch" => RowRead(t) = view[t]
      BY DEF RowRead
    <3>3. \A u \in Txns \ {t} : view'[u] = view[u] /\ want'[u] = want[u] /\ pc'[u] = pc[u]
      BY <1>4 DEF LockRows, TypeOK
    <3>4. /\ view'[t] = RowRead(t) /\ pc'[t] = "locked"
          /\ op[t] = "dispatch" => want'[t] = RowRead(t).booking
      BY <1>4, <2>2 DEF LockRows, TypeOK
    <3>5. op' = op /\ target' = target /\ status' = status /\ evidence' = evidence
      BY <1>4 DEF LockRows, rows
    <3>6. QED BY <3>1, <3>2, <3>3, <3>4, <3>5 DEF ReadsStand
  <2>3. QED BY <2>1, <2>2
<1>5. ASSUME NEW t \in Txns, Resolve(t)
      PROVE  ReadsStand'
  BY <1>5 DEF Resolve, StatusAllows, ReadsStand, TypeOK, rows
<1>6. ASSUME NEW t \in Txns, Finish(t), evidence \subseteq evidence',
             \A d \in Dispatches : (\A u \in Txns \ {t} : op[u] \in {"update", "dispatch"} /\
                                        pc[u] \in {"locked", "resolved"} => target[u] # d)
                 \/ status'[d] = status[d]
      PROVE  ReadsStand'
  <2>1. op'[t] = None
    BY <1>6, FinishIdle
  <2>2. ASSUME NEW u \in Txns \ {t}
        PROVE  /\ pc'[u] = pc[u] /\ op'[u] = op[u] /\ target'[u] = target[u]
               /\ want'[u] = want[u] /\ view'[u] = view[u]
    BY <1>6, <2>2, FinishIdle DEF Others
  <2>3. ASSUME NEW u \in Txns \ {t}, op[u] = "update", pc[u] \in {"locked", "resolved"}
        PROVE  status'[target[u]] = status[target[u]]
    <3>1. target[u] \in Dispatches
      BY <2>3 DEF SessionsOK
    <3>2. QED BY <1>6, <2>3, <3>1
  <2>4. QED BY <1>6, <2>1, <2>2, <2>3 DEF ReadsStand
<1>7. ASSUME NEW t \in Txns, CommitCreate(t)
      PROVE  ReadsStand'
  <2>1. status[target[t]] = "ABSENT" /\ target[t] \in Dispatches
    BY <1>7 DEF CommitCreate, SessionsOK
  <2>2. \A u \in Txns \ {t} : op[u] \in {"update", "dispatch"} => target[u] # target[t]
    BY <2>1 DEF SessionsOK
  <2>3. QED BY <1>6, <1>7, <2>2 DEF CommitCreate, TypeOK
<1>8. ASSUME NEW t \in Txns, CommitUpdate(t) \/ CommitDispatch(t)
      PROVE  ReadsStand'
  <2>1. \A u \in Txns \ {t} : op[u] \in {"update", "dispatch"} /\
            pc[u] \in {"locked", "resolved"} => target[u] # target[t]
    BY <1>8, HoldsTarget DEF CommitUpdate, CommitDispatch
  <2>2. QED BY <1>6, <1>8, <2>1 DEF CommitUpdate, CommitDispatch, TypeOK
<1>9. ASSUME NEW t \in Txns, CommitPolicy(t) \/ Rollback(t)
      PROVE  ReadsStand'
  BY <1>6, <1>9 DEF CommitPolicy, Rollback, rows
<1>10. ASSUME NEW d \in Dispatches, Complete(d) \/ Cancel(d)
       PROVE  ReadsStand'
  <2>1. \A u \in Txns : op[u] \in {"update", "dispatch"} /\
            pc[u] \in {"locked", "resolved"} => target[u] # d
    BY <1>10, HeldRow DEF Complete, Cancel
  <2>2. \A c \in Dispatches : c # d => status'[c] = status[c]
    BY <1>10 DEF Complete, Cancel, TypeOK
  <2>3. UNCHANGED <<evidence, pc, op, target, want, view>>
    BY <1>10 DEF Complete, Cancel
  <2>4. \A u \in Txns : op[u] = "update" => target[u] \in Dispatches
    BY DEF SessionsOK
  <2>5. QED BY <2>1, <2>2, <2>3, <2>4 DEF ReadsStand
<1>11. ASSUME NEW r \in Volatile, ChangeMasterRecord(r)
       PROVE  ReadsStand'
  BY <1>11 DEF ChangeMasterRecord, ReadsStand
<1>12. CASE UNCHANGED vars
  BY <1>12 DEF vars, rows, ReadsStand
<1>13. QED
  BY <1>1, <1>2, <1>3, <1>4, <1>5, <1>7, <1>8, <1>9, <1>10, <1>11, <1>12
     DEF Next, Request, Work

-----------------------------------------------------------------------------
(***************************************************************************)
(* Judgments.  A conflict with the booking a transaction has judged could  *)
(* appear by another commit on the same driver or vehicle, whose locks the *)
(* transaction holds, or by a dispatch that goes out on an out-of-date     *)
(* view, which locks neither.                                              *)
(***************************************************************************)
Judged(t) == op[t] \in Writers /\ pc[t] = "resolved"

\* The step leaves what session u works on alone.
LeavesAlone(u) ==
    /\ op'[u] = op[u] /\ target'[u] = target[u] /\ want'[u] = want[u] /\ ack'[u] = ack[u]
    /\ append'[u] = append[u] /\ slocks'[u] = slocks[u]

\* The step makes no dispatch a conflict of u's booking that was none before,
\* except one that goes out, or went out, on an out-of-date view.
NoNewConflict(u) ==
    \A c \in (Dispatches \ {target[u]}) \ overtaken' :
        status'[c] \in Reserving /\ SharesResource(want[u], booking'[c]) =>
            status[c] \in Reserving /\ booking'[c] = booking[c]

\* A session that has judged after a step did so in it, or had before.
LEMMA JudgedKept ==
    ASSUME TypeOK, SessionsOK, [Next]_vars, NEW u \in Txns, Judged(u)'
    PROVE  Resolve(u) \/ (Judged(u) /\ LeavesAlone(u))
<1> USE NoneAssumption
<1>1. ASSUME NEW t \in Txns, NEW d \in Dispatches, NEW details, NEW a,
             \/ BeginCreate(t, d, details, a)
             \/ BeginUpdate(t, d, details, a)
             \/ BeginDispatch(t, d, a)
      PROVE  Judged(u) /\ LeavesAlone(u)
  BY <1>1 DEF BeginCreate, BeginUpdate, BeginDispatch, Start, Judged, LeavesAlone, TypeOK
<1>2. ASSUME NEW t \in Txns, BeginPolicy(t)
      PROVE  Judged(u) /\ LeavesAlone(u)
  BY <1>2 DEF BeginPolicy, Judged, LeavesAlone, TypeOK
<1>3. ASSUME NEW t \in Txns, LockRows(t)
      PROVE  Judged(u) /\ LeavesAlone(u)
  <2>1. u # t /\ pc'[u] = pc[u]
    BY <1>3 DEF LockRows, Judged, TypeOK
  <2>2. want'[u] = want[u]
    BY <1>3, <2>1 DEF LockRows, TypeOK
  <2>3. QED BY <1>3, <2>1, <2>2 DEF LockRows, Judged, LeavesAlone
<1>4. ASSUME NEW t \in Txns, Resolve(t)
      PROVE  Resolve(u) \/ (Judged(u) /\ LeavesAlone(u))
  <2>1. CASE u = t
    BY <1>4, <2>1
  <2>2. CASE u # t
    BY <1>4, <2>2 DEF Resolve, Judged, LeavesAlone, TypeOK
  <2>3. QED BY <2>1, <2>2
<1>5. ASSUME NEW t \in Txns, Finish(t)
      PROVE  Judged(u) /\ LeavesAlone(u)
  <2>1. u # t
    BY <1>5, FinishIdle DEF Judged
  <2>2. QED BY <1>5, <2>1 DEF Finish, Judged, LeavesAlone, TypeOK
<1>6. ASSUME UNCHANGED <<pc, op, target, want, ack, append, slocks>>
      PROVE  Judged(u) /\ LeavesAlone(u)
  BY <1>6 DEF Judged, LeavesAlone
<1>7. QED
  BY <1>1, <1>2, <1>3, <1>4, <1>5, <1>6
     DEF Next, Request, Work, CommitCreate, CommitUpdate, CommitDispatch, CommitPolicy, Rollback,
         Complete, Cancel, ChangeMasterRecord, vars

\* Evidence is only added, and what went out on an out-of-date view stays known.
LEMMA HistoryGrows ==
    ASSUME [Next]_vars
    PROVE  evidence \subseteq evidence' /\ overtaken \subseteq overtaken'
<1>1. ASSUME NEW t \in Txns, CommitCreate(t) \/ CommitUpdate(t) \/ CommitDispatch(t)
      PROVE  evidence \subseteq evidence' /\ overtaken \subseteq overtaken'
  BY <1>1 DEF CommitCreate, CommitUpdate, CommitDispatch
<1>2. CASE UNCHANGED <<evidence, overtaken>>
  BY <1>2
<1>3. QED
  BY <1>1, <1>2
     DEF Next, Request, Work, BeginCreate, BeginUpdate, BeginDispatch, BeginPolicy, Start,
         LockRows, Resolve, CommitPolicy, Rollback, Complete, Cancel, ChangeMasterRecord,
         vars, rows

\* A dispatch that goes out on a current view was a draft, and is the booking judged.
LEMMA FreshDispatch ==
    ASSUME SessionsOK, ReadsStand, NEW t \in Txns, CommitDispatch(t), target[t] \notin overtaken'
    PROVE  target[t] \in Dispatches /\ status[target[t]] = "DRAFT" /\ want[t] = booking[target[t]]
<1>1. ~Overtaken(t)
  BY DEF CommitDispatch
<1>2. view[t].status = "DRAFT" /\ want[t] = view[t].booking
  BY DEF CommitDispatch, ReadsStand
<1>3. QED BY <1>1, <1>2 DEF Overtaken, CommitDispatch, SessionsOK

\* An update that commits has found a draft, and still has it.
LEMMA UpdatesDraft ==
    ASSUME SessionsOK, ReadsStand, NEW t \in Txns, CommitUpdate(t)
    PROVE  target[t] \in Dispatches /\ status[target[t]] = "DRAFT"
BY DEF CommitUpdate, ReadsStand, SessionsOK

\* Two sessions with judged bookings hold locks that exclude, so they share nothing.
LEMMA SharersLock ==
    ASSUME SessionsOK, LocksOK, NEW t \in Txns, NEW u \in Txns \ {t}, Judged(t), Judged(u)
    PROVE  ~SharesResource(want[t], want[u])
<1>1. {want[t].driver, want[t].vehicle} \subseteq xlocks[t]
  BY DEF Judged, LocksOK, RowLocks, ResourcesOf
<1>2. {want[u].driver, want[u].vehicle} \subseteq xlocks[u]
  BY DEF Judged, LocksOK, RowLocks, ResourcesOf
<1>3. xlocks[t] \cap xlocks[u] = {}
  BY DEF LocksOK
<1>4. QED BY <1>1, <1>2, <1>3 DEF SharesResource

\* No step gives a session a conflict it has not judged.
LEMMA StepAddsNoConflict ==
    ASSUME TypeOK, SessionsOK, LocksOK, ReadsStand, [Next]_vars,
           NEW u \in Txns, Judged(u), Judged(u)'
    PROVE  NoNewConflict(u)
<1>1. ASSUME NEW t \in Txns, CommitCreate(t) \/ CommitUpdate(t)
      PROVE  NoNewConflict(u)
  <2>1. Judged(t) /\ Finish(t)
    BY <1>1 DEF CommitCreate, CommitUpdate, Judged
  <2>2. u # t
    BY <2>1, FinishIdle DEF Judged
  <2>3. \A c \in Dispatches : c # target[t] => status'[c] = status[c] /\ booking'[c] = booking[c]
    BY <1>1 DEF CommitCreate, CommitUpdate, TypeOK
  <2>4. target[t] \in Dispatches =>
            \/ booking'[target[t]] = want[t]
            \/ booking'[target[t]] = booking[target[t]] /\ status' = status
    BY <1>1 DEF CommitCreate, CommitUpdate, TypeOK
  <2>5. ~SharesResource(want[u], want[t])
    BY <2>1, <2>2, SharersLock
  <2>6. QED BY <2>3, <2>4, <2>5 DEF NoNewConflict
<1>2. ASSUME NEW t \in Txns, CommitDispatch(t)
      PROVE  NoNewConflict(u)
  <2>1. \A c \in Dispatches : c # target[t] => status'[c] = status[c]
    BY <1>2 DEF CommitDispatch, TypeOK
  <2>2. target[t] \notin overtaken' => status[target[t]] \in Reserving
    BY <1>2, FreshDispatch DEF Reserving
  <2>3. QED BY <1>2, <2>1, <2>2 DEF CommitDispatch, NoNewConflict
<1>3. ASSUME NEW d \in Dispatches, Complete(d) \/ Cancel(d)
      PROVE  NoNewConflict(u)
  BY <1>3 DEF Complete, Cancel, TypeOK, Reserving, NoNewConflict
<1>4. CASE UNCHANGED <<status, booking>>
  BY <1>4 DEF NoNewConflict
<1>5. QED
  BY <1>1, <1>2, <1>3, <1>4
     DEF Next, Request, Work, BeginCreate, BeginUpdate, BeginDispatch, BeginPolicy, Start,
         LockRows, Resolve, CommitPolicy, Rollback, ChangeMasterRecord, vars, rows

\* So a conflict it has after the step, it had before, of the same kind.
LEMMA ConflictsKept ==
    ASSUME TypeOK, SessionsOK, LocksOK, ReadsStand, [Next]_vars,
           NEW u \in Txns, Judged(u), Judged(u)', LeavesAlone(u),
           NEW c \in (Conflicts(target[u], want[u]) \ overtaken)'
    PROVE  /\ c \in Conflicts(target[u], want[u]) \ overtaken
           /\ ConflictType(want[u], booking[c])' = ConflictType(want[u], booking[c])
<1>1. NoNewConflict(u)
  BY StepAddsNoConflict
<1>2. c \notin overtaken
  BY HistoryGrows
<1>3. target'[u] = target[u] /\ want'[u] = want[u]
  BY DEF LeavesAlone
<1>4. /\ c \in (Dispatches \ {target[u]}) \ overtaken' /\ status'[c] \in Reserving
      /\ SharesResource(want[u], booking'[c])
  BY <1>3 DEF Conflicts
<1>5. status[c] \in Reserving /\ booking'[c] = booking[c]
  BY <1>1, <1>4 DEF NoNewConflict
<1>6. QED BY <1>2, <1>3, <1>4, <1>5 DEF Conflicts, ConflictType

\* A judgment covers every conflict of the state it is made in.
LEMMA ResolveJudges ==
    ASSUME TypeOK, ReadsStand, NEW t \in Txns, Resolve(t)
    PROVE  \A c \in Conflicts(target[t], want[t]) :
               \E e \in evidence \cup append'[t] :
                   Acknowledges(e, target[t], c, ConflictType(want[t], booking[c]))
<1>1. PICK accepted \in {{}, EvidenceRows(target[t], want[t])} :
          Judge(t, accepted) /\ append'[t] = accepted
  BY DEF Resolve, TypeOK
<1>2. op[t] = "dispatch" => view[t].evidence \subseteq evidence
  BY DEF ReadsStand
<1>3. Conflicts(target[t], want[t]) = {} \/
          EvidenceRows(target[t], want[t]) \subseteq evidence \cup accepted
  BY <1>1, <1>2 DEF Judge, Covered
<1>4. ASSUME NEW c \in Conflicts(target[t], want[t])
      PROVE  \E e \in evidence \cup append'[t] :
                 Acknowledges(e, target[t], c, ConflictType(want[t], booking[c]))
  <2> DEFINE row == [dispatch |-> target[t], conflicting |-> c,
                     type |-> ConflictType(want[t], booking[c])]
  <2>1. row \in EvidenceRows(target[t], want[t])
    BY DEF EvidenceRows
  <2>2. row \in evidence \cup append'[t]
    BY <1>1, <1>3, <2>1
  <2>3. Acknowledges(row, target[t], c, ConflictType(want[t], booking[c]))
    BY DEF Acknowledges
  <2>4. QED BY <2>2, <2>3
<1>5. QED BY <1>4

\* Resolving reads the rows, and leaves them and what is judged alone.
LEMMA ResolveReads ==
    ASSUME NEW t \in Txns, Resolve(t)
    PROVE  UNCHANGED <<status, booking, settings, evidence, overtaken, op, target, want, ack>>
BY DEF Resolve, rows

\* Every step keeps what sessions have judged true.
LEMMA NextJudgments == TypeOK /\ TransactionsOK /\ [Next]_vars => JudgmentsStand'
<1> SUFFICES ASSUME TypeOK, SessionsOK, LocksOK, ReadsStand, JudgmentsStand, [Next]_vars,
                    NEW u \in Txns, Judged(u)',
                    NEW c \in (Conflicts(target[u], want[u]) \ overtaken)'
             PROVE  \E e \in (evidence \cup append[u])' :
                        Acknowledges(e, target[u], c, ConflictType(want[u], booking[c]))'
  BY DEF TransactionsOK, JudgmentsStand, Judged
<1>1. CASE Resolve(u)
  <2>1. /\ Conflicts(target[u], want[u])' = Conflicts(target[u], want[u])
        /\ evidence' = evidence /\ target' = target /\ want' = want /\ booking' = booking
    BY <1>1, ResolveReads DEF Conflicts
  <2>2. c \in Conflicts(target[u], want[u])
    BY <2>1
  <2>3. QED BY <1>1, <2>1, <2>2, ResolveJudges DEF Acknowledges, ConflictType
<1>2. CASE Judged(u) /\ LeavesAlone(u)
  <2>1. /\ c \in Conflicts(target[u], want[u]) \ overtaken
        /\ ConflictType(want[u], booking[c])' = ConflictType(want[u], booking[c])
    BY <1>2, ConflictsKept
  <2>2. PICK e \in evidence \cup append[u] :
            Acknowledges(e, target[u], c, ConflictType(want[u], booking[c]))
    BY <1>2, <2>1 DEF JudgmentsStand, Judged
  <2>3. e \in (evidence \cup append[u])'
    BY <1>2, HistoryGrows DEF LeavesAlone
  <2>4. Acknowledges(e, target[u], c, ConflictType(want[u], booking[c]))'
    BY <1>2, <2>1, <2>2 DEF LeavesAlone, Acknowledges
  <2>5. QED BY <2>3, <2>4
<1>3. QED BY <1>1, <1>2, JudgedKept

-----------------------------------------------------------------------------
(***************************************************************************)
(* Double booking                                                          *)
(***************************************************************************)
\* Sharing a resource and the kind of conflict are symmetric.
LEMMA ConflictSymmetric ==
    \A a, b : /\ SharesResource(a, b) <=> SharesResource(b, a)
              /\ ConflictType(a, b) = ConflictType(b, a)
BY DEF SharesResource, ConflictType

\* Writing the booking a transaction was judged for leaves no double booking
\* unacknowledged.
LEMMA CommitAcknowledged ==
    ASSUME TypeOK, SessionsOK, JudgmentsStand, NoUnacknowledgedDoubleBooking,
           NEW t \in Txns, Judged(t), booking'[target[t]] = want[t],
           evidence' = evidence \cup append[t], overtaken' = overtaken,
           \A c \in Dispatches : c # target[t] => status'[c] = status[c] /\ booking'[c] = booking[c]
    PROVE  NoUnacknowledgedDoubleBooking'
<1>1. ASSUME NEW c \in Dispatches \ overtaken, c # target[t], status'[c] \in Reserving,
             SharesResource(want[t], booking'[c])
      PROVE  \E e \in evidence' :
                 Acknowledges(e, target[t], c, ConflictType(want[t], booking'[c]))
  BY <1>1 DEF JudgmentsStand, Judged, Conflicts
<1>2. ASSUME NEW d \in Dispatches \ overtaken, NEW c \in Dispatches \ overtaken, c # d,
             status'[d] \in Reserving, status'[c] \in Reserving,
             SharesResource(booking'[d], booking'[c])
      PROVE  \E e \in evidence' :
                 Acknowledges(e, d, c, ConflictType(booking'[d], booking'[c]))
  <2>1. CASE d = target[t]
    BY <1>1, <1>2, <2>1
  <2>2. CASE c = target[t]
    <3>1. PICK e \in evidence' :
              Acknowledges(e, c, d, ConflictType(booking'[c], booking'[d]))
      BY <1>1, <1>2, <2>2, ConflictSymmetric
    <3>2. Acknowledges(e, d, c, ConflictType(booking'[d], booking'[c]))
      BY <3>1, ConflictSymmetric DEF Acknowledges
    <3>3. QED BY <3>2
  <2>3. CASE d # target[t] /\ c # target[t]
    BY <1>2, <2>3 DEF NoUnacknowledgedDoubleBooking
  <2>4. QED BY <2>1, <2>2, <2>3
<1>3. QED BY <1>2 DEF NoUnacknowledgedDoubleBooking, Acknowledges

\* A step that starts no reservation and moves no booking adds no double booking,
\* but with what it sends out on an out-of-date view.
LEMMA NoNewReservation ==
    ASSUME NoUnacknowledgedDoubleBooking, evidence \subseteq evidence', booking' = booking,
           overtaken \subseteq overtaken',
           \A c \in Dispatches \ overtaken' : status'[c] \in Reserving => status[c] \in Reserving
    PROVE  NoUnacknowledgedDoubleBooking'
BY DEF NoUnacknowledgedDoubleBooking, Acknowledges

\* No step makes a double booking that nobody acknowledged.
LEMMA NextDoubleBooking ==
    TypeOK /\ TransactionsOK /\ NoUnacknowledgedDoubleBooking /\ [Next]_vars
        => NoUnacknowledgedDoubleBooking'
<1> SUFFICES ASSUME TypeOK, SessionsOK, LocksOK, ReadsStand, JudgmentsStand,
                    NoUnacknowledgedDoubleBooking, [Next]_vars
             PROVE  NoUnacknowledgedDoubleBooking'
  BY DEF TransactionsOK
<1>1. ASSUME NEW t \in Txns, CommitCreate(t)
      PROVE  NoUnacknowledgedDoubleBooking'
  <2>1. Judged(t) /\ target[t] \in Dispatches
    BY <1>1 DEF CommitCreate, Judged, SessionsOK
  <2>2. QED BY <1>1, <2>1, CommitAcknowledged DEF CommitCreate, TypeOK
<1>2. ASSUME NEW t \in Txns, CommitUpdate(t)
      PROVE  NoUnacknowledgedDoubleBooking'
  <2>1. Judged(t) /\ target[t] \in Dispatches /\ status[target[t]] = "DRAFT"
    BY <1>2, UpdatesDraft DEF CommitUpdate, Judged
  <2>2. QED BY <1>2, <2>1, CommitAcknowledged DEF CommitUpdate, TypeOK
<1>3. ASSUME NEW t \in Txns, CommitDispatch(t)
      PROVE  NoUnacknowledgedDoubleBooking'
  <2>1. target[t] \notin overtaken' => status[target[t]] = "DRAFT"
    BY <1>3, FreshDispatch
  <2>2. overtaken \subseteq overtaken' /\ evidence \subseteq evidence'
    BY HistoryGrows
  <2>3. QED BY <1>3, <2>1, <2>2, NoNewReservation DEF CommitDispatch, TypeOK, Reserving
<1>4. ASSUME NEW d \in Dispatches, Complete(d) \/ Cancel(d)
      PROVE  NoUnacknowledgedDoubleBooking'
  BY <1>4, NoNewReservation DEF Complete, Cancel, TypeOK, Reserving
<1>5. ASSUME UNCHANGED <<status, booking, evidence, overtaken>>
      PROVE  NoUnacknowledgedDoubleBooking'
  BY <1>5, NoNewReservation
<1>6. QED
  BY <1>1, <1>2, <1>3, <1>4, <1>5
     DEF Next, Request, Work, BeginCreate, BeginUpdate, BeginDispatch, BeginPolicy, Start,
         LockRows, Resolve, CommitPolicy, Rollback, ChangeMasterRecord, vars, rows

\* What every transaction relies on when it commits (TransactionsOK): its locks
\* are its own, an update's row is as it read it, and it has judged every conflict
\* of its booking but those with what went out on an out-of-date view.
THEOREM ReadsAndJudgmentsStand == Spec => []TransactionsOK
<1>1. Init => TypeOK /\ TransactionsOK
  BY InitTyped, NoneAssumption
     DEF Init, TransactionsOK, LocksOK, ReadsStand, JudgmentsStand
<1>2. TypeOK /\ TransactionsOK /\ [Next]_vars => (TypeOK /\ TransactionsOK)'
  BY NextTyped, NextSessions, NextLocks, NextReads, NextJudgments DEF TransactionsOK
<1>3. QED BY <1>1, <1>2, PTL DEF Spec

\* No driver and no vehicle is booked twice on a day without an acknowledgment of
\* that kind of conflict by one of the two, unless one of the two was dispatched
\* on an out-of-date view of its row (NoUnacknowledgedDoubleBooking).
THEOREM DoubleBookingAcknowledged == Spec => []NoUnacknowledgedDoubleBooking
<1>1. Init => TypeOK /\ TransactionsOK /\ NoUnacknowledgedDoubleBooking
  BY InitTyped, NoneAssumption
     DEF Init, TransactionsOK, LocksOK, ReadsStand, JudgmentsStand,
         NoUnacknowledgedDoubleBooking, Reserving
<1>2. TypeOK /\ TransactionsOK /\ NoUnacknowledgedDoubleBooking /\ [Next]_vars
          => (TypeOK /\ TransactionsOK /\ NoUnacknowledgedDoubleBooking)'
  BY NextTyped, NextSessions, NextLocks, NextReads, NextJudgments, NextDoubleBooking
     DEF TransactionsOK
<1>3. QED BY <1>1, <1>2, PTL DEF Spec

-----------------------------------------------------------------------------
(***************************************************************************)
(* A trail grows to one of two or three actions.                           *)
(***************************************************************************)
LEMMA AppendSecond ==
    ASSUME NEW S, NEW a \in S, NEW b \in S
    PROVE  Append(<<a>>, b) = <<a, b>>
<1>1. <<a>> \in Seq(S) /\ <<a, b>> \in Seq(S) /\ Len(<<a>>) = 1 /\ Len(<<a, b>>) = 2
  OBVIOUS
<1>2. Append(<<a>>, b) \in Seq(S) /\ Len(Append(<<a>>, b)) = 2
  BY <1>1
<1>3. Append(<<a>>, b)[1] = a /\ Append(<<a>>, b)[2] = b
  BY <1>1
<1>4. \A i \in 1 .. Len(Append(<<a>>, b)) : Append(<<a>>, b)[i] = <<a, b>>[i]
  <2>1. ASSUME NEW i \in 1 .. Len(Append(<<a>>, b))
        PROVE  i = 1 \/ i = 2
    BY <1>2
  <2>2. QED
    BY <1>3, <2>1
<1>5. QED
  BY <1>1, <1>2, <1>4, SeqEqual

\* What appending to a pair gives, element by element.
LEMMA AppendThird ==
    ASSUME NEW S, NEW a \in S, NEW b \in S, NEW c \in S
    PROVE  Append(<<a, b>>, c) = <<a, b, c>>
<1>1. <<a, b>> \in Seq(S) /\ <<a, b, c>> \in Seq(S) /\ Len(<<a, b>>) = 2 /\ Len(<<a, b, c>>) = 3
  OBVIOUS
<1>2. Append(<<a, b>>, c) \in Seq(S) /\ Len(Append(<<a, b>>, c)) = 3
  BY <1>1
<1>3. Append(<<a, b>>, c)[1] = a /\ Append(<<a, b>>, c)[2] = b /\ Append(<<a, b>>, c)[3] = c
  BY <1>1
<1>4. \A i \in 1 .. Len(Append(<<a, b>>, c)) : Append(<<a, b>>, c)[i] = <<a, b, c>>[i]
  <2>1. ASSUME NEW i \in 1 .. Len(Append(<<a, b>>, c))
        PROVE  i = 1 \/ i = 2 \/ i = 3
    BY <1>2
  <2>2. QED
    BY <1>3, <2>1
<1>5. QED
  BY <1>1, <1>2, <1>4, SeqEqual

\* The trails of a dispatch, each as the one before with an event more.
LEMMA TrailsGrow ==
    /\ Append(<<"created">>, "dispatched") = <<"created", "dispatched">>
    /\ Append(<<"created">>, "cancelled") = <<"created", "cancelled">>
    /\ Append(<<"created", "dispatched">>, "completed") = <<"created", "dispatched", "completed">>
    /\ Append(<<"created", "dispatched">>, "cancelled") = <<"created", "dispatched", "cancelled">>
<1> DEFINE S == {"created", "dispatched", "completed", "cancelled"}
<1>1. "created" \in S /\ "dispatched" \in S /\ "completed" \in S /\ "cancelled" \in S
  OBVIOUS
<1> HIDE DEF S
<1>2. QED
  BY <1>1, AppendSecond, AppendThird

(***************************************************************************)
(* The lifecycle.  A session that dispatches on a current view of the row  *)
(* dispatches a draft, so the trail fits the status unless the dispatch    *)
(* went out on an out-of-date one.                                         *)
(***************************************************************************)
TrailFits ==
    \A d \in Dispatches \ overtaken :
        /\ status[d] = "ABSENT" => trail[d] = <<>>
        /\ status[d] = "DRAFT" => trail[d] = <<"created">>
        /\ status[d] = "DISPATCHED" => trail[d] = <<"created", "dispatched">>
        /\ status[d] = "COMPLETED" => trail[d] = <<"created", "dispatched", "completed">>
        /\ status[d] = "CANCELLED" =>
               trail[d] \in {<<"created", "cancelled">>, <<"created", "dispatched", "cancelled">>}

\* Every step writes the event its change of status calls for, or neither.
LEMMA NextTrailFits ==
    TypeOK /\ SessionsOK /\ ReadsStand /\ TrailFits /\ [Next]_vars => TrailFits'
<1> SUFFICES ASSUME TypeOK, SessionsOK, ReadsStand, TrailFits, [Next]_vars
             PROVE  TrailFits'
  OBVIOUS
<1>1. ASSUME NEW t \in Txns, CommitCreate(t)
      PROVE  TrailFits'
  <2>1. target[t] \in Dispatches /\ status[target[t]] = "ABSENT"
    BY <1>1 DEF CommitCreate, SessionsOK
  <2>2. target[t] \notin overtaken => trail[target[t]] = <<>>
    BY <2>1 DEF TrailFits
  <2>3. /\ trail'[target[t]] = Append(trail[target[t]], "created")
        /\ status'[target[t]] = "DRAFT" /\ overtaken' = overtaken
        /\ \A d \in Dispatches \ {target[t]} : trail'[d] = trail[d] /\ status'[d] = status[d]
    BY <1>1, <2>1 DEF CommitCreate, Record, TypeOK
  <2>4. Append(<<>>, "created") = <<"created">>
    OBVIOUS
  <2>5. target[t] \notin overtaken => trail'[target[t]] = <<"created">>
    BY <2>2, <2>3, <2>4, Zenon
  <2>6. QED BY <2>3, <2>5 DEF TrailFits
<1>2. ASSUME NEW t \in Txns, CommitDispatch(t)
      PROVE  TrailFits'
  <2>1. /\ trail'[target[t]] = Append(trail[target[t]], "dispatched")
        /\ status'[target[t]] = "DISPATCHED"
        /\ \A d \in Dispatches \ {target[t]} : trail'[d] = trail[d] /\ status'[d] = status[d]
        /\ overtaken \subseteq overtaken'
    BY <1>2, HistoryGrows DEF CommitDispatch, Record, TypeOK, SessionsOK
  <2>2. ASSUME target[t] \notin overtaken'
        PROVE  trail'[target[t]] = <<"created", "dispatched">>
    <3>1. target[t] \in Dispatches /\ status[target[t]] = "DRAFT"
      BY <1>2, <2>2, FreshDispatch
    <3>2. trail[target[t]] = <<"created">>
      BY <2>1, <2>2, <3>1 DEF TrailFits
    <3>3. QED BY <2>1, <3>2, TrailsGrow
  <2>3. QED BY <2>1, <2>2 DEF TrailFits
<1>3. ASSUME NEW d \in Dispatches, Complete(d)
      PROVE  TrailFits'
  <2>1. /\ trail'[d] = Append(trail[d], "completed") /\ status'[d] = "COMPLETED"
        /\ \A c \in Dispatches \ {d} : trail'[c] = trail[c] /\ status'[c] = status[c]
        /\ overtaken' = overtaken
    BY <1>3 DEF Complete, Record, TypeOK
  <2>2. d \notin overtaken => trail[d] = <<"created", "dispatched">>
    BY <1>3 DEF Complete, TrailFits
  <2>3. d \notin overtaken => trail'[d] = <<"created", "dispatched", "completed">>
    BY <2>1, <2>2, TrailsGrow
  <2>4. QED
    BY <2>1, <2>3 DEF TrailFits
<1>4. ASSUME NEW d \in Dispatches, Cancel(d)
      PROVE  TrailFits'
  <2>1. /\ trail'[d] = Append(trail[d], "cancelled") /\ status'[d] = "CANCELLED"
        /\ \A c \in Dispatches \ {d} : trail'[c] = trail[c] /\ status'[c] = status[c]
        /\ overtaken' = overtaken
    BY <1>4 DEF Cancel, Record, TypeOK
  <2>2. d \notin overtaken => trail[d] \in {<<"created">>, <<"created", "dispatched">>}
    BY <1>4 DEF Cancel, TrailFits
  <2>3. d \notin overtaken => trail'[d] \in
            {<<"created", "cancelled">>, <<"created", "dispatched", "cancelled">>}
    BY <2>1, <2>2, TrailsGrow
  <2>4. QED
    BY <2>1, <2>3 DEF TrailFits
<1>5. ASSUME UNCHANGED <<status, trail, overtaken>>
      PROVE  TrailFits'
  BY <1>5 DEF TrailFits
<1>6. QED
  BY <1>1, <1>2, <1>3, <1>4, <1>5
     DEF Next, Request, Work, BeginCreate, BeginUpdate, BeginDispatch, BeginPolicy, Start,
         LockRows, Resolve, CommitUpdate, CommitPolicy, Rollback, ChangeMasterRecord, vars, rows

\* No completed or cancelled dispatch is written again on a current view.
LEMMA TerminalKept ==
    TypeOK /\ SessionsOK /\ ReadsStand /\ [Next]_vars =>
        \A d \in Dispatches \ overtaken' : status[d] \in Terminal =>
            status'[d] = status[d] /\ booking'[d] = booking[d]
<1> SUFFICES ASSUME TypeOK, SessionsOK, ReadsStand, [Next]_vars,
                    NEW d \in Dispatches \ overtaken', status[d] \in Terminal
             PROVE  status'[d] = status[d] /\ booking'[d] = booking[d]
  OBVIOUS
<1>1. ASSUME NEW t \in Txns, CommitCreate(t)
      PROVE  status'[d] = status[d] /\ booking'[d] = booking[d]
  <2>1. status[target[t]] = "ABSENT"
    BY <1>1 DEF CommitCreate, SessionsOK
  <2>2. target[t] # d
    BY <2>1 DEF Terminal
  <2>3. QED
    BY <1>1, <2>2 DEF CommitCreate, TypeOK
<1>2. ASSUME NEW t \in Txns, CommitUpdate(t) \/ CommitDispatch(t)
      PROVE  status'[d] = status[d] /\ booking'[d] = booking[d]
  <2>1. target[t] = d => status[target[t]] = "DRAFT"
    BY <1>2, UpdatesDraft, FreshDispatch
  <2>2. target[t] # d
    BY <2>1 DEF Terminal
  <2>3. QED
    BY <1>2, <2>2 DEF CommitUpdate, CommitDispatch, TypeOK
<1>3. ASSUME NEW c \in Dispatches, Complete(c) \/ Cancel(c)
      PROVE  status'[d] = status[d] /\ booking'[d] = booking[d]
  BY <1>3 DEF Complete, Cancel, Terminal, TypeOK
<1>4. ASSUME UNCHANGED <<status, booking>>
      PROVE  status'[d] = status[d] /\ booking'[d] = booking[d]
  BY <1>4
<1>5. QED
  BY <1>1, <1>2, <1>3, <1>4
     DEF Next, Request, Work, BeginCreate, BeginUpdate, BeginDispatch, BeginPolicy, Start,
         LockRows, Resolve, CommitPolicy, Rollback, ChangeMasterRecord, vars, rows

\* The audit trail of every dispatch that did not go out on an out-of-date view
\* tells a legal life (TrailIsLegal).
THEOREM TrailsLegal == Spec => []TrailIsLegal
<1>1. Init => TypeOK /\ TransactionsOK /\ TrailFits
  BY InitTyped, NoneAssumption
     DEF Init, TransactionsOK, LocksOK, ReadsStand, JudgmentsStand, TrailFits
<1>2. TypeOK /\ TransactionsOK /\ TrailFits /\ [Next]_vars
          => (TypeOK /\ TransactionsOK /\ TrailFits)'
  BY NextTyped, NextSessions, NextLocks, NextReads, NextJudgments, NextTrailFits
     DEF TransactionsOK
<1>3. TypeOK /\ TrailFits => TrailIsLegal
  BY DEF TypeOK, Statuses, TrailFits, TrailIsLegal, LegalLife
<1>4. QED BY <1>1, <1>2, <1>3, PTL DEF Spec

\* A completed or cancelled dispatch is changed by a dispatch on an out-of-date
\* view and by nothing else: what TerminalIsFinal says, which the code breaks,
\* of the others.
THEOREM OnlyOvertakenReopened ==
    Spec => [][\A d \in Dispatches \ overtaken' : status[d] \in Terminal =>
                   status'[d] = status[d] /\ booking'[d] = booking[d]]_vars
<1>1. Spec => [](TypeOK /\ SessionsOK)
  BY TypeCorrect
<1>2. Spec => []TransactionsOK
  BY ReadsAndJudgmentsStand
<1>3. TypeOK /\ TransactionsOK /\ [Next]_vars =>
          [\A d \in Dispatches \ overtaken' : status[d] \in Terminal =>
               status'[d] = status[d] /\ booking'[d] = booking[d]]_vars
  BY TerminalKept DEF TransactionsOK
<1>4. QED BY <1>1, <1>2, <1>3, PTL DEF Spec

-----------------------------------------------------------------------------
(***************************************************************************)
(* Locks.                                                                  *)
(***************************************************************************)
\* No two sessions ever hold conflicting locks, and each that has locked its
\* rows holds them until it ends (LocksOK), whatever its plain reads see.
THEOREM LocksExclude == Spec => []LocksOK
<1>1. Init => TypeOK /\ SessionsOK /\ LocksOK
  BY InitTyped, NoneAssumption DEF Init, LocksOK
<1>2. TypeOK /\ SessionsOK /\ LocksOK /\ [Next]_vars => (TypeOK /\ SessionsOK /\ LocksOK)'
  BY NextTyped, NextSessions, NextLocks
<1>3. QED BY <1>1, <1>2, PTL DEF Spec

(***************************************************************************)
(* Master records.  A session that has locked its rows found the office,   *)
(* the driver and the vehicle usable, and none becomes unusable before it  *)
(* ends, for that takes the lock it holds.                                 *)
(***************************************************************************)
Holding(t) == op[t] \in Writers /\ pc[t] \in {"locked", "resolved"}

ResourcesUsable ==
    \A t \in Txns : Holding(t) => \A r \in ResourcesOf(want[t]) : operational[r]

\* Every step keeps the records a session has locked in use: nobody else can retire them.
LEMMA NextResources == TypeOK /\ SessionsOK /\ LocksOK /\ ResourcesUsable /\ [Next]_vars
                           => ResourcesUsable'
<1> SUFFICES ASSUME TypeOK, SessionsOK, LocksOK, ResourcesUsable, [Next]_vars
             PROVE  ResourcesUsable'
  OBVIOUS
<1> USE NoneAssumption
<1>1. ASSUME NEW t \in Txns, NEW d \in Dispatches, NEW details, NEW a,
             \/ BeginCreate(t, d, details, a)
             \/ BeginUpdate(t, d, details, a)
             \/ BeginDispatch(t, d, a)
      PROVE  ResourcesUsable'
  BY <1>1 DEF BeginCreate, BeginUpdate, BeginDispatch, Start, ResourcesUsable, Holding,
              ResourcesOf, TypeOK, rows
<1>2. ASSUME NEW t \in Txns, BeginPolicy(t)
      PROVE  ResourcesUsable'
  BY <1>2 DEF BeginPolicy, ResourcesUsable, Holding, ResourcesOf, TypeOK, rows
<1>3. ASSUME NEW t \in Txns, LockRows(t)
      PROVE  ResourcesUsable'
  <2>1. ResourcesOf(want'[t]) = ResourcesOf(want[t])
    BY <1>3 DEF LockRows, TypeOK
  <2>2. /\ op' = op /\ operational' = operational
        /\ \A u \in Txns \ {t} : pc'[u] = pc[u] /\ want'[u] = want[u]
    BY <1>3 DEF LockRows, TypeOK, rows
  <2>3. \A r \in ResourcesOf(want'[t]) : operational'[r]
    BY <1>3, <2>1, <2>2 DEF LockRows
  <2>4. ASSUME NEW u \in Txns \ {t}, Holding(u)'
        PROVE  \A r \in ResourcesOf(want'[u]) : operational'[r]
    BY <2>2, <2>4 DEF ResourcesUsable, Holding
  <2>5. QED
    BY <2>3, <2>4 DEF ResourcesUsable
<1>4. ASSUME NEW t \in Txns, Resolve(t)
      PROVE  ResourcesUsable'
  BY <1>4 DEF Resolve, ResourcesUsable, Holding, ResourcesOf, TypeOK, rows
<1>5. ASSUME NEW t \in Txns, Finish(t), operational' = operational
      PROVE  ResourcesUsable'
  BY <1>5, FinishIdle DEF ResourcesUsable, Holding, Others
<1>6. ASSUME UNCHANGED <<operational, pc, op, want>>
      PROVE  ResourcesUsable'
  BY <1>6 DEF ResourcesUsable, Holding
<1>7. ASSUME NEW r \in Volatile, ChangeMasterRecord(r)
      PROVE  ResourcesUsable'
  <2>1. ASSUME NEW t \in Txns, Holding(t)
        PROVE  r \notin ResourcesOf(want[t])
    <3>1. ResourcesOf(want[t]) \subseteq xlocks[t]
      BY <2>1 DEF Holding, LocksOK, RowLocks
    <3>2. QED
      BY <1>7, <3>1 DEF ChangeMasterRecord, Unlocked
  <2>2. \A q \in Resources \ {r} : operational'[q] = operational[q]
    BY <1>7 DEF ChangeMasterRecord, TypeOK
  <2>3. ASSUME NEW t \in Txns, Holding(t)
        PROVE  ResourcesOf(want[t]) \subseteq Resources
    BY <2>3 DEF Holding, SessionsOK, ResourcesOf, Details, Resources
  <2>4. QED
    BY <1>7, <2>1, <2>2, <2>3 DEF ChangeMasterRecord, ResourcesUsable, Holding
<1>8. QED
  BY <1>1, <1>2, <1>3, <1>4, <1>5, <1>6, <1>7
     DEF Next, Request, Work, CommitCreate, CommitUpdate, CommitDispatch, CommitPolicy, Rollback,
         Complete, Cancel, vars, rows

\* A step that dispatches on a current view finds every record of the dispatch in use.
LEMMA DispatchesUsable ==
    TypeOK /\ SessionsOK /\ ReadsStand /\ ResourcesUsable /\ [Next]_vars =>
        \A d \in Dispatches \ overtaken' : status[d] # "DISPATCHED" /\ status'[d] = "DISPATCHED" =>
            \A r \in ResourcesOf(booking'[d]) : operational[r]
<1> SUFFICES ASSUME TypeOK, SessionsOK, ReadsStand, ResourcesUsable, [Next]_vars,
                    NEW d \in Dispatches \ overtaken', status[d] # "DISPATCHED", status'[d] = "DISPATCHED"
             PROVE  \A r \in ResourcesOf(booking'[d]) : operational[r]
  OBVIOUS
<1>1. ASSUME NEW t \in Txns, CommitDispatch(t)
      PROVE  \A r \in ResourcesOf(booking'[d]) : operational[r]
  <2>1. target[t] = d
    BY <1>1 DEF CommitDispatch, TypeOK
  <2>2. want[t] = booking'[d]
    BY <1>1, <2>1, FreshDispatch DEF CommitDispatch
  <2>3. QED
    BY <1>1, <2>2 DEF CommitDispatch, ResourcesUsable, Holding
<1>2. ASSUME NEW t \in Txns, CommitCreate(t)
      PROVE  FALSE
  BY <1>2 DEF CommitCreate, TypeOK
<1>3. ASSUME NEW c \in Dispatches, Complete(c) \/ Cancel(c)
      PROVE  FALSE
  BY <1>3 DEF Complete, Cancel, TypeOK
<1>4. CASE UNCHANGED status
  BY <1>4
<1>5. QED
  BY <1>1, <1>2, <1>3, <1>4
     DEF Next, Request, Work, BeginCreate, BeginUpdate, BeginDispatch, BeginPolicy, Start,
         LockRows, Resolve, CommitUpdate, CommitPolicy, Rollback, ChangeMasterRecord, vars, rows

\* The office, the driver and the vehicle that a dispatch goes out with are
\* usable at that instant, unless it goes out on an out-of-date view
\* (DispatchedResourcesOperational).
THEOREM DispatchesGoOutUsable == Spec => DispatchedResourcesOperational
<1>1. Spec => [](TypeOK /\ SessionsOK)
  BY TypeCorrect
<1>2. Spec => []TransactionsOK
  BY ReadsAndJudgmentsStand
<1>3. Init => ResourcesUsable
  BY NoneAssumption DEF Init, ResourcesUsable, Holding
<1>4. TypeOK /\ TransactionsOK /\ ResourcesUsable /\ [Next]_vars => ResourcesUsable'
  BY NextResources DEF TransactionsOK
<1>5. TypeOK /\ TransactionsOK /\ ResourcesUsable /\ [Next]_vars =>
          [\A d \in Dispatches \ overtaken' : status[d] # "DISPATCHED" /\ status'[d] = "DISPATCHED" =>
               \A r \in ResourcesOf(booking'[d]) : operational[r]]_vars
  BY DispatchesUsable DEF TransactionsOK
<1>6. QED
  BY <1>1, <1>2, <1>3, <1>4, <1>5, PTL DEF Spec, DispatchedResourcesOperational

-----------------------------------------------------------------------------
(***************************************************************************)
(* Acknowledgments.  From its judgment to its commit a session that lets   *)
(* conflicts through keeps share locks on the policy row and on every      *)
(* dispatch it lets through, so neither the policy nor one of those        *)
(* conflicts can change, whatever its view of its own row.                 *)
(***************************************************************************)
Overrides(t) ==
    /\ t \in Overriders /\ ack[t] # None
    /\ settings.policy = "WARN_AND_ACK" /\ PolicyRow \in slocks[t]
    /\ ack[t].settings = settings /\ ack[t].candidate = Candidate(want[t])
    /\ \A e \in append[t] :
          /\ e.dispatch = target[t] /\ e.conflicting \in slocks[t]
          /\ <<e.conflicting, e.type>> \in ack[t].conflicts
          /\ e \in EvidenceRows(target[t], want[t])

OverridesStand == \A t \in Txns : Judged(t) /\ append[t] # {} => Overrides(t)

\* A row is evidence of the conflict it names.
LEMMA EvidenceNames ==
    ASSUME NEW d, NEW details, NEW e \in EvidenceRows(d, details)
    PROVE  /\ e.dispatch = d /\ e.conflicting \in Conflicts(d, details)
           /\ e.type = ConflictType(details, booking[e.conflicting])
           /\ e = [dispatch |-> d, conflicting |-> e.conflicting, type |-> e.type]
<1>1. PICK c \in Conflicts(d, details) :
          e = [dispatch |-> d, conflicting |-> c, type |-> ConflictType(details, booking[c])]
  BY DEF EvidenceRows
<1>2. QED
  BY <1>1

\* It stays evidence while the dispatch it names keeps its status and booking.
LEMMA EvidenceStands ==
    ASSUME NEW d, NEW details, NEW e \in EvidenceRows(d, details),
           status'[e.conflicting] = status[e.conflicting],
           booking'[e.conflicting] = booking[e.conflicting]
    PROVE  e \in EvidenceRows(d, details)'
<1>1. /\ e.conflicting \in Conflicts(d, details)
      /\ e = [dispatch |-> d, conflicting |-> e.conflicting,
              type |-> ConflictType(details, booking[e.conflicting])]
  BY EvidenceNames
<1>2. e.conflicting \in Conflicts(d, details)'
  BY <1>1 DEF Conflicts
<1>3. QED
  BY <1>1, <1>2 DEF EvidenceRows

\* A judgment lets through what the acknowledgment in force names.
LEMMA ResolveOverrides ==
    ASSUME TypeOK, SessionsOK, NEW t \in Txns, Resolve(t), append'[t] # {}
    PROVE  Overrides(t)'
<1>1. PICK accepted \in {{}, EvidenceRows(target[t], want[t])} :
          Judge(t, accepted) /\ append'[t] = accepted
  BY DEF Resolve, TypeOK
<1>2. /\ accepted = EvidenceRows(target[t], want[t]) /\ settings.policy = "WARN_AND_ACK"
      /\ t \in Overriders /\ ack[t] = Fingerprint(target[t], want[t])
  BY <1>1 DEF Judge, Acknowledged
<1>3. /\ ack[t].settings = settings /\ ack[t].candidate = Candidate(want[t])
      /\ ack[t].conflicts = {<<c, ConflictType(want[t], booking[c])>> :
                                 c \in Conflicts(target[t], want[t])}
  BY <1>2 DEF Fingerprint
<1>4. /\ UNCHANGED <<status, booking, settings, target, want, ack>>
      /\ slocks'[t] = RowsJudged(target[t], want[t])
  BY DEF Resolve, TypeOK, rows
<1>5. ack[t] # None
  <2>1. op[t] \in Writers
    BY NoneAssumption DEF Resolve, SessionsOK, TypeOK
  <2>2. Fingerprint(target[t], want[t]) \in Fingerprints
    BY <2>1, FingerprintTyped DEF SessionsOK, TypeOK
  <2>3. QED
    BY <1>2, <2>2, ReviewAssumption
<1>6. ASSUME NEW e \in append'[t]
      PROVE  /\ e.dispatch = target[t] /\ e.conflicting \in slocks'[t]
             /\ <<e.conflicting, e.type>> \in ack[t].conflicts
             /\ e \in EvidenceRows(target[t], want[t])
  <2>1. e \in EvidenceRows(target[t], want[t])
    BY <1>1, <1>2
  <2>2. /\ e.dispatch = target[t] /\ e.conflicting \in Conflicts(target[t], want[t])
        /\ e.type = ConflictType(want[t], booking[e.conflicting])
    BY <2>1, EvidenceNames
  <2>3. e.conflicting \in RowsJudged(target[t], want[t])
    BY <2>2 DEF RowsJudged
  <2>4. QED
    BY <1>3, <1>4, <2>1, <2>2, <2>3
<1>7. PolicyRow \in slocks'[t]
  BY <1>4 DEF RowsJudged
<1>8. EvidenceRows(target[t], want[t])' = EvidenceRows(target[t], want[t])
  BY <1>4 DEF EvidenceRows, Conflicts
<1>9. QED
  BY <1>2, <1>3, <1>4, <1>5, <1>6, <1>7, <1>8 DEF Overrides, Candidate

\* What a session lets through stands in a step that leaves it alone, unless the
\* step writes a row it has a share lock on.
LEMMA OverrideStable ==
    ASSUME NEW u \in Txns, Overrides(u),
           target'[u] = target[u], want'[u] = want[u], ack'[u] = ack[u],
           append'[u] = append[u], slocks'[u] = slocks[u], settings' = settings,
           \A c \in slocks[u] : c \in Dispatches /\ status[c] \in Reserving =>
               status'[c] = status[c] /\ booking'[c] = booking[c]
    PROVE  Overrides(u)'
<1>1. ASSUME NEW e \in append[u]
      PROVE  e \in EvidenceRows(target[u], want[u])'
  <2>1. e \in EvidenceRows(target[u], want[u]) /\ e.conflicting \in slocks[u]
    BY DEF Overrides
  <2>2. e.conflicting \in Conflicts(target[u], want[u])
    BY <2>1, EvidenceNames
  <2>3. e.conflicting \in Dispatches /\ status[e.conflicting] \in Reserving
    BY <2>2 DEF Conflicts
  <2>4. /\ status'[e.conflicting] = status[e.conflicting]
        /\ booking'[e.conflicting] = booking[e.conflicting]
    BY <2>1, <2>3
  <2>5. QED
    BY <2>1, <2>4, EvidenceStands
<1>2. QED
  BY <1>1 DEF Overrides, Candidate

\* ... as does the end of another session.
LEMMA FinishKeepsOverrides ==
    ASSUME TypeOK, OverridesStand, NEW t \in Txns, Finish(t),
           \A u \in Txns \ {t} : Judged(u) /\ Overrides(u) =>
               /\ settings' = settings
               /\ \A c \in slocks[u] : c \in Dispatches /\ status[c] \in Reserving =>
                      status'[c] = status[c] /\ booking'[c] = booking[c]
    PROVE  OverridesStand'
<1>1. ASSUME NEW u \in Txns, Judged(u)', append'[u] # {}
      PROVE  Overrides(u)'
  <2>1. u # t
    BY <1>1, FinishIdle, NoneAssumption DEF Judged
  <2>2. /\ pc'[u] = pc[u] /\ op'[u] = op[u] /\ target'[u] = target[u] /\ want'[u] = want[u]
        /\ ack'[u] = ack[u] /\ append'[u] = append[u] /\ slocks'[u] = slocks[u]
    BY <2>1 DEF Finish, TypeOK
  <2>3. Judged(u) /\ Overrides(u)
    BY <1>1, <2>2 DEF Judged, OverridesStand
  <2>4. QED
    BY <2>1, <2>2, <2>3, OverrideStable
<1>2. QED
  BY <1>1 DEF OverridesStand

\* ... and a step that ends no session and writes no row a session has locked.
LEMMA StepKeepsOverrides ==
    ASSUME OverridesStand, settings' = settings, booking' = booking,
           \A u \in Txns : op'[u] \in Writers /\ pc'[u] = "resolved" =>
               /\ Judged(u) /\ target'[u] = target[u] /\ want'[u] = want[u] /\ ack'[u] = ack[u]
               /\ append'[u] = append[u] /\ slocks'[u] = slocks[u],
           \A u \in Txns : \A c \in slocks[u] \cap Dispatches : status'[c] = status[c]
    PROVE  OverridesStand'
<1>1. ASSUME NEW u \in Txns, Judged(u)', append'[u] # {}
      PROVE  Overrides(u)'
  <2>1. Judged(u) /\ append[u] # {}
    BY <1>1 DEF Judged
  <2>2. Overrides(u)
    BY <2>1 DEF OverridesStand
  <2>3. QED
    BY <1>1, <2>2, OverrideStable DEF Judged
<1>2. QED
  BY <1>1 DEF OverridesStand

\* Every step keeps the override rows those of conflicts acknowledged under their locks.
LEMMA NextOverrides == TypeOK /\ SessionsOK /\ LocksOK /\ OverridesStand /\ [Next]_vars
                           => OverridesStand'
<1> SUFFICES ASSUME TypeOK, SessionsOK, LocksOK, OverridesStand, [Next]_vars
             PROVE  OverridesStand'
  OBVIOUS
<1> USE NoneAssumption
<1>1. ASSUME NEW t \in Txns, NEW d \in Dispatches, NEW details, NEW a,
             \/ BeginCreate(t, d, details, a)
             \/ BeginUpdate(t, d, details, a)
             \/ BeginDispatch(t, d, a)
      PROVE  OverridesStand'
  BY <1>1, StepKeepsOverrides
     DEF BeginCreate, BeginUpdate, BeginDispatch, Start, Judged, TypeOK, rows
<1>2. ASSUME NEW t \in Txns, BeginPolicy(t)
      PROVE  OverridesStand'
  BY <1>2, StepKeepsOverrides DEF BeginPolicy, Judged, TypeOK, rows
<1>3. ASSUME NEW t \in Txns, LockRows(t)
      PROVE  OverridesStand'
  <2>1. /\ pc'[t] = "locked"
        /\ \A u \in Txns \ {t} : want'[u] = want[u] /\ pc'[u] = pc[u]
    BY <1>3 DEF LockRows, TypeOK
  <2>2. QED
    BY <1>3, <2>1, StepKeepsOverrides DEF LockRows, Judged, TypeOK, rows
<1>4. ASSUME NEW t \in Txns, Resolve(t)
      PROVE  OverridesStand'
  <2>1. ASSUME NEW u \in Txns, Judged(u)', append'[u] # {}
        PROVE  Overrides(u)'
    <3>1. CASE u = t
      BY <1>4, <2>1, <3>1, ResolveOverrides
    <3>2. CASE u # t
      <4>1. /\ UNCHANGED <<status, booking, settings, op, target, want, ack>>
            /\ pc'[u] = pc[u] /\ append'[u] = append[u] /\ slocks'[u] = slocks[u]
        BY <1>4, <3>2 DEF Resolve, TypeOK, rows
      <4>2. Overrides(u)
        BY <2>1, <4>1 DEF OverridesStand, Judged
      <4>3. QED
        BY <4>1, <4>2, OverrideStable
    <3>3. QED
      BY <3>1, <3>2
  <2>2. QED
    BY <2>1 DEF OverridesStand
<1>5. ASSUME NEW t \in Txns, CommitCreate(t)
      PROVE  OverridesStand'
  <2>1. status[target[t]] = "ABSENT"
    BY <1>5 DEF CommitCreate, SessionsOK
  <2>2. \A c \in Dispatches : status[c] \in Reserving =>
            status'[c] = status[c] /\ booking'[c] = booking[c]
    BY <1>5, <2>1 DEF CommitCreate, TypeOK, Reserving
  <2>3. QED
    BY <1>5, <2>2, FinishKeepsOverrides DEF CommitCreate
<1>6. ASSUME NEW t \in Txns, CommitUpdate(t) \/ CommitDispatch(t)
      PROVE  OverridesStand'
  <2>1. target[t] \in xlocks[t]
    BY <1>6 DEF CommitUpdate, CommitDispatch, LocksOK, RowLocks
  <2>2. \A u \in Txns \ {t} : target[t] \notin slocks[u]
    BY <2>1 DEF LocksOK
  <2>3. \A c \in Dispatches \ {target[t]} : status'[c] = status[c] /\ booking'[c] = booking[c]
    BY <1>6 DEF CommitUpdate, CommitDispatch, TypeOK
  <2>4. QED
    BY <1>6, <2>2, <2>3, FinishKeepsOverrides DEF CommitUpdate, CommitDispatch
<1>7. ASSUME NEW t \in Txns, CommitPolicy(t)
      PROVE  OverridesStand'
  <2>1. \A u \in Txns \ {t} : ~Overrides(u)
    BY <1>7 DEF CommitPolicy, CanLockX, Overrides
  <2>2. QED
    BY <1>7, <2>1, FinishKeepsOverrides DEF CommitPolicy
<1>8. ASSUME NEW t \in Txns, Rollback(t)
      PROVE  OverridesStand'
  BY <1>8, FinishKeepsOverrides DEF Rollback, rows
<1>9. ASSUME NEW d \in Dispatches, Complete(d) \/ Cancel(d)
      PROVE  OverridesStand'
  <2>1. \A u \in Txns : d \notin slocks[u]
    BY <1>9 DEF Complete, Cancel, Unlocked
  <2>2. \A u \in Txns : \A c \in slocks[u] \cap Dispatches : status'[c] = status[c]
    BY <1>9, <2>1 DEF Complete, Cancel, TypeOK
  <2>3. QED
    BY <1>9, <2>2, StepKeepsOverrides DEF Complete, Cancel, Judged
<1>10. ASSUME NEW r \in Volatile, ChangeMasterRecord(r)
       PROVE  OverridesStand'
  BY <1>10, StepKeepsOverrides DEF ChangeMasterRecord, Judged
<1>11. CASE UNCHANGED vars
  BY <1>11, StepKeepsOverrides DEF vars, rows, Judged
<1>12. QED
  BY <1>1, <1>2, <1>3, <1>4, <1>5, <1>6, <1>7, <1>8, <1>9, <1>10, <1>11
     DEF Next, Request, Work

\* The commits that write a row of dispatches.
Commits(t) == CommitCreate(t) \/ CommitUpdate(t) \/ CommitDispatch(t)

\* Override rows are written by commits, each of them let through by its session.
LEMMA OverridesWritten ==
    ASSUME OverridesStand, [Next]_vars, NEW e \in evidence' \ evidence
    PROVE  \E t \in Txns : Commits(t) /\ Judged(t) /\ Overrides(t) /\ e \in append[t]
<1>1. ASSUME NEW t \in Txns, Commits(t)
      PROVE  Judged(t) /\ Overrides(t) /\ e \in append[t]
  <2>1. e \in append[t] /\ Judged(t)
    BY <1>1 DEF Commits, CommitCreate, CommitUpdate, CommitDispatch, Judged
  <2>2. QED
    BY <2>1 DEF OverridesStand
<1>2. CASE UNCHANGED evidence
  BY <1>2
<1>3. QED
  BY <1>1, <1>2
     DEF Next, Request, Work, Commits, BeginCreate, BeginUpdate, BeginDispatch, BeginPolicy, Start,
         LockRows, Resolve, CommitPolicy, Rollback, Complete, Cancel, ChangeMasterRecord,
         vars, rows

\* Overrides stand in every reachable state.
LEMMA OverridesKept == Spec => []OverridesStand
<1>1. Spec => [](TypeOK /\ SessionsOK)
  BY TypeCorrect
<1>2. Spec => []LocksOK
  BY LocksExclude
<1>3. Init => OverridesStand
  BY NoneAssumption DEF Init, OverridesStand
<1>4. TypeOK /\ SessionsOK /\ LocksOK /\ OverridesStand /\ [Next]_vars => OverridesStand'
  BY NextOverrides
<1>5. QED
  BY <1>1, <1>2, <1>3, <1>4, PTL DEF Spec

(***************************************************************************)
(* Whole judgments.  Until it commits, a session that let conflicts        *)
(* through has named, and one judged under BLOCK has none of, all the      *)
(* conflicts of its booking but those with a dispatch that went out on an  *)
(* out-of-date view.                                                       *)
(***************************************************************************)
Whole(t) ==
    /\ PolicyRow \in slocks[t]
    /\ settings.policy = "BLOCK" => Conflicts(target[t], want[t]) \subseteq overtaken
    /\ append[t] # {} =>
           \A c \in Conflicts(target[t], want[t]) \ overtaken :
               <<c, ConflictType(want[t], booking[c])>> \in ack[t].conflicts

ConflictsStand == \A t \in Txns : Judged(t) => Whole(t)

\* A step that leaves a session with a share lock on the policy leaves the policy.
LEMMA PolicyHeld ==
    ASSUME [Next]_vars, NEW u \in Txns, PolicyRow \in slocks[u], Judged(u), Judged(u)', TypeOK
    PROVE  settings' = settings
<1>1. ASSUME NEW t \in Txns, CommitPolicy(t)
      PROVE  FALSE
  <2>1. u # t
    BY <1>1, FinishIdle, NoneAssumption DEF CommitPolicy, Judged
  <2>2. QED BY <1>1, <2>1 DEF CommitPolicy, CanLockX
<1>2. QED
  BY <1>1
     DEF Next, Request, Work, BeginCreate, BeginUpdate, BeginDispatch, BeginPolicy, Start,
         LockRows, Resolve, CommitCreate, CommitUpdate, CommitDispatch, Rollback, Complete,
         Cancel, ChangeMasterRecord, vars, rows

\* Resolving locks the policy and judges every conflict there is.
LEMMA ResolveJudgesAll ==
    ASSUME TypeOK, NEW t \in Txns, Resolve(t)
    PROVE  Whole(t)'
<1>1. PICK accepted \in {{}, EvidenceRows(target[t], want[t])} :
          Judge(t, accepted) /\ append'[t] = accepted
  BY DEF Resolve, TypeOK
<1>2. /\ UNCHANGED <<status, booking, settings, target, want, ack>>
      /\ slocks'[t] = RowsJudged(target[t], want[t])
  BY DEF Resolve, TypeOK, rows
<1>3. Conflicts(target[t], want[t])' = Conflicts(target[t], want[t])
  BY <1>2 DEF Conflicts
<1>4. settings.policy = "BLOCK" => Conflicts(target[t], want[t]) = {}
  BY <1>1 DEF Judge
<1>5. accepted # {} => ack[t] = Fingerprint(target[t], want[t])
  BY <1>1 DEF Judge, Acknowledged
<1>6. accepted # {} =>
          \A c \in Conflicts(target[t], want[t]) :
              <<c, ConflictType(want[t], booking[c])>> \in ack[t].conflicts
  BY <1>5 DEF Fingerprint
<1>7. \A c : ConflictType(want[t], booking[c])' = ConflictType(want[t], booking[c])
  BY <1>2 DEF ConflictType
<1>8. QED
  BY <1>1, <1>2, <1>3, <1>4, <1>6, <1>7 DEF RowsJudged, Whole

\* Every step keeps the judgment of a session what the committed rows say.
LEMMA NextConflicts ==
    TypeOK /\ TransactionsOK /\ ConflictsStand /\ [Next]_vars => ConflictsStand'
<1> SUFFICES ASSUME TypeOK, SessionsOK, LocksOK, ReadsStand, ConflictsStand, [Next]_vars,
                    NEW u \in Txns, Judged(u)'
             PROVE  Whole(u)'
  BY DEF TransactionsOK, ConflictsStand
<1>1. CASE Resolve(u)
  BY <1>1, ResolveJudgesAll
<1>2. CASE Judged(u) /\ LeavesAlone(u)
  <2>1. Whole(u)
    BY <1>2 DEF ConflictsStand
  <2>2. settings' = settings
    BY <1>2, <2>1, PolicyHeld DEF Whole
  <2>3. ASSUME NEW c \in (Conflicts(target[u], want[u]) \ overtaken)'
        PROVE  /\ c \in Conflicts(target[u], want[u]) \ overtaken
               /\ ConflictType(want[u], booking[c])' = ConflictType(want[u], booking[c])
    BY <1>2, <2>3, ConflictsKept
  <2>4. slocks'[u] = slocks[u] /\ append'[u] = append[u] /\ ack'[u] = ack[u]
    BY <1>2 DEF LeavesAlone
  <2>5. settings'.policy = "BLOCK" => Conflicts(target[u], want[u])' \subseteq overtaken'
    BY <2>1, <2>2, <2>3 DEF Whole
  <2>6. append'[u] # {} =>
            \A c \in (Conflicts(target[u], want[u]) \ overtaken)' :
                <<c, ConflictType(want[u], booking[c])'>> \in ack'[u].conflicts
    BY <2>1, <2>3, <2>4 DEF Whole
  <2>7. QED BY <2>1, <2>4, <2>5, <2>6 DEF Whole
<1>3. QED BY <1>1, <1>2, JudgedKept

\* What sessions have judged stays whole.
LEMMA JudgmentsWhole == Spec => []ConflictsStand
<1>1. Spec => [](TypeOK /\ SessionsOK)
  BY TypeCorrect
<1>2. Spec => []TransactionsOK
  BY ReadsAndJudgmentsStand
<1>3. Init => ConflictsStand
  BY NoneAssumption DEF Init, ConflictsStand, Judged
<1>4. TypeOK /\ TransactionsOK /\ ConflictsStand /\ [Next]_vars => ConflictsStand'
  BY NextConflicts
<1>5. QED
  BY <1>1, <1>2, <1>3, <1>4, PTL DEF Spec

\* A commit leaves its dispatch with the booking it judged, unless its view of it
\* was out of date, and the others as they were.
LEMMA CommitWrites ==
    ASSUME TypeOK, SessionsOK, ReadsStand, NEW t \in Txns, Commits(t)
    PROVE  /\ Judged(t) /\ target[t] \in Dispatches
           /\ target[t] \notin overtaken' => booking'[target[t]] = want[t]
           /\ \A b \in Dispatches \ {target[t]} : status'[b] = status[b] /\ booking'[b] = booking[b]
<1>1. Judged(t) /\ target[t] \in Dispatches
  BY DEF Commits, CommitCreate, CommitUpdate, CommitDispatch, Judged, SessionsOK
<1>2. CASE CommitCreate(t)
  BY <1>1, <1>2 DEF CommitCreate, TypeOK
<1>3. CASE CommitUpdate(t)
  BY <1>1, <1>3, UpdatesDraft DEF CommitUpdate, TypeOK
<1>4. CASE CommitDispatch(t)
  BY <1>1, <1>4, FreshDispatch DEF CommitDispatch, TypeOK
<1>5. QED BY <1>1, <1>2, <1>3, <1>4 DEF Commits

\* Under BLOCK a step makes no pair of dispatches share a driver or a vehicle,
\* unless one of them goes out, or went out, on an out-of-date view.
LEMMA BlockHolds ==
    TypeOK /\ TransactionsOK /\ ConflictsStand /\ [Next]_vars =>
        (settings.policy = "BLOCK" =>
             \A d, c \in Dispatches \ overtaken' : DoubleBooked(d, c)' => DoubleBooked(d, c))
<1> SUFFICES ASSUME TypeOK, SessionsOK, ReadsStand, ConflictsStand, [Next]_vars,
                    settings.policy = "BLOCK", NEW d \in Dispatches \ overtaken',
                    NEW c \in Dispatches \ overtaken', DoubleBooked(d, c)'
             PROVE  DoubleBooked(d, c)
  BY DEF TransactionsOK
<1>1. ASSUME NEW t \in Txns, Commits(t)
      PROVE  DoubleBooked(d, c)
  <2>1. /\ Judged(t) /\ target[t] \in Dispatches
        /\ target[t] \notin overtaken' => booking'[target[t]] = want[t]
        /\ \A b \in Dispatches \ {target[t]} : status'[b] = status[b] /\ booking'[b] = booking[b]
    BY <1>1, CommitWrites
  <2>2. Conflicts(target[t], want[t]) \subseteq overtaken'
    BY <2>1, HistoryGrows DEF ConflictsStand, Whole
  <2>3. \A b \in (Dispatches \ {target[t]}) \ overtaken' :
            ~(status[b] \in Reserving /\ SharesResource(want[t], booking[b]))
    BY <2>2 DEF Conflicts
  <2>4. d # target[t]
    BY <2>1, <2>3 DEF DoubleBooked
  <2>5. c # target[t]
    BY <2>1, <2>3, ConflictSymmetric DEF DoubleBooked
  <2>6. QED
    BY <2>1, <2>4, <2>5 DEF DoubleBooked
<1>2. ASSUME NEW b \in Dispatches, Complete(b) \/ Cancel(b)
      PROVE  DoubleBooked(d, c)
  BY <1>2 DEF Complete, Cancel, DoubleBooked, TypeOK, Reserving
<1>3. CASE UNCHANGED <<status, booking>>
  BY <1>3 DEF DoubleBooked
<1>4. QED
  BY <1>1, <1>2, <1>3
     DEF Next, Request, Work, Commits, BeginCreate, BeginUpdate, BeginDispatch, BeginPolicy, Start,
         LockRows, Resolve, CommitPolicy, Rollback, ChangeMasterRecord, vars, rows

\* No step taken while the policy in force is BLOCK books a driver or a vehicle
\* twice on a day, but by a dispatch on an out-of-date view (BlockAddsNoConflict).
THEOREM BlockBlocks == Spec => BlockAddsNoConflict
<1>1. Spec => [](TypeOK /\ SessionsOK)
  BY TypeCorrect
<1>2. Spec => []TransactionsOK
  BY ReadsAndJudgmentsStand
<1>3. Spec => []ConflictsStand
  BY JudgmentsWhole
<1>4. TypeOK /\ TransactionsOK /\ ConflictsStand /\ [Next]_vars =>
          [settings.policy = "BLOCK" =>
             \A d, c \in Dispatches \ overtaken' : DoubleBooked(d, c)' => DoubleBooked(d, c)]_vars
  BY BlockHolds
<1>5. QED
  BY <1>1, <1>2, <1>3, <1>4, PTL DEF Spec, BlockAddsNoConflict

\* The review of an override row a session writes on a current view of its
\* dispatch is of the booking it leaves there, with all its conflicts.
LEMMA ReviewComplete ==
    ASSUME TypeOK, SessionsOK, ReadsStand, ConflictsStand, NEW t \in Txns, Commits(t),
           Overrides(t), NEW e \in append[t], target[t] \notin overtaken'
    PROVE  ReviewsBooking(ack[t], e, booking'[target[t]])
<1>1. booking'[target[t]] = want[t] /\ Judged(t)
  BY CommitWrites
<1>2. /\ ack[t].candidate = Candidate(want[t]) /\ e.dispatch = target[t]
      /\ e \in EvidenceRows(target[t], want[t])
  BY DEF Overrides
<1>3. \A c \in Conflicts(target[t], want[t]) \ overtaken :
          <<c, ConflictType(want[t], booking[c])>> \in ack[t].conflicts
  BY <1>1 DEF ConflictsStand, Whole
<1>4. ASSUME NEW o \in EvidenceRows(target[t], want[t]), o.conflicting \notin overtaken
      PROVE  <<o.conflicting, o.type>> \in ack[t].conflicts
  <2>1. /\ o.conflicting \in Conflicts(target[t], want[t])
        /\ o.type = ConflictType(want[t], booking[o.conflicting])
    BY EvidenceNames
  <2>2. QED BY <1>3, <1>4, <2>1
<1>5. QED BY <1>1, <1>2, <1>4 DEF ReviewsBooking

\* What a step writes as evidence is acknowledged as AcknowledgmentIsCurrent says.
LEMMA EvidenceReviewed ==
    ASSUME TypeOK, TransactionsOK, OverridesStand, ConflictsStand, [Next]_vars,
           NEW e \in evidence' \ evidence
    PROVE  /\ settings.policy = "WARN_AND_ACK"
           /\ \E t \in Overriders :
                 /\ target[t] = e.dispatch /\ ack[t] # None
                 /\ ack[t].settings = settings
                 /\ <<e.conflicting, e.type>> \in ack[t].conflicts
                 /\ e.dispatch \notin overtaken' =>
                       ReviewsBooking(ack[t], e, booking'[e.dispatch])
<1>1. PICK t \in Txns : Commits(t) /\ Judged(t) /\ Overrides(t) /\ e \in append[t]
  BY OverridesWritten
<1>2. /\ settings.policy = "WARN_AND_ACK" /\ t \in Overriders /\ target[t] = e.dispatch
      /\ ack[t] # None /\ ack[t].settings = settings
      /\ <<e.conflicting, e.type>> \in ack[t].conflicts
  BY <1>1 DEF Overrides
<1>3. e.dispatch \notin overtaken' => ReviewsBooking(ack[t], e, booking'[e.dispatch])
  BY <1>1, <1>2, ReviewComplete DEF TransactionsOK
<1>4. QED BY <1>2, <1>3

\* No conflict is let through by an old or an edited acknowledgment, by one of
\* another policy revision, or by one that does not name it; and unless the
\* dispatch goes out on an out-of-date view, by one of another booking or one that
\* leaves out another of its conflicts (AcknowledgmentIsCurrent).
THEOREM AcknowledgmentsCurrent == Spec => AcknowledgmentIsCurrent
<1>1. Spec => [](TypeOK /\ SessionsOK)
  BY TypeCorrect
<1>2. Spec => []TransactionsOK
  BY ReadsAndJudgmentsStand
<1>3. Spec => []OverridesStand
  BY OverridesKept
<1>4. Spec => []ConflictsStand
  BY JudgmentsWhole
<1>5. TypeOK /\ TransactionsOK /\ OverridesStand /\ ConflictsStand /\ [Next]_vars =>
          [\A e \in evidence' \ evidence :
             /\ settings.policy = "WARN_AND_ACK"
             /\ \E t \in Overriders :
                   /\ target[t] = e.dispatch /\ ack[t] # None
                   /\ ack[t].settings = settings
                   /\ <<e.conflicting, e.type>> \in ack[t].conflicts
                   /\ e.dispatch \notin overtaken' =>
                         ReviewsBooking(ack[t], e, booking'[e.dispatch])]_vars
  BY EvidenceReviewed
<1>6. QED
  BY <1>1, <1>2, <1>3, <1>4, <1>5, PTL DEF Spec, AcknowledgmentIsCurrent
=============================================================================
