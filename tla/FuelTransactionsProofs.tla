------------------------ MODULE FuelTransactionsProofs ------------------------
(***************************************************************************)
(* Theorems about FuelTransactions, for any number of sessions, issuances, *)
(* drivers, vehicles, offices, allocations, fuel types, quantities, dates, *)
(* months and fiscal periods.                                              *)
(***************************************************************************)
EXTENDS FuelTransactions, DataTheorems, TLAPS

sessions == <<pc, op, target, want, number, xlocks>>

-----------------------------------------------------------------------------
(***************************************************************************)
(* What the smaller steps do                                               *)
(***************************************************************************)
\* Quantities are natural numbers.
LEMMA LitersCounted == \A q \in Quantities \cup {0} : q \in Nat
<1>1. \A q \in Quantities : q \in Nat
  BY CalendarAssumption
<1>2. QED BY <1>1

\* The fields of a session that ends are well formed.
LEMMA FinishTyped ==
    ASSUME TypeOK, NEW t \in Txns, Finish(t)
    PROVE  /\ pc' \in [Txns -> {"idle", "issuance", "sequence", "references", "ready"}]
           /\ op' \in [Txns -> Requests \cup {None}]
           /\ target' \in [Txns -> Issuances \cup {None}]
           /\ want' \in [Txns -> Details \cup {None}]
           /\ number' \in [Txns -> Nat]
           /\ xlocks' \in [Txns -> SUBSET Lockable]
BY DEF TypeOK, Finish

\* So are those of one that starts.
LEMMA StartTyped ==
    ASSUME TypeOK, NEW t \in Txns, NEW name \in Requests, NEW i \in Issuances,
           NEW d \in Details \cup {None}, NEW step \in {"issuance", "references"},
           Start(t, name, i, d, step)
    PROVE  TypeOK'
BY DEF TypeOK, Start, rows, issuanceRows

\* A ledger row is well formed.
LEMMA RecordTyped ==
    ASSUME TypeOK, NEW i \in Issuances, NEW kind \in {"ISSUANCE", "ADJUSTMENT"},
           NEW d \in Details, NEW signed \in Int, Record(i, kind, d, signed)
    PROVE  ledger' \subseteq LedgerEntries
<1>1. Entry(i, kind, d, signed) \in LedgerEntries
  BY DEF Entry, LedgerEntries, Details
<1>2. QED BY <1>1 DEF TypeOK, Record

\* A budget command changes one allocation row, which nobody has locked.
LEMMA BudgetStep ==
    ASSUME TypeOK, NEW a \in Allocations, Budget(a)
    PROVE  /\ UNCHANGED <<issuanceRows, operational, sessions>>
           /\ \E row \in AllocationRows : allocation' = [allocation EXCEPT ![a] = row]
           /\ allocation[a] = None \/ Unlocked({a})
<1>1. ASSUME NEW o \in Offices, NEW p \in Periods, CreateAllocation(a, o, p)
      PROVE  /\ UNCHANGED <<issuanceRows, operational, sessions>>
             /\ \E row \in AllocationRows : allocation' = [allocation EXCEPT ![a] = row]
             /\ allocation[a] = None \/ Unlocked({a})
  <2>1. [status |-> "DRAFT", deleted |-> FALSE, office |-> o, period |-> p] \in AllocationRows
    BY DEF AllocationRows, BudgetStatuses
  <2>2. QED BY <1>1, <2>1 DEF CreateAllocation, SetAllocation, sessions
<1>2. ASSUME allocation[a] # None,
             Unlocked({a, allocation[a].office}),
             NEW row \in AllocationRows, SetAllocation(a, row)
      PROVE  /\ UNCHANGED <<issuanceRows, operational, sessions>>
             /\ \E r \in AllocationRows : allocation' = [allocation EXCEPT ![a] = r]
             /\ allocation[a] = None \/ Unlocked({a})
  BY <1>2 DEF SetAllocation, sessions, Unlocked
<1>3. allocation[a] # None => allocation[a] \in AllocationRows
  BY DEF TypeOK
<1>4. ASSUME NEW o \in Offices, NEW p \in Periods, EditAllocation(a, o, p)
      PROVE  /\ UNCHANGED <<issuanceRows, operational, sessions>>
             /\ \E row \in AllocationRows : allocation' = [allocation EXCEPT ![a] = row]
             /\ allocation[a] = None \/ Unlocked({a})
  <2>1. [allocation[a] EXCEPT !.office = o, !.period = p] \in AllocationRows
    BY <1>3, <1>4 DEF EditAllocation, Current, AllocationRows
  <2>2. QED BY <1>2, <1>4, <2>1 DEF EditAllocation, Current
<1>5. ASSUME NEW s \in BudgetStatuses, Current(a),
             SetAllocation(a, [allocation[a] EXCEPT !.status = s])
      PROVE  /\ UNCHANGED <<issuanceRows, operational, sessions>>
             /\ \E row \in AllocationRows : allocation' = [allocation EXCEPT ![a] = row]
             /\ allocation[a] = None \/ Unlocked({a})
  <2>1. [allocation[a] EXCEPT !.status = s] \in AllocationRows
    BY <1>3, <1>5 DEF Current, AllocationRows
  <2>2. QED BY <1>2, <1>5, <2>1 DEF Current
<1>6. CASE ActivateAllocation(a) \/ CloseAllocation(a) \/ CancelAllocation(a)
  BY <1>5, <1>6 DEF ActivateAllocation, CloseAllocation, CancelAllocation, BudgetStatuses
<1>7. CASE DeleteAllocation(a)
  <2>1. [allocation[a] EXCEPT !.deleted = TRUE] \in AllocationRows
    BY <1>3, <1>7 DEF DeleteAllocation, Current, AllocationRows
  <2>2. QED BY <1>2, <1>7, <2>1 DEF DeleteAllocation, Current
<1>8. CASE RestoreAllocation(a)
  <2> DEFINE row == [allocation[a] EXCEPT !.deleted = FALSE,
                        !.status = IF @ = "ACTIVE" THEN "DRAFT" ELSE @]
  <2>1. row \in AllocationRows
    BY <1>3, <1>8 DEF RestoreAllocation, AllocationRows, BudgetStatuses
  <2>2. QED BY <1>2, <1>8, <2>1 DEF RestoreAllocation
<1>9. QED BY <1>1, <1>4, <1>6, <1>7, <1>8 DEF Budget

-----------------------------------------------------------------------------
(***************************************************************************)
(* Type correctness                                                        *)
(***************************************************************************)
\* The initial state is well formed.
LEMMA InitTyped == Init => TypeOK /\ SessionsOK
<1> SUFFICES ASSUME Init PROVE TypeOK /\ SessionsOK
  OBVIOUS
<1>1. TypeOK
  BY CalendarAssumption, NoneAssumption DEF Init, TypeOK, Statuses, Given
<1>2. SessionsOK
  BY RowsAssumption DEF Init, SessionsOK, Requests
<1>3. QED BY <1>1, <1>2

\* Every step keeps the type invariant.
LEMMA NextTyped == TypeOK /\ SessionsOK /\ [Next]_vars => TypeOK'
<1> SUFFICES ASSUME TypeOK, SessionsOK, [Next]_vars
             PROVE  TypeOK'
  OBVIOUS
<1>1. ASSUME NEW t \in Txns, NEW i \in Issuances, NEW d \in Details,
             BeginCreate(t, i, d) \/ BeginUpdate(t, i, d)
      PROVE  TypeOK'
  BY <1>1, StartTyped DEF BeginCreate, BeginUpdate, Requests
<1>0. ASSUME NEW t \in Txns, NEW i \in Issuances, BeginPost(t, i)
      PROVE  TypeOK'
  BY <1>0, StartTyped DEF BeginPost, Requests
<1>2. ASSUME NEW t \in Txns, LockIssuance(t)
      PROVE  TypeOK'
  <2>1. target[t] \in Issuances /\ status[target[t]] # "ABSENT"
    BY <1>2 DEF LockIssuance, SessionsOK
  <2>2. details[target[t]] \in Details
    BY <2>1 DEF TypeOK
  <2>3. want' \in [Txns -> Details \cup {None}]
    BY <1>2, <2>2 DEF LockIssuance, TypeOK
  <2>4. QED BY <1>2, <2>1, <2>3 DEF LockIssuance, TypeOK, rows, issuanceRows, Lockable
<1>3. ASSUME NEW t \in Txns, TakeNumber(t)
      PROVE  TypeOK'
  <2>1. MonthOf[want[t].date] \in Months
    BY <1>3, CalendarAssumption DEF TakeNumber, SessionsOK, Details
  <2>2. QED BY <1>3, <2>1 DEF TakeNumber, TypeOK, rows, issuanceRows, Lockable
<1>4. ASSUME NEW t \in Txns, LockReferences(t)
      PROVE  TypeOK'
  <2>1. want[t] \in Details
    BY <1>4 DEF LockReferences, SessionsOK
  <2>2. ReferenceRows(want[t]) \subseteq Lockable
    BY <2>1 DEF ReferenceRows, Lockable, Resources, Details, TypeOK, AllocationRows
  <2>3. QED BY <1>4, <2>2 DEF LockReferences, TypeOK, rows, issuanceRows
<1>5. ASSUME NEW t \in Txns, Rollback(t)
      PROVE  TypeOK'
  BY <1>5, FinishTyped DEF Rollback, TypeOK, rows, issuanceRows
<1>6. ASSUME NEW t \in Txns, CommitCreate(t)
      PROVE  TypeOK'
  <2>1. target[t] \in Issuances /\ want[t] \in Details /\ status[target[t]] = "ABSENT"
    BY <1>6 DEF CommitCreate, SessionsOK
  <2>2. /\ status' \in [Issuances -> Statuses]
        /\ details' \in [Issuances -> Details \cup {None}]
        /\ \A i \in Issuances : details'[i] = None <=> status'[i] = "ABSENT"
        /\ \A i \in Issuances : (status'[i] \in Given) <=> (liters'[i] # 0)
    BY <1>6, <2>1, NoneAssumption DEF CommitCreate, TypeOK, Statuses, Given, Details
  <2>3. QED BY <1>6, <2>2, FinishTyped DEF CommitCreate, TypeOK
<1>7. ASSUME NEW t \in Txns, CommitUpdate(t)
      PROVE  TypeOK'
  <2>1. target[t] \in Issuances /\ want[t] \in Details
    BY <1>7 DEF CommitUpdate, SessionsOK
  <2>2. /\ details' \in [Issuances -> Details \cup {None}]
        /\ \A i \in Issuances : details'[i] = None <=> status'[i] = "ABSENT"
    BY <1>7, <2>1, NoneAssumption DEF CommitUpdate, TypeOK, Details
  <2>3. QED BY <1>7, <2>2, FinishTyped DEF CommitUpdate, TypeOK
<1>8. ASSUME NEW t \in Txns, NEW q \in Quantities, CommitPost(t, q)
      PROVE  TypeOK'
  <2>1. target[t] \in Issuances /\ want[t] \in Details /\ MonthOf[want[t].date] \in Months
    BY <1>8, CalendarAssumption DEF CommitPost, SessionsOK, Details
  <2>2. q \in Nat \ {0} /\ -q \in Int
    BY CalendarAssumption
  <2>3. ledger' \subseteq LedgerEntries
    BY <1>8, <2>1, <2>2, RecordTyped DEF CommitPost
  <2>4. /\ status' \in [Issuances -> Statuses]
        /\ liters' \in [Issuances -> Quantities \cup {0}]
        /\ \A i \in Issuances : details'[i] = None <=> status'[i] = "ABSENT"
        /\ \A i \in Issuances : (status'[i] \in Given) <=> (liters'[i] # 0)
    BY <1>8, <2>1, <2>2 DEF CommitPost, TypeOK, Statuses, Given
  <2>5. ris' \in [Issuances -> Nat] /\ counter' \in [Months -> Nat]
    BY <1>8, <2>1 DEF CommitPost, TypeOK
  <2>6. QED BY <1>8, <2>3, <2>4, <2>5, FinishTyped DEF CommitPost, TypeOK
<1>9. ASSUME NEW i \in Issuances, VoidIssuance(i)
      PROVE  TypeOK'
  <2>1. details[i] \in Details /\ liters[i] \in Nat
    <3>0. status[i] = "POSTED"
      BY <1>9 DEF VoidIssuance
    <3>1. details[i] \in Details
      BY <3>0 DEF TypeOK
    <3>2. liters[i] \in Quantities \cup {0}
      BY DEF TypeOK
    <3>3. QED BY <3>1, <3>2, LitersCounted
  <2>2. ledger' \subseteq LedgerEntries
    BY <1>9, <2>1, RecordTyped DEF VoidIssuance
  <2>3. /\ status' \in [Issuances -> Statuses]
        /\ \A j \in Issuances : details'[j] = None <=> status'[j] = "ABSENT"
        /\ \A j \in Issuances : (status'[j] \in Given) <=> (liters'[j] # 0)
    BY <1>9 DEF VoidIssuance, TypeOK, Statuses, Given
  <2>4. QED BY <1>9, <2>2, <2>3 DEF VoidIssuance, TypeOK
<1>10. ASSUME NEW a \in Allocations, Budget(a)
       PROVE  TypeOK'
  BY <1>10, BudgetStep DEF TypeOK, issuanceRows, sessions
<1>11. ASSUME NEW r \in Resources, ChangeMasterRecord(r)
       PROVE  TypeOK'
  BY <1>11 DEF ChangeMasterRecord, TypeOK, issuanceRows
<1>12. CASE UNCHANGED vars
  BY <1>12 DEF TypeOK, vars, rows, issuanceRows
<1>13. QED
  BY <1>0, <1>1, <1>2, <1>3, <1>4, <1>5, <1>6, <1>7, <1>8, <1>9, <1>10, <1>11, <1>12
     DEF Next, Session

\* Every step keeps what each pc says of its session.
LEMMA NextSessions == TypeOK /\ SessionsOK /\ [Next]_vars => SessionsOK'
<1> SUFFICES ASSUME TypeOK, SessionsOK, [Next]_vars
             PROVE  SessionsOK'
  OBVIOUS
<1>1. ASSUME NEW t \in Txns, NEW i \in Issuances, NEW d \in Details, BeginCreate(t, i, d)
      PROVE  SessionsOK'
  BY <1>1, RowsAssumption DEF BeginCreate, Start, SessionsOK, TypeOK, rows, issuanceRows, Requests
<1>2. ASSUME NEW t \in Txns, NEW i \in Issuances, NEW d \in Details, BeginUpdate(t, i, d)
      PROVE  SessionsOK'
  BY <1>2, RowsAssumption DEF BeginUpdate, Start, SessionsOK, TypeOK, rows, issuanceRows, Requests
<1>3. ASSUME NEW t \in Txns, NEW i \in Issuances, BeginPost(t, i)
      PROVE  SessionsOK'
  BY <1>3, RowsAssumption DEF BeginPost, Start, SessionsOK, TypeOK, rows, issuanceRows, Requests
<1>4. ASSUME NEW t \in Txns, LockIssuance(t)
      PROVE  SessionsOK'
  <2>1. details[target[t]] \in Details
    BY <1>4 DEF LockIssuance, SessionsOK, TypeOK
  <2>2. QED
    BY <1>4, <2>1 DEF LockIssuance, SessionsOK, TypeOK, rows, issuanceRows
<1>5. ASSUME NEW t \in Txns, TakeNumber(t) \/ LockReferences(t)
      PROVE  SessionsOK'
  BY <1>5 DEF TakeNumber, LockReferences, SessionsOK, TypeOK, rows, issuanceRows
<1>6. ASSUME NEW t \in Txns, Finish(t),
             \A i \in Issuances : status'[i] = "ABSENT" <=> status[i] = "ABSENT"
      PROVE  SessionsOK'
  BY <1>6, RowsAssumption DEF Finish, SessionsOK, TypeOK, Requests
<1>7. ASSUME NEW t \in Txns, Rollback(t) \/ CommitUpdate(t)
      PROVE  SessionsOK'
  BY <1>6, <1>7 DEF Rollback, CommitUpdate, rows, issuanceRows
<1>7a. ASSUME NEW t \in Txns, NEW q \in Quantities, CommitPost(t, q)
      PROVE  SessionsOK'
  <2>1. \A i \in Issuances : status'[i] = "ABSENT" <=> status[i] = "ABSENT"
    BY <1>7a DEF CommitPost, TypeOK
  <2>2. QED BY <1>6, <1>7a, <2>1 DEF CommitPost
<1>8. ASSUME NEW t \in Txns, CommitCreate(t)
      PROVE  SessionsOK'
  BY <1>8, RowsAssumption DEF CommitCreate, Finish, SessionsOK, TypeOK, Requests
<1>9. ASSUME UNCHANGED sessions,
             \A i \in Issuances : status'[i] = "ABSENT" <=> status[i] = "ABSENT"
      PROVE  SessionsOK'
  BY <1>9, RowsAssumption DEF sessions, SessionsOK, Requests
<1>10. ASSUME NEW i \in Issuances, VoidIssuance(i)
       PROVE  SessionsOK'
  BY <1>9, <1>10 DEF VoidIssuance, sessions, TypeOK
<1>11. ASSUME NEW a \in Allocations, Budget(a)
       PROVE  SessionsOK'
  BY <1>9, <1>11, BudgetStep DEF issuanceRows
<1>12. CASE (\E r \in Resources : ChangeMasterRecord(r)) \/ UNCHANGED vars
  BY <1>9, <1>12 DEF ChangeMasterRecord, issuanceRows, vars, rows, sessions
<1>13. QED
  BY <1>1, <1>2, <1>3, <1>4, <1>5, <1>7, <1>7a, <1>8, <1>10, <1>11, <1>12
     DEF Next, Session

\* Rows, sessions and locks are always well formed (TypeOK): every use case writes
\* complete rows and leaves no session half ended.
THEOREM FuelTypeCorrect == Spec => []TypeOK
<1>1. Init => TypeOK /\ SessionsOK
  BY InitTyped
<1>2. TypeOK /\ SessionsOK /\ [Next]_vars => (TypeOK /\ SessionsOK)'
  BY NextTyped, NextSessions
<1>3. QED BY <1>1, <1>2, PTL DEF Spec

-----------------------------------------------------------------------------
(***************************************************************************)
(* What a transaction has read stays so until its end                      *)
(***************************************************************************)
\* No session holds a lock or has read anything at the start.
LEMMA InitSerialized == Init => Serialized
BY InitTyped, RowsAssumption DEF Init, Serialized, LocksOK, ReadsStand

\* A change of rows that no session has locked disturbs no session.
LEMMA RowsUnderLocksStand ==
    ASSUME TypeOK, SessionsOK, LocksOK, ReadsStand, UNCHANGED sessions,
           UNCHANGED counter,
           \A i \in Issuances : details'[i] = details[i],
           \A a \in Allocations :
               allocation'[a] = allocation[a] \/ allocation[a] = None \/ Unlocked({a}),
           \A r \in Resources : operational'[r] = operational[r] \/ Unlocked({r})
    PROVE  LocksOK' /\ ReadsStand'
<1>1. ASSUME NEW t \in Txns, pc[t] = "ready"
      PROVE  /\ allocation'[want[t].allocation] = allocation[want[t].allocation]
             /\ \A r \in Resources \cap ReferenceRows(want[t]) : operational'[r] = operational[r]
             /\ Eligible(want[t])
             /\ want[t].allocation \in Allocations
  <2>1. Eligible(want[t]) /\ want[t] \in Details /\ ReferenceRows(want[t]) \subseteq xlocks[t]
    BY <1>1 DEF ReadsStand, SessionsOK, LocksOK
  <2>2. want[t].allocation \in ReferenceRows(want[t]) /\ want[t].allocation \in Allocations
    BY <2>1 DEF ReferenceRows, Details
  <2>3. \A x \in ReferenceRows(want[t]) : ~Unlocked({x})
    BY <2>1 DEF Unlocked
  <2>4. QED BY <2>1, <2>2, <2>3 DEF Eligible
<1>2. ASSUME NEW t \in Txns, pc[t] = "ready"
      PROVE  ReferenceRows(want[t])' = ReferenceRows(want[t]) /\ Eligible(want[t])'
  <2>1. want'[t] = want[t] /\ want[t] \in Details
    BY <1>2 DEF sessions, SessionsOK
  <2>2. ReferenceRows(want[t])' = ReferenceRows(want[t])
    BY <1>1, <1>2, <2>1 DEF ReferenceRows
  <2>3. allocation[want[t].allocation].office \in Resources
    BY <1>1, <1>2 DEF Eligible, TypeOK, AllocationRows, Resources
  <2>4. {want[t].driver, want[t].vehicle, allocation[want[t].allocation].office}
            \subseteq Resources \cap ReferenceRows(want[t])
    BY <1>1, <1>2, <2>1, <2>3 DEF Eligible, ReferenceRows, Details, Resources
  <2>5. QED BY <1>1, <1>2, <2>1, <2>2, <2>4 DEF Eligible
<1>3. LocksOK'
  BY <1>2 DEF sessions, LocksOK
<1>4. ReadsStand'
  BY <1>2 DEF sessions, ReadsStand, SessionsOK
<1>5. QED BY <1>3, <1>4

\* The end of a transaction that writes only rows it has locked, and no
\* allocation or master record, disturbs no other session.
LEMMA EndSerialized ==
    ASSUME TypeOK, SessionsOK, LocksOK, ReadsStand, NEW t \in Txns, Finish(t),
           UNCHANGED <<allocation, operational>>,
           \A i \in Issuances : details'[i] = details[i] \/ i \in xlocks[t] \/ status[i] = "ABSENT",
           \A m \in Months : counter'[m] = counter[m] \/ m \in xlocks[t]
    PROVE  LocksOK' /\ ReadsStand'
<1>1. /\ pc'[t] = "idle" /\ xlocks'[t] = {}
      /\ \A u \in Txns \ {t} : /\ pc'[u] = pc[u] /\ op'[u] = op[u] /\ target'[u] = target[u]
                               /\ want'[u] = want[u] /\ number'[u] = number[u]
                               /\ xlocks'[u] = xlocks[u]
  BY DEF Finish, TypeOK
<1>2. \A d : ReferenceRows(d)' = ReferenceRows(d) /\ (Eligible(d)' <=> Eligible(d))
  BY DEF ReferenceRows, Eligible
<1>3. LocksOK'
  BY <1>1, <1>2 DEF LocksOK
<1>4. ASSUME NEW u \in Txns \ {t}, op[u] = "post", pc[u] \in {"sequence", "references", "ready"}
      PROVE  want'[u] = details'[target'[u]]
  <2>1. target[u] \in Issuances /\ target[u] \notin xlocks[t] /\ status[target[u]] # "ABSENT"
    BY <1>4 DEF SessionsOK, LocksOK
  <2>2. QED BY <1>1, <1>4, <2>1 DEF ReadsStand
<1>5. ASSUME NEW u \in Txns \ {t}, op[u] = "post", pc[u] \in {"references", "ready"}
      PROVE  number'[u] = counter'[MonthOf[want'[u].date]] + 1
  <2>1. MonthOf[want[u].date] \in Months
    BY <1>5, CalendarAssumption DEF SessionsOK, Details
  <2>2. MonthOf[want[u].date] \notin xlocks[t]
    BY <1>5 DEF LocksOK
  <2>3. QED BY <1>1, <1>5, <2>1, <2>2 DEF ReadsStand
<1>6. ReadsStand'
  BY <1>1, <1>2, <1>4, <1>5 DEF ReadsStand
<1>7. QED BY <1>3, <1>6

\* Every step keeps the locks exclusive and what was read under them true.
LEMMA NextSerialized == TypeOK /\ Serialized /\ [Next]_vars => Serialized'
<1> SUFFICES ASSUME TypeOK, SessionsOK, LocksOK, ReadsStand, [Next]_vars
             PROVE  LocksOK' /\ ReadsStand'
  BY NextSessions DEF Serialized
<1>1. ASSUME NEW t \in Txns, NEW name \in Requests, NEW i, NEW d, NEW step \in {"issuance", "references"},
             Start(t, name, i, d, step), name = "create" \/ step = "issuance"
      PROVE  LocksOK' /\ ReadsStand'
  <2>1. \A x : ReferenceRows(x)' = ReferenceRows(x) /\ (Eligible(x)' <=> Eligible(x))
    BY <1>1 DEF Start, rows, ReferenceRows, Eligible
  <2>2. LocksOK'
    BY <1>1, <2>1 DEF Start, LocksOK, TypeOK
  <2>3. ReadsStand'
    BY <1>1, <2>1 DEF Start, ReadsStand, TypeOK, rows, issuanceRows
  <2>4. QED BY <2>2, <2>3
<1>2. ASSUME NEW t \in Txns, NEW i \in Issuances, NEW d \in Details,
             BeginCreate(t, i, d) \/ BeginUpdate(t, i, d)
      PROVE  LocksOK' /\ ReadsStand'
  BY <1>1, <1>2 DEF BeginCreate, BeginUpdate, Requests
<1>3. ASSUME NEW t \in Txns, NEW i \in Issuances, BeginPost(t, i)
      PROVE  LocksOK' /\ ReadsStand'
  BY <1>1, <1>3 DEF BeginPost, Requests
<1>4. ASSUME NEW t \in Txns, LockIssuance(t) \/ TakeNumber(t) \/ LockReferences(t)
      PROVE  LocksOK' /\ ReadsStand'
  <2>1. \A x : ReferenceRows(x)' = ReferenceRows(x) /\ (Eligible(x)' <=> Eligible(x))
    BY <1>4 DEF LockIssuance, TakeNumber, LockReferences, rows, ReferenceRows, Eligible
  <2>2. CASE LockIssuance(t)
    <3>1. LocksOK'
      BY <2>1, <2>2 DEF LockIssuance, LocksOK, TypeOK, CanLock
    <3>2. ReadsStand'
      BY <2>1, <2>2 DEF LockIssuance, ReadsStand, TypeOK, rows, issuanceRows
    <3>3. QED BY <3>1, <3>2
  <2>3. CASE TakeNumber(t)
    <3>1. LocksOK'
      BY <2>1, <2>3 DEF TakeNumber, LocksOK, TypeOK, CanLock
    <3>2. ReadsStand'
      BY <2>1, <2>3 DEF TakeNumber, ReadsStand, TypeOK, rows, issuanceRows
    <3>3. QED BY <3>1, <3>2
  <2>4. CASE LockReferences(t)
    <3>1. LocksOK'
      BY <2>1, <2>4 DEF LockReferences, LocksOK, TypeOK, CanLock
    <3>2. ReadsStand'
      BY <2>1, <2>4 DEF LockReferences, ReadsStand, TypeOK, rows, issuanceRows
    <3>3. QED BY <3>1, <3>2
  <2>5. QED BY <1>4, <2>2, <2>3, <2>4
<1>5. ASSUME NEW t \in Txns, Rollback(t)
      PROVE  LocksOK' /\ ReadsStand'
  BY <1>5, EndSerialized DEF Rollback, rows, issuanceRows
<1>6. ASSUME NEW t \in Txns, CommitCreate(t)
      PROVE  LocksOK' /\ ReadsStand'
  <2>1. status[target[t]] = "ABSENT"
    BY <1>6 DEF CommitCreate, SessionsOK
  <2>2. \A i \in Issuances : details'[i] = details[i] \/ status[i] = "ABSENT"
    BY <1>6, <2>1 DEF CommitCreate, TypeOK
  <2>3. QED BY <1>6, <2>2, EndSerialized DEF CommitCreate
<1>7. ASSUME NEW t \in Txns, CommitUpdate(t)
      PROVE  LocksOK' /\ ReadsStand'
  <2>1. target[t] \in xlocks[t]
    BY <1>7 DEF CommitUpdate, LocksOK
  <2>2. \A i \in Issuances : details'[i] = details[i] \/ i \in xlocks[t]
    BY <1>7, <2>1 DEF CommitUpdate, TypeOK
  <2>3. QED BY <1>7, <2>2, EndSerialized DEF CommitUpdate
<1>8. ASSUME NEW t \in Txns, NEW q \in Quantities, CommitPost(t, q)
      PROVE  LocksOK' /\ ReadsStand'
  <2>1. MonthOf[want[t].date] \in xlocks[t]
    BY <1>8 DEF CommitPost, LocksOK
  <2>2. \A m \in Months : counter'[m] = counter[m] \/ m \in xlocks[t]
    BY <1>8, <2>1 DEF CommitPost, TypeOK
  <2>3. QED BY <1>8, <2>2, EndSerialized DEF CommitPost
<1>9. ASSUME NEW i \in Issuances, VoidIssuance(i)
      PROVE  LocksOK' /\ ReadsStand'
  BY <1>9, RowsUnderLocksStand DEF VoidIssuance, sessions
<1>10. ASSUME NEW a \in Allocations, Budget(a)
       PROVE  LocksOK' /\ ReadsStand'
  <2>1. \A b \in Allocations :
            allocation'[b] = allocation[b] \/ allocation[b] = None \/ Unlocked({b})
    BY <1>10, BudgetStep DEF TypeOK
  <2>2. QED BY <1>10, <2>1, BudgetStep, RowsUnderLocksStand DEF issuanceRows
<1>11. ASSUME NEW r \in Resources, ChangeMasterRecord(r)
       PROVE  LocksOK' /\ ReadsStand'
  <2>1. \A x \in Resources : operational'[x] = operational[x] \/ Unlocked({x})
    BY <1>11 DEF ChangeMasterRecord, TypeOK
  <2>2. QED BY <1>11, <2>1, RowsUnderLocksStand DEF ChangeMasterRecord, sessions, issuanceRows
<1>12. CASE UNCHANGED vars
  BY <1>12, RowsUnderLocksStand DEF vars, rows, issuanceRows, sessions
<1>13. QED
  BY <1>2, <1>3, <1>4, <1>5, <1>6, <1>7, <1>8, <1>9, <1>10, <1>11, <1>12
     DEF Next, Session

\* Until its commit a request works with the issuance, the counter and the
\* reference rows as they are (Serialized), because it holds their locks.
THEOREM PostingsSerialized == Spec => []Serialized
<1>1. Init => TypeOK /\ Serialized
  BY InitTyped, InitSerialized
<1>2. TypeOK /\ Serialized /\ [Next]_vars => (TypeOK /\ Serialized)'
  BY NextTyped, NextSerialized DEF Serialized
<1>3. QED BY <1>1, <1>2, PTL DEF Spec

\* Steps that write no issuance row, counter or ledger row.
LEMMA QuietSteps ==
    ASSUME TypeOK, [Next]_vars
    PROVE  \/ UNCHANGED issuanceRows
           \/ \E t \in Txns : CommitCreate(t) \/ CommitUpdate(t)
           \/ \E t \in Txns, q \in Quantities : CommitPost(t, q)
           \/ \E i \in Issuances : VoidIssuance(i)
<1>1. ASSUME NEW t \in Txns, NEW j \in Issuances, NEW d \in Details,
             BeginCreate(t, j, d) \/ BeginUpdate(t, j, d)
      PROVE  UNCHANGED issuanceRows
  BY <1>1 DEF BeginCreate, BeginUpdate, Start, rows
<1>2. ASSUME NEW t \in Txns, NEW j \in Issuances, BeginPost(t, j)
      PROVE  UNCHANGED issuanceRows
  BY <1>2 DEF BeginPost, Start, rows
<1>3. ASSUME NEW t \in Txns,
             LockIssuance(t) \/ TakeNumber(t) \/ LockReferences(t) \/ Rollback(t)
      PROVE  UNCHANGED issuanceRows
  BY <1>3 DEF LockIssuance, TakeNumber, LockReferences, Rollback, rows
<1>4. ASSUME NEW a \in Allocations, Budget(a)
      PROVE  UNCHANGED issuanceRows
  BY <1>4, BudgetStep
<1>5. ASSUME NEW r \in Resources, ChangeMasterRecord(r)
      PROVE  UNCHANGED issuanceRows
  BY <1>5 DEF ChangeMasterRecord
<1>6. CASE UNCHANGED vars
  BY <1>6 DEF vars, rows
<1>7. QED BY <1>1, <1>2, <1>3, <1>4, <1>5, <1>6 DEF Next, Session

\* A posting commits against a driver, vehicle and office in service and a current,
\* ACTIVE allocation of its period (PostedAgainstEligible), whatever master data and
\* the budget workflow do while it runs.
THEOREM PostingsEligible == Spec => PostedAgainstEligible
<1> DEFINE Good == \A i \in Issuances :
                status[i] = "DRAFT" /\ status'[i] = "POSTED" => Eligible(details[i])
<1>1. TypeOK /\ Serialized /\ [Next]_vars => Good
  <2> SUFFICES ASSUME TypeOK, SessionsOK, ReadsStand, [Next]_vars, NEW i \in Issuances,
                      status[i] = "DRAFT", status'[i] = "POSTED"
               PROVE  Eligible(details[i])
    BY DEF Serialized
  <2>1. ASSUME NEW t \in Txns, NEW q \in Quantities, CommitPost(t, q)
        PROVE  Eligible(details[i])
    <3>1. i = target[t]
      BY <2>1 DEF CommitPost, TypeOK
    <3>2. pc[t] = "ready" /\ op[t] = "post"
      BY <2>1 DEF CommitPost
    <3>3. QED BY <3>1, <3>2 DEF ReadsStand
  <2>2. ASSUME NEW t \in Txns, CommitCreate(t) \/ CommitUpdate(t)
        PROVE  FALSE
    BY <2>2 DEF CommitCreate, CommitUpdate, TypeOK
  <2>3. ASSUME NEW j \in Issuances, VoidIssuance(j)
        PROVE  FALSE
    BY <2>3 DEF VoidIssuance, TypeOK
  <2>4. CASE UNCHANGED issuanceRows
    BY <2>4 DEF issuanceRows
  <2>5. QED BY <2>1, <2>2, <2>3, <2>4, QuietSteps
<1>2. TypeOK /\ Serialized /\ [Next]_vars => [Good]_vars
  BY <1>1
<1>3. QED
  BY <1>2, FuelTypeCorrect, PostingsSerialized, PTL DEF Spec, PostedAgainstEligible

-----------------------------------------------------------------------------
(***************************************************************************)
(* Numbers and ledger                                                      *)
(***************************************************************************)

\* Every step keeps the numbers of each month 1 up to its counter, each given once.
LEMMA NextNumbers ==
    TypeOK /\ Serialized /\ NumbersDense /\ [Next]_vars => NumbersDense'
<1> SUFFICES ASSUME TypeOK, SessionsOK, ReadsStand, NumbersDense, [Next]_vars
             PROVE  NumbersDense'
  BY DEF Serialized
<1>1. ASSUME \A i \in Issuances : status'[i] \in Given <=> status[i] \in Given,
             \A i \in Issuances : status[i] \in Given => details'[i] = details[i],
             UNCHANGED <<ris, counter>>
      PROVE  NumbersDense'
  <2>1. \A m \in Months : Numbered(m)' = Numbered(m)
    BY <1>1 DEF Numbered
  <2>2. QED BY <1>1, <2>1 DEF NumbersDense
<1>2. CASE UNCHANGED issuanceRows
  BY <1>1, <1>2 DEF issuanceRows
<1>3. ASSUME NEW t \in Txns, CommitCreate(t)
      PROVE  NumbersDense'
  BY <1>1, <1>3 DEF CommitCreate, SessionsOK, TypeOK, Given
<1>4. ASSUME NEW t \in Txns, CommitUpdate(t)
      PROVE  NumbersDense'
  BY <1>1, <1>4 DEF CommitUpdate, SessionsOK, TypeOK, Given
<1>5. ASSUME NEW i \in Issuances, VoidIssuance(i)
      PROVE  NumbersDense'
  BY <1>1, <1>5 DEF VoidIssuance, TypeOK, Given
<1>6. ASSUME NEW t \in Txns, NEW q \in Quantities, CommitPost(t, q)
      PROVE  NumbersDense'
  <2>1. PICK i \in Issuances, k \in Months :
            /\ status[i] = "DRAFT" /\ details[i] \in Details /\ k = MonthOf[details[i].date]
            /\ counter' = [counter EXCEPT ![k] = counter[k] + 1]
            /\ ris' = [ris EXCEPT ![i] = counter[k] + 1]
            /\ status' = [status EXCEPT ![i] = "POSTED"]
            /\ UNCHANGED details
    <3>1. target[t] \in Issuances /\ want[t] = details[target[t]] /\ want[t] \in Details
      BY <1>6 DEF CommitPost, SessionsOK, ReadsStand
    <3>2. MonthOf[want[t].date] \in Months
      BY <3>1, CalendarAssumption DEF Details
    <3>3. number[t] = counter[MonthOf[want[t].date]] + 1
      BY <1>6 DEF CommitPost, ReadsStand
    <3>4. QED BY <1>6, <3>1, <3>2, <3>3 DEF CommitPost
  <2>2. counter[k] \in Nat /\ i \notin Numbered(k)
    BY <2>1 DEF TypeOK, Numbered, Given
  <2>3. Numbered(k)' = Numbered(k) \cup {i}
    BY <2>1 DEF Numbered, Given, TypeOK
  <2>4. \A j \in Numbered(k) : ris'[j] = ris[j] /\ ris[j] \in 1 .. counter[k]
    BY <2>1, <2>2 DEF Numbered, NumbersDense, TypeOK
  <2>5. ris'[i] = counter[k] + 1 /\ counter'[k] = counter[k] + 1
    BY <2>1 DEF TypeOK
  <2>6. ASSUME NEW m \in Months
        PROVE  /\ {ris'[j] : j \in Numbered(m)'} = 1 .. counter'[m]
               /\ \A a, b \in Numbered(m)' : ris'[a] = ris'[b] => a = b
    <3>1. CASE m = k
      <4>1. {ris'[j] : j \in Numbered(k)'} = {ris[j] : j \in Numbered(k)} \cup {counter[k] + 1}
        BY <2>3, <2>4, <2>5
      <4>2. {ris[j] : j \in Numbered(k)} = 1 .. counter[k]
        BY <2>1 DEF NumbersDense
      <4>3. 1 .. counter'[k] = (1 .. counter[k]) \cup {counter[k] + 1}
        BY <2>2, <2>5
      <4>4. \A a, b \in Numbered(k) : ris[a] = ris[b] => a = b
        BY <2>1 DEF NumbersDense
      <4>5. \A a \in Numbered(k) : ris'[a] # ris'[i]
        BY <2>2, <2>4, <2>5
      <4>6. \A a, b \in Numbered(k)' : ris'[a] = ris'[b] => a = b
        BY <2>3, <2>4, <4>4, <4>5
      <4>7. {ris'[j] : j \in Numbered(k)'} = 1 .. counter'[k]
        BY <4>1, <4>2, <4>3
      <4>8. QED BY <3>1, <4>6, <4>7
    <3>2. CASE m # k
      <4>1. Numbered(m)' = Numbered(m) /\ i \notin Numbered(m)
        BY <2>1, <3>2 DEF Numbered, Given, TypeOK
      <4>2. counter'[m] = counter[m] /\ \A j \in Numbered(m) : ris'[j] = ris[j]
        BY <2>1, <3>2, <4>1 DEF TypeOK, Numbered
      <4>3. QED BY <4>1, <4>2 DEF NumbersDense
    <3>3. QED BY <3>1, <3>2
  <2>7. QED BY <2>6 DEF NumbersDense
<1>7. QED BY <1>2, <1>3, <1>4, <1>5, <1>6, QuietSteps

\* Within a month the RIS numbers are given out once each and without gaps
\* (NumbersDense), rollbacks, edits and concurrent postings notwithstanding.
THEOREM NumbersGivenOnce == Spec => []NumbersDense
<1>1. Init => TypeOK /\ Serialized /\ NumbersDense
  <2>1. Init => NumbersDense
    BY DEF Init, NumbersDense, Numbered, Given
  <2>2. QED BY <2>1, InitTyped, InitSerialized
<1>2. TypeOK /\ Serialized /\ NumbersDense /\ [Next]_vars
          => (TypeOK /\ Serialized /\ NumbersDense)'
  BY NextTyped, NextSerialized, NextNumbers DEF Serialized
<1>3. QED BY <1>1, <1>2, PTL DEF Spec

\* The entries an issuance should have in the ledger.
Owed(i) ==
    (IF status[i] \in Given THEN {Entry(i, "ISSUANCE", details[i], -liters[i])} ELSE {})
        \cup
    (IF status[i] = "VOIDED" THEN {Entry(i, "ADJUSTMENT", details[i], liters[i])} ELSE {})

EntriesOf(i) == {e \in ledger : e.issuance = i}

\* Every step keeps the ledger at what the statuses call for.
LEMMA NextLedger ==
    TypeOK /\ Serialized /\ LedgerAgrees /\ [Next]_vars => LedgerAgrees'
<1> SUFFICES ASSUME TypeOK, SessionsOK, ReadsStand, LedgerAgrees, [Next]_vars
             PROVE  LedgerAgrees'
  BY DEF Serialized
<1>0. \A i \in Issuances : EntriesOf(i) = Owed(i)
  BY DEF LedgerAgrees, EntriesOf, Owed
<1>0a. (\A i \in Issuances : EntriesOf(i)' = Owed(i)') => LedgerAgrees'
  BY DEF LedgerAgrees, EntriesOf, Owed
<1>1. ASSUME NEW i \in Issuances,
             \A j \in Issuances \ {i} : /\ status'[j] = status[j] /\ details'[j] = details[j]
                                       /\ liters'[j] = liters[j],
             NEW new, ledger' = ledger \cup new, \A e \in new : e.issuance = i,
             Owed(i)' = Owed(i) \cup new
      PROVE  LedgerAgrees'
  <2>1. ASSUME NEW j \in Issuances
        PROVE  EntriesOf(j)' = Owed(j)'
    <3>1. CASE j = i
      <4>1. EntriesOf(i)' = EntriesOf(i) \cup new
        BY <1>1 DEF EntriesOf
      <4>2. QED BY <1>0, <1>1, <3>1, <4>1
    <3>2. CASE j # i
      <4>1. EntriesOf(j)' = EntriesOf(j)
        BY <1>1, <3>2 DEF EntriesOf
      <4>2. Owed(j)' = Owed(j)
        BY <1>1, <3>2 DEF Owed, Entry
      <4>3. QED BY <1>0, <4>1, <4>2
    <3>3. QED BY <3>1, <3>2
  <2>2. QED BY <1>0a, <2>1
<1>2. CASE UNCHANGED issuanceRows
  BY <1>2 DEF LedgerAgrees, issuanceRows, Entry
<1>3. ASSUME NEW t \in Txns, CommitCreate(t) \/ CommitUpdate(t)
      PROVE  LedgerAgrees'
  <2>1. PICK i \in Issuances : i = target[t]
    BY <1>3 DEF CommitCreate, CommitUpdate, SessionsOK
  <2>2. status[i] \notin Given /\ status'[i] \notin Given /\ UNCHANGED ledger
    BY <1>3, <2>1 DEF CommitCreate, CommitUpdate, SessionsOK, Given, TypeOK
  <2>3. \A j \in Issuances \ {i} : /\ status'[j] = status[j] /\ details'[j] = details[j]
                                  /\ liters'[j] = liters[j]
    BY <1>3, <2>1 DEF CommitCreate, CommitUpdate, TypeOK
  <2>4. Owed(i) = {} /\ Owed(i)' = {}
    BY <2>2 DEF Owed, Given
  <2>5. PICK new : new = {}
    OBVIOUS
  <2>6. /\ ledger' = ledger \cup new /\ Owed(i)' = Owed(i) \cup new
        /\ \A e \in new : e.issuance = i
    BY <2>2, <2>4, <2>5
  <2>7. QED BY <1>1, <2>3, <2>6
<1>4. ASSUME NEW t \in Txns, NEW q \in Quantities, CommitPost(t, q)
      PROVE  LedgerAgrees'
  <2>1. PICK i \in Issuances : i = target[t] /\ want[t] = details[i]
    BY <1>4 DEF CommitPost, SessionsOK, ReadsStand
  <2>2. PICK new : new = {Entry(i, "ISSUANCE", details[i], -q)}
    OBVIOUS
  <2>3. ledger' = ledger \cup new
    BY <1>4, <2>1, <2>2 DEF CommitPost, Record
  <2>4. /\ status[i] = "DRAFT" /\ status'[i] = "POSTED" /\ liters'[i] = q /\ details' = details
        /\ \A j \in Issuances \ {i} : status'[j] = status[j] /\ liters'[j] = liters[j]
    BY <1>4, <2>1 DEF CommitPost, TypeOK
  <2>5. Owed(i) = {}
    BY <2>4 DEF Owed, Given
  <2>6. Owed(i)' = Owed(i) \cup new
    BY <2>2, <2>4, <2>5 DEF Owed, Given, Entry
  <2>7. \A e \in new : e.issuance = i
    BY <2>2 DEF Entry
  <2>8. QED BY <1>1, <2>3, <2>4, <2>6, <2>7
<1>5. ASSUME NEW i \in Issuances, VoidIssuance(i)
      PROVE  LedgerAgrees'
  <2> DEFINE new == {Entry(i, "ADJUSTMENT", details[i], liters[i])}
  <2>1. ledger' = ledger \cup new
    BY <1>5 DEF VoidIssuance, Record
  <2>2. /\ status[i] = "POSTED" /\ status'[i] = "VOIDED" /\ UNCHANGED <<details, liters>>
        /\ \A j \in Issuances \ {i} : status'[j] = status[j]
    BY <1>5 DEF VoidIssuance, TypeOK
  <2>3. Owed(i)' = Owed(i) \cup new
    BY <2>2 DEF Owed, Given, Entry
  <2>4. \A e \in new : e.issuance = i
    BY DEF Entry
  <2> HIDE DEF new
  <2>5. QED BY <1>1, <2>1, <2>2, <2>3, <2>4
<1>6. QED BY <1>2, <1>3, <1>4, <1>5, QuietSteps

\* The ledger says what the issuances say (LedgerAgrees): posting and voiding
\* write an issuance and its entry together and nothing else touches either.
THEOREM LedgerFollowsIssuances == Spec => []LedgerAgrees
<1>1. Init => TypeOK /\ Serialized /\ LedgerAgrees
  <2>1. Init => LedgerAgrees
    BY DEF Init, LedgerAgrees, Given
  <2>2. QED BY <2>1, InitTyped, InitSerialized
<1>2. TypeOK /\ Serialized /\ LedgerAgrees /\ [Next]_vars
          => (TypeOK /\ Serialized /\ LedgerAgrees)'
  BY NextTyped, NextSerialized, NextLedger DEF Serialized
<1>3. QED BY <1>1, <1>2, PTL DEF Spec

-----------------------------------------------------------------------------
(***************************************************************************)
(* The transactions implement the book of issuances                        *)
(***************************************************************************)
\* The sum over the one row an issuance has is that row.
LEMMA SignedOfOnly ==
    ASSUME NEW i, NEW kind, NEW entry,
           {e \in ledger : e.issuance = i /\ e.kind = kind} = {entry}
    PROVE  Signed(i, kind) = entry.signed
<1> DEFINE es == {e \in ledger : e.issuance = i /\ e.kind = kind}
<1>1. (CHOOSE e \in es : TRUE) \in es
  OBVIOUS
<1>2. (CHOOSE e \in es : TRUE) = entry
  BY <1>1
<1>3. Signed(i, kind) = IF es = {} THEN 0 ELSE (CHOOSE e \in es : TRUE).signed
  BY DEF Signed
<1>4. QED BY <1>2, <1>3

\* What an issuance has done to the stock, by the ledger.
LEMMA NetOfIssuance ==
    ASSUME TypeOK, LedgerAgrees, NEW i \in Issuances
    PROVE  BookNet[i] = IF status[i] = "POSTED" THEN -liters[i] ELSE 0
<1> DEFINE of(kind) == {e \in ledger : e.issuance = i /\ e.kind = kind}
<1>1. EntriesOf(i) = Owed(i)
  BY DEF LedgerAgrees, EntriesOf, Owed
<1>2. \A kind : of(kind) = {e \in Owed(i) : e.kind = kind}
  BY <1>1 DEF EntriesOf
<1>3. liters[i] \in Nat
  <2>1. liters[i] \in Quantities \cup {0}
    BY DEF TypeOK
  <2>2. QED BY <2>1, LitersCounted
<1>4. of("ISSUANCE") = IF status[i] \in Given THEN {Entry(i, "ISSUANCE", details[i], -liters[i])} ELSE {}
  BY <1>2 DEF Owed, Entry, Given
<1>5. of("ADJUSTMENT") = IF status[i] = "VOIDED" THEN {Entry(i, "ADJUSTMENT", details[i], liters[i])} ELSE {}
  BY <1>2 DEF Owed, Entry, Given
<1>6. Signed(i, "ISSUANCE") = IF status[i] \in Given THEN -liters[i] ELSE 0
  <2>1. CASE status[i] \in Given
    <3>1. Signed(i, "ISSUANCE") = Entry(i, "ISSUANCE", details[i], -liters[i]).signed
      BY <1>4, <2>1, SignedOfOnly
    <3>2. QED BY <2>1, <3>1 DEF Entry
  <2>2. CASE status[i] \notin Given
    BY <1>4, <2>2 DEF Signed
  <2>3. QED BY <2>1, <2>2
<1>7. Signed(i, "ADJUSTMENT") = IF status[i] = "VOIDED" THEN liters[i] ELSE 0
  <2>1. CASE status[i] = "VOIDED"
    <3>1. Signed(i, "ADJUSTMENT") = Entry(i, "ADJUSTMENT", details[i], liters[i]).signed
      BY <1>5, <2>1, SignedOfOnly
    <3>2. QED BY <2>1, <3>1 DEF Entry
  <2>2. CASE status[i] # "VOIDED"
    BY <1>5, <2>2 DEF Signed
  <2>3. QED BY <2>1, <2>2
<1>8. BookNet[i] = Signed(i, "ISSUANCE") + Signed(i, "ADJUSTMENT")
  BY DEF BookNet
<1>9. QED BY <1>3, <1>6, <1>7, <1>8 DEF Given

NetsAgree == BookNet = [i \in Issuances |-> IF status[i] = "POSTED" THEN -liters[i] ELSE 0]

\* The abstract net quantities follow from the ledger.
LEMMA NetsOfIssuances == TypeOK /\ LedgerAgrees => NetsAgree
BY NetOfIssuance DEF BookNet, NetsAgree

\* The initial state is that of the book.
LEMMA BookStarts == Init => Book!Init
<1> SUFFICES ASSUME Init PROVE Book!Init
  OBVIOUS
<1>1. \A i \in Issuances : Signed(i, "ISSUANCE") = 0 /\ Signed(i, "ADJUSTMENT") = 0
  BY DEF Init, Signed
<1>2. BookNet = [i \in Issuances |-> 0]
  BY <1>1 DEF BookNet
<1>3. BookMonth = [i \in Issuances |-> None]
  BY DEF Init, BookMonth
<1>4. QED BY <1>2, <1>3 DEF Init, Book!Init

\* Every step is a step of the book or a stutter.
LEMMA BookSteps ==
    ASSUME TypeOK, SessionsOK, ReadsStand, NumbersDense, LedgerAgrees,
           TypeOK', LedgerAgrees', [Next]_vars
    PROVE  [Book!Next]_(Book!book)
<1>1. BookNet = [i \in Issuances |-> IF status[i] = "POSTED" THEN -liters[i] ELSE 0]
  BY NetsOfIssuances DEF NetsAgree
<1>2. BookNet' = [i \in Issuances |-> IF status'[i] = "POSTED" THEN -liters'[i] ELSE 0]
  <2>1. NetsAgree'
    BY NetsOfIssuances, PTL
  <2>2. QED BY <2>1 DEF NetsAgree
<1>3. CASE UNCHANGED issuanceRows
  <2>1. BookNet' = BookNet /\ BookMonth' = BookMonth
    BY <1>1, <1>2, <1>3 DEF issuanceRows, BookMonth
  <2>2. QED BY <1>3, <2>1 DEF issuanceRows, Book!book
<1>4. ASSUME NEW t \in Txns, CommitCreate(t) \/ CommitUpdate(t)
      PROVE  Book!Next
  <2>1. PICK i \in Issuances, m \in Months :
            /\ status[i] \in {"ABSENT", "DRAFT"} /\ status' = [status EXCEPT ![i] = "DRAFT"]
            /\ details' = [details EXCEPT ![i] = want[t]]
            /\ want[t] \in Details /\ MonthOf[want[t].date] = m
            /\ UNCHANGED <<ris, liters>>
    <3>1. target[t] \in Issuances /\ want[t] \in Details
      BY <1>4 DEF CommitCreate, CommitUpdate, SessionsOK
    <3>2. MonthOf[want[t].date] \in Months
      BY <3>1, CalendarAssumption DEF Details
    <3>3. CASE CommitCreate(t)
      BY <3>1, <3>2, <3>3 DEF CommitCreate, SessionsOK
    <3>4. CASE CommitUpdate(t)
      <4>1. status' = [status EXCEPT ![target[t]] = "DRAFT"]
        BY <3>1, <3>4 DEF CommitUpdate, TypeOK
      <4>2. QED BY <3>1, <3>2, <3>4, <4>1 DEF CommitUpdate
    <3>5. QED BY <1>4, <3>3, <3>4
  <2>2. BookNet' = BookNet
    BY <1>1, <1>2, <2>1 DEF TypeOK
  <2>3. BookMonth' = [BookMonth EXCEPT ![i] = m]
    BY <2>1, NoneAssumption DEF BookMonth, TypeOK, Details
  <2>4. Book!Prepare(i)
    BY <2>1, <2>2, <2>3 DEF Book!Prepare
  <2>5. QED BY <2>4 DEF Book!Next
<1>5. ASSUME NEW t \in Txns, NEW q \in Quantities, CommitPost(t, q)
      PROVE  Book!Next
  <2>1. PICK i \in Issuances, m \in Months :
            /\ status[i] = "DRAFT" /\ status' = [status EXCEPT ![i] = "POSTED"]
            /\ details[i] # None /\ MonthOf[details[i].date] = m
            /\ ris' = [ris EXCEPT ![i] = counter[m] + 1]
            /\ liters' = [liters EXCEPT ![i] = q]
            /\ UNCHANGED details
    <3>1. target[t] \in Issuances /\ want[t] = details[target[t]] /\ want[t] \in Details
      BY <1>5 DEF CommitPost, SessionsOK, ReadsStand
    <3>2. MonthOf[want[t].date] \in Months
      BY <3>1, CalendarAssumption DEF Details
    <3>3. number[t] = counter[MonthOf[want[t].date]] + 1
      BY <1>5 DEF CommitPost, ReadsStand
    <3>4. want[t] # None
      BY <3>1, NoneAssumption DEF Details
    <3>5. QED BY <1>5, <3>1, <3>2, <3>3, <3>4 DEF CommitPost
  <2>2. BookMonth' = BookMonth /\ BookMonth[i] = m
    BY <2>1 DEF BookMonth
  <2>3. ris'[i] = counter[m] + 1 /\ counter[m] \in Nat
    BY <2>1 DEF TypeOK
  <2>4. Book!Numbers(m) = {ris[j] : j \in Numbered(m)}
    <3>1. {j \in Issuances : status[j] \in {"POSTED", "VOIDED"} /\ BookMonth[j] = m} = Numbered(m)
      BY DEF Numbered, Given, BookMonth, TypeOK
    <3>2. QED BY <3>1 DEF Book!Numbers
  <2>5. Book!Numbers(m) = 1 .. counter[m]
    BY <2>4 DEF NumbersDense
  <2>6. ris'[i] \in Nat \ {0} /\ Book!Numbers(BookMonth[i]) = 1 .. ris'[i] - 1
    BY <2>2, <2>3, <2>5
  <2>7. ris' = [ris EXCEPT ![i] = ris'[i]]
    BY <2>1, <2>3
  <2>8. BookNet' = [BookNet EXCEPT ![i] = -q]
    BY <1>1, <1>2, <2>1 DEF TypeOK
  <2>9. Book!Post(i)
    BY <2>1, <2>2, <2>6, <2>7, <2>8 DEF Book!Post
  <2>10. QED BY <2>9 DEF Book!Next
<1>6. ASSUME NEW i \in Issuances, VoidIssuance(i)
      PROVE  Book!Next
  <2>1. /\ status[i] = "POSTED" /\ status' = [status EXCEPT ![i] = "VOIDED"]
        /\ UNCHANGED <<details, ris, liters>>
    BY <1>6 DEF VoidIssuance
  <2>2. BookMonth' = BookMonth
    BY <2>1 DEF BookMonth
  <2>3. BookNet' = [BookNet EXCEPT ![i] = 0]
    BY <1>1, <1>2, <2>1 DEF TypeOK
  <2>4. Book!Void(i)
    BY <2>1, <2>2, <2>3 DEF Book!Void
  <2>5. QED BY <2>4 DEF Book!Next
<1>7. QED BY <1>3, <1>4, <1>5, <1>6, QuietSteps

\* The transactions, counters and ledger implement the book (ImplementsBook): the
\* commit of a create, an edit, a posting or a void is one step of the book,
\* every other step leaves it as it is.
THEOREM BookImplemented == Spec => ImplementsBook
<1>1. Init => Book!Init
  BY BookStarts
<1>2. TypeOK /\ Serialized /\ NumbersDense /\ LedgerAgrees /\ TypeOK' /\ LedgerAgrees' /\ [Next]_vars
          => [Book!Next]_(Book!book)
  BY BookSteps DEF Serialized
<1>3. QED
  BY <1>1, <1>2, FuelTypeCorrect, PostingsSerialized, NumbersGivenOnce, LedgerFollowsIssuances, PTL
     DEF Spec, ImplementsBook, Book!Spec


-----------------------------------------------------------------------------
(***************************************************************************)
(* Balances                                                                *)
(***************************************************************************)
\* The sums of summarize are sums in the sense of DataTheorems.
LEMMA SignedIsTotal ==
    ASSUME NEW S, IsFiniteSet(S), NEW f, \A e \in S : f[e] = e.signed
    PROVE  SumOfSigned(S) = Total(f, S)
<1> DEFINE Rec(g) ==
        g = [s \in SUBSET S |-> IF s = {} THEN 0 ELSE Pick(s).signed + g[s \ {Pick(s)}]]
           h == CHOOSE g : Rec(g)
<1>1. SumOfSigned(S) = h[S]
  BY DEF SumOfSigned, MapThenSumSet, MapThenFoldSet, Pick
<1>2. ASSUME NEW g
      PROVE  Rec(g) <=> Adds(g, f, S)
  <2>1. \A s \in SUBSET S : s # {} => f[Pick(s)] = Pick(s).signed
    BY PickIsIn
  <2>2. [s \in SUBSET S |-> IF s = {} THEN 0 ELSE Pick(s).signed + g[s \ {Pick(s)}]]
      = [s \in SUBSET S |-> IF s = {} THEN 0 ELSE f[Pick(s)] + g[s \ {Pick(s)}]]
    BY <2>1
  <2>3. QED BY <2>2 DEF Adds
<1>3. \E g : Adds(g, f, S)
  BY AddsExists
<1>4. Adds(h, f, S)
  <2>1. \E g : Rec(g)
    BY <1>2, <1>3
  <2>2. Rec(h)
    BY <2>1
  <2> HIDE DEF h, Rec
  <2>3. QED BY <1>2, <2>2
<1>5. Total(f, S) = h[S]
  <2> HIDE DEF h, Rec
  <2>1. QED BY <1>4, S \in SUBSET S, TotalOf
<1>6. QED BY <1>1, <1>5

\* So is the sum of quantities, each without its sign.
LEMMA QuantityIsTotal ==
    ASSUME NEW S, IsFiniteSet(S), NEW f,
           \A e \in S : f[e] = IF e.signed < 0 THEN -e.signed ELSE e.signed
    PROVE  SumOfQuantity(S) = Total(f, S)
<1> DEFINE Amount(e) == IF e.signed < 0 THEN -e.signed ELSE e.signed
           Rec(g) ==
        g = [s \in SUBSET S |-> IF s = {} THEN 0 ELSE Amount(Pick(s)) + g[s \ {Pick(s)}]]
           h == CHOOSE g : Rec(g)
<1>1. SumOfQuantity(S) = h[S]
  BY DEF SumOfQuantity, MapThenSumSet, MapThenFoldSet, Pick
<1>2. ASSUME NEW g
      PROVE  Rec(g) <=> Adds(g, f, S)
  <2>1. \A s \in SUBSET S : s # {} => f[Pick(s)] = Amount(Pick(s))
    BY PickIsIn
  <2> HIDE DEF Amount
  <2>2. [s \in SUBSET S |-> IF s = {} THEN 0 ELSE Amount(Pick(s)) + g[s \ {Pick(s)}]]
      = [s \in SUBSET S |-> IF s = {} THEN 0 ELSE f[Pick(s)] + g[s \ {Pick(s)}]]
    BY <2>1
  <2>3. QED BY <2>2 DEF Adds
<1>3. \E g : Adds(g, f, S)
  BY AddsExists
<1>4. Adds(h, f, S)
  <2>1. \E g : Rec(g)
    BY <1>2, <1>3
  <2>2. Rec(h)
    BY <2>1
  <2> HIDE DEF h, Rec
  <2>3. QED BY <1>2, <2>2
<1>5. Total(f, S) = h[S]
  <2> HIDE DEF h, Rec
  <2>1. QED BY <1>4, S \in SUBSET S, TotalOf
<1>6. QED BY <1>1, <1>5

\* Posted issuances with these dates, and those with another status.
Of(s, fuel, dates) == {i \in Issuances : /\ status[i] = s /\ details[i].fuel = fuel
                                          /\ details[i].date \in dates}

\* And so is what posted issuances have taken out.
LEMMA TakenIsTotal ==
    ASSUME NEW fuel, NEW dates
    PROVE  TakenOut(fuel, dates) = Total(liters, Of("POSTED", fuel, dates))
  BY DEF TakenOut, MapThenSumSet, MapThenFoldSet, Pick, Total, Adds, Of

\* What the ledger has of a fuel and some dates sums to what posted issuances took out:
\* a voided one has two entries that sum to nothing.
LEMMA EntriesSumToTaken ==
    ASSUME TypeOK, LedgerAgrees, IsFiniteSet(ledger), NEW fuel, NEW dates
    PROVE  SumOfSigned({e \in ledger : e.fuel = fuel /\ e.date \in dates})
             = -TakenOut(fuel, dates)
<1> DEFINE entries == {e \in ledger : e.fuel = fuel /\ e.date \in dates}
           sg == [e \in LedgerEntries |-> e.signed]
           neg == [i \in Issuances |-> -liters[i]]
           Out == [i \in Issuances |-> Entry(i, "ISSUANCE", details[i], -liters[i])]
           Back == [i \in Issuances |-> Entry(i, "ADJUSTMENT", details[i], liters[i])]
           posted == Of("POSTED", fuel, dates)
           voided == Of("VOIDED", fuel, dates)
           A == {Out[i] : i \in posted}
           B == {Out[i] : i \in voided}
           C == {Back[i] : i \in voided}
<1>1. \A i \in Issuances : /\ liters[i] \in Int /\ neg[i] \in Int /\ neg[i] = -liters[i]
                           /\ Out[i].issuance = i /\ Back[i].issuance = i
                           /\ Out[i].kind = "ISSUANCE" /\ Back[i].kind = "ADJUSTMENT"
                           /\ Out[i].signed = neg[i] /\ Back[i].signed = liters[i]
                           /\ Out[i].fuel = details[i].fuel /\ Back[i].fuel = details[i].fuel
                           /\ Out[i].date = details[i].date /\ Back[i].date = details[i].date
  <2>1. \A i \in Issuances : liters[i] \in Int
    BY LitersCounted DEF TypeOK
  <2>2. QED BY <2>1 DEF Entry
<1>2. posted \subseteq Issuances /\ voided \subseteq Issuances
  BY DEF Of
<1>3. \A i \in Issuances : EntriesOf(i) = Owed(i)
  BY DEF LedgerAgrees, EntriesOf, Owed
<1>4. \A i \in posted : Owed(i) = {Out[i]}
  BY DEF Of, Owed, Given
<1>5. \A i \in voided : Owed(i) = {Out[i], Back[i]}
  BY DEF Of, Owed, Given
<1>6. A \subseteq ledger /\ B \subseteq ledger /\ C \subseteq ledger
  <2> HIDE DEF Out, Back, posted, voided
  <2>1. \A i \in posted : Out[i] \in ledger
    BY <1>2, <1>3, <1>4 DEF EntriesOf
  <2>2. \A i \in voided : Out[i] \in ledger /\ Back[i] \in ledger
    BY <1>2, <1>3, <1>5 DEF EntriesOf
  <2>3. QED BY <2>1, <2>2
<1>7. entries = (A \cup B) \cup C
  <2>1. ASSUME NEW e \in entries
        PROVE  e \in (A \cup B) \cup C
    <3>1. PICK i \in Issuances : i = e.issuance
      BY DEF TypeOK, LedgerEntries
    <3>2. e \in Owed(i)
      BY <1>3, <3>1 DEF EntriesOf
    <3>3. e = Out[i] \/ e = Back[i]
      BY <3>2 DEF Owed
    <3>4. details[i].fuel = fuel /\ details[i].date \in dates
      BY <1>1, <3>3
    <3>5. CASE status[i] = "POSTED"
      <4>1. i \in posted
        BY <3>4, <3>5 DEF Of
      <4>2. QED BY <1>4, <3>2, <4>1
    <3>6. CASE status[i] = "VOIDED"
      <4>1. i \in voided
        BY <3>4, <3>6 DEF Of
      <4>2. QED BY <1>5, <3>2, <4>1
    <3>7. QED BY <3>2, <3>5, <3>6 DEF Owed, Given
  <2>2. ASSUME NEW e \in (A \cup B) \cup C
        PROVE  e \in entries
    <3>1. PICK i \in Issuances : /\ e = Out[i] \/ e = Back[i]
                                 /\ details[i].fuel = fuel /\ details[i].date \in dates
      BY DEF Of
    <3>2. e.fuel = fuel /\ e.date \in dates
      BY <1>1, <3>1
    <3>3. e \in ledger
      BY <1>6
    <3>4. QED BY <3>2, <3>3
  <2>3. QED BY <2>1, <2>2
<1>8. IsFiniteSet(posted) /\ IsFiniteSet(voided)
  <2> DEFINE G == posted \cup voided
             f == [i \in G |-> Out[i]]
  <2>1. f \in Injection(G, ledger)
    <3>1. \A i \in G : f[i] \in ledger
      BY <1>6
    <3>2. \A i, j \in G : f[i] = f[j] => i = j
      BY <1>1, <1>2
    <3>3. f \in [G -> ledger]
      BY <3>1
    <3> HIDE DEF f, G
    <3>4. QED BY <3>2, <3>3 DEF Injection, IsInjective
  <2>2. IsFiniteSet(G)
    <3> HIDE DEF f, G
    <3>1. QED BY <2>1, FS_Injection
  <2>3. QED BY <2>2, FS_Subset
<1>9. \A e \in ledger : sg[e] = e.signed /\ sg[e] \in Int
  BY DEF TypeOK, LedgerEntries
<1>10. /\ \A i \in posted : sg[Out[i]] = neg[i]
       /\ \A i \in voided : sg[Out[i]] = neg[i] /\ sg[Back[i]] = liters[i]
  <2> HIDE DEF sg, neg, Out, Back, posted, voided
  <2>1. /\ \A i \in posted : Out[i] \in ledger
        /\ \A i \in voided : Out[i] \in ledger /\ Back[i] \in ledger
    BY <1>6
  <2>2. QED BY <1>1, <1>2, <1>9, <2>1
<1>11. /\ \A i \in posted : liters[i] \in Int /\ neg[i] \in Int /\ neg[i] = -liters[i]
       /\ \A i \in voided : liters[i] \in Int /\ neg[i] \in Int /\ neg[i] = -liters[i]
  BY <1>1, <1>2
<1>12. /\ \A i, j \in posted : Out[i] = Out[j] => i = j
       /\ \A i, j \in voided : Out[i] = Out[j] => i = j
       /\ \A i, j \in voided : Back[i] = Back[j] => i = j
  BY <1>1, <1>2
<1>13. A \cap B = {} /\ (A \cup B) \cap C = {}
  <2>1. \A i \in posted : i \notin voided
    BY DEF Of
  <2> HIDE DEF Out, Back, posted, voided
  <2>2. A \cap B = {}
    BY <1>1, <1>2, <2>1
  <2>3. (A \cup B) \cap C = {}
    <3>1. \A e \in A \cup B : e.kind = "ISSUANCE"
      BY <1>1, <1>2
    <3>2. \A e \in C : e.kind = "ADJUSTMENT"
      BY <1>1, <1>2
    <3>3. QED BY <3>1, <3>2
  <2>4. QED BY <2>2, <2>3
<1>14. IsFiniteSet(entries) /\ \A e \in entries : sg[e] = e.signed
  BY <1>9, FS_Subset
<1>15. IsFiniteSet(A) /\ IsFiniteSet(B) /\ IsFiniteSet(C) /\ IsFiniteSet(A \cup B)
  BY <1>6, FS_Subset, FS_Union
<1>16. \A e \in (A \cup B) \cup C : sg[e] \in Int
  BY <1>6, <1>9
<1>17. Total(sg, A) = Total(neg, posted)
  <2> HIDE DEF sg, neg, Out, Back, posted, voided
  <2>1. QED BY <1>8, <1>10, <1>11, <1>12, TotalRenamed
<1>18. Total(sg, B) = Total(neg, voided)
  <2> HIDE DEF sg, neg, Out, Back, posted, voided
  <2>1. QED BY <1>8, <1>10, <1>11, <1>12, TotalRenamed
<1>19. Total(sg, C) = Total(liters, voided)
  <2> HIDE DEF sg, neg, Out, Back, posted, voided
  <2>1. QED BY <1>8, <1>10, <1>11, <1>12, TotalRenamed
<1>20. /\ Total(neg, posted) = -Total(liters, posted)
       /\ Total(neg, voided) = -Total(liters, voided)
       /\ Total(liters, posted) \in Int /\ Total(liters, voided) \in Int
  <2> HIDE DEF neg, posted, voided
  <2>1. Total(neg, posted) = -Total(liters, posted)
    BY <1>8, <1>11, TotalOpposite
  <2>2. Total(neg, voided) = -Total(liters, voided)
    BY <1>8, <1>11, TotalOpposite
  <2>3. QED BY <1>8, <1>11, <2>1, <2>2, TotalIsInt
<1>21. Total(sg, (A \cup B) \cup C) = (Total(sg, A) + Total(sg, B)) + Total(sg, C)
  <2> HIDE DEF sg, A, B, C
  <2>1. (\A e \in A \cup B : sg[e] \in Int) /\ (\A e \in (A \cup B) \cup C : sg[e] \in Int)
    BY <1>16
  <2>2. Total(sg, A \cup B) = Total(sg, A) + Total(sg, B)
    BY <1>13, <1>15, <2>1, TotalJoined
  <2>3. Total(sg, (A \cup B) \cup C) = Total(sg, A \cup B) + Total(sg, C)
    BY <1>13, <1>15, <2>1, TotalJoined
  <2>4. QED BY <2>2, <2>3
<1>22. SumOfSigned(entries) = Total(sg, entries)
  <2> HIDE DEF sg, entries
  <2>1. QED BY <1>14, SignedIsTotal
<1>23. TakenOut(fuel, dates) = Total(liters, posted)
  BY TakenIsTotal
<1>24. SumOfSigned(entries) = -TakenOut(fuel, dates)
  <2> HIDE DEF sg, neg, Out, Back, posted, voided, A, B, C, entries
  <2>1. Total(sg, entries) = (Total(neg, posted) + Total(neg, voided)) + Total(liters, voided)
    BY <1>7, <1>17, <1>18, <1>19, <1>21
  <2>2. Total(sg, entries) = -Total(liters, posted)
    BY <1>20, <2>1
  <2>3. QED BY <1>22, <1>23, <2>2
<1>25. QED BY <1>24

\* A report adds up: its movements are its adjustments less its issuances, since
\* every entry of an issuance takes out, and lead from the opening to the closing.
LEMMA ReportAddsUp ==
    ASSUME TypeOK, LedgerAgrees, IsFiniteSet(ledger), NEW fuel \in FuelTypes,
           NEW first \in Dates, NEW last \in Dates, first <= last
    PROVE  LET b == Summarize(fuel, first, last) IN
           /\ b.closing = -TakenOut(fuel, {d \in Dates : d <= last})
           /\ b.opening = -TakenOut(fuel, {d \in Dates : d < first})
           /\ b.net = b.adjustments - b.issuances
           /\ b.closing = b.opening + b.net
<1> DEFINE upTo == {e \in ledger : e.fuel = fuel /\ e.date <= last}
           earlier == {e \in upTo : e.date < first}
           within == {e \in upTo : e.date >= first}
           adjusted == {e \in within : e.kind = "ADJUSTMENT"}
           issued == {e \in within : e.kind = "ISSUANCE"}
           sg == [e \in LedgerEntries |-> e.signed]
           qty == [e \in LedgerEntries |-> IF e.signed < 0 THEN -e.signed ELSE e.signed]
           b == Summarize(fuel, first, last)
<1>1. /\ b.opening = SumOfSigned(earlier) /\ b.adjustments = SumOfSigned(adjusted)
      /\ b.issuances = SumOfQuantity(issued) /\ b.net = SumOfSigned(within)
      /\ b.closing = SumOfSigned(upTo)
  BY DEF Summarize
<1>2. \A e \in ledger : /\ e.date \in Dates /\ e.date \in Int /\ e.signed \in Int
                        /\ e.kind \in {"ISSUANCE", "ADJUSTMENT"} /\ e.issuance \in Issuances
                        /\ sg[e] = e.signed /\ e \in LedgerEntries
  BY CalendarAssumption DEF TypeOK, LedgerEntries
<1>3. first \in Int /\ last \in Int
  BY CalendarAssumption
<1>4. upTo = {e \in ledger : e.fuel = fuel /\ e.date \in {d \in Dates : d <= last}}
  BY <1>2
<1>5. earlier = {e \in ledger : e.fuel = fuel /\ e.date \in {d \in Dates : d < first}}
  <2>1. ASSUME NEW e \in ledger, e.date < first
        PROVE  e.date <= last
    <3>1. e.date \in Int
      BY <1>2
    <3>2. QED BY <1>3, <2>1, <3>1
  <2>2. QED BY <1>2, <2>1
<1>6. /\ IsFiniteSet(upTo) /\ IsFiniteSet(earlier) /\ IsFiniteSet(within)
      /\ IsFiniteSet(adjusted) /\ IsFiniteSet(issued)
  BY FS_Subset
<1>7. \A e \in ledger : e.kind = "ISSUANCE" => e.signed <= 0
  <2>1. ASSUME NEW e \in ledger, e.kind = "ISSUANCE"
        PROVE  e.signed <= 0
    <3>1. PICK i \in Issuances : i = e.issuance
      BY <1>2
    <3>2. e \in Owed(i)
      BY <3>1 DEF LedgerAgrees, Owed
    <3>3. e = Entry(i, "ISSUANCE", details[i], -liters[i])
      BY <2>1, <3>2 DEF Owed, Entry
    <3>4. liters[i] \in Nat /\ e.signed = -liters[i]
      BY <3>3, LitersCounted DEF TypeOK, Entry
    <3>5. QED BY <3>4
  <2>2. QED BY <2>1
<1>8. \A e \in issued : /\ sg[e] \in Int /\ qty[e] = -sg[e]
                        /\ qty[e] = IF e.signed < 0 THEN -e.signed ELSE e.signed
  <2>1. \A e \in issued : e \in LedgerEntries /\ e.signed \in Int /\ e.signed <= 0
                          /\ sg[e] = e.signed
    BY <1>2, <1>7
  <2>2. ASSUME NEW e \in issued
        PROVE  qty[e] = -sg[e] /\ qty[e] = IF e.signed < 0 THEN -e.signed ELSE e.signed
    <3>1. qty[e] = IF e.signed < 0 THEN -e.signed ELSE e.signed
      BY <2>1
    <3>2. e.signed \in Int /\ e.signed <= 0
      BY <2>1
    <3>3. qty[e] = -e.signed
      <4> HIDE DEF qty
      <4>1. QED BY <3>1, <3>2
    <3>4. QED BY <2>1, <3>1, <3>3
  <2>3. QED BY <2>1, <2>2
<1>9. SumOfSigned(upTo) = -TakenOut(fuel, {d \in Dates : d <= last})
  <2>1. SumOfSigned({e \in ledger : e.fuel = fuel /\ e.date \in {d \in Dates : d <= last}})
          = -TakenOut(fuel, {d \in Dates : d <= last})
    BY EntriesSumToTaken
  <2>2. QED BY <1>4, <2>1
<1>10. SumOfSigned(earlier) = -TakenOut(fuel, {d \in Dates : d < first})
  <2>1. SumOfSigned({e \in ledger : e.fuel = fuel /\ e.date \in {d \in Dates : d < first}})
          = -TakenOut(fuel, {d \in Dates : d < first})
    BY EntriesSumToTaken
  <2>2. QED BY <1>5, <2>1
<1>11. /\ upTo = earlier \cup within /\ earlier \cap within = {}
       /\ within = adjusted \cup issued /\ adjusted \cap issued = {}
  <2>1. \A e \in upTo : e.date \in Int /\ e.kind \in {"ISSUANCE", "ADJUSTMENT"}
    BY <1>2
  <2>2. \A e \in upTo : e.date < first \/ e.date >= first
    BY <1>3, <2>1
  <2>3. \A e \in upTo : ~(e.date < first /\ e.date >= first)
    BY <1>3, <2>1
  <2> HIDE DEF upTo
  <2>4. upTo = earlier \cup within /\ earlier \cap within = {}
    BY <2>2, <2>3
  <2>5. within = adjusted \cup issued /\ adjusted \cap issued = {}
    BY <2>1
  <2>6. QED BY <2>4, <2>5
<1>12. /\ \A e \in upTo : sg[e] = e.signed /\ sg[e] \in Int
       /\ earlier \subseteq upTo /\ within \subseteq upTo
       /\ adjusted \subseteq upTo /\ issued \subseteq upTo
  BY <1>2
<1>13. /\ SumOfSigned(upTo) = Total(sg, upTo) /\ SumOfSigned(earlier) = Total(sg, earlier)
       /\ SumOfSigned(within) = Total(sg, within)
       /\ SumOfSigned(adjusted) = Total(sg, adjusted)
  <2> HIDE DEF sg, upTo, earlier, within, adjusted
  <2>1. QED BY <1>6, <1>12, SignedIsTotal
<1>14. SumOfQuantity(issued) = Total(qty, issued)
  <2> HIDE DEF qty, issued
  <2>1. QED BY <1>6, <1>8, QuantityIsTotal
<1>15. Total(qty, issued) = -Total(sg, issued) /\ Total(sg, issued) \in Int
  <2> HIDE DEF qty, sg, issued
  <2>1. QED BY <1>6, <1>8, TotalOpposite, TotalIsInt
<1>16. Total(sg, upTo) = Total(sg, earlier) + Total(sg, within)
  <2> HIDE DEF sg, upTo, earlier, within, adjusted, issued
  <2>1. \A e \in earlier \cup within : sg[e] \in Int
    BY <1>12
  <2>2. QED BY <1>6, <1>11, <2>1, TotalJoined
<1>17. Total(sg, within) = Total(sg, adjusted) + Total(sg, issued)
  <2> HIDE DEF sg, upTo, earlier, within, adjusted, issued
  <2>1. \A e \in adjusted \cup issued : sg[e] \in Int
    BY <1>12
  <2>2. QED BY <1>6, <1>11, <2>1, TotalJoined
<1>18. Total(sg, adjusted) \in Int
  <2> HIDE DEF sg, upTo, earlier, within, adjusted, issued
  <2>1. \A e \in adjusted : sg[e] \in Int
    BY <1>12
  <2>2. QED BY <1>6, <2>1, TotalIsInt
<1>19. b.net = b.adjustments - b.issuances
  <2> HIDE DEF b, sg, qty, upTo, earlier, within, adjusted, issued
  <2>1. QED BY <1>1, <1>13, <1>14, <1>15, <1>17, <1>18
<1>20. b.closing = b.opening + b.net
  <2> HIDE DEF b, sg, qty, upTo, earlier, within, adjusted, issued
  <2>1. QED BY <1>1, <1>13, <1>16
<1>21. QED
  <2> HIDE DEF b
  <2>1. /\ b.closing = -TakenOut(fuel, {d \in Dates : d <= last})
        /\ b.opening = -TakenOut(fuel, {d \in Dates : d < first})
    BY <1>1, <1>9, <1>10
  <2>2. QED BY <1>19, <1>20, <2>1 DEF b

\* A balance report of any range closes on what the posted issuances took out
\* (BalancesAgree), because the ledger, which is always finite, says what they say.
THEOREM BalancesFollowLedger == Spec => []BalancesAgree
<1> DEFINE I == TypeOK /\ Serialized /\ LedgerAgrees /\ IsFiniteSet(ledger)
<1>1. Init => I
  <2>1. Init => LedgerAgrees
    BY DEF Init, LedgerAgrees, Given
  <2>2. Init => IsFiniteSet(ledger)
    BY FS_EmptySet DEF Init
  <2>3. QED BY <2>1, <2>2, InitTyped, InitSerialized
<1>2. I /\ [Next]_vars => I'
  <2>1. ASSUME TypeOK, IsFiniteSet(ledger), [Next]_vars
        PROVE  IsFiniteSet(ledger')
    <3>1. CASE UNCHANGED issuanceRows
      BY <2>1, <3>1 DEF issuanceRows
    <3>2. ASSUME NEW t \in Txns, CommitCreate(t) \/ CommitUpdate(t)
          PROVE  IsFiniteSet(ledger')
      BY <2>1, <3>2 DEF CommitCreate, CommitUpdate
    <3>3. ASSUME NEW t \in Txns, NEW q \in Quantities, CommitPost(t, q)
          PROVE  IsFiniteSet(ledger')
      BY <2>1, <3>3, FS_AddElement DEF CommitPost, Record
    <3>4. ASSUME NEW i \in Issuances, VoidIssuance(i)
          PROVE  IsFiniteSet(ledger')
      BY <2>1, <3>4, FS_AddElement DEF VoidIssuance, Record
    <3>5. QED BY <2>1, <3>1, <3>2, <3>3, <3>4, QuietSteps
  <2>2. QED BY <2>1, NextTyped, NextSerialized, NextLedger DEF Serialized
<1>3. I => BalancesAgree
  BY ReportAddsUp DEF BalancesAgree
<1>4. QED
  <2> HIDE DEF I
  <2>1. QED BY <1>1, <1>2, <1>3, PTL DEF Spec
=============================================================================
