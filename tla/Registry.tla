------------------------------ MODULE Registry ------------------------------
(***************************************************************************)
(* Reference records - offices, drivers, vehicles - as they are created,   *)
(* edited, deleted and restored, what the audit trail tells of them, and   *)
(* the lists users page through meanwhile.  The lists of allocations, of   *)
(* issuances and of dispatches page in the same way; what changes those    *)
(* records is in modules of their own and here any change.                 *)
(*                                                                         *)
(* A command locks the row it edits first and writes row and events in one *)
(* transaction.  A record's details are one number, its name; a status is  *)
(* "on" or "off".  Records are numbers in the order of their public ids.   *)
(***************************************************************************)
EXTENDS Integers, FiniteSets, FiniteSetsExt, SequencesExt

CONSTANTS
    Resources,   \* the kinds of records that are listed
    Records,     \* the records there may be of a kind
    Registered,  \* the rows at first: kind -> record -> key, status, deleted
    Names,       \* the names of records and the other values lists are sorted by
    Views,       \* what lists are narrowed to: a lifecycle and a status
    PageSize,    \* the rows of a page
    MaxEdits     \* bound: the events after which records change no more

VARIABLES
    resource,  \* the kind of records
    rows,      \* record -> its row
    trail,     \* the events recorded, in order
    list,      \* the list on the screen: what it is narrowed to and its page
    seen,      \* history: the records shown since the list was opened
    edited     \* history: the records changed since then

registryVars == <<resource, rows, trail, list, seen, edited>>

MasterData == {"office", "driver", "vehicle"}
Closed == [open |-> FALSE]
NoCursor == [direction |-> "none"]

(***************************************************************************)
(* Lists: their order, their cursors and their pages.                      *)
(***************************************************************************)
\* Allocations are listed the latest quarter first, then by number.
orderBy(kind) ==
    CASE kind \in MasterData -> <<"asc", "asc">>
      [] kind \in {"issuance", "dispatch"} -> <<"desc", "desc">>
      [] kind = "allocation" -> <<"desc", "asc", "asc">>
RowFields == [key : Seq(Int), status : {"on", "off"}, deleted : BOOLEAN]
ASSUME RegistryAssumption ==
    /\ Resources \subseteq MasterData \cup {"issuance", "dispatch", "allocation"}
    /\ Records \subseteq Int /\ Names \subseteq Int /\ PageSize \in Nat \ {0}
    /\ \A kind \in Resources :
           /\ IsFiniteSet(DOMAIN Registered[kind]) /\ DOMAIN Registered[kind] \subseteq Int
           /\ Registered[kind] \in [DOMAIN Registered[kind] -> RowFields]
           /\ \A r \in DOMAIN Registered[kind] :
                  Len(Registered[kind][r].key) = Len(orderBy(kind)) - 1

Place(r) == Append(rows[r].key, r)
Precedes(p, q) ==
    \E i \in DOMAIN p :
        /\ \A j \in 1 .. i - 1 : p[j] = q[j]
        /\ IF orderBy(resource)[i] = "asc" THEN p[i] < q[i] ELSE p[i] > q[i]

InView(view, row) ==
    /\ view.lifecycle \in {"all", IF row.deleted THEN "deleted" ELSE "current"}
    /\ view.status \in {"any", row.status}

\* Fault: rows with the sort value of the cursor are passed over.
keysetBySortValue(cursor, p) ==
    CASE cursor = NoCursor -> TRUE
      [] cursor.direction = "next" -> Front(cursor.place) # Front(p) /\ Precedes(cursor.place, p)
      [] cursor.direction = "previous" -> Front(cursor.place) # Front(p) /\ Precedes(p, cursor.place)
keyset(cursor, p) ==
    CASE cursor = NoCursor -> TRUE
      [] cursor.direction = "next" -> Precedes(cursor.place, p)
      [] cursor.direction = "previous" -> Precedes(p, cursor.place)
InOrder(places, back) ==
    LET n == Cardinality(places)
    IN  CHOOSE s \in [1 .. n -> places] :
            \A i, j \in 1 .. n :
                i < j => IF back THEN Precedes(s[j], s[i]) ELSE Precedes(s[i], s[j])
listPage(view, cursor) ==
    LET back == cursor.direction = "previous"
        found == {p \in {Place(r) : r \in {r \in DOMAIN rows : InView(view, rows[r])}} :
                      keyset(cursor, p)}
        fetched == InOrder(found, back)
        taken == SubSeq(fetched, 1, Min({PageSize, Len(fetched)}))
        items == IF back THEN Reverse(taken) ELSE taken
        hasExtra == Len(fetched) > PageSize
        link(direction, given) ==
            IF items # <<>> /\ given
            THEN [direction |-> direction,
                  place |-> IF direction = "next" THEN Last(items) ELSE items[1]]
            ELSE NoCursor
    IN  [items |-> items, from |-> cursor,
         previous |-> link("previous", cursor # NoCursor),
         next |-> link("next", hasExtra \/ back)]
ShownOn(page) == {Last(page.items[i]) : i \in DOMAIN page.items}

(***************************************************************************)
(* Events of a record: the rows before and after, or the two statuses.     *)
(***************************************************************************)
snapshot(row) == [name |-> row.key[1], status |-> row.status]
NoSnapshot == [name |-> 0, status |-> "none"]
Event(r, action, before, after) ==
    [record |-> r, action |-> action, before |-> before, after |-> after]
StatusEvent(r, previous, next) ==
    Event(r, "status_changed", [NoSnapshot EXCEPT !.status = previous],
                               [NoSnapshot EXCEPT !.status = next])

-----------------------------------------------------------------------------
RegistryInit ==
    /\ resource \in Resources
    /\ rows = Registered[resource]
    /\ trail = <<>>
    /\ list = Closed
    /\ seen = {}
    /\ edited = {}

With(f, r, v) == [s \in DOMAIN f \cup {r} |-> IF s = r THEN v ELSE f[s]]
WriteRow(r, row, events) ==
    /\ Len(trail) < MaxEdits
    /\ rows' = With(rows, r, row)
    /\ trail' = trail \o events
    /\ edited' = edited \cup {e.record : e \in Range(events)}
    /\ UNCHANGED <<resource, list, seen>>

\* Names of offices and plates of vehicles are unique, those of deleted ones included.
NameIsFree(name, r) ==
    resource = "driver" \/ \A s \in DOMAIN rows \ {r} : rows[s].key # <<name>>

CreateRecord(r, name) ==
    /\ resource \in MasterData /\ r \notin DOMAIN rows /\ NameIsFree(name, r)
    /\ LET row == [key |-> <<name>>, status |-> "on", deleted |-> FALSE]
       IN  WriteRow(r, row, <<Event(r, "created", NoSnapshot, snapshot(row))>>)

\* The details first, then the status; each is an update and an event of its own.
\* Fault: the row is told of after its status has changed too.
UpdateRecordSnapshotLast(r, name, status) ==
    /\ resource \in MasterData /\ r \in DOMAIN rows /\ ~rows[r].deleted /\ NameIsFree(name, r)
    /\ LET row == rows[r]
           changed == [row EXCEPT !.key = <<name>>, !.status = status]
       IN  WriteRow(r, changed,
                 (IF name = row.key[1] THEN <<>>
                  ELSE <<Event(r, "updated", snapshot(row), snapshot(changed))>>)
                 \o (IF status = row.status THEN <<>> ELSE <<StatusEvent(r, row.status, status)>>))
UpdateRecord(r, name, status) ==
    /\ resource \in MasterData /\ r \in DOMAIN rows /\ ~rows[r].deleted /\ NameIsFree(name, r)
    /\ LET row == rows[r]
           renamed == [row EXCEPT !.key = <<name>>]
       IN  WriteRow(r, [renamed EXCEPT !.status = status],
                 (IF name = row.key[1] THEN <<>>
                  ELSE <<Event(r, "updated", snapshot(row), snapshot(renamed))>>)
                 \o (IF status = row.status THEN <<>> ELSE <<StatusEvent(r, row.status, status)>>))

SoftDeleteRecord(r) ==
    /\ resource \in MasterData /\ r \in DOMAIN rows /\ ~rows[r].deleted
    /\ WriteRow(r, [rows[r] EXCEPT !.deleted = TRUE],
             <<Event(r, "deleted", snapshot(rows[r]), NoSnapshot)>>)

\* A restored record is off.
RestoreRecord(r) ==
    /\ resource \in MasterData /\ r \in DOMAIN rows /\ rows[r].deleted
    /\ LET row == [rows[r] EXCEPT !.deleted = FALSE, !.status = "off"]
       IN  WriteRow(r, row, <<Event(r, "restored", snapshot(rows[r]), snapshot(row))>>)

\* An allocation, issuance or dispatch is created, moved or changes its status.
OtherRecord(r, key, status) ==
    /\ resource \notin MasterData
    /\ Len(key) = Len(orderBy(resource)) - 1
    /\ WriteRow(r, [key |-> key, status |-> status, deleted |-> FALSE],
             <<Event(r, "changed", NoSnapshot, NoSnapshot)>>)

\* A list is opened at its first page, and its links lead to pages as they are then.
OpenList(view) ==
    /\ ~list.open
    /\ list' = [open |-> TRUE, view |-> view, page |-> listPage(view, NoCursor)]
    /\ seen' = ShownOn(list'.page)
    /\ edited' = {}
    /\ UNCHANGED <<resource, rows, trail>>
TurnPage(direction) ==
    /\ list.open
    /\ LET cursor == IF direction = "next" THEN list.page.next ELSE list.page.previous
       IN  /\ cursor # NoCursor
           /\ list' = [list EXCEPT !.page = listPage(list.view, cursor)]
    /\ seen' = seen \cup ShownOn(list'.page)
    /\ UNCHANGED <<resource, rows, trail, edited>>
LeaveList ==
    /\ list.open
    /\ list' = Closed /\ seen' = {} /\ edited' = {}
    /\ UNCHANGED <<resource, rows, trail>>

RegistryNext ==
    \/ \E r \in Records, name \in Names : CreateRecord(r, name)
    \/ \E r \in DOMAIN rows, name \in Names, status \in {"on", "off"} : UpdateRecord(r, name, status)
    \/ \E r \in DOMAIN rows : SoftDeleteRecord(r) \/ RestoreRecord(r)
    \/ \E r \in Records, key \in {<<m>> : m \in Names} \cup (Names \X Names), s \in {"on", "off"} :
           OtherRecord(r, key, s)
    \/ \E view \in Views : OpenList(view)
    \/ TurnPage("next") \/ TurnPage("previous")
    \/ LeaveList

RegistrySpec == RegistryInit /\ [][RegistryNext]_registryVars

-----------------------------------------------------------------------------
\* Whatever is created, renamed, moved or deleted while a user turns the pages of
\* a list, forth and back, a record of the list nobody changed has been shown or
\* is still ahead: the page links on, and the record comes after its last.  Only
\* a page reached backwards may be empty and without links.
WalkMissesNothing ==
    list.open =>
        LET page == list.page
        IN  \A r \in DOMAIN rows \ (edited \cup seen) :
                InView(list.view, rows[r]) =>
                    \/ page.next # NoCursor /\ Precedes(Last(page.items), Place(r))
                    \/ page.items = <<>> /\ page.from.direction = "previous"

\* The trail tells how every record came to be what it is: each event starts from
\* what those before it left, and the last leaves the row as it is.
Told(row) == [is |-> snapshot(row), deleted |-> row.deleted]
Tell(told, e) ==
    LET r == e.record
        was == IF r \in DOMAIN told THEN told[r] ELSE [is |-> NoSnapshot, deleted |-> FALSE]
        now == [is |-> CASE e.action = "status_changed" -> [was.is EXCEPT !.status = e.after.status]
                         [] e.action = "deleted" -> was.is
                         [] OTHER -> e.after,
                deleted |-> e.action = "deleted"]
        follows == /\ was.deleted = (e.action = "restored")
                   /\ IF e.action = "status_changed" THEN was.is.status = e.before.status
                                                     ELSE was.is = e.before
    IN  With(told, r, IF follows THEN now ELSE [is |-> NoSnapshot, deleted |-> FALSE])
TrailTells ==
    resource \in MasterData =>
        LET first == [r \in DOMAIN Registered[resource] |-> Told(Registered[resource][r])]
        IN  FoldLeft(Tell, first, trail) = [r \in DOMAIN rows |-> Told(rows[r])]
=============================================================================
