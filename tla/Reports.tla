------------------------------ MODULE Reports ------------------------------
(***************************************************************************)
(* Reports over the issuances and the dispatches, read page by page while  *)
(* both go on changing: a user reads a report and pages on with a cursor,  *)
(* or an export streams all of its pages into a workbook.  No query of     *)
(* either shares a transaction with another.                               *)
(*                                                                         *)
(* A civil date is a day number, and every period of a type has the same   *)
(* number of days.  The office of an issuance is that of its allocation as *)
(* it is now.  Keys are numbers in the order of the public ids.            *)
(***************************************************************************)
EXTENDS Integers, FiniteSets, FiniteSetsExt, SequencesExt

CONSTANTS
    Issuances,    \* the issuances at first: id -> date, vehicle, allocation, office, ...
    Offices,      \* the offices, from 1; 0 in a filter is every office
    Trips,        \* the dispatches at first: id -> date, vehicle, office, distance, status
    Requests,     \* the filters users ask for
    Days,         \* the days a dispatch may be moved to
    PeriodDays,   \* the days of a WEEKLY, MONTHLY, QUARTERLY and ANNUAL period
    MaximumRows,  \* the rows of the largest export
    CountedRows,  \* the rows up to which the totals of a report count them
    MaxChanges    \* bound: how often issuances and dispatches change

VARIABLES
    fuel,      \* the issuances
    dispatch,  \* the dispatches
    reader,    \* the report read or exported: how far it is and what it has read
    totals,    \* the totals shown with the last page, or collected for the workbook
    touched,   \* history: the keys of rows that changed since the report was asked for
    changes    \* the changes so far

reportVars == <<fuel, dispatch, reader, totals, touched, changes>>

None == [type |-> "none"]
All == "ALL"
Details == {"FUEL_ISSUANCE", "DISPATCH"}
DispatchReports == {"DISPATCH", "DISPATCH_COUNT_BY_OFFICE", "VEHICLE_UTILIZATION"}
IncludedStatuses ==
    [FUEL_ISSUANCE |-> {"POSTED", "VOIDED"}, FUEL_BY_OFFICE |-> {"POSTED"},
     FUEL_BY_VEHICLE |-> {"POSTED"}, FUEL_TYPE_TOTALS |-> {"POSTED"},
     FUEL_AMOUNT_BY_PERIOD |-> {"POSTED"}, BUDGET_ALLOCATION_ACTIVITY |-> {"POSTED"},
     DISPATCH |-> {"DRAFT", "DISPATCHED", "COMPLETED", "CANCELLED"},
     DISPATCH_COUNT_BY_OFFICE |-> {"DISPATCHED", "COMPLETED"},
     VEHICLE_UTILIZATION |-> {"COMPLETED"}]
Statuses(filters) ==
    IF filters.status = All THEN IncludedStatuses[filters.type] ELSE {filters.status}

FuelFacts == [date : Int, office : Int, vehicle : Int, allocation : Int, fuelType : Int,
              liters : Int, amount : Int, status : {"DRAFT", "POSTED", "VOIDED"}]
DispatchFacts == [date : Int, office : Int, vehicle : Int, distance : Int,
                  status : {"DRAFT", "DISPATCHED", "COMPLETED", "CANCELLED"}]
ASSUME FactsAssumption ==
    /\ IsFiniteSet(DOMAIN Issuances) /\ DOMAIN Issuances \subseteq Int
    /\ IsFiniteSet(DOMAIN Trips) /\ DOMAIN Trips \subseteq Int
    /\ Issuances \in [DOMAIN Issuances -> FuelFacts] /\ Trips \in [DOMAIN Trips -> DispatchFacts]
    /\ Offices \subseteq Int /\ Days \subseteq Int
ASSUME RequestsAssumption ==
    /\ PeriodDays["MONTHLY"] \in Nat \ {0} /\ CountedRows \in Nat
    /\ \A filters \in Requests :
           /\ filters.type \in DOMAIN IncludedStatuses
           /\ filters.annual \in BOOLEAN
           /\ filters.pageSize \in Nat \ {0}

(***************************************************************************)
(* Filters: the period of a reference date, or one the user gives.         *)
(***************************************************************************)
Resolved(periodType, reference) ==
    LET start == reference - (reference % PeriodDays[periodType])
    IN  [start |-> start, end |-> start + PeriodDays[periodType] - 1]
Filters(type, periodType, period, office, status, pageSize) ==
    [type |-> type, annual |-> periodType = "ANNUAL", start |-> period.start, end |-> period.end,
     office |-> office, status |-> status, pageSize |-> pageSize]
\* Two parameters that do not go together: no such report is asked for.
Acceptable(filters) ==
    /\ filters.start <= filters.end
    /\ \/ filters.status = All
       \/ /\ filters.type \in Details
          /\ filters.status \in IncludedStatuses[filters.type]

(***************************************************************************)
(* Rows.                                                                   *)
(***************************************************************************)
Base(filters, facts) ==
    {k \in DOMAIN facts : /\ facts[k].date \in filters.start .. filters.end
                          /\ facts[k].status \in Statuses(filters)
                          /\ filters.office \in {0, facts[k].office}}
Facts(filters) == IF filters.type \in DispatchReports THEN dispatch ELSE fuel

\* Annual amounts are by month, others by day.
PeriodBucket(filters, date) ==
    IF filters.annual THEN Resolved("MONTHLY", date).start ELSE date
KeyOf(filters, k, fact) ==
    CASE filters.type \in Details -> k
      [] filters.type \in {"FUEL_BY_OFFICE", "DISPATCH_COUNT_BY_OFFICE"} -> fact.office
      [] filters.type \in {"FUEL_BY_VEHICLE", "VEHICLE_UTILIZATION"} -> fact.vehicle
      [] filters.type = "FUEL_TYPE_TOTALS" -> fact.fuelType
      [] filters.type = "FUEL_AMOUNT_BY_PERIOD" -> PeriodBucket(filters, fact.date)
      [] filters.type = "BUDGET_ALLOCATION_ACTIVITY" -> fact.allocation

\* Only a completed dispatch has a distance.
Distance(fact) == IF fact.status = "COMPLETED" THEN fact.distance ELSE 0
Sum(f) == MapThenSumSet(LAMBDA k : f[k], DOMAIN f)
Measures(filters, ks) ==
    LET ofTrips == filters.type \in DispatchReports
    IN  [count |-> Cardinality(ks),
         liters |-> IF ofTrips THEN 0 ELSE Sum([k \in ks |-> fuel[k].liters]),
         amount |-> IF ofTrips THEN 0 ELSE Sum([k \in ks |-> fuel[k].amount]),
         distance |-> IF ofTrips THEN Sum([k \in ks |-> Distance(dispatch[k])]) ELSE 0]
Row(filters, key, ks) ==
    [key |-> key, of |-> Measures(filters, ks),
     date |-> IF filters.type \in Details THEN Facts(filters)[key].date ELSE 0]
Rows(filters) ==
    LET facts == Facts(filters)
        base == Base(filters, facts)
        key(k) == KeyOf(filters, k, facts[k])
    IN  {Row(filters, v, {k \in base : key(k) = v}) : v \in {key(k) : k \in base}}

\* Details come the latest first, groups by their key.
Before(filters, r, s) ==
    IF filters.type \in Details
    THEN r.date > s.date \/ (r.date = s.date /\ r.key > s.key)
    ELSE r.key < s.key
Ordered(filters, rows) ==
    LET n == Cardinality(rows)
    IN  CHOOSE s \in [1 .. n -> rows] :
            \A i, j \in 1 .. n : i < j => Before(filters, s[i], s[j])

(***************************************************************************)
(* Pages.  A cursor holds the filters it was made for and the place of the *)
(* last row; with other filters it is refused.                             *)
(***************************************************************************)
\* Fault: the office is left out.
filterFingerprintAnyOffice(filters) == [filters EXCEPT !.office = 0]
filterFingerprint(filters) == filters
encodeCursor(filters, row) ==
    [type |-> filters.type, fingerprint |-> filterFingerprint(filters),
     date |-> row.date, key |-> row.key]
decodes(filters, cursor) ==
    cursor = None \/ (/\ cursor.type = filters.type
                      /\ cursor.fingerprint = filterFingerprint(filters))
After(filters, cursor, row) == Before(filters, cursor, row)
fetchPage(filters, cursor) ==
    LET rest == {r \in Rows(filters) : cursor = None \/ After(filters, cursor, r)}
        items == SubSeq(Ordered(filters, rest), 1, Min({filters.pageSize, Cardinality(rest)}))
    IN  [rows |-> items,
         nextCursor |-> IF Cardinality(rest) > filters.pageSize
                        THEN encodeCursor(filters, Last(items)) ELSE None]
estimateRows(filters, cap) == Min({Cardinality(Rows(filters)), cap + 1})

\* What getTotals finds over all rows, by queries of its own, and what the
\* exporter adds up from the rows it writes.  Rows by period count no liters, and
\* rows of an office's dispatches no distance.
NoTotals == [rowCount |-> 0, trips |-> 0, liters |-> 0, amount |-> 0, distance |-> 0]
CountsTrips(filters, n) == IF filters.type \in DispatchReports THEN n ELSE 0
\* Fault: the totals are of every status, whatever status the rows are of.
getTotalsAnyStatus(filters) ==
    LET all == Measures(filters, Base([filters EXCEPT !.status = All], Facts(filters)))
    IN  [rowCount |-> estimateRows(filters, CountedRows), trips |-> CountsTrips(filters, all.count),
         liters |-> all.liters, amount |-> all.amount, distance |-> all.distance]
getTotals(filters) ==
    LET all == Measures(filters, Base(filters, Facts(filters)))
    IN  [rowCount |-> estimateRows(filters, CountedRows), trips |-> CountsTrips(filters, all.count),
         liters |-> all.liters, amount |-> all.amount, distance |-> all.distance]
collectTotals(filters, rows) ==
    LET sum(m) == Sum([i \in DOMAIN rows |-> rows[i].of[m]])
    IN  [rowCount |-> Len(rows), trips |-> CountsTrips(filters, sum("count")),
         liters |-> IF filters.type = "FUEL_AMOUNT_BY_PERIOD" THEN 0 ELSE sum("liters"),
         amount |-> sum("amount"),
         distance |-> IF filters.type = "DISPATCH_COUNT_BY_OFFICE" THEN 0 ELSE sum("distance")]

(***************************************************************************)
(* The sheet: its columns, and what a row and the row of totals put in     *)
(* them.  Text and numbers without a total are blank.                      *)
(***************************************************************************)
Blank(n) == [i \in 1 .. n |-> "blank"]
columnsFor(type) ==
    CASE type = "FUEL_ISSUANCE" ->
             Blank(10) \o <<"Issued liters", "blank", "Total amount", "blank">>
      [] type = "DISPATCH" -> Blank(8) \o <<"Passengers", "blank", "blank", "Distance", "blank">>
      [] type \in {"FUEL_BY_OFFICE", "FUEL_TYPE_TOTALS"} ->
             Blank(1) \o <<"Issuances", "Issued liters", "Total amount">>
      [] type = "FUEL_BY_VEHICLE" -> Blank(2) \o <<"Issuances", "Issued liters", "Total amount">>
      [] type = "FUEL_AMOUNT_BY_PERIOD" -> Blank(3) \o <<"Issuances", "Total amount">>
      [] type = "DISPATCH_COUNT_BY_OFFICE" -> Blank(1) \o <<"Dispatches">>
      [] type = "VEHICLE_UTILIZATION" -> Blank(2) \o <<"Completed trips", "Completed distance">>
      [] type = "BUDGET_ALLOCATION_ACTIVITY" ->
             Blank(4) \o <<"Issuances", "Issued liters", "Total amount">>
\* The measure a data row puts under a heading.
valuesFor(row, heading) ==
    CASE heading = "Issued liters" -> row.of.liters
      [] heading = "Total amount" -> row.of.amount
      [] heading \in {"Issuances", "Dispatches", "Completed trips"} -> row.of.count
      [] heading \in {"Distance", "Completed distance"} -> row.of.distance
      [] OTHER -> 0
\* The row of totals.  Its number of issuances is the number of rows, the number
\* of trips stands under the passengers, and that of fuel types has a blank too many.
totalValues(type, t) ==
    LET blanks(n) == [i \in 1 .. n |-> 0]
    IN  CASE type = "FUEL_ISSUANCE" -> blanks(10) \o <<t.liters, 0, t.amount, 0>>
          [] type = "DISPATCH" -> blanks(8) \o <<t.trips, 0, 0, t.distance, 0>>
          [] type = "FUEL_BY_OFFICE" -> blanks(1) \o <<t.rowCount, t.liters, t.amount>>
          [] type \in {"FUEL_BY_VEHICLE", "FUEL_TYPE_TOTALS"} ->
                 blanks(2) \o <<t.rowCount, t.liters, t.amount>>
          [] type = "FUEL_AMOUNT_BY_PERIOD" -> blanks(3) \o <<t.rowCount, t.amount>>
          [] type = "DISPATCH_COUNT_BY_OFFICE" -> blanks(1) \o <<t.trips>>
          [] type = "VEHICLE_UTILIZATION" -> blanks(2) \o <<t.trips, t.distance>>
          [] type = "BUDGET_ALLOCATION_ACTIVITY" -> blanks(4) \o <<t.rowCount, t.liters, t.amount>>

-----------------------------------------------------------------------------
NoReader == [phase |-> "idle"]
Reader(mode, phase, filters) ==
    [mode |-> mode, phase |-> phase, filters |-> filters, cursor |-> None, rows |-> <<>>]

ReportInit ==
    /\ fuel = Issuances
    /\ dispatch = Trips
    /\ reader = NoReader
    /\ totals = NoTotals
    /\ touched = {}
    /\ changes = 0

\* A user opens a report.
GetReport(filters) ==
    /\ reader = NoReader /\ Acceptable(filters)
    /\ reader' = Reader("READ", "page", filters)
    /\ totals' = NoTotals /\ touched' = {}
    /\ UNCHANGED <<fuel, dispatch, changes>>

\* A user requests an export; too large a report is refused.
RequestReportExport(filters) ==
    /\ reader = NoReader /\ Acceptable(filters)
    /\ reader' = Reader("EXPORT",
                        IF estimateRows(filters, MaximumRows) > MaximumRows
                        THEN "refused" ELSE "page", filters)
    /\ totals' = NoTotals /\ touched' = {}
    /\ UNCHANGED <<fuel, dispatch, changes>>

\* One page: the export goes on to the next until there is none, or gives up at its limit.
ReadPage ==
    /\ reader.phase = "page"
    /\ LET page == fetchPage(reader.filters, reader.cursor)
           rows == reader.rows \o page.rows
       IN  reader' = [reader EXCEPT
               !.rows = rows, !.cursor = page.nextCursor,
               !.phase = IF reader.mode = "READ" THEN "totals"
                         ELSE IF Len(rows) > MaximumRows THEN "failed"
                         ELSE IF page.nextCursor = None THEN "totals" ELSE "page"]
    /\ UNCHANGED <<fuel, dispatch, totals, touched, changes>>

\* The screen shows totals read after the page; the workbook those of its rows.
Totals ==
    /\ reader.phase = "totals"
    /\ totals' = IF reader.mode = "READ" THEN getTotals(reader.filters)
                                         ELSE collectTotals(reader.filters, reader.rows)
    /\ reader' = [reader EXCEPT !.phase = "shown"]
    /\ UNCHANGED <<fuel, dispatch, touched, changes>>

\* The user pages on, perhaps with filters the cursor is not of.
NextPage(filters) ==
    /\ reader.phase = "shown" /\ reader.cursor # None /\ Acceptable(filters)
    /\ reader' = IF decodes(filters, reader.cursor)
                 THEN [reader EXCEPT !.phase = "page", !.filters = filters]
                 ELSE [reader EXCEPT !.phase = "refused"]
    /\ UNCHANGED <<fuel, dispatch, totals, touched, changes>>

\* The workbook grew too large, took too long or lost its lease: no file.
ExportFails ==
    /\ reader.phase \in {"page", "totals"} /\ reader.mode = "EXPORT"
    /\ reader' = [reader EXCEPT !.phase = "failed"]
    /\ UNCHANGED <<fuel, dispatch, totals, touched, changes>>

Leave ==
    /\ reader.phase \in {"shown", "refused", "failed"}
    /\ reader' = NoReader
    /\ totals' = NoTotals /\ touched' = {}
    /\ UNCHANGED <<fuel, dispatch, changes>>

-----------------------------------------------------------------------------
\* Meanwhile issuances are posted and voided, a deleted and restored allocation
\* moves to another office, and dispatches are moved, dispatched, ended.
Keys(facts, ks) == {KeyOf(reader.filters, k, facts[k]) : k \in ks}
Touch(trips, old, new) ==
    IF reader = NoReader \/ trips # (reader.filters.type \in DispatchReports) THEN touched
    ELSE LET ks == {k \in DOMAIN old : old[k] # new[k]}
         IN  touched \cup Keys(old, ks) \cup Keys(new, ks)

FuelChanges ==
    {[fuel EXCEPT ![k].status = "POSTED"] : k \in {k \in DOMAIN fuel : fuel[k].status = "DRAFT"}}
    \cup
    {[fuel EXCEPT ![k].status = "VOIDED"] : k \in {k \in DOMAIN fuel : fuel[k].status = "POSTED"}}
    \cup
    {[k \in DOMAIN fuel |-> IF fuel[k].allocation = a THEN [fuel[k] EXCEPT !.office = o]
                                                      ELSE fuel[k]] :
        a \in {fuel[k].allocation : k \in DOMAIN fuel}, o \in Offices}
DispatchChanges ==
    LET in(s) == {k \in DOMAIN dispatch : dispatch[k].status = s}
        to(s, ks) == {[dispatch EXCEPT ![k].status = s] : k \in ks}
    IN  to("DISPATCHED", in("DRAFT")) \cup to("COMPLETED", in("DISPATCHED"))
        \cup to("CANCELLED", in("DRAFT") \cup in("DISPATCHED"))
        \cup {[dispatch EXCEPT ![k].date = d] : k \in in("DRAFT"), d \in Days}
ChangeFuel ==
    /\ changes < MaxChanges
    /\ fuel' \in FuelChanges
    /\ touched' = Touch(FALSE, fuel, fuel')
    /\ changes' = changes + 1
    /\ UNCHANGED <<dispatch, reader, totals>>
ChangeDispatch ==
    /\ changes < MaxChanges
    /\ dispatch' \in DispatchChanges
    /\ touched' = Touch(TRUE, dispatch, dispatch')
    /\ changes' = changes + 1
    /\ UNCHANGED <<fuel, reader, totals>>

ReportNext ==
    \/ \E filters \in Requests :
           GetReport(filters) \/ RequestReportExport(filters) \/ NextPage(filters)
    \/ ReadPage \/ Totals \/ ExportFails \/ Leave
    \/ ChangeFuel \/ ChangeDispatch

ReportSpec == ReportInit /\ [][ReportNext]_reportVars

-----------------------------------------------------------------------------
Whole == reader # NoReader /\ reader.phase \in {"totals", "shown"} /\ reader.cursor = None

\* Pages that follow one another hold their rows in the report's one order, no
\* row twice, whatever is posted, voided or moved between two of them.  Together
\* they hold every row of the report that nobody touched since it was asked for,
\* as it is, and no row beyond those but touched ones.
NothingMissed ==
    /\ reader # NoReader /\ reader.phase # "refused" =>
           \A i, j \in DOMAIN reader.rows :
               i < j => Before(reader.filters, reader.rows[i], reader.rows[j])
    /\ Whole =>
           LET still(found) == {r \in found : r.key \notin touched}
           IN  still(Range(reader.rows)) = still(Rows(reader.filters))

\* The totals of a report nobody disturbed are the same whether queried or added
\* up, the number of rows as far as it is counted, and those of the sheet stand
\* under the headings they are of.  Left out are the number of issuances and of
\* passengers and the sheet of fuel types, where the code puts another number or
\* none, and what the exporter does not add up.
AddedUp(type) ==
    {m \in {"trips", "liters", "amount", "distance"} :
         /\ ~(m = "liters" /\ type = "FUEL_AMOUNT_BY_PERIOD")
         /\ ~(m = "distance" /\ type = "DISPATCH_COUNT_BY_OFFICE")}
Headed == {"Issued liters", "Total amount", "Dispatches", "Completed trips", "Distance",
           "Completed distance"}
TotalsAgree ==
    Whole /\ reader.phase = "shown" /\ touched = {} =>
        LET filters == reader.filters
            queried == getTotals(filters)
            added == collectTotals(filters, reader.rows)
            columns == columnsFor(filters.type)
            sheet == totalValues(filters.type, totals)
            ofColumn(heading) == Sum([i \in DOMAIN reader.rows |->
                                          valuesFor(reader.rows[i], heading)])
        IN  /\ \A m \in AddedUp(filters.type) : totals[m] = queried[m] /\ totals[m] = added[m]
            /\ \A count \in {totals.rowCount, queried.rowCount} :
                   Min({count, CountedRows + 1}) = Min({added.rowCount, CountedRows + 1})
            /\ filters.type # "FUEL_TYPE_TOTALS" =>
                   \A i \in DOMAIN columns : columns[i] \in Headed => sheet[i] = ofColumn(columns[i])
=============================================================================
