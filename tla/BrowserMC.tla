----------------------------- MODULE BrowserMC -----------------------------
(***************************************************************************)
(* The parts of a user's work in the browser: its screens, the two forms   *)
(* of a draft, the list of exports, the reports, and the lists of records  *)
(* that change while they are paged through.  The parts share no state:    *)
(* a behaviour takes place in one of them and leaves the others as they    *)
(* are, so the states of one run are those of each part added up.          *)
(***************************************************************************)
EXTENDS Workbench, DispatchDraft, FuelDraft, ExportList, Reports, Registry, TLC

VARIABLE scene \* the part in which the behaviour takes place

parts == <<workVars, draftVars, fuelDraftVars, listVars, reportVars, registryVars>>
vars == <<scene, parts>>

\* The parts at rest.
WorkRests ==
    /\ role = CHOOSE r \in UserRoles : TRUE
    /\ cookie = "NONE" /\ view = [place |-> "login", status |-> "NONE", about |-> NoSubject]
    /\ actual = "NONE" /\ token = "none" /\ form = NoForm /\ coming = Nowhere
    /\ drift = FALSE /\ saved = FALSE
DraftRests ==
    /\ conflicts = [s \in Slots |-> Free] /\ mayAck = FALSE /\ chosen = 0 /\ lookups = {}
    /\ guidance = NoGuidance /\ asOf = 0 /\ save = NoSave /\ context = Nothing
    /\ reviewed = Nothing /\ ticked = {} /\ outcome = NotSaved
FuelDraftRests ==
    /\ active = {} /\ preloaded = {} /\ entryDate = NoDate /\ asked = {} /\ available = {}
    /\ status = "idle" /\ selection = NoneChosen
ListRests ==
    /\ onServer = NoAnswer /\ rendered = NoAnswer /\ listed = NoAnswer
    /\ timers = 0 /\ polls = {}
RestingResource == CHOOSE kind \in Resources : TRUE

Init ==
    /\ scene \in {"screens", "dispatch draft", "fuel draft", "exports", "reports", "registry"}
    /\ IF scene = "screens" THEN WorkInit ELSE WorkRests
    /\ IF scene = "dispatch draft" THEN DraftInit ELSE DraftRests
    /\ IF scene = "fuel draft" THEN FuelDraftInit ELSE FuelDraftRests
    /\ IF scene = "exports" THEN ListInit ELSE ListRests
    /\ ReportInit
    /\ RegistryInit
    /\ scene = "registry" \/ resource = RestingResource

ScreensUsed == /\ scene = "screens" /\ WorkNext
               /\ UNCHANGED <<scene, draftVars, fuelDraftVars, listVars, reportVars, registryVars>>
DispatchDrafted == /\ scene = "dispatch draft" /\ DraftNext
                   /\ UNCHANGED <<scene, workVars, fuelDraftVars, listVars, reportVars, registryVars>>
FuelDrafted == /\ scene = "fuel draft" /\ FuelDraftNext
               /\ UNCHANGED <<scene, workVars, draftVars, listVars, reportVars, registryVars>>
ExportsWatched == /\ scene = "exports" /\ ListNext
                  /\ UNCHANGED <<scene, workVars, draftVars, fuelDraftVars, reportVars, registryVars>>
ReportsRead == /\ scene = "reports" /\ ReportNext
               /\ UNCHANGED <<scene, workVars, draftVars, fuelDraftVars, listVars, registryVars>>
ListsPaged == /\ scene = "registry" /\ RegistryNext
              /\ UNCHANGED <<scene, workVars, draftVars, fuelDraftVars, listVars, reportVars>>

Next == ScreensUsed \/ DispatchDrafted \/ FuelDrafted \/ ExportsWatched \/ ReportsRead \/ ListsPaged
Spec == Init /\ [][Next]_vars

-----------------------------------------------------------------------------
\* Values of the constants.
\* The super administrator holds every permission of the others.
Users == SeededRoles \ {"SUPER_ADMIN"}
TwoQuarters == [d1 |-> 1, d2 |-> 1, d3 |-> 2, a1 |-> 1, a2 |-> 1, a3 |-> 2]

Fuel(date, office, vehicle, allocation, type, quantity, state) ==
    [date |-> date, office |-> office, vehicle |-> vehicle, allocation |-> allocation,
     fuelType |-> type, liters |-> quantity, amount |-> 2 * quantity, status |-> state]
Trip(date, office, vehicle, distance, state) ==
    [date |-> date, office |-> office, vehicle |-> vehicle, distance |-> distance,
     status |-> state]
ThreeIssuances == <<Fuel(1, 1, 1, 1, 1, 1, "POSTED"), Fuel(1, 2, 2, 2, 2, 2, "POSTED"),
                    Fuel(2, 2, 1, 2, 1, 4, "DRAFT")>>
ThreeTrips == <<Trip(1, 1, 1, 1, "COMPLETED"), Trip(2, 2, 2, 2, "DISPATCHED"),
                Trip(1, 1, 2, 4, "DRAFT")>>
ShortPeriods == [WEEKLY |-> 1, MONTHLY |-> 2, QUARTERLY |-> 4, ANNUAL |-> 4]
AskedFor ==
    {f \in {Filters(type, period, IF period = "CUSTOM" THEN [start |-> 1, end |-> 2]
                                                       ELSE Resolved(period, 1),
                    office, state, size) :
                type \in DOMAIN IncludedStatuses, period \in {"ANNUAL", "CUSTOM"},
                office \in {0, 2}, state \in {All, "POSTED", "DRAFT"}, size \in {1, 2}} :
        Acceptable(f)}
\* Two offices, two drivers of the same name, two issuances of a day, two
\* allocations of a quarter; the third record of each is yet to be created.
Registration(key) == [key |-> key, status |-> "on", deleted |-> FALSE]
FirstRows ==
    [kind \in {"office", "driver", "issuance", "allocation"} |->
        [r \in {1, 2} |-> Registration(CASE kind = "office" -> <<r>>
                                        [] kind = "allocation" -> <<1, r>>
                                        [] OTHER -> <<1>>)]]
ListViews ==
    {[lifecycle |-> l, status |-> s] : l \in {"current", "all"}, s \in {"any", "on"}}
        \ {[lifecycle |-> "all", status |-> "on"]}
=============================================================================
