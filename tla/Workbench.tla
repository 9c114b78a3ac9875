----------------------------- MODULE Workbench -----------------------------
(***************************************************************************)
(* A user at work in one tab of the browser: screens rendered by the       *)
(* server and swapped in when they arrive, forms whose requests the server *)
(* accepts or refuses and whose answers may be lost, and what others do to *)
(* the same session and the same record from elsewhere.                    *)
(*                                                                         *)
(* A session has one CSRF token.  GET /api/me and the rendering of a       *)
(* screen that takes a token replace it, so the last to ask is the only    *)
(* one whose requests pass.                                                *)
(*                                                                         *)
(* Bounds: one record is shown at a time, one form is submitted at a time, *)
(* and the user follows no link while a form waits for its answer.         *)
(***************************************************************************)
EXTENDS Screens

CONSTANT UserRoles \* the roles of the users whose work is explored

ASSUME UserRolesAssumption == UserRoles \subseteq SeededRoles

VARIABLES
    role,    \* the role of the user
    cookie,  \* what the server takes the browser's cookie for
    view,    \* the screen shown: its place, what it is about, the state it shows
    actual,  \* the state the shown record has on the server
    token,   \* the token the screen holds: none, good, or who took it (form, other),
             \* or lost when its only fetch failed
    form,    \* the form under way: here while its screen is shown, shown while its
             \* record is, and about what its screen was about
    coming,  \* the screen on its way
    drift,   \* something was done elsewhere since the screen was rendered
    saved    \* the last form submitted told the user that it was saved

workVars == <<role, cookie, view, actual, token, form, coming, drift, saved>>

NoForm == [phase |-> "none"]
Nowhere == [place |-> "nowhere"]
RoleRights == [r \in UserRoles |-> RightsOf(r)]
rights == RoleRights[role]
Challenges == {"PASSWORD_CHANGE", "TOTP_ENROLLMENT", "TOTP_VERIFICATION"}
NoSubject == [own |-> FALSE, privileged |-> FALSE]

StatusesOf(place) ==
    CASE place \in {"dispatch", "edit of dispatch"} ->
             {"DRAFT", "DISPATCHED", "COMPLETED", "CANCELLED"}
      [] place \in {"issuance", "edit of issuance"} -> {"DRAFT", "POSTED", "VOIDED"}
      [] place = "allocation" -> {"DRAFT", "ACTIVE", "CLOSED", "CANCELLED", "DELETED"}
      [] place \in {"office", "driver", "vehicle", "user"} -> {"LIVE", "DELETED"}
      [] place = "role" -> {"LIVE"}
      [] OTHER -> {"NONE"}
AboutOf(place) ==
    IF place \in {"users", "user", "roles", "role"}
    THEN [own : BOOLEAN, privileged : BOOLEAN] ELSE {NoSubject}
\* A screen and its edit form are of the same record.
SameRecord(p, q) == p = q \/ {p, q} \in {{"dispatch", "edit of dispatch"},
                                         {"issuance", "edit of issuance"}}

PublicPages == {"login", "password change", "verification", "enrollment"}
DeniedPage == Screen(Anyone, FALSE, {}, {"account"})
Page(granted, place, status, about) ==
    CASE place = "dispatches" -> DispatchesPage(granted)
      [] place = "new dispatch" -> NewDispatchPage
      [] place = "dispatch" -> DispatchPage(granted, status)
      [] place = "edit of dispatch" -> DispatchEditPage(granted, status)
      [] place = "schedule" -> SchedulePage
      [] place = "schedule settings" -> ScheduleSettingsPage
      [] place = "issuances" -> IssuancesPage(granted)
      [] place = "new issuance" -> NewIssuancePage
      [] place = "issuance" -> IssuancePage(granted, status)
      [] place = "edit of issuance" -> IssuanceEditPage(granted, status)
      [] place = "balances" -> BalancesPage
      [] place = "allocations" -> BudgetsPage(granted)
      [] place = "allocation" -> BudgetPage(granted, status)
      [] place = "offices" -> OfficesPage
      [] place = "office" -> OfficePage(status)
      [] place = "drivers" -> DriversPage
      [] place = "driver" -> DriverPage(status)
      [] place = "vehicles" -> VehiclesPage
      [] place = "vehicle" -> VehiclePage(status)
      [] place = "users" -> UsersPage(granted, about)
      [] place = "user" -> UserPage(granted, status, about)
      [] place = "roles" -> RolesPage(granted, about)
      [] place = "role" -> RolePage(granted, about)
      [] place = "security" -> SecurityPage
      [] place = "audit" -> AuditPage
      [] place = "event" -> EventPage
      [] place = "reports" -> ReportsPage(granted)
      [] place = "account" -> AccountPage
      [] place = "login" -> LoginPage
      [] place = "password change" -> PasswordChangePage
      [] place = "verification" -> VerificationPage
      [] place = "enrollment" -> EnrollmentPage
      [] OTHER -> DeniedPage
Shown == Page(rights, view.place, view.status, view.about)
Protected(place) == place \notin PublicPages

\* getServerAuthentication and the gate of the screen: where opening a place leads.
Opened(place, status, about) ==
    IF Protected(place) /\ cookie # "SESSION" THEN "login"
    ELSE IF ~Held(rights, Page(rights, place, status, about).gate) THEN "denied" ELSE place

WorkInit ==
    /\ role \in UserRoles
    /\ cookie = "NONE"
    /\ view = [place |-> "login", status |-> "NONE", about |-> NoSubject]
    /\ actual = "NONE"
    /\ token = "none"
    /\ form = NoForm
    /\ coming = Nowhere
    /\ drift = FALSE
    /\ saved = FALSE

-----------------------------------------------------------------------------
\* Screens.
Going(place, about, subject, status) ==
    [place |-> place, about |-> about, same |-> subject, status |-> status,
     rendered |-> FALSE, token |-> "none"]
Again == Going(view.place, view.about, TRUE, "NONE")

Links == Shown.links \cup (IF Protected(view.place) THEN Navigation(rights) ELSE {})
Follow(place) ==
    /\ form = NoForm /\ coming = Nowhere
    /\ place \in Links
    /\ IF SameRecord(place, view.place)
       THEN coming' = Going(place, view.about, TRUE, "NONE")
       ELSE \E about \in AboutOf(place), status \in StatusesOf(place) :
                coming' = Going(place, about, FALSE, status)
    /\ UNCHANGED <<role, cookie, view, actual, token, form, drift, saved>>

Reload ==
    /\ form = NoForm /\ coming = Nowhere
    /\ coming' = Again
    /\ UNCHANGED <<role, cookie, view, actual, token, form, drift, saved>>

\* The page component runs on the server and may take a token: the one the tab holds is then stale.
Taken(by) == IF token = "good" THEN by ELSE token
Render ==
    /\ coming # Nowhere /\ ~coming.rendered
    /\ LET status == IF coming.same THEN actual ELSE coming.status
           place == Opened(coming.place, status, coming.about)
           takes == Protected(place) /\ Page(rights, place, status, coming.about).token
       IN  /\ coming' = [coming EXCEPT !.place = place, !.rendered = TRUE,
                             !.status = IF place = coming.place THEN status ELSE "NONE",
                             !.token = IF takes THEN "good" ELSE "none"]
           /\ token' = IF takes THEN Taken("other") ELSE token
           /\ form' = IF takes /\ form # NoForm THEN [form EXCEPT !.good = FALSE] ELSE form
    /\ drift' = FALSE
    /\ UNCHANGED <<role, cookie, view, actual, saved>>

Stays == coming.same /\ coming.place \notin {"login", "denied"}
Arrive ==
    /\ coming # Nowhere /\ coming.rendered
    /\ view' = [place |-> coming.place, status |-> coming.status, about |-> coming.about]
    /\ actual' = IF Stays THEN actual ELSE coming.status
    /\ token' = coming.token
    /\ coming' = Nowhere
    /\ form' = IF form = NoForm THEN NoForm
               ELSE [form EXCEPT !.here = @ /\ Stays /\ coming.place = view.place,
                                 !.shown = @ /\ Stays]
    /\ UNCHANGED <<role, cookie, drift, saved>>

-----------------------------------------------------------------------------
\* Forms.
Offered == Shown.offers \cup (IF Protected(view.place) THEN {LogoutButton} ELSE {})

\* A page form uses the token of its screen; the others ask, a mounted form only once.
Submit(c) ==
    /\ form = NoForm
    /\ c \in Offered
    /\ ~(c.token = "mount" /\ token = "lost")
    /\ LET asks == c.token = "fresh" \/ (c.token = "mount" /\ token = "none")
       IN  form' = [control |-> c, step |-> 1, here |-> TRUE, shown |-> TRUE,
                    about |-> view.about, good |-> ~asks /\ token = "good",
                    phase |-> IF asks THEN "asking" ELSE "sending"]
    /\ saved' = FALSE
    /\ UNCHANGED <<role, cookie, view, actual, token, coming, drift>>

\* GET /api/me, or the current challenge: the server replaces the token.
AskRoute(c) ==
    IF c.token = "mount" /\ ~(c.id = "change password" /\ cookie = "SESSION")
    THEN CurrentChallenge ELSE CurrentPrincipal
Ask(lost) ==
    /\ form # NoForm /\ form.phase = "asking"
    /\ LET answered == Verdict(AskRoute(form.control), cookie, rights, FALSE) = "accepted"
           spender == IF form.here /\ form.control.id # "sign out" THEN "form" ELSE "other"
           mounted == form.here /\ form.control.token = "mount"
       IN  /\ coming' = IF answered /\ coming # Nowhere /\ coming.token = "good"
                        THEN [coming EXCEPT
                                !.token = IF coming.place = view.place
                                          THEN spender ELSE "other"]
                        ELSE coming
           /\ IF answered /\ ~lost
              THEN /\ form' = [form EXCEPT !.phase = "sending", !.good = TRUE]
                   /\ token' = IF mounted THEN "good" ELSE Taken(spender)
              ELSE /\ form' = NoForm
                   /\ token' = IF mounted THEN "lost"
                               ELSE IF answered THEN Taken(spender) ELSE token
    /\ UNCHANGED <<role, cookie, view, actual, drift, saved>>

\* What the request does to the caller's credential.
EndsOwnSession(c) ==
    \/ c.id \in {"sign out", "require factor"}
    \/ c.id \in {"revoke sessions", "edit role"} /\ form.about.own
Credentials(c, step) ==
    CASE c.id = "sign in" -> Challenges \cup {"SESSION"}
      [] c.id = "change password" -> {"SESSION", "TOTP_ENROLLMENT", "TOTP_VERIFICATION"}
      [] c.id = "verify code" \/ (c.id = "enroll" /\ step = 2) -> {"SESSION"}
      [] EndsOwnSession(c) -> {"NONE"}
      [] OTHER -> {cookie}

\* Where a saved form goes.
Onward(c, next, state) ==
    CASE c.then = "refresh" -> Again
      [] c.then = "stay" -> coming
      [] c.then = "next" -> Going(nextAuthenticationPath(next), NoSubject, FALSE, "NONE")
      [] c.then \in {"login", "account"} -> Going(c.then, NoSubject, FALSE, "NONE")
      [] OTHER -> IF form.shown /\ SameRecord(c.then, view.place)
                  THEN Going(c.then, form.about, TRUE, "NONE")
                  ELSE Going(c.then, form.about, FALSE, state)

\* The server accepts one request of the form; the form then sends its next or is
\* done.  The record may be one whose screen the user has left.
LastStep(c) == form.step = Len(c.sends)
StatesBefore(c) == IF form.shown THEN {actual} \cap DOMAIN c.moves ELSE DOMAIN c.moves
Proceeds(accepted, lost) == accepted /\ ~lost
Deliver(lost) ==
    LET c == form.control
    IN  /\ form # NoForm /\ form.phase = "sending"
        /\ Verdict(c.sends[form.step], cookie, rights, form.good) = "accepted"
        /\ \E next \in Credentials(c, form.step), before \in StatesBefore(c) :
           \E state \in c.moves[before] :
             /\ cookie' = next
             /\ actual' = IF LastStep(c) /\ form.shown /\ view.status # "NONE"
                          THEN state ELSE actual
             /\ IF Proceeds(TRUE, lost)
                THEN /\ saved' = LastStep(c)
                     /\ form' = IF LastStep(c) THEN NoForm ELSE [form EXCEPT !.step = @ + 1]
                     /\ coming' = IF LastStep(c) THEN Onward(c, next, state) ELSE coming
                ELSE form' = NoForm /\ UNCHANGED <<saved, coming>>
        /\ UNCHANGED <<role, view, token, drift>>

\* The server refuses, by what the route asks or for a reason of the record's; or the
\* request is lost on its way: the form shows an error and may be sent again.
Fail ==
    /\ form # NoForm /\ form.phase = "sending"
    /\ form' = NoForm
    /\ UNCHANGED <<role, cookie, view, actual, token, coming, drift, saved>>

-----------------------------------------------------------------------------
\* Another tab takes the token, another user changes the record, an
\* administrator or the clock ends the session or the challenge.
Rotate ==
    /\ cookie # "NONE"
    /\ token' = Taken("other")
    /\ form' = IF form = NoForm THEN NoForm ELSE [form EXCEPT !.good = FALSE]
    /\ coming' = IF coming # Nowhere /\ coming.token = "good"
                 THEN [coming EXCEPT !.token = "other"] ELSE coming
    /\ drift' = TRUE
    /\ UNCHANGED <<role, cookie, view, actual, saved>>

RecordForms(place) ==
    CASE place \in {"dispatch", "edit of dispatch"} ->
             {DispatchConfirm, DispatchComplete, DispatchCancel}
      [] place \in {"issuance", "edit of issuance"} -> {FuelPost, FuelVoid}
      [] place = "allocation" ->
             {BudgetActivate, BudgetCancel, BudgetClose, BudgetDelete, BudgetRestore}
      [] place \in {"office", "driver", "vehicle"} -> OfficePage("LIVE").offers
                                                     \cup OfficePage("DELETED").offers
      [] place = "user" -> UserLifecycle(NoSubject, "LIVE") \cup UserLifecycle(NoSubject, "DELETED")
      [] OTHER -> {}
ChangeRecord ==
    /\ \E c \in RecordForms(view.place) : /\ actual \in DOMAIN c.moves
                                          /\ actual' \in c.moves[actual] \ {actual}
    /\ drift' = TRUE
    /\ UNCHANGED <<role, cookie, view, token, form, coming, saved>>

EndSession ==
    /\ cookie # "NONE"
    /\ cookie' = "NONE"
    /\ drift' = TRUE
    /\ UNCHANGED <<role, view, actual, token, form, coming, saved>>

WorkNext ==
    \/ \E place \in Links : Follow(place)
    \/ Reload \/ Render \/ Arrive
    \/ \E c \in Offered : Submit(c)
    \/ \E lost \in BOOLEAN : Ask(lost) \/ Deliver(lost)
    \/ Fail
    \/ Rotate \/ ChangeRecord \/ EndSession

WorkSpec == WorkInit /\ [][WorkNext]_workVars

-----------------------------------------------------------------------------
\* What a screen offers, the server lets its user do: a control of the screen is
\* never refused for a missing permission, a link leads to a screen that opens,
\* and a screen that opens may read all that it is filled with.  Left out are the
\* forms about the user's own account or role and about privileged roles, and the
\* schedule's link to a new dispatch: the code offers these to users whom its own
\* rules refuse.
OffersHold ==
    /\ Protected(view.place) /\ view.about = NoSubject =>
           \A c \in Offered : \A i \in DOMAIN c.sends :
               Verdict(c.sends[i], "SESSION", rights, TRUE) = "accepted"
    /\ \A q \in Contents(view.place, view.status, rights) :
           Verdict(q, "SESSION", rights, FALSE) = "accepted"
    /\ coming.place = "denied" => view.place \in {"schedule", "denied"}

\* A user is not locked out by their own work: the forms of a screen never leave
\* it with a token that they themselves had replaced, so a form refused for its
\* token owes it to another tab, a screen on its way or a failed sign-out.
NoSelfLockout ==
    token = "form" => \A c \in Shown.offers : c.token # "page"

\* Once a form told the user that it was saved and the screen has settled, the
\* screen shows the record as the server has it, unless it changed elsewhere.
FreshAfterSave ==
    saved /\ form = NoForm /\ coming = Nowhere /\ ~drift => view.status = actual

\* A step of signing in leads to a screen that takes the credential it earned.
Takes(place, credential) ==
    IF Protected(place) THEN credential = "SESSION"
    ELSE \A c \in Page(rights, place, "NONE", NoSubject).offers :
             \A i \in DOMAIN c.sends : credential \in c.sends[i].by
SignInLeadsOn ==
    [][~Protected(view.place) /\ saved' /\ ~saved => Takes(coming'.place, cookie')]_workVars
=============================================================================
