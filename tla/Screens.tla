------------------------------ MODULE Screens ------------------------------
(***************************************************************************)
(* The screens of the browser application: who may open each, whether its  *)
(* rendering takes a new CSRF token, the controls it offers and the other  *)
(* screens it links to.                                                    *)
(*                                                                         *)
(* A control sends its requests in order, with the token the page was      *)
(* rendered with ("page"), one it asks for first ("fresh"), one fetched    *)
(* when it was mounted ("mount") or none.  In the end it renders its page  *)
(* again ("refresh"), stays, goes where the answer says ("next"), or opens *)
(* a screen.  moves maps the states of the record in which the server      *)
(* accepts it to those it may leave.  A screen of no one record is NONE.   *)
(*                                                                         *)
(* about tells what the screen of an account or a role is of: the user's   *)
(* own, and one that is privileged.                                        *)
(***************************************************************************)
EXTENDS Access, Sequences

Control(id, token, sends, then, moves) ==
    [id |-> id, token |-> token, sends |-> sends, then |-> then, moves |-> moves]
PageForm(id, route, then, moves) == Control(id, "page", <<route>>, then, moves)
FreshForm(id, route, then, moves) == Control(id, "fresh", <<route>>, then, moves)
To(from, to) == [s \in from |-> {to}]
Kept(states) == [s \in states |-> {s}]
MountForm(id, sends, then) == Control(id, "mount", sends, then, Kept({"NONE"}))
Of(condition, set) == IF condition THEN set ELSE {}

\* A screen: the needs of opening it, whether rendering it takes a token, what it offers.
Screen(gate, token, offers, links) ==
    [gate |-> gate, token |-> token, offers |-> offers, links |-> links]

-----------------------------------------------------------------------------
\* Dispatches.
DispatchDraftCreate ==
    PageForm("create dispatch", CreateDispatch, "dispatch", To({"NONE"}, "DRAFT"))
DispatchDraftEdit == PageForm("edit dispatch", UpdateDispatch, "dispatch", Kept({"DRAFT"}))
DispatchConfirm ==
    FreshForm("dispatch vehicle", DispatchVehicle, "refresh", To({"DRAFT"}, "DISPATCHED"))
DispatchComplete ==
    FreshForm("complete", CompleteDispatch, "refresh", To({"DISPATCHED"}, "COMPLETED"))
\* Fault: the dialog closes without asking for the screen again.
DispatchCancelSilent ==
    FreshForm("cancel", CancelDispatch, "stay", To({"DRAFT", "DISPATCHED"}, "CANCELLED"))
DispatchCancel ==
    FreshForm("cancel", CancelDispatch, "refresh", To({"DRAFT", "DISPATCHED"}, "CANCELLED"))

DispatchesPage(rights) ==
    Screen(DispatchNeeds.read, FALSE, {},
           {"schedule", "dispatch"} \cup Of(Held(rights, DispatchNeeds.create), {"new dispatch"}))
NewDispatchPage ==
    Screen(Both("dispatch.read", "dispatch.create"), TRUE, {DispatchDraftCreate}, {"dispatches"})
DispatchDetail(rights, status) ==
    Of(status = "DRAFT" /\ Held(rights, DispatchNeeds.update), {DispatchConfirm})
    \cup Of(status = "DISPATCHED" /\ Held(rights, DispatchNeeds.complete), {DispatchComplete})
    \cup Of(status \in {"DRAFT", "DISPATCHED"} /\ Held(rights, DispatchNeeds.cancel),
            {DispatchCancel})
DispatchPage(rights, status) ==
    Screen(DispatchNeeds.read, FALSE, DispatchDetail(rights, status),
           {"dispatches"} \cup Of(status = "DRAFT" /\ Held(rights, DispatchNeeds.update),
                                  {"edit of dispatch"}))
\* The edit form of the same page; a record that is no draft shows the page itself.
DispatchEditPage(rights, status) ==
    IF status = "DRAFT" /\ Held(rights, DispatchNeeds.update)
    THEN Screen(DispatchNeeds.read, TRUE, {DispatchDraftEdit}, {"dispatch", "dispatches"})
    ELSE DispatchPage(rights, status)
\* The link to a new dispatch is shown whatever the rights.
SchedulePage == Screen(DispatchNeeds.read, FALSE, {}, {"dispatches", "dispatch", "new dispatch"})
ScheduleSettingsForm ==
    PageForm("schedule settings", UpdateScheduleSettings, "refresh", Kept({"NONE"}))
ScheduleSettingsPage == Screen(DispatchNeeds.settings, TRUE, {ScheduleSettingsForm}, {})

-----------------------------------------------------------------------------
\* Fuel issuances.
FuelDraftCreate == PageForm("create issuance", CreateFuel, "issuance", To({"NONE"}, "DRAFT"))
FuelDraftEdit == PageForm("edit issuance", UpdateFuel, "issuance", Kept({"DRAFT"}))
FuelPost == PageForm("post", PostFuel, "refresh", To({"DRAFT"}, "POSTED"))
FuelVoid == PageForm("void", VoidFuel, "refresh", To({"POSTED"}, "VOIDED"))

IssuancesPage(rights) ==
    Screen(FuelNeeds.read, FALSE, {},
           {"balances", "issuance"} \cup Of(Held(rights, FuelNeeds.create), {"new issuance"}))
NewIssuancePage ==
    Screen(Both("fuel.read", "fuel.create"), TRUE, {FuelDraftCreate}, {"issuances"})
IssuanceNeedsToken(rights, status) ==
    \/ status = "DRAFT" /\ (Held(rights, FuelNeeds.create) \/ Held(rights, FuelNeeds.post))
    \/ status = "POSTED" /\ Held(rights, FuelNeeds.void)
\* Fault: whoever may post is also offered to void.
IssuanceDetailByPost(rights, status) ==
    Of(status = "DRAFT" /\ Held(rights, FuelNeeds.post), {FuelPost})
    \cup Of(status = "POSTED" /\ Held(rights, FuelNeeds.post), {FuelVoid})
IssuanceDetail(rights, status) ==
    Of(status = "DRAFT" /\ Held(rights, FuelNeeds.post), {FuelPost})
    \cup Of(status = "POSTED" /\ Held(rights, FuelNeeds.void), {FuelVoid})
IssuancePage(rights, status) ==
    Screen(FuelNeeds.read, IssuanceNeedsToken(rights, status), IssuanceDetail(rights, status),
           {"issuances"} \cup Of(status = "DRAFT" /\ Held(rights, FuelNeeds.create),
                                 {"edit of issuance"}))
IssuanceEditPage(rights, status) ==
    IF status = "DRAFT" /\ Held(rights, FuelNeeds.create)
    THEN Screen(FuelNeeds.read, TRUE, {FuelDraftEdit}, {"issuance", "issuances"})
    ELSE IssuancePage(rights, status)
BalancesPage == Screen(FuelNeeds.read, FALSE, {}, {"issuances"})

-----------------------------------------------------------------------------
\* Budget allocations.
BudgetCreateForm == PageForm("create allocation", CreateBudget, "allocation",
                             To({"NONE"}, "DRAFT"))
BudgetEditForm == PageForm("edit allocation", UpdateBudget, "refresh", Kept({"DRAFT"}))
BudgetTransition(id, route, from, to) == PageForm(id, route, "refresh", To(from, to))
BudgetActivate == BudgetTransition("activate", UpdateBudget, {"DRAFT"}, "ACTIVE")
BudgetCancel == BudgetTransition("cancel", UpdateBudget, {"DRAFT", "ACTIVE"}, "CANCELLED")
BudgetClose == BudgetTransition("close", UpdateBudget, {"ACTIVE"}, "CLOSED")
BudgetDelete ==
    BudgetTransition("delete", DeleteBudget, {"DRAFT", "ACTIVE", "CLOSED", "CANCELLED"}, "DELETED")
\* A restored allocation is again what it was, but for an active one, now a draft.
BudgetRestore == PageForm("restore", RestoreBudget, "refresh",
                          [s \in {"DELETED"} |-> {"DRAFT", "CLOSED", "CANCELLED"}])
BudgetActions(status) ==
    CASE status = "DELETED" -> {BudgetRestore}
      [] status = "DRAFT" -> {BudgetActivate, BudgetCancel, BudgetDelete}
      [] status = "ACTIVE" -> {BudgetClose, BudgetCancel, BudgetDelete}
      [] OTHER -> {BudgetDelete}

BudgetsPage(rights) ==
    LET manages == Held(rights, BudgetNeeds.manage)
    IN  Screen(BudgetNeeds.read, manages, Of(manages, {BudgetCreateForm}), {"allocation"})
BudgetPage(rights, status) ==
    LET manages == Held(rights, BudgetNeeds.manage)
    IN  Screen(BudgetNeeds.read, manages,
               Of(manages, BudgetActions(status) \cup Of(status = "DRAFT", {BudgetEditForm})),
               {"allocations"})

-----------------------------------------------------------------------------
\* Offices, drivers and vehicles.
OfficeCreateForm == PageForm("create office", CreateOffice, "office", To({"NONE"}, "LIVE"))
OfficeEditForm == PageForm("edit office", UpdateOffice, "refresh", Kept({"LIVE"}))
DriverCreateForm == PageForm("create driver", CreateDriver, "driver", To({"NONE"}, "LIVE"))
DriverEditForm == PageForm("edit driver", UpdateDriver, "refresh", Kept({"LIVE"}))
VehicleCreateForm == PageForm("create vehicle", CreateVehicle, "vehicle", To({"NONE"}, "LIVE"))
VehicleEditForm == PageForm("edit vehicle", UpdateVehicle, "refresh", Kept({"LIVE"}))
\* Fault: the dialog asks for a token of its own beside the form of its screen.
ReferenceLifecycleAsking(status, delete, restore) ==
    IF status = "LIVE" THEN {FreshForm("delete", delete, "refresh", To({"LIVE"}, "DELETED"))}
                       ELSE {FreshForm("restore", restore, "refresh", To({"DELETED"}, "LIVE"))}
ReferenceLifecycle(status, delete, restore) ==
    IF status = "LIVE" THEN {PageForm("delete", delete, "refresh", To({"LIVE"}, "DELETED"))}
                       ELSE {PageForm("restore", restore, "refresh", To({"DELETED"}, "LIVE"))}
ReferenceList(resource, form) ==
    Screen(ReferenceNeeds(resource).admin, TRUE, {form}, {resource})
ReferenceRecord(resource, list, status, form, delete, restore) ==
    Screen(ReferenceNeeds(resource).admin, TRUE,
           Of(status = "LIVE", {form}) \cup ReferenceLifecycle(status, delete, restore), {list})
OfficesPage == ReferenceList("office", OfficeCreateForm)
OfficePage(status) ==
    ReferenceRecord("office", "offices", status, OfficeEditForm, DeleteOffice, RestoreOffice)
DriversPage == ReferenceList("driver", DriverCreateForm)
DriverPage(status) ==
    ReferenceRecord("driver", "drivers", status, DriverEditForm, DeleteDriver, RestoreDriver)
VehiclesPage == ReferenceList("vehicle", VehicleCreateForm)
VehiclePage(status) ==
    ReferenceRecord("vehicle", "vehicles", status, VehicleEditForm, DeleteVehicle, RestoreVehicle)

-----------------------------------------------------------------------------
\* Users and roles.
UserForm(about) ==
    PageForm("create user", CreateUser(about.privileged), "refresh", Kept({"NONE"}))
UserIdentityForm(about) ==
    PageForm("edit user", UpdateUser(about.own), "refresh", Kept({"LIVE"}))
UserRoleForm(about) == PageForm("assign roles", AssignUserRoles(about.own, about.privileged),
                                "refresh", Kept({"LIVE"}))
PasswordReset(about) ==
    PageForm("reset password", ResetPassword(about.own), "refresh", Kept({"LIVE"}))
TotpReset(about) == PageForm("reset factor", ResetTotp(about.own), "refresh", Kept({"LIVE"}))
Revocation == PageForm("revoke sessions", RevokeSessions, "refresh", Kept({"LIVE", "DELETED"}))
UserLifecycle(about, status) ==
    IF status = "DELETED"
    THEN {PageForm("restore user", RestoreUser, "refresh", To({"DELETED"}, "LIVE"))}
    ELSE {PageForm("delete user", DeleteUser(about.own), "refresh", To({"LIVE"}, "DELETED"))}
\* The box that makes a role privileged is there only for those who may tick
\* it; without it the form sends that the role is not.  An edit saves the role
\* and then its permissions, in two requests.
CanTick(rights) == "role.assign_privileged" \in rights
RoleCreateForm(rights, about) ==
    PageForm("create role", CreateRole(about.privileged /\ CanTick(rights)), "role",
             To({"NONE"}, "LIVE"))
RoleEditForm(rights, about) ==
    Control("edit role", "page",
            <<UpdateRole(about.privileged /\ ~CanTick(rights)), AssignPermissions>>,
            "refresh", Kept({"LIVE"}))

UsersPage(rights, about) ==
    Screen(One("user.read"), TRUE, Of("user.manage" \in rights, {UserForm(about)}), {"user"})
UserPage(rights, status, about) ==
    Screen(Both("user.read", "role.read"), TRUE,
           {UserIdentityForm(about), UserRoleForm(about)}
           \cup Of(~about.own /\ "user.password.reset" \in rights, {PasswordReset(about)})
           \cup Of(~about.own /\ "user.totp.reset" \in rights, {TotpReset(about)})
           \cup Of("user.session.revoke" \in rights, {Revocation})
           \cup Of(~about.own /\ "user.manage" \in rights, UserLifecycle(about, status)),
           {"users"})
RolesPage(rights, about) ==
    Screen(One("role.read"), TRUE, Of("role.manage" \in rights, {RoleCreateForm(rights, about)}),
           {"role"})
RolePage(rights, about) ==
    Screen(One("role.read"), TRUE, Of("role.manage" \in rights, {RoleEditForm(rights, about)}),
           {"roles"})
\* Requiring the second step ends every privileged session, the caller's too.
AuthSettingsForm == {PageForm("require factor", UpdateAuthSettings, "login", Kept({"NONE"})),
                     PageForm("waive factor", UpdateAuthSettings, "refresh", Kept({"NONE"}))}
SecurityPage == Screen(One("auth.settings.manage"), TRUE, AuthSettingsForm, {})

-----------------------------------------------------------------------------
\* Audit trail, reports, account.
AuditPage == Screen(One("audit.read"), FALSE, {}, {"event"})
EventPage == Screen(One("audit.read"), FALSE, {}, {"audit"})
ExportDialog(family) ==
    PageForm("export", RequestExport(family), "refresh", Kept({"NONE"}))
\* The button asks for a link and then goes to it.
DownloadButton(family) ==
    Control("download", "page", <<DownloadLink(family), Download(family)>>, "stay",
            Kept({"NONE"}))
Exports(rights) == {f \in DOMAIN ReportFamilies : Held(rights, ReportNeeds(f).export)}
ReportsPage(rights) ==
    Screen(DashboardNeeds, TRUE,
           UNION {{ExportDialog(f), DownloadButton(f)} : f \in Exports(rights)}, {})
AccountPage == Screen(Anyone, FALSE, {}, {})

\* What a screen is filled with: the queries its page executes and its forms
\* make while they are filled in.
Readable(rights) == {f \in DOMAIN ReportFamilies : Held(rights, ReportNeeds(f).read)}
Contents(place, status, rights) ==
    CASE place = "dispatches" -> {ListDispatches}
      [] place = "new dispatch" -> {DispatchOptions("create"), CheckConflicts}
      [] place = "dispatch" -> {GetDispatch}
      [] place = "edit of dispatch" ->
             {GetDispatch} \cup Of(status = "DRAFT" /\ Held(rights, DispatchNeeds.update),
                                   {DispatchOptions("update"), CheckConflicts})
      [] place = "schedule" -> {ReadSchedule}
      [] place = "schedule settings" -> {GetScheduleSettings}
      [] place = "issuances" -> {ListFuel}
      [] place = "new issuance" -> {FuelOptions}
      [] place = "issuance" -> {GetFuel}
      [] place = "edit of issuance" ->
             {GetFuel} \cup Of(status = "DRAFT" /\ Held(rights, FuelNeeds.create), {FuelOptions})
      [] place = "balances" -> {FuelBalances}
      [] place = "allocations" ->
             {ListBudgets} \cup Of(Held(rights, BudgetNeeds.manage), {ListOffices("operational")})
      [] place = "allocation" ->
             {GetBudget} \cup Of(status = "DRAFT" /\ Held(rights, BudgetNeeds.manage),
                                 {ListOffices("operational")})
      [] place = "offices" -> {ListOffices("admin")}
      [] place = "office" -> {GetOffice}
      [] place = "drivers" -> {ListDrivers("admin")}
      [] place = "driver" -> {GetDriver}
      [] place = "vehicles" -> {ListVehicles("admin")}
      [] place = "vehicle" -> {GetVehicle}
      [] place = "users" -> {ListUsers} \cup Of("role.read" \in rights, {ListRoles})
      [] place = "user" -> {GetUser, ListRoles}
      [] place \in {"roles", "role"} -> {ListRoles, ListPermissions}
      [] place = "security" -> {GetAuthSettings}
      [] place = "audit" -> {LatestVerification, SearchEvents}
      [] place = "event" -> {LatestVerification, GetEvent}
      [] place = "reports" -> {ListExports} \cup {ReadReport(f) : f \in Readable(rights)}
      [] OTHER -> {}

Navigation(rights) ==
    Of(Held(rights, DispatchNeeds.read), {"dispatches"})
    \cup Of(Held(rights, FuelNeeds.read), {"issuances"})
    \cup Of(Held(rights, BudgetNeeds.read), {"allocations"})
    \cup Of("office.manage" \in rights, {"offices"})
    \cup Of("driver.manage" \in rights, {"drivers"})
    \cup Of("vehicle.manage" \in rights, {"vehicles"})
    \cup Of("user.read" \in rights, {"users"})
    \cup Of("role.read" \in rights, {"roles"})
    \cup Of("auth.settings.manage" \in rights, {"security"})
    \cup Of(Held(rights, DispatchNeeds.settings), {"schedule settings"})
    \cup Of(Held(rights, DashboardNeeds), {"reports"})
    \cup Of("audit.read" \in rights, {"audit"})
    \cup {"account"}
States == {"NONE", "DRAFT", "DISPATCHED", "COMPLETED", "CANCELLED", "POSTED", "VOIDED",
           "ACTIVE", "CLOSED", "LIVE", "DELETED"}
LogoutButton == Control("sign out", "fresh", <<Logout>>, "login", Kept(States))

-----------------------------------------------------------------------------
\* Signing in: the form without a token, and those of the challenges, which
\* fetch one when they are mounted.
LoginForm == Control("sign in", "none", <<Login>>, "next", Kept({"NONE"}))
PasswordChangeForm == MountForm("change password", <<ChangePassword>>, "next")
TotpChallengeForm == MountForm("verify code", <<VerifyChallenge>>, "account")
\* The form starts an enrolment once it has its token; the user then confirms it.
TotpEnrollmentForm == MountForm("enroll", <<StartEnrollment, ConfirmEnrollment>>, "account")
\* Fault: the screens of the two steps of the factor are swapped.
nextAuthenticationPathSwapped(cookie) ==
    CASE cookie = "PASSWORD_CHANGE" -> "password change"
      [] cookie = "TOTP_ENROLLMENT" -> "verification"
      [] cookie = "TOTP_VERIFICATION" -> "enrollment"
      [] OTHER -> "account"
nextAuthenticationPath(cookie) ==
    CASE cookie = "PASSWORD_CHANGE" -> "password change"
      [] cookie = "TOTP_ENROLLMENT" -> "enrollment"
      [] cookie = "TOTP_VERIFICATION" -> "verification"
      [] OTHER -> "account"
LoginPage == Screen(Anyone, FALSE, {LoginForm}, {})
PasswordChangePage == Screen(Anyone, FALSE, {PasswordChangeForm}, {})
VerificationPage == Screen(Anyone, FALSE, {TotpChallengeForm}, {})
EnrollmentPage == Screen(Anyone, FALSE, {TotpEnrollmentForm}, {})
=============================================================================
