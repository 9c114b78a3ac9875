------------------------------- MODULE Access -------------------------------
(***************************************************************************)
(* What every HTTP route of the application asks of a request: which       *)
(* cookie must identify it, which permissions its user must hold, and      *)
(* whether it must prove, by the session's CSRF token, that a page of the  *)
(* application sent it.                                                    *)
(*                                                                         *)
(* A need is a set of alternatives, each a set of permissions: {} lets     *)
(* nobody through.  The rights of a role are those the migrations seed.    *)
(* A route that refuses to act on its own caller takes "own".              *)
(***************************************************************************)
EXTENDS Migrations

RightsOf(role) == {g[2] : g \in {x \in SeededGrants : x[1] = role}}

Held(rights, needs) == \E all \in needs : all \subseteq rights
Anyone == {{}}
One(p) == {{p}}
Both(p, q) == {{p, q}}
Either(p, q) == {{p}, {q}}

(***************************************************************************)
(* The permission policies of the application services.                    *)
(***************************************************************************)
DispatchNeeds == [create |-> One("dispatch.create"), read |-> One("dispatch.read"),
                  update |-> One("dispatch.update"), complete |-> One("dispatch.complete"),
                  cancel |-> One("dispatch.cancel"),
                  override |-> One("dispatch.conflict.override"),
                  settings |-> One("dispatch.settings.manage")]
FuelNeeds == [create |-> One("fuel.create"), read |-> One("fuel.read"),
              post |-> One("fuel.post"), void |-> One("fuel.void")]
BudgetNeeds == [manage |-> One("budget.manage"), read |-> Either("budget.manage", "budget.read")]
Permission == [office |-> [manage |-> "office.manage", read |-> "office.read"],
               driver |-> [manage |-> "driver.manage", read |-> "driver.read"],
               vehicle |-> [manage |-> "vehicle.manage", read |-> "vehicle.read"]]
ReferenceNeeds(resource) ==
    [admin |-> One(Permission[resource].manage),
     operational |-> Either(Permission[resource].manage, Permission[resource].read)]

\* Every report is of a family that fixes what reading and exporting it takes.
ReportFamilies == [fuel |-> [read |-> "fuel.read", export |-> "fuel.export"],
                   dispatch |-> [read |-> "dispatch.read", export |-> "report.export"],
                   budget |-> [read |-> "fuel.read", export |-> "report.export"]]
ReportNeeds(family) ==
    [read |-> One(ReportFamilies[family].read),
     export |-> Both(ReportFamilies[family].read, ReportFamilies[family].export)]
DashboardNeeds == Either("fuel.read", "dispatch.read")

(***************************************************************************)
(* The shapes of a route: what identifies the caller, in the order the     *)
(* handler asks, and whether the CSRF token is verified.                   *)
(***************************************************************************)
Route(by, needs, guarded) ==
    [by |-> by, needs |-> needs, guarded |-> guarded, inside |-> Anyone]
Get(needs) == Route({"SESSION"}, needs, FALSE)
Write(needs) == Route({"SESSION"}, needs, TRUE)
Step(challenge) == Route({challenge}, Anyone, TRUE)
\* What the handler or the use case asks only once the request is known to be genuine.
Inside(route, needs) == [route EXCEPT !.inside = needs]
DispatchRequest(access) == Write(DispatchNeeds[access])
DispatchQuery(access) == Get(DispatchNeeds[access])
FuelRequest(access) == Write(FuelNeeds[access])
FuelQuery(access) == Get(FuelNeeds[access])
BudgetRequest(access) == Write(BudgetNeeds[access])
BudgetQuery(access) == Get(BudgetNeeds[access])
ReferenceRequest(resource, mode) == Write(ReferenceNeeds(resource)[mode])
ReferenceQuery(resource, mode) == Get(ReferenceNeeds(resource)[mode])

\* Sign-in and the challenges of its later steps.
Login == Route({"NONE", "SESSION", "PASSWORD_CHANGE", "TOTP_ENROLLMENT", "TOTP_VERIFICATION"},
               Anyone, FALSE)
CurrentChallenge == Route({"PASSWORD_CHANGE", "TOTP_ENROLLMENT", "TOTP_VERIFICATION"},
                          Anyone, FALSE)
CurrentPrincipal == Get(Anyone)
ChangePassword == Route({"PASSWORD_CHANGE", "SESSION"}, Anyone, TRUE)
StartEnrollment == Step("TOTP_ENROLLMENT")
ConfirmEnrollment == Step("TOTP_ENROLLMENT")
VerifyChallenge == Step("TOTP_VERIFICATION")
Logout == Write(Anyone)

\* Dispatches.  An acknowledgment in the body needs the override permission too.
ListDispatches == DispatchQuery("read")
GetDispatch == DispatchQuery("read")
CheckConflicts == DispatchQuery("read")
ReadSchedule == DispatchQuery("read")
DispatchOptions(access) == DispatchQuery(access)
CreateDispatch == DispatchRequest("create")
UpdateDispatch == DispatchRequest("update")
DispatchVehicle == DispatchRequest("update")
CompleteDispatch == DispatchRequest("complete")
CancelDispatch == DispatchRequest("cancel")
GetScheduleSettings == DispatchQuery("settings")
UpdateScheduleSettings == DispatchRequest("settings")

\* Fuel issuances and balances.
ListFuel == FuelQuery("read")
GetFuel == FuelQuery("read")
FuelBalances == FuelQuery("read")
FuelOptions == FuelQuery("create")
CreateFuel == FuelRequest("create")
UpdateFuel == FuelRequest("create")
PostFuel == FuelRequest("post")
VoidFuel == FuelRequest("void")

\* Budget allocations.
ListBudgets == BudgetQuery("read")
GetBudget == BudgetQuery("read")
CreateBudget == BudgetRequest("manage")
UpdateBudget == BudgetRequest("manage")
DeleteBudget == BudgetRequest("manage")
RestoreBudget == BudgetRequest("manage")

\* Offices, drivers and vehicles.
ListOffices(mode) == ReferenceQuery("office", mode)
GetOffice == ReferenceQuery("office", "admin")
CreateOffice == ReferenceRequest("office", "admin")
UpdateOffice == ReferenceRequest("office", "admin")
DeleteOffice == ReferenceRequest("office", "admin")
RestoreOffice == ReferenceRequest("office", "admin")
ListDrivers(mode) == ReferenceQuery("driver", mode)
GetDriver == ReferenceQuery("driver", "admin")
CreateDriver == ReferenceRequest("driver", "admin")
UpdateDriver == ReferenceRequest("driver", "admin")
DeleteDriver == ReferenceRequest("driver", "admin")
RestoreDriver == ReferenceRequest("driver", "admin")
ListVehicles(mode) == ReferenceQuery("vehicle", mode)
GetVehicle == ReferenceQuery("vehicle", "admin")
CreateVehicle == ReferenceRequest("vehicle", "admin")
UpdateVehicle == ReferenceRequest("vehicle", "admin")
DeleteVehicle == ReferenceRequest("vehicle", "admin")
RestoreVehicle == ReferenceRequest("vehicle", "admin")

\* Users, roles and settings.
ListUsers == Get(One("user.read"))
GetUser == Get(One("user.read"))
Privileged(yes) == IF yes THEN One("role.assign_privileged") ELSE Anyone
CreateUser(privileged) == Inside(Write(One("user.manage")), Privileged(privileged))
Nobody == {}
NotSelf(own) == IF own THEN Nobody ELSE Anyone
UpdateUser(own) == Inside(Write(One("user.manage")), NotSelf(own))
DeleteUser(own) == Inside(Write(One("user.manage")), NotSelf(own))
RestoreUser == Write(One("user.manage"))
AssignUserRoles(own, privileged) ==
    Inside(Write(One("role.manage")), IF own THEN Nobody ELSE Privileged(privileged))
ResetPassword(own) == Inside(Write(One("user.password.reset")), NotSelf(own))
ResetTotp(own) == Inside(Write(One("user.totp.reset")), NotSelf(own))
RevokeSessions == Write(One("user.session.revoke"))
ListRoles == Get(One("role.read"))
ListPermissions == Get(One("role.read"))
CreateRole(privileged) == Inside(Write(One("role.manage")), Privileged(privileged))
UpdateRole(reclassed) == Inside(Write(One("role.manage")), Privileged(reclassed))
AssignPermissions == Write(One("role.manage"))
GetAuthSettings == Get(One("auth.settings.manage"))
UpdateAuthSettings == Write(One("auth.settings.manage"))

\* The audit trail, reports and exports.
SearchEvents == Get(One("audit.read"))
GetEvent == Get(One("audit.read"))
LatestVerification == Get(One("audit.read"))
ReadReport(family) == Get(ReportNeeds(family).read)
RequestExport(family) == Inside(Write(Anyone), ReportNeeds(family).export)
ListExports == Get(Anyone)
DownloadLink(family) == Inside(Write(Anyone), ReportNeeds(family).export)
Download(family) == Inside(Get(Anyone), ReportNeeds(family).export)

(***************************************************************************)
(* What a route answers to a request: the cookie is read first, then the   *)
(* permission is checked, then the token, and last what the use case asks. *)
(***************************************************************************)
Verdict(route, cookie, rights, tokenCurrent) ==
    IF cookie \notin route.by THEN "unauthenticated"
    ELSE IF ~Held(rights, route.needs) THEN "forbidden"
    ELSE IF route.guarded /\ ~tokenCurrent THEN "csrf"
    ELSE IF ~Held(rights, route.inside) THEN "forbidden"
    ELSE "accepted"
=============================================================================
