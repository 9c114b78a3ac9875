------------------------- MODULE DeploymentProofs -------------------------
(***************************************************************************)
(* Proofs about Deployment: for any number of events and commands and any  *)
(* grants that administrators may edit, the migrations run through but for *)
(* one grant of an administrator that comes before its migration, leave    *)
(* the schema of the migrations in force and lose no audit event.          *)
(*                                                                         *)
(* The invariant says where the database is at every statement: Risen for  *)
(* a migration under way, Fallen for one being undone.  Both rest on the   *)
(* position of each table in the scripts (Born, Place, Undo), which the    *)
(* first lemmas read off the scripts, one statement at a time.             *)
(***************************************************************************)
EXTENDS Deployment, TLAPS

(***************************************************************************)
(* The tables: the migration and the statements that make and drop them    *)
(***************************************************************************)
\* The migration that creates each table.
Born == [application_metadata |-> 1, users |-> 2, roles |-> 2, permissions |-> 2,
         user_roles |-> 2, role_permissions |-> 2, user_sessions |-> 2,
         authentication_challenges |-> 2, login_rate_limits |-> 2, user_totp_factors |-> 2,
         admin_password_resets |-> 2, auth_security_events |-> 2, audit_outbox |-> 3,
         audit_chain_entries |-> 3, audit_chain_heads |-> 3, audit_sink_deliveries |-> 3,
         audit_verification_runs |-> 3, audit_sink_entries |-> 3, offices |-> 4, drivers |-> 4,
         vehicles |-> 4, budget_allocations |-> 5, authentication_settings |-> 6,
         fuel_sequence_monthly |-> 7, fuel_issuances |-> 7, fuel_ledger_entries |-> 7,
         vehicle_dispatches |-> 8, dispatch_schedule_settings |-> 9,
         vehicle_dispatch_conflict_overrides |-> 9, export_jobs |-> 10,
         export_download_tokens |-> 10]

\* The statement of that migration which creates it.
Place == [application_metadata |-> 1, users |-> 1, roles |-> 2, permissions |-> 3,
          user_roles |-> 4, role_permissions |-> 5, user_sessions |-> 6,
          authentication_challenges |-> 7, login_rate_limits |-> 8, user_totp_factors |-> 9,
          admin_password_resets |-> 10, auth_security_events |-> 11, audit_outbox |-> 1,
          audit_chain_entries |-> 2, audit_chain_heads |-> 3, audit_sink_deliveries |-> 4,
          audit_verification_runs |-> 5, audit_sink_entries |-> 6, offices |-> 1,
          drivers |-> 2, vehicles |-> 3, budget_allocations |-> 1,
          authentication_settings |-> 1, fuel_sequence_monthly |-> 1, fuel_issuances |-> 2,
          fuel_ledger_entries |-> 3, vehicle_dispatches |-> 1,
          dispatch_schedule_settings |-> 1, vehicle_dispatch_conflict_overrides |-> 3,
          export_jobs |-> 1, export_download_tokens |-> 2]

\* The statement of its undoing which drops the table, or drops it for good.
Undo == [application_metadata |-> 1, auth_security_events |-> 1, admin_password_resets |-> 2,
         user_totp_factors |-> 3, login_rate_limits |-> 4, authentication_challenges |-> 5,
         user_sessions |-> 6, role_permissions |-> 7, user_roles |-> 8, permissions |-> 9,
         roles |-> 10, users |-> 11, audit_sink_entries |-> 6, audit_sink_deliveries |-> 7,
         audit_verification_runs |-> 8, audit_chain_heads |-> 9, audit_chain_entries |-> 10,
         audit_outbox |-> 11, vehicles |-> 3, drivers |-> 4, offices |-> 5,
         budget_allocations |-> 3, authentication_settings |-> 3, fuel_ledger_entries |-> 1,
         fuel_issuances |-> 2, fuel_sequence_monthly |-> 3, vehicle_dispatches |-> 1,
         vehicle_dispatch_conflict_overrides |-> 3, dispatch_schedule_settings |-> 4,
         export_download_tokens |-> 2, export_jobs |-> 3]

(***************************************************************************)
(* What a migration seeds, and the database half-way                       *)
(***************************************************************************)
\* Whether the first statements of a script, up to the k-th, had one of these kinds.
Did(S, k, kinds) == \E j \in 1 .. k - 1 : S[j].do \in kinds

\* The statements that add grants.
Granting == {"grant", "grantMissing"}

\* What the n-th migration seeds.
NewCodes(n) == CASE n = 2 -> FirstPermissions
                 [] n = 3 -> {"audit.read_sensitive"}
                 [] n = 4 -> Codes(ReferenceGrants)
                 [] n = 5 -> Codes(BudgetGrants)
                 [] n = 6 -> Codes(SettingsGrants)
                 [] n = 9 -> Codes(ScheduleGrants)
                 [] OTHER -> {}
NewGrants(n) == CASE n = 2 -> FirstGrants
                  [] n = 3 -> AuditGrants
                  [] n = 4 -> ReferenceGrants
                  [] n = 5 -> BudgetGrants
                  [] n = 6 -> SettingsGrants
                  [] n = 9 -> ScheduleGrants
                  [] n = 10 -> ExportGrants
                  [] OTHER -> {}
NewFilled(n) == CASE n = 2 -> {"roles"}
                  [] n = 3 -> {"audit_chain_heads"}
                  [] n = 6 -> {"authentication_settings"}
                  [] n = 9 -> {"dispatch_schedule_settings"}
                  [] OTHER -> {}

\* What is there with n migrations in force and the first statements of the next one done.
RisenTables(n, k) ==
    {t \in Tables : /\ Born[t] <= n \/ (Born[t] = n + 1 /\ Place[t] < k)
                    /\ t = "auth_security_events" => n < 2 \/ (n = 2 /\ k <= 11)}
RisenCodes(n, k) ==
    PermissionsAt(n) \cup {c \in NewCodes(n + 1) : Did(Ups[n + 1], k, {"permit"})}
RisenGrants(n, k) ==
    GrantsAt(n) \cup {g \in NewGrants(n + 1) : Did(Ups[n + 1], k, Granting)}
RisenFilled(n, k) ==
    FilledAt(n) \cup {t \in NewFilled(n + 1) : Did(Ups[n + 1], k, {"fill"})}

\* What is left of the n-th when its first statements were undone.
LeftTables(n, k) ==
    {t \in Tables : /\ Born[t] < n \/ (Born[t] = n /\ Undo[t] >= k)
                    /\ t = "auth_security_events" => n <= 2 \/ (n = 3 /\ k > 1)}
LeftCodes(n, k) ==
    {c \in PermissionsAt(n) : Did(Downs[n], k, {"forbid"}) \/ (n = 2 /\ k > Undo["permissions"])
                                 => c \notin NewCodes(n)}
Revoked(n, k) ==
    UNION {Downs[n][j].data : j \in {i \in 1 .. k - 1 : Downs[n][i].do = "revoke"}}
Withdrawn(n, k) ==
    Revoked(n, k)
      \cup {g \in SeededRoles \X SeededPermissions : n = 2 /\ k > Undo["role_permissions"]}

\* The grant that the audit migration adds without looking for it, and takes when it is undone.
SA == <<"SYSTEM_ADMIN", "audit.read">>

\* A statement of the m-th migration that adds it, where an administrator gave it before.
GivenEarly(m, s, d) == m = 3 /\ s.do = "grant" /\ SA \in d.grants \cap Edits

\* A database whose rows belong together.
IsDatabase(d) == d = [tables |-> d.tables, filled |-> d.filled, permissions |-> d.permissions,
                      grants |-> d.grants, legacy |-> d.legacy, outbox |-> d.outbox]

\* Rows only where there is a table, and only of the catalogue.
Kept(d) == /\ d.tables \subseteq Tables /\ d.filled \subseteq d.tables
           /\ d.permissions \subseteq SeededPermissions
           /\ d.grants \subseteq SeededRoles \X SeededPermissions
Allowed(d) == Codes(d.grants) \subseteq d.permissions

\* The database with n migrations in force and the first statements of the next one done.
Risen(d, n, k) ==
    /\ d.tables = RisenTables(n, k)
    /\ d.permissions = RisenCodes(n, k)
    /\ \A g : g \notin Edits => (g \in d.grants <=> g \in RisenGrants(n, k))
    /\ RisenFilled(n, k) \subseteq d.filled
    /\ ~Did(Ups[n + 1], k, Granting) => Codes(d.grants) \subseteq PermissionsAt(n)
    /\ ~Did(Ups[n + 1], k, {"fill"}) => \A t \in d.filled : Born[t] <= n

\* The same with the first statements that undo the n-th done.
Fallen(d, n, k) ==
    /\ d.tables = LeftTables(n, k)
    /\ d.permissions = LeftCodes(n, k)
    /\ \A g : g \notin Edits => (g \in d.grants <=> g \in GrantsAt(n) /\ g \notin Withdrawn(n, k))
    /\ FilledAt(n) \cap d.tables \subseteq d.filled
    /\ d.grants \cap Withdrawn(n, k) = {}

\* Where the tool is.
Steady ==
    /\ IsDatabase(db) /\ Kept(db)
    /\ tool = [command |-> tool.command, way |-> tool.way, at |-> tool.at]
    /\ applied \in 0 .. 10
    /\ tool # Idle =>
         /\ tool.command \in {"migrate", "rollback", "fresh"}
         /\ \/ tool.way = "up" /\ applied < 10 /\ tool.at \in 1 .. Len(Ups[applied + 1]) + 1
            \/ tool.way = "down" /\ applied > 0 /\ tool.at \in 1 .. Len(Downs[applied]) + 1

\* While the events are moved, no table is dropped before its copy is complete.
Moved ==
    /\ tool # Idle /\ tool.way = "up" /\ applied = 2 /\ tool.at > 10 =>
         db.legacy \subseteq Carried(db)
    /\ tool # Idle /\ tool.way = "down" /\ applied = 3 /\ tool.at > 2 =>
         Carried(db) \subseteq db.legacy

\* With no migration cut short, the database is where the tool is.
Sound ==
    ~cut => /\ Allowed(db)
            /\ tool = Idle => Risen(db, applied, 1)
            /\ tool # Idle /\ tool.way = "up" => Risen(db, applied, tool.at)
            /\ tool # Idle /\ tool.way = "down" => Fallen(db, applied, tool.at)

(***************************************************************************)
(* The scripts, statement by statement                                     *)
(***************************************************************************)
\* The statements of the migration that makes the application metadata.
LEMMA MetadataUpIs ==
    /\ Len(MetadataUp) = 1 /\ DOMAIN MetadataUp = 1 .. 1
    /\ MetadataUp[1] = Create("application_metadata")
BY DEF MetadataUp

\* The statements of the migration that makes the identity tables.
LEMMA IdentityUpIs ==
    /\ Len(IdentityUp) = 14 /\ DOMAIN IdentityUp = 1 .. 14 /\ IdentityUp[1] = Create("users")
    /\ IdentityUp[2] = Create("roles") /\ IdentityUp[3] = Create("permissions")
    /\ IdentityUp[4] = Create("user_roles") /\ IdentityUp[5] = Create("role_permissions")
    /\ IdentityUp[6] = Create("user_sessions")
    /\ IdentityUp[7] = Create("authentication_challenges")
    /\ IdentityUp[8] = Create("login_rate_limits")
    /\ IdentityUp[9] = Create("user_totp_factors")
    /\ IdentityUp[10] = Create("admin_password_resets")
    /\ IdentityUp[11] = Create("auth_security_events") /\ IdentityUp[12] = Fill("roles")
    /\ IdentityUp[13] = Permit(FirstPermissions) /\ IdentityUp[14] = Grant(FirstGrants)
BY DEF IdentityUp, CreateAll, SeedCatalog

\* The statements of the migration that makes the audit tables.
LEMMA AuditUpIs ==
    /\ Len(AuditUp) = 11 /\ DOMAIN AuditUp = 1 .. 11 /\ AuditUp[1] = Create("audit_outbox")
    /\ AuditUp[2] = Create("audit_chain_entries") /\ AuditUp[3] = Create("audit_chain_heads")
    /\ AuditUp[4] = Create("audit_sink_deliveries")
    /\ AuditUp[5] = Create("audit_verification_runs")
    /\ AuditUp[6] = Create("audit_sink_entries") /\ AuditUp[7] = Fill("audit_chain_heads")
    /\ AuditUp[8] = Permit({"audit.read_sensitive"}) /\ AuditUp[9] = Grant(AuditGrants)
    /\ AuditUp[10] = Backfill /\ AuditUp[11] = Drop("auth_security_events")
BY DEF AuditUp, CreateAll, SeedAudit

\* The statements of the migration that makes the reference tables.
LEMMA ReferenceUpIs ==
    /\ Len(ReferenceUp) = 5 /\ DOMAIN ReferenceUp = 1 .. 5 /\ ReferenceUp[1] = Create("offices")
    /\ ReferenceUp[2] = Create("drivers") /\ ReferenceUp[3] = Create("vehicles")
    /\ ReferenceUp[4] = Permit(Codes(ReferenceGrants))
    /\ ReferenceUp[5] = Grant(ReferenceGrants)
BY DEF ReferenceUp, CreateAll, SeedReference

\* The statements of the migration that makes the budget allocations.
LEMMA BudgetUpIs ==
    /\ Len(BudgetUp) = 3 /\ DOMAIN BudgetUp = 1 .. 3
    /\ BudgetUp[1] = Create("budget_allocations") /\ BudgetUp[2] = Permit(Codes(BudgetGrants))
    /\ BudgetUp[3] = Grant(BudgetGrants)
BY DEF BudgetUp

\* The statements of the migration that makes the authentication settings.
LEMMA SettingsUpIs ==
    /\ Len(SettingsUp) = 4 /\ DOMAIN SettingsUp = 1 .. 4
    /\ SettingsUp[1] = Create("authentication_settings")
    /\ SettingsUp[2] = Fill("authentication_settings")
    /\ SettingsUp[3] = Permit(Codes(SettingsGrants)) /\ SettingsUp[4] = Grant(SettingsGrants)
BY DEF SettingsUp

\* The statements of the migration that makes the fuel tables.
LEMMA FuelUpIs ==
    /\ Len(FuelUp) = 3 /\ DOMAIN FuelUp = 1 .. 3 /\ FuelUp[1] = Create("fuel_sequence_monthly")
    /\ FuelUp[2] = Create("fuel_issuances") /\ FuelUp[3] = Create("fuel_ledger_entries")
BY DEF FuelUp, CreateAll

\* The statements of the migration that makes the dispatches.
LEMMA DispatchUpIs ==
    /\ Len(DispatchUp) = 1 /\ DOMAIN DispatchUp = 1 .. 1
    /\ DispatchUp[1] = Create("vehicle_dispatches")
BY DEF DispatchUp

\* The statements of the migration that makes the schedule settings.
LEMMA ScheduleUpIs ==
    /\ Len(ScheduleUp) = 5 /\ DOMAIN ScheduleUp = 1 .. 5
    /\ ScheduleUp[1] = Create("dispatch_schedule_settings")
    /\ ScheduleUp[2] = Fill("dispatch_schedule_settings")
    /\ ScheduleUp[3] = Create("vehicle_dispatch_conflict_overrides")
    /\ ScheduleUp[4] = Permit(Codes(ScheduleGrants)) /\ ScheduleUp[5] = Grant(ScheduleGrants)
BY DEF ScheduleUp

\* The statements of the migration that makes the export jobs.
LEMMA ExportUpIs ==
    /\ Len(ExportUp) = 3 /\ DOMAIN ExportUp = 1 .. 3 /\ ExportUp[1] = Create("export_jobs")
    /\ ExportUp[2] = Create("export_download_tokens")
    /\ ExportUp[3] = GrantMissing(ExportGrants)
BY DEF ExportUp, CreateAll

\* The statements that undo the migration that makes the application metadata.
LEMMA MetadataDownIs ==
    /\ Len(MetadataDown) = 1 /\ DOMAIN MetadataDown = 1 .. 1
    /\ MetadataDown[1] = Drop("application_metadata")
BY DEF MetadataDown

\* The statements that undo the migration that makes the identity tables.
LEMMA IdentityDownIs ==
    /\ Len(IdentityDown) = 11 /\ DOMAIN IdentityDown = 1 .. 11
    /\ IdentityDown[1] = Drop("auth_security_events")
    /\ IdentityDown[2] = Drop("admin_password_resets")
    /\ IdentityDown[3] = Drop("user_totp_factors")
    /\ IdentityDown[4] = Drop("login_rate_limits")
    /\ IdentityDown[5] = Drop("authentication_challenges")
    /\ IdentityDown[6] = Drop("user_sessions") /\ IdentityDown[7] = Drop("role_permissions")
    /\ IdentityDown[8] = Drop("user_roles") /\ IdentityDown[9] = Drop("permissions")
    /\ IdentityDown[10] = Drop("roles") /\ IdentityDown[11] = Drop("users")
BY DEF IdentityDown, DropAll

\* The statements that undo the migration that makes the audit tables.
LEMMA AuditDownIs ==
    /\ Len(AuditDown) = 11 /\ DOMAIN AuditDown = 1 .. 11
    /\ AuditDown[1] = Create("auth_security_events") /\ AuditDown[2] = Restore
    /\ AuditDown[3] = Revoke(AllRoles({"audit.read_sensitive"}))
    /\ AuditDown[4] = Revoke({<<"SYSTEM_ADMIN", "audit.read">>})
    /\ AuditDown[5] = Forbid({"audit.read_sensitive"})
    /\ AuditDown[6] = Drop("audit_sink_entries") /\ AuditDown[7] = Drop("audit_sink_deliveries")
    /\ AuditDown[8] = Drop("audit_verification_runs")
    /\ AuditDown[9] = Drop("audit_chain_heads") /\ AuditDown[10] = Drop("audit_chain_entries")
    /\ AuditDown[11] = Drop("audit_outbox")
BY DEF AuditDown, DropAll, RemoveAuditPermissions

\* The statements that undo the migration that makes the reference tables.
LEMMA ReferenceDownIs ==
    /\ Len(ReferenceDown) = 5 /\ DOMAIN ReferenceDown = 1 .. 5
    /\ ReferenceDown[1] = Revoke(AllRoles(Codes(ReferenceGrants)))
    /\ ReferenceDown[2] = Forbid(Codes(ReferenceGrants)) /\ ReferenceDown[3] = Drop("vehicles")
    /\ ReferenceDown[4] = Drop("drivers") /\ ReferenceDown[5] = Drop("offices")
BY DEF ReferenceDown, DropAll

\* The statements that undo the migration that makes the budget allocations.
LEMMA BudgetDownIs ==
    /\ Len(BudgetDown) = 3 /\ DOMAIN BudgetDown = 1 .. 3
    /\ BudgetDown[1] = Revoke(AllRoles(Codes(BudgetGrants)))
    /\ BudgetDown[2] = Forbid(Codes(BudgetGrants)) /\ BudgetDown[3] = Drop("budget_allocations")
BY DEF BudgetDown

\* The statements that undo the migration that makes the authentication settings.
LEMMA SettingsDownIs ==
    /\ Len(SettingsDown) = 3 /\ DOMAIN SettingsDown = 1 .. 3
    /\ SettingsDown[1] = Revoke(AllRoles(Codes(SettingsGrants)))
    /\ SettingsDown[2] = Forbid(Codes(SettingsGrants))
    /\ SettingsDown[3] = Drop("authentication_settings")
BY DEF SettingsDown

\* The statements that undo the migration that makes the fuel tables.
LEMMA FuelDownIs ==
    /\ Len(FuelDown) = 3 /\ DOMAIN FuelDown = 1 .. 3
    /\ FuelDown[1] = Drop("fuel_ledger_entries") /\ FuelDown[2] = Drop("fuel_issuances")
    /\ FuelDown[3] = Drop("fuel_sequence_monthly")
BY DEF FuelDown, DropAll

\* The statements that undo the migration that makes the dispatches.
LEMMA DispatchDownIs ==
    /\ Len(DispatchDown) = 1 /\ DOMAIN DispatchDown = 1 .. 1
    /\ DispatchDown[1] = Drop("vehicle_dispatches")
BY DEF DispatchDown

\* The statements that undo the migration that makes the schedule settings.
LEMMA ScheduleDownIs ==
    /\ Len(ScheduleDown) = 4 /\ DOMAIN ScheduleDown = 1 .. 4
    /\ ScheduleDown[1] = Revoke(AllRoles(Codes(ScheduleGrants)))
    /\ ScheduleDown[2] = Forbid(Codes(ScheduleGrants))
    /\ ScheduleDown[3] = Drop("vehicle_dispatch_conflict_overrides")
    /\ ScheduleDown[4] = Drop("dispatch_schedule_settings")
BY DEF ScheduleDown

\* The statements that undo the migration that makes the export jobs.
LEMMA ExportDownIs ==
    /\ Len(ExportDown) = 3 /\ DOMAIN ExportDown = 1 .. 3 /\ ExportDown[1] = Revoke(ExportGrants)
    /\ ExportDown[2] = Drop("export_download_tokens") /\ ExportDown[3] = Drop("export_jobs")
BY DEF ExportDown, DropAll

(***************************************************************************)
(* The groups of tables and what they reference                            *)
(***************************************************************************)
\* The groups of tables that the schema names.
Groups == {MetadataTables, UserTables, SignInTables, ResetTables, AuditTables, SinkTables,
           ReferenceTables, BudgetTables, SettingsTables, FuelTables, DispatchTables,
           ScheduleTables, ExportTables}

\* The tables of each group.
LEMMA GroupNames ==
    /\ DOMAIN MetadataTables = {"application_metadata"}
    /\ DOMAIN UserTables = {"users", "roles", "permissions", "user_roles", "role_permissions"}
    /\ DOMAIN SignInTables = {"user_sessions", "authentication_challenges", "login_rate_limits",
                              "user_totp_factors"}
    /\ DOMAIN ResetTables = {"admin_password_resets", "auth_security_events"}
    /\ DOMAIN AuditTables = {"audit_outbox", "audit_chain_entries", "audit_chain_heads",
                             "audit_sink_deliveries", "audit_verification_runs"}
    /\ DOMAIN SinkTables = {"audit_sink_entries"}
    /\ DOMAIN ReferenceTables = {"offices", "drivers", "vehicles"}
    /\ DOMAIN BudgetTables = {"budget_allocations"}
    /\ DOMAIN SettingsTables = {"authentication_settings"}
    /\ DOMAIN FuelTables = {"fuel_sequence_monthly", "fuel_issuances", "fuel_ledger_entries"}
    /\ DOMAIN DispatchTables = {"vehicle_dispatches"}
    /\ DOMAIN ScheduleTables = {"dispatch_schedule_settings",
                                "vehicle_dispatch_conflict_overrides"}
    /\ DOMAIN ExportTables = {"export_jobs", "export_download_tokens"}
BY DEF MetadataTables, UserTables, SignInTables, ResetTables, AuditTables, SinkTables,
       ReferenceTables, BudgetTables, SettingsTables, FuelTables, DispatchTables,
       ScheduleTables, ExportTables

\* A table belongs to one group only.
LEMMA OneGroup ==
    \A f, g \in Groups : \A t : t \in DOMAIN f /\ t \in DOMAIN g => f = g
BY GroupNames DEF Groups

\* A table references what its group says, and the groups hold every table.
LEMMA ReferencesOf ==
    /\ \A f \in Groups : \A t \in DOMAIN f : t \in Tables /\ References[t] = f[t]
    /\ \A t \in Tables : \E f \in Groups : t \in DOMAIN f
<1> DEFINE fs == <<MetadataTables, UserTables, SignInTables, ResetTables, AuditTables,
                   SinkTables, ReferenceTables, BudgetTables, SettingsTables, FuelTables,
                   DispatchTables, ScheduleTables, ExportTables>>
<1>1. Range(fs) = Groups
  <2>1. DOMAIN fs = 1 .. 13
    OBVIOUS
  <2>2. /\ fs[1] = MetadataTables /\ fs[2] = UserTables /\ fs[3] = SignInTables
        /\ fs[4] = ResetTables /\ fs[5] = AuditTables /\ fs[6] = SinkTables
        /\ fs[7] = ReferenceTables /\ fs[8] = BudgetTables /\ fs[9] = SettingsTables
        /\ fs[10] = FuelTables /\ fs[11] = DispatchTables /\ fs[12] = ScheduleTables
        /\ fs[13] = ExportTables
    OBVIOUS
  <2>3. \A i \in 1 .. 13 : \/ i = 1 \/ i = 2 \/ i = 3 \/ i = 4 \/ i = 5 \/ i = 6 \/ i = 7
                           \/ i = 8 \/ i = 9 \/ i = 10 \/ i = 11 \/ i = 12 \/ i = 13
    OBVIOUS
  <2> HIDE DEF fs
  <2>4. \A f \in Range(fs) : f \in Groups
    BY <2>1, <2>2, <2>3 DEF Range, Groups
  <2>5. \A f \in Groups : f \in Range(fs)
    BY <2>1, <2>2 DEF Range, Groups
  <2>6. QED BY <2>4, <2>5
<1>2. References = [t \in UNION {DOMAIN f : f \in Groups} |->
                      (CHOOSE f \in Groups : t \in DOMAIN f)[t]]
  <2>1. References = Combined(fs)
    BY DEF References
  <2> HIDE DEF fs
  <2>2. QED BY <1>1, <2>1 DEF Combined
<1>3. ASSUME NEW f \in Groups, NEW t \in DOMAIN f
      PROVE  t \in Tables /\ References[t] = f[t]
  <2>1. t \in UNION {DOMAIN g : g \in Groups}
    OBVIOUS
  <2>2. (CHOOSE g \in Groups : t \in DOMAIN g) = f
    BY OneGroup
  <2>3. QED BY <1>2, <2>1, <2>2 DEF Tables
<1>4. QED BY <1>2, <1>3 DEF Tables

(***************************************************************************)
(* The numbers of the tables                                               *)
(***************************************************************************)
\* The migration of each table, one by one.
LEMMA BornIs ==
    /\ Born["application_metadata"] = 1 /\ Born["users"] = 2 /\ Born["roles"] = 2
    /\ Born["permissions"] = 2 /\ Born["user_roles"] = 2 /\ Born["role_permissions"] = 2
    /\ Born["user_sessions"] = 2 /\ Born["authentication_challenges"] = 2
    /\ Born["login_rate_limits"] = 2 /\ Born["user_totp_factors"] = 2
    /\ Born["admin_password_resets"] = 2 /\ Born["auth_security_events"] = 2
    /\ Born["audit_outbox"] = 3 /\ Born["audit_chain_entries"] = 3
    /\ Born["audit_chain_heads"] = 3 /\ Born["audit_sink_deliveries"] = 3
    /\ Born["audit_verification_runs"] = 3 /\ Born["audit_sink_entries"] = 3
    /\ Born["offices"] = 4 /\ Born["drivers"] = 4 /\ Born["vehicles"] = 4
    /\ Born["budget_allocations"] = 5 /\ Born["authentication_settings"] = 6
    /\ Born["fuel_sequence_monthly"] = 7 /\ Born["fuel_issuances"] = 7
    /\ Born["fuel_ledger_entries"] = 7 /\ Born["vehicle_dispatches"] = 8
    /\ Born["dispatch_schedule_settings"] = 9 /\ Born["vehicle_dispatch_conflict_overrides"] = 9
    /\ Born["export_jobs"] = 10 /\ Born["export_download_tokens"] = 10
BY DEF Born

\* The creating statement of each table, one by one.
LEMMA PlaceIs ==
    /\ Place["application_metadata"] = 1 /\ Place["users"] = 1 /\ Place["roles"] = 2
    /\ Place["permissions"] = 3 /\ Place["user_roles"] = 4 /\ Place["role_permissions"] = 5
    /\ Place["user_sessions"] = 6 /\ Place["authentication_challenges"] = 7
    /\ Place["login_rate_limits"] = 8 /\ Place["user_totp_factors"] = 9
    /\ Place["admin_password_resets"] = 10 /\ Place["auth_security_events"] = 11
    /\ Place["audit_outbox"] = 1 /\ Place["audit_chain_entries"] = 2
    /\ Place["audit_chain_heads"] = 3 /\ Place["audit_sink_deliveries"] = 4
    /\ Place["audit_verification_runs"] = 5 /\ Place["audit_sink_entries"] = 6
    /\ Place["offices"] = 1 /\ Place["drivers"] = 2 /\ Place["vehicles"] = 3
    /\ Place["budget_allocations"] = 1 /\ Place["authentication_settings"] = 1
    /\ Place["fuel_sequence_monthly"] = 1 /\ Place["fuel_issuances"] = 2
    /\ Place["fuel_ledger_entries"] = 3 /\ Place["vehicle_dispatches"] = 1
    /\ Place["dispatch_schedule_settings"] = 1
    /\ Place["vehicle_dispatch_conflict_overrides"] = 3 /\ Place["export_jobs"] = 1
    /\ Place["export_download_tokens"] = 2
BY DEF Place

\* The dropping statement of each table, one by one.
LEMMA UndoIs ==
    /\ Undo["application_metadata"] = 1 /\ Undo["auth_security_events"] = 1
    /\ Undo["admin_password_resets"] = 2 /\ Undo["user_totp_factors"] = 3
    /\ Undo["login_rate_limits"] = 4 /\ Undo["authentication_challenges"] = 5
    /\ Undo["user_sessions"] = 6 /\ Undo["role_permissions"] = 7 /\ Undo["user_roles"] = 8
    /\ Undo["permissions"] = 9 /\ Undo["roles"] = 10 /\ Undo["users"] = 11
    /\ Undo["audit_sink_entries"] = 6 /\ Undo["audit_sink_deliveries"] = 7
    /\ Undo["audit_verification_runs"] = 8 /\ Undo["audit_chain_heads"] = 9
    /\ Undo["audit_chain_entries"] = 10 /\ Undo["audit_outbox"] = 11 /\ Undo["vehicles"] = 3
    /\ Undo["drivers"] = 4 /\ Undo["offices"] = 5 /\ Undo["budget_allocations"] = 3
    /\ Undo["authentication_settings"] = 3 /\ Undo["fuel_ledger_entries"] = 1
    /\ Undo["fuel_issuances"] = 2 /\ Undo["fuel_sequence_monthly"] = 3
    /\ Undo["vehicle_dispatches"] = 1 /\ Undo["vehicle_dispatch_conflict_overrides"] = 3
    /\ Undo["dispatch_schedule_settings"] = 4 /\ Undo["export_download_tokens"] = 2
    /\ Undo["export_jobs"] = 3
BY DEF Undo

\* The tables of the schema, one by one.
LEMMA TableList ==
    Tables = {"application_metadata", "users", "roles", "permissions", "user_roles",
              "role_permissions", "user_sessions", "authentication_challenges",
              "login_rate_limits", "user_totp_factors", "admin_password_resets",
              "auth_security_events", "audit_outbox", "audit_chain_entries",
              "audit_chain_heads", "audit_sink_deliveries", "audit_verification_runs",
              "audit_sink_entries", "offices", "drivers", "vehicles", "budget_allocations",
              "authentication_settings", "fuel_sequence_monthly", "fuel_issuances",
              "fuel_ledger_entries", "vehicle_dispatches", "dispatch_schedule_settings",
              "vehicle_dispatch_conflict_overrides", "export_jobs", "export_download_tokens"}
BY GroupNames, ReferencesOf DEF Groups

\* The ten migrations and their undoings, in order.
LEMMA ScriptsAre ==
    /\ Latest = 10 /\ Len(Downs) = 10 /\ Ups[1] = MetadataUp /\ Ups[2] = IdentityUp
    /\ Ups[3] = AuditUp /\ Ups[4] = ReferenceUp /\ Ups[5] = BudgetUp /\ Ups[6] = SettingsUp
    /\ Ups[7] = FuelUp /\ Ups[8] = DispatchUp /\ Ups[9] = ScheduleUp /\ Ups[10] = ExportUp
    /\ Downs[1] = MetadataDown /\ Downs[2] = IdentityDown /\ Downs[3] = AuditDown
    /\ Downs[4] = ReferenceDown /\ Downs[5] = BudgetDown /\ Downs[6] = SettingsDown
    /\ Downs[7] = FuelDown /\ Downs[8] = DispatchDown /\ Downs[9] = ScheduleDown
    /\ Downs[10] = ExportDown
BY DEF Latest, Ups, Downs

(***************************************************************************)
(* What each script seeds and where                                        *)
(***************************************************************************)
\* How many statements each migration and each undoing has.
LEMMA LengthsAre ==
    /\ Len(Ups[1]) = 1 /\ Len(Ups[2]) = 14 /\ Len(Ups[3]) = 11 /\ Len(Ups[4]) = 5
    /\ Len(Ups[5]) = 3 /\ Len(Ups[6]) = 4 /\ Len(Ups[7]) = 3 /\ Len(Ups[8]) = 1
    /\ Len(Ups[9]) = 5 /\ Len(Ups[10]) = 3 /\ Len(Downs[1]) = 1 /\ Len(Downs[2]) = 11
    /\ Len(Downs[3]) = 11 /\ Len(Downs[4]) = 5 /\ Len(Downs[5]) = 3 /\ Len(Downs[6]) = 3
    /\ Len(Downs[7]) = 3 /\ Len(Downs[8]) = 1 /\ Len(Downs[9]) = 4 /\ Len(Downs[10]) = 3
BY ScriptsAre, MetadataUpIs, IdentityUpIs, AuditUpIs, ReferenceUpIs, BudgetUpIs,
   SettingsUpIs, FuelUpIs, DispatchUpIs, ScheduleUpIs, ExportUpIs, MetadataDownIs,
   IdentityDownIs, AuditDownIs, ReferenceDownIs, BudgetDownIs, SettingsDownIs, FuelDownIs,
   DispatchDownIs, ScheduleDownIs, ExportDownIs

\* The migration and the statements named for a table exist.
LEMMA TableNumbers ==
    \A t \in Tables : /\ Born[t] \in 1 .. 10
                      /\ Place[t] \in 1 .. Len(Ups[Born[t]])
                      /\ Undo[t] \in 1 .. Len(Downs[Born[t]])
<1>1. \A t \in Tables : Born[t] \in 1 .. 10
  BY TableList, BornIs
<1>2. \A t \in Tables : Place[t] \in 1 .. 11 /\ Undo[t] \in 1 .. 11
  BY TableList, PlaceIs, UndoIs
<1>3. \A t \in Tables : \/ Born[t] \in {1, 8} /\ Place[t] = 1 /\ Undo[t] = 1
                        \/ Born[t] = 2
                        \/ Born[t] = 3 /\ Place[t] <= 6
                        \/ Born[t] = 4 /\ Place[t] <= 3 /\ Undo[t] <= 5
                        \/ Born[t] \in {5, 6} /\ Place[t] = 1 /\ Undo[t] = 3
                        \/ Born[t] = 7 /\ Place[t] <= 3 /\ Undo[t] <= 3
                        \/ Born[t] = 9 /\ Place[t] <= 3 /\ Undo[t] <= 4
                        \/ Born[t] = 10 /\ Place[t] <= 2 /\ Undo[t] <= 3
  BY TableList, BornIs, PlaceIs, UndoIs
<1>4. ASSUME NEW t \in Tables
      PROVE  Place[t] \in 1 .. Len(Ups[Born[t]]) /\ Undo[t] \in 1 .. Len(Downs[Born[t]])
  <2>1. PICK up, down : up = Len(Ups[Born[t]]) /\ down = Len(Downs[Born[t]])
    OBVIOUS
  <2>2. /\ Born[t] \in {1, 8} => up = 1 /\ down = 1
        /\ Born[t] = 2 => up = 14 /\ down = 11
        /\ Born[t] = 3 => up = 11 /\ down = 11
        /\ Born[t] = 4 => up = 5 /\ down = 5
        /\ Born[t] = 5 => up = 3 /\ down = 3
        /\ Born[t] = 6 => up = 4 /\ down = 3
        /\ Born[t] = 7 => up = 3 /\ down = 3
        /\ Born[t] = 9 => up = 5 /\ down = 4
        /\ Born[t] = 10 => up = 3 /\ down = 3
    BY <2>1, LengthsAre
  <2>3. Place[t] \in 1 .. up /\ Undo[t] \in 1 .. down
    BY <1>2, <1>3, <2>2
  <2>4. QED BY <2>1, <2>3
<1>5. QED BY <1>1, <1>4

\* The statement at the place of a table creates it.
LEMMA Created == \A t \in Tables : Ups[Born[t]][Place[t]] = Create(t)
BY TableList, BornIs, PlaceIs, ScriptsAre, MetadataUpIs, IdentityUpIs, AuditUpIs,
   ReferenceUpIs, BudgetUpIs, SettingsUpIs, FuelUpIs, DispatchUpIs, ScheduleUpIs,
   ExportUpIs

\* The statement at the end of a table drops it.
LEMMA Undone == \A t \in Tables : Downs[Born[t]][Undo[t]] = Drop(t)
BY TableList, BornIs, UndoIs, ScriptsAre, MetadataDownIs, IdentityDownIs, AuditDownIs,
   ReferenceDownIs, BudgetDownIs, SettingsDownIs, FuelDownIs, DispatchDownIs,
   ScheduleDownIs, ExportDownIs

\* A table that another may reference: it is there first and goes last.
Before(r, t) == /\ r \in Tables /\ r # "auth_security_events"
                /\ \/ Born[r] < Born[t]
                   \/ Born[r] = Born[t] /\ Place[r] < Place[t] /\ Undo[r] > Undo[t]

\* Every table comes after the tables it references and goes before them.
LEMMA ReferencesFirst == \A t \in Tables : \A r \in References[t] : Before(r, t)
<1>1. ASSUME NEW f \in Groups, NEW t \in DOMAIN f PROVE \A r \in f[t] : Before(r, t)
  <2> USE TableList, BornIs, PlaceIs, UndoIs, GroupNames DEF Before
  <2>1. CASE f \in {MetadataTables, UserTables}
    BY <2>1 DEF MetadataTables, UserTables
  <2>2. CASE f \in {SignInTables, ResetTables}
    BY <2>2 DEF SignInTables, ResetTables
  <2>3. CASE f \in {AuditTables, SinkTables}
    BY <2>3 DEF AuditTables, SinkTables
  <2>4. CASE f \in {ReferenceTables, BudgetTables, SettingsTables}
    BY <2>4 DEF ReferenceTables, BudgetTables, SettingsTables
  <2>5. CASE f \in {FuelTables, DispatchTables}
    BY <2>5 DEF FuelTables, DispatchTables
  <2>6. CASE f \in {ScheduleTables, ExportTables}
    BY <2>6 DEF ScheduleTables, ExportTables
  <2>7. QED BY <2>1, <2>2, <2>3, <2>4, <2>5, <2>6 DEF Groups
<1>2. QED BY <1>1, ReferencesOf

\* A statement of the m-th migration, up.
Makes(m, i, s) ==
    /\ s.do \in {"create", "drop", "fill", "permit", "grant", "grantMissing", "backfill"}
    /\ s.do = "create" => s.table \in Tables /\ Born[s.table] = m /\ Place[s.table] = i
    /\ s.do = "drop" => m = 3 /\ i = 11 /\ s.table = "auth_security_events"
    /\ s.do = "backfill" => m = 3 /\ i = 10
    /\ s.do = "fill" => /\ NewFilled(m) = {s.table} /\ s.table \in Tables
                        /\ s.table # "auth_security_events"
                        /\ Born[s.table] = m /\ Place[s.table] < i
                        /\ ~Did(Ups[m], i, {"fill"})
    /\ s.do = "permit" => /\ s.table = "permissions" /\ s.data = NewCodes(m)
                          /\ m >= 2 /\ (m = 2 => i > 11)
                          /\ ~Did(Ups[m], i, {"permit"}) /\ ~Did(Ups[m], i, Granting)
    /\ s.do \in Granting => /\ s.table = "role_permissions" /\ s.data = NewGrants(m)
                            /\ m >= 2 /\ (m = 2 => i > 12 /\ Did(Ups[m], i, {"fill"}))
                            /\ NewCodes(m) # {} => Did(Ups[m], i, {"permit"})
                            /\ ~Did(Ups[m], i, Granting)
                            /\ s.do = "grant" <=> m # 10

\* What every statement of the m-th migration is, and what the whole of it seeds.
Makings(m) ==
    /\ DOMAIN Ups[m] = 1 .. Len(Ups[m]) /\ Len(Ups[m]) \in Nat
    /\ \A i \in 1 .. Len(Ups[m]) : Makes(m, i, Ups[m][i])
    /\ NewCodes(m) # {} => Did(Ups[m], Len(Ups[m]) + 1, {"permit"})
    /\ NewGrants(m) # {} => Did(Ups[m], Len(Ups[m]) + 1, Granting)
    /\ NewFilled(m) # {} => Did(Ups[m], Len(Ups[m]) + 1, {"fill"})

\* The permissions that each migration seeds, one by one.
LEMMA NewCodesAre ==
    /\ NewCodes(1) = {} /\ NewCodes(2) = FirstPermissions
    /\ NewCodes(3) = {"audit.read_sensitive"} /\ NewCodes(4) = Codes(ReferenceGrants)
    /\ NewCodes(5) = Codes(BudgetGrants) /\ NewCodes(6) = Codes(SettingsGrants)
    /\ NewCodes(7) = {} /\ NewCodes(8) = {} /\ NewCodes(9) = Codes(ScheduleGrants)
    /\ NewCodes(10) = {} /\ NewCodes(11) = {}
BY DEF NewCodes

\* The grants that each migration seeds, one by one.
LEMMA NewGrantsAre ==
    /\ NewGrants(1) = {} /\ NewGrants(2) = FirstGrants /\ NewGrants(3) = AuditGrants
    /\ NewGrants(4) = ReferenceGrants /\ NewGrants(5) = BudgetGrants
    /\ NewGrants(6) = SettingsGrants /\ NewGrants(7) = {} /\ NewGrants(8) = {}
    /\ NewGrants(9) = ScheduleGrants /\ NewGrants(10) = ExportGrants /\ NewGrants(11) = {}
BY DEF NewGrants

\* The tables whose rows each migration seeds, one by one.
LEMMA NewFilledAre ==
    /\ NewFilled(1) = {} /\ NewFilled(2) = {"roles"} /\ NewFilled(3) = {"audit_chain_heads"}
    /\ NewFilled(4) = {} /\ NewFilled(5) = {} /\ NewFilled(6) = {"authentication_settings"}
    /\ NewFilled(7) = {} /\ NewFilled(8) = {}
    /\ NewFilled(9) = {"dispatch_schedule_settings"} /\ NewFilled(10) = {}
    /\ NewFilled(11) = {}
BY DEF NewFilled

\* Every statement that makes the identity tables is of a known kind and at its place.
LEMMA MakingsOfIdentity == Makings(2)
<1>1. ASSUME NEW i \in 1 .. 14 PROVE Makes(2, i, Ups[2][i])
  BY ScriptsAre, IdentityUpIs, TableList, BornIs, PlaceIs, NewCodesAre, NewGrantsAre, NewFilledAre
     DEF Makes, Did, Granting, Create, Fill, Permit, Grant
<1>2. QED
  BY <1>1, ScriptsAre, IdentityUpIs DEF Makings, Did, Granting, Create, Fill, Permit, Grant

\* Every statement that makes the audit tables is of a known kind and at its place.
LEMMA MakingsOfAudit == Makings(3)
<1>a. ASSUME NEW i \in 1 .. 6 PROVE Makes(3, i, Ups[3][i])
  BY ScriptsAre, AuditUpIs, TableList, BornIs, PlaceIs DEF Makes, Granting, Create
<1>b. Makes(3, 7, Ups[3][7])
  BY ScriptsAre, AuditUpIs, TableList, BornIs, PlaceIs, NewFilledAre
     DEF Makes, Did, Granting, Create, Fill
<1>c. Makes(3, 8, Ups[3][8])
  BY ScriptsAre, AuditUpIs, NewCodesAre DEF Makes, Did, Granting, Create, Fill, Permit
<1>d. Makes(3, 9, Ups[3][9])
  BY ScriptsAre, AuditUpIs, NewGrantsAre DEF Makes, Did, Granting, Create, Fill, Permit, Grant
<1>e. Makes(3, 10, Ups[3][10]) /\ Makes(3, 11, Ups[3][11])
  BY ScriptsAre, AuditUpIs DEF Makes, Granting, Backfill, Drop
<1>1. ASSUME NEW i \in 1 .. 11 PROVE Makes(3, i, Ups[3][i])
  BY <1>a, <1>b, <1>c, <1>d, <1>e
<1>2. QED
  BY <1>1, ScriptsAre, AuditUpIs DEF Makings, Did, Granting, Create, Fill, Permit, Grant

\* Every statement that makes the application metadata is of a known kind and at its place.
LEMMA MakingsOfMetadata == Makings(1)
<1>1. ASSUME NEW i \in 1 .. 1 PROVE Makes(1, i, Ups[1][i])
  BY ScriptsAre, MetadataUpIs, TableList, BornIs, PlaceIs, NewCodesAre, NewGrantsAre,
     NewFilledAre DEF Makes, Did, Granting, Create, Fill, Permit, Grant, GrantMissing
<1>2. QED
  BY <1>1, ScriptsAre, MetadataUpIs, NewCodesAre, NewGrantsAre, NewFilledAre
     DEF Makings, Did, Granting, Create, Fill, Permit, Grant, GrantMissing

\* Every statement that makes the reference tables is of a known kind and at its place.
LEMMA MakingsOfReference == Makings(4)
<1>1. ASSUME NEW i \in 1 .. 5 PROVE Makes(4, i, Ups[4][i])
  BY ScriptsAre, ReferenceUpIs, TableList, BornIs, PlaceIs, NewCodesAre, NewGrantsAre,
     NewFilledAre DEF Makes, Did, Granting, Create, Fill, Permit, Grant, GrantMissing
<1>2. QED
  BY <1>1, ScriptsAre, ReferenceUpIs, NewCodesAre, NewGrantsAre, NewFilledAre
     DEF Makings, Did, Granting, Create, Fill, Permit, Grant, GrantMissing

\* Every statement that makes the budget allocations is of a known kind and at its place.
LEMMA MakingsOfBudget == Makings(5)
<1>1. ASSUME NEW i \in 1 .. 3 PROVE Makes(5, i, Ups[5][i])
  BY ScriptsAre, BudgetUpIs, TableList, BornIs, PlaceIs, NewCodesAre, NewGrantsAre,
     NewFilledAre DEF Makes, Did, Granting, Create, Fill, Permit, Grant, GrantMissing
<1>2. QED
  BY <1>1, ScriptsAre, BudgetUpIs, NewCodesAre, NewGrantsAre, NewFilledAre
     DEF Makings, Did, Granting, Create, Fill, Permit, Grant, GrantMissing

\* Every statement that makes the authentication settings is of a known kind and at its place.
LEMMA MakingsOfSettings == Makings(6)
<1>1. ASSUME NEW i \in 1 .. 4 PROVE Makes(6, i, Ups[6][i])
  BY ScriptsAre, SettingsUpIs, TableList, BornIs, PlaceIs, NewCodesAre, NewGrantsAre,
     NewFilledAre DEF Makes, Did, Granting, Create, Fill, Permit, Grant, GrantMissing
<1>2. QED
  BY <1>1, ScriptsAre, SettingsUpIs, NewCodesAre, NewGrantsAre, NewFilledAre
     DEF Makings, Did, Granting, Create, Fill, Permit, Grant, GrantMissing

\* Every statement that makes the fuel tables is of a known kind and at its place.
LEMMA MakingsOfFuel == Makings(7)
<1>1. ASSUME NEW i \in 1 .. 3 PROVE Makes(7, i, Ups[7][i])
  BY ScriptsAre, FuelUpIs, TableList, BornIs, PlaceIs, NewCodesAre, NewGrantsAre,
     NewFilledAre DEF Makes, Did, Granting, Create, Fill, Permit, Grant, GrantMissing
<1>2. QED
  BY <1>1, ScriptsAre, FuelUpIs, NewCodesAre, NewGrantsAre, NewFilledAre
     DEF Makings, Did, Granting, Create, Fill, Permit, Grant, GrantMissing

\* Every statement that makes the dispatches is of a known kind and at its place.
LEMMA MakingsOfDispatch == Makings(8)
<1>1. ASSUME NEW i \in 1 .. 1 PROVE Makes(8, i, Ups[8][i])
  BY ScriptsAre, DispatchUpIs, TableList, BornIs, PlaceIs, NewCodesAre, NewGrantsAre,
     NewFilledAre DEF Makes, Did, Granting, Create, Fill, Permit, Grant, GrantMissing
<1>2. QED
  BY <1>1, ScriptsAre, DispatchUpIs, NewCodesAre, NewGrantsAre, NewFilledAre
     DEF Makings, Did, Granting, Create, Fill, Permit, Grant, GrantMissing

\* Every statement that makes the schedule settings is of a known kind and at its place.
LEMMA MakingsOfSchedule == Makings(9)
<1>1. ASSUME NEW i \in 1 .. 5 PROVE Makes(9, i, Ups[9][i])
  BY ScriptsAre, ScheduleUpIs, TableList, BornIs, PlaceIs, NewCodesAre, NewGrantsAre,
     NewFilledAre DEF Makes, Did, Granting, Create, Fill, Permit, Grant, GrantMissing
<1>2. QED
  BY <1>1, ScriptsAre, ScheduleUpIs, NewCodesAre, NewGrantsAre, NewFilledAre
     DEF Makings, Did, Granting, Create, Fill, Permit, Grant, GrantMissing

\* Every statement that makes the export jobs is of a known kind and at its place.
LEMMA MakingsOfExport == Makings(10)
<1>1. ASSUME NEW i \in 1 .. 3 PROVE Makes(10, i, Ups[10][i])
  BY ScriptsAre, ExportUpIs, TableList, BornIs, PlaceIs, NewCodesAre, NewGrantsAre,
     NewFilledAre DEF Makes, Did, Granting, Create, Fill, Permit, Grant, GrantMissing
<1>2. QED
  BY <1>1, ScriptsAre, ExportUpIs, NewCodesAre, NewGrantsAre, NewFilledAre
     DEF Makings, Did, Granting, Create, Fill, Permit, Grant, GrantMissing

\* The statements of every migration.
LEMMA AllMakings == \A m \in 1 .. 10 : Makings(m)
<1>1. \A m \in 1 .. 10 : \/ m = 1 \/ m = 2 \/ m = 3 \/ m = 4 \/ m = 5 \/ m = 6 \/ m = 7
                         \/ m = 8 \/ m = 9 \/ m = 10
  OBVIOUS
<1>2. QED
  BY <1>1, MakingsOfMetadata, MakingsOfIdentity, MakingsOfAudit, MakingsOfReference,
     MakingsOfBudget, MakingsOfSettings, MakingsOfFuel, MakingsOfDispatch, MakingsOfSchedule,
     MakingsOfExport

\* A statement of the m-th migration, down.
Unmakes(m, i, s) ==
    /\ s.do \in {"create", "drop", "revoke", "forbid", "restore"}
    /\ s.do = "create" => m = 3 /\ i = 1 /\ s.table = "auth_security_events"
    /\ s.do = "restore" => m = 3 /\ i = 2
    /\ s.do = "drop" => s.table \in Tables /\ Born[s.table] = m /\ Undo[s.table] = i
    /\ s.do = "revoke" => s.table = "role_permissions" /\ m >= 3
    /\ s.do = "forbid" => /\ s.table = "permissions" /\ m >= 3 /\ s.data = NewCodes(m)
                          /\ AllRoles(s.data) \subseteq Withdrawn(m, i)

\* What every statement that undoes the m-th migration is, and what the whole takes away.
Unmakings(m) ==
    /\ DOMAIN Downs[m] = 1 .. Len(Downs[m]) /\ Len(Downs[m]) \in Nat
    /\ \A i \in 1 .. Len(Downs[m]) : Unmakes(m, i, Downs[m][i])
    /\ m # 2 /\ NewCodes(m) # {} => Did(Downs[m], Len(Downs[m]) + 1, {"forbid"})

\* What a statement that was executed took away stays away.
LEMMA WithdrawnBy ==
    ASSUME NEW m, NEW k \in Nat, NEW j \in 1 .. k - 1, Downs[m][j].do = "revoke"
    PROVE  Downs[m][j].data \subseteq Withdrawn(m, k)
BY DEF Withdrawn, Revoked

\* Every statement that undoes the application metadata is of a known kind and at its place.
LEMMA UnmakingsOfMetadata == Unmakings(1)
<1>1. ASSUME NEW i \in 1 .. 1 PROVE Unmakes(1, i, Downs[1][i])
  BY ScriptsAre, MetadataDownIs, TableList, BornIs, UndoIs DEF Unmakes, Drop, Revoke
<1>2. QED BY <1>1, ScriptsAre, MetadataDownIs, NewCodesAre DEF Unmakings

\* Every statement that undoes the identity tables is of a known kind and at its place.
LEMMA UnmakingsOfIdentity == Unmakings(2)
<1>1. ASSUME NEW i \in 1 .. 11 PROVE Unmakes(2, i, Downs[2][i])
  BY ScriptsAre, IdentityDownIs, TableList, BornIs, UndoIs DEF Unmakes, Drop, Revoke
<1>2. QED BY <1>1, ScriptsAre, IdentityDownIs, NewCodesAre DEF Unmakings

\* Every statement that undoes the reference tables is of a known kind and at its place.
LEMMA UnmakingsOfReference == Unmakings(4)
<1>1. /\ Unmakes(4, 1, Downs[4][1]) /\ Downs[4][1].do = "revoke"
      /\ Downs[4][1].data = AllRoles(NewCodes(4))
  BY ScriptsAre, ReferenceDownIs, NewCodesAre DEF Unmakes, Revoke
<1>2. Unmakes(4, 2, Downs[4][2])
  <2>1. Downs[4][2] = Forbid(NewCodes(4))
    BY ScriptsAre, ReferenceDownIs, NewCodesAre
  <2>2. AllRoles(NewCodes(4)) \subseteq Withdrawn(4, 2)
    BY <1>1, WithdrawnBy
  <2>3. QED BY <2>1, <2>2 DEF Unmakes, Forbid
<1>3. ASSUME NEW i \in 3 .. 5 PROVE Unmakes(4, i, Downs[4][i])
  BY ScriptsAre, ReferenceDownIs, TableList, BornIs, UndoIs DEF Unmakes, Drop
<1>4. ASSUME NEW i \in 1 .. 5 PROVE Unmakes(4, i, Downs[4][i])
  BY <1>1, <1>2, <1>3
<1>5. QED BY <1>4, ScriptsAre, ReferenceDownIs DEF Unmakings, Did, Forbid

\* Every statement that undoes the budget allocations is of a known kind and at its place.
LEMMA UnmakingsOfBudget == Unmakings(5)
<1>1. /\ Unmakes(5, 1, Downs[5][1]) /\ Downs[5][1].do = "revoke"
      /\ Downs[5][1].data = AllRoles(NewCodes(5))
  BY ScriptsAre, BudgetDownIs, NewCodesAre DEF Unmakes, Revoke
<1>2. Unmakes(5, 2, Downs[5][2])
  <2>1. Downs[5][2] = Forbid(NewCodes(5))
    BY ScriptsAre, BudgetDownIs, NewCodesAre
  <2>2. AllRoles(NewCodes(5)) \subseteq Withdrawn(5, 2)
    BY <1>1, WithdrawnBy
  <2>3. QED BY <2>1, <2>2 DEF Unmakes, Forbid
<1>3. ASSUME NEW i \in 3 .. 3 PROVE Unmakes(5, i, Downs[5][i])
  BY ScriptsAre, BudgetDownIs, TableList, BornIs, UndoIs DEF Unmakes, Drop
<1>4. ASSUME NEW i \in 1 .. 3 PROVE Unmakes(5, i, Downs[5][i])
  BY <1>1, <1>2, <1>3
<1>5. QED BY <1>4, ScriptsAre, BudgetDownIs DEF Unmakings, Did, Forbid

\* Every statement that undoes the authentication settings is of a known kind and at its place.
LEMMA UnmakingsOfSettings == Unmakings(6)
<1>1. /\ Unmakes(6, 1, Downs[6][1]) /\ Downs[6][1].do = "revoke"
      /\ Downs[6][1].data = AllRoles(NewCodes(6))
  BY ScriptsAre, SettingsDownIs, NewCodesAre DEF Unmakes, Revoke
<1>2. Unmakes(6, 2, Downs[6][2])
  <2>1. Downs[6][2] = Forbid(NewCodes(6))
    BY ScriptsAre, SettingsDownIs, NewCodesAre
  <2>2. AllRoles(NewCodes(6)) \subseteq Withdrawn(6, 2)
    BY <1>1, WithdrawnBy
  <2>3. QED BY <2>1, <2>2 DEF Unmakes, Forbid
<1>3. ASSUME NEW i \in 3 .. 3 PROVE Unmakes(6, i, Downs[6][i])
  BY ScriptsAre, SettingsDownIs, TableList, BornIs, UndoIs DEF Unmakes, Drop
<1>4. ASSUME NEW i \in 1 .. 3 PROVE Unmakes(6, i, Downs[6][i])
  BY <1>1, <1>2, <1>3
<1>5. QED BY <1>4, ScriptsAre, SettingsDownIs DEF Unmakings, Did, Forbid

\* Every statement that undoes the fuel tables is of a known kind and at its place.
LEMMA UnmakingsOfFuel == Unmakings(7)
<1>1. ASSUME NEW i \in 1 .. 3 PROVE Unmakes(7, i, Downs[7][i])
  BY ScriptsAre, FuelDownIs, TableList, BornIs, UndoIs DEF Unmakes, Drop, Revoke
<1>2. QED BY <1>1, ScriptsAre, FuelDownIs, NewCodesAre DEF Unmakings

\* Every statement that undoes the dispatches is of a known kind and at its place.
LEMMA UnmakingsOfDispatch == Unmakings(8)
<1>1. ASSUME NEW i \in 1 .. 1 PROVE Unmakes(8, i, Downs[8][i])
  BY ScriptsAre, DispatchDownIs, TableList, BornIs, UndoIs DEF Unmakes, Drop, Revoke
<1>2. QED BY <1>1, ScriptsAre, DispatchDownIs, NewCodesAre DEF Unmakings

\* Every statement that undoes the schedule settings is of a known kind and at its place.
LEMMA UnmakingsOfSchedule == Unmakings(9)
<1>1. /\ Unmakes(9, 1, Downs[9][1]) /\ Downs[9][1].do = "revoke"
      /\ Downs[9][1].data = AllRoles(NewCodes(9))
  BY ScriptsAre, ScheduleDownIs, NewCodesAre DEF Unmakes, Revoke
<1>2. Unmakes(9, 2, Downs[9][2])
  <2>1. Downs[9][2] = Forbid(NewCodes(9))
    BY ScriptsAre, ScheduleDownIs, NewCodesAre
  <2>2. AllRoles(NewCodes(9)) \subseteq Withdrawn(9, 2)
    BY <1>1, WithdrawnBy
  <2>3. QED BY <2>1, <2>2 DEF Unmakes, Forbid
<1>3. ASSUME NEW i \in 3 .. 4 PROVE Unmakes(9, i, Downs[9][i])
  BY ScriptsAre, ScheduleDownIs, TableList, BornIs, UndoIs DEF Unmakes, Drop
<1>4. ASSUME NEW i \in 1 .. 4 PROVE Unmakes(9, i, Downs[9][i])
  BY <1>1, <1>2, <1>3
<1>5. QED BY <1>4, ScriptsAre, ScheduleDownIs DEF Unmakings, Did, Forbid

\* Every statement that undoes the export jobs is of a known kind and at its place.
LEMMA UnmakingsOfExport == Unmakings(10)
<1>1. ASSUME NEW i \in 1 .. 3 PROVE Unmakes(10, i, Downs[10][i])
  BY ScriptsAre, ExportDownIs, TableList, BornIs, UndoIs DEF Unmakes, Drop, Revoke
<1>2. QED BY <1>1, ScriptsAre, ExportDownIs, NewCodesAre DEF Unmakings

\* Every statement that undoes the audit tables is of a known kind and at its place.
LEMMA UnmakingsOfAudit == Unmakings(3)
<1>1. Unmakes(3, 1, Downs[3][1]) /\ Unmakes(3, 2, Downs[3][2])
  BY ScriptsAre, AuditDownIs DEF Unmakes, Create, Restore
<1>2. /\ Unmakes(3, 3, Downs[3][3]) /\ Unmakes(3, 4, Downs[3][4])
      /\ Downs[3][3].do = "revoke" /\ Downs[3][3].data = AllRoles(NewCodes(3))
  BY ScriptsAre, AuditDownIs, NewCodesAre DEF Unmakes, Revoke
<1>3. Unmakes(3, 5, Downs[3][5])
  <2>1. Downs[3][5] = Forbid(NewCodes(3))
    BY ScriptsAre, AuditDownIs, NewCodesAre
  <2>2. AllRoles(NewCodes(3)) \subseteq Withdrawn(3, 5)
    BY <1>2, WithdrawnBy
  <2>3. QED BY <2>1, <2>2 DEF Unmakes, Forbid
<1>4. ASSUME NEW i \in 6 .. 11 PROVE Unmakes(3, i, Downs[3][i])
  BY ScriptsAre, AuditDownIs, TableList, BornIs, UndoIs DEF Unmakes, Drop
<1>5. ASSUME NEW i \in 1 .. 11 PROVE Unmakes(3, i, Downs[3][i])
  BY <1>1, <1>2, <1>3, <1>4
<1>6. QED BY <1>5, ScriptsAre, AuditDownIs DEF Unmakings, Did, Forbid

\* The statements of every undoing.
LEMMA AllUnmakings == \A m \in 1 .. 10 : Unmakings(m)
<1>1. \A m \in 1 .. 10 : \/ m = 1 \/ m = 2 \/ m = 3 \/ m = 4 \/ m = 5 \/ m = 6 \/ m = 7
                         \/ m = 8 \/ m = 9 \/ m = 10
  OBVIOUS
<1>2. QED
  BY <1>1, UnmakingsOfMetadata, UnmakingsOfIdentity, UnmakingsOfAudit, UnmakingsOfReference,
     UnmakingsOfBudget, UnmakingsOfSettings, UnmakingsOfFuel, UnmakingsOfDispatch,
     UnmakingsOfSchedule, UnmakingsOfExport

(***************************************************************************)
(* What n migrations have seeded                                           *)
(***************************************************************************)
\* The codes of each migration's grants.
LEMMA CodesAre ==
    /\ Codes(ReferenceGrants) = {"office.read", "driver.read", "vehicle.read"}
    /\ Codes(BudgetGrants) = {"budget.read"}
    /\ Codes(SettingsGrants) = {"auth.settings.manage"}
    /\ Codes(ScheduleGrants) = {"dispatch.conflict.override", "dispatch.settings.manage"}
    /\ Codes(ExportGrants) = {"report.export"}
    /\ Codes(AuditGrants) = {"audit.read", "audit.read_sensitive"}
    /\ Codes(FirstGrants) \subseteq FirstPermissions
<1>1. Codes(ReferenceGrants) = {"office.read", "driver.read", "vehicle.read"}
  <2>1. /\ <<"VIEWER", "office.read">> \in ReferenceGrants
        /\ <<"VIEWER", "driver.read">> \in ReferenceGrants
        /\ <<"VIEWER", "vehicle.read">> \in ReferenceGrants
    BY DEF ReferenceGrants
  <2>2. \A g \in ReferenceGrants : g[2] \in {"office.read", "driver.read", "vehicle.read"}
    BY DEF ReferenceGrants
  <2>3. QED BY <2>1, <2>2 DEF Codes
<1>2. Codes(BudgetGrants) = {"budget.read"}
  <2>1. <<"VIEWER", "budget.read">> \in BudgetGrants
    BY DEF BudgetGrants
  <2>2. \A g \in BudgetGrants : g[2] = "budget.read"
    BY DEF BudgetGrants
  <2>3. QED BY <2>1, <2>2 DEF Codes
<1>3. Codes(SettingsGrants) = {"auth.settings.manage"}
  <2>1. <<"SUPER_ADMIN", "auth.settings.manage">> \in SettingsGrants
    BY DEF SettingsGrants, Administrators
  <2>2. \A g \in SettingsGrants : g[2] = "auth.settings.manage"
    BY DEF SettingsGrants
  <2>3. QED BY <2>1, <2>2 DEF Codes
<1>4. Codes(ScheduleGrants) = {"dispatch.conflict.override", "dispatch.settings.manage"}
  <2>1. /\ <<"SUPER_ADMIN", "dispatch.conflict.override">> \in ScheduleGrants
        /\ <<"SUPER_ADMIN", "dispatch.settings.manage">> \in ScheduleGrants
    BY DEF ScheduleGrants, Administrators
  <2>2. \A g \in ScheduleGrants : g[2] \in {"dispatch.conflict.override",
                                            "dispatch.settings.manage"}
    BY DEF ScheduleGrants
  <2>3. QED BY <2>1, <2>2 DEF Codes
<1>5. /\ Codes(ExportGrants) = {"report.export"}
      /\ Codes(AuditGrants) = {"audit.read", "audit.read_sensitive"}
  BY DEF Codes, ExportGrants, AuditGrants
<1>6. Codes(FirstGrants) \subseteq FirstPermissions
  <2>1. \A g \in FirstGrants : g[2] \in FirstPermissions
    BY DEF FirstGrants, FirstPermissions
  <2>2. QED BY <2>1 DEF Codes
<1>7. QED BY <1>1, <1>2, <1>3, <1>4, <1>5, <1>6

\* No permission is seeded by two migrations.
LEMMA NewCodesApart ==
    \A m \in 1 .. 11 : \A n \in 1 .. 11 : m # n => NewCodes(m) \cap NewCodes(n) = {}
<1>1. \A c \in FirstPermissions :
         c \notin {"audit.read_sensitive", "office.read", "driver.read", "vehicle.read",
                   "budget.read", "auth.settings.manage", "dispatch.conflict.override",
                   "dispatch.settings.manage"}
  BY DEF FirstPermissions
<1>2. ASSUME NEW m \in 1 .. 11, NEW n \in 1 .. 11, m < n
      PROVE  NewCodes(m) \cap NewCodes(n) = {}
  <2>1. CASE m = 2
    BY <1>1, <1>2, <2>1, CodesAre, NewCodesAre
  <2>2. CASE m \in {1, 7, 8, 10, 11}
    BY <2>2, NewCodesAre
  <2>3. CASE m \in {3, 4, 5, 6, 9}
    BY <1>2, <2>3, CodesAre, NewCodesAre
  <2>4. QED BY <2>1, <2>2, <2>3
<1>3. QED BY <1>2

\* What the first migrations leave, by what each of them seeds.
LEMMA SeedsAt ==
    ASSUME NEW n \in 0 .. 10
    PROVE  /\ \A c : c \in PermissionsAt(n) <=> \E m \in 1 .. n : c \in NewCodes(m)
           /\ \A g : g \in GrantsAt(n) <=> \E m \in 1 .. n : g \in NewGrants(m)
           /\ \A t : t \in FilledAt(n) <=> \E m \in 1 .. n : t \in NewFilled(m)
<1>1. ASSUME NEW m \in 1 .. n
      PROVE  /\ Makings(m) /\ DOMAIN Ups[m] = 1 .. Len(Ups[m]) /\ Len(Ups[m]) \in Nat
             /\ \A s \in Range(Ups[m]) : \E i \in 1 .. Len(Ups[m]) : s = Ups[m][i] /\ Makes(m, i, s)
             /\ \A i \in 1 .. Len(Ups[m]) : Ups[m][i] \in Range(Ups[m]) /\ Makes(m, i, Ups[m][i])
  <2>1. m \in 1 .. 10
    OBVIOUS
  <2>2. Makings(m)
    BY <2>1, AllMakings
  <2>3. DOMAIN Ups[m] = 1 .. Len(Ups[m]) /\ Len(Ups[m]) \in Nat
    BY <2>2 DEF Makings
  <2>4. \A i \in 1 .. Len(Ups[m]) : Makes(m, i, Ups[m][i])
    BY <2>2 DEF Makings
  <2>5. QED BY <2>2, <2>3, <2>4 DEF Range
<1>2. ASSUME NEW m \in 1 .. n
      PROVE  UNION {s.data : s \in {t \in Range(Ups[m]) : t.do = "permit"}} = NewCodes(m)
  <2>1. \A s \in Range(Ups[m]) : s.do = "permit" => s.data = NewCodes(m)
    BY <1>1 DEF Makes
  <2>2. NewCodes(m) # {} => \E s \in Range(Ups[m]) : s.do = "permit"
    BY <1>1 DEF Makings, Did
  <2>3. QED BY <2>1, <2>2
<1>3. ASSUME NEW m \in 1 .. n
      PROVE  UNION {s.data : s \in {t \in Range(Ups[m]) : t.do \in {"grant", "grantMissing"}}}
               = NewGrants(m)
  <2>1. \A s \in Range(Ups[m]) : s.do \in {"grant", "grantMissing"} => s.data = NewGrants(m)
    BY <1>1 DEF Makes, Granting
  <2>2. NewGrants(m) # {} => \E s \in Range(Ups[m]) : s.do \in {"grant", "grantMissing"}
    BY <1>1 DEF Makings, Did, Granting
  <2>3. QED BY <2>1, <2>2
<1>4. ASSUME NEW m \in 1 .. n
      PROVE  {s.table : s \in {t \in Range(Ups[m]) : t.do = "fill"}} = NewFilled(m)
  <2>1. \A s \in Range(Ups[m]) : s.do = "fill" => NewFilled(m) = {s.table}
    BY <1>1 DEF Makes
  <2>2. NewFilled(m) # {} => \E s \in Range(Ups[m]) : s.do = "fill"
    BY <1>1 DEF Makings, Did
  <2>3. QED BY <2>1, <2>2
<1>5. \A c : c \in PermissionsAt(n) <=> \E m \in 1 .. n : c \in NewCodes(m)
  BY <1>2 DEF PermissionsAt
<1>6. \A g : g \in GrantsAt(n) <=> \E m \in 1 .. n : g \in NewGrants(m)
  BY <1>3 DEF GrantsAt
<1>7. \A t : t \in FilledAt(n) <=> \E m \in 1 .. n : t \in NewFilled(m)
  BY <1>4 DEF FilledAt
<1>8. QED BY <1>5, <1>6, <1>7

\* The tables of n migrations are those that rise with them.
LEMMA TablesRisen ==
    ASSUME NEW n \in 0 .. 10
    PROVE  TablesAt(n) = RisenTables(n, 1)
<1>1. ASSUME NEW m \in 1 .. n
      PROVE  CreatedBy(m) = {t \in Tables : Born[t] = m}
  <2>1. Makings(m) /\ DOMAIN Ups[m] = 1 .. Len(Ups[m])
    <3>1. m \in 1 .. 10
      OBVIOUS
    <3>2. QED BY <3>1, AllMakings DEF Makings
  <2>2. \A s \in Range(Ups[m]) : s.do = "create" => s.table \in Tables /\ Born[s.table] = m
    BY <2>1 DEF Makings, Makes, Range
  <2>3. \A t \in Tables : Born[t] = m => Create(t) \in Range(Ups[m])
    BY <2>1, Created, TableNumbers DEF Range
  <2>4. \A t : Create(t).do = "create" /\ Create(t).table = t
    BY DEF Create
  <2>5. QED BY <2>2, <2>3, <2>4 DEF CreatedBy
<1>3. \A t : t \in TablesAt(n) <=> /\ \E m \in 1 .. n : t \in CreatedBy(m)
                                   /\ ~(n >= 3 /\ t = "auth_security_events")
  BY DEF TablesAt
<1>4. \A t : (\E m \in 1 .. n : t \in CreatedBy(m)) <=> t \in Tables /\ Born[t] <= n
  BY <1>1, TableNumbers
<1>5. Born["auth_security_events"] = 2 /\ Place["auth_security_events"] = 11
  BY BornIs, PlaceIs
<1>6. \A t \in Tables : Born[t] \in 1 .. 10 /\ Place[t] \in Nat /\ Place[t] >= 1
  BY TableNumbers
<1>7. \A t : t \in RisenTables(n, 1) <=> /\ t \in Tables /\ Born[t] <= n
                                         /\ ~(n >= 3 /\ t = "auth_security_events")
  BY <1>5, <1>6 DEF RisenTables
<1>8. QED BY <1>3, <1>4, <1>7

(***************************************************************************)
(* What an undoing takes away                                              *)
(***************************************************************************)

\* One more migration adds its own permissions, grants and rows; its permissions are new.
LEMMA LastCodes ==
    ASSUME NEW n \in 0 .. 9
    PROVE  /\ PermissionsAt(n + 1) = PermissionsAt(n) \cup NewCodes(n + 1)
           /\ GrantsAt(n + 1) = GrantsAt(n) \cup NewGrants(n + 1)
           /\ FilledAt(n + 1) = FilledAt(n) \cup NewFilled(n + 1)
           /\ PermissionsAt(n) \cap NewCodes(n + 1) = {}
<1>1. n \in 0 .. 10 /\ n + 1 \in 0 .. 10 /\ \A m : m \in 1 .. n + 1 <=> m \in 1 .. n \/ m = n + 1
  OBVIOUS
<1>2. PermissionsAt(n + 1) = PermissionsAt(n) \cup NewCodes(n + 1)
  BY <1>1, SeedsAt
<1>3. GrantsAt(n + 1) = GrantsAt(n) \cup NewGrants(n + 1)
  BY <1>1, SeedsAt
<1>4. FilledAt(n + 1) = FilledAt(n) \cup NewFilled(n + 1)
  BY <1>1, SeedsAt
<1>5. ASSUME NEW c, c \in PermissionsAt(n), c \in NewCodes(n + 1) PROVE FALSE
  <2>1. PICK m \in 1 .. n : c \in NewCodes(m)
    BY <1>1, <1>5, SeedsAt
  <2>2. m \in 1 .. 11 /\ n + 1 \in 1 .. 11 /\ m # n + 1
    BY <2>1
  <2>3. QED BY <1>5, <2>1, <2>2, NewCodesApart
<1>6. QED BY <1>2, <1>3, <1>4, <1>5

\* No migration, no table, no permission, no grant.
LEMMA NothingAtFirst ==
    PermissionsAt(0) = {} /\ GrantsAt(0) = {} /\ FilledAt(0) = {} /\ RisenTables(0, 1) = {}
<1>1. PermissionsAt(0) = {} /\ GrantsAt(0) = {} /\ FilledAt(0) = {}
  BY SeedsAt
<1>2. RisenTables(0, 1) = {}
  BY TableNumbers DEF RisenTables
<1>3. QED BY <1>1, <1>2

\* The grants of a migration are of its own permissions, but for two of the first.
LEMMA GrantsOwn ==
    ASSUME NEW m \in 1 .. 10, NEW g \in NewGrants(m)
    PROVE  /\ g \in SeededRoles \X SeededPermissions
           /\ g[2] \in NewCodes(m) \/ (m \in {3, 10} /\ g[2] \in FirstPermissions)
           /\ m = 3 => g = SA \/ g[2] \in NewCodes(3)
           /\ m = 10 => g = <<"DISPATCH_OFFICER", "report.export">>
           /\ m = 2 => g # SA /\ g # <<"DISPATCH_OFFICER", "report.export">>
<1>1. NewGrants(m) \subseteq SeededGrants
  BY NewGrantsAre DEF SeededGrants
<1>2. g \in SeededRoles \X SeededPermissions
  <2>1. \A h \in SeededGrants : h = <<h[1], h[2]>> /\ h[1] \in SeededRoles
    BY DEF SeededGrants, FirstGrants, AuditGrants, ReferenceGrants, BudgetGrants,
           SettingsGrants, ScheduleGrants, ExportGrants, SeededRoles, Administrators
  <2>2. g[2] \in Codes(SeededGrants)
    BY <1>1 DEF Codes
  <2>3. QED BY <1>1, <2>1, <2>2 DEF SeededPermissions
<1>3. CASE m = 2
  <2>1. g \in FirstGrants
    BY <1>3, NewGrantsAre
  <2>2. g[2] \in FirstPermissions
    BY <2>1, CodesAre DEF Codes
  <2>3. SA \notin FirstGrants /\ <<"DISPATCH_OFFICER", "report.export">> \notin FirstGrants
    BY DEF FirstGrants, SA
  <2>4. QED BY <1>2, <1>3, <2>1, <2>2, <2>3, NewCodesAre
<1>4. CASE m = 3
  <2>1. "audit.read" \in FirstPermissions
    BY DEF FirstPermissions
  <2>2. g \in AuditGrants
    BY <1>4, NewGrantsAre
  <2>3. g = SA \/ g[2] = "audit.read_sensitive"
    BY <2>2 DEF AuditGrants, SA
  <2>4. SA[2] = "audit.read"
    BY DEF SA
  <2>5. QED BY <1>2, <1>4, <2>1, <2>3, <2>4, NewCodesAre
<1>5. CASE m = 10
  <2>1. "report.export" \in FirstPermissions
    BY DEF FirstPermissions
  <2>2. g = <<"DISPATCH_OFFICER", "report.export">>
    BY <1>5, NewGrantsAre DEF ExportGrants
  <2>3. QED BY <1>2, <1>5, <2>1, <2>2
<1>6. CASE m \in {1, 7, 8}
  BY <1>6, NewGrantsAre
<1>7. CASE m \in {4, 5, 6, 9}
  <2>1. g[2] \in Codes(NewGrants(m))
    BY DEF Codes
  <2>2. Codes(NewGrants(m)) = NewCodes(m)
    BY <1>7, NewGrantsAre, NewCodesAre
  <2>3. QED BY <1>2, <1>7, <2>1, <2>2
<1>8. QED BY <1>3, <1>4, <1>5, <1>6, <1>7

\* The super administrator is granted each permission as it comes.
LEMMA SuperAdministrator ==
    ASSUME NEW m \in 1 .. 10, NEW c \in NewCodes(m)
    PROVE  <<"SUPER_ADMIN", c>> \in NewGrants(m)
<1>1. CASE m = 2
  BY <1>1, NewCodesAre, NewGrantsAre DEF FirstGrants
<1>2. CASE m = 3
  BY <1>2, NewCodesAre, NewGrantsAre DEF AuditGrants
<1>3. CASE m = 4
  BY <1>3, NewCodesAre, CodesAre, NewGrantsAre DEF ReferenceGrants, Administrators
<1>4. CASE m = 5
  BY <1>4, NewCodesAre, CodesAre, NewGrantsAre DEF BudgetGrants, Administrators
<1>5. CASE m = 6
  BY <1>5, NewCodesAre, CodesAre, NewGrantsAre DEF SettingsGrants, Administrators
<1>6. CASE m = 9
  BY <1>6, NewCodesAre, CodesAre, NewGrantsAre DEF ScheduleGrants, Administrators
<1>7. CASE m \in {1, 7, 8, 10}
  BY <1>7, NewCodesAre
<1>8. QED BY <1>1, <1>2, <1>3, <1>4, <1>5, <1>6, <1>7

(***************************************************************************)
(* The statements                                                          *)
(***************************************************************************)

\* What a statement does to each part of the database.
LEMMA Outcome ==
    ASSUME NEW s, NEW d, IsDatabase(d)
    PROVE  /\ IsDatabase(Executed(s, d))
           /\ Executed(s, d).tables = {t \in d.tables : s.do = "drop" => t # s.table}
                                      \cup {t \in {s.table} : s.do = "create"}
           /\ Executed(s, d).filled = {t \in d.filled : s.do = "drop" => t # s.table}
                                      \cup {t \in {s.table} : s.do = "fill"}
           /\ Executed(s, d).permissions =
                {c \in d.permissions : /\ s.do = "forbid" => c \notin s.data
                                       /\ ~(s.do = "drop" /\ s.table = "permissions")}
                \cup {c \in s.data : s.do = "permit"}
           /\ Executed(s, d).grants =
                {g \in d.grants : /\ s.do = "revoke" => g \notin s.data
                                  /\ ~(s.do = "drop" /\ s.table = "role_permissions")}
                \cup {g \in s.data : s.do \in Granting}
<1> DEFINE e == Executed(s, d)
<1>1. CASE s.do = "drop"
  <2>1. e = Dropped(d, s.table)
    BY <1>1 DEF Executed
  <2>2. IsDatabase(e)
    BY <2>1 DEF Dropped, IsDatabase
  <2>3. /\ e.tables = d.tables \ {s.table} /\ e.filled = d.filled \ {s.table}
        /\ s.table = "permissions" => e.permissions = {}
        /\ s.table # "permissions" => e.permissions = d.permissions
        /\ s.table = "role_permissions" => e.grants = {}
        /\ s.table # "role_permissions" => e.grants = d.grants
    BY <2>1 DEF Dropped
  <2> HIDE DEF e
  <2>4. QED BY <1>1, <2>2, <2>3 DEF Granting, e
<1>2. CASE s.do = "create"
  <2>1. e = [d EXCEPT !.tables = @ \cup {s.table}]
    BY <1>2 DEF Executed
  <2>2. /\ IsDatabase(e) /\ e.tables = d.tables \cup {s.table} /\ e.filled = d.filled
        /\ e.permissions = d.permissions /\ e.grants = d.grants
    BY <2>1 DEF IsDatabase
  <2> HIDE DEF e
  <2>3. QED BY <1>2, <2>2 DEF Granting, e
<1>3. CASE s.do = "fill"
  <2>1. e = [d EXCEPT !.filled = @ \cup {s.table}]
    BY <1>3 DEF Executed
  <2>2. /\ IsDatabase(e) /\ e.tables = d.tables /\ e.filled = d.filled \cup {s.table}
        /\ e.permissions = d.permissions /\ e.grants = d.grants
    BY <2>1 DEF IsDatabase
  <2> HIDE DEF e
  <2>3. QED BY <1>3, <2>2 DEF Granting, e
<1>4. CASE s.do = "permit"
  <2>1. e = [d EXCEPT !.permissions = @ \cup s.data]
    BY <1>4 DEF Executed
  <2>2. /\ IsDatabase(e) /\ e.tables = d.tables /\ e.filled = d.filled
        /\ e.permissions = d.permissions \cup s.data /\ e.grants = d.grants
    BY <2>1 DEF IsDatabase
  <2> HIDE DEF e
  <2>3. QED BY <1>4, <2>2 DEF Granting, e
<1>5. CASE s.do \in Granting
  <2>1. e = [d EXCEPT !.grants = @ \cup s.data]
    BY <1>5 DEF Executed, Granting
  <2>2. /\ IsDatabase(e) /\ e.tables = d.tables /\ e.filled = d.filled
        /\ e.permissions = d.permissions /\ e.grants = d.grants \cup s.data
    BY <2>1 DEF IsDatabase
  <2> HIDE DEF e
  <2>3. QED BY <1>5, <2>2 DEF Granting, e
<1>6. CASE s.do = "revoke"
  <2>1. e = [d EXCEPT !.grants = @ \ s.data]
    BY <1>6 DEF Executed
  <2>2. /\ IsDatabase(e) /\ e.tables = d.tables /\ e.filled = d.filled
        /\ e.permissions = d.permissions /\ e.grants = d.grants \ s.data
    BY <2>1 DEF IsDatabase
  <2> HIDE DEF e
  <2>3. QED BY <1>6, <2>2 DEF Granting, e
<1>7. CASE s.do = "forbid"
  <2>1. e = [d EXCEPT !.permissions = @ \ s.data]
    BY <1>7 DEF Executed
  <2>2. /\ IsDatabase(e) /\ e.tables = d.tables /\ e.filled = d.filled
        /\ e.permissions = d.permissions \ s.data /\ e.grants = d.grants
    BY <2>1 DEF IsDatabase
  <2> HIDE DEF e
  <2>3. QED BY <1>7, <2>2 DEF Granting, e
<1>8. CASE s.do \notin {"drop", "create", "fill", "permit", "revoke", "forbid"} \cup Granting
  <2>1. \/ e = d
        \/ e = [d EXCEPT !.outbox = @ \cup {[id |-> First(Left(s, d)), legacy |-> TRUE]}]
        \/ e = [d EXCEPT !.legacy = @ \cup {First(Left(s, d))}]
    BY <1>8 DEF Executed, Granting
  <2>2. /\ IsDatabase(e) /\ e.tables = d.tables /\ e.filled = d.filled
        /\ e.permissions = d.permissions /\ e.grants = d.grants
    BY <2>1 DEF IsDatabase
  <2> HIDE DEF e
  <2>3. QED BY <1>8, <2>2 DEF Granting, e
<1>9. QED BY <1>1, <1>2, <1>3, <1>4, <1>5, <1>6, <1>7, <1>8

\* What it does to the events.
LEMMA EventsOutcome ==
    ASSUME NEW s, NEW d, IsDatabase(d)
    PROVE  /\ ~(s.do = "drop" /\ s.table = "auth_security_events") =>
                d.legacy \subseteq Executed(s, d).legacy
           /\ ~(s.do = "drop" /\ s.table = "audit_outbox") =>
                Carried(d) \subseteq Carried(Executed(s, d))
           /\ s.do # "backfill" /\ ~(s.do = "drop" /\ s.table = "audit_outbox") =>
                Executed(s, d).outbox = d.outbox
           /\ s.do = "drop" /\ s.table = "audit_outbox" => Executed(s, d).outbox = {}
           /\ s.do # "restore" /\ ~(s.do = "drop" /\ s.table = "auth_security_events") =>
                Executed(s, d).legacy = d.legacy
           /\ s.do = "drop" /\ s.table = "auth_security_events" => Executed(s, d).legacy = {}
           /\ Left(s, d) = {} /\ s.do = "backfill" =>
                Executed(s, d) = d /\ d.legacy \subseteq Carried(d)
           /\ Left(s, d) = {} /\ s.do = "restore" =>
                Executed(s, d) = d /\ Carried(d) \subseteq d.legacy
<1> DEFINE e == Executed(s, d)
<1>1. CASE s.do = "drop"
  <2>1. e = Dropped(d, s.table)
    BY <1>1 DEF Executed
  <2>2. /\ s.table = "auth_security_events" => e.legacy = {}
        /\ s.table # "auth_security_events" => e.legacy = d.legacy
        /\ s.table = "audit_outbox" => e.outbox = {}
        /\ s.table # "audit_outbox" => e.outbox = d.outbox
    BY <2>1 DEF Dropped
  <2> HIDE DEF e
  <2>3. QED BY <1>1, <2>2 DEF e, Carried
<1>2. CASE s.do = "backfill"
  <2>1. \/ e = d /\ Left(s, d) = {}
        \/ /\ e = [d EXCEPT !.outbox = @ \cup {[id |-> First(Left(s, d)), legacy |-> TRUE]}]
           /\ Left(s, d) # {}
    BY <1>2 DEF Executed
  <2>2. d.outbox \subseteq e.outbox /\ e.legacy = d.legacy
    BY <2>1 DEF IsDatabase
  <2>3. Left(s, d) = d.legacy \ Carried(d)
    BY <1>2 DEF Left
  <2> HIDE DEF e
  <2>4. Carried(d) \subseteq Carried(e)
    BY <2>2 DEF Carried
  <2>5. QED BY <1>2, <2>1, <2>2, <2>3, <2>4 DEF e
<1>3. CASE s.do = "restore"
  <2>1. \/ e = d /\ Left(s, d) = {}
        \/ /\ e = [d EXCEPT !.legacy = @ \cup {First(Left(s, d))}]
           /\ Left(s, d) # {}
    BY <1>3 DEF Executed
  <2>2. e.outbox = d.outbox /\ d.legacy \subseteq e.legacy
    BY <2>1 DEF IsDatabase
  <2>3. Left(s, d) = Carried(d) \ d.legacy
    BY <1>3 DEF Left
  <2> HIDE DEF e
  <2>4. Carried(d) = Carried(e)
    BY <2>2 DEF Carried
  <2>5. QED BY <1>3, <2>1, <2>2, <2>3, <2>4 DEF e
<1>4. CASE s.do \notin {"drop", "backfill", "restore"}
  <2>1. e.legacy = d.legacy /\ e.outbox = d.outbox
    <3>1. \/ e = d
          \/ e = [d EXCEPT !.tables = @ \cup {s.table}]
          \/ e = [d EXCEPT !.filled = @ \cup {s.table}]
          \/ e = [d EXCEPT !.permissions = @ \cup s.data]
          \/ e = [d EXCEPT !.grants = @ \cup s.data]
          \/ e = [d EXCEPT !.grants = @ \ s.data]
          \/ e = [d EXCEPT !.permissions = @ \ s.data]
      BY <1>4 DEF Executed
    <3>2. QED BY <3>1 DEF IsDatabase
  <2> HIDE DEF e
  <2>2. QED BY <1>4, <2>1 DEF e, Carried
<1>5. QED BY <1>1, <1>2, <1>3, <1>4

(***************************************************************************)
(* The events of the first release                                         *)
(***************************************************************************)

\* Which statement comes next.
LEMMA NextStatement ==
    ASSUME Steady, tool # Idle, tool.at <= Len(Script)
    PROVE  \/ /\ tool.way = "up" /\ applied \in 0 .. 9 /\ Migration = applied + 1
              /\ tool.at \in 1 .. Len(Ups[applied + 1])
              /\ Script = Ups[applied + 1]
              /\ Makes(applied + 1, tool.at, Script[tool.at])
           \/ /\ tool.way = "down" /\ applied \in 1 .. 10 /\ Migration = applied
              /\ tool.at \in 1 .. Len(Downs[applied])
              /\ Script = Downs[applied]
              /\ Unmakes(applied, tool.at, Script[tool.at])
<1>1. CASE tool.way = "up"
  <2>1. applied \in 0 .. 9 /\ applied + 1 \in 1 .. 10
    BY <1>1 DEF Steady
  <2>2. Migration = applied + 1 /\ Script = Ups[applied + 1]
    BY <1>1 DEF Migration, Script
  <2>3. Makings(applied + 1)
    BY <2>1, AllMakings
  <2>4. tool.at \in 1 .. Len(Ups[applied + 1])
    <3>1. PICK l : l = Len(Ups[applied + 1])
      OBVIOUS
    <3>2. l \in Nat
      BY <2>3, <3>1 DEF Makings
    <3>3. tool.at \in 1 .. l + 1 /\ tool.at <= l
      BY <1>1, <2>2, <3>1 DEF Steady
    <3>4. QED BY <3>1, <3>2, <3>3
  <2>5. QED BY <1>1, <2>1, <2>2, <2>3, <2>4 DEF Makings
<1>2. CASE tool.way # "up"
  <2>1. tool.way = "down" /\ applied \in 1 .. 10
    BY <1>2 DEF Steady
  <2>2. Migration = applied /\ Script = Downs[applied]
    BY <1>2 DEF Migration, Script
  <2>3. Unmakings(applied)
    BY <2>1, AllUnmakings
  <2>4. tool.at \in 1 .. Len(Downs[applied])
    <3>1. PICK l : l = Len(Downs[applied])
      OBVIOUS
    <3>2. l \in Nat
      BY <2>3, <3>1 DEF Unmakings
    <3>3. tool.at \in 1 .. l + 1 /\ tool.at <= l
      BY <1>2, <2>2, <3>1 DEF Steady
    <3>4. QED BY <3>1, <3>2, <3>3
  <2>5. QED BY <2>1, <2>2, <2>3, <2>4 DEF Unmakings
<1>3. QED BY <1>1, <1>2

(***************************************************************************)
(* The tool stays within its script                                        *)
(***************************************************************************)

\* The permissions a migration seeds are among those of the catalogue.
LEMMA CodesSeeded == \A m \in 1 .. 10 : NewCodes(m) \subseteq SeededPermissions
<1>1. ASSUME NEW m \in 1 .. 10, NEW c \in NewCodes(m) PROVE c \in SeededPermissions
  <2>1. <<"SUPER_ADMIN", c>> \in NewGrants(m)
    BY SuperAdministrator
  <2>2. <<"SUPER_ADMIN", c>> \in SeededRoles \X SeededPermissions
    BY <2>1, GrantsOwn
  <2>3. QED BY <2>2
<1>2. QED BY <1>1

\* A statement the database accepts leaves its parts where they belong.
LEMMA StatementKeeps ==
    ASSUME NEW d, NEW s, IsDatabase(d), Kept(d), Possible(s, d),
           \/ \E m \in 1 .. 10 : \E i : Makes(m, i, s)
           \/ \E m \in 1 .. 10 : \E i : Unmakes(m, i, s)
    PROVE  Kept(Executed(s, d))
<1>1. /\ s.do = "create" => s.table \in Tables
      /\ s.do = "fill" => s.table \in d.tables
      /\ s.do = "permit" => s.data \subseteq SeededPermissions
      /\ s.do \in Granting => s.data \subseteq SeededRoles \X SeededPermissions
  <2>1. "auth_security_events" \in Tables
    BY TableList
  <2>2. s.do = "fill" => s.table \in d.tables
    BY DEF Possible
  <2>3. CASE \E m \in 1 .. 10 : \E i : Makes(m, i, s)
    <3>1. PICK m \in 1 .. 10 : \E i : Makes(m, i, s)
      BY <2>3
    <3>2. s.do \in Granting => s.data = NewGrants(m)
      BY <3>1 DEF Makes
    <3>3. NewGrants(m) \subseteq SeededRoles \X SeededPermissions
      BY GrantsOwn
    <3>4. s.do = "permit" => s.data = NewCodes(m)
      BY <3>1 DEF Makes
    <3>5. NewCodes(m) \subseteq SeededPermissions
      BY CodesSeeded
    <3>6. s.do = "create" => s.table \in Tables
      BY <3>1 DEF Makes
    <3>7. QED BY <2>2, <3>2, <3>3, <3>4, <3>5, <3>6
  <2>4. CASE \E m \in 1 .. 10 : \E i : Unmakes(m, i, s)
    BY <2>1, <2>2, <2>4 DEF Unmakes, Granting
  <2>5. QED BY <2>3, <2>4
<1> DEFINE e == Executed(s, d)
<1>2. /\ e.tables = {t \in d.tables : s.do = "drop" => t # s.table}
                    \cup {t \in {s.table} : s.do = "create"}
      /\ e.filled = {t \in d.filled : s.do = "drop" => t # s.table}
                    \cup {t \in {s.table} : s.do = "fill"}
      /\ e.permissions \subseteq d.permissions \cup {c \in s.data : s.do = "permit"}
      /\ e.grants \subseteq d.grants \cup {g \in s.data : s.do \in Granting}
  BY Outcome
<1> HIDE DEF e
<1>3. e.tables \subseteq Tables
  BY <1>1, <1>2 DEF Kept
<1>4. e.filled \subseteq e.tables
  BY <1>1, <1>2 DEF Kept
<1>5. e.permissions \subseteq SeededPermissions
  BY <1>1, <1>2 DEF Kept
<1>6. e.grants \subseteq SeededRoles \X SeededPermissions
  BY <1>1, <1>2 DEF Kept
<1>7. QED BY <1>3, <1>4, <1>5, <1>6 DEF Kept, e

\* The tables of an administrator and of the demonstration data are among the tables.
LEMMA DemoAmongTables == DemoTables \subseteq Tables
BY TableList DEF DemoTables

\* The first state is steady.
LEMMA SteadyStart == Init => Steady
<1> SUFFICES ASSUME Init PROVE Steady
  OBVIOUS
<1>1. IsDatabase(EmptyDatabase) /\ Kept(EmptyDatabase)
  BY DEF IsDatabase, Kept, EmptyDatabase
<1>2. Idle = [command |-> Idle.command, way |-> Idle.way, at |-> Idle.at]
  BY DEF Idle
<1>3. QED BY <1>1, <1>2 DEF Init, Steady

\* Every step keeps the tool within its script and the rows within their tables.
LEMMA SteadyStep == Steady /\ [Next]_vars => Steady'
<1> SUFFICES ASSUME Steady, [Next]_vars PROVE Steady'
  OBVIOUS
<1> USE DeploymentAssumption
<1>0. Idle = [command |-> Idle.command, way |-> Idle.way, at |-> Idle.at]
  BY DEF Idle
<1>1. ASSUME UNCHANGED vars PROVE Steady'
  <2>1. db' = db /\ tool' = tool /\ applied' = applied
    BY <1>1 DEF vars
  <2>2. QED BY <2>1 DEF Steady, IsDatabase, Kept
<1>2. ASSUME NEW c \in {"migrate", "rollback", "fresh"}, NEW w \in {"up", "down"}, Start(c, w),
             w = "up" => applied < 10, w = "down" => applied > 0
      PROVE  Steady'
  <2>1. /\ tool' = [command |-> c, way |-> w, at |-> 1] /\ db' = db /\ applied' = applied
    BY <1>2 DEF Start
  <2>2. w = "up" => 1 \in 1 .. Len(Ups[applied + 1]) + 1
    <3>1. ASSUME w = "up" PROVE Len(Ups[applied + 1]) \in Nat
      <4>1. applied + 1 \in 1 .. 10
        BY <1>2, <3>1 DEF Steady
      <4>2. QED BY <4>1, AllMakings DEF Makings
    <3>2. QED BY <3>1
  <2>3. w = "down" => 1 \in 1 .. Len(Downs[applied]) + 1
    <3>1. ASSUME w = "down" PROVE Len(Downs[applied]) \in Nat
      <4>1. applied \in 1 .. 10
        BY <1>2, <3>1 DEF Steady
      <4>2. QED BY <4>1, AllUnmakings DEF Unmakings
    <3>2. QED BY <3>1
  <2>4. /\ tool'.command = c /\ tool'.way = w /\ tool'.at = 1
        /\ tool' = [command |-> tool'.command, way |-> tool'.way, at |-> tool'.at]
    BY <2>1
  <2>5. (IsDatabase(db) /\ Kept(db) /\ applied \in 0 .. 10)'
    BY <2>1 DEF Steady, IsDatabase, Kept
  <2>6. /\ w = "up" => applied < 10 /\ 1 \in 1 .. Len(Ups[applied + 1]) + 1
        /\ w = "down" => applied > 0 /\ 1 \in 1 .. Len(Downs[applied]) + 1
    BY <1>2, <2>2, <2>3
  <2>7. QED BY <2>1, <2>4, <2>5, <2>6 DEF Steady
<1>3. CASE Migrate \/ Rollback \/ Fresh
  <2>1. CASE Migrate
    BY <1>2, <2>1, ScriptsAre DEF Migrate
  <2>2. CASE Rollback
    BY <1>2, <2>2 DEF Rollback
  <2>3. CASE Fresh
    <3>1. CASE applied > 0
      BY <1>2, <2>3, <3>1 DEF Fresh
    <3>2. CASE ~(applied > 0)
      <4>1. applied < 10
        BY <3>2 DEF Steady
      <4>2. QED BY <1>2, <2>3, <3>2, <4>1 DEF Fresh
    <3>3. QED BY <3>1, <3>2
  <2>4. QED BY <1>3, <2>1, <2>2, <2>3
<1>4. CASE Statement
  <2> DEFINE s == Script[tool.at]
  <2>1. /\ tool # Idle /\ tool.at <= Len(Script) /\ Possible(s, db) /\ db' = Executed(s, db)
        /\ tool' = tool \/ tool' = [tool EXCEPT !.at = @ + 1]
        /\ applied' = applied
    BY <1>4 DEF Statement
  <2>2. \/ \E m \in 1 .. 10 : \E i : Makes(m, i, s)
        \/ \E m \in 1 .. 10 : \E i : Unmakes(m, i, s)
    <3>1. /\ applied \in 0 .. 9 => applied + 1 \in 1 .. 10
      OBVIOUS
    <3>2. QED BY <2>1, <3>1, NextStatement
  <2>3. (IsDatabase(db) /\ Kept(db))'
    BY <2>1, <2>2, StatementKeeps, Outcome DEF Steady
  <2>4. /\ tool' = [command |-> tool'.command, way |-> tool'.way, at |-> tool'.at]
        /\ tool'.command = tool.command /\ tool'.way = tool.way
        /\ tool'.at = tool.at \/ tool'.at = tool.at + 1
    BY <2>1 DEF Steady
  <2>5. \/ tool.way = "up" /\ applied < 10 /\ tool'.at \in 1 .. Len(Ups[applied + 1]) + 1
        \/ tool.way = "down" /\ applied > 0 /\ tool'.at \in 1 .. Len(Downs[applied]) + 1
    <3>1. CASE tool.way = "up" /\ applied \in 0 .. 9 /\ tool.at \in 1 .. Len(Ups[applied + 1])
      <4>1. PICK l : l = Len(Ups[applied + 1])
        OBVIOUS
      <4>0. applied + 1 \in 1 .. 10
        BY <3>1
      <4>2. l \in Nat
        BY <4>0, <4>1, AllMakings DEF Makings
      <4>3. QED BY <2>4, <3>1, <4>1, <4>2
    <3>2. CASE tool.way = "down" /\ applied \in 1 .. 10 /\ tool.at \in 1 .. Len(Downs[applied])
      <4>1. PICK l : l = Len(Downs[applied])
        OBVIOUS
      <4>2. l \in Nat
        BY <3>2, <4>1, AllUnmakings DEF Unmakings
      <4>3. QED BY <2>4, <3>2, <4>1, <4>2
    <3>3. QED BY <2>1, <3>1, <3>2, NextStatement
  <2>6. tool.command \in {"migrate", "rollback", "fresh"}
    BY <2>1 DEF Steady
  <2> HIDE DEF s
  <2>7. QED BY <2>1, <2>3, <2>4, <2>5, <2>6 DEF Steady
<1>5. CASE Record
  <2>1. /\ tool # Idle /\ db' = db /\ tool.command \in {"migrate", "rollback", "fresh"}
        /\ applied' = (IF tool.way = "up" THEN applied + 1 ELSE applied - 1)
    BY <1>5 DEF Record, Steady
  <2>2. /\ applied' \in 0 .. 10
        /\ tool.way = "up" => applied' = applied + 1
        /\ tool.way # "up" => tool.way = "down" /\ applied' = applied - 1
    BY <2>1 DEF Steady
  <2>3. \/ tool' = [tool EXCEPT !.at = 1] /\ tool.way = "up" /\ applied' < 10
        \/ /\ tool.command = "fresh"
           /\ tool' = [tool EXCEPT !.at = 1, !.way = IF applied' > 0 THEN "down" ELSE "up"]
        \/ tool' = Idle
    BY <1>5, ScriptsAre DEF Record
  <2>4. /\ tool' = [command |-> tool'.command, way |-> tool'.way, at |-> tool'.at]
        /\ \/ /\ tool'.command = tool.command /\ tool'.at = 1
              /\ \/ tool'.way = "up" /\ applied' < 10
                 \/ tool'.way = "down" /\ applied' > 0
           \/ tool' = Idle
    <3>1. CASE tool' = Idle
      BY <1>0, <3>1
    <3>2. CASE tool' = [tool EXCEPT !.at = 1] /\ tool.way = "up" /\ applied' < 10
      BY <3>2 DEF Steady
    <3>3. CASE tool' = [tool EXCEPT !.at = 1, !.way = "down"] /\ applied' > 0
      BY <3>3 DEF Steady
    <3>4. CASE tool' = [tool EXCEPT !.at = 1, !.way = "up"] /\ ~(applied' > 0)
      <4>1. applied' < 10
        BY <2>2, <3>4
      <4>2. QED BY <3>4, <4>1 DEF Steady
    <3>5. QED BY <2>3, <3>1, <3>2, <3>3, <3>4
  <2>5. /\ applied' < 10 => 1 \in 1 .. Len(Ups[applied' + 1]) + 1
        /\ applied' > 0 => 1 \in 1 .. Len(Downs[applied']) + 1
    <3>1. PICK n : n = applied'
      OBVIOUS
    <3>2. n \in 0 .. 10
      BY <2>2, <3>1
    <3>3. ASSUME n < 10 PROVE 1 \in 1 .. Len(Ups[n + 1]) + 1
      <4>1. n + 1 \in 1 .. 10
        BY <3>2, <3>3
      <4>2. Len(Ups[n + 1]) \in Nat
        BY <4>1, AllMakings DEF Makings
      <4>3. QED BY <4>2
    <3>4. ASSUME n > 0 PROVE 1 \in 1 .. Len(Downs[n]) + 1
      <4>1. n \in 1 .. 10
        BY <3>2, <3>4
      <4>2. Len(Downs[n]) \in Nat
        BY <4>1, AllUnmakings DEF Unmakings
      <4>3. QED BY <4>2
    <3>5. QED BY <3>1, <3>3, <3>4
  <2>6. (IsDatabase(db) /\ Kept(db))'
    BY <2>1 DEF Steady, IsDatabase, Kept
  <2>7. QED BY <2>1, <2>2, <2>4, <2>5, <2>6 DEF Steady
<1>6. CASE Refused \/ Crash
  <2>1. tool' = Idle /\ db' = db /\ applied' = applied
    BY <1>6 DEF Refused, Crash
  <2>2. QED BY <1>0, <2>1 DEF Steady, IsDatabase, Kept
<1>7. CASE RecordEvent \/ EditGrants \/ CreateInitialAdmin \/ SeedDemo
  <2>1. tool = Idle /\ tool' = tool /\ applied' = applied
    BY <1>7 DEF RecordEvent, EditGrants, CreateInitialAdmin, SeedDemo, Between
  <2>2. (IsDatabase(db) /\ Kept(db))'
    <3>1. CASE RecordEvent
      BY <3>1 DEF RecordEvent, Steady, IsDatabase, Kept
    <3>2. CASE EditGrants
      <4>1. PICK e \in Edits : \/ db' = [db EXCEPT !.grants = @ \ {e}]
                               \/ db' = [db EXCEPT !.grants = @ \cup {e}]
        BY <3>2 DEF EditGrants
      <4>2. e \in SeededRoles \X SeededPermissions
        OBVIOUS
      <4>3. QED BY <4>1, <4>2 DEF Steady, IsDatabase, Kept
    <3>3. CASE CreateInitialAdmin
      BY <3>3 DEF CreateInitialAdmin, Steady, IsDatabase, Kept
    <3>4. CASE SeedDemo
      BY <3>4 DEF SeedDemo, Steady, IsDatabase, Kept
    <3>5. QED BY <1>7, <3>1, <3>2, <3>3, <3>4
  <2>3. QED BY <1>0, <2>1, <2>2 DEF Steady
<1>8. QED BY <1>1, <1>3, <1>4, <1>5, <1>6, <1>7 DEF Next

(***************************************************************************)
(* No event is lost on the way                                             *)
(***************************************************************************)

\* A statement and what it does to the events: the one that drops a table with events
\* finds them in the other one.
LEMMA StatementKeepsEvents ==
    ASSUME Steady, Moved, Statement
    PROVE  /\ Moved'
           /\ ~(tool.way = "down" /\ Migration = 2) =>
                db.legacy \cup Carried(db) \subseteq db'.legacy \cup Carried(db')
<1> DEFINE s == Script[tool.at]
<1>1. /\ tool # Idle /\ tool.at <= Len(Script) /\ db' = Executed(s, db)
      /\ tool' = IF Left(s, db) = {} THEN [tool EXCEPT !.at = @ + 1] ELSE tool
      /\ applied' = applied /\ IsDatabase(db)
  BY DEF Statement, Steady
<1>2. \/ /\ tool.way = "up" /\ applied \in 0 .. 9 /\ Migration = applied + 1
         /\ tool.at \in Nat /\ Makes(applied + 1, tool.at, s)
      \/ /\ tool.way = "down" /\ applied \in 1 .. 10 /\ Migration = applied
         /\ tool.at \in Nat /\ Unmakes(applied, tool.at, s)
  BY <1>1, NextStatement
<1>3. /\ tool'.way = tool.way
      /\ tool'.at = tool.at \/ (tool'.at = tool.at + 1 /\ Left(s, db) = {})
  BY <1>1 DEF Steady
<1> DEFINE e == Executed(s, db)
<1>4. /\ ~(s.do = "drop" /\ s.table = "auth_security_events") => db.legacy \subseteq e.legacy
      /\ ~(s.do = "drop" /\ s.table = "audit_outbox") => Carried(db) \subseteq Carried(e)
      /\ s.do # "backfill" /\ ~(s.do = "drop" /\ s.table = "audit_outbox") => e.outbox = db.outbox
      /\ s.do = "drop" /\ s.table = "audit_outbox" => e.outbox = {}
      /\ s.do # "restore" /\ ~(s.do = "drop" /\ s.table = "auth_security_events") =>
            e.legacy = db.legacy
      /\ s.do = "drop" /\ s.table = "auth_security_events" => e.legacy = {}
      /\ Left(s, db) = {} /\ s.do = "backfill" => e = db /\ db.legacy \subseteq Carried(db)
      /\ Left(s, db) = {} /\ s.do = "restore" => e = db /\ Carried(db) \subseteq db.legacy
  BY <1>1, EventsOutcome
<1>5. e.outbox = db.outbox => Carried(e) = Carried(db)
  BY DEF Carried
<1>6. e.outbox = {} => Carried(e) = {}
  BY DEF Carried
<1>7. db' = e
  BY <1>1
<1>8. Left(s, db) # {} => s.do \in {"backfill", "restore"}
  BY DEF Left
<1> HIDE DEF s, e
<1>9. CASE tool.way = "up"
  <2>1. /\ s.do = "drop" => applied = 2 /\ tool.at = 11 /\ s.table = "auth_security_events"
        /\ s.do = "backfill" => applied = 2 /\ tool.at = 10
        /\ s.do # "restore"
    BY <1>2, <1>9 DEF Makes
  <2>2. applied = 2 /\ tool.at > 10 => db.legacy \subseteq Carried(db)
    BY <1>1, <1>9 DEF Moved
  <2>3. db.legacy \cup Carried(db) \subseteq db'.legacy \cup Carried(db')
    <3>1. CASE s.do = "drop"
      <4>1. db.legacy \subseteq Carried(db)
        BY <2>1, <2>2, <3>1
      <4>2. Carried(db) \subseteq Carried(db')
        BY <1>4, <1>7, <2>1, <3>1
      <4>3. QED BY <4>1, <4>2
    <3>2. CASE s.do # "drop"
      BY <1>4, <1>7, <3>2
    <3>3. QED BY <3>1, <3>2
  <2>4. applied = 2 /\ tool'.at > 10 => db'.legacy \subseteq Carried(db')
    <3>1. CASE s.do = "drop"
      BY <1>4, <1>7, <2>1, <3>1
    <3>2. CASE s.do = "backfill"
      <4>1. tool'.at > 10 => Left(s, db) = {}
        BY <1>3, <2>1, <3>2
      <4>2. QED BY <1>4, <1>7, <3>2, <4>1
    <3>3. CASE s.do \notin {"drop", "backfill"}
      <4>1. db'.legacy = db.legacy /\ Carried(db') = Carried(db)
        BY <1>4, <1>5, <1>7, <2>1, <3>3
      <4>2. ASSUME applied = 2, tool'.at > 10 PROVE tool.at > 10
        <5>1. tool.at # 10
          <6>1. ASSUME tool.at = 10 PROVE s = Ups[3][10]
            BY <1>9, <4>2, <6>1 DEF s, Script, Migration
          <6>2. Ups[3][10].do = "backfill"
            BY ScriptsAre, AuditUpIs DEF Backfill
          <6>3. QED BY <3>3, <6>1, <6>2
        <5>2. QED BY <1>2, <1>3, <4>2, <5>1
      <4>3. QED BY <2>2, <4>1, <4>2
    <3>4. QED BY <3>1, <3>2, <3>3
  <2>5. QED BY <1>1, <1>3, <1>9, <2>3, <2>4 DEF Moved
<1>10. CASE tool.way = "down"
  <2>1. /\ s.do = "drop" => s.table \in Tables /\ Born[s.table] = applied /\ Undo[s.table] = tool.at
        /\ s.do = "restore" => applied = 3 /\ tool.at = 2
        /\ s.do # "backfill"
    BY <1>2, <1>10 DEF Unmakes
  <2>2. /\ Born["auth_security_events"] = 2 /\ Born["audit_outbox"] = 3
        /\ Undo["audit_outbox"] = 11
    BY BornIs, UndoIs
  <2>3. applied = 3 /\ tool.at > 2 => Carried(db) \subseteq db.legacy
    BY <1>1, <1>10 DEF Moved
  <2>4. applied # 2 => db.legacy \cup Carried(db) \subseteq db'.legacy \cup Carried(db')
    <3>1. CASE s.do = "drop" /\ s.table = "audit_outbox"
      <4>1. Carried(db) \subseteq db.legacy
        BY <2>1, <2>2, <2>3, <3>1
      <4>2. db.legacy \subseteq db'.legacy
        BY <1>4, <1>7, <3>1
      <4>3. QED BY <4>1, <4>2
    <3>2. CASE ~(s.do = "drop" /\ s.table = "audit_outbox")
      <4>1. applied # 2 => ~(s.do = "drop" /\ s.table = "auth_security_events")
        BY <2>1, <2>2
      <4>2. QED BY <1>4, <1>7, <3>2, <4>1
    <3>3. QED BY <3>1, <3>2
  <2>5. applied = 3 /\ tool'.at > 2 => Carried(db') \subseteq db'.legacy
    <3>1. CASE s.do = "drop" /\ s.table = "audit_outbox"
      BY <1>4, <1>6, <1>7, <3>1
    <3>2. CASE s.do = "restore"
      <4>1. tool'.at > 2 => Left(s, db) = {}
        BY <1>3, <2>1, <3>2
      <4>2. QED BY <1>4, <1>7, <3>2, <4>1
    <3>3. CASE s.do # "restore" /\ ~(s.do = "drop" /\ s.table = "audit_outbox")
      <4>1. ASSUME applied = 3, tool'.at > 2 PROVE tool.at > 2
        <5>1. tool.at # 2
          <6>1. ASSUME tool.at = 2 PROVE s = Downs[3][2]
            BY <1>10, <4>1, <6>1 DEF s, Script, Migration
          <6>2. Downs[3][2].do = "restore"
            BY ScriptsAre, AuditDownIs DEF Restore
          <6>3. QED BY <3>3, <6>1, <6>2
        <5>2. QED BY <1>2, <1>3, <4>1, <5>1
      <4>2. applied = 3 => db'.legacy = db.legacy /\ Carried(db') = Carried(db)
        BY <1>4, <1>5, <1>7, <2>1, <2>2, <3>3
      <4>3. QED BY <2>3, <4>1, <4>2
    <3>4. QED BY <3>1, <3>2, <3>3
  <2>6. QED BY <1>1, <1>2, <1>3, <1>10, <2>4, <2>5 DEF Moved
<1>11. QED BY <1>2, <1>9, <1>10

\* Every step keeps the moved events: no copy is dropped before it is complete.
LEMMA MovedStep == Steady /\ Moved /\ [Next]_vars => Moved'
<1> SUFFICES ASSUME Steady, Moved, [Next]_vars PROVE Moved'
  OBVIOUS
<1>1. CASE UNCHANGED vars
  BY <1>1 DEF vars, Moved, Carried
<1>2. CASE Migrate \/ Rollback \/ Fresh
  <2>1. tool'.at = 1
    BY <1>2 DEF Migrate, Rollback, Fresh, Start
  <2>2. QED BY <2>1 DEF Moved
<1>3. CASE Statement
  BY <1>3, StatementKeepsEvents
<1>4. CASE Record
  <2>1. tool' = Idle \/ tool'.at = 1
    BY <1>4 DEF Record, Steady
  <2>2. QED BY <2>1 DEF Moved
<1>5. CASE Refused \/ Crash \/ RecordEvent \/ EditGrants \/ CreateInitialAdmin \/ SeedDemo
  <2>1. tool' = Idle
    BY <1>5 DEF Refused, Crash, RecordEvent, EditGrants, CreateInitialAdmin, SeedDemo, Between
  <2>2. QED BY <2>1 DEF Moved
<1>6. QED BY <1>1, <1>2, <1>3, <1>4, <1>5 DEF Next

(***************************************************************************)
(* The next statement of an undoing                                        *)
(***************************************************************************)

\* What undoing a migration takes from the roles.
Takes(m) == CASE m = 2 -> SeededRoles \X SeededPermissions
              [] m = 3 -> AllRoles(NewCodes(3)) \cup {SA}
              [] m \in {4, 5, 6, 9} -> AllRoles(NewCodes(m))
              [] m = 10 -> ExportGrants
              [] OTHER -> {}

\* The grants withdrawn while a migration is undone are those it takes away.
LEMMA WithdrawnAtMost ==
    ASSUME NEW m \in 1 .. 10, NEW k \in 1 .. Len(Downs[m]) + 1
    PROVE  Withdrawn(m, k) \subseteq Takes(m)
<1>1. Len(Downs[m]) \in Nat
  BY AllUnmakings DEF Unmakings
<1>2. ASSUME NEW j \in 1 .. k - 1, Downs[m][j].do = "revoke"
      PROVE  Downs[m][j].data \subseteq Takes(m)
  <2>1. j \in 1 .. Len(Downs[m])
    BY <1>1
  <2>2. CASE m \in {1, 2, 7, 8}
    <3>1. CASE m = 1
      BY <1>2, <2>1, <3>1, ScriptsAre, MetadataDownIs DEF Drop
    <3>2. CASE m = 2
      BY <1>2, <2>1, <3>2, ScriptsAre, IdentityDownIs DEF Drop
    <3>3. CASE m = 7
      BY <1>2, <2>1, <3>3, ScriptsAre, FuelDownIs DEF Drop
    <3>4. CASE m = 8
      BY <1>2, <2>1, <3>4, ScriptsAre, DispatchDownIs DEF Drop
    <3>5. QED BY <2>2, <3>1, <3>2, <3>3, <3>4
  <2>3. CASE m = 3
    BY <1>2, <2>1, <2>3, ScriptsAre, AuditDownIs, NewCodesAre
       DEF Drop, Revoke, Forbid, Create, Restore, Takes, SA
  <2>4. CASE m = 4
    BY <1>2, <2>1, <2>4, ScriptsAre, ReferenceDownIs, NewCodesAre DEF Drop, Revoke, Forbid, Takes
  <2>5. CASE m = 5
    BY <1>2, <2>1, <2>5, ScriptsAre, BudgetDownIs, NewCodesAre DEF Drop, Revoke, Forbid, Takes
  <2>6. CASE m = 6
    BY <1>2, <2>1, <2>6, ScriptsAre, SettingsDownIs, NewCodesAre DEF Drop, Revoke, Forbid, Takes
  <2>7. CASE m = 9
    BY <1>2, <2>1, <2>7, ScriptsAre, ScheduleDownIs, NewCodesAre DEF Drop, Revoke, Forbid, Takes
  <2>8. CASE m = 10
    BY <1>2, <2>1, <2>8, ScriptsAre, ExportDownIs DEF Drop, Revoke, Forbid, Takes
  <2>9. QED BY <2>2, <2>3, <2>4, <2>5, <2>6, <2>7, <2>8
<1>3. m = 2 => Takes(m) = SeededRoles \X SeededPermissions
  BY DEF Takes
<1>4. ASSUME NEW g \in Withdrawn(m, k) PROVE g \in Takes(m)
  <2>1. g \in Revoked(m, k) \/ (m = 2 /\ g \in SeededRoles \X SeededPermissions)
    BY DEF Withdrawn
  <2>3. g \in Revoked(m, k) =>
          \E j \in 1 .. k - 1 : Downs[m][j].do = "revoke" /\ g \in Downs[m][j].data
    BY DEF Revoked
  <2>2. QED BY <1>2, <1>3, <2>1, <2>3
<1>5. QED BY <1>4

\* A migration undone whole has withdrawn every grant it seeded.
LEMMA WithdrawnAtLast ==
    ASSUME NEW m \in 1 .. 10
    PROVE  NewGrants(m) \subseteq Withdrawn(m, Len(Downs[m]) + 1)
<1>1. Len(Downs[m]) \in Nat
  BY AllUnmakings DEF Unmakings
<1> DEFINE k == Len(Downs[m]) + 1
<1>2. k \in Nat /\ \A j : j \in 1 .. k - 1 <=> j \in 1 .. Len(Downs[m])
  BY <1>1
<1> HIDE DEF k
<1>3. CASE m \in {1, 7, 8}
  BY <1>3, NewGrantsAre
<1>4. CASE m = 2
  <2>1. k > Undo["role_permissions"]
    BY <1>4, LengthsAre, UndoIs DEF k
  <2>2. NewGrants(m) \subseteq SeededRoles \X SeededPermissions
    BY GrantsOwn
  <2>3. SeededRoles \X SeededPermissions \subseteq Withdrawn(m, k)
    BY <1>4, <2>1 DEF Withdrawn
  <2>4. QED BY <2>2, <2>3 DEF k
<1>5. CASE m = 3
  <2>1. 3 \in 1 .. k - 1 /\ 4 \in 1 .. k - 1
    BY <1>2, <1>5, LengthsAre
  <2>2. /\ Downs[3][3].do = "revoke" /\ Downs[3][3].data = AllRoles(NewCodes(3))
        /\ Downs[3][4].do = "revoke" /\ Downs[3][4].data = {SA}
    BY ScriptsAre, AuditDownIs, NewCodesAre DEF Revoke, SA
  <2>3. AllRoles(NewCodes(3)) \cup {SA} \subseteq Withdrawn(m, k)
    BY <1>2, <1>5, <2>1, <2>2, WithdrawnBy
  <2>4. NewGrants(3) \subseteq AllRoles(NewCodes(3)) \cup {SA}
    BY NewGrantsAre, NewCodesAre DEF AuditGrants, AllRoles, SA, SeededRoles
  <2>5. QED BY <1>5, <2>3, <2>4 DEF k
<1>6. CASE m \in {4, 5, 6, 9}
  <2>1. 1 \in 1 .. k - 1
    <3>1. PICK l : l = Len(Downs[m])
      OBVIOUS
    <3>2. /\ m = 4 => l = 5
          /\ m = 5 => l = 3
          /\ m = 6 => l = 3
          /\ m = 9 => l = 4
      BY <3>1, LengthsAre
    <3>4. l \in {3, 4, 5}
      BY <1>6, <3>2
    <3>5. 1 \in 1 .. l
      BY <3>4
    <3>3. QED BY <1>2, <3>1, <3>5
  <2>2. Downs[m][1].do = "revoke" /\ Downs[m][1].data = AllRoles(NewCodes(m))
    BY <1>6, ScriptsAre, ReferenceDownIs, BudgetDownIs, SettingsDownIs, ScheduleDownIs,
       NewCodesAre DEF Revoke
  <2>3. AllRoles(NewCodes(m)) \subseteq Withdrawn(m, k)
    BY <1>2, <2>1, <2>2, WithdrawnBy
  <2>4. ASSUME NEW g \in NewGrants(m) PROVE g \in AllRoles(NewCodes(m))
    BY <1>6, GrantsOwn DEF AllRoles
  <2>5. QED BY <2>3, <2>4 DEF k
<1>7. CASE m = 10
  <2>1. 1 \in 1 .. k - 1
    BY <1>2, <1>7, LengthsAre
  <2>2. Downs[10][1].do = "revoke" /\ Downs[10][1].data = ExportGrants
    BY ScriptsAre, ExportDownIs DEF Revoke
  <2>3. QED BY <1>2, <1>7, <2>1, <2>2, WithdrawnBy, NewGrantsAre DEF k
<1>8. QED BY <1>3, <1>4, <1>5, <1>6, <1>7

\* Undoing a migration takes no grant of those before it.
LEMMA TakesItsOwn ==
    ASSUME NEW n \in 0 .. 9
    PROVE  GrantsAt(n) \cap Takes(n + 1) = {}
<1> SUFFICES ASSUME NEW g \in GrantsAt(n), g \in Takes(n + 1) PROVE FALSE
  OBVIOUS
<1>1. PICK m \in 1 .. n : g \in NewGrants(m)
  <2>1. n \in 0 .. 10
    OBVIOUS
  <2>2. QED BY <2>1, SeedsAt
<1>2. /\ m \in 1 .. 10 /\ m \in 1 .. 11 /\ n + 1 \in 1 .. 11
      /\ m < n + 1 /\ m # n + 1 /\ n + 1 \in 2 .. 10
  OBVIOUS
<1>3. g[2] \in NewCodes(m) \/ (m \in {3, 10} /\ g[2] \in NewCodes(2))
  BY <1>1, <1>2, GrantsOwn, NewCodesAre
<1>4. n + 1 # 2 => g[2] \notin NewCodes(n + 1)
  <2>1. n + 1 # 2 => g[2] \notin NewCodes(2) \/ g[2] \notin NewCodes(n + 1)
    BY <1>2, NewCodesApart
  <2>2. g[2] \notin NewCodes(m) \/ g[2] \notin NewCodes(n + 1)
    BY <1>2, NewCodesApart
  <2>3. QED BY <1>3, <2>1, <2>2
<1>5. CASE n + 1 = 2
  <2>1. m = 1
    BY <1>2, <1>5
  <2>2. QED BY <1>1, <2>1, NewGrantsAre
<1>6. CASE n + 1 = 3
  <2>1. m = 1 \/ m = 2
    BY <1>2, <1>6
  <2>2. g # SA
    BY <1>1, <1>2, <2>1, GrantsOwn, NewGrantsAre
  <2>3. g \in AllRoles(NewCodes(3))
    BY <1>6, <2>2 DEF Takes
  <2>4. QED BY <1>4, <1>6, <2>3 DEF AllRoles
<1>7. CASE n + 1 \in {4, 5, 6, 9}
  <2>1. g \in AllRoles(NewCodes(n + 1))
    BY <1>7 DEF Takes
  <2>2. QED BY <1>4, <1>7, <2>1 DEF AllRoles
<1>8. CASE n + 1 = 10
  <2>1. g = <<"DISPATCH_OFFICER", "report.export">>
    BY <1>8 DEF Takes, ExportGrants
  <2>2. g[2] = "report.export" /\ "report.export" \in NewCodes(2)
    BY <2>1, NewCodesAre DEF FirstPermissions
  <2>3. m = 2 \/ m = 3
    <3>1. m \in 1 .. 11 /\ (m # 2 => NewCodes(m) \cap NewCodes(2) = {})
      BY <1>2, NewCodesApart
    <3>2. QED BY <1>2, <1>3, <1>8, <2>2, <3>1
  <2>4. QED BY <1>1, <1>2, <2>1, <2>2, <2>3, GrantsOwn, NewCodesAre DEF SA
<1>9. CASE n + 1 \in {7, 8}
  BY <1>9 DEF Takes
<1>10. QED BY <1>2, <1>5, <1>6, <1>7, <1>8, <1>9

(***************************************************************************)
(* One statement up                                                        *)
(***************************************************************************)

\* What was done before the next statement was done before, or is done by this one.
LEMMA DidNext ==
    ASSUME NEW S, NEW k \in Nat, k >= 1, NEW kinds
    PROVE  /\ Did(S, k + 1, kinds) <=> Did(S, k, kinds) \/ S[k].do \in kinds
           /\ ~Did(S, 1, kinds)
<1>1. \A j : j \in 1 .. (k + 1) - 1 <=> j \in 1 .. k - 1 \/ j = k
  OBVIOUS
<1>2. QED BY <1>1 DEF Did

\* The tables that migrations fill are their own.
LEMMA FilledOwn ==
    ASSUME NEW n \in 0 .. 10, NEW t \in FilledAt(n)
    PROVE  t \in Tables /\ Born[t] <= n /\ t # "auth_security_events"
<1>1. PICK m \in 1 .. n : t \in NewFilled(m)
  BY SeedsAt
<1>2. m \in 1 .. 10
  OBVIOUS
<1>3. t \in Tables /\ Born[t] = m /\ t # "auth_security_events"
  <2>1. \/ m = 1 \/ m = 2 \/ m = 3 \/ m = 4 \/ m = 5 \/ m = 6 \/ m = 7 \/ m = 8 \/ m = 9 \/ m = 10
    BY <1>2
  <2>2. QED BY <1>1, <2>1, NewFilledAre, BornIs, TableList
<1>4. QED BY <1>3

\* The next statement up adds or drops the table it names, and may do so.
LEMMA RisenTablesNext ==
    ASSUME NEW n \in 0 .. 9, NEW k \in 1 .. Len(Ups[n + 1])
    PROVE  /\ Ups[n + 1][k].do = "create" =>
                /\ RisenTables(n, k + 1) = RisenTables(n, k) \cup {Ups[n + 1][k].table}
                /\ Ups[n + 1][k].table \in Tables \ RisenTables(n, k)
                /\ References[Ups[n + 1][k].table] \subseteq RisenTables(n, k)
           /\ Ups[n + 1][k].do = "drop" =>
                /\ RisenTables(n, k + 1) = RisenTables(n, k) \ {Ups[n + 1][k].table}
                /\ Ups[n + 1][k].table \in RisenTables(n, k)
                /\ \A t \in RisenTables(n, k) : Ups[n + 1][k].table \notin References[t]
           /\ Ups[n + 1][k].do \notin {"create", "drop"} =>
                RisenTables(n, k + 1) = RisenTables(n, k)
<1>1. PICK s : s = Ups[n + 1][k]
  OBVIOUS
<1>2. PICK m : m = n + 1
  OBVIOUS
<1>3. /\ m \in 1 .. 10 /\ Makings(m) /\ Len(Ups[m]) \in Nat
  <2>1. m \in 1 .. 10
    BY <1>2
  <2>2. QED BY <2>1, AllMakings DEF Makings
<1>4. k \in Nat /\ k >= 1 /\ k \in 1 .. Len(Ups[m])
  BY <1>2, <1>3
<1>5. Makes(m, k, s)
  BY <1>1, <1>2, <1>3, <1>4 DEF Makings
<1>6. \A t \in Tables : Born[t] = m /\ Place[t] = k => s = Create(t)
  BY <1>1, <1>2, Created
<1>7. m = 3 /\ k = 11 => s.do = "drop"
  BY <1>1, <1>2, ScriptsAre, AuditUpIs DEF Drop
<1>8. \A t \in Tables : Born[t] \in Nat /\ Place[t] \in Nat
  BY TableNumbers
<1>9. Born["auth_security_events"] = 2 /\ "auth_security_events" \in Tables
      /\ Place["auth_security_events"] = 11
  BY BornIs, PlaceIs, TableList
<1>10. /\ \A t : t \in RisenTables(n, k) <=>
                /\ t \in Tables /\ (Born[t] <= n \/ (Born[t] = m /\ Place[t] < k))
                /\ t = "auth_security_events" => n < 2 \/ (n = 2 /\ k <= 11)
       /\ \A t : t \in RisenTables(n, k + 1) <=>
                /\ t \in Tables /\ (Born[t] <= n \/ (Born[t] = m /\ Place[t] < k + 1))
                /\ t = "auth_security_events" => n < 2 \/ (n = 2 /\ k + 1 <= 11)
  BY <1>2 DEF RisenTables
<1>11. CASE s.do = "create"
  <2>1. s.table \in Tables /\ Born[s.table] = m /\ Place[s.table] = k
    BY <1>5, <1>11 DEF Makes
  <2>2. \A t \in Tables : Born[t] = m /\ Place[t] = k => t = s.table
    BY <1>6 DEF Create
  <2>3. s.table \notin RisenTables(n, k)
    BY <1>2, <1>10, <2>1
  <2>4. RisenTables(n, k + 1) = RisenTables(n, k) \cup {s.table}
    <3>1. \A t : t \in RisenTables(n, k) => t \in RisenTables(n, k + 1)
      BY <1>2, <1>4, <1>7, <1>8, <1>10, <1>11
    <3>2. s.table \in RisenTables(n, k + 1)
      BY <1>2, <1>4, <1>9, <1>10, <2>1
    <3>3. \A t : t \in RisenTables(n, k + 1) => t \in RisenTables(n, k) \/ t = s.table
      BY <1>2, <1>4, <1>8, <1>10, <2>2
    <3>4. QED BY <3>1, <3>2, <3>3
  <2>5. References[s.table] \subseteq RisenTables(n, k)
    <3>1. \A r \in References[s.table] : Before(r, s.table)
      BY <2>1, ReferencesFirst
    <3>2. QED BY <1>2, <1>8, <1>10, <2>1, <3>1 DEF Before
  <2>6. QED BY <1>1, <1>11, <2>1, <2>3, <2>4, <2>5
<1>12. CASE s.do = "drop"
  <2>1. m = 3 /\ k = 11 /\ s.table = "auth_security_events" /\ n = 2
    BY <1>2, <1>5, <1>12 DEF Makes
  <2>2. \A t \in Tables : ~(Born[t] = m /\ Place[t] = k)
    BY <1>6, <1>12 DEF Create
  <2>3. s.table \in RisenTables(n, k)
    BY <1>9, <1>10, <2>1
  <2>4. RisenTables(n, k + 1) = RisenTables(n, k) \ {s.table}
    BY <1>8, <1>10, <2>1, <2>2
  <2>5. \A t \in RisenTables(n, k) : s.table \notin References[t]
    BY <1>10, <2>1, ReferencesFirst DEF Before
  <2>6. QED BY <1>1, <1>12, <2>3, <2>4, <2>5
<1>13. CASE s.do \notin {"create", "drop"}
  <2>1. \A t \in Tables : ~(Born[t] = m /\ Place[t] = k)
    BY <1>6, <1>13 DEF Create
  <2>2. ~(m = 3 /\ k = 11)
    BY <1>7, <1>13
  <2>3. \A t : t \in RisenTables(n, k) <=> t \in RisenTables(n, k + 1)
    BY <1>2, <1>4, <1>8, <1>10, <2>1, <2>2
  <2>4. QED BY <1>1, <1>13, <2>3
<1>14. QED BY <1>11, <1>12, <1>13

(***************************************************************************)
(* Every statement up                                                      *)
(***************************************************************************)

\* A statement on the way up is accepted, unless it adds the grant an administrator gave
\* before, and where it is accepted it leaves the database one statement further.
LEMMA RisingStep ==
    ASSUME NEW n \in 0 .. 9, NEW k \in 1 .. Len(Ups[n + 1]), NEW d,
           IsDatabase(d), Kept(d), Allowed(d), Risen(d, n, k)
    PROVE  /\ Possible(Ups[n + 1][k], d) \/ GivenEarly(n + 1, Ups[n + 1][k], d)
           /\ Allowed(Executed(Ups[n + 1][k], d))
           /\ Risen(Executed(Ups[n + 1][k], d), n, k + 1)
           /\ Ups[n + 1][k].do = "backfill" => Risen(Executed(Ups[n + 1][k], d), n, k)
<1>1. PICK s : s = Ups[n + 1][k]
  OBVIOUS
<1>2. PICK m : m = n + 1
  OBVIOUS
<1>3. /\ m \in 1 .. 10 /\ Makings(m) /\ Len(Ups[m]) \in Nat
  <2>1. m \in 1 .. 10
    BY <1>2
  <2>2. QED BY <2>1, AllMakings DEF Makings
<1>4. k \in Nat /\ k >= 1 /\ k \in 1 .. Len(Ups[m])
  BY <1>2, <1>3
<1>5. Makes(m, k, s)
  BY <1>1, <1>2, <1>3, <1>4 DEF Makings
<1>6. PICK e : e = Executed(s, d)
  OBVIOUS
<1>7. /\ e.tables = {t \in d.tables : s.do = "drop" => t # s.table}
                    \cup {t \in {s.table} : s.do = "create"}
      /\ e.filled = {t \in d.filled : s.do = "drop" => t # s.table}
                    \cup {t \in {s.table} : s.do = "fill"}
      /\ e.permissions = {c \in d.permissions : /\ s.do = "forbid" => c \notin s.data
                                                /\ ~(s.do = "drop" /\ s.table = "permissions")}
                         \cup {c \in s.data : s.do = "permit"}
      /\ e.grants = {g \in d.grants : /\ s.do = "revoke" => g \notin s.data
                                      /\ ~(s.do = "drop" /\ s.table = "role_permissions")}
                    \cup {g \in s.data : s.do \in Granting}
  BY <1>6, Outcome
<1>8. /\ d.tables = RisenTables(n, k) /\ d.permissions = RisenCodes(n, k)
      /\ \A g : g \notin Edits => (g \in d.grants <=> g \in RisenGrants(n, k))
      /\ RisenFilled(n, k) \subseteq d.filled
      /\ ~Did(Ups[m], k, Granting) => Codes(d.grants) \subseteq PermissionsAt(n)
      /\ ~Did(Ups[m], k, {"fill"}) => \A t \in d.filled : Born[t] <= n
  BY <1>2 DEF Risen
<1>9. \A kinds : Did(Ups[m], k + 1, kinds) <=> Did(Ups[m], k, kinds) \/ s.do \in kinds
  BY <1>1, <1>2, <1>4, DidNext
<1>10. /\ \A c : c \in RisenCodes(n, k) <=>
                  c \in PermissionsAt(n) \/ (c \in NewCodes(m) /\ Did(Ups[m], k, {"permit"}))
       /\ \A c : c \in RisenCodes(n, k + 1) <=>
                  c \in PermissionsAt(n) \/ (c \in NewCodes(m) /\ Did(Ups[m], k + 1, {"permit"}))
  BY <1>2 DEF RisenCodes
<1>11. /\ \A g : g \in RisenGrants(n, k) <=>
                  g \in GrantsAt(n) \/ (g \in NewGrants(m) /\ Did(Ups[m], k, Granting))
       /\ \A g : g \in RisenGrants(n, k + 1) <=>
                  g \in GrantsAt(n) \/ (g \in NewGrants(m) /\ Did(Ups[m], k + 1, Granting))
  BY <1>2 DEF RisenGrants
<1>12. /\ \A t : t \in RisenFilled(n, k) <=>
                  t \in FilledAt(n) \/ (t \in NewFilled(m) /\ Did(Ups[m], k, {"fill"}))
       /\ \A t : t \in RisenFilled(n, k + 1) <=>
                  t \in FilledAt(n) \/ (t \in NewFilled(m) /\ Did(Ups[m], k + 1, {"fill"}))
  BY <1>2 DEF RisenFilled
<1>13. /\ s.do = "create" => /\ RisenTables(n, k + 1) = RisenTables(n, k) \cup {s.table}
                             /\ s.table \in Tables \ RisenTables(n, k)
                             /\ References[s.table] \subseteq RisenTables(n, k)
       /\ s.do = "drop" => /\ RisenTables(n, k + 1) = RisenTables(n, k) \ {s.table}
                           /\ s.table \in RisenTables(n, k)
                           /\ \A t \in RisenTables(n, k) : s.table \notin References[t]
       /\ s.do \notin {"create", "drop"} => RisenTables(n, k + 1) = RisenTables(n, k)
  BY <1>1, RisenTablesNext
<1>14. \A t : t \in RisenTables(n, k) <=>
                /\ t \in Tables /\ (Born[t] <= n \/ (Born[t] = m /\ Place[t] < k))
                /\ t = "auth_security_events" => n < 2 \/ (n = 2 /\ k <= 11)
  BY <1>2 DEF RisenTables
<1>15. n >= 2 => FirstPermissions \subseteq PermissionsAt(n) /\ "roles" \in FilledAt(n)
  <2>1. n \in 0 .. 10 /\ (n >= 2 => 2 \in 1 .. n)
    OBVIOUS
  <2>2. QED BY <2>1, SeedsAt, NewCodesAre, NewFilledAre
<1>16. /\ PermissionsAt(n) \cap NewCodes(m) = {}
  BY <1>2, LastCodes
<1>17. s.do # "drop" => /\ e.tables = d.tables \cup {t \in {s.table} : s.do = "create"}
                        /\ e.filled = d.filled \cup {t \in {s.table} : s.do = "fill"}
  BY <1>7
<1>18. /\ e.permissions = d.permissions \cup {c \in s.data : s.do = "permit"}
       /\ e.grants = d.grants \cup {g \in s.data : s.do \in Granting}
  <2>1. /\ s.do \notin {"forbid", "revoke"}
        /\ s.do = "drop" => s.table = "auth_security_events"
    BY <1>5 DEF Makes, Granting
  <2>2. QED BY <1>7, <2>1
<1>19. s.do = "permit" => s.data = NewCodes(m)
  BY <1>5 DEF Makes
<1>20. s.do \in Granting => s.data = NewGrants(m)
  BY <1>5 DEF Makes
<1>21. s.do = "fill" => NewFilled(m) = {s.table} /\ s.table \in Tables
                        /\ s.table # "auth_security_events" /\ Born[s.table] = m
                        /\ Place[s.table] < k /\ ~Did(Ups[m], k, {"fill"})
  BY <1>5 DEF Makes
<1>22. e.permissions = RisenCodes(n, k + 1)
  <2>1. CASE s.do = "permit"
    BY <1>8, <1>9, <1>10, <1>18, <1>19, <2>1
  <2>2. CASE s.do # "permit"
    BY <1>8, <1>9, <1>10, <1>18, <2>2
  <2>3. QED BY <2>1, <2>2
<1>23. \A g : g \notin Edits => (g \in e.grants <=> g \in RisenGrants(n, k + 1))
  <2>1. CASE s.do \in Granting
    BY <1>8, <1>9, <1>11, <1>18, <1>20, <2>1
  <2>2. CASE s.do \notin Granting
    BY <1>8, <1>9, <1>11, <1>18, <2>2
  <2>3. QED BY <2>1, <2>2
<1>24. RisenFilled(n, k + 1) \subseteq e.filled
  <2>1. CASE s.do = "drop"
    <3>1. s.table = "auth_security_events"
      BY <1>5, <2>1 DEF Makes
    <3>2. "auth_security_events" \notin RisenFilled(n, k)
      <4>1. "auth_security_events" \notin FilledAt(n)
        BY FilledOwn
      <4>2. m = 3
        BY <1>5, <2>1 DEF Makes
      <4>3. "auth_security_events" \notin NewFilled(m)
        BY <4>2, NewFilledAre
      <4>4. QED BY <1>12, <4>1, <4>3
    <3>3. RisenFilled(n, k + 1) = RisenFilled(n, k)
      BY <1>9, <1>12, <2>1
    <3>4. e.filled = d.filled \ {s.table}
      BY <1>7, <2>1
    <3>5. QED BY <1>8, <3>1, <3>2, <3>3, <3>4
  <2>2. CASE s.do = "fill"
    BY <1>8, <1>9, <1>12, <1>17, <1>21, <2>2
  <2>3. CASE s.do \notin {"drop", "fill"}
    BY <1>8, <1>9, <1>12, <1>17, <2>3
  <2>4. QED BY <2>1, <2>2, <2>3
<1>25. e.tables = RisenTables(n, k + 1)
  <2>1. CASE s.do = "create"
    BY <1>8, <1>13, <1>17, <2>1
  <2>2. CASE s.do = "drop"
    <3>1. e.tables = d.tables \ {s.table}
      BY <1>7, <2>2
    <3>2. QED BY <1>8, <1>13, <2>2, <3>1
  <2>3. CASE s.do \notin {"create", "drop"}
    BY <1>8, <1>13, <1>17, <2>3
  <2>4. QED BY <2>1, <2>2, <2>3
<1>26. ~Did(Ups[m], k + 1, {"fill"}) => \A t \in e.filled : Born[t] <= n
  <2>1. s.do # "fill" => e.filled \subseteq d.filled
    BY <1>7
  <2>2. QED BY <1>8, <1>9, <2>1
<1>27. ASSUME s.do \in Granting, NEW g \in NewGrants(m)
       PROVE  g[2] \in d.permissions
  <2>1. m >= 2 /\ (NewCodes(m) # {} => Did(Ups[m], k, {"permit"}))
    BY <1>5, <1>27 DEF Makes
  <2>2. g[2] \in NewCodes(m) \/ (m \in {3, 10} /\ g[2] \in FirstPermissions)
    BY <1>3, GrantsOwn
  <2>3. CASE g[2] \in NewCodes(m)
    BY <1>8, <1>10, <2>1, <2>3
  <2>4. CASE m \in {3, 10} /\ g[2] \in FirstPermissions
    BY <1>2, <1>8, <1>10, <1>15, <2>4
  <2>5. QED BY <2>2, <2>3, <2>4
<1>28. Allowed(e)
  <2>1. d.permissions \subseteq e.permissions
    BY <1>18
  <2>2. ASSUME NEW g \in e.grants PROVE g[2] \in e.permissions
    <3>1. g \in d.grants \/ (s.do \in Granting /\ g \in NewGrants(m))
      BY <1>18, <1>20
    <3>2. g \in d.grants => g[2] \in d.permissions
      BY DEF Allowed, Codes
    <3>3. QED BY <1>27, <2>1, <3>1, <3>2
  <2>3. QED BY <2>2 DEF Allowed, Codes
<1>29. ~Did(Ups[m], k + 1, Granting) => Codes(e.grants) \subseteq PermissionsAt(n)
  <2>1. s.do \notin Granting => e.grants = d.grants
    BY <1>18
  <2>2. QED BY <1>8, <1>9, <2>1
<1>30. ASSUME m = 3, ~Did(Ups[m], k, Granting), SA \in d.grants PROVE SA \in Edits
  <2>1. n = 2 /\ 2 \in 0 .. 10 /\ \A i \in 1 .. 2 : i = 1 \/ i = 2
    BY <1>2, <1>30
  <2>2. SA \notin NewGrants(1) /\ SA \notin NewGrants(2)
    BY NewGrantsAre, GrantsOwn
  <2>3. SA \notin GrantsAt(n)
    BY <2>1, <2>2, SeedsAt
  <2>4. SA \notin RisenGrants(n, k)
    BY <1>11, <1>30, <2>3
  <2>5. QED BY <1>8, <1>30, <2>4
<1>31. Risen(e, n, k + 1)
  BY <1>2, <1>22, <1>23, <1>24, <1>25, <1>26, <1>29 DEF Risen
<1>32. s.do = "backfill" => Risen(e, n, k)
  <2>1. SUFFICES ASSUME s.do = "backfill" PROVE Risen(e, n, k)
    OBVIOUS
  <2>2. /\ e.tables = d.tables /\ e.filled = d.filled /\ e.permissions = d.permissions
        /\ e.grants = d.grants
    BY <1>7, <2>1 DEF Granting
  <2>3. QED BY <2>2 DEF Risen
<1>33. Possible(s, d) \/ GivenEarly(m, s, d)
  <2>1. CASE s.do = "create"
    BY <1>8, <1>13, <2>1 DEF Possible
  <2>2. CASE s.do = "drop"
    BY <1>8, <1>13, <2>2 DEF Possible
  <2>3. CASE s.do = "fill"
    <3>1. s.table \in RisenTables(n, k)
      BY <1>14, <1>21, <2>3
    <3>2. s.table \notin d.filled
      BY <1>2, <1>8, <1>21, <2>3
    <3>3. QED BY <1>8, <2>3, <3>1, <3>2 DEF Possible
  <2>4. CASE s.do = "permit"
    <3>1. s.table = "permissions" /\ m >= 2 /\ (m = 2 => k > 11) /\ ~Did(Ups[m], k, {"permit"})
      BY <1>5, <2>4 DEF Makes
    <3>2. "permissions" \in Tables /\ Born["permissions"] = 2 /\ Place["permissions"] = 3
      BY TableList, BornIs, PlaceIs
    <3>3. s.table \in RisenTables(n, k)
      BY <1>2, <1>4, <1>14, <3>1, <3>2
    <3>4. s.data \cap d.permissions = {}
      BY <1>8, <1>10, <1>16, <1>19, <2>4, <3>1
    <3>5. QED BY <1>8, <2>4, <3>3, <3>4 DEF Possible
  <2>5. CASE s.do \in Granting
    <3>1. /\ s.table = "role_permissions" /\ m >= 2 /\ ~Did(Ups[m], k, Granting)
          /\ m = 2 => k > 12 /\ Did(Ups[m], k, {"fill"})
          /\ s.do = "grant" <=> m # 10
      BY <1>5, <2>5 DEF Makes
    <3>2. /\ "role_permissions" \in Tables /\ Born["role_permissions"] = 2
          /\ Place["role_permissions"] = 5
      BY TableList, BornIs, PlaceIs
    <3>3. s.table \in d.tables
      BY <1>2, <1>4, <1>8, <1>14, <3>1, <3>2
    <3>4. "roles" \in d.filled
      <4>1. CASE m = 2
        BY <1>8, <1>12, <3>1, <4>1, NewFilledAre
      <4>2. CASE m # 2
        BY <1>2, <1>3, <1>8, <1>12, <1>15, <3>1, <4>2
      <4>3. QED BY <4>1, <4>2
    <3>5. Codes(s.data) \subseteq d.permissions
      BY <1>20, <1>27, <2>5 DEF Codes
    <3>6. ASSUME m # 10, NEW g \in NewGrants(m), g \in d.grants PROVE m = 3 /\ g = SA
      <4>1. g[2] \in PermissionsAt(n)
        BY <1>8, <3>1, <3>6 DEF Codes
      <4>2. g[2] \in NewCodes(m) \/ m = 3
        BY <1>3, <3>6, GrantsOwn
      <4>3. m = 3 => g[2] \in NewCodes(m) \/ g = SA
        BY <1>3, <3>6, GrantsOwn
      <4>4. QED BY <1>16, <4>1, <4>2, <4>3
    <3>7. s.do = "grant" => s.data \cap d.grants = {} \/ (m = 3 /\ SA \in d.grants)
      BY <1>20, <2>5, <3>1, <3>6
    <3>8. CASE s.do = "grant"
      <4>1. CASE s.data \cap d.grants = {}
        BY <3>3, <3>4, <3>5, <3>8, <4>1 DEF Possible
      <4>2. CASE m = 3 /\ SA \in d.grants
        BY <1>30, <3>1, <3>8, <4>2 DEF GivenEarly
      <4>3. QED BY <3>7, <3>8, <4>1, <4>2
    <3>9. CASE s.do = "grantMissing"
      BY <3>3, <3>4, <3>5, <3>9 DEF Possible
    <3>10. QED BY <2>5, <3>8, <3>9 DEF Granting
  <2>6. CASE s.do = "backfill"
    <3>1. m = 3 /\ k = 10
      BY <1>5, <2>6 DEF Makes
    <3>2. /\ {"audit_outbox", "auth_security_events"} \subseteq Tables
          /\ Born["audit_outbox"] = 3 /\ Place["audit_outbox"] = 1
          /\ Born["auth_security_events"] = 2
      BY TableList, BornIs, PlaceIs
    <3>3. {"audit_outbox", "auth_security_events"} \subseteq d.tables
      BY <1>2, <1>8, <1>14, <3>1, <3>2
    <3>4. QED BY <2>6, <3>3 DEF Possible
  <2>7. QED BY <1>5, <2>1, <2>2, <2>3, <2>4, <2>5, <2>6 DEF Makes, Granting
<1>34. QED BY <1>1, <1>2, <1>6, <1>28, <1>31, <1>32, <1>33

(***************************************************************************)
(* One statement down                                                      *)
(***************************************************************************)

\* The next statement down adds or drops the table it names, and may do so.
LEMMA LeftTablesNext ==
    ASSUME NEW n \in 1 .. 10, NEW k \in 1 .. Len(Downs[n])
    PROVE  /\ Downs[n][k].do = "create" =>
                /\ LeftTables(n, k + 1) = LeftTables(n, k) \cup {Downs[n][k].table}
                /\ Downs[n][k].table \in Tables \ LeftTables(n, k)
                /\ References[Downs[n][k].table] \subseteq LeftTables(n, k)
           /\ Downs[n][k].do = "drop" =>
                /\ LeftTables(n, k + 1) = LeftTables(n, k) \ {Downs[n][k].table}
                /\ Downs[n][k].table \in LeftTables(n, k)
                /\ \A t \in LeftTables(n, k) \ {Downs[n][k].table} :
                     Downs[n][k].table \notin References[t]
           /\ Downs[n][k].do \notin {"create", "drop"} => LeftTables(n, k + 1) = LeftTables(n, k)
<1>1. PICK s : s = Downs[n][k]
  OBVIOUS
<1>2. Unmakings(n) /\ Len(Downs[n]) \in Nat
  BY AllUnmakings DEF Unmakings
<1>3. k \in Nat /\ k >= 1
  BY <1>2
<1>4. Unmakes(n, k, s)
  BY <1>1, <1>2 DEF Unmakings
<1>5. \A t \in Tables : Born[t] = n /\ Undo[t] = k => s = Drop(t)
  BY <1>1, Undone
<1>6. n = 3 /\ k = 1 => s.do = "create"
  BY <1>1, ScriptsAre, AuditDownIs DEF Create
<1>7. \A t \in Tables : Born[t] \in Nat /\ Undo[t] \in Nat
  BY TableNumbers
<1>8. Born["auth_security_events"] = 2 /\ "auth_security_events" \in Tables
  BY BornIs, TableList
<1>9. /\ \A t : t \in LeftTables(n, k) <=>
                /\ t \in Tables /\ (Born[t] < n \/ (Born[t] = n /\ Undo[t] >= k))
                /\ t = "auth_security_events" => n <= 2 \/ (n = 3 /\ k > 1)
      /\ \A t : t \in LeftTables(n, k + 1) <=>
                /\ t \in Tables /\ (Born[t] < n \/ (Born[t] = n /\ Undo[t] >= k + 1))
                /\ t = "auth_security_events" => n <= 2 \/ (n = 3 /\ k + 1 > 1)
  BY DEF LeftTables
<1>10. CASE s.do = "create"
  <2>1. n = 3 /\ k = 1 /\ s.table = "auth_security_events"
    BY <1>4, <1>10 DEF Unmakes
  <2>2. \A t \in Tables : ~(Born[t] = n /\ Undo[t] = k)
    BY <1>5, <1>10 DEF Drop
  <2>3. s.table \in Tables \ LeftTables(n, k)
    BY <1>8, <1>9, <2>1
  <2>4. LeftTables(n, k + 1) = LeftTables(n, k) \cup {s.table}
    <3>1. \A t : t \in LeftTables(n, k) => t \in LeftTables(n, k + 1)
      BY <1>7, <1>9, <2>1, <2>2
    <3>2. s.table \in LeftTables(n, k + 1)
      BY <1>8, <1>9, <2>1
    <3>3. \A t : t \in LeftTables(n, k + 1) => t \in LeftTables(n, k) \/ t = s.table
      BY <1>7, <1>9, <2>1
    <3>4. QED BY <3>1, <3>2, <3>3
  <2>5. References[s.table] \subseteq LeftTables(n, k)
    <3>1. \A r \in References[s.table] : Before(r, s.table)
      BY <2>3, ReferencesFirst
    <3>2. QED BY <1>7, <1>8, <1>9, <2>1, <3>1 DEF Before
  <2>6. QED BY <1>1, <1>10, <2>3, <2>4, <2>5
<1>11. CASE s.do = "drop"
  <2>1. s.table \in Tables /\ Born[s.table] = n /\ Undo[s.table] = k
    BY <1>4, <1>11 DEF Unmakes
  <2>2. \A t \in Tables : Born[t] = n /\ Undo[t] = k => t = s.table
    BY <1>5 DEF Drop
  <2>3. ~(n = 3 /\ k = 1)
    BY <1>6, <1>11
  <2>4. s.table \in LeftTables(n, k)
    BY <1>3, <1>8, <1>9, <2>1
  <2>5. LeftTables(n, k + 1) = LeftTables(n, k) \ {s.table}
    <3>1. \A t : t \in LeftTables(n, k + 1) => t \in LeftTables(n, k) /\ t # s.table
      BY <1>3, <1>7, <1>9, <2>1, <2>3
    <3>2. \A t : t \in LeftTables(n, k) /\ t # s.table => t \in LeftTables(n, k + 1)
      BY <1>3, <1>7, <1>9, <2>2
    <3>3. QED BY <3>1, <3>2
  <2>6. ASSUME NEW t \in LeftTables(n, k), t # s.table, s.table \in References[t] PROVE FALSE
    <3>1. t \in Tables /\ (Born[t] < n \/ (Born[t] = n /\ Undo[t] >= k))
      BY <1>9
    <3>2. Before(s.table, t)
      BY <2>6, <3>1, ReferencesFirst
    <3>3. QED BY <1>7, <2>1, <3>1, <3>2 DEF Before
  <2>7. QED BY <1>1, <1>11, <2>4, <2>5, <2>6
<1>12. CASE s.do \notin {"create", "drop"}
  <2>1. \A t \in Tables : ~(Born[t] = n /\ Undo[t] = k)
    BY <1>5, <1>12 DEF Drop
  <2>2. ~(n = 3 /\ k = 1)
    BY <1>6, <1>12
  <2>3. \A t : t \in LeftTables(n, k) <=> t \in LeftTables(n, k + 1)
    BY <1>3, <1>7, <1>9, <2>1, <2>2
  <2>4. QED BY <1>1, <1>12, <2>3
<1>13. QED BY <1>10, <1>11, <1>12

\* The next statement down withdraws the grants it revokes, or every one.
LEMMA WithdrawnNext ==
    ASSUME NEW n \in 1 .. 10, NEW k \in 1 .. Len(Downs[n])
    PROVE  \A g : g \in Withdrawn(n, k + 1) <=>
             \/ g \in Withdrawn(n, k)
             \/ Downs[n][k].do = "revoke" /\ g \in Downs[n][k].data
             \/ n = 2 /\ k = 7 /\ g \in SeededRoles \X SeededPermissions
<1>1. k \in Nat /\ k >= 1
  BY AllUnmakings DEF Unmakings
<1>2. \A j : j \in 1 .. (k + 1) - 1 <=> j \in 1 .. k - 1 \/ j = k
  BY <1>1
<1>3. \A g : /\ g \in Revoked(n, k) <=>
                  \E j \in 1 .. k - 1 : Downs[n][j].do = "revoke" /\ g \in Downs[n][j].data
             /\ g \in Revoked(n, k + 1) <=>
                  \E j \in 1 .. (k + 1) - 1 : Downs[n][j].do = "revoke" /\ g \in Downs[n][j].data
  BY DEF Revoked
<1>4. \A g : g \in Revoked(n, k + 1) <=>
               g \in Revoked(n, k) \/ (Downs[n][k].do = "revoke" /\ g \in Downs[n][k].data)
  BY <1>2, <1>3
<1>5. Undo["role_permissions"] = 7
  BY UndoIs
<1>6. k + 1 > 7 <=> k > 7 \/ k = 7
  BY <1>1
<1>7. QED BY <1>4, <1>5, <1>6 DEF Withdrawn

(***************************************************************************)
(* Every statement down                                                    *)
(***************************************************************************)

\* A statement on the way down is accepted, and leaves the database one statement further.
LEMMA FallingStep ==
    ASSUME NEW n \in 1 .. 10, NEW k \in 1 .. Len(Downs[n]), NEW d,
           IsDatabase(d), Kept(d), Allowed(d), Fallen(d, n, k)
    PROVE  /\ Possible(Downs[n][k], d)
           /\ Allowed(Executed(Downs[n][k], d))
           /\ Fallen(Executed(Downs[n][k], d), n, k + 1)
           /\ Downs[n][k].do = "restore" => Fallen(Executed(Downs[n][k], d), n, k)
<1>1. PICK s : s = Downs[n][k]
  OBVIOUS
<1>2. Unmakings(n) /\ Len(Downs[n]) \in Nat
  BY AllUnmakings DEF Unmakings
<1>3. k \in Nat /\ k >= 1
  BY <1>2
<1>4. Unmakes(n, k, s)
  BY <1>1, <1>2 DEF Unmakings
<1>5. PICK e : e = Executed(s, d)
  OBVIOUS
<1>6. s.do \in {"create", "drop", "revoke", "forbid", "restore"}
  BY <1>4 DEF Unmakes
<1>7. /\ e.tables = {t \in d.tables : s.do = "drop" => t # s.table}
                    \cup {t \in {s.table} : s.do = "create"}
      /\ e.filled = {t \in d.filled : s.do = "drop" => t # s.table}
      /\ e.permissions = {c \in d.permissions : /\ s.do = "forbid" => c \notin s.data
                                                /\ ~(s.do = "drop" /\ s.table = "permissions")}
      /\ e.grants = {g \in d.grants : /\ s.do = "revoke" => g \notin s.data
                                      /\ ~(s.do = "drop" /\ s.table = "role_permissions")}
  BY <1>5, <1>6, Outcome DEF Granting
<1>8. /\ d.tables = LeftTables(n, k) /\ d.permissions = LeftCodes(n, k)
      /\ \A g : g \notin Edits => (g \in d.grants <=> g \in GrantsAt(n) /\ g \notin Withdrawn(n, k))
      /\ FilledAt(n) \cap d.tables \subseteq d.filled
      /\ d.grants \cap Withdrawn(n, k) = {}
  BY DEF Fallen
<1>9. \A kinds : Did(Downs[n], k + 1, kinds) <=> Did(Downs[n], k, kinds) \/ s.do \in kinds
  BY <1>1, <1>3, DidNext
<1>10. /\ Undo["permissions"] = 9 /\ Undo["role_permissions"] = 7
       /\ Born["permissions"] = 2 /\ Born["role_permissions"] = 2
       /\ "permissions" \in Tables /\ "role_permissions" \in Tables
  BY UndoIs, BornIs, TableList
<1>11. /\ \A c : c \in LeftCodes(n, k) <=>
            /\ c \in PermissionsAt(n)
            /\ Did(Downs[n], k, {"forbid"}) \/ (n = 2 /\ k > 9) => c \notin NewCodes(n)
       /\ \A c : c \in LeftCodes(n, k + 1) <=>
            /\ c \in PermissionsAt(n)
            /\ Did(Downs[n], k + 1, {"forbid"}) \/ (n = 2 /\ k + 1 > 9) => c \notin NewCodes(n)
  BY <1>10 DEF LeftCodes
<1>12. \A g : g \in Withdrawn(n, k + 1) <=>
         \/ g \in Withdrawn(n, k)
         \/ s.do = "revoke" /\ g \in s.data
         \/ n = 2 /\ k = 7 /\ g \in SeededRoles \X SeededPermissions
  BY <1>1, WithdrawnNext
<1>13. /\ s.do = "create" => /\ LeftTables(n, k + 1) = LeftTables(n, k) \cup {s.table}
                             /\ s.table \in Tables \ LeftTables(n, k)
                             /\ References[s.table] \subseteq LeftTables(n, k)
       /\ s.do = "drop" => /\ LeftTables(n, k + 1) = LeftTables(n, k) \ {s.table}
                           /\ s.table \in LeftTables(n, k)
                           /\ \A t \in LeftTables(n, k) \ {s.table} : s.table \notin References[t]
       /\ s.do \notin {"create", "drop"} => LeftTables(n, k + 1) = LeftTables(n, k)
  BY <1>1, LeftTablesNext
<1>14. s.do = "drop" => /\ s.table = "permissions" <=> n = 2 /\ k = 9
                        /\ s.table = "role_permissions" <=> n = 2 /\ k = 7
  <2>1. s.do = "drop" => s.table \in Tables /\ Born[s.table] = n /\ Undo[s.table] = k
    BY <1>4 DEF Unmakes
  <2>2. n = 2 /\ k = 9 => s.table = "permissions"
    BY <1>1, ScriptsAre, IdentityDownIs DEF Drop
  <2>3. n = 2 /\ k = 7 => s.table = "role_permissions"
    BY <1>1, ScriptsAre, IdentityDownIs DEF Drop
  <2>4. QED BY <1>10, <2>1, <2>2, <2>3
<1>15. n = 2 /\ k \in {7, 9} => s.do = "drop"
  BY <1>1, ScriptsAre, IdentityDownIs DEF Drop
<1>16. s.do = "forbid" => /\ s.table = "permissions" /\ n >= 3 /\ s.data = NewCodes(n)
                          /\ AllRoles(s.data) \subseteq Withdrawn(n, k)
  BY <1>4 DEF Unmakes
<1>17. s.do = "revoke" => s.table = "role_permissions" /\ n >= 3
  BY <1>4 DEF Unmakes
<1>18. /\ s.do = "create" => s.table = "auth_security_events"
       /\ s.do = "restore" => n = 3 /\ k = 2
  BY <1>4 DEF Unmakes
<1>19. e.tables = LeftTables(n, k + 1)
  <2>1. CASE s.do = "create"
    BY <1>7, <1>8, <1>13, <2>1
  <2>2. CASE s.do = "drop"
    <3>1. e.tables = d.tables \ {s.table}
      BY <1>7, <2>2
    <3>2. QED BY <1>8, <1>13, <2>2, <3>1
  <2>3. CASE s.do \notin {"create", "drop"}
    BY <1>7, <1>8, <1>13, <2>3
  <2>4. QED BY <2>1, <2>2, <2>3
<1>20. PermissionsAt(2) = NewCodes(2)
  <2>1. /\ PermissionsAt(2) = PermissionsAt(1) \cup NewCodes(2)
        /\ PermissionsAt(1) = PermissionsAt(0) \cup NewCodes(1)
    <3>1. 1 \in 0 .. 9 /\ 0 \in 0 .. 9 /\ 1 + 1 = 2 /\ 0 + 1 = 1
      OBVIOUS
    <3>2. QED BY <3>1, LastCodes
  <2>2. QED BY <2>1, NothingAtFirst, NewCodesAre
<1>21. e.permissions = LeftCodes(n, k + 1)
  <2>1. CASE s.do = "forbid"
    <3>1. e.permissions = d.permissions \ NewCodes(n)
      BY <1>7, <1>16, <2>1
    <3>2. \A c : c \in LeftCodes(n, k + 1) <=> c \in LeftCodes(n, k) /\ c \notin NewCodes(n)
      BY <1>9, <1>11, <2>1
    <3>3. QED BY <1>8, <3>1, <3>2
  <2>2. CASE n = 2 /\ k = 9
    <3>1. e.permissions = {}
      BY <1>7, <1>14, <1>15, <2>2
    <3>2. \A c : c \notin LeftCodes(n, k + 1)
      BY <1>11, <1>20, <2>2
    <3>3. QED BY <3>1, <3>2
  <2>3. CASE s.do # "forbid" /\ ~(n = 2 /\ k = 9)
    <3>1. e.permissions = d.permissions
      BY <1>7, <1>14, <2>3
    <3>2. \A c : c \in LeftCodes(n, k + 1) <=> c \in LeftCodes(n, k)
      BY <1>3, <1>9, <1>11, <2>3
    <3>3. QED BY <1>8, <3>1, <3>2
  <2>4. QED BY <2>1, <2>2, <2>3
<1>22. GrantsAt(n) \subseteq SeededRoles \X SeededPermissions
  <2>1. ASSUME NEW g \in GrantsAt(n) PROVE g \in SeededRoles \X SeededPermissions
    <3>1. PICK m \in 1 .. n : g \in NewGrants(m)
      BY SeedsAt
    <3>2. m \in 1 .. 10
      OBVIOUS
    <3>3. QED BY <3>1, <3>2, GrantsOwn
  <2>2. QED BY <2>1
<1>23. \A g : g \in e.grants <=> g \in d.grants /\ g \notin Withdrawn(n, k + 1)
  <2>1. CASE s.do = "revoke"
    <3>1. e.grants = d.grants \ s.data
      BY <1>7, <2>1
    <3>2. QED BY <1>8, <1>12, <1>17, <2>1, <3>1
  <2>2. CASE n = 2 /\ k = 7
    <3>1. e.grants = {}
      BY <1>7, <1>14, <1>15, <2>2
    <3>2. \A g \in d.grants : g \in SeededRoles \X SeededPermissions
      BY DEF Kept
    <3>3. QED BY <1>12, <2>2, <3>1, <3>2
  <2>3. CASE s.do # "revoke" /\ ~(n = 2 /\ k = 7)
    <3>1. e.grants = d.grants
      BY <1>7, <1>14, <2>3
    <3>2. QED BY <1>8, <1>12, <2>3, <3>1
  <2>4. QED BY <2>1, <2>2, <2>3
<1>24. Withdrawn(n, k) \subseteq Withdrawn(n, k + 1)
  BY <1>12
<1>25. \A g : g \notin Edits =>
         (g \in e.grants <=> g \in GrantsAt(n) /\ g \notin Withdrawn(n, k + 1))
  BY <1>8, <1>23, <1>24
<1>26. e.grants \cap Withdrawn(n, k + 1) = {}
  BY <1>23
<1>28. FilledAt(n) \cap e.tables \subseteq e.filled
  <2>1. "auth_security_events" \notin FilledAt(n)
    BY FilledOwn
  <2>2. \A t \in FilledAt(n) \cap e.tables : t \in d.tables /\ (s.do = "drop" => t # s.table)
    BY <1>7, <1>18, <2>1
  <2>3. QED BY <1>7, <1>8, <2>2
<1>29. Fallen(e, n, k + 1)
  BY <1>19, <1>21, <1>25, <1>26, <1>28 DEF Fallen
<1>30. Codes(d.grants) \cap s.data = {} \/ s.do # "forbid"
  <2>1. ASSUME s.do = "forbid", NEW g \in d.grants, g[2] \in s.data PROVE FALSE
    <3>1. g \in SeededRoles \X s.data
      <4>1. g \in SeededRoles \X SeededPermissions
        BY DEF Kept
      <4>2. QED BY <2>1, <4>1
    <3>2. g \in Withdrawn(n, k)
      BY <1>16, <2>1, <3>1 DEF AllRoles
    <3>3. QED BY <1>8, <3>2
  <2>2. QED BY <2>1 DEF Codes
<1>31. Allowed(e)
  <2>1. CASE n = 2 /\ k = 9
    <3>1. SeededRoles \X SeededPermissions \subseteq Withdrawn(n, k)
      BY <1>10, <2>1 DEF Withdrawn
    <3>2. d.grants = {}
      BY <1>8, <3>1 DEF Kept
    <3>3. e.grants = {}
      BY <1>23, <3>2
    <3>4. QED BY <3>3 DEF Allowed, Codes
  <2>2. CASE ~(n = 2 /\ k = 9)
    <3>1. e.permissions = {c \in d.permissions : s.do = "forbid" => c \notin s.data}
      BY <1>7, <1>14, <2>2
    <3>2. ASSUME NEW g \in e.grants PROVE g[2] \in e.permissions
      <4>1. g \in d.grants
        BY <1>7
      <4>2. g[2] \in Codes(d.grants)
        BY <4>1 DEF Codes
      <4>3. QED BY <1>30, <3>1, <4>2 DEF Allowed
    <3>3. QED BY <3>2 DEF Allowed, Codes
  <2>3. QED BY <2>1, <2>2
<1>32. s.do = "restore" => Fallen(e, n, k)
  <2>1. SUFFICES ASSUME s.do = "restore" PROVE Fallen(e, n, k)
    OBVIOUS
  <2>2. /\ e.tables = d.tables /\ e.filled = d.filled /\ e.permissions = d.permissions
        /\ e.grants = d.grants
    BY <1>7, <2>1
  <2>3. QED BY <2>2 DEF Fallen
<1>33. \A t \in Tables : Born[t] < n /\ t # "auth_security_events" => t \in d.tables
  BY <1>8 DEF LeftTables
<1>34. Possible(s, d)
  <2>1. CASE s.do = "create"
    BY <1>8, <1>13, <2>1 DEF Possible
  <2>2. CASE s.do = "drop"
    BY <1>8, <1>13, <2>2 DEF Possible
  <2>3. CASE s.do = "revoke"
    <3>1. s.table \in d.tables
      BY <1>10, <1>17, <1>33, <2>3
    <3>2. QED BY <2>3, <3>1 DEF Possible
  <2>4. CASE s.do = "forbid"
    <3>1. s.table \in d.tables
      BY <1>10, <1>16, <1>33, <2>4
    <3>2. QED BY <1>30, <2>4, <3>1 DEF Possible
  <2>5. CASE s.do = "restore"
    <3>1. /\ {"audit_outbox", "auth_security_events"} \subseteq Tables
          /\ Born["audit_outbox"] = 3 /\ Undo["audit_outbox"] = 11
          /\ Born["auth_security_events"] = 2
      BY TableList, BornIs, UndoIs
    <3>2. {"audit_outbox", "auth_security_events"} \subseteq d.tables
      BY <1>8, <1>18, <2>5, <3>1 DEF LeftTables
    <3>3. QED BY <2>5, <3>2 DEF Possible
  <2>6. QED BY <1>6, <2>1, <2>2, <2>3, <2>4, <2>5
<1>35. QED BY <1>1, <1>5, <1>29, <1>31, <1>32, <1>34

(***************************************************************************)
(* The first and the last statement                                        *)
(***************************************************************************)

\* With no statement done, the database is the one of the migrations in force.
LEMMA Settled ==
    ASSUME NEW n \in 0 .. 10, NEW d, Kept(d), Allowed(d)
    PROVE  Risen(d, n, 1) <=> /\ d.tables = RisenTables(n, 1)
                              /\ d.permissions = PermissionsAt(n)
                              /\ \A g : g \notin Edits => (g \in d.grants <=> g \in GrantsAt(n))
                              /\ FilledAt(n) \subseteq d.filled
<1>1. \A kinds : ~Did(Ups[n + 1], 1, kinds)
  BY DEF Did
<1>2. RisenCodes(n, 1) = PermissionsAt(n)
  BY <1>1 DEF RisenCodes
<1>3. RisenGrants(n, 1) = GrantsAt(n)
  BY <1>1 DEF RisenGrants
<1>4. RisenFilled(n, 1) = FilledAt(n)
  BY <1>1 DEF RisenFilled
<1>5. d.tables = RisenTables(n, 1) => \A t \in d.filled : Born[t] <= n
  <2>1. \A t \in RisenTables(n, 1) : Born[t] <= n
    BY TableNumbers DEF RisenTables
  <2>2. QED BY <2>1 DEF Kept
<1>6. d.permissions = PermissionsAt(n) => Codes(d.grants) \subseteq PermissionsAt(n)
  BY DEF Allowed
<1>7. QED BY <1>1, <1>2, <1>3, <1>4, <1>5, <1>6 DEF Risen

\* A migration whose statements are all done is in force.
LEMMA RisenWhole ==
    ASSUME NEW n \in 0 .. 9, NEW d, Kept(d), Allowed(d), Risen(d, n, Len(Ups[n + 1]) + 1)
    PROVE  Risen(d, n + 1, 1)
<1>1. PICK m : m = n + 1
  OBVIOUS
<1>2. PICK k : k = Len(Ups[m]) + 1
  OBVIOUS
<1>3. m \in 1 .. 10 /\ Makings(m) /\ Len(Ups[m]) \in Nat /\ Risen(d, n, k)
  <2>1. m \in 1 .. 10
    BY <1>1
  <2>2. QED BY <1>1, <1>2, <2>1, AllMakings DEF Makings
<1>4. /\ NewCodes(m) # {} => Did(Ups[m], k, {"permit"})
      /\ NewGrants(m) # {} => Did(Ups[m], k, Granting)
      /\ NewFilled(m) # {} => Did(Ups[m], k, {"fill"})
  BY <1>2, <1>3 DEF Makings
<1>5. /\ PermissionsAt(m) = PermissionsAt(n) \cup NewCodes(m)
      /\ GrantsAt(m) = GrantsAt(n) \cup NewGrants(m)
      /\ FilledAt(m) = FilledAt(n) \cup NewFilled(m)
  BY <1>1, LastCodes
<1>6. RisenCodes(n, k) = PermissionsAt(m)
  BY <1>1, <1>4, <1>5 DEF RisenCodes
<1>7. RisenGrants(n, k) = GrantsAt(m)
  BY <1>1, <1>4, <1>5 DEF RisenGrants
<1>8. RisenFilled(n, k) = FilledAt(m)
  BY <1>1, <1>4, <1>5 DEF RisenFilled
<1>9. RisenTables(n, k) = RisenTables(m, 1)
  <2>1. \A t \in Tables : /\ Born[t] \in Nat /\ Place[t] \in Nat /\ Place[t] >= 1
                          /\ Born[t] = m => Place[t] < k
    <3>1. \A t \in Tables : Born[t] \in 1 .. 10 /\ Place[t] \in 1 .. Len(Ups[Born[t]])
      BY TableNumbers
    <3>2. \A b \in 1 .. 10 : Len(Ups[b]) \in Nat
      BY AllMakings DEF Makings
    <3>3. ASSUME NEW t \in Tables, Born[t] = m PROVE Place[t] < k
      <4>1. Place[t] \in 1 .. Len(Ups[m])
        BY <3>1, <3>3
      <4>2. PICK l : l = Len(Ups[m])
        OBVIOUS
      <4>3. QED BY <1>2, <1>3, <4>1, <4>2
    <3>4. ASSUME NEW t \in Tables PROVE Born[t] \in Nat /\ Place[t] \in Nat /\ Place[t] >= 1
      <4>1. Born[t] \in 1 .. 10 /\ Place[t] \in 1 .. Len(Ups[Born[t]])
        BY <3>1
      <4>2. PICK l : l = Len(Ups[Born[t]])
        OBVIOUS
      <4>3. l \in Nat
        BY <3>2, <4>1, <4>2
      <4>4. QED BY <4>1, <4>2, <4>3
    <3>5. QED BY <3>3, <3>4
  <2>2. ASSUME m = 3 PROVE k = 12
    <3>1. k = Len(Ups[3]) + 1
      BY <1>2, <2>2
    <3>2. QED BY <3>1, LengthsAre
  <2>3. Born["auth_security_events"] = 2
    BY BornIs
  <2>4. \A t : t \in RisenTables(n, k) <=>
                 /\ t \in Tables /\ (Born[t] <= n \/ (Born[t] = m /\ Place[t] < k))
                 /\ t = "auth_security_events" => n < 2 \/ (n = 2 /\ k <= 11)
    BY <1>1 DEF RisenTables
  <2>5. \A t : t \in RisenTables(m, 1) <=>
                 /\ t \in Tables /\ (Born[t] <= m \/ (Born[t] = m + 1 /\ Place[t] < 1))
                 /\ t = "auth_security_events" => m < 2 \/ (m = 2 /\ 1 <= 11)
    BY DEF RisenTables
  <2>6. k \in Nat
    BY <1>2, <1>3
  <2>7. \A t \in Tables : (Born[t] <= n \/ (Born[t] = m /\ Place[t] < k))
                            <=> (Born[t] <= m \/ (Born[t] = m + 1 /\ Place[t] < 1))
    BY <1>1, <1>3, <2>1
  <2>8. (n < 2 \/ (n = 2 /\ k <= 11)) <=> (m < 2 \/ (m = 2 /\ 1 <= 11))
    BY <1>1, <1>3, <2>2, <2>6
  <2>9. \A t : t \in RisenTables(n, k) <=> t \in RisenTables(m, 1)
    BY <2>4, <2>5, <2>7, <2>8
  <2>10. QED BY <2>9
<1>10. /\ d.tables = RisenTables(n, k) /\ d.permissions = RisenCodes(n, k)
       /\ \A g : g \notin Edits => (g \in d.grants <=> g \in RisenGrants(n, k))
       /\ RisenFilled(n, k) \subseteq d.filled
  BY <1>3 DEF Risen
<1>11. m \in 0 .. 10
  BY <1>3
<1>12. Risen(d, m, 1)
  BY <1>6, <1>7, <1>8, <1>9, <1>10, <1>11, Settled
<1>13. QED BY <1>1, <1>12

\* An undoing that did nothing yet leaves the migration in force.
LEMMA FallenNone ==
    ASSUME NEW n \in 1 .. 10, NEW d, Kept(d), Allowed(d)
    PROVE  Fallen(d, n, 1) <=> Risen(d, n, 1)
<1>1. \A kinds : ~Did(Downs[n], 1, kinds)
  BY DEF Did
<1>2. Undo["permissions"] = 9 /\ Undo["role_permissions"] = 7
  BY UndoIs
<1>3. Withdrawn(n, 1) = {}
  BY <1>2 DEF Withdrawn, Revoked
<1>4. LeftCodes(n, 1) = PermissionsAt(n)
  BY <1>1, <1>2 DEF LeftCodes
<1>5. LeftTables(n, 1) = RisenTables(n, 1)
  <2>1. ASSUME NEW t \in Tables
        PROVE  /\ Born[t] \in Nat /\ Place[t] \in Nat /\ Place[t] >= 1
               /\ Undo[t] \in Nat /\ Undo[t] >= 1
    <3>1. PICK b, l, u : b = Born[t] /\ l = Len(Ups[Born[t]]) /\ u = Len(Downs[Born[t]])
      OBVIOUS
    <3>2. b \in 1 .. 10 /\ Place[t] \in 1 .. l /\ Undo[t] \in 1 .. u
      BY <3>1, TableNumbers
    <3>3. l \in Nat /\ u \in Nat
      <4>1. Born[t] \in 1 .. 10
        BY <3>1, <3>2
      <4>2. QED BY <3>1, <4>1, AllMakings, AllUnmakings DEF Makings, Unmakings
    <3>4. QED BY <3>1, <3>2, <3>3
  <2>2. \A t \in Tables : (Born[t] < n \/ (Born[t] = n /\ Undo[t] >= 1))
                            <=> (Born[t] <= n \/ (Born[t] = n + 1 /\ Place[t] < 1))
    BY <2>1
  <2>3. (n <= 2 \/ (n = 3 /\ 1 > 1)) <=> (n < 2 \/ (n = 2 /\ 1 <= 11))
    OBVIOUS
  <2>4. \A t : t \in LeftTables(n, 1) <=> t \in RisenTables(n, 1)
    BY <2>2, <2>3 DEF LeftTables, RisenTables
  <2>5. QED BY <2>4
<1>6. d.tables = RisenTables(n, 1) =>
        (FilledAt(n) \subseteq d.filled <=> FilledAt(n) \cap d.tables \subseteq d.filled)
  <2>1. ASSUME NEW t \in FilledAt(n) PROVE t \in RisenTables(n, 1)
    BY FilledOwn DEF RisenTables
  <2>2. QED BY <2>1
<1>7. n \in 0 .. 10
  OBVIOUS
<1>8. Fallen(d, n, 1) <=> /\ d.tables = RisenTables(n, 1)
                          /\ d.permissions = PermissionsAt(n)
                          /\ \A g : g \notin Edits => (g \in d.grants <=> g \in GrantsAt(n))
                          /\ FilledAt(n) \cap d.tables \subseteq d.filled
  BY <1>3, <1>4, <1>5 DEF Fallen
<1>9. QED BY <1>6, <1>7, <1>8, Settled

\* An undoing whose statements are all done leaves the migration before it.
LEMMA FallenWhole ==
    ASSUME NEW n \in 1 .. 10, NEW d, Kept(d), Allowed(d), Fallen(d, n, Len(Downs[n]) + 1)
    PROVE  Risen(d, n - 1, 1)
<1>1. PICK m : m = n - 1
  OBVIOUS
<1>2. PICK k : k = Len(Downs[n]) + 1
  OBVIOUS
<1>3. /\ m \in 0 .. 9 /\ m + 1 = n /\ Unmakings(n)
      /\ Len(Downs[n]) \in Nat /\ k \in Nat /\ Fallen(d, n, k)
  <2>1. m \in 0 .. 9 /\ m + 1 = n
    BY <1>1
  <2>2. Unmakings(n) /\ Len(Downs[n]) \in Nat
    BY AllUnmakings DEF Unmakings
  <2>3. QED BY <1>2, <2>1, <2>2
<1>4. /\ d.tables = LeftTables(n, k) /\ d.permissions = LeftCodes(n, k)
      /\ \A g : g \notin Edits => (g \in d.grants <=> g \in GrantsAt(n) /\ g \notin Withdrawn(n, k))
      /\ FilledAt(n) \cap d.tables \subseteq d.filled
      /\ d.grants \cap Withdrawn(n, k) = {}
  BY <1>3 DEF Fallen
<1>5. /\ PermissionsAt(n) = PermissionsAt(m) \cup NewCodes(n)
      /\ GrantsAt(n) = GrantsAt(m) \cup NewGrants(n)
      /\ FilledAt(n) = FilledAt(m) \cup NewFilled(n)
      /\ PermissionsAt(m) \cap NewCodes(n) = {}
  BY <1>3, LastCodes
<1>6. LeftCodes(n, k) = PermissionsAt(m)
  <2>1. NewCodes(n) # {} => Did(Downs[n], k, {"forbid"}) \/ (n = 2 /\ k > Undo["permissions"])
    <3>1. ASSUME n = 2 PROVE k = 12
      <4>1. k = Len(Downs[2]) + 1
        BY <1>2, <3>1
      <4>2. QED BY <4>1, LengthsAre
    <3>2. Undo["permissions"] = 9
      BY UndoIs
    <3>3. n # 2 /\ NewCodes(n) # {} => Did(Downs[n], k, {"forbid"})
      BY <1>2, <1>3 DEF Unmakings
    <3>4. QED BY <3>1, <3>2, <3>3
  <2>2. QED BY <1>5, <2>1 DEF LeftCodes
<1>7. \A g : g \in GrantsAt(n) /\ g \notin Withdrawn(n, k) <=> g \in GrantsAt(m)
  <2>1. NewGrants(n) \subseteq Withdrawn(n, k)
    BY <1>2, WithdrawnAtLast
  <2>2. Withdrawn(n, k) \subseteq Takes(n)
    <3>1. k \in 1 .. Len(Downs[n]) + 1
      BY <1>2, <1>3
    <3>2. QED BY <3>1, WithdrawnAtMost
  <2>3. GrantsAt(m) \cap Takes(n) = {}
    BY <1>3, TakesItsOwn
  <2>4. QED BY <1>5, <2>1, <2>2, <2>3
<1>8. LeftTables(n, k) = RisenTables(m, 1)
  <2>1. ASSUME NEW t \in Tables
        PROVE  /\ Born[t] \in Nat /\ Place[t] \in Nat /\ Place[t] >= 1 /\ Undo[t] \in Nat
               /\ Born[t] = n => Undo[t] < k
    <3>1. PICK b, l, u : b = Born[t] /\ l = Len(Ups[Born[t]]) /\ u = Len(Downs[Born[t]])
      OBVIOUS
    <3>2. b \in 1 .. 10 /\ Place[t] \in 1 .. l /\ Undo[t] \in 1 .. u
      BY <3>1, TableNumbers
    <3>3. l \in Nat /\ u \in Nat
      <4>1. Born[t] \in 1 .. 10
        BY <3>1, <3>2
      <4>2. QED BY <3>1, <4>1, AllMakings, AllUnmakings DEF Makings, Unmakings
    <3>4. Born[t] = n => k = u + 1
      BY <1>2, <3>1
    <3>5. QED BY <3>1, <3>2, <3>3, <3>4
  <2>2. \A t \in Tables : (Born[t] < n \/ (Born[t] = n /\ Undo[t] >= k))
                            <=> (Born[t] <= m \/ (Born[t] = m + 1 /\ Place[t] < 1))
    BY <1>3, <2>1
  <2>3. ASSUME n = 3 PROVE k = 12
    <3>1. k = Len(Downs[3]) + 1
      BY <1>2, <2>3
    <3>2. QED BY <3>1, LengthsAre
  <2>4. (n <= 2 \/ (n = 3 /\ k > 1)) <=> (m < 2 \/ (m = 2 /\ 1 <= 11))
    BY <1>3, <2>3
  <2>5. \A t : t \in LeftTables(n, k) <=> t \in RisenTables(m, 1)
    BY <2>2, <2>4 DEF LeftTables, RisenTables
  <2>6. QED BY <2>5
<1>9. FilledAt(m) \subseteq d.filled
  <2>1. ASSUME NEW t \in FilledAt(m) PROVE t \in d.tables
    <3>1. t \in Tables /\ Born[t] <= m /\ t # "auth_security_events"
      BY <1>3, FilledOwn
    <3>2. Born[t] \in Nat
      BY <3>1, TableNumbers
    <3>3. t \in LeftTables(n, k)
      BY <1>3, <3>1, <3>2 DEF LeftTables
    <3>4. QED BY <1>4, <3>3
  <2>2. QED BY <1>4, <1>5, <2>1
<1>10. m \in 0 .. 10
  BY <1>3
<1>11. Risen(d, m, 1)
  BY <1>4, <1>6, <1>7, <1>8, <1>9, <1>10, Settled
<1>12. QED BY <1>1, <1>11

(***************************************************************************)
(* Every step keeps the database sound                                     *)
(***************************************************************************)

\* With no migration cut short, the statement that comes next is possible, unless it adds
\* the grant an administrator gave before, and what it leaves is sound.
LEMMA NextIsSound ==
    ASSUME Steady, Sound, ~cut, tool # Idle, tool.at <= Len(Script)
    PROVE  LET s == Script[tool.at] IN
             /\ Possible(s, db) \/ (tool.way = "up" /\ GivenEarly(Migration, s, db))
             /\ Allowed(Executed(s, db))
             /\ tool.way = "up" =>
                  /\ Risen(Executed(s, db), applied, tool.at + 1)
                  /\ Left(s, db) # {} => Risen(Executed(s, db), applied, tool.at)
             /\ tool.way = "down" =>
                  /\ Fallen(Executed(s, db), applied, tool.at + 1)
                  /\ Left(s, db) # {} => Fallen(Executed(s, db), applied, tool.at)
<1> DEFINE s == Script[tool.at]
<1>0. IsDatabase(db) /\ Kept(db)
  BY DEF Steady
<1>1. Left(s, db) # {} => s.do \in {"backfill", "restore"}
  BY DEF Left
<1>2. Allowed(db)
  BY DEF Sound
<1>3. CASE /\ tool.way = "up" /\ applied \in 0 .. 9 /\ tool.at \in 1 .. Len(Ups[applied + 1])
           /\ Script = Ups[applied + 1] /\ Makes(applied + 1, tool.at, s)
  <2>1. Risen(db, applied, tool.at)
    BY <1>3 DEF Sound
  <2>2. /\ Possible(s, db) \/ GivenEarly(applied + 1, s, db)
        /\ Allowed(Executed(s, db))
        /\ Risen(Executed(s, db), applied, tool.at + 1)
        /\ s.do = "backfill" => Risen(Executed(s, db), applied, tool.at)
    BY <1>0, <1>2, <1>3, <2>1, RisingStep
  <2>3. s.do # "restore"
    BY <1>3 DEF Makes
  <2>4. Migration = applied + 1
    BY <1>3 DEF Migration
  <2>5. QED BY <1>1, <1>3, <2>2, <2>3, <2>4
<1>4. CASE /\ tool.way = "down" /\ applied \in 1 .. 10 /\ tool.at \in 1 .. Len(Downs[applied])
           /\ Script = Downs[applied] /\ Unmakes(applied, tool.at, s)
  <2>1. Fallen(db, applied, tool.at)
    BY <1>4 DEF Sound
  <2>2. /\ Possible(s, db) /\ Allowed(Executed(s, db))
        /\ Fallen(Executed(s, db), applied, tool.at + 1)
        /\ s.do = "restore" => Fallen(Executed(s, db), applied, tool.at)
    BY <1>0, <1>2, <1>4, <2>1, FallingStep
  <2>3. s.do # "backfill"
    BY <1>4 DEF Unmakes
  <2>4. QED BY <1>1, <1>4, <2>2, <2>3
<1>5. QED BY <1>3, <1>4, NextStatement

\* The database stays as far as the statements went.
LEMMA SoundStep == Steady /\ Sound /\ [Next]_vars => Sound'
<1> SUFFICES ASSUME Steady, Sound, [Next]_vars PROVE Sound'
  OBVIOUS
<1>0. /\ IsDatabase(db) /\ Kept(db) /\ applied \in 0 .. 10
      /\ tool # Idle => \/ /\ tool.way = "up" /\ applied \in 0 .. 9
                           /\ tool.at \in 1 .. Len(Ups[applied + 1]) + 1
                        \/ /\ tool.way = "down" /\ applied \in 1 .. 10
                           /\ tool.at \in 1 .. Len(Downs[applied]) + 1
  BY DEF Steady
<1>1. CASE UNCHANGED vars
  <2>1. db' = db /\ tool' = tool /\ applied' = applied /\ cut' = cut
    BY <1>1 DEF vars
  <2>2. QED BY <2>1 DEF Sound, Allowed, Risen, Fallen
<1>2. ASSUME NEW c \in {"migrate", "rollback", "fresh"}, NEW w \in {"up", "down"}, Start(c, w),
             w = "up" => applied < 10, w = "down" => applied > 0
      PROVE  Sound'
  <2>1. /\ tool = Idle /\ tool'.way = w /\ tool'.at = 1 /\ tool'.command = c
        /\ db' = db /\ applied' = applied /\ cut' = cut
    BY <1>2 DEF Start
  <2>2. tool' # Idle
    BY <2>1 DEF Idle
  <2>3. ~cut => Allowed(db) /\ Risen(db, applied, 1)
    BY <2>1 DEF Sound
  <2>4. ~cut /\ w = "down" => Fallen(db, applied, 1)
    <3>1. w = "down" => applied \in 1 .. 10
      BY <1>0, <1>2
    <3>2. QED BY <1>0, <2>3, <3>1, FallenNone
  <2>5. /\ Risen(db, applied, 1)' <=> Risen(db, applied, 1)
        /\ Fallen(db, applied, 1)' <=> Fallen(db, applied, 1)
        /\ Allowed(db)' <=> Allowed(db)
    BY <2>1 DEF Risen, Fallen, Allowed
  <2>6. Sound'
    BY <2>1, <2>2, <2>3, <2>4, <2>5 DEF Sound
  <2>7. QED BY <2>1, <2>6
<1>3. CASE Migrate \/ Rollback \/ Fresh
  <2>1. CASE Migrate
    BY <1>2, <2>1, ScriptsAre DEF Migrate
  <2>2. CASE Rollback
    BY <1>2, <2>2 DEF Rollback
  <2>3. CASE Fresh
    <3>1. CASE applied > 0
      BY <1>2, <2>3, <3>1 DEF Fresh
    <3>2. CASE ~(applied > 0)
      <4>1. applied < 10
        BY <1>0, <3>2
      <4>2. QED BY <1>2, <2>3, <3>2, <4>1 DEF Fresh
    <3>3. QED BY <3>1, <3>2
  <2>4. QED BY <1>3, <2>1, <2>2, <2>3
<1>4. CASE Statement
  <2> DEFINE s == Script[tool.at]
  <2>1. /\ tool # Idle /\ tool.at <= Len(Script) /\ db' = Executed(s, db)
        /\ Left(s, db) = {} => tool' = [tool EXCEPT !.at = @ + 1]
        /\ Left(s, db) # {} => tool' = tool
        /\ applied' = applied /\ cut' = cut
    BY <1>4 DEF Statement
  <2>2. /\ tool'.way = tool.way
        /\ Left(s, db) = {} => tool'.at = tool.at + 1
        /\ Left(s, db) # {} => tool'.at = tool.at
    BY <2>1 DEF Steady
  <2>3. tool' # Idle
    <3>1. CASE Left(s, db) # {}
      BY <2>1, <3>1
    <3>2. CASE Left(s, db) = {}
      <4>1. tool'.command = tool.command /\ tool.command # "none"
        BY <2>1, <3>2 DEF Steady
      <4>2. QED BY <4>1 DEF Idle
    <3>3. QED BY <3>1, <3>2
  <2>4. SUFFICES ASSUME ~cut PROVE Sound'
    BY <2>1 DEF Sound
  <2> HIDE DEF s
  <2>5. /\ Allowed(db') /\ tool.way = "up" => Risen(db', applied, tool'.at)
        /\ Allowed(db') /\ tool.way = "down" => Fallen(db', applied, tool'.at)
        /\ Allowed(db')
    <3>1. /\ Allowed(Executed(s, db))
          /\ tool.way = "up" =>
               /\ Risen(Executed(s, db), applied, tool.at + 1)
               /\ Left(s, db) # {} => Risen(Executed(s, db), applied, tool.at)
          /\ tool.way = "down" =>
               /\ Fallen(Executed(s, db), applied, tool.at + 1)
               /\ Left(s, db) # {} => Fallen(Executed(s, db), applied, tool.at)
      BY <2>1, <2>4, NextIsSound DEF s
    <3>2. QED BY <2>1, <2>2, <3>1
  <2>6. QED BY <2>1, <2>2, <2>3, <2>5 DEF Sound
<1>5. CASE Record
  <2>1. /\ tool # Idle /\ tool.at > Len(Script) /\ db' = db /\ cut' = cut
        /\ applied' = IF tool.way = "up" THEN applied + 1 ELSE applied - 1
    BY <1>5 DEF Record
  <2>2. tool' = Idle \/ (tool'.at = 1 /\ (tool'.way = "up" \/ (tool'.way = "down" /\ applied' > 0)))
    <3>1. CASE tool' = Idle
      BY <3>1
    <3>2. CASE tool' = [tool EXCEPT !.at = 1] /\ tool.way = "up"
      BY <3>2 DEF Steady
    <3>3. CASE tool' = [tool EXCEPT !.at = 1, !.way = IF applied' > 0 THEN "down" ELSE "up"]
      BY <3>3 DEF Steady
    <3>4. QED BY <1>5, <3>1, <3>2, <3>3 DEF Record
  <2>3. SUFFICES ASSUME ~cut PROVE Sound'
    BY <2>1 DEF Sound
  <2>4. Allowed(db) /\ applied' \in 0 .. 10 /\ Risen(db, applied', 1)
    <3>1. Allowed(db)
      BY <2>3 DEF Sound
    <3>2. CASE tool.way = "up"
      <4>1. /\ applied \in 0 .. 9 /\ tool.at \in 1 .. Len(Ups[applied + 1]) + 1
            /\ tool.at > Len(Ups[applied + 1])
        BY <1>0, <2>1, <3>2 DEF Script, Migration
      <4>2. tool.at = Len(Ups[applied + 1]) + 1
        <5>1. PICK l : l = Len(Ups[applied + 1])
          OBVIOUS
        <5>2. applied + 1 \in 1 .. 10
          BY <4>1
        <5>3. l \in Nat
          BY <5>1, <5>2, AllMakings DEF Makings
        <5>4. QED BY <4>1, <5>1, <5>3
      <4>3. Risen(db, applied, Len(Ups[applied + 1]) + 1)
        BY <2>1, <2>3, <3>2, <4>2 DEF Sound
      <4>4. Risen(db, applied + 1, 1)
        BY <1>0, <3>1, <4>1, <4>3, RisenWhole
      <4>5. applied' = applied + 1
        BY <2>1, <3>2
      <4>6. QED BY <3>1, <4>1, <4>4, <4>5
    <3>3. CASE tool.way = "down"
      <4>1. /\ applied \in 1 .. 10 /\ tool.at \in 1 .. Len(Downs[applied]) + 1
            /\ tool.at > Len(Downs[applied])
        BY <1>0, <2>1, <3>3 DEF Script, Migration
      <4>2. tool.at = Len(Downs[applied]) + 1
        <5>1. PICK l : l = Len(Downs[applied])
          OBVIOUS
        <5>2. l \in Nat
          BY <4>1, <5>1, AllUnmakings DEF Unmakings
        <5>3. QED BY <4>1, <5>1, <5>2
      <4>3. Fallen(db, applied, Len(Downs[applied]) + 1)
        BY <2>1, <2>3, <3>3, <4>2 DEF Sound
      <4>4. Risen(db, applied - 1, 1)
        BY <1>0, <3>1, <4>1, <4>3, FallenWhole
      <4>5. applied' = applied - 1
        BY <2>1, <3>3
      <4>6. QED BY <3>1, <4>1, <4>4, <4>5
    <3>4. QED BY <1>0, <2>1, <3>2, <3>3
  <2>5. applied' > 0 => Fallen(db, applied', 1)
    <3>1. PICK n : n = applied'
      OBVIOUS
    <3>2. ASSUME n > 0 PROVE Fallen(db, n, 1)
      <4>1. n \in 1 .. 10 /\ Risen(db, n, 1) /\ Allowed(db)
        BY <2>4, <3>1, <3>2
      <4>2. QED BY <1>0, <4>1, FallenNone
    <3>3. QED BY <3>1, <3>2
  <2>6. Allowed(db') /\ Risen(db', applied', 1) /\ (applied' > 0 => Fallen(db', applied', 1))
    BY <2>1, <2>4, <2>5
  <2>7. QED BY <2>1, <2>2, <2>6 DEF Sound
<1>6. CASE Refused \/ Crash
  <2>1. /\ tool # Idle /\ tool' = Idle /\ cut' = (cut \/ tool.at > 1)
        /\ db' = db /\ applied' = applied
    BY <1>6 DEF Refused, Crash
  <2>2. SUFFICES ASSUME ~cut' PROVE Sound'
    BY <2>1 DEF Sound
  <2>3. ~cut /\ ~(tool.at > 1)
    BY <2>1, <2>2
  <2>4. Allowed(db)
    BY <2>3 DEF Sound
  <2>5. CASE tool.way = "up"
    <3>1. tool.at = 1
      <4>1. PICK l : l = Len(Ups[applied + 1])
        OBVIOUS
      <4>2. tool.at \in 1 .. l + 1
        BY <1>0, <2>1, <2>5, <4>1
      <4>3. QED BY <2>3, <4>2
    <3>2. Risen(db, applied, 1)
      BY <2>1, <2>3, <2>5, <3>1 DEF Sound
    <3>3. Allowed(db') /\ Risen(db', applied', 1)
      BY <2>1, <2>4, <3>2
    <3>4. QED BY <2>1, <3>3 DEF Sound
  <2>6. CASE tool.way = "down"
    <3>1. applied \in 1 .. 10 /\ tool.at = 1
      <4>1. PICK l : l = Len(Downs[applied])
        OBVIOUS
      <4>2. applied \in 1 .. 10 /\ tool.at \in 1 .. l + 1
        BY <1>0, <2>1, <2>6, <4>1
      <4>3. QED BY <2>3, <4>2
    <3>2. Fallen(db, applied, 1)
      BY <2>1, <2>3, <2>6, <3>1 DEF Sound
    <3>3. Risen(db, applied, 1)
      BY <1>0, <2>4, <3>1, <3>2, FallenNone
    <3>4. Allowed(db') /\ Risen(db', applied', 1)
      BY <2>1, <2>4, <3>3
    <3>5. QED BY <2>1, <3>4 DEF Sound
  <2>7. QED BY <1>0, <2>1, <2>5, <2>6
<1>7. CASE RecordEvent \/ EditGrants \/ CreateInitialAdmin \/ SeedDemo
  <2>1. tool = Idle /\ tool' = tool /\ applied' = applied /\ cut' = cut
    BY <1>7 DEF RecordEvent, EditGrants, CreateInitialAdmin, SeedDemo, Between
  <2>2. SUFFICES ASSUME ~cut PROVE Sound'
    BY <2>1 DEF Sound
  <2>3. Allowed(db) /\ Risen(db, applied, 1)
    BY <2>1, <2>2 DEF Sound
  <2>4. /\ db.tables = RisenTables(applied, 1)
        /\ db.permissions = PermissionsAt(applied)
        /\ \A g : g \notin Edits => (g \in db.grants <=> g \in GrantsAt(applied))
        /\ FilledAt(applied) \subseteq db.filled
    BY <1>0, <2>3, Settled
  <2>5. Kept(db')
    <3>1. Steady'
      BY SteadyStep
    <3>2. QED BY <3>1 DEF Steady
  <2>6. /\ db'.tables = db.tables /\ db'.permissions = db.permissions
        /\ db.filled \subseteq db'.filled
        /\ \A g : g \notin Edits => (g \in db'.grants <=> g \in db.grants)
        /\ \A g \in db'.grants :
             g \in db.grants \/ g[2] \in db.permissions
    <3>1. CASE RecordEvent
      BY <3>1 DEF RecordEvent, Steady, IsDatabase
    <3>2. CASE EditGrants
      <4>1. PICK e \in Edits :
              /\ e[2] \in db.permissions
              /\ \/ db' = [db EXCEPT !.grants = @ \ {e}]
                 \/ db' = [db EXCEPT !.grants = @ \cup {e}]
        BY <3>2 DEF EditGrants
      <4>2. /\ db'.tables = db.tables /\ db'.permissions = db.permissions /\ db'.filled = db.filled
            /\ db'.grants = db.grants \ {e} \/ db'.grants = db.grants \cup {e}
        BY <1>0, <4>1 DEF IsDatabase
      <4>3. QED BY <4>1, <4>2
    <3>3. CASE CreateInitialAdmin
      BY <3>3 DEF CreateInitialAdmin, Steady, IsDatabase
    <3>4. CASE SeedDemo
      BY <3>4 DEF SeedDemo, Steady, IsDatabase
    <3>5. QED BY <1>7, <3>1, <3>2, <3>3, <3>4
  <2>7. Allowed(db')
    BY <2>3, <2>6 DEF Allowed, Codes
  <2>8. Risen(db', applied, 1)
    BY <1>0, <2>4, <2>5, <2>6, <2>7, Settled
  <2>9. QED BY <2>1, <2>7, <2>8 DEF Sound
<1>8. QED BY <1>1, <1>3, <1>4, <1>5, <1>6, <1>7 DEF Next

(***************************************************************************)
(* The theorems                                                            *)
(***************************************************************************)

\* The inductive invariant.
SchemaInv == Steady /\ Moved /\ Sound

\* The schema, the rows and the tool always fit each other: with no migration cut short,
\* the database is the one of the migrations in force and of the statements already done.
THEOREM SchemaInvariant == Spec => []SchemaInv
<1>1. Init => SchemaInv
  <2> SUFFICES ASSUME Init PROVE SchemaInv
    OBVIOUS
  <2>1. Steady
    BY SteadyStart
  <2>2. tool = Idle /\ db = EmptyDatabase /\ applied = 0
    BY DEF Init
  <2>3. Allowed(db)
    BY <2>2 DEF Allowed, Codes, EmptyDatabase
  <2>4. Risen(db, applied, 1)
    <3>1. /\ db.tables = {} /\ db.permissions = {} /\ db.grants = {}
      BY <2>2 DEF EmptyDatabase
    <3>2. 0 \in 0 .. 10 /\ Kept(db)
      BY <2>1 DEF Steady
    <3>3. QED BY <2>2, <2>3, <3>1, <3>2, NothingAtFirst, Settled
  <2>5. QED BY <2>1, <2>2, <2>3, <2>4 DEF SchemaInv, Moved, Sound
<1>2. SchemaInv /\ [Next]_vars => SchemaInv'
  BY SteadyStep, MovedStep, SoundStep DEF SchemaInv
<1>3. QED BY <1>1, <1>2, PTL DEF Spec

\* The events of the first release survive, as EventsSurvive says, for any number of events
\* and commands, however often a tool dies on the way.
THEOREM EventsOutliveMigrations == Spec => EventsSurvive
<1>1. SchemaInv /\ [Next]_vars =>
        [(tool.way = "down" /\ Migration = 2)
          \/ (db.legacy \cup Carried(db)) \subseteq (db'.legacy \cup Carried(db'))]_vars
  <2> SUFFICES ASSUME Steady, Moved, Next
               PROVE  \/ tool.way = "down" /\ Migration = 2
                      \/ (db.legacy \cup Carried(db)) \subseteq (db'.legacy \cup Carried(db'))
    BY DEF SchemaInv
  <2>1. CASE Statement
    BY <2>1, StatementKeepsEvents
  <2>2. CASE Migrate \/ Rollback \/ Fresh \/ Record \/ Refused \/ Crash
    <3>1. db' = db
      BY <2>2 DEF Migrate, Rollback, Fresh, Start, Record, Refused, Crash
    <3>2. QED BY <3>1 DEF Carried
  <2>3. CASE RecordEvent \/ EditGrants \/ CreateInitialAdmin \/ SeedDemo
    <3>1. db.legacy \subseteq db'.legacy /\ db.outbox \subseteq db'.outbox
      BY <2>3 DEF RecordEvent, EditGrants, CreateInitialAdmin, SeedDemo, Steady, IsDatabase
    <3>2. QED BY <3>1 DEF Carried
  <2>4. QED BY <2>1, <2>2, <2>3 DEF Next
<1>2. QED BY <1>1, SchemaInvariant, PTL DEF Spec, EventsSurvive

\* No statement of a migration is refused unless an earlier run was cut short or the audit
\* migration finds the grant it inserts already given by an administrator, as RunsThrough
\* says, for any number of events and commands and any grants the administrators edit.
THEOREM MigrationsRunThrough == Spec => []RunsThrough
<1>1. SchemaInv => RunsThrough
  <2> SUFFICES ASSUME SchemaInv, tool # Idle, ~cut, tool.at <= Len(Script)
               PROVE  \/ Possible(Script[tool.at], db)
                      \/ /\ tool.way = "up" /\ Migration = 3 /\ Script[tool.at].do = "grant"
                         /\ SA \in db.grants \cap Edits
    BY DEF RunsThrough, SA
  <2>1. QED BY NextIsSound DEF SchemaInv, GivenEarly
<1>2. QED BY <1>1, SchemaInvariant, PTL

\* Between commands the schema and its rows are those of the migrations in force, as
\* AppliedIsComplete says.
THEOREM SchemaIsComplete == Spec => []AppliedIsComplete
<1>1. SchemaInv => AppliedIsComplete
  <2> SUFFICES ASSUME SchemaInv, tool = Idle, ~cut
               PROVE  /\ db.tables = TablesAt(applied)
                      /\ db.permissions = PermissionsAt(applied)
                      /\ FilledAt(applied) \subseteq db.filled
                      /\ {g \in db.grants : g \notin Edits} = GrantsAt(applied) \ Edits
                      /\ \A p \in db.permissions : <<"SUPER_ADMIN", p>> \in db.grants \cup Edits
    BY DEF AppliedIsComplete
  <2>1. Kept(db) /\ Allowed(db) /\ applied \in 0 .. 10 /\ Risen(db, applied, 1)
    BY DEF SchemaInv, Steady, Sound
  <2>2. /\ db.tables = RisenTables(applied, 1)
        /\ db.permissions = PermissionsAt(applied)
        /\ \A g : g \notin Edits => (g \in db.grants <=> g \in GrantsAt(applied))
        /\ FilledAt(applied) \subseteq db.filled
    BY <2>1, Settled
  <2>3. db.tables = TablesAt(applied)
    BY <2>1, <2>2, TablesRisen
  <2>4. {g \in db.grants : g \notin Edits} = GrantsAt(applied) \ Edits
    BY <2>2
  <2>5. ASSUME NEW p \in db.permissions PROVE <<"SUPER_ADMIN", p>> \in db.grants \cup Edits
    <3>1. PICK m \in 1 .. applied : p \in NewCodes(m)
      BY <2>1, <2>2, SeedsAt
    <3>2. m \in 1 .. 10
      BY <2>1
    <3>3. <<"SUPER_ADMIN", p>> \in NewGrants(m)
      BY <3>1, <3>2, SuperAdministrator
    <3>4. <<"SUPER_ADMIN", p>> \in GrantsAt(applied)
      BY <2>1, <3>1, <3>3, SeedsAt
    <3>5. QED BY <2>2, <3>4
  <2>6. QED BY <2>2, <2>3, <2>4, <2>5
<1>2. QED BY <1>1, SchemaInvariant, PTL

\* What TypeOK says beside the database: the commands and the marks of the tool.
Commanded ==
    /\ environment \in {"development", "production"}
    /\ commands \in 0 .. MaxCommands
    /\ tool.command \in {"none", "migrate", "rollback", "fresh"} /\ tool.way \in {"up", "down"}
    /\ cut \in BOOLEAN

\* The tool, the list of migrations and the database are of their types, as TypeOK says:
\* rows stand only in tables there are, and hold only what the catalogue names.
THEOREM DeploymentTypes == Spec => []TypeOK
<1>1. Init => Commanded
  <2> SUFFICES ASSUME Init PROVE Commanded
    OBVIOUS
  <2>1. commands \in 0 .. MaxCommands
    BY DeploymentAssumption DEF Init, DeploymentAssumption
  <2>2. tool.command = "none" /\ tool.way = "up"
    BY DEF Init, Idle
  <2>3. cut \in BOOLEAN
    BY DEF Init
  <2>4. QED BY <2>1, <2>2, <2>3 DEF Init, Commanded
<1>2. Commanded /\ Steady /\ [Next]_vars => Commanded'
  <2> SUFFICES ASSUME Commanded, Steady, [Next]_vars PROVE Commanded'
    OBVIOUS
  <2> USE DEF Commanded
  <2>1. CASE Migrate \/ Rollback \/ Fresh
    <3>1. PICK command \in {"migrate", "rollback", "fresh"}, way \in {"up", "down"} :
            Start(command, way)
      BY <2>1 DEF Migrate, Rollback, Fresh
    <3>2. /\ commands < MaxCommands /\ commands' = commands + 1
          /\ tool' = [command |-> command, way |-> way, at |-> 1]
          /\ UNCHANGED <<environment, db, applied, cut>>
      BY <3>1 DEF Start
    <3>3. commands' \in 0 .. MaxCommands
      BY <3>2, DeploymentAssumption DEF DeploymentAssumption
    <3>4. QED BY <3>2, <3>3
  <2>2. CASE Statement
    <3>1. tool'.command = tool.command /\ tool'.way = tool.way
      BY <2>2 DEF Statement, Steady
    <3>2. QED BY <2>2, <3>1 DEF Statement
  <2>3. CASE Record
    <3>1. \/ tool'.command = tool.command /\ tool'.way \in {"up", "down"}
          \/ tool' = Idle
      BY <2>3 DEF Record, Steady
    <3>2. QED BY <2>3, <3>1 DEF Record, Idle
  <2>4. CASE Refused \/ Crash
    <3>1. \A a, b : (a \/ b) \in BOOLEAN
      OBVIOUS
    <3>2. cut' \in BOOLEAN
      BY <2>4, <3>1, Zenon DEF Refused, Crash
    <3>3. /\ tool' = Idle /\ environment' = environment /\ commands' = commands
      BY <2>4 DEF Refused, Crash
    <3>4. tool'.command = "none" /\ tool'.way = "up"
      BY <3>3 DEF Idle
    <3>5. QED BY <3>2, <3>3, <3>4
  <2>5. CASE RecordEvent \/ EditGrants \/ CreateInitialAdmin \/ SeedDemo
    BY <2>5 DEF RecordEvent, EditGrants, CreateInitialAdmin, SeedDemo, Between
  <2>6. CASE UNCHANGED vars
    BY <2>6 DEF vars
  <2>7. QED BY <2>1, <2>2, <2>3, <2>4, <2>5, <2>6 DEF Next
<1>3. Commanded /\ SchemaInv => TypeOK
  BY ScriptsAre DEF Commanded, SchemaInv, Steady, Kept, TypeOK
<1>4. SchemaInv => Steady
  BY DEF SchemaInv
<1>5. QED BY <1>1, <1>2, <1>3, <1>4, SchemaInvariant, PTL DEF Spec

=============================================================================
