----------------------------- MODULE Migrations -----------------------------
(***************************************************************************)
(* The ten migrations as data: the tables each creates with the tables     *)
(* their foreign keys name, the permissions and grants it seeds, and the   *)
(* statements of its two directions in order.  MySQL commits a statement   *)
(* that defines a table at once, so a migration is not one transaction.    *)
(***************************************************************************)
EXTENDS Naturals, Sequences, FiniteSets, SequencesExt

(***************************************************************************)
(* Tables, as the tables their foreign keys (ON DELETE RESTRICT) refer to. *)
(***************************************************************************)
MetadataTables == [application_metadata |-> {}]
UserTables == [users |-> {}, roles |-> {}, permissions |-> {},
               user_roles |-> {"users", "roles"},
               role_permissions |-> {"roles", "permissions", "users"}]
SignInTables == [user_sessions |-> {"users"}, authentication_challenges |-> {"users"},
                 login_rate_limits |-> {}, user_totp_factors |-> {"users"}]
ResetTables == [admin_password_resets |-> {"users"}, auth_security_events |-> {"users"}]
AuditTables == [audit_outbox |-> {}, audit_chain_entries |-> {}, audit_chain_heads |-> {},
                audit_sink_deliveries |-> {"audit_chain_entries"},
                audit_verification_runs |-> {}]
SinkTables == [audit_sink_entries |-> {}]
ReferenceTables == [offices |-> {"users"}, drivers |-> {"users"}, vehicles |-> {"users"}]
BudgetTables == [budget_allocations |-> {"offices", "users"}]
SettingsTables == [authentication_settings |-> {"users"}]
FuelTables == [fuel_sequence_monthly |-> {},
               fuel_issuances |-> {"drivers", "vehicles", "budget_allocations", "users"},
               fuel_ledger_entries |-> {"fuel_issuances"}]
DispatchTables == [vehicle_dispatches |-> {"drivers", "vehicles", "offices", "users"}]
ScheduleTables == [dispatch_schedule_settings |-> {"users"},
                   vehicle_dispatch_conflict_overrides |-> {"vehicle_dispatches", "users"}]
ExportTables == [export_jobs |-> {"users"}, export_download_tokens |-> {"export_jobs", "users"}]

Combined(fs) == [t \in UNION {DOMAIN f : f \in Range(fs)} |->
                   (CHOOSE f \in Range(fs) : t \in DOMAIN f)[t]]
References == Combined(<<MetadataTables, UserTables, SignInTables, ResetTables, AuditTables,
                         SinkTables, ReferenceTables, BudgetTables, SettingsTables, FuelTables,
                         DispatchTables, ScheduleTables, ExportTables>>)
Tables == DOMAIN References

(***************************************************************************)
(* Roles, permissions and the permissions each role is seeded with.        *)
(***************************************************************************)
SeededRoles == {"SUPER_ADMIN", "SYSTEM_ADMIN", "PSMD_STAFF", "DISPATCH_OFFICER",
                "BUDGET_OFFICER", "VIEWER", "AUDITOR"}
FirstPermissions ==
    {"fuel.create", "fuel.read", "fuel.post", "fuel.void", "fuel.export",
     "dispatch.create", "dispatch.read", "dispatch.update", "dispatch.complete",
     "dispatch.cancel", "office.manage", "vehicle.manage", "driver.manage", "budget.manage",
     "user.read", "user.manage", "user.password.reset", "user.totp.reset",
     "user.session.revoke", "role.read", "role.manage", "role.assign_privileged",
     "audit.read", "report.export"}
FirstGrants ==
    ({"SUPER_ADMIN"} \X FirstPermissions)
    \cup ({"SYSTEM_ADMIN"} \X {"user.read", "user.manage", "user.password.reset",
                               "user.totp.reset", "user.session.revoke", "role.read",
                               "role.manage", "office.manage", "vehicle.manage",
                               "driver.manage", "budget.manage"})
    \cup ({"PSMD_STAFF"} \X {"fuel.create", "fuel.read", "fuel.post", "fuel.export"})
    \cup ({"DISPATCH_OFFICER"} \X {"dispatch.create", "dispatch.read", "dispatch.update",
                                   "dispatch.complete", "dispatch.cancel"})
    \cup ({"BUDGET_OFFICER"} \X {"budget.manage", "fuel.read", "report.export"})
    \cup ({"VIEWER"} \X {"fuel.read", "dispatch.read"})
    \cup ({"AUDITOR"} \X {"fuel.read", "dispatch.read", "audit.read", "report.export"})
AuditGrants == {<<"SYSTEM_ADMIN", "audit.read">>, <<"AUDITOR", "audit.read_sensitive">>,
                <<"SUPER_ADMIN", "audit.read_sensitive">>}
Administrators == {"SUPER_ADMIN", "SYSTEM_ADMIN"}
ReferenceGrants ==
    ((Administrators \cup {"BUDGET_OFFICER", "VIEWER", "AUDITOR"}) \X {"office.read"})
    \cup ((Administrators \cup {"PSMD_STAFF", "DISPATCH_OFFICER", "VIEWER", "AUDITOR"})
          \X {"driver.read", "vehicle.read"})
BudgetGrants ==
    (Administrators \cup {"BUDGET_OFFICER", "PSMD_STAFF", "VIEWER", "AUDITOR"}) \X {"budget.read"}
SettingsGrants == Administrators \X {"auth.settings.manage"}
ScheduleGrants == ({"DISPATCH_OFFICER", "SUPER_ADMIN"} \X {"dispatch.conflict.override"})
                  \cup (Administrators \X {"dispatch.settings.manage"})
ExportGrants == {<<"DISPATCH_OFFICER", "report.export">>}

Codes(grants) == {g[2] : g \in grants}
SeededGrants == FirstGrants \cup AuditGrants \cup ReferenceGrants \cup BudgetGrants
                \cup SettingsGrants \cup ScheduleGrants \cup ExportGrants
SeededPermissions == FirstPermissions \cup Codes(SeededGrants)

(***************************************************************************)
(* The database: its tables, the tables that hold rows, the rows of        *)
(* permissions and role_permissions, the events of the first release's     *)
(* auth_security_events, and those of audit_outbox, which remember whether *)
(* they came from there.                                                   *)
(***************************************************************************)
EmptyDatabase == [tables |-> {}, filled |-> {}, permissions |-> {}, grants |-> {},
                  legacy |-> {}, outbox |-> {}]
Carried(db) == {e.id : e \in {o \in db.outbox : o.legacy}}

Create(t) == [do |-> "create", table |-> t, data |-> {}]
Drop(t) == [do |-> "drop", table |-> t, data |-> {}]
Fill(t) == [do |-> "fill", table |-> t, data |-> {}]
Permit(codes) == [do |-> "permit", table |-> "permissions", data |-> codes]
Grant(pairs) == [do |-> "grant", table |-> "role_permissions", data |-> pairs]
GrantMissing(pairs) == [do |-> "grantMissing", table |-> "role_permissions", data |-> pairs]
Revoke(pairs) == [do |-> "revoke", table |-> "role_permissions", data |-> pairs]
Forbid(codes) == [do |-> "forbid", table |-> "permissions", data |-> codes]
Backfill == [do |-> "backfill", table |-> "audit_outbox", data |-> {}]
Restore == [do |-> "restore", table |-> "auth_security_events", data |-> {}]

CreateAll(ts) == [i \in 1 .. Len(ts) |-> Create(ts[i])]
DropAll(ts) == [i \in 1 .. Len(ts) |-> Drop(ts[i])]
AllRoles(codes) == SeededRoles \X codes

\* A statement the database accepts: it neither repeats a table or a row of a
\* unique key nor leaves a foreign key without the row it names.
Possible(s, db) ==
    CASE s.do = "create" -> s.table \notin db.tables /\ References[s.table] \subseteq db.tables
      [] s.do = "drop" -> /\ s.table \in db.tables
                          /\ \A t \in db.tables \ {s.table} : s.table \notin References[t]
      [] s.do = "fill" -> s.table \in db.tables \ db.filled
      [] s.do = "permit" -> s.table \in db.tables /\ s.data \cap db.permissions = {}
      [] s.do = "grant" -> /\ s.table \in db.tables /\ "roles" \in db.filled
                           /\ Codes(s.data) \subseteq db.permissions
                           /\ s.data \cap db.grants = {}
      [] s.do = "grantMissing" -> /\ s.table \in db.tables /\ "roles" \in db.filled
                                  /\ Codes(s.data) \subseteq db.permissions
      [] s.do = "forbid" -> s.table \in db.tables /\ Codes(db.grants) \cap s.data = {}
      [] s.do = "revoke" -> s.table \in db.tables
      [] OTHER -> {"audit_outbox", "auth_security_events"} \subseteq db.tables

Dropped(db, t) ==
    [tables |-> db.tables \ {t}, filled |-> db.filled \ {t},
     permissions |-> IF t = "permissions" THEN {} ELSE db.permissions,
     grants |-> IF t = "role_permissions" THEN {} ELSE db.grants,
     legacy |-> IF t = "auth_security_events" THEN {} ELSE db.legacy,
     outbox |-> IF t = "audit_outbox" THEN {} ELSE db.outbox]

First(ids) == CHOOSE e \in ids : \A f \in ids : e <= f

\* The statements that copy events insert them one by one, in the order of their ids.
Left(s, db) == CASE s.do = "backfill" -> db.legacy \ Carried(db)
                 [] s.do = "restore" -> Carried(db) \ db.legacy
                 [] OTHER -> {}

Executed(s, db) ==
    CASE s.do = "create" -> [db EXCEPT !.tables = @ \cup {s.table}]
      [] s.do = "drop" -> Dropped(db, s.table)
      [] s.do = "fill" -> [db EXCEPT !.filled = @ \cup {s.table}]
      [] s.do = "permit" -> [db EXCEPT !.permissions = @ \cup s.data]
      [] s.do \in {"grant", "grantMissing"} -> [db EXCEPT !.grants = @ \cup s.data]
      [] s.do = "revoke" -> [db EXCEPT !.grants = @ \ s.data]
      [] s.do = "forbid" -> [db EXCEPT !.permissions = @ \ s.data]
      [] s.do = "backfill" /\ Left(s, db) # {} ->
            [db EXCEPT !.outbox = @ \cup {[id |-> First(Left(s, db)), legacy |-> TRUE]}]
      [] s.do = "restore" /\ Left(s, db) # {} ->
            [db EXCEPT !.legacy = @ \cup {First(Left(s, db))}]
      [] OTHER -> db

(***************************************************************************)
(* The statements of each migration, up and down.                          *)
(***************************************************************************)
MetadataUp == <<Create("application_metadata")>>
MetadataDown == <<Drop("application_metadata")>>

SeedCatalog == <<Fill("roles"), Permit(FirstPermissions), Grant(FirstGrants)>>
IdentityUp == CreateAll(<<"users", "roles", "permissions", "user_roles", "role_permissions",
                          "user_sessions", "authentication_challenges", "login_rate_limits",
                          "user_totp_factors", "admin_password_resets",
                          "auth_security_events">>)
              \o SeedCatalog
IdentityDown == DropAll(<<"auth_security_events", "admin_password_resets", "user_totp_factors",
                          "login_rate_limits", "authentication_challenges", "user_sessions",
                          "role_permissions", "user_roles", "permissions", "roles", "users">>)

SeedAudit == <<Permit({"audit.read_sensitive"}), Grant(AuditGrants)>>
\* A mutant: the events of the first release are not carried over.
AuditUpUncarried == CreateAll(<<"audit_outbox", "audit_chain_entries", "audit_chain_heads",
                                "audit_sink_deliveries", "audit_verification_runs",
                                "audit_sink_entries">>)
                    \o <<Fill("audit_chain_heads")>> \o SeedAudit
                    \o <<Drop("auth_security_events")>>
AuditUp == CreateAll(<<"audit_outbox", "audit_chain_entries", "audit_chain_heads",
                       "audit_sink_deliveries", "audit_verification_runs",
                       "audit_sink_entries">>)
           \o <<Fill("audit_chain_heads")>> \o SeedAudit
           \o <<Backfill, Drop("auth_security_events")>>
RemoveAuditPermissions == <<Revoke(AllRoles({"audit.read_sensitive"})),
                            Revoke({<<"SYSTEM_ADMIN", "audit.read">>}),
                            Forbid({"audit.read_sensitive"})>>
AuditDown == <<Create("auth_security_events"), Restore>> \o RemoveAuditPermissions
             \o DropAll(<<"audit_sink_entries", "audit_sink_deliveries",
                          "audit_verification_runs", "audit_chain_heads",
                          "audit_chain_entries", "audit_outbox">>)

SeedReference == <<Permit(Codes(ReferenceGrants)), Grant(ReferenceGrants)>>
ReferenceUp == CreateAll(<<"offices", "drivers", "vehicles">>) \o SeedReference
ReferenceDown == <<Revoke(AllRoles(Codes(ReferenceGrants))), Forbid(Codes(ReferenceGrants))>>
                 \o DropAll(<<"vehicles", "drivers", "offices">>)

BudgetUp == <<Create("budget_allocations"), Permit(Codes(BudgetGrants)), Grant(BudgetGrants)>>
BudgetDown == <<Revoke(AllRoles(Codes(BudgetGrants))), Forbid(Codes(BudgetGrants)),
                Drop("budget_allocations")>>

SettingsUp == <<Create("authentication_settings"), Fill("authentication_settings"),
                Permit(Codes(SettingsGrants)), Grant(SettingsGrants)>>
\* A mutant: only the table is taken back.
SettingsDownTableOnly == <<Drop("authentication_settings")>>
SettingsDown == <<Revoke(AllRoles(Codes(SettingsGrants))), Forbid(Codes(SettingsGrants)),
                  Drop("authentication_settings")>>

FuelUp == CreateAll(<<"fuel_sequence_monthly", "fuel_issuances", "fuel_ledger_entries">>)
FuelDown == DropAll(<<"fuel_ledger_entries", "fuel_issuances", "fuel_sequence_monthly">>)

DispatchUp == <<Create("vehicle_dispatches")>>
DispatchDown == <<Drop("vehicle_dispatches")>>

ScheduleUp == <<Create("dispatch_schedule_settings"), Fill("dispatch_schedule_settings"),
                Create("vehicle_dispatch_conflict_overrides"),
                Permit(Codes(ScheduleGrants)), Grant(ScheduleGrants)>>
ScheduleDown == <<Revoke(AllRoles(Codes(ScheduleGrants))), Forbid(Codes(ScheduleGrants)),
                  Drop("vehicle_dispatch_conflict_overrides"),
                  Drop("dispatch_schedule_settings")>>

\* A mutant: the grant is inserted without looking for it.
ExportUpBlind == CreateAll(<<"export_jobs", "export_download_tokens">>)
                 \o <<Grant(ExportGrants)>>
ExportUp == CreateAll(<<"export_jobs", "export_download_tokens">>)
            \o <<GrantMissing(ExportGrants)>>
ExportDown == <<Revoke(ExportGrants)>> \o DropAll(<<"export_download_tokens", "export_jobs">>)

Ups == <<MetadataUp, IdentityUp, AuditUp, ReferenceUp, BudgetUp, SettingsUp, FuelUp,
         DispatchUp, ScheduleUp, ExportUp>>
Downs == <<MetadataDown, IdentityDown, AuditDown, ReferenceDown, BudgetDown, SettingsDown,
           FuelDown, DispatchDown, ScheduleDown, ExportDown>>
Latest == Len(Ups)

\* What the first n migrations leave behind when nothing interferes.
CreatedBy(m) == {s.table : s \in {t \in Range(Ups[m]) : t.do = "create"}}
TablesAt(n) == {t \in UNION {CreatedBy(m) : m \in 1 .. n} : t = "auth_security_events" => n < 3}
PermissionsAt(n) == UNION {UNION {s.data : s \in {t \in Range(Ups[m]) : t.do = "permit"}} :
                             m \in 1 .. n}
GrantsAt(n) == UNION {UNION {s.data : s \in {t \in Range(Ups[m]) : t.do \in {"grant", "grantMissing"}}} :
                        m \in 1 .. n}
FilledAt(n) == UNION {{s.table : s \in {t \in Range(Ups[m]) : t.do = "fill"}} : m \in 1 .. n}
=============================================================================
