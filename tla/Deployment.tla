----------------------------- MODULE Deployment -----------------------------
(***************************************************************************)
(* The database tools run on one database, by one operator at a time:      *)
(* migrate, rollback, fresh, the first administrator and the demonstration *)
(* data, with the application's writes between them.  A tool may die       *)
(* between any two statements.                                             *)
(***************************************************************************)
EXTENDS Migrations

CONSTANTS
    MaxEvents,   \* bound on the audit events the application records
    MaxCommands, \* bound on the commands given
    Edits        \* grants an administrator may add or remove: role, permission

ASSUME DeploymentAssumption ==
    MaxEvents \in Nat /\ MaxCommands \in Nat /\ Edits \subseteq SeededRoles \X SeededPermissions

VARIABLES
    environment, \* NODE_ENV of the tools
    db,
    applied,     \* how many rows kysely_migration holds; they are in order
    tool,        \* the command that runs, where it goes and its next statement
    cut,         \* history: a migration was left between two of its statements
    commands     \* how many commands were given

vars == <<environment, db, applied, tool, cut, commands>>

Idle == [command |-> "none", way |-> "up", at |-> 0]
Migration == IF tool.way = "up" THEN applied + 1 ELSE applied
Script == IF tool.way = "up" THEN Ups[Migration] ELSE Downs[Migration]
Recorded == Carried(db) \cup {o.id : o \in db.outbox} \cup db.legacy

Init ==
    /\ environment \in {"development", "production"}
    /\ db = EmptyDatabase /\ applied = 0 /\ tool = Idle
    /\ cut = FALSE /\ commands = 0

(***************************************************************************)
(* Commands                                                                *)
(***************************************************************************)
Start(command, way) ==
    /\ tool = Idle /\ commands < MaxCommands
    /\ tool' = [command |-> command, way |-> way, at |-> 1]
    /\ commands' = commands + 1
    /\ UNCHANGED <<environment, db, applied, cut>>

Migrate == applied < Latest /\ Start("migrate", "up")
Rollback == applied > 0 /\ Start("rollback", "down")
Fresh == /\ environment # "production"
         /\ Start("fresh", IF applied > 0 THEN "down" ELSE "up")

Statement ==
    /\ tool # Idle /\ tool.at <= Len(Script)
    /\ LET s == Script[tool.at] IN
         /\ Possible(s, db)
         /\ db' = Executed(s, db)
         /\ tool' = IF Left(s, db) = {} THEN [tool EXCEPT !.at = @ + 1] ELSE tool
    /\ UNCHANGED <<environment, applied, cut, commands>>

\* The migration is entered in, or struck from, the list, and the tool goes on.
Record ==
    /\ tool # Idle /\ tool.at > Len(Script)
    /\ applied' = IF tool.way = "up" THEN applied + 1 ELSE applied - 1
    /\ tool' = CASE tool.way = "up" /\ applied' < Latest -> [tool EXCEPT !.at = 1]
                 [] tool.command = "fresh" /\ tool.way = "down" ->
                      [tool EXCEPT !.at = 1, !.way = IF applied' > 0 THEN "down" ELSE "up"]
                 [] OTHER -> Idle
    /\ UNCHANGED <<environment, db, cut, commands>>

Refused ==
    /\ tool # Idle /\ tool.at <= Len(Script) /\ ~Possible(Script[tool.at], db)
    /\ tool' = Idle
    /\ cut' = (cut \/ tool.at > 1)
    /\ UNCHANGED <<environment, db, applied, commands>>

\* The process dies; what it executed stays.
Crash ==
    /\ tool # Idle
    /\ tool' = Idle
    /\ cut' = (cut \/ tool.at > 1)
    /\ UNCHANGED <<environment, db, applied, commands>>

(***************************************************************************)
(* The application and the other scripts, which run between commands.      *)
(***************************************************************************)
Between == tool = Idle /\ UNCHANGED <<environment, applied, tool, cut, commands>>

\* The first release writes auth_security_events, later ones the outbox.
RecordEvent ==
    /\ Between /\ Cardinality(Recorded) < MaxEvents
    /\ LET e == 1 + Cardinality(Recorded) IN
         \/ /\ applied = 2 /\ "auth_security_events" \in db.tables /\ ~cut
            /\ db' = [db EXCEPT !.legacy = @ \cup {e}]
         \/ /\ applied >= 3 /\ "audit_outbox" \in db.tables
            /\ db' = [db EXCEPT !.outbox = @ \cup {[id |-> e, legacy |-> FALSE]}]

\* Assigning permissions to a role; the rows must exist, and the transaction writes an
\* audit event, so its table must too: that of the first release or the outbox (the event
\* itself is not kept here).
EditGrants ==
    /\ Between /\ {"roles", "role_permissions"} \subseteq db.tables
    /\ \/ applied = 2 /\ "auth_security_events" \in db.tables
       \/ applied >= 3 /\ "audit_outbox" \in db.tables
    /\ "roles" \in db.filled
    /\ \E e \in Edits :
         /\ e[2] \in db.permissions
         /\ db' = [db EXCEPT !.grants = IF e \in @ THEN @ \ {e} ELSE @ \cup {e}]

CreateInitialAdmin ==
    /\ Between /\ applied >= 3 /\ "users" \notin db.filled
    /\ {"users", "user_roles", "audit_outbox"} \subseteq db.tables /\ "roles" \in db.filled
    /\ db' = [db EXCEPT !.filled = @ \cup {"users", "user_roles"}]

DemoTables == {"offices", "drivers", "vehicles", "budget_allocations", "fuel_issuances",
               "fuel_ledger_entries", "fuel_sequence_monthly", "vehicle_dispatches"}

\* One transaction; its marker is a row of application_metadata.
SeedDemo ==
    /\ Between /\ environment # "production"
    /\ DemoTables \cup {"application_metadata"} \subseteq db.tables
    /\ "application_metadata" \notin db.filled
    /\ "users" \in db.filled
    /\ db' = [db EXCEPT !.filled = @ \cup DemoTables \cup {"application_metadata"}]

Next == \/ Migrate \/ Rollback \/ Fresh
        \/ Statement \/ Record \/ Refused \/ Crash
        \/ RecordEvent \/ EditGrants \/ CreateInitialAdmin \/ SeedDemo

Spec == Init /\ [][Next]_vars

(***************************************************************************)
(* Properties                                                              *)
(***************************************************************************)
\* The database is one these tools can leave.
TypeOK ==
    /\ environment \in {"development", "production"}
    /\ db.tables \subseteq Tables /\ db.filled \subseteq db.tables
    /\ db.permissions \subseteq SeededPermissions
    /\ db.grants \subseteq SeededRoles \X SeededPermissions
    /\ applied \in 0 .. Latest /\ commands \in 0 .. MaxCommands
    /\ tool.command \in {"none", "migrate", "rollback", "fresh"} /\ tool.way \in {"up", "down"}
    /\ cut \in BOOLEAN

\* Unless an earlier run died between two statements, no migration, in either
\* direction and after any edits of the grants, events and demonstration data, has a
\* statement the database refuses - but for one: the audit migration inserts the
\* system administrators' audit.read without looking for it, and an administrator of
\* the first release may have granted it before.
RunsThrough ==
    tool # Idle /\ ~cut /\ tool.at <= Len(Script) =>
        \/ Possible(Script[tool.at], db)
        \/ /\ tool.way = "up" /\ Migration = 3 /\ Script[tool.at].do = "grant"
           /\ <<"SYSTEM_ADMIN", "audit.read">> \in db.grants \cap Edits

\* Between commands the schema and its seeded rows are those of the migrations
\* in force, however often they were rolled back and applied again; the super
\* administrator holds every permission that nobody edited away.
AppliedIsComplete ==
    tool = Idle /\ ~cut =>
        /\ db.tables = TablesAt(applied)
        /\ db.permissions = PermissionsAt(applied)
        /\ FilledAt(applied) \subseteq db.filled
        /\ {g \in db.grants : g \notin Edits} = GrantsAt(applied) \ Edits
        /\ \A p \in db.permissions : <<"SUPER_ADMIN", p>> \in db.grants \cup Edits

\* The events of the first release outlive the move to the outbox and back, and
\* a death at any statement of it; only undoing the migration that created their
\* table removes them.
EventsSurvive ==
    [][(tool.way = "down" /\ Migration = 2)
       \/ (db.legacy \cup Carried(db)) \subseteq (db'.legacy \cup Carried(db'))]_vars

=============================================================================
