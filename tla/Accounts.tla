------------------------------ MODULE Accounts ------------------------------
(***************************************************************************)
(* Administration of users, roles and the authentication settings, by      *)
(* requests that carry the rights their session had when it was read.      *)
(* Each use case ends the sessions of the users whose standing it changes. *)
(***************************************************************************)
EXTENDS SignIn

Actor(r) == job[r].user
Holds(r, permission) == permission \in job[r].rights
Admin(r, permission) == At(r, "request", "principal") /\ Holds(r, permission)
NotSelf(r, u) == Actor(r) # u

ExistingRoles == {x \in Roles : role[x].state # "absent"}
UsableRoles == {x \in Roles : role[x].state = "active"}
\* Privileged roles are given only by a holder of role.assign_privileged.
MayAssign(r, R) ==
    (\E x \in R : role[x].privileged) => Holds(r, "role.assign_privileged")
\* 'At least one active super administrator must remain.'
SpareSuperAdmin == Cardinality(ActiveHolders(SuperAdmin)) > 1
HoldsSuperAdmin(u) == SuperAdmin \in ActiveRoles(u)

signInRows == <<factor, challenge, rate>>

-----------------------------------------------------------------------------
\* Users.
NewUser(u, R) ==
    user' = [user EXCEPT ![u] = [state |-> "active", mustChange |-> TRUE, roles |-> R]]

CreateUser(r, u, R) ==
    /\ Admin(r, "user.manage")
    /\ user[u].state = "absent"
    /\ R \subseteq UsableRoles
    /\ MayAssign(r, R)
    /\ NewUser(u, R)
    /\ Finish(r)
    /\ UNCHANGED <<now, role, mfaRequired, resets, signInRows, session>>

\* The command that is run once, outside of any request.
CreateInitialSuperAdmin(u) ==
    /\ ActiveHolders(SuperAdmin) = {}
    /\ role[SuperAdmin].state = "active"
    /\ user[u].state = "absent"
    /\ NewUser(u, {SuperAdmin})
    /\ UNCHANGED <<now, role, mfaRequired, resets, signInRows, session, job, served>>

\* A change of the names leaves the sessions; a change of the status ends them.
UpdateUser(r, u, active) ==
    /\ Admin(r, "user.manage")
    /\ NotSelf(r, u)
    /\ user[u].state \in {"active", "inactive"}
    /\ user' = [user EXCEPT ![u].state = IF active THEN "active" ELSE "inactive"]
    /\ session' = Revoke(SessionsOf({u}), now)
    /\ Finish(r)
    /\ UNCHANGED <<now, role, mfaRequired, resets, signInRows>>

SoftDeleteUser(r, u) ==
    /\ Admin(r, "user.manage")
    /\ NotSelf(r, u)
    /\ user[u].state \in {"active", "inactive"}
    /\ HoldsSuperAdmin(u) => SpareSuperAdmin
    /\ user' = [user EXCEPT ![u].state = "deleted"]
    /\ EndAccess(u, now)
    /\ Finish(r)
    /\ UNCHANGED <<now, role, mfaRequired, factor, rate>>

RestoreUser(r, u) ==
    /\ Admin(r, "user.manage")
    /\ user[u].state = "deleted"
    /\ user' = [user EXCEPT ![u].state = "inactive"]
    /\ Finish(r)
    /\ UNCHANGED <<now, role, mfaRequired, resets, signInRows, session>>

AssignUserRoles(r, u, R) ==
    /\ Admin(r, "role.manage")
    /\ NotSelf(r, u)
    /\ user[u].state # "absent"
    /\ R \subseteq UsableRoles
    /\ MayAssign(r, R)
    /\ HoldsSuperAdmin(u) /\ SuperAdmin \notin R => SpareSuperAdmin
    /\ user' = [user EXCEPT ![u].roles = R]
    /\ session' = Revoke(SessionsOf({u}), now)
    /\ Finish(r)
    /\ UNCHANGED <<now, role, mfaRequired, resets, signInRows>>

ResetUserPassword(r, u) ==
    /\ Admin(r, "user.password.reset")
    /\ NotSelf(r, u)
    /\ user[u].state # "absent"
    /\ user' = [user EXCEPT ![u].mustChange = TRUE]
    /\ EndAccess(u, now)
    /\ Finish(r)
    /\ UNCHANGED <<now, role, mfaRequired, factor, rate>>

ResetUserTotp(r, u) ==
    /\ Admin(r, "user.totp.reset")
    /\ NotSelf(r, u)
    /\ user[u].state # "absent"
    /\ factor' = FactorDisabled(u)
    /\ EndAccess(u, now)
    /\ Finish(r)
    /\ UNCHANGED <<now, user, role, mfaRequired, rate>>

\* One session of the user, or all of them.
RevokeUserSessions(r, u, chosen) ==
    /\ Admin(r, "user.session.revoke")
    /\ chosen = SessionsOf({u}) \/ \E s \in SessionsOf({u}) : chosen = {s}
    /\ session' = Revoke(chosen, now)
    /\ Finish(r)
    /\ UNCHANGED <<now, identityRows, signInRows>>

-----------------------------------------------------------------------------
\* Roles and settings.
CreateRole(r, x, privileged, perms) ==
    /\ Admin(r, "role.manage")
    /\ privileged => Holds(r, "role.assign_privileged")
    /\ role[x].state = "absent"
    /\ role' = [role EXCEPT ![x] = [state |-> "active", privileged |-> privileged,
                                    perms |-> perms]]
    /\ Finish(r)
    /\ UNCHANGED <<now, user, mfaRequired, resets, signInRows, session>>

\* Both changes of a role begin with a plain query of it.  From then on their
\* transaction's plain queries, that of the holders included, see what there was
\* at this time, while the locking statements of its end see what there is.
ReadRole(r, x) ==
    /\ Admin(r, "role.manage")
    /\ x \in ExistingRoles
    /\ Continue(r, [op |-> "role", pc |-> "read", user |-> Actor(r), rights |-> job[r].rights,
                    start |-> now, role |-> x, privileged |-> role[x].privileged,
                    holders |-> Holders(x)])
    /\ UNCHANGED <<now, identityRows, signInRows, session>>

\* The columns are written that the request names.
UpdateRole(r, privileged, active) ==
    LET x == job[r].role
    IN  /\ At(r, "role", "read")
        /\ privileged \notin {role[x].privileged, job[r].privileged} =>
               Holds(r, "role.assign_privileged")
        /\ x = SuperAdmin => active /\ privileged
        /\ role' = [role EXCEPT ![x].privileged = privileged,
                                ![x].state = IF active THEN "active" ELSE "inactive"]
        /\ session' = Revoke(SessionsOf(job[r].holders), job[r].start)
        /\ Finish(r)
        /\ UNCHANGED <<now, user, mfaRequired, resets, signInRows>>

AssignRolePermissions(r, perms) ==
    /\ At(r, "role", "read")
    /\ role' = [role EXCEPT ![job[r].role].perms = perms]
    /\ session' = Revoke(SessionsOf(job[r].holders), job[r].start)
    /\ Finish(r)
    /\ UNCHANGED <<now, user, mfaRequired, resets, signInRows>>

\* Asking for the second step ends every privileged session that is active.
UpdateAuthenticationSettings(r, wanted) ==
    /\ Admin(r, "authentication.settings.manage")
    /\ wanted # mfaRequired
    /\ mfaRequired' = wanted
    /\ session' = IF wanted
                  THEN Revoke(UNION {ActivePrivileged(u, now) : u \in Users}, now)
                  ELSE session
    /\ Finish(r)
    /\ UNCHANGED <<now, user, role, resets, signInRows>>

-----------------------------------------------------------------------------
AccountsNext ==
    \/ \E u \in Users : CreateInitialSuperAdmin(u)
    \/ \E r \in Requests :
         \/ \E u \in Users :
              \/ \E R \in SUBSET Roles : CreateUser(r, u, R) \/ AssignUserRoles(r, u, R)
              \/ \E active \in BOOLEAN : UpdateUser(r, u, active)
              \/ SoftDeleteUser(r, u) \/ RestoreUser(r, u)
              \/ ResetUserPassword(r, u) \/ ResetUserTotp(r, u)
              \/ \E chosen \in SUBSET Sessions : RevokeUserSessions(r, u, chosen)
         \/ \E x \in Roles :
              \/ \E privileged \in BOOLEAN, perms \in {{}, Permissions} :
                    CreateRole(r, x, privileged, perms)
              \/ ReadRole(r, x)
         \/ \E privileged, active \in BOOLEAN : UpdateRole(r, privileged, active)
         \/ \E perms \in {{}, Permissions} : AssignRolePermissions(r, perms)
         \/ \E wanted \in BOOLEAN : UpdateAuthenticationSettings(r, wanted)

\* A new installation, one whose administrator has signed in, or one with a
\* clerk as well.
CONSTANTS Administrator, Clerk, FirstSession, Office

ASSUME FirstRowsAssumption ==
    {Administrator, Clerk} \subseteq Users /\ {SuperAdmin, Office} \subseteq Roles

Init == \E known \in {{}, {Administrator}, {Administrator, Clerk}} :
    /\ now = 0
    /\ user = [u \in Users |->
                 [state |-> IF u \in known THEN "active" ELSE "absent",
                  mustChange |-> FALSE,
                  roles |-> IF u \notin known THEN {}
                            ELSE IF u = Clerk THEN {Office} ELSE {SuperAdmin}]]
    /\ role = [x \in Roles |->
                 [state |-> IF x = SuperAdmin \/ Clerk \in known THEN "active" ELSE "absent",
                  privileged |-> x = SuperAdmin \/ Clerk \in known,
                  perms |-> IF x = SuperAdmin THEN Permissions ELSE {}]]
    /\ factor = [u \in Users |-> IF u \in known
                                 THEN [status |-> "ENABLED", id |-> 1, counter |-> Never]
                                 ELSE [status |-> "NONE", id |-> 0, counter |-> Never]]
    /\ challenge = [c \in Challenges |-> None]
    /\ session = [s \in Sessions |-> IF s = FirstSession /\ Administrator \in known
                                     THEN NewSession(Administrator, TRUE, 0, None, None)
                                     ELSE None]
    /\ rate = [b \in Buckets |-> NoRate]
    /\ mfaRequired = TRUE
    /\ resets = [u \in Users |-> 0]
    /\ job = [r \in Requests |-> Free]
    /\ served = 0

Next == SignInNext \/ AccountsNext

Spec == Init /\ [][Next]_vars

-----------------------------------------------------------------------------
(***************************************************************************)
(* A challenge and a code of a factor are each worth one session at most,  *)
(* however many requests present them at the same time and whatever is     *)
(* enrolled or reset in between.                                           *)
(***************************************************************************)
ProofSpentOnce ==
    \A s, t \in Sessions :
        /\ s # t /\ Used(s) /\ Used(t)
        /\ session[s].via # None /\ session[t].via # None
        => /\ session[s].via # session[t].via
           /\ session[s].user = session[t].user => session[s].proof # session[t].proof

(***************************************************************************)
(* A challenge from before a reset of a password or a factor, a password   *)
(* change or a deletion is worth nothing after it: a session that is still *)
(* good does not rest on one, even if the request that presented it had    *)
(* passed every check when the reset was committed.  What a login issues   *)
(* counts from its issue: one that has compared the old password before    *)
(* the reset goes on after it to a session or a challenge, and nothing     *)
(* here excludes that.                                                     *)
(***************************************************************************)
ResetsEndEarlierAccess ==
    \A s \in Sessions :
        Unrevoked(s) /\ session[s].via # None =>
            challenge[session[s].via].resets = resets[session[s].user]

(***************************************************************************)
(* A revoked session stays as it was when it was revoked: no write of its  *)
(* activity, no later revocation and no sign-in brings it back or changes  *)
(* the time of its end.                                                    *)
(***************************************************************************)
RevokedForGood ==
    [][\A s \in Sessions :
          Used(s) /\ session[s].revoked # Never => session'[s] = session[s]]_vars

(***************************************************************************)
(* Every step that changes what a user may do, whether it changes the user,*)
(* a role, the permissions of a role or a role's status, leaves none of    *)
(* the sessions the user had; except those of a user who was given the     *)
(* role after the request that changes it had read who holds it.           *)
(***************************************************************************)
MayDoOther(u) == Rights(u)' # Rights(u) \/ Privileged(u)' # Privileged(u)
LosesSessions(u) == \A s \in SessionsOf({u}) : session'[s].revoked # Never

GivenSinceRead(r, u) ==
    At(r, "role", "read") /\ u \in Holders(job[r].role) \ job[r].holders

RightsChangeEndsSessions ==
    [][\A u \in Users : MayDoOther(u) =>
          \/ LosesSessions(u)
          \/ \E r \in Requests : GivenSinceRead(r, u) /\ job'[r] = Free]_vars

(***************************************************************************)
(* src/docs/tickets/fuel-and-vehicle-dispatch-system.md:69, "Password,     *)
(* role, and status changes revoke affected sessions": whoever the change  *)
(* affects, with no exception.                                             *)
(***************************************************************************)
ChangesRevokeAffectedSessions ==
    [][\A u \in Users : MayDoOther(u) => LosesSessions(u)]_vars
=============================================================================
