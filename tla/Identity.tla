------------------------------ MODULE Identity ------------------------------
(***************************************************************************)
(* Users, roles, sign-in and sessions: the rows of the identity tables and *)
(* what one statement of a repository does to them.  SignIn and Accounts   *)
(* build the use cases from these.                                         *)
(*                                                                         *)
(* Passwords, tokens and secrets are left out: a request says whether its  *)
(* password matched the stored hash, and a time-based code is the counter  *)
(* it belongs to.                                                          *)
(***************************************************************************)
EXTENDS Integers, FiniteSets

CONSTANTS
    Users, Roles, SuperAdmin,   \* SuperAdmin \in Roles
    Permissions,                \* permission codes
    Sessions, Challenges,       \* identifiers to be given to rows
    Requests,                   \* requests served at the same time
    Source,                     \* the client address all requests come from
    None,
    MaxTime, MaxRequests,       \* bounds on the clock and on the requests served
    MaxFactors, MaxResets,      \* bounds on enrolments and resets of a user
    IdleTimeout, PrivilegedIdleTimeout, AbsoluteTimeout, WriteInterval,
    PrivilegedLimit, ChallengeTtl, RateWindow, RateLock, MaxFailures

ASSUME BoundsAssumption ==
    /\ MaxTime \in Nat /\ MaxRequests \in Nat /\ MaxFactors \in Nat \ {0} /\ MaxResets \in Nat
    /\ IdleTimeout \in Nat /\ PrivilegedIdleTimeout \in Nat /\ AbsoluteTimeout \in Nat
    /\ ChallengeTtl \in Nat /\ RateLock \in Nat /\ MaxFailures \in Nat \ {0}

VARIABLES
    now,
    user,        \* the users table with the roles of user_roles
    role,        \* the roles table with the permissions of role_permissions
    factor,      \* user_totp_factors, one row for each user
    challenge,   \* authentication_challenges
    session,     \* user_sessions
    rate,        \* login_rate_limits
    mfaRequired, \* authentication_settings
    resets,      \* history: how often a user's earlier access was ended
    job,         \* what a request has read so far
    served       \* how many requests were begun

vars == <<now, user, role, factor, challenge, session, rate, mfaRequired, resets, job, served>>

Never == -1                      \* a null point in time
Times == 0 .. MaxTime
Earliest(s, t) == IF s < t THEN s ELSE t
Buckets == Users \cup {Source} \cup Challenges
NoRate == [count |-> 0, start |-> Never, until |-> Never]
Free == [op |-> "free"]
LastExpiry == MaxTime + ChallengeTtl + AbsoluteTimeout + IdleTimeout + PrivilegedIdleTimeout

UserRow == [state : {"absent", "active", "inactive", "deleted"},
            mustChange : BOOLEAN, roles : SUBSET Roles]
RoleRow == [state : {"absent", "active", "inactive"}, privileged : BOOLEAN,
            perms : SUBSET Permissions]
FactorRow == [status : {"NONE", "PENDING", "ENABLED", "DISABLED"}, id : 0 .. MaxFactors,
              counter : Never .. MaxTime + 2]
ChallengeRow == [user : Users, kind : {"PASSWORD_CHANGE", "TOTP_ENROLLMENT", "TOTP_VERIFICATION"},
                 expires : 0 .. LastExpiry, open : BOOLEAN, resets : 0 .. MaxResets]
SessionRow == [user : Users, privileged : BOOLEAN, seen : Times, idle : 0 .. LastExpiry,
               absolute : 0 .. LastExpiry, revoked : {Never} \cup Times,
               via : Challenges \cup {None},
               proof : {None} \cup ((0 .. MaxFactors) \X (0 .. MaxTime + 2))]
RateRow == [count : 0 .. MaxFailures, start : {Never} \cup Times,
            until : Never .. MaxTime + RateLock]

\* The mark for no row is no row, and no challenge.
ASSUME NoneAssumption == None \notin ChallengeRow \cup SessionRow \cup Challenges

TypeOK ==
    /\ now \in Times
    /\ user \in [Users -> UserRow]
    /\ role \in [Roles -> RoleRow]
    /\ factor \in [Users -> FactorRow]
    /\ challenge \in [Challenges -> ChallengeRow \cup {None}]
    /\ session \in [Sessions -> SessionRow \cup {None}]
    /\ rate \in [Buckets -> RateRow]
    /\ mfaRequired \in BOOLEAN
    /\ resets \in [Users -> 0 .. MaxResets]
    /\ DOMAIN job = Requests
    /\ served \in 0 .. MaxRequests

-----------------------------------------------------------------------------
\* What the user repository derives from the roles of a user.
ActiveRoles(u) == {r \in user[u].roles : role[r].state = "active"}
Rights(u) == UNION {role[r].perms : r \in ActiveRoles(u)}
Privileged(u) == \E r \in ActiveRoles(u) : role[r].privileged
Enrolled(u) == factor[u].status = "ENABLED"
\* A mutation: the holders looked up through the roles that are active.
HoldersOfActive(r) == {u \in Users : r \in ActiveRoles(u)}
Holders(r) == {u \in Users : r \in user[u].roles}
ActiveHolders(r) == {u \in Users : user[u].state = "active" /\ r \in ActiveRoles(u)}

-----------------------------------------------------------------------------
\* Sessions.
Used(s) == session[s] # None
Unrevoked(s) == Used(s) /\ session[s].revoked = Never

Status(s, at) ==
    IF session[s].revoked # Never THEN "REVOKED"
    ELSE IF at >= session[s].absolute THEN "ABSOLUTE_EXPIRED"
    ELSE IF at >= session[s].idle THEN "IDLE_EXPIRED"
    ELSE "ACTIVE"

IdleFor(privileged) == IF privileged THEN PrivilegedIdleTimeout ELSE IdleTimeout

ActivePrivileged(u, at) ==
    {s \in Sessions : /\ Used(s)
                      /\ session[s].user = u /\ session[s].privileged
                      /\ Status(s, at) = "ACTIVE"}

NewSession(u, privileged, at, via, proof) ==
    [user |-> u, privileged |-> privileged, seen |-> at, idle |-> at + IdleFor(privileged),
     absolute |-> at + AbsoluteTimeout, revoked |-> Never, via |-> via, proof |-> proof]

\* revoke, revokeForUser and revokeAllPrivileged: only rows with no revocation yet.
Revoke(chosen, at) ==
    [s \in Sessions |-> IF s \in chosen /\ Unrevoked(s)
                        THEN [session[s] EXCEPT !.revoked = at] ELSE session[s]]

SessionsOf(U) == {s \in Sessions : Used(s) /\ session[s].user \in U}

\* A mutation: the activity written whatever became of the row.
TouchedAnyway(s, at) == [session EXCEPT ![s].seen = at, ![s].revoked = Never]

\* updateActivity of the row, with the values computed from what was read.
Touched(s, at) ==
    IF Unrevoked(s)
    THEN [session EXCEPT ![s].seen = at,
                         ![s].idle = Earliest(at + IdleFor(session[s].privileged),
                                              session[s].absolute)]
    ELSE session

-----------------------------------------------------------------------------
\* Challenges.
Open(c) == challenge[c] # None /\ challenge[c].open

ChallengeStands(c, at) == Open(c) /\ challenge[c].expires > at

NewChallenge(u, kind, at) ==
    [user |-> u, kind |-> kind, expires |-> at + ChallengeTtl, open |-> TRUE,
     resets |-> resets[u]]

\* Challenge tables after one is consumed, or all of a user's are revoked.
Consumed(c) == [challenge EXCEPT ![c].open = FALSE]

\* (A mutation: they are left open.)
ChallengesLeft(u) == challenge
ChallengesRevoked(u) ==
    [c \in Challenges |-> IF Open(c) /\ challenge[c].user = u
                          THEN [challenge[c] EXCEPT !.open = FALSE] ELSE challenge[c]]

-----------------------------------------------------------------------------
\* Factors of the second step.
SavedFactor(u) ==
    [factor EXCEPT ![u] = [status |-> "PENDING", id |-> @.id + 1, counter |-> Never]]

CanEnable(u, id) == factor[u].id = id /\ factor[u].status = "PENDING"
\* A mutation: the last counter is accepted once more.
CanAcceptAgain(u, id, counter) ==
    factor[u].id = id /\ factor[u].status = "ENABLED" /\ factor[u].counter <= counter
CanAccept(u, id, counter) ==
    /\ factor[u].id = id
    /\ factor[u].status = "ENABLED"
    /\ factor[u].counter < counter
FactorProven(u, counter) ==
    [factor EXCEPT ![u].status = "ENABLED", ![u].counter = counter]

\* The code of the current counter (at + 1 here) and those of its neighbours.
CodeWindow(at) == at .. at + 2

FactorDisabled(u) ==
    [factor EXCEPT ![u].status = IF @ \in {"PENDING", "ENABLED"} THEN "DISABLED" ELSE @]

-----------------------------------------------------------------------------
\* Rate limits.  The bucket's row is read for update, so a failure is counted
\* in one step; counts past the limit are not told apart.
LockedOut(b, at) == rate[b].until > at

RateAfterFailure(b, at) ==
    LET old == rate[b]
        expired == old.start = Never \/ at - old.start >= RateWindow
        count == IF expired THEN 1 ELSE Earliest(old.count + 1, MaxFailures)
    IN [count |-> count,
        start |-> IF expired THEN at ELSE old.start,
        until |-> IF count >= MaxFailures THEN at + RateLock ELSE old.until]

FailuresRecorded(B, at) ==
    [b \in Buckets |-> IF b \in B THEN RateAfterFailure(b, at) ELSE rate[b]]

Cleared(b) == [rate EXCEPT ![b] = NoRate]
=============================================================================
