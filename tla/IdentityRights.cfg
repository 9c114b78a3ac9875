\* An administrator who has signed in, a clerk with a privileged role.
CONSTANTS
    Administrator = admin
    Clerk = clerk
    Users = {admin, clerk}
    SuperAdmin = SUPER_ADMIN
    Office = OFFICE
    Roles = {SUPER_ADMIN, OFFICE}
    Permissions = {"user.manage", "user.password.reset", "user.totp.reset",
                   "user.session.revoke", "role.manage", "role.assign_privileged",
                   "authentication.settings.manage"}
    FirstSession = s0
    Sessions = {s0, s1, s2}
    Challenges = {c1, c2}
    Requests = {r1, r2}
    Source = Source
    None = None
    MaxTime = 1
    MaxRequests = 4
    MaxFactors = 2
    MaxResets = 1
    IdleTimeout = 2
    PrivilegedIdleTimeout = 1
    AbsoluteTimeout = 2
    WriteInterval = 1
    PrivilegedLimit = 1
    ChallengeTtl = 1
    RateWindow = 1
    RateLock = 1
    MaxFailures = 1
SYMMETRY Symmetry
SPECIFICATION Spec
PROPERTY ChangesRevokeAffectedSessions
CHECK_DEADLOCK FALSE
