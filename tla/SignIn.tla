------------------------------- MODULE SignIn -------------------------------
(***************************************************************************)
(* Signing in: the password step with its rate limits, the challenge that  *)
(* a login may end in, enrolment and verification of the second step, the  *)
(* session issued in the end, and the requests a session authenticates.    *)
(*                                                                         *)
(* A use case of several transactions is several actions; job keeps what   *)
(* the earlier ones read.  The transaction that issues a credential is two *)
(* of them: its plain reads, then its writes.                              *)
(***************************************************************************)
EXTENDS Identity

Begin(r, reading) ==
    /\ job[r] = Free
    /\ served < MaxRequests
    /\ served' = served + 1
    /\ job' = [job EXCEPT ![r] = reading]
Continue(r, reading) == job' = [job EXCEPT ![r] = reading] /\ UNCHANGED served
Finish(r) == Continue(r, Free)
At(r, op, pc) == job[r].op = op /\ job[r].pc = pc

identityRows == <<user, role, mfaRequired, resets>>
credentials == <<factor, challenge, session, rate>>

-----------------------------------------------------------------------------
\* Login: the first transaction reads the user and both buckets; the password
\* is then compared with the hash that was read.
LoginCheck(r, u, matches) ==
    /\ Begin(r, [op |-> "login", user |-> u, start |-> now,
                 pc |-> IF /\ matches
                           /\ user[u].state = "active"
                           /\ ~LockedOut(u, now) /\ ~LockedOut(Source, now)
                        THEN "eligible" ELSE "failed"])
    /\ matches => user[u].state # "absent"
    /\ UNCHANGED <<now, identityRows, credentials>>

LoginFail(r) ==
    /\ At(r, "login", "failed")
    /\ rate' = FailuresRecorded({job[r].user, Source}, job[r].start)
    /\ Finish(r)
    /\ UNCHANGED <<now, identityRows, factor, challenge, session>>

\* What a login's user must do next, decided on what the transaction read.
NextStep(seen) ==
    IF seen.mustChange THEN "PASSWORD_CHANGE"
    ELSE IF seen.mfa /\ seen.privileged
         THEN IF seen.enrolled THEN "TOTP_VERIFICATION" ELSE "TOTP_ENROLLMENT"
         ELSE "AUTHENTICATED"

\* The rows the issuing transaction reads before it writes.
Read(u, at) == [mustChange |-> user[u].mustChange, privileged |-> Privileged(u),
                enrolled |-> Enrolled(u), mfa |-> mfaRequired,
                active |-> Cardinality(ActivePrivileged(u, at))]

LoginReread(r) ==
    /\ At(r, "login", "eligible")
    /\ IF user[job[r].user].state = "active"
       THEN Continue(r, [op |-> "login", pc |-> "reread", user |-> job[r].user,
                         start |-> job[r].start, seen |-> Read(job[r].user, job[r].start)])
       ELSE Finish(r)
    /\ UNCHANGED <<now, identityRows, credentials>>

\* issueAuthenticatedSession: the limit of privileged sessions, on what was read.
MayIssue(seen) == ~seen.privileged \/ seen.active < PrivilegedLimit

IssueSession(u, seen, at, via, proof) ==
    \E s \in Sessions : /\ ~Used(s)
                        /\ session' = [session EXCEPT
                               ![s] = NewSession(u, seen.privileged, at, via, proof)]

IssueChallenge(u, kind, at) ==
    \E c \in Challenges : /\ challenge[c] = None
                          /\ challenge' = [challenge EXCEPT ![c] = NewChallenge(u, kind, at)]

LoginCommit(r, rehash) ==
    LET u == job[r].user
        seen == job[r].seen
        next == NextStep(seen)
    IN  /\ At(r, "login", "reread")
        /\ Finish(r)
        /\ IF next = "AUTHENTICATED" /\ ~MayIssue(seen)
           THEN UNCHANGED <<user, rate, challenge, session>>
           ELSE /\ rate' = Cleared(u)
                /\ user' = IF rehash THEN [user EXCEPT ![u].mustChange = seen.mustChange]
                                     ELSE user
                /\ IF next = "AUTHENTICATED"
                   THEN /\ IssueSession(u, seen, job[r].start, None, None)
                        /\ UNCHANGED challenge
                   ELSE /\ IssueChallenge(u, next, job[r].start)
                        /\ UNCHANGED session
        /\ UNCHANGED <<now, role, mfaRequired, resets, factor>>

-----------------------------------------------------------------------------
\* A request with the challenge's token, which its route lets through for the
\* kind of challenge it expects.
AuthenticateChallenge(r, c) ==
    /\ challenge[c] # None
    /\ ChallengeStands(c, now)
    /\ user[challenge[c].user].state = "active"
    /\ Begin(r, [op |-> challenge[c].kind, pc |-> "authenticated", via |-> c,
                 user |-> challenge[c].user])
    /\ UNCHANGED <<now, identityRows, credentials>>

StartTotpEnrollment(r) ==
    /\ At(r, "TOTP_ENROLLMENT", "authenticated")
    /\ factor[job[r].user].id < MaxFactors
    /\ factor' = SavedFactor(job[r].user)
    /\ Finish(r)
    /\ UNCHANGED <<now, identityRows, challenge, session, rate>>

\* The factor row is read in a transaction of its own and the code verified
\* with its secret: a counter, or None for a wrong code.
Verify(r, op, wanted, counter) ==
    LET u == job[r].user
    IN  /\ At(r, op, "authenticated")
        /\ IF LockedOut(job[r].via, now) \/ factor[u].status # wanted
           THEN Finish(r)
           ELSE Continue(r, [op |-> op, user |-> u, via |-> job[r].via, start |-> now,
                             factor |-> factor[u].id, counter |-> counter,
                             pc |-> IF counter = None THEN "wrong" ELSE "verified"])
        /\ UNCHANGED <<now, identityRows, credentials>>

ConfirmVerify(r, counter) == Verify(r, "TOTP_ENROLLMENT", "PENDING", counter)
CompleteVerify(r, counter) == Verify(r, "TOTP_VERIFICATION", "ENABLED", counter)

WrongCode(r) ==
    /\ job[r].op # "free" /\ job[r].pc = "wrong"
    /\ rate' = FailuresRecorded({job[r].via}, job[r].start)
    /\ Finish(r)
    /\ UNCHANGED <<now, identityRows, factor, challenge, session>>

\* The issuing transaction of both: the user and the count of sessions are
\* read, and the factor, the challenge and the session written, if the factor
\* is still the one the code was verified with and the challenge still open.
RereadProven(r) ==
    /\ job[r].op # "free" /\ job[r].pc = "verified"
    /\ Continue(r, [op |-> job[r].op, pc |-> "reread", user |-> job[r].user,
                    via |-> job[r].via, start |-> job[r].start, factor |-> job[r].factor,
                    counter |-> job[r].counter, seen |-> Read(job[r].user, job[r].start)])
    /\ UNCHANGED <<now, identityRows, credentials>>

IssueProven(r, stillGood) ==
    LET u == job[r].user
    IN  /\ Finish(r)
        /\ IF stillGood /\ Open(job[r].via) /\ MayIssue(job[r].seen)
           THEN /\ factor' = FactorProven(u, job[r].counter)
                /\ challenge' = Consumed(job[r].via)
                /\ rate' = Cleared(job[r].via)
                /\ IssueSession(u, job[r].seen, job[r].start, job[r].via,
                                <<job[r].factor, job[r].counter>>)
           ELSE UNCHANGED credentials
        /\ UNCHANGED <<now, identityRows>>

ConfirmTotpEnrollment(r) ==
    /\ At(r, "TOTP_ENROLLMENT", "reread")
    /\ IssueProven(r, CanEnable(job[r].user, job[r].factor))

CompleteTotpChallenge(r) ==
    /\ At(r, "TOTP_VERIFICATION", "reread")
    /\ IssueProven(r, CanAccept(job[r].user, job[r].factor, job[r].counter))

\* The user is read, the new password hashed, then all earlier access ends.
\* The login with the new password that the route goes on to is a request of its own.
EndAccess(u, at) ==
    /\ resets[u] < MaxResets
    /\ resets' = [resets EXCEPT ![u] = @ + 1]
    /\ session' = Revoke(SessionsOf({u}), at)
    /\ challenge' = ChallengesRevoked(u)

ChangePassword(r) ==
    LET u == job[r].user
    IN  /\ At(r, "PASSWORD_CHANGE", "authenticated") \/ At(r, "request", "principal")
        /\ user' = [user EXCEPT ![u].mustChange = FALSE]
        /\ EndAccess(u, now)
        /\ Finish(r)
        /\ UNCHANGED <<now, role, mfaRequired, factor, rate>>

-----------------------------------------------------------------------------
\* A request with a session's token: the session and its user are read, and
\* the session's activity written when the interval has passed.
AuthenticateSession(r, s) ==
    /\ Used(s)
    /\ Status(s, now) = "ACTIVE"
    /\ user[session[s].user].state = "active"
    /\ Begin(r, [op |-> "request", user |-> session[s].user, session |-> s, start |-> now,
                 rights |-> Rights(session[s].user),
                 pc |-> IF now - session[s].seen >= WriteInterval
                        THEN "touch" ELSE "principal"])
    /\ UNCHANGED <<now, identityRows, credentials>>

UpdateActivity(r) ==
    /\ At(r, "request", "touch")
    /\ session' = Touched(job[r].session, job[r].start)
    /\ Continue(r, [job[r] EXCEPT !.pc = "principal"])
    /\ UNCHANGED <<now, identityRows, factor, challenge, rate>>

Logout(r) ==
    /\ At(r, "request", "principal")
    /\ session' = Revoke({job[r].session}, now)
    /\ Finish(r)
    /\ UNCHANGED <<now, identityRows, factor, challenge, rate>>

\* A request answered from what it read, refused, or cut off between transactions.
Answer(r) ==
    /\ job[r] # Free
    /\ Finish(r)
    /\ UNCHANGED <<now, identityRows, credentials>>

Tick ==
    /\ now < MaxTime
    /\ now' = now + 1
    /\ UNCHANGED <<identityRows, credentials, job, served>>

SignInNext ==
    \/ Tick
    \/ \E r \in Requests :
         \/ \E u \in Users, matches \in BOOLEAN : LoginCheck(r, u, matches)
         \/ LoginFail(r) \/ LoginReread(r)
         \/ \E rehash \in BOOLEAN : LoginCommit(r, rehash)
         \/ \E c \in Challenges : AuthenticateChallenge(r, c)
         \/ StartTotpEnrollment(r)
         \/ \E counter \in CodeWindow(now) \cup {None} :
                ConfirmVerify(r, counter) \/ CompleteVerify(r, counter)
         \/ WrongCode(r) \/ RereadProven(r)
         \/ ConfirmTotpEnrollment(r) \/ CompleteTotpChallenge(r)
         \/ ChangePassword(r)
         \/ \E s \in Sessions : AuthenticateSession(r, s)
         \/ UpdateActivity(r) \/ Logout(r) \/ Answer(r)
=============================================================================
