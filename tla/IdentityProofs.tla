--------------------------- MODULE IdentityProofs ---------------------------
(***************************************************************************)
(* What sign-in and administration promise about sessions, for any number  *)
(* of users, roles, requests, challenges and sessions: a proof of identity *)
(* is worth one session, a reset ends what was begun before it, a revoked  *)
(* session stays as it is, and a change of rights ends the sessions it is  *)
(* about.                                                                  *)
(***************************************************************************)
EXTENDS Accounts, TLAPS

Kinds == {"PASSWORD_CHANGE", "TOTP_ENROLLMENT", "TOTP_VERIFICATION"}
RequestJob == [op : {"request"}, user : Users, session : Sessions, start : Times,
               rights : SUBSET Permissions, pc : {"touch", "principal"}]
RoleJob == [op : {"role"}, pc : {"read"}, user : Users, rights : SUBSET Permissions,
            start : Times, role : Roles, privileged : BOOLEAN, holders : SUBSET Users]

(***************************************************************************)
(* What a request keeps of its earlier transactions.                       *)
(***************************************************************************)
LoginOK(j) ==
    /\ j.pc \in {"eligible", "failed", "reread"}
    /\ j.user \in Users /\ j.start \in Times
    /\ j.pc # "failed" => user[j.user].state # "absent"
    /\ j.pc = "reread" => j.seen.mustChange \in BOOLEAN /\ j.seen.privileged \in BOOLEAN

ProofOK(j) ==
    /\ j.pc \in {"authenticated", "wrong", "verified", "reread"}
    /\ j.user \in Users /\ user[j.user].state # "absent"
    /\ j.via \in Challenges /\ challenge[j.via] # None /\ challenge[j.via].user = j.user
    /\ j.pc # "authenticated" => j.start \in Times /\ j.factor \in 0 .. MaxFactors
    /\ j.pc \in {"verified", "reread"} => j.counter \in 0 .. MaxTime + 2
    /\ j.pc = "reread" => j.seen.privileged \in BOOLEAN

JobOK(r) ==
    /\ job[r].op \in {"free", "login", "request", "role"} \cup Kinds
    /\ job[r].op = "login" => LoginOK(job[r])
    /\ job[r].op \in Kinds => ProofOK(job[r])
    /\ job[r].op = "request" => job[r] \in RequestJob
    /\ job[r].op = "role" => job[r] \in RoleJob

JobsOK == \A r \in Requests : JobOK(r)

(***************************************************************************)
(* How the rows hang together.                                             *)
(***************************************************************************)
RowsExist ==
    /\ \A u \in Users : \A x \in user[u].roles : role[x].state # "absent"
    /\ \A s \in Sessions : Used(s) => user[session[s].user].state # "absent"
    /\ \A c \in Challenges : challenge[c] # None => user[challenge[c].user].state # "absent"

\* An open challenge is of the time since the last reset.
OpenIsCurrent ==
    \A c \in Challenges : Open(c) => challenge[c].resets = resets[challenge[c].user]

\* The challenge of a session is its user's, and spent.
ChallengeSpent ==
    \A s \in Sessions : Used(s) /\ session[s].via # None =>
        /\ session[s].via \in Challenges
        /\ challenge[session[s].via] # None /\ ~challenge[session[s].via].open
        /\ challenge[session[s].via].user = session[s].user

\* The code of a session is of an earlier factor, or not after the last one
\* that the factor accepted.
Passed(f, proof) ==
    \/ proof[1] < f.id
    \/ proof[1] = f.id /\ f.status \in {"ENABLED", "DISABLED"} /\ proof[2] <= f.counter

CodeSpent ==
    \A s \in Sessions : Used(s) /\ session[s].via # None =>
        /\ session[s].proof \in (0 .. MaxFactors) \X (0 .. MaxTime + 2)
        /\ Passed(factor[session[s].user], session[s].proof)

Inv == /\ TypeOK /\ JobsOK /\ RowsExist /\ OpenIsCurrent /\ ChallengeSpent /\ CodeSpent
       /\ ProofSpentOnce /\ ResetsEndEarlierAccess

-----------------------------------------------------------------------------
(***************************************************************************)
(* Rows.                                                                   *)
(***************************************************************************)
USE DEF Kinds

\* The bounds are numbers.
LEMMA Constants ==
    /\ MaxTime \in Nat /\ MaxRequests \in Nat /\ MaxFactors \in Nat /\ MaxResets \in Nat
    /\ IdleTimeout \in Nat /\ PrivilegedIdleTimeout \in Nat /\ AbsoluteTimeout \in Nat
    /\ ChallengeTtl \in Nat /\ RateLock \in Nat /\ MaxFailures \in Nat /\ MaxFailures >= 1
    /\ MaxFactors >= 1
BY BoundsAssumption

\* The mark for no row is no row.
LEMMA Marks == None \notin ChallengeRow /\ None \notin SessionRow /\ None \notin Challenges
BY NoneAssumption

\* A new session is a row.
LEMMA NewSessionRow ==
    ASSUME NEW u \in Users, NEW privileged \in BOOLEAN, NEW at \in Times,
           NEW via \in Challenges \cup {None},
           NEW proof \in {None} \cup ((0 .. MaxFactors) \X (0 .. MaxTime + 2))
    PROVE  NewSession(u, privileged, at, via, proof) \in SessionRow
<1>1. at + IdleFor(privileged) \in 0 .. LastExpiry /\ at + AbsoluteTimeout \in 0 .. LastExpiry
  BY Constants DEF IdleFor, LastExpiry, Times
<1>2. QED
  BY <1>1 DEF NewSession, SessionRow

\* A new challenge is a row.
LEMMA NewChallengeRow ==
    ASSUME TypeOK, NEW u \in Users, NEW kind \in Kinds, NEW at \in Times
    PROVE  NewChallenge(u, kind, at) \in ChallengeRow
<1>1. at + ChallengeTtl \in 0 .. LastExpiry
  BY Constants DEF LastExpiry, Times
<1>2. QED
  BY <1>1 DEF NewChallenge, ChallengeRow, TypeOK

\* Failures are counted up to the limit.
LEMMA FailuresTyped ==
    ASSUME TypeOK, NEW B, NEW at \in Times
    PROVE  FailuresRecorded(B, at) \in [Buckets -> RateRow]
<1>1. ASSUME NEW b \in Buckets
      PROVE  RateAfterFailure(b, at) \in RateRow
  <2> DEFINE expired == rate[b].start = Never \/ at - rate[b].start >= RateWindow
             count == IF expired THEN 1 ELSE Earliest(rate[b].count + 1, MaxFailures)
             start == IF expired THEN at ELSE rate[b].start
             until == IF count >= MaxFailures THEN at + RateLock ELSE rate[b].until
  <2>1. rate[b] \in RateRow
    BY DEF TypeOK
  <2>2. /\ rate[b].count \in 0 .. MaxFailures /\ rate[b].start \in {Never} \cup Times
        /\ rate[b].until \in Never .. MaxTime + RateLock
    BY <2>1 DEF RateRow
  <2>3. count \in 0 .. MaxFailures
    BY <2>2, Constants DEF Earliest
  <2>4. start \in {Never} \cup Times
    BY <2>2
  <2>5. until \in Never .. MaxTime + RateLock
    BY <2>2, Constants DEF Times, Never
  <2>6. RateAfterFailure(b, at) = [count |-> count, start |-> start, until |-> until]
    BY DEF RateAfterFailure
  <2> HIDE DEF count, start, until
  <2>7. QED
    BY <2>3, <2>4, <2>5, <2>6 DEF RateRow
<1>2. rate \in [Buckets -> RateRow]
  BY DEF TypeOK
<1>3. QED
  BY <1>1, <1>2 DEF FailuresRecorded

\* So is a bucket that is cleared.
LEMMA ClearedTyped ==
    ASSUME TypeOK, NEW b
    PROVE  Cleared(b) \in [Buckets -> RateRow]
<1>1. NoRate \in RateRow
  BY Constants DEF NoRate, RateRow, Never
<1>2. QED
  BY <1>1 DEF Cleared, TypeOK

(***************************************************************************)
(* Sessions.  Between the issuing of two sessions the rows there are keep  *)
(* their user and their proof, and none becomes good again.                *)
(***************************************************************************)
OldSessions ==
    \A s \in Sessions :
        /\ Used(s)' <=> Used(s)
        /\ Used(s) => /\ session'[s].user = session[s].user /\ session'[s].via = session[s].via
                      /\ session'[s].proof = session[s].proof
                      /\ session[s].revoked # Never => session'[s] = session[s]

\* Where no session is written they are the old ones.
LEMMA SameSessions ==
    ASSUME session' = session
    PROVE  OldSessions
BY DEF OldSessions, Used

\* A revocation ends the sessions it chooses and leaves those that had ended.
LEMMA RevokeOld ==
    ASSUME TypeOK, NEW chosen, NEW at \in Times, session' = Revoke(chosen, at)
    PROVE  /\ session' \in [Sessions -> SessionRow \cup {None}] /\ OldSessions
           /\ \A s \in Sessions : Used(s) /\ s \in chosen => session'[s].revoked # Never
<1>1. ASSUME NEW s \in Sessions
      PROVE  /\ session'[s] \in SessionRow \cup {None}
             /\ Used(s)' <=> Used(s)
             /\ Used(s) => /\ session'[s].user = session[s].user /\ session'[s].via = session[s].via
                           /\ session'[s].proof = session[s].proof
                           /\ session[s].revoked # Never => session'[s] = session[s]
                           /\ s \in chosen => session'[s].revoked # Never
  <2>1. CASE s \in chosen /\ Unrevoked(s)
    <3>1. session'[s] = [session[s] EXCEPT !.revoked = at]
      BY <2>1 DEF Revoke
    <3>2. session[s] \in SessionRow /\ session[s].revoked = Never
      BY <2>1 DEF Unrevoked, Used, TypeOK
    <3>3. /\ session'[s] \in SessionRow /\ session'[s].user = session[s].user
          /\ session'[s].via = session[s].via /\ session'[s].proof = session[s].proof
          /\ session'[s].revoked = at
      BY <3>1, <3>2 DEF SessionRow
    <3>4. at # Never
      BY Constants DEF Times, Never
    <3>5. QED
      BY <2>1, <3>2, <3>3, <3>4, Marks DEF Used
  <2>2. CASE ~(s \in chosen /\ Unrevoked(s))
    <3>1. session'[s] = session[s]
      BY <2>2 DEF Revoke
    <3>2. QED
      BY <2>2, <3>1 DEF TypeOK, Used, Unrevoked
  <2>3. QED
    BY <2>1, <2>2
<1>2. QED
  BY <1>1 DEF Revoke, OldSessions

\* Noting the activity of a session leaves it whose it was, and ended if it had ended.
LEMMA TouchOld ==
    ASSUME TypeOK, NEW s \in Sessions, NEW at \in Times, session' = Touched(s, at)
    PROVE  session' \in [Sessions -> SessionRow \cup {None}] /\ OldSessions
<1>1. CASE ~Unrevoked(s)
  BY <1>1, SameSessions DEF Touched, TypeOK
<1>2. CASE Unrevoked(s)
  <2> DEFINE idle == Earliest(at + IdleFor(session[s].privileged), session[s].absolute)
  <2>1. session[s] \in SessionRow /\ session[s].revoked = Never
    BY <1>2 DEF Unrevoked, Used, TypeOK
  <2>2. idle \in 0 .. LastExpiry
    BY <2>1, Constants DEF Earliest, IdleFor, LastExpiry, Times, SessionRow
  <2>3. session' = [session EXCEPT ![s] = [session[s] EXCEPT !.seen = at, !.idle = idle]]
    BY <1>2 DEF Touched, TypeOK
  <2> HIDE DEF idle
  <2>4. /\ [session[s] EXCEPT !.seen = at, !.idle = idle] \in SessionRow
        /\ [session[s] EXCEPT !.seen = at, !.idle = idle].user = session[s].user
        /\ [session[s] EXCEPT !.seen = at, !.idle = idle].via = session[s].via
        /\ [session[s] EXCEPT !.seen = at, !.idle = idle].proof = session[s].proof
    BY <2>1, <2>2 DEF SessionRow
  <2>5. \A t \in Sessions \ {s} : session'[t] = session[t]
    BY <2>3 DEF TypeOK
  <2>6. session'[s] \in SessionRow /\ session'[s].user = session[s].user
        /\ session'[s].via = session[s].via /\ session'[s].proof = session[s].proof
    BY <2>3, <2>4 DEF TypeOK
  <2>7. session' \in [Sessions -> SessionRow \cup {None}]
    BY <2>3, <2>4 DEF TypeOK
  <2>8. QED
    BY <2>1, <2>5, <2>6, <2>7, Marks DEF OldSessions, Used
<1>3. QED
  BY <1>1, <1>2

\* One session more, which nobody had.
Issued(s, row) ==
    /\ ~Used(s) /\ session'[s] = row /\ row # None
    /\ \A t \in Sessions \ {s} : session'[t] = session[t]

\* A session is issued with an identifier that none had.
LEMMA IssueIssues ==
    ASSUME TypeOK, NEW u \in Users, NEW seen, seen.privileged \in BOOLEAN, NEW at \in Times,
           NEW via \in Challenges \cup {None},
           NEW proof \in {None} \cup ((0 .. MaxFactors) \X (0 .. MaxTime + 2)),
           IssueSession(u, seen, at, via, proof)
    PROVE  /\ session' \in [Sessions -> SessionRow \cup {None}]
           /\ \E s \in Sessions : Issued(s, NewSession(u, seen.privileged, at, via, proof))
BY NewSessionRow, Marks DEF IssueSession, Issued, TypeOK

(***************************************************************************)
(* Challenges.                                                             *)
(***************************************************************************)
\* The rows there are keep their user and age, and none is opened again.
OldChallenges ==
    \A c \in Challenges :
        challenge[c] # None =>
            /\ challenge'[c] # None /\ challenge'[c].user = challenge[c].user
            /\ challenge'[c].resets = challenge[c].resets
            /\ challenge'[c].open => challenge[c].open

\* So is a challenge, and the earlier ones stay.
LEMMA IssuedChallenge ==
    ASSUME TypeOK, NEW u \in Users, NEW kind \in Kinds, NEW at \in Times,
           IssueChallenge(u, kind, at)
    PROVE  /\ challenge' \in [Challenges -> ChallengeRow \cup {None}] /\ OldChallenges
           /\ \E c \in Challenges :
                 /\ challenge[c] = None /\ challenge'[c] # None
                 /\ challenge'[c] = NewChallenge(u, kind, at)
                 /\ \A d \in Challenges \ {c} : challenge'[d] = challenge[d]
BY NewChallengeRow, Marks DEF IssueChallenge, TypeOK, OldChallenges

\* A challenge that is consumed is closed, and no other is opened.
LEMMA ConsumedClosed ==
    ASSUME TypeOK, NEW c \in Challenges, challenge[c] # None, challenge' = Consumed(c)
    PROVE  /\ challenge' \in [Challenges -> ChallengeRow \cup {None}] /\ OldChallenges
           /\ ~challenge'[c].open
           /\ \A d \in Challenges : challenge'[d] # None => challenge[d] # None
<1>1. challenge[c] \in ChallengeRow
  BY DEF TypeOK
<1>2. challenge'[c] = [challenge[c] EXCEPT !.open = FALSE]
  BY DEF Consumed, TypeOK
<1>3. /\ challenge'[c] \in ChallengeRow /\ challenge'[c].user = challenge[c].user
      /\ challenge'[c].resets = challenge[c].resets /\ challenge'[c].open = FALSE
  BY <1>1, <1>2 DEF ChallengeRow
<1>4. \A d \in Challenges \ {c} : challenge'[d] = challenge[d]
  BY DEF Consumed, TypeOK
<1>5. challenge' \in [Challenges -> ChallengeRow \cup {None}]
  BY <1>2, <1>3, <1>4 DEF Consumed, TypeOK
<1>6. QED
  BY <1>1, <1>3, <1>4, <1>5, Marks DEF OldChallenges

\* Revoking the challenges of a user leaves none of them open.
LEMMA RevokedClosed ==
    ASSUME TypeOK, NEW u \in Users, challenge' = ChallengesRevoked(u)
    PROVE  /\ challenge' \in [Challenges -> ChallengeRow \cup {None}] /\ OldChallenges
           /\ \A c \in Challenges : challenge'[c] # None =>
                 challenge[c] # None /\ (challenge[c].user = u => ~challenge'[c].open)
<1>1. ASSUME NEW c \in Challenges
      PROVE  /\ challenge'[c] \in ChallengeRow \cup {None}
             /\ challenge[c] # None =>
                   /\ challenge'[c] # None /\ challenge'[c].user = challenge[c].user
                   /\ challenge'[c].resets = challenge[c].resets
                   /\ challenge'[c].open => challenge[c].open
             /\ challenge'[c] # None =>
                   challenge[c] # None /\ (challenge[c].user = u => ~challenge'[c].open)
  <2>1. CASE Open(c) /\ challenge[c].user = u
    <3>1. challenge[c] \in ChallengeRow
      BY <2>1 DEF Open, TypeOK
    <3>2. challenge'[c] = [challenge[c] EXCEPT !.open = FALSE]
      BY <2>1 DEF ChallengesRevoked
    <3>3. /\ challenge'[c] \in ChallengeRow /\ challenge'[c].user = challenge[c].user
          /\ challenge'[c].resets = challenge[c].resets /\ challenge'[c].open = FALSE
      BY <3>1, <3>2 DEF ChallengeRow
    <3>4. QED
      BY <3>1, <3>3, Marks
  <2>2. CASE ~(Open(c) /\ challenge[c].user = u)
    <3>1. challenge'[c] = challenge[c]
      BY <2>2 DEF ChallengesRevoked
    <3>2. QED
      BY <2>2, <3>1 DEF TypeOK, Open
  <2>3. QED
    BY <2>1, <2>2
<1>2. QED
  BY <1>1 DEF ChallengesRevoked, OldChallenges

(***************************************************************************)
(* Factors.                                                                *)
(***************************************************************************)
\* A factor goes on: what it has accepted it accepts no more.
LaterFactor(f, g) ==
    \A proof \in (0 .. MaxFactors) \X (0 .. MaxTime + 2) : Passed(f, proof) => Passed(g, proof)

\* A new enrolment has a later identifier than any code accepted before.
LEMMA SavedLater ==
    ASSUME TypeOK, NEW u \in Users, factor[u].id < MaxFactors, factor' = SavedFactor(u)
    PROVE  /\ factor' \in [Users -> FactorRow]
           /\ \A v \in Users : LaterFactor(factor[v], factor'[v])
<1>1. factor[u] \in FactorRow /\ factor[u].id \in 0 .. MaxFactors
  BY DEF TypeOK, FactorRow
<1>2. factor'[u] = [status |-> "PENDING", id |-> factor[u].id + 1, counter |-> Never]
  BY DEF SavedFactor, TypeOK
<1>3. factor'[u] \in FactorRow
  BY <1>1, <1>2, Constants DEF FactorRow, Never
<1>4. \A v \in Users \ {u} : factor'[v] = factor[v]
  BY DEF SavedFactor, TypeOK
<1>5. LaterFactor(factor[u], factor'[u])
  BY <1>1, <1>2, Constants DEF LaterFactor, Passed
<1>6. factor' \in [Users -> FactorRow]
  BY <1>2, <1>3, <1>4 DEF SavedFactor, TypeOK
<1>7. QED
  BY <1>4, <1>5, <1>6 DEF LaterFactor

\* A factor that is disabled keeps the last counter it accepted.
LEMMA DisabledLater ==
    ASSUME TypeOK, NEW u \in Users, factor' = FactorDisabled(u)
    PROVE  /\ factor' \in [Users -> FactorRow]
           /\ \A v \in Users : LaterFactor(factor[v], factor'[v])
<1>1. factor[u] \in FactorRow
  BY DEF TypeOK
<1>2. factor'[u] = [factor[u] EXCEPT !.status = IF factor[u].status \in {"PENDING", "ENABLED"}
                                                THEN "DISABLED" ELSE factor[u].status]
  BY DEF FactorDisabled, TypeOK
<1>3. /\ factor'[u] \in FactorRow
      /\ factor'[u].id = factor[u].id /\ factor'[u].counter = factor[u].counter
      /\ factor[u].status \in {"ENABLED", "DISABLED"} => factor'[u].status = "DISABLED"
  BY <1>1, <1>2 DEF FactorRow
<1>4. \A v \in Users \ {u} : factor'[v] = factor[v]
  BY DEF FactorDisabled, TypeOK
<1>5. factor' \in [Users -> FactorRow]
  BY <1>2, <1>3, <1>4 DEF FactorDisabled, TypeOK
<1>6. LaterFactor(factor[u], factor'[u])
  BY <1>3 DEF LaterFactor, Passed
<1>7. QED
  BY <1>4, <1>5, <1>6 DEF LaterFactor

\* A code is accepted after all earlier ones, and then no more.
LEMMA ProvenLater ==
    ASSUME TypeOK, NEW u \in Users, NEW id \in 0 .. MaxFactors, NEW counter \in 0 .. MaxTime + 2,
           CanEnable(u, id) \/ CanAccept(u, id, counter), factor' = FactorProven(u, counter)
    PROVE  /\ factor' \in [Users -> FactorRow]
           /\ \A v \in Users : LaterFactor(factor[v], factor'[v])
           /\ ~Passed(factor[u], <<id, counter>>) /\ Passed(factor'[u], <<id, counter>>)
<1>1. factor[u] \in FactorRow
  BY DEF TypeOK
<1>2. factor'[u] = [factor[u] EXCEPT !.status = "ENABLED", !.counter = counter]
  BY DEF FactorProven, TypeOK
<1>3. counter \in Never .. MaxTime + 2
  BY Constants DEF Never
<1>4. /\ factor'[u] \in FactorRow
      /\ factor'[u].id = factor[u].id /\ factor'[u].counter = counter
      /\ factor'[u].status = "ENABLED"
  BY <1>1, <1>2, <1>3 DEF FactorRow
<1>5. \A v \in Users \ {u} : factor'[v] = factor[v]
  BY DEF FactorProven, TypeOK
<1>6. factor' \in [Users -> FactorRow]
  BY <1>2, <1>4, <1>5 DEF FactorProven, TypeOK
<1>7. /\ factor[u].id = id /\ id \in Int /\ counter \in Int /\ factor[u].counter \in Int
      /\ \/ factor[u].status = "PENDING"
         \/ factor[u].status = "ENABLED" /\ factor[u].counter < counter
  BY <1>1, Constants DEF CanEnable, CanAccept, FactorRow, Never
<1>8. LaterFactor(factor[u], factor'[u])
  BY <1>4, <1>7, Constants DEF LaterFactor, Passed
<1>9. ~Passed(factor[u], <<id, counter>>) /\ Passed(factor'[u], <<id, counter>>)
  BY <1>4, <1>7 DEF Passed
<1>10. QED
  BY <1>5, <1>6, <1>8, <1>9 DEF LaterFactor

-----------------------------------------------------------------------------
(***************************************************************************)
(* Steps, by what they do to sessions, challenges, factors and resets.     *)
(***************************************************************************)
OldFactors == \A v \in Users : LaterFactor(factor[v], factor'[v])

\* Nothing is issued.
Keeps == OldSessions /\ OldFactors /\ UNCHANGED <<challenge, resets>>

\* The earlier access of a user ends.
EndsAccess(u) ==
    /\ OldSessions /\ OldFactors
    /\ resets' = [resets EXCEPT ![u] = @ + 1]
    /\ \A s \in Sessions : Used(s) /\ session[s].user = u => session'[s].revoked # Never
    /\ \A c \in Challenges : challenge'[c] # None =>
           challenge[c] # None /\ (challenge[c].user = u => ~challenge'[c].open)

\* A login with a password alone.
SignsIn(s, row) ==
    /\ Issued(s, row) /\ row.via = None
    /\ row.user \in Users /\ user[row.user].state # "absent"
    /\ UNCHANGED <<challenge, resets, factor>>

\* A login that a second step, or a new password, has to follow.
Defers(c, row) ==
    /\ challenge[c] = None /\ challenge'[c] = row
    /\ \A d \in Challenges \ {c} : challenge'[d] = challenge[d]
    /\ row.user \in Users /\ user[row.user].state # "absent"
    /\ row.resets = resets[row.user]
    /\ UNCHANGED <<session, resets, factor>>

\* A second step.
Proves(s, row) ==
    /\ Issued(s, row)
    /\ row.user \in Users /\ user[row.user].state # "absent"
    /\ row.via \in Challenges /\ Open(row.via) /\ challenge[row.via].user = row.user
    /\ ~challenge'[row.via].open
    /\ \A c \in Challenges : challenge'[c] # None => challenge[c] # None
    /\ row.proof \in (0 .. MaxFactors) \X (0 .. MaxTime + 2)
    /\ ~Passed(factor[row.user], row.proof) /\ Passed(factor'[row.user], row.proof)
    /\ OldFactors /\ UNCHANGED resets

Effect ==
    /\ OldChallenges
    /\ \/ Keeps
       \/ \E u \in Users : EndsAccess(u)
       \/ \E s \in Sessions, row \in SessionRow : SignsIn(s, row)
       \/ \E c \in Challenges, row \in ChallengeRow : Defers(c, row)
       \/ \E s \in Sessions, row \in SessionRow : Proves(s, row)

UsersStay == \A u \in Users : user[u].state # "absent" => user'[u].state # "absent"

\* Tables that are not written go on.
LEMMA SameRows ==
    /\ challenge' = challenge => OldChallenges
    /\ factor' = factor => OldFactors
    /\ user' = user => UsersStay
BY DEF OldChallenges, OldFactors, LaterFactor, UsersStay

\* A step that issues nothing and keeps the challenges.
LEMMA SameChallengesEffect ==
    ASSUME UNCHANGED <<challenge, resets>>, OldSessions, OldFactors
    PROVE  Effect
BY SameRows DEF Effect, Keeps

\* A step that writes no row of these tables.
LEMMA NoRowsEffect ==
    ASSUME UNCHANGED <<session, challenge, factor, resets>>
    PROVE  Effect
BY SameRows, SameSessions, SameChallengesEffect

\* Users and roles are rows.
LEMMA UserRows ==
    ASSUME TypeOK, NEW u \in Users
    PROVE  /\ \A st \in {"active", "inactive", "deleted"} :
                 /\ [user EXCEPT ![u].state = st] \in [Users -> UserRow]
                 /\ \A v \in Users : user[v].state # "absent" =>
                       [user EXCEPT ![u].state = st][v].state # "absent"
           /\ \A must \in BOOLEAN :
                 /\ [user EXCEPT ![u].mustChange = must] \in [Users -> UserRow]
                 /\ \A v \in Users :
                       [user EXCEPT ![u].mustChange = must][v].state = user[v].state
           /\ \A R \in SUBSET Roles :
                 /\ [user EXCEPT ![u].roles = R] \in [Users -> UserRow]
                 /\ \A v \in Users : [user EXCEPT ![u].roles = R][v].state = user[v].state
                 /\ [user EXCEPT ![u] = [state |-> "active", mustChange |-> TRUE, roles |-> R]]
                        \in [Users -> UserRow]
BY DEF TypeOK, UserRow

\* The mark that the password has to be changed leaves the user there.
LEMMA MarkStep ==
    ASSUME TypeOK, NEW u \in Users, NEW must \in BOOLEAN,
           user' = [user EXCEPT ![u].mustChange = must]
    PROVE  user' \in [Users -> UserRow] /\ UsersStay
BY DEF TypeOK, UserRow, UsersStay

\* A reset, a password change or a deletion ends the access of its user.
LEMMA EndAccessEnds ==
    ASSUME TypeOK, NEW u \in Users, EndAccess(u, now), OldFactors
    PROVE  /\ Effect /\ resets' \in [Users -> 0 .. MaxResets]
           /\ session' \in [Sessions -> SessionRow \cup {None}]
           /\ challenge' \in [Challenges -> ChallengeRow \cup {None}]
<1>1. now \in Times
  BY DEF TypeOK
<1>2. /\ session' \in [Sessions -> SessionRow \cup {None}] /\ OldSessions
      /\ \A s \in Sessions : Used(s) /\ s \in SessionsOf({u}) => session'[s].revoked # Never
  BY <1>1, RevokeOld DEF EndAccess
<1>3. /\ challenge' \in [Challenges -> ChallengeRow \cup {None}] /\ OldChallenges
      /\ \A c \in Challenges : challenge'[c] # None =>
             challenge[c] # None /\ (challenge[c].user = u => ~challenge'[c].open)
  BY RevokedClosed DEF EndAccess
<1>4. resets' = [resets EXCEPT ![u] = @ + 1] /\ resets' \in [Users -> 0 .. MaxResets]
  BY Constants DEF EndAccess, TypeOK
<1>5. EndsAccess(u)
  BY <1>2, <1>3, <1>4 DEF EndsAccess, SessionsOf
<1>6. QED
  BY <1>2, <1>3, <1>4, <1>5 DEF Effect

(***************************************************************************)
(* One step per action: the rows keep their types, and the step is one of  *)
(* the effects above.                                                      *)
(***************************************************************************)
StepOK == TypeOK' /\ Effect /\ UsersStay

\* The entry of a request is the only one its step writes.
LEMMA EntryWritten ==
    ASSUME TypeOK, NEW r \in Requests, NEW entry, Begin(r, entry) \/ Continue(r, entry)
    PROVE  /\ DOMAIN job' = Requests /\ served' \in 0 .. MaxRequests
           /\ job'[r] = entry /\ \A q \in Requests \ {r} : job'[q] = job[q]
BY Constants DEF TypeOK, Begin, Continue

\* A step that only reads the tables.
LEMMA ReadingStep ==
    ASSUME TypeOK, now' \in Times, UNCHANGED <<identityRows, credentials>>,
           DOMAIN job' = Requests, served' \in 0 .. MaxRequests
    PROVE  StepOK
<1>1. Effect /\ UsersStay
  BY NoRowsEffect, SameRows DEF identityRows, credentials
<1>2. TypeOK'
  BY DEF TypeOK, identityRows, credentials
<1>3. QED
  BY <1>1, <1>2 DEF StepOK

\* A step that writes the failures only.
LEMMA RateStep ==
    ASSUME TypeOK, UNCHANGED <<now, identityRows, factor, challenge, session>>,
           rate' \in [Buckets -> RateRow], DOMAIN job' = Requests, served' \in 0 .. MaxRequests
    PROVE  StepOK
<1>1. Effect /\ UsersStay
  BY NoRowsEffect, SameRows DEF identityRows
<1>2. TypeOK'
  BY DEF TypeOK, identityRows
<1>3. QED
  BY <1>1, <1>2 DEF StepOK

\* A step that revokes sessions, or notes what they do, and writes users and roles.
LEMMA SessionsStep ==
    ASSUME TypeOK, UNCHANGED <<now, resets, signInRows>>, OldSessions, UsersStay,
           session' \in [Sessions -> SessionRow \cup {None}],
           user' \in [Users -> UserRow], role' \in [Roles -> RoleRow], mfaRequired' \in BOOLEAN,
           DOMAIN job' = Requests, served' \in 0 .. MaxRequests
    PROVE  StepOK
<1>1. Effect
  BY SameChallengesEffect, SameRows DEF signInRows
<1>2. TypeOK'
  BY DEF TypeOK, signInRows
<1>3. QED
  BY <1>1, <1>2 DEF StepOK

\* A step that ends the access of a user.
LEMMA EndingStep ==
    ASSUME TypeOK, NEW u \in Users, EndAccess(u, now), UNCHANGED <<now, role, mfaRequired, rate>>,
           OldFactors, factor' \in [Users -> FactorRow],
           UsersStay, user' \in [Users -> UserRow],
           DOMAIN job' = Requests, served' \in 0 .. MaxRequests
    PROVE  StepOK
<1>1. /\ Effect /\ resets' \in [Users -> 0 .. MaxResets]
      /\ session' \in [Sessions -> SessionRow \cup {None}]
      /\ challenge' \in [Challenges -> ChallengeRow \cup {None}]
  BY EndAccessEnds
<1>2. TypeOK'
  BY <1>1 DEF TypeOK
<1>3. QED
  BY <1>1, <1>2 DEF StepOK

\* A request that is over leaves its entry free.
LEMMA FinishWritten ==
    ASSUME TypeOK, NEW r \in Requests, Finish(r)
    PROVE  /\ DOMAIN job' = Requests /\ served' \in 0 .. MaxRequests
           /\ job'[r] = Free /\ \A q \in Requests \ {r} : job'[q] = job[q]
BY EntryWritten DEF Finish

\* What a stored job says of a login that goes on.
LEMMA LoginJob ==
    ASSUME JobsOK, NEW r \in Requests, job[r].op = "login"
    PROVE  LoginOK(job[r])
BY DEF JobsOK, JobOK

\* Of a second step that goes on.
LEMMA ProofJob ==
    ASSUME JobsOK, NEW r \in Requests, job[r].op \in Kinds
    PROVE  ProofOK(job[r])
BY DEF JobsOK, JobOK

\* Of a request that a session authenticated.
LEMMA RequestKept ==
    ASSUME JobsOK, NEW r \in Requests, job[r].op = "request"
    PROVE  job[r] \in RequestJob /\ job[r].user \in Users /\ job[r].session \in Sessions
           /\ job[r].start \in Times
BY DEF JobsOK, JobOK, RequestJob

\* Of one that is about to change a role.
LEMMA RoleKept ==
    ASSUME JobsOK, NEW r \in Requests, job[r].op = "role"
    PROVE  job[r].role \in Roles /\ job[r].holders \subseteq Users /\ job[r].start \in Times
BY DEF JobsOK, JobOK, RoleJob

\* A wrong code is one of a challenge.
LEMMA PresentedJob ==
    ASSUME JobsOK, NEW r \in Requests, job[r].op # "free",
           job[r].pc \in {"wrong", "verified"}
    PROVE  job[r].op \in Kinds /\ ProofOK(job[r])
<1>1. JobOK(r)
  BY DEF JobsOK
<1>2. job[r].op # "request" /\ job[r].op # "role"
  BY <1>1 DEF JobOK, RequestJob, RoleJob
<1>3. QED
  BY <1>1, <1>2 DEF JobOK, LoginOK

\* The login issues a session or a challenge, or is over the limit of sessions.
LEMMA LoginCommitStep ==
    ASSUME TypeOK, JobsOK, NEW r \in Requests, NEW rehash \in BOOLEAN, LoginCommit(r, rehash)
    PROVE  StepOK
<1> DEFINE u == job[r].user
           seen == job[r].seen
           next == NextStep(seen)
<1>1. /\ u \in Users /\ user[u].state # "absent" /\ job[r].start \in Times
      /\ seen.mustChange \in BOOLEAN /\ seen.privileged \in BOOLEAN
  BY LoginJob DEF LoginOK, LoginCommit, At
<1>2. DOMAIN job' = Requests /\ served' \in 0 .. MaxRequests
  BY FinishWritten DEF LoginCommit
<1>3. CASE next = "AUTHENTICATED" /\ ~MayIssue(seen)
  <2>1. UNCHANGED <<now, identityRows, credentials>>
    BY <1>3 DEF LoginCommit, identityRows, credentials
  <2>2. QED
    BY <1>2, <2>1, ReadingStep DEF TypeOK
<1>4. CASE ~(next = "AUTHENTICATED" /\ ~MayIssue(seen))
  <2>1. /\ rate' = Cleared(u) /\ UNCHANGED <<now, role, mfaRequired, resets, factor>>
        /\ user' = IF rehash THEN [user EXCEPT ![u].mustChange = seen.mustChange] ELSE user
        /\ IF next = "AUTHENTICATED"
           THEN IssueSession(u, seen, job[r].start, None, None) /\ UNCHANGED challenge
           ELSE IssueChallenge(u, next, job[r].start) /\ UNCHANGED session
    BY <1>4 DEF LoginCommit
  <2>2. user' \in [Users -> UserRow] /\ UsersStay
    <3>1. CASE rehash
      <4> DEFINE must == seen.mustChange
      <4>1. must \in BOOLEAN /\ user' = [user EXCEPT ![u].mustChange = must]
        BY <1>1, <2>1, <3>1
      <4> HIDE DEF must, u
      <4>2. u \in Users
        BY <1>1
      <4>3. QED
        BY <4>1, <4>2, MarkStep
    <3>2. CASE ~rehash
      BY <2>1, <3>2 DEF UsersStay, TypeOK
    <3>3. QED
      BY <3>1, <3>2
  <2>3. rate' \in [Buckets -> RateRow]
    BY <2>1, ClearedTyped
  <2>4. CASE next = "AUTHENTICATED"
    <3>1. /\ session' \in [Sessions -> SessionRow \cup {None}]
          /\ \E s \in Sessions : Issued(s, NewSession(u, seen.privileged, job[r].start, None, None))
      <4>1. IssueSession(u, seen, job[r].start, None, None)
        BY <2>1, <2>4
      <4>2. u \in Users /\ seen.privileged \in BOOLEAN /\ job[r].start \in Times
        BY <1>1
      <4>3. None \in Challenges \cup {None}
            /\ None \in {None} \cup ((0 .. MaxFactors) \X (0 .. MaxTime + 2))
        OBVIOUS
      <4> HIDE DEF u, seen
      <4>4. QED
        BY ONLY TypeOK, <4>1, <4>2, <4>3, IssueIssues
    <3> DEFINE row == NewSession(u, seen.privileged, job[r].start, None, None)
    <3>2. row \in SessionRow /\ row.via = None /\ row.user = u
      BY <1>1, NewSessionRow DEF NewSession
    <3> HIDE DEF row
    <3>3. PICK s \in Sessions : Issued(s, row)
      BY <3>1 DEF row
    <3>4. SignsIn(s, row)
      BY <1>1, <2>1, <2>4, <3>2, <3>3 DEF SignsIn
    <3>5. Effect
      BY <2>1, <2>4, <3>2, <3>4, SameRows DEF Effect
    <3>6. TypeOK'
      BY <1>2, <2>1, <2>2, <2>3, <2>4, <3>1 DEF TypeOK
    <3>7. QED
      BY <2>2, <3>5, <3>6 DEF StepOK
  <2>5. CASE next # "AUTHENTICATED"
    <3>1. next \in Kinds
      BY <2>5 DEF NextStep
    <3> HIDE DEF next
    <3>2. /\ challenge' \in [Challenges -> ChallengeRow \cup {None}] /\ OldChallenges
          /\ \E c \in Challenges :
                /\ challenge[c] = None /\ challenge'[c] # None
                /\ challenge'[c] = NewChallenge(u, next, job[r].start)
                /\ \A d \in Challenges \ {c} : challenge'[d] = challenge[d]
      BY <1>1, <2>1, <2>5, <3>1, IssuedChallenge
    <3> DEFINE row == NewChallenge(u, next, job[r].start)
    <3>3. row \in ChallengeRow /\ row.user = u /\ row.resets = resets[u]
      BY <1>1, <3>1, NewChallengeRow DEF NewChallenge
    <3> HIDE DEF row
    <3>4. PICK c \in Challenges : /\ challenge[c] = None /\ challenge'[c] = row
                                  /\ \A d \in Challenges \ {c} : challenge'[d] = challenge[d]
      BY <3>2 DEF row
    <3>5. Defers(c, row)
      BY <1>1, <2>1, <2>5, <3>3, <3>4 DEF Defers
    <3>6. Effect
      BY <3>2, <3>3, <3>5 DEF Effect
    <3>7. TypeOK'
      BY <1>2, <2>1, <2>2, <2>3, <2>5, <3>2 DEF TypeOK
    <3>8. QED
      BY <2>2, <3>6, <3>7 DEF StepOK
  <2>6. QED
    BY <2>4, <2>5
<1>5. QED
  BY <1>3, <1>4

\* The second step issues a session for a code and a challenge not yet used.
LEMMA IssueProvenStep ==
    ASSUME TypeOK, JobsOK, NEW r \in Requests, NEW stillGood, job[r].op \in Kinds,
           job[r].pc = "reread", IssueProven(r, stillGood),
           stillGood => \/ CanEnable(job[r].user, job[r].factor)
                        \/ CanAccept(job[r].user, job[r].factor, job[r].counter)
    PROVE  StepOK
<1> DEFINE u == job[r].user
           c == job[r].via
           seen == job[r].seen
           code == <<job[r].factor, job[r].counter>>
<1>1. /\ u \in Users /\ user[u].state # "absent" /\ job[r].start \in Times
      /\ c \in Challenges /\ challenge[c] # None /\ challenge[c].user = u
      /\ job[r].factor \in 0 .. MaxFactors /\ job[r].counter \in 0 .. MaxTime + 2
      /\ seen.privileged \in BOOLEAN
  BY ProofJob DEF ProofOK
<1>2. DOMAIN job' = Requests /\ served' \in 0 .. MaxRequests
  BY FinishWritten DEF IssueProven
<1>3. UNCHANGED <<now, identityRows>>
  BY DEF IssueProven
<1>4. CASE ~(stillGood /\ Open(c) /\ MayIssue(seen))
  <2>1. UNCHANGED credentials
    BY <1>4 DEF IssueProven
  <2>2. QED
    BY <1>2, <1>3, <2>1, ReadingStep DEF TypeOK
<1>5. CASE stillGood /\ Open(c) /\ MayIssue(seen)
  <2>1. /\ factor' = FactorProven(u, job[r].counter)
        /\ challenge' = Consumed(c) /\ rate' = Cleared(c)
        /\ IssueSession(u, seen, job[r].start, c, code)
    BY <1>5 DEF IssueProven
  <2>2. CanEnable(u, job[r].factor) \/ CanAccept(u, job[r].factor, job[r].counter)
    BY <1>5
  <2>3. /\ challenge' \in [Challenges -> ChallengeRow \cup {None}] /\ OldChallenges
        /\ ~challenge'[c].open
        /\ \A d \in Challenges : challenge'[d] # None => challenge[d] # None
    BY ONLY TypeOK, <1>1, <2>1, ConsumedClosed
  <2>4. /\ factor' \in [Users -> FactorRow] /\ OldFactors
        /\ ~Passed(factor[u], code) /\ Passed(factor'[u], code)
    BY ONLY TypeOK, <1>1, <2>1, <2>2, ProvenLater DEF OldFactors
  <2>5. rate' \in [Buckets -> RateRow]
    BY <2>1, ClearedTyped
  <2>6. code \in (0 .. MaxFactors) \X (0 .. MaxTime + 2)
    BY <1>1
  <2> DEFINE row == NewSession(u, seen.privileged, job[r].start, c, code)
  <2> HIDE DEF code
  <2>7. /\ session' \in [Sessions -> SessionRow \cup {None}]
        /\ \E s \in Sessions : Issued(s, row)
    BY ONLY TypeOK, <1>1, <2>1, <2>6, IssueIssues
  <2>8. row \in SessionRow /\ row.via = c /\ row.user = u /\ row.proof = code
    BY ONLY <1>1, <2>6, NewSessionRow DEF NewSession
  <2> HIDE DEF row
  <2>9. PICK s \in Sessions : Issued(s, row)
    BY <2>7
  <2>10. Proves(s, row)
    BY <1>1, <1>3, <1>5, <2>3, <2>4, <2>6, <2>8, <2>9 DEF Proves, identityRows
  <2>11. Effect
    BY <2>3, <2>8, <2>10 DEF Effect
  <2>12. TypeOK' /\ UsersStay
    BY <1>2, <1>3, <2>3, <2>4, <2>5, <2>7, SameRows DEF TypeOK, identityRows
  <2>13. QED
    BY <2>11, <2>12 DEF StepOK
<1>6. QED
  BY <1>4, <1>5

\* Signing in, by use case.
LEMMA SignInStep ==
    ASSUME TypeOK, JobsOK, SignInNext
    PROVE  StepOK
<1> USE DEF At
<1>0. now \in Times
  BY DEF TypeOK
<1>1. CASE Tick
  <2>1. now' \in Times /\ UNCHANGED <<identityRows, credentials>>
        /\ DOMAIN job' = Requests /\ served' \in 0 .. MaxRequests
    BY <1>1, <1>0, Constants DEF Tick, Times, TypeOK
  <2>2. QED
    BY <2>1, ReadingStep
<1>2. ASSUME NEW r \in Requests, NEW u \in Users, NEW matches \in BOOLEAN,
             LoginCheck(r, u, matches)
      PROVE  StepOK
  BY <1>0, <1>2, EntryWritten, ReadingStep DEF LoginCheck
<1>3. ASSUME NEW r \in Requests, LoginFail(r)
      PROVE  StepOK
  <2>1. job[r].user \in Users /\ job[r].start \in Times
    BY <1>3, LoginJob DEF LoginFail, LoginOK
  <2>2. rate' \in [Buckets -> RateRow]
    BY <1>3, <2>1, FailuresTyped DEF LoginFail
  <2>3. QED
    BY <1>3, <2>2, FinishWritten, RateStep DEF LoginFail
<1>4. ASSUME NEW r \in Requests, LoginReread(r)
      PROVE  StepOK
  <2>1. DOMAIN job' = Requests /\ served' \in 0 .. MaxRequests
    BY <1>4, EntryWritten, FinishWritten DEF LoginReread
  <2>2. QED
    BY <1>0, <1>4, <2>1, ReadingStep DEF LoginReread
<1>5. ASSUME NEW r \in Requests, NEW rehash \in BOOLEAN, LoginCommit(r, rehash)
      PROVE  StepOK
  BY <1>5, LoginCommitStep
<1>6. ASSUME NEW r \in Requests, NEW c \in Challenges, AuthenticateChallenge(r, c)
      PROVE  StepOK
  BY <1>0, <1>6, EntryWritten, ReadingStep DEF AuthenticateChallenge
<1>7. ASSUME NEW r \in Requests, StartTotpEnrollment(r)
      PROVE  StepOK
  <2>1. job[r].user \in Users
    BY <1>7, ProofJob DEF StartTotpEnrollment, ProofOK
  <2>2. factor' \in [Users -> FactorRow] /\ OldFactors
    BY <1>7, <2>1, SavedLater DEF StartTotpEnrollment, OldFactors
  <2>3. DOMAIN job' = Requests /\ served' \in 0 .. MaxRequests
    BY <1>7, FinishWritten DEF StartTotpEnrollment
  <2>4. UNCHANGED <<now, identityRows, challenge, session, rate>>
    BY <1>7 DEF StartTotpEnrollment
  <2>5. TypeOK' /\ UsersStay /\ Effect
    BY <2>2, <2>3, <2>4, SameRows, SameSessions, SameChallengesEffect DEF TypeOK, identityRows
  <2>6. QED
    BY <2>5 DEF StepOK
<1>8. ASSUME NEW r \in Requests, NEW op, NEW wanted, NEW counter, Verify(r, op, wanted, counter)
      PROVE  StepOK
  <2>1. DOMAIN job' = Requests /\ served' \in 0 .. MaxRequests
    BY <1>8, EntryWritten, FinishWritten DEF Verify
  <2>2. QED
    BY <1>0, <1>8, <2>1, ReadingStep DEF Verify
<1>9. ASSUME NEW r \in Requests, WrongCode(r)
      PROVE  StepOK
  <2>1. job[r].via \in Challenges /\ job[r].start \in Times
    BY <1>9, PresentedJob DEF WrongCode, ProofOK
  <2>2. rate' \in [Buckets -> RateRow]
    BY <1>9, <2>1, FailuresTyped DEF WrongCode
  <2>3. QED
    BY <1>9, <2>2, FinishWritten, RateStep DEF WrongCode
<1>10. ASSUME NEW r \in Requests, RereadProven(r)
       PROVE  StepOK
  BY <1>0, <1>10, EntryWritten, ReadingStep DEF RereadProven
<1>11. ASSUME NEW r \in Requests, ConfirmTotpEnrollment(r) \/ CompleteTotpChallenge(r)
       PROVE  StepOK
  BY <1>11, IssueProvenStep DEF ConfirmTotpEnrollment, CompleteTotpChallenge
<1>12. ASSUME NEW r \in Requests, ChangePassword(r)
       PROVE  StepOK
  <2> DEFINE u == job[r].user
  <2>1. u \in Users
    BY <1>12, ProofJob, RequestKept DEF ChangePassword, ProofOK
  <2>2. /\ user' = [user EXCEPT ![u].mustChange = FALSE] /\ EndAccess(u, now) /\ Finish(r)
        /\ UNCHANGED <<now, role, mfaRequired, factor, rate>>
    BY <1>12 DEF ChangePassword
  <2> HIDE DEF u
  <2>3. user' \in [Users -> UserRow] /\ UsersStay
    BY <2>1, <2>2, MarkStep
  <2>4. factor' \in [Users -> FactorRow] /\ OldFactors
    BY <2>2, SameRows DEF TypeOK
  <2>5. QED
    BY <2>1, <2>2, <2>3, <2>4, FinishWritten, EndingStep
<1>13. ASSUME NEW r \in Requests, NEW s \in Sessions, AuthenticateSession(r, s)
       PROVE  StepOK
  BY <1>0, <1>13, EntryWritten, ReadingStep DEF AuthenticateSession
<1>14. ASSUME NEW r \in Requests, UpdateActivity(r)
       PROVE  StepOK
  <2>1. job[r].session \in Sessions /\ job[r].start \in Times
    BY <1>14, RequestKept DEF UpdateActivity
  <2>2. session' \in [Sessions -> SessionRow \cup {None}] /\ OldSessions
    BY <1>14, <2>1, TouchOld DEF UpdateActivity
  <2>3. DOMAIN job' = Requests /\ served' \in 0 .. MaxRequests
    BY <1>14, EntryWritten DEF UpdateActivity
  <2>4. QED
    BY <1>14, <2>2, <2>3, SameRows, SessionsStep
       DEF UpdateActivity, identityRows, signInRows, TypeOK
<1>15. ASSUME NEW r \in Requests, Logout(r)
       PROVE  StepOK
  <2>1. session' \in [Sessions -> SessionRow \cup {None}] /\ OldSessions
    BY <1>0, <1>15, RevokeOld DEF Logout
  <2>2. DOMAIN job' = Requests /\ served' \in 0 .. MaxRequests
    BY <1>15, FinishWritten DEF Logout
  <2>3. QED
    BY <1>15, <2>1, <2>2, SameRows, SessionsStep DEF Logout, identityRows, signInRows, TypeOK
<1>16. ASSUME NEW r \in Requests, Answer(r)
       PROVE  StepOK
  BY <1>0, <1>16, FinishWritten, ReadingStep DEF Answer
<1>17. QED
  BY <1>1, <1>2, <1>3, <1>4, <1>5, <1>6, <1>7, <1>8, <1>9, <1>10, <1>11, <1>12, <1>13, <1>14,
     <1>15, <1>16 DEF SignInNext, ConfirmVerify, CompleteVerify

\* A user whose state is another is a user still.
LEMMA StateStep ==
    ASSUME TypeOK, NEW u \in Users, NEW st \in {"active", "inactive", "deleted"},
           user' = [user EXCEPT ![u].state = st]
    PROVE  user' \in [Users -> UserRow] /\ UsersStay
BY DEF TypeOK, UserRow, UsersStay

\* So is a user with other roles.
LEMMA RolesStep ==
    ASSUME TypeOK, NEW u \in Users, NEW R \in SUBSET Roles,
           user' = [user EXCEPT ![u].roles = R] \/ NewUser(u, R)
    PROVE  user' \in [Users -> UserRow] /\ UsersStay
<1>1. user \in [Users -> UserRow]
  BY DEF TypeOK
<1>2. CASE user' = [user EXCEPT ![u].roles = R]
  BY <1>1, <1>2 DEF UserRow, UsersStay
<1>3. CASE NewUser(u, R)
  <2> DEFINE row == [state |-> "active", mustChange |-> TRUE, roles |-> R]
  <2>1. row \in UserRow /\ row.state # "absent"
    BY DEF UserRow
  <2>2. user' = [user EXCEPT ![u] = row]
    BY <1>3 DEF NewUser
  <2> HIDE DEF row
  <2>3. QED
    BY <1>1, <2>1, <2>2 DEF UsersStay
<1>4. QED
  BY <1>2, <1>3

\* A step that revokes sessions, and writes users, roles or the settings.
LEMMA RevokingStep ==
    ASSUME TypeOK, NEW chosen, NEW at \in Times, session' = Revoke(chosen, at),
           NEW r \in Requests, Finish(r),
           UNCHANGED <<now, resets, signInRows>>, UsersStay,
           user' \in [Users -> UserRow], role' \in [Roles -> RoleRow], mfaRequired' \in BOOLEAN
    PROVE  StepOK
<1>1. session' \in [Sessions -> SessionRow \cup {None}] /\ OldSessions
  BY RevokeOld
<1>2. now \in Times
  BY DEF TypeOK
<1>3. QED
  BY <1>1, <1>2, FinishWritten, SessionsStep

\* One that writes a user and nothing more.
LEMMA UserStep ==
    ASSUME TypeOK, UNCHANGED <<now, role, mfaRequired, resets, signInRows, session>>,
           user' \in [Users -> UserRow], UsersStay,
           DOMAIN job' = Requests, served' \in 0 .. MaxRequests
    PROVE  StepOK
BY SameSessions, SessionsStep DEF TypeOK

\* Administration, by use case.
LEMMA AccountsStep ==
    ASSUME TypeOK, JobsOK, AccountsNext
    PROVE  StepOK
<1>0. /\ now \in Times /\ user \in [Users -> UserRow] /\ role \in [Roles -> RoleRow]
      /\ mfaRequired \in BOOLEAN /\ DOMAIN job = Requests /\ served \in 0 .. MaxRequests
      /\ session \in [Sessions -> SessionRow \cup {None}] /\ factor \in [Users -> FactorRow]
  BY DEF TypeOK
<1>1. ASSUME NEW u \in Users, CreateInitialSuperAdmin(u)
      PROVE  StepOK
  <2>1. {SuperAdmin} \in SUBSET Roles
    BY FirstRowsAssumption
  <2>2. user' \in [Users -> UserRow] /\ UsersStay
    BY <1>1, <2>1, RolesStep DEF CreateInitialSuperAdmin
  <2>3. QED
    BY <1>0, <1>1, <2>2, UserStep DEF CreateInitialSuperAdmin
<1>2. ASSUME NEW r \in Requests, NEW u \in Users, NEW R \in SUBSET Roles, CreateUser(r, u, R)
      PROVE  StepOK
  <2>1. user' \in [Users -> UserRow] /\ UsersStay
    BY <1>2, RolesStep DEF CreateUser
  <2>2. QED
    BY <1>2, <2>1, FinishWritten, UserStep DEF CreateUser
<1>3. ASSUME NEW r \in Requests, NEW u \in Users, NEW R \in SUBSET Roles,
             AssignUserRoles(r, u, R)
      PROVE  StepOK
  <2>1. user' \in [Users -> UserRow] /\ UsersStay
    BY <1>3, RolesStep DEF AssignUserRoles
  <2>2. QED
    BY <1>0, <1>3, <2>1, RevokingStep DEF AssignUserRoles
<1>4. ASSUME NEW r \in Requests, NEW u \in Users, NEW active \in BOOLEAN, UpdateUser(r, u, active)
      PROVE  StepOK
  <2>1. user' \in [Users -> UserRow] /\ UsersStay
    BY <1>4, StateStep DEF UpdateUser
  <2>2. QED
    BY <1>0, <1>4, <2>1, RevokingStep DEF UpdateUser
<1>5. ASSUME NEW r \in Requests, NEW u \in Users, SoftDeleteUser(r, u)
      PROVE  StepOK
  <2>1. user' \in [Users -> UserRow] /\ UsersStay
    BY <1>5, StateStep DEF SoftDeleteUser
  <2>2. factor' \in [Users -> FactorRow] /\ OldFactors
    BY <1>0, <1>5, SameRows DEF SoftDeleteUser
  <2>3. QED
    BY <1>5, <2>1, <2>2, FinishWritten, EndingStep DEF SoftDeleteUser
<1>6. ASSUME NEW r \in Requests, NEW u \in Users, RestoreUser(r, u)
      PROVE  StepOK
  <2>1. user' \in [Users -> UserRow] /\ UsersStay
    BY <1>6, StateStep DEF RestoreUser
  <2>2. QED
    BY <1>6, <2>1, FinishWritten, UserStep DEF RestoreUser
<1>7. ASSUME NEW r \in Requests, NEW u \in Users, ResetUserPassword(r, u)
      PROVE  StepOK
  <2>1. user' \in [Users -> UserRow] /\ UsersStay
    BY <1>7, MarkStep DEF ResetUserPassword
  <2>2. factor' \in [Users -> FactorRow] /\ OldFactors
    BY <1>0, <1>7, SameRows DEF ResetUserPassword
  <2>3. QED
    BY <1>7, <2>1, <2>2, FinishWritten, EndingStep DEF ResetUserPassword
<1>8. ASSUME NEW r \in Requests, NEW u \in Users, ResetUserTotp(r, u)
      PROVE  StepOK
  <2>1. user' \in [Users -> UserRow] /\ UsersStay
    BY <1>0, <1>8, SameRows DEF ResetUserTotp
  <2>2. factor' \in [Users -> FactorRow] /\ OldFactors
    BY <1>8, DisabledLater DEF ResetUserTotp, OldFactors
  <2>3. QED
    BY <1>8, <2>1, <2>2, FinishWritten, EndingStep DEF ResetUserTotp
<1>9. ASSUME NEW r \in Requests, NEW u \in Users, NEW chosen \in SUBSET Sessions,
             RevokeUserSessions(r, u, chosen)
      PROVE  StepOK
  BY <1>0, <1>9, SameRows, RevokingStep DEF RevokeUserSessions, identityRows
<1>10. ASSUME NEW r \in Requests, NEW x \in Roles, NEW privileged \in BOOLEAN,
              NEW perms \in {{}, Permissions}, CreateRole(r, x, privileged, perms)
       PROVE  StepOK
  <2>1. role' \in [Roles -> RoleRow]
    BY <1>0, <1>10 DEF CreateRole, RoleRow
  <2>2. QED
    BY <1>0, <1>10, <2>1, FinishWritten, SameRows, SameSessions, SessionsStep DEF CreateRole
<1>11. ASSUME NEW r \in Requests, NEW privileged \in BOOLEAN, NEW active \in BOOLEAN,
              UpdateRole(r, privileged, active)
       PROVE  StepOK
  <2>1. job[r].role \in Roles /\ job[r].start \in Times
    BY <1>11, RoleKept DEF UpdateRole, At
  <2>2. role' \in [Roles -> RoleRow]
    <3> DEFINE st == IF active THEN "active" ELSE "inactive"
               x == job[r].role
    <3>1. st \in {"active", "inactive"} /\ x \in Roles
      BY <2>1
    <3>2. role' = [role EXCEPT ![x].privileged = privileged, ![x].state = st]
      BY <1>11 DEF UpdateRole
    <3> HIDE DEF st, x
    <3>3. QED
      BY <1>0, <3>1, <3>2 DEF RoleRow
  <2> DEFINE chosen == SessionsOf(job[r].holders)
             at == job[r].start
  <2>3. session' = Revoke(chosen, at) /\ at \in Times
    BY <1>11, <2>1 DEF UpdateRole
  <2>4. Finish(r) /\ UNCHANGED <<now, user, mfaRequired, resets, signInRows>>
    BY <1>11 DEF UpdateRole
  <2>5. user' \in [Users -> UserRow] /\ UsersStay /\ mfaRequired' \in BOOLEAN
    BY <1>0, <2>4, SameRows
  <2> HIDE DEF chosen, at
  <2>6. QED
    BY <2>2, <2>3, <2>4, <2>5, RevokingStep
<1>12. ASSUME NEW r \in Requests, NEW perms \in {{}, Permissions}, AssignRolePermissions(r, perms)
       PROVE  StepOK
  <2>1. job[r].role \in Roles /\ job[r].start \in Times
    BY <1>12, RoleKept DEF AssignRolePermissions, At
  <2>2. role' \in [Roles -> RoleRow]
    BY <1>0, <1>12, <2>1 DEF AssignRolePermissions, RoleRow
  <2> DEFINE chosen == SessionsOf(job[r].holders)
             at == job[r].start
  <2>3. session' = Revoke(chosen, at) /\ at \in Times
    BY <1>12, <2>1 DEF AssignRolePermissions
  <2>4. Finish(r) /\ UNCHANGED <<now, user, mfaRequired, resets, signInRows>>
    BY <1>12 DEF AssignRolePermissions
  <2>5. user' \in [Users -> UserRow] /\ UsersStay /\ mfaRequired' \in BOOLEAN
    BY <1>0, <2>4, SameRows
  <2> HIDE DEF chosen, at
  <2>6. QED
    BY <2>2, <2>3, <2>4, <2>5, RevokingStep
<1>13. ASSUME NEW r \in Requests, NEW wanted \in BOOLEAN, UpdateAuthenticationSettings(r, wanted)
       PROVE  StepOK
  <2>1. /\ user' = user /\ role' = role /\ mfaRequired' \in BOOLEAN
        /\ UNCHANGED <<now, resets, signInRows>> /\ Finish(r)
    BY <1>13 DEF UpdateAuthenticationSettings
  <2>2. CASE wanted
    <3>1. session' = Revoke(UNION {ActivePrivileged(u, now) : u \in Users}, now)
      BY <1>13, <2>2 DEF UpdateAuthenticationSettings
    <3>2. QED
      BY <1>0, <2>1, <3>1, SameRows, RevokingStep
  <2>3. CASE ~wanted
    <3>1. session' = session
      BY <1>13, <2>3 DEF UpdateAuthenticationSettings
    <3>2. QED
      BY <1>0, <2>1, <3>1, FinishWritten, SameRows, SameSessions, SessionsStep
  <2>4. QED
    BY <2>2, <2>3
<1>14. ASSUME NEW r \in Requests, NEW x \in Roles, ReadRole(r, x)
       PROVE  StepOK
  <2>1. DOMAIN job' = Requests /\ served' \in 0 .. MaxRequests
    BY <1>14, EntryWritten DEF ReadRole
  <2>2. UNCHANGED <<identityRows, credentials>>
    BY <1>14 DEF ReadRole, signInRows, credentials
  <2>3. QED
    BY <1>0, <1>14, <2>1, <2>2, ReadingStep DEF ReadRole
<1>15. QED
  BY <1>1, <1>2, <1>3, <1>4, <1>5, <1>6, <1>7, <1>8, <1>9, <1>10, <1>11, <1>12, <1>13, <1>14
     DEF AccountsNext

\* Every step, and the step that changes nothing.
LEMMA NextStepOK ==
    ASSUME TypeOK, JobsOK, [Next]_vars
    PROVE  StepOK
<1>1. CASE UNCHANGED vars
  <2>1. /\ now' \in Times /\ UNCHANGED <<identityRows, credentials>>
        /\ DOMAIN job' = Requests /\ served' \in 0 .. MaxRequests
    BY <1>1 DEF TypeOK, vars, identityRows, credentials
  <2>2. QED
    BY <2>1, ReadingStep
<1>2. QED
  BY <1>1, SignInStep, AccountsStep DEF Next

-----------------------------------------------------------------------------
(***************************************************************************)
(* What a request has read stays true of the rows it named.                *)
(***************************************************************************)
LEMMA JobKept ==
    ASSUME JobsOK, UsersStay, OldChallenges, NEW q \in Requests, job'[q] = job[q]
    PROVE  JobOK(q)'
<1>1. JobOK(q)
  BY DEF JobsOK
<1>2. job[q].op = "login" => LoginOK(job[q])'
  BY <1>1 DEF JobOK, LoginOK, UsersStay
<1>3. job[q].op \in Kinds => ProofOK(job[q])'
  BY <1>1 DEF JobOK, ProofOK, UsersStay, OldChallenges
<1>4. QED
  BY <1>1, <1>2, <1>3 DEF JobOK

\* A step that writes the entry of one request, and a good one.
LEMMA JobWritten ==
    ASSUME JobsOK, UsersStay, OldChallenges, NEW r \in Requests, JobOK(r)',
           \A q \in Requests \ {r} : job'[q] = job[q]
    PROVE  JobsOK'
<1>1. \A q \in Requests \ {r} : JobOK(q)'
  BY JobKept
<1>2. QED
  BY <1>1 DEF JobsOK

\* A step after which its request has nothing more to remember.
LEMMA JobFinished ==
    ASSUME TypeOK, JobsOK, UsersStay, OldChallenges, NEW r \in Requests, Finish(r)
    PROVE  JobsOK'
<1>1. job'[r] = Free /\ \A q \in Requests \ {r} : job'[q] = job[q]
  BY FinishWritten
<1>2. JobOK(r)'
  BY <1>1 DEF JobOK, Free
<1>3. QED
  BY <1>1, <1>2, JobWritten

\* What the use cases of signing in remember is so.
LEMMA SignInJobs ==
    ASSUME TypeOK, JobsOK, UsersStay, OldChallenges, SignInNext
    PROVE  JobsOK'
<1> USE DEF At
<1>0. now \in Times /\ user \in [Users -> UserRow]
      /\ challenge \in [Challenges -> ChallengeRow \cup {None}]
      /\ session \in [Sessions -> SessionRow \cup {None}]
      /\ factor \in [Users -> FactorRow] /\ role \in [Roles -> RoleRow]
  BY DEF TypeOK
<1>1. CASE Tick
  BY <1>1, JobKept DEF Tick, JobsOK
<1>2. ASSUME NEW r \in Requests, NEW u \in Users, NEW matches \in BOOLEAN,
             LoginCheck(r, u, matches)
      PROVE  JobsOK'
  <2> DEFINE pc == IF /\ matches
                      /\ user[u].state = "active"
                      /\ ~LockedOut(u, now) /\ ~LockedOut(Source, now)
                   THEN "eligible" ELSE "failed"
  <2>1. Begin(r, [op |-> "login", user |-> u, start |-> now, pc |-> pc])
    BY <1>2 DEF LoginCheck
  <2>2. pc \in {"eligible", "failed"} /\ (pc # "failed" => user'[u].state # "absent")
    BY <1>2 DEF LoginCheck, UsersStay
  <2> HIDE DEF pc
  <2>3. /\ job'[r] = [op |-> "login", user |-> u, start |-> now, pc |-> pc]
        /\ \A q \in Requests \ {r} : job'[q] = job[q]
    BY <2>1, EntryWritten
  <2>4. JobOK(r)'
    BY <1>0, <2>2, <2>3 DEF JobOK, LoginOK
  <2>5. QED
    BY <2>3, <2>4, JobWritten
<1>3. ASSUME NEW r \in Requests,
             \/ LoginFail(r) \/ \E rehash \in BOOLEAN : LoginCommit(r, rehash)
             \/ StartTotpEnrollment(r) \/ WrongCode(r)
             \/ ConfirmTotpEnrollment(r) \/ CompleteTotpChallenge(r)
             \/ ChangePassword(r) \/ Logout(r) \/ Answer(r)
      PROVE  JobsOK'
  <2>1. Finish(r)
    BY <1>3 DEF LoginFail, LoginCommit, StartTotpEnrollment, WrongCode, ConfirmTotpEnrollment,
                CompleteTotpChallenge, IssueProven, ChangePassword, Logout, Answer
  <2>2. QED
    BY <2>1, JobFinished
<1>4. ASSUME NEW r \in Requests, LoginReread(r)
      PROVE  JobsOK'
  <2> DEFINE u == job[r].user
             seen == Read(u, job[r].start)
             entry == [op |-> "login", pc |-> "reread", user |-> u, start |-> job[r].start,
                       seen |-> seen]
  <2>1. u \in Users /\ job[r].start \in Times /\ user[u].state # "absent"
    BY <1>4, LoginJob DEF LoginOK, LoginReread
  <2>2. Privileged(u) \in BOOLEAN /\ user[u].mustChange \in BOOLEAN
    BY <1>0, <2>1 DEF Privileged, UserRow
  <2>3. seen.mustChange \in BOOLEAN /\ seen.privileged \in BOOLEAN
    BY <2>2 DEF Read
  <2>4. user'[u].state # "absent"
    BY <2>1 DEF UsersStay
  <2>5. CASE user[u].state = "active"
    <3>1. Continue(r, entry)
      BY <1>4, <2>5 DEF LoginReread
    <3> HIDE DEF seen, u
    <3>2. job'[r] = entry /\ \A q \in Requests \ {r} : job'[q] = job[q]
      BY <3>1, EntryWritten
    <3>3. JobOK(r)'
      BY <2>1, <2>3, <2>4, <3>2 DEF JobOK, LoginOK
    <3>4. QED
      BY <3>2, <3>3, JobWritten
  <2>6. CASE user[u].state # "active"
    <3>1. Finish(r)
      BY <1>4, <2>6 DEF LoginReread
    <3>2. QED
      BY <3>1, JobFinished
  <2>7. QED
    BY <2>5, <2>6
<1>5. ASSUME NEW r \in Requests, NEW c \in Challenges, AuthenticateChallenge(r, c)
      PROVE  JobsOK'
  <2> DEFINE entry == [op |-> challenge[c].kind, pc |-> "authenticated", via |-> c,
                       user |-> challenge[c].user]
  <2>1. /\ challenge[c] # None /\ challenge[c] \in ChallengeRow
        /\ user[challenge[c].user].state = "active" /\ Begin(r, entry)
        /\ challenge' = challenge /\ user' = user
    BY <1>0, <1>5 DEF AuthenticateChallenge, credentials, identityRows
  <2>2. challenge[c].kind \in Kinds /\ challenge[c].user \in Users
    BY <2>1 DEF ChallengeRow
  <2>3. job'[r] = entry /\ \A q \in Requests \ {r} : job'[q] = job[q]
    BY <2>1, EntryWritten
  <2>4. JobOK(r)'
    BY <2>1, <2>2, <2>3 DEF JobOK, ProofOK
  <2>5. QED
    BY <2>3, <2>4, JobWritten
<1>6. ASSUME NEW r \in Requests, NEW op \in {"TOTP_ENROLLMENT", "TOTP_VERIFICATION"}, NEW wanted,
             NEW counter \in CodeWindow(now) \cup {None}, Verify(r, op, wanted, counter)
      PROVE  JobsOK'
  <2> DEFINE u == job[r].user
             pc == IF counter = None THEN "wrong" ELSE "verified"
             id == factor[u].id
             entry == [op |-> op, user |-> u, via |-> job[r].via, start |-> now,
                       factor |-> id, counter |-> counter, pc |-> pc]
  <2>1. /\ u \in Users /\ user[u].state # "absent"
        /\ job[r].via \in Challenges /\ challenge[job[r].via] # None
        /\ challenge[job[r].via].user = u
    BY <1>6, ProofJob DEF Verify, ProofOK
  <2>2. /\ user'[u].state # "absent" /\ challenge'[job[r].via] # None
        /\ challenge'[job[r].via].user = u
    BY <2>1 DEF UsersStay, OldChallenges
  <2>3. id \in 0 .. MaxFactors
    BY <1>0, <2>1 DEF FactorRow
  <2>4. /\ pc \in {"wrong", "verified"}
        /\ pc = "verified" => counter \in 0 .. MaxTime + 2
    BY <1>0, Constants DEF CodeWindow, Times
  <2>5. CASE LockedOut(job[r].via, now) \/ factor[u].status # wanted
    <3>1. Finish(r)
      BY <1>6, <2>5 DEF Verify
    <3>2. QED
      BY <3>1, JobFinished
  <2>6. CASE ~(LockedOut(job[r].via, now) \/ factor[u].status # wanted)
    <3>1. Continue(r, entry)
      BY <1>6, <2>6 DEF Verify
    <3> HIDE DEF pc, id, u
    <3>2. job'[r] = entry /\ \A q \in Requests \ {r} : job'[q] = job[q]
      BY <3>1, EntryWritten
    <3>3. JobOK(r)'
      BY <1>0, <2>1, <2>2, <2>3, <2>4, <3>2 DEF JobOK, ProofOK
    <3>4. QED
      BY <3>2, <3>3, JobWritten
  <2>7. QED
    BY <2>5, <2>6
<1>7. ASSUME NEW r \in Requests, RereadProven(r)
      PROVE  JobsOK'
  <2> DEFINE u == job[r].user
             seen == Read(u, job[r].start)
             entry == [op |-> job[r].op, pc |-> "reread", user |-> u, via |-> job[r].via,
                       start |-> job[r].start, factor |-> job[r].factor,
                       counter |-> job[r].counter, seen |-> seen]
  <2>1. job[r].op \in Kinds /\ ProofOK(job[r]) /\ job[r].pc = "verified"
    BY <1>7, PresentedJob DEF RereadProven
  <2>2. Privileged(u) \in BOOLEAN
    BY DEF Privileged
  <2>3. seen.privileged \in BOOLEAN
    BY <2>2 DEF Read
  <2>4. /\ u \in Users /\ user[u].state # "absent" /\ job[r].start \in Times
        /\ job[r].via \in Challenges /\ challenge[job[r].via] # None
        /\ challenge[job[r].via].user = u
        /\ job[r].factor \in 0 .. MaxFactors /\ job[r].counter \in 0 .. MaxTime + 2
    BY <2>1 DEF ProofOK
  <2>5. /\ user'[u].state # "absent" /\ challenge'[job[r].via] # None
        /\ challenge'[job[r].via].user = u
    BY <2>4 DEF UsersStay, OldChallenges
  <2>6. Continue(r, entry)
    BY <1>7 DEF RereadProven
  <2> HIDE DEF seen, u
  <2>7. job'[r] = entry /\ \A q \in Requests \ {r} : job'[q] = job[q]
    BY <2>6, EntryWritten
  <2>8. JobOK(r)'
    BY <2>1, <2>3, <2>4, <2>5, <2>7 DEF JobOK, ProofOK
  <2>9. QED
    BY <2>7, <2>8, JobWritten
<1>8. ASSUME NEW r \in Requests, NEW s \in Sessions, AuthenticateSession(r, s)
      PROVE  JobsOK'
  <2> DEFINE u == session[s].user
             pc == IF now - session[s].seen >= WriteInterval THEN "touch" ELSE "principal"
             rights == Rights(u)
             entry == [op |-> "request", user |-> u, session |-> s, start |-> now,
                       rights |-> rights, pc |-> pc]
  <2>1. u \in Users
    BY <1>0, <1>8 DEF AuthenticateSession, Used, SessionRow
  <2>2. rights \subseteq Permissions
    BY <1>0, <2>1 DEF Rights, ActiveRoles, UserRow, RoleRow
  <2>3. pc \in {"touch", "principal"}
    OBVIOUS
  <2>4. Begin(r, entry)
    BY <1>8 DEF AuthenticateSession
  <2> HIDE DEF pc, rights, u
  <2>5. job'[r] = entry /\ \A q \in Requests \ {r} : job'[q] = job[q]
    BY <2>4, EntryWritten
  <2>6. JobOK(r)'
    BY <1>0, <2>1, <2>2, <2>3, <2>5 DEF JobOK, RequestJob
  <2>7. QED
    BY <2>5, <2>6, JobWritten
<1>9. ASSUME NEW r \in Requests, UpdateActivity(r)
      PROVE  JobsOK'
  <2>1. job[r] \in RequestJob /\ job[r].op = "request"
    BY <1>9, RequestKept DEF UpdateActivity
  <2>2. /\ job'[r] = [job[r] EXCEPT !.pc = "principal"]
        /\ \A q \in Requests \ {r} : job'[q] = job[q]
    BY <1>9, EntryWritten DEF UpdateActivity
  <2>3. JobOK(r)'
    BY <2>1, <2>2 DEF JobOK, RequestJob
  <2>4. QED
    BY <2>2, <2>3, JobWritten
<1>10. QED
  BY <1>1, <1>2, <1>3, <1>4, <1>5, <1>6, <1>7, <1>8, <1>9
     DEF SignInNext, ConfirmVerify, CompleteVerify

\* Every step leaves requests what is so.
LEMMA NextJobs ==
    ASSUME TypeOK, JobsOK, StepOK, [Next]_vars
    PROVE  JobsOK'
<1>0. UsersStay /\ OldChallenges
  BY DEF StepOK, Effect
<1>1. CASE UNCHANGED vars
  BY <1>0, <1>1, JobKept DEF vars, JobsOK
<1>2. CASE SignInNext
  BY <1>0, <1>2, SignInJobs
<1>3. CASE AccountsNext
  <2>1. ASSUME NEW u \in Users, CreateInitialSuperAdmin(u)
        PROVE  JobsOK'
    BY <1>0, <2>1, JobKept DEF CreateInitialSuperAdmin, JobsOK
  <2>2. ASSUME NEW r \in Requests, NEW u \in Users,
               \/ \E R \in SUBSET Roles : CreateUser(r, u, R) \/ AssignUserRoles(r, u, R)
               \/ \E active \in BOOLEAN : UpdateUser(r, u, active)
               \/ SoftDeleteUser(r, u) \/ RestoreUser(r, u)
               \/ ResetUserPassword(r, u) \/ ResetUserTotp(r, u)
               \/ \E chosen \in SUBSET Sessions : RevokeUserSessions(r, u, chosen)
        PROVE  JobsOK'
    <3>1. Finish(r)
      BY <2>2 DEF CreateUser, AssignUserRoles, UpdateUser, SoftDeleteUser, RestoreUser,
                  ResetUserPassword, ResetUserTotp, RevokeUserSessions
    <3>2. QED
      BY <1>0, <3>1, JobFinished
  <2>3. ASSUME NEW r \in Requests,
               \/ \E x \in Roles, privileged \in BOOLEAN, perms \in {{}, Permissions} :
                     CreateRole(r, x, privileged, perms)
               \/ \E privileged, active \in BOOLEAN : UpdateRole(r, privileged, active)
               \/ \E perms \in {{}, Permissions} : AssignRolePermissions(r, perms)
               \/ \E wanted \in BOOLEAN : UpdateAuthenticationSettings(r, wanted)
        PROVE  JobsOK'
    <3>1. Finish(r)
      BY <2>3 DEF CreateRole, UpdateRole, AssignRolePermissions, UpdateAuthenticationSettings
    <3>2. QED
      BY <1>0, <3>1, JobFinished
  <2>4. ASSUME NEW r \in Requests, NEW x \in Roles, ReadRole(r, x)
        PROVE  JobsOK'
    <3> DEFINE holders == Holders(x)
               privileged == role[x].privileged
               entry == [op |-> "role", pc |-> "read", user |-> Actor(r), rights |-> job[r].rights,
                         start |-> now, role |-> x, privileged |-> privileged,
                         holders |-> holders]
    <3>1. job[r] \in RequestJob
      BY <2>4, RequestKept DEF ReadRole, Admin, At
    <3>2. holders \subseteq Users /\ privileged \in BOOLEAN /\ now \in Times
      BY DEF Holders, TypeOK, RoleRow
    <3>3. Continue(r, entry)
      BY <2>4 DEF ReadRole
    <3> HIDE DEF holders, privileged
    <3>4. job'[r] = entry /\ \A q \in Requests \ {r} : job'[q] = job[q]
      BY <3>3, EntryWritten
    <3>5. entry \in RoleJob
      BY <3>1, <3>2 DEF RoleJob, RequestJob, Actor
    <3>6. JobOK(r)'
      BY <3>4, <3>5 DEF JobOK
    <3>7. QED
      BY <1>0, <3>4, <3>6, JobWritten
  <2>5. TRUE \in BOOLEAN
    OBVIOUS
  <2>6. QED
    BY <1>3, <2>1, <2>2, <2>3, <2>4, <2>5, FirstRowsAssumption DEF AccountsNext
<1>4. QED
  BY <1>1, <1>2, <1>3 DEF Next

-----------------------------------------------------------------------------
(***************************************************************************)
(* Steps, by what they do to the standing of users.                        *)
(***************************************************************************)
\* None of the sessions the users had is left.
Ended(U) == \A s \in Sessions : Used(s) /\ session[s].user \in U => session'[s].revoked # Never

SameHolders == \A v \in Users : user'[v].roles = user[v].roles

\* The users a request that changes its role does not know to hold it.
MissedBy(r) == {u \in Users : GivenSinceRead(r, u)}

\* Nothing changes, or the roles of one user, or one role; and then the
\* sessions it is about are ended, but those of holders the request missed.
Standing ==
    \/ role' = role /\ SameHolders
    \/ \E u \in Users :
          /\ role' = role /\ user'[u].roles \subseteq UsableRoles
          /\ \A v \in Users \ {u} : user'[v].roles = user[v].roles
          /\ Ended({u})
    \/ \E x \in Roles :
          /\ user' = user
          /\ role[x].state # "absent" => role'[x].state # "absent"
          /\ \A y \in Roles \ {x} : role'[y] = role[y]
          /\ \/ Ended(Holders(x))
             \/ \E r \in Requests : Ended(Holders(x) \ MissedBy(r)) /\ job'[r] = Free

\* A revocation of the sessions of users ends them.
LEMMA RevokeEnds ==
    ASSUME TypeOK, NEW U, NEW at \in Times, session' = Revoke(SessionsOf(U), at)
    PROVE  Ended(U)
<1>1. \A s \in Sessions : Used(s) /\ s \in SessionsOf(U) => session'[s].revoked # Never
  BY RevokeOld
<1>2. QED
  BY <1>1 DEF Ended, SessionsOf

\* A change of a role ends those of the holders that were read.
LEMMA ReadHoldersEnd ==
    ASSUME TypeOK, JobsOK, NEW r \in Requests, At(r, "role", "read"), Finish(r),
           session' = Revoke(SessionsOf(job[r].holders), job[r].start)
    PROVE  Ended(Holders(job[r].role) \ MissedBy(r)) /\ job'[r] = Free
<1>1. job[r].start \in Times
  BY RoleKept DEF At
<1>2. Ended(job[r].holders)
  BY <1>1, RevokeEnds
<1>3. Holders(job[r].role) \ MissedBy(r) \subseteq job[r].holders
  BY DEF MissedBy, GivenSinceRead, Holders
<1>4. QED
  BY <1>2, <1>3, FinishWritten DEF Ended

\* A sign-in leaves the roles as they are.
LEMMA SignInStanding ==
    ASSUME TypeOK, JobsOK, SignInNext
    PROVE  role' = role /\ SameHolders
<1>0. user \in [Users -> UserRow]
  BY DEF TypeOK
<1>1. ASSUME NEW u, NEW must, user' = [user EXCEPT ![u].mustChange = must]
      PROVE  SameHolders
  BY <1>0, <1>1 DEF SameHolders, UserRow
<1>2. ASSUME NEW r \in Requests, NEW rehash \in BOOLEAN, LoginCommit(r, rehash)
      PROVE  role' = role /\ SameHolders
  <2>1. /\ role' = role
        /\ user' = user \/ user' = [user EXCEPT ![job[r].user].mustChange = job[r].seen.mustChange]
    BY <1>2 DEF LoginCommit
  <2>2. QED
    BY <1>1, <2>1 DEF SameHolders
<1>3. ASSUME NEW r \in Requests, ChangePassword(r)
      PROVE  role' = role /\ SameHolders
  BY <1>1, <1>3 DEF ChangePassword
<1>4. CASE Tick
  BY <1>4 DEF Tick, identityRows, SameHolders
<1>5. ASSUME NEW r \in Requests,
             \/ \E u \in Users, matches \in BOOLEAN : LoginCheck(r, u, matches)
             \/ LoginFail(r) \/ LoginReread(r)
             \/ \E c \in Challenges : AuthenticateChallenge(r, c)
             \/ StartTotpEnrollment(r)
             \/ \E counter \in CodeWindow(now) \cup {None} :
                   ConfirmVerify(r, counter) \/ CompleteVerify(r, counter)
             \/ WrongCode(r) \/ RereadProven(r)
             \/ ConfirmTotpEnrollment(r) \/ CompleteTotpChallenge(r)
             \/ \E s \in Sessions : AuthenticateSession(r, s)
             \/ UpdateActivity(r) \/ Logout(r) \/ Answer(r)
      PROVE  role' = role /\ SameHolders
  <2>1. UNCHANGED identityRows
    BY <1>5 DEF LoginCheck, LoginFail, LoginReread, AuthenticateChallenge, StartTotpEnrollment,
                ConfirmVerify, CompleteVerify, Verify, WrongCode, RereadProven,
                ConfirmTotpEnrollment, CompleteTotpChallenge, IssueProven,
                AuthenticateSession, UpdateActivity, Logout, Answer
  <2>2. QED
    BY <2>1 DEF identityRows, SameHolders
<1>6. QED
  BY <1>2, <1>3, <1>4, <1>5 DEF SignInNext

\* Administration ends the sessions of those whose roles or rights it changes.
LEMMA AccountsStanding ==
    ASSUME TypeOK, JobsOK, RowsExist, AccountsNext
    PROVE  Standing
<1>0. user \in [Users -> UserRow] /\ role \in [Roles -> RoleRow] /\ now \in Times
  BY DEF TypeOK
<1>a. ASSUME NEW u \in Users, NEW R, NewUser(u, R), user[u].state = "absent", role' = role,
             R \subseteq UsableRoles, session' = session
      PROVE  Standing
  <2>1. user'[u].roles = R /\ \A v \in Users \ {u} : user'[v].roles = user[v].roles
    BY <1>0, <1>a DEF NewUser
  <2>2. Ended({u})
    BY <1>a DEF Ended, RowsExist
  <2>3. QED
    BY <1>a, <2>1, <2>2 DEF Standing
<1>b. ASSUME NEW u \in Users, NEW st, user' = [user EXCEPT ![u].state = st], role' = role
      PROVE  Standing
  BY <1>0, <1>b DEF Standing, SameHolders, UserRow
<1>1. ASSUME NEW u \in Users, CreateInitialSuperAdmin(u)
      PROVE  Standing
  BY <1>1, <1>a, FirstRowsAssumption DEF CreateInitialSuperAdmin, UsableRoles
<1>2. ASSUME NEW r \in Requests, NEW u \in Users, NEW R \in SUBSET Roles, CreateUser(r, u, R)
      PROVE  Standing
  BY <1>2, <1>a DEF CreateUser
<1>3. ASSUME NEW r \in Requests, NEW u \in Users, NEW R \in SUBSET Roles,
             AssignUserRoles(r, u, R)
      PROVE  Standing
  <2>1. Ended({u})
    BY <1>0, <1>3, RevokeEnds DEF AssignUserRoles
  <2>2. user'[u].roles = R /\ \A v \in Users \ {u} : user'[v].roles = user[v].roles
    BY <1>0, <1>3 DEF AssignUserRoles, UserRow
  <2>3. QED
    BY <1>3, <2>1, <2>2 DEF AssignUserRoles, Standing
<1>4. ASSUME NEW r \in Requests, NEW u \in Users,
             (\E active \in BOOLEAN : UpdateUser(r, u, active)) \/ SoftDeleteUser(r, u)
             \/ RestoreUser(r, u)
      PROVE  Standing
  BY <1>4, <1>b DEF UpdateUser, SoftDeleteUser, RestoreUser
<1>5. ASSUME NEW r \in Requests, NEW u \in Users,
             \/ ResetUserPassword(r, u) \/ ResetUserTotp(r, u)
             \/ \E chosen \in SUBSET Sessions : RevokeUserSessions(r, u, chosen)
             \/ \E wanted \in BOOLEAN : UpdateAuthenticationSettings(r, wanted)
      PROVE  Standing
  <2>1. role' = role /\ (user' = user \/ user' = [user EXCEPT ![u].mustChange = TRUE])
    BY <1>5 DEF ResetUserPassword, ResetUserTotp, RevokeUserSessions, identityRows,
                UpdateAuthenticationSettings
  <2>2. SameHolders
    BY <1>0, <2>1 DEF SameHolders, UserRow
  <2>3. QED
    BY <2>1, <2>2 DEF Standing
<1>6. ASSUME NEW r \in Requests, NEW x \in Roles, NEW privileged \in BOOLEAN,
             NEW perms \in {{}, Permissions}, CreateRole(r, x, privileged, perms)
      PROVE  Standing
  <2>1. Holders(x) = {}
    BY <1>6 DEF CreateRole, Holders, RowsExist
  <2>2. role'[x].state = "active" /\ \A y \in Roles \ {x} : role'[y] = role[y]
    BY <1>0, <1>6 DEF CreateRole
  <2>3. QED
    BY <1>6, <2>1, <2>2 DEF CreateRole, Standing, Ended
<1>7. ASSUME NEW r \in Requests, NEW privileged \in BOOLEAN, NEW active \in BOOLEAN,
             UpdateRole(r, privileged, active)
      PROVE  Standing
  <2> DEFINE x == job[r].role
  <2>1. x \in Roles
    BY <1>7, RoleKept DEF UpdateRole, At
  <2>2. role'[x].state # "absent" /\ \A y \in Roles \ {x} : role'[y] = role[y]
    BY <1>0, <1>7, <2>1 DEF UpdateRole, RoleRow
  <2>3. Ended(Holders(x) \ MissedBy(r)) /\ job'[r] = Free
    BY <1>7, ReadHoldersEnd DEF UpdateRole
  <2>4. user' = user
    BY <1>7 DEF UpdateRole
  <2>5. QED
    BY <2>1, <2>2, <2>3, <2>4 DEF Standing
<1>8. ASSUME NEW r \in Requests, NEW perms \in {{}, Permissions}, AssignRolePermissions(r, perms)
      PROVE  Standing
  <2> DEFINE x == job[r].role
  <2>1. x \in Roles
    BY <1>8, RoleKept DEF AssignRolePermissions, At
  <2>2. role'[x].state = role[x].state /\ \A y \in Roles \ {x} : role'[y] = role[y]
    BY <1>0, <1>8, <2>1 DEF AssignRolePermissions, RoleRow
  <2>3. Ended(Holders(x) \ MissedBy(r)) /\ job'[r] = Free
    BY <1>8, ReadHoldersEnd DEF AssignRolePermissions
  <2>4. user' = user
    BY <1>8 DEF AssignRolePermissions
  <2>5. QED
    BY <2>1, <2>2, <2>3, <2>4 DEF Standing
<1>9. ASSUME NEW r \in Requests, NEW x \in Roles, ReadRole(r, x)
      PROVE  Standing
  BY <1>9 DEF ReadRole, identityRows, Standing, SameHolders
<1>10. QED
  BY <1>1, <1>2, <1>3, <1>4, <1>5, <1>6, <1>7, <1>8, <1>9, FirstRowsAssumption DEF AccountsNext

\* Every step does.
LEMMA NextStanding ==
    ASSUME TypeOK, JobsOK, RowsExist, [Next]_vars
    PROVE  Standing
BY SignInStanding, AccountsStanding DEF Next, Standing, SameHolders, vars

(***************************************************************************)
(* The parts of the invariant.                                             *)
(***************************************************************************)
\* Nobody is issued anything, and given no role, before it is there; and
\* neither users nor roles are ever taken away.
LEMMA NextRowsExist ==
    ASSUME TypeOK, RowsExist, StepOK, Standing
    PROVE  RowsExist'
<1>0. /\ user \in [Users -> UserRow] /\ UsersStay /\ Effect
      /\ session \in [Sessions -> SessionRow \cup {None}]
      /\ challenge \in [Challenges -> ChallengeRow \cup {None}]
  BY DEF TypeOK, StepOK
<1>1. \A u \in Users : \A x \in user'[u].roles : role'[x].state # "absent"
  <2>1. CASE role' = role /\ SameHolders
    BY <2>1 DEF RowsExist, SameHolders
  <2>2. CASE \E u \in Users :
                /\ role' = role /\ user'[u].roles \subseteq UsableRoles
                /\ \A v \in Users \ {u} : user'[v].roles = user[v].roles
                /\ Ended({u})
    BY <2>2 DEF RowsExist, UsableRoles
  <2>3. CASE \E x \in Roles :
                /\ user' = user
                /\ role[x].state # "absent" => role'[x].state # "absent"
                /\ \A y \in Roles \ {x} : role'[y] = role[y]
    BY <1>0, <2>3 DEF RowsExist, UserRow
  <2>4. QED
    BY <2>1, <2>2, <2>3 DEF Standing
<1>2. \A s \in Sessions : Used(s)' => user'[session'[s].user].state # "absent"
  <2>1. ASSUME NEW s \in Sessions, Used(s), Used(s)', session'[s].user = session[s].user
        PROVE  user'[session'[s].user].state # "absent"
    BY <1>0, <2>1 DEF RowsExist, UsersStay, Used, SessionRow
  <2>2. CASE OldSessions
    BY <2>1, <2>2 DEF OldSessions
  <2>3. ASSUME NEW t \in Sessions, NEW row \in SessionRow, Issued(t, row),
               row.user \in Users, user[row.user].state # "absent"
        PROVE  \A s \in Sessions : Used(s)' => user'[session'[s].user].state # "absent"
    BY <1>0, <2>1, <2>3 DEF Issued, Used, UsersStay
  <2>4. CASE session' = session
    BY <2>2, <2>4, SameSessions
  <2>5. QED
    BY <1>0, <2>2, <2>3, <2>4 DEF Effect, Keeps, EndsAccess, SignsIn, Defers, Proves
<1>3. \A c \in Challenges : challenge'[c] # None => user'[challenge'[c].user].state # "absent"
  <2>1. ASSUME NEW c \in Challenges, challenge[c] # None
        PROVE  user'[challenge'[c].user].state # "absent"
    BY <1>0, <2>1 DEF RowsExist, UsersStay, Effect, OldChallenges, ChallengeRow
  <2>2. ASSUME NEW d \in Challenges, NEW row \in ChallengeRow, Defers(d, row)
        PROVE  \A c \in Challenges : challenge'[c] # None =>
                   user'[challenge'[c].user].state # "absent"
    BY <1>0, <2>1, <2>2 DEF Defers, UsersStay
  <2>3. QED
    BY <1>0, <2>1, <2>2 DEF Effect, Keeps, EndsAccess, SignsIn, Proves
<1>4. QED
  BY <1>1, <1>2, <1>3 DEF RowsExist

\* A row of a session is an old one, a plain login's, or that of a second step.
KeptRow(s) ==
    /\ Used(s) /\ session'[s].user = session[s].user /\ session'[s].via = session[s].via
    /\ session'[s].proof = session[s].proof
    /\ session[s].revoked # Never => session'[s] = session[s]

\* There is no other row.
LEMMA SessionRows ==
    ASSUME TypeOK, StepOK, NEW s \in Sessions, Used(s)'
    PROVE  \/ KeptRow(s)
           \/ session'[s].via = None /\ ~Used(s)
           \/ Proves(s, session'[s])
<1>1. CASE OldSessions
  BY <1>1 DEF OldSessions, KeptRow
<1>2. ASSUME NEW t \in Sessions, NEW row \in SessionRow, Issued(t, row)
      PROVE  (s = t /\ session'[s] = row) \/ KeptRow(s)
  BY <1>2 DEF Issued, KeptRow, Used
<1>3. CASE session' = session
  BY <1>1, <1>3, SameSessions
<1>4. QED
  BY <1>1, <1>2, <1>3 DEF StepOK, Effect, Keeps, EndsAccess, SignsIn, Defers, Proves, Issued

\* Of two sessions one at least was there before the step.
LEMMA OneIssued ==
    ASSUME StepOK, NEW s \in Sessions, NEW t \in Sessions, Used(s)', Used(t)', s # t
    PROVE  Used(s) \/ Used(t)
<1>1. CASE OldSessions
  BY <1>1 DEF OldSessions
<1>2. CASE session' = session
  BY <1>1, <1>2, SameSessions
<1>3. ASSUME NEW i \in Sessions, NEW row, Issued(i, row)
      PROVE  Used(s) \/ Used(t)
  BY <1>3 DEF Issued, Used
<1>4. QED
  BY <1>1, <1>2, <1>3 DEF StepOK, Effect, Keeps, EndsAccess, SignsIn, Defers, Proves

\* A factor goes on.
LEMMA FactorsGoOn ==
    ASSUME StepOK
    PROVE  OldFactors
<1>1. UNCHANGED factor => OldFactors
  BY DEF OldFactors, LaterFactor
<1>2. QED
  BY <1>1 DEF StepOK, Effect, Keeps, EndsAccess, SignsIn, Defers, Proves

\* A reset closes what was open, and a new challenge is of the time after it.
LEMMA NextOpenIsCurrent ==
    ASSUME TypeOK, OpenIsCurrent, StepOK
    PROVE  OpenIsCurrent'
<1>0. OldChallenges /\ resets \in [Users -> 0 .. MaxResets]
      /\ challenge \in [Challenges -> ChallengeRow \cup {None}]
  BY DEF TypeOK, StepOK, Effect
<1>1. CASE Keeps
  BY <1>1 DEF Keeps, OpenIsCurrent, Open
<1>2. ASSUME NEW u \in Users, EndsAccess(u)
      PROVE  OpenIsCurrent'
  <2>1. \A c \in Challenges : Open(c)' =>
            /\ Open(c) /\ challenge[c].user # u /\ challenge'[c].user = challenge[c].user
            /\ challenge'[c].resets = challenge[c].resets /\ challenge[c].user \in Users
    BY <1>0, <1>2 DEF EndsAccess, OldChallenges, Open, ChallengeRow
  <2>2. \A v \in Users \ {u} : resets'[v] = resets[v]
    BY <1>0, <1>2 DEF EndsAccess
  <2>3. QED
    BY <2>1, <2>2 DEF OpenIsCurrent
<1>3. ASSUME NEW s \in Sessions, NEW row \in SessionRow, SignsIn(s, row)
      PROVE  OpenIsCurrent'
  BY <1>3 DEF SignsIn, OpenIsCurrent, Open
<1>4. ASSUME NEW c \in Challenges, NEW row \in ChallengeRow, Defers(c, row)
      PROVE  OpenIsCurrent'
  BY <1>4 DEF Defers, OpenIsCurrent, Open
<1>5. ASSUME NEW s \in Sessions, NEW row \in SessionRow, Proves(s, row)
      PROVE  OpenIsCurrent'
  BY <1>0, <1>5 DEF Proves, OldChallenges, OpenIsCurrent, Open
<1>6. QED
  BY <1>1, <1>2, <1>3, <1>4, <1>5 DEF StepOK, Effect

\* A session issued for a challenge closes it, and it stays closed.
LEMMA NextChallengeSpent ==
    ASSUME TypeOK, ChallengeSpent, StepOK
    PROVE  ChallengeSpent'
<1>0. OldChallenges
  BY DEF StepOK, Effect
<1>1. SUFFICES ASSUME NEW s \in Sessions, Used(s)', session'[s].via # None
               PROVE  /\ session'[s].via \in Challenges /\ challenge'[session'[s].via] # None
                      /\ ~challenge'[session'[s].via].open
                      /\ challenge'[session'[s].via].user = session'[s].user
  BY DEF ChallengeSpent
<1>2. CASE KeptRow(s)
  BY <1>0, <1>1, <1>2 DEF KeptRow, ChallengeSpent, OldChallenges
<1>3. CASE Proves(s, session'[s])
  BY <1>0, <1>3 DEF Proves, OldChallenges, Open
<1>4. QED
  BY <1>1, <1>2, <1>3, SessionRows

\* A session issued for a code makes it the last one accepted, and it stays passed.
LEMMA NextCodeSpent ==
    ASSUME TypeOK, CodeSpent, StepOK
    PROVE  CodeSpent'
<1>1. SUFFICES ASSUME NEW s \in Sessions, Used(s)', session'[s].via # None
               PROVE  /\ session'[s].proof \in (0 .. MaxFactors) \X (0 .. MaxTime + 2)
                      /\ Passed(factor'[session'[s].user], session'[s].proof)
  BY DEF CodeSpent, Passed
<1>2. CASE KeptRow(s)
  <2>1. /\ session[s].user \in Users /\ session'[s].user = session[s].user
        /\ session'[s].proof = session[s].proof
        /\ session[s].proof \in (0 .. MaxFactors) \X (0 .. MaxTime + 2)
        /\ Passed(factor[session[s].user], session[s].proof)
    BY <1>1, <1>2 DEF KeptRow, CodeSpent, TypeOK, Used, SessionRow
  <2>2. LaterFactor(factor[session[s].user], factor'[session[s].user])
    BY <2>1, FactorsGoOn DEF OldFactors
  <2>3. QED
    BY <2>1, <2>2 DEF LaterFactor
<1>3. CASE Proves(s, session'[s])
  BY <1>3 DEF Proves
<1>4. QED
  BY <1>1, <1>2, <1>3, SessionRows

\* Where a second step is proved, no session rests on that challenge or code.
LEMMA ProofIsFresh ==
    ASSUME TypeOK, ChallengeSpent, CodeSpent, NEW s \in Sessions, NEW t \in Sessions,
           Proves(s, session'[s]), Used(t), session[t].via # None
    PROVE  /\ session'[s].via # session[t].via
           /\ session'[s].user = session[t].user => session'[s].proof # session[t].proof
<1>1. Open(session'[s].via) /\ ~Open(session[t].via)
  BY DEF Proves, ChallengeSpent, Open
<1>2. /\ ~Passed(factor[session'[s].user], session'[s].proof)
      /\ Passed(factor[session[t].user], session[t].proof)
  BY DEF Proves, CodeSpent
<1>3. QED
  BY <1>1, <1>2

\* So no challenge and no code serves twice.
LEMMA NextProofSpentOnce ==
    ASSUME TypeOK, ChallengeSpent, CodeSpent, ProofSpentOnce, StepOK
    PROVE  ProofSpentOnce'
<1>1. SUFFICES ASSUME NEW s \in Sessions, NEW t \in Sessions, s # t, Used(s)', Used(t)',
                      session'[s].via # None, session'[t].via # None
               PROVE  /\ session'[s].via # session'[t].via
                      /\ session'[s].user = session'[t].user =>
                             session'[s].proof # session'[t].proof
  BY DEF ProofSpentOnce
<1>2. CASE KeptRow(s) /\ KeptRow(t)
  BY <1>1, <1>2 DEF KeptRow, ProofSpentOnce
<1>3. CASE Proves(s, session'[s]) /\ KeptRow(t)
  BY <1>1, <1>3, ProofIsFresh DEF KeptRow
<1>4. CASE KeptRow(s) /\ Proves(t, session'[t])
  BY <1>1, <1>4, ProofIsFresh DEF KeptRow
<1>5. CASE Proves(s, session'[s]) /\ Proves(t, session'[t])
  BY <1>1, <1>5, OneIssued DEF Proves, Issued
<1>6. QED
  BY <1>1, <1>2, <1>3, <1>4, <1>5, SessionRows

\* A reset revokes what rests on the challenges from before it.
LEMMA NextResetsEndEarlierAccess ==
    ASSUME TypeOK, OpenIsCurrent, ChallengeSpent, ResetsEndEarlierAccess, StepOK
    PROVE  ResetsEndEarlierAccess'
<1>0. OldChallenges /\ resets \in [Users -> 0 .. MaxResets]
      /\ session \in [Sessions -> SessionRow \cup {None}]
  BY DEF StepOK, Effect, TypeOK
<1>1. SUFFICES ASSUME NEW s \in Sessions, Unrevoked(s)', session'[s].via # None
               PROVE  challenge'[session'[s].via].resets = resets'[session'[s].user]
  BY DEF ResetsEndEarlierAccess
<1>2. Used(s)' /\ session'[s].revoked = Never
  BY <1>1 DEF Unrevoked
<1>3. CASE KeptRow(s)
  <2>1. /\ Unrevoked(s) /\ session[s].via # None /\ session'[s].via = session[s].via
        /\ session'[s].user = session[s].user /\ session[s].user \in Users
    BY <1>0, <1>1, <1>2, <1>3 DEF KeptRow, Unrevoked, Used, SessionRow
  <2>2. /\ challenge[session[s].via].resets = resets[session[s].user]
        /\ challenge'[session[s].via].resets = challenge[session[s].via].resets
    BY <1>0, <2>1 DEF ResetsEndEarlierAccess, ChallengeSpent, OldChallenges, Unrevoked
  <2>3. ASSUME NEW u \in Users, EndsAccess(u)
        PROVE  resets'[session[s].user] = resets[session[s].user]
    BY <1>0, <1>2, <2>1, <2>3 DEF EndsAccess, Unrevoked
  <2>4. resets'[session[s].user] = resets[session[s].user]
    BY <2>3 DEF StepOK, Effect, Keeps, SignsIn, Defers, Proves
  <2>5. QED
    BY <2>1, <2>2, <2>4
<1>4. CASE Proves(s, session'[s])
  BY <1>0, <1>4 DEF Proves, OpenIsCurrent, OldChallenges, Open
<1>5. QED
  BY <1>1, <1>2, <1>3, <1>4, SessionRows

\* The invariant holds in the beginning,
LEMMA InitInv ==
    ASSUME Init
    PROVE  Inv
<1> DEFINE first == NewSession(Administrator, TRUE, 0, None, None)
<1>0. PICK known \in {{}, {Administrator}, {Administrator, Clerk}} :
        /\ now = 0 /\ rate = [b \in Buckets |-> NoRate] /\ mfaRequired = TRUE
        /\ challenge = [c \in Challenges |-> None] /\ resets = [u \in Users |-> 0]
        /\ job = [r \in Requests |-> Free] /\ served = 0
        /\ user = [u \in Users |->
                     [state |-> IF u \in known THEN "active" ELSE "absent",
                      mustChange |-> FALSE,
                      roles |-> IF u \notin known THEN {}
                                ELSE IF u = Clerk THEN {Office} ELSE {SuperAdmin}]]
        /\ role = [x \in Roles |->
                     [state |-> IF x = SuperAdmin \/ Clerk \in known THEN "active" ELSE "absent",
                      privileged |-> x = SuperAdmin \/ Clerk \in known,
                      perms |-> IF x = SuperAdmin THEN Permissions ELSE {}]]
        /\ factor = [u \in Users |-> IF u \in known
                                     THEN [status |-> "ENABLED", id |-> 1, counter |-> Never]
                                     ELSE [status |-> "NONE", id |-> 0, counter |-> Never]]
        /\ session = [s \in Sessions |-> IF s = FirstSession /\ Administrator \in known
                                         THEN first ELSE None]
  BY DEF Init
<1>1. 0 \in Times
  BY Constants DEF Times
<1>2. factor \in [Users -> FactorRow]
  BY <1>0, Constants DEF FactorRow, Never
<1>3. first \in SessionRow /\ first.via = None /\ first.user = Administrator
  BY <1>1, FirstRowsAssumption, NewSessionRow DEF NewSession
<1> HIDE DEF first
<1>4. session \in [Sessions -> SessionRow \cup {None}]
  BY <1>0, <1>3
<1>5. rate \in [Buckets -> RateRow]
  BY <1>0, Constants DEF NoRate, RateRow, Never
<1>6. user \in [Users -> UserRow]
  <2>1. ASSUME NEW u \in Users
        PROVE  user[u] \in UserRow
    BY <1>0, FirstRowsAssumption DEF UserRow
  <2>2. QED
    BY <1>0, <2>1
<1>7. role \in [Roles -> RoleRow]
  <2>1. ASSUME NEW x \in Roles
        PROVE  role[x] \in RoleRow
    <3>1. (x = SuperAdmin \/ Clerk \in known) \in BOOLEAN
      OBVIOUS
    <3>2. QED
      BY <1>0, <3>1 DEF RoleRow
  <2>2. QED
    BY <1>0, <2>1
<1>8. TypeOK
  <2>1. /\ now \in Times /\ mfaRequired \in BOOLEAN /\ resets \in [Users -> 0 .. MaxResets]
        /\ DOMAIN job = Requests /\ served \in 0 .. MaxRequests
        /\ challenge \in [Challenges -> ChallengeRow \cup {None}]
    BY <1>0, <1>1, Constants
  <2>2. QED
    BY <1>2, <1>4, <1>5, <1>6, <1>7, <2>1 DEF TypeOK
<1>9. \A s \in Sessions : Used(s) =>
          /\ session[s].via = None
          /\ session[s].user = Administrator /\ user[Administrator].state # "absent"
  BY <1>0, <1>3, FirstRowsAssumption DEF Used
<1>10. JobsOK
  BY <1>0 DEF JobsOK, JobOK, Free
<1>11. \A c \in Challenges : challenge[c] = None
  BY <1>0
<1>12. RowsExist
  <2>1. \A u \in Users : \A x \in user[u].roles : role[x].state # "absent"
    BY <1>0, FirstRowsAssumption
  <2>2. QED
    BY <1>9, <1>11, <2>1 DEF RowsExist
<1>13. QED
  BY <1>8, <1>9, <1>10, <1>11, <1>12 DEF Inv, OpenIsCurrent, Open, ChallengeSpent, CodeSpent,
     ProofSpentOnce, ResetsEndEarlierAccess, Unrevoked

\* and every step preserves it.
LEMMA NextInv ==
    ASSUME Inv, [Next]_vars
    PROVE  Inv'
<1>1. StepOK /\ TypeOK'
  BY NextStepOK DEF Inv, StepOK
<1>2. JobsOK' /\ RowsExist'
  BY <1>1, NextJobs, NextStanding, NextRowsExist DEF Inv
<1>3. OpenIsCurrent' /\ ChallengeSpent' /\ CodeSpent'
  BY <1>1, NextOpenIsCurrent, NextChallengeSpent, NextCodeSpent DEF Inv
<1>4. ProofSpentOnce' /\ ResetsEndEarlierAccess'
  BY <1>1, NextProofSpentOnce, NextResetsEndEarlierAccess DEF Inv
<1>5. QED
  BY <1>1, <1>2, <1>3, <1>4 DEF Inv

-----------------------------------------------------------------------------
\* Always, the rows are of their types, what a request keeps is true of them,
\* and they hang together: roles, sessions and challenges are those of users
\* and roles there are, the challenge and the code of a session are spent, and
\* an open challenge is of the time since the last reset.
THEOREM Invariant == Spec => []Inv
<1>1. Init => Inv
  BY InitInv
<1>2. Inv /\ [Next]_vars => Inv'
  BY NextInv
<1>3. QED
  BY <1>1, <1>2, PTL DEF Spec

\* The rows of the identity tables keep their types.
THEOREM TypeCorrect == Spec => []TypeOK
<1>1. Inv => TypeOK
  BY DEF Inv
<1>2. QED
  BY <1>1, Invariant, PTL

\* A challenge and a code of a factor are each worth one session at most,
\* whatever transactions of whatever requests run in between.
THEOREM ProofsAreSpentOnce == Spec => []ProofSpentOnce
<1>1. Inv => ProofSpentOnce
  BY DEF Inv
<1>2. QED
  BY <1>1, Invariant, PTL

\* A session that is still good rests on no challenge from before the last
\* reset of its user.
THEOREM ResetsEndAccess == Spec => []ResetsEndEarlierAccess
<1>1. Inv => ResetsEndEarlierAccess
  BY DEF Inv
<1>2. QED
  BY <1>1, Invariant, PTL

\* A revoked session is written no more.
THEOREM RevocationIsFinal == Spec => RevokedForGood
<1>1. ASSUME Inv, [Next]_vars
      PROVE  \A s \in Sessions :
                 Used(s) /\ session[s].revoked # Never => session'[s] = session[s]
  <2>1. StepOK
    BY <1>1, NextStepOK DEF Inv
  <2>2. CASE OldSessions
    BY <2>2 DEF OldSessions
  <2>3. ASSUME NEW t \in Sessions, NEW row, Issued(t, row)
        PROVE  \A s \in Sessions : Used(s) => session'[s] = session[s]
    BY <2>3 DEF Issued
  <2>4. QED
    BY <2>1, <2>2, <2>3 DEF StepOK, Effect, Keeps, EndsAccess, SignsIn, Defers, Proves
<1>2. QED
  BY <1>1, Invariant, PTL DEF Spec, RevokedForGood

\* Whoever's rights or privilege a step changes keeps no session from before:
\* the roles of a user, a role's status, its privilege and its permissions; but
\* whoever was given a role after a change of it had read its holders may.
THEOREM NewRightsEndSessions == Spec => RightsChangeEndsSessions
<1>1. ASSUME Inv, [Next]_vars
      PROVE  \A u \in Users : MayDoOther(u) =>
                 \/ LosesSessions(u)
                 \/ \E r \in Requests : GivenSinceRead(r, u) /\ job'[r] = Free
  <2>1. Standing /\ user \in [Users -> UserRow]
    BY <1>1, NextStanding DEF Inv, TypeOK
  <2>2. SUFFICES ASSUME NEW u \in Users, ~Ended({u}),
                        ~\E r \in Requests : u \in MissedBy(r) /\ job'[r] = Free
                 PROVE  Rights(u)' = Rights(u) /\ Privileged(u)' = Privileged(u)
    BY DEF Ended, SessionsOf, MayDoOther, LosesSessions, MissedBy
  <2>3. user'[u].roles = user[u].roles /\ \A x \in user[u].roles : role'[x] = role[x]
    <3>1. CASE role' = role /\ SameHolders
      BY <3>1 DEF SameHolders
    <3>2. ASSUME NEW v \in Users, role' = role, Ended({v}),
                 \A w \in Users \ {v} : user'[w].roles = user[w].roles
          PROVE  user'[u].roles = user[u].roles /\ role' = role
      BY <2>2, <3>2
    <3>3. ASSUME NEW x \in Roles, user' = user, \A y \in Roles \ {x} : role'[y] = role[y],
                 \/ Ended(Holders(x))
                 \/ \E r \in Requests : Ended(Holders(x) \ MissedBy(r)) /\ job'[r] = Free
          PROVE  user' = user /\ \A y \in user[u].roles : role'[y] = role[y]
      <4>1. x \notin user[u].roles
        BY <2>2, <3>3 DEF Ended, Holders
      <4>2. user[u].roles \subseteq Roles
        BY <2>1 DEF UserRow
      <4>3. QED
        BY <3>3, <4>1, <4>2
    <3>4. QED
      BY <2>1, <3>1, <3>2, <3>3 DEF Standing
  <2>4. ActiveRoles(u)' = ActiveRoles(u)
    BY <2>3 DEF ActiveRoles
  <2>5. Rights(u)' = Rights(u)
    <3>1. \A x \in ActiveRoles(u) : role'[x].perms = role[x].perms
      BY <2>3 DEF ActiveRoles
    <3>2. QED
      BY <2>4, <3>1 DEF Rights
  <2>6. Privileged(u)' = Privileged(u)
    BY <2>3, <2>4 DEF Privileged, ActiveRoles
  <2>7. QED
    BY <2>5, <2>6
<1>2. QED
  BY <1>1, Invariant, PTL DEF Spec, RightsChangeEndsSessions
=============================================================================
