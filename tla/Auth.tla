-------------------------------- MODULE Auth --------------------------------
(***************************************************************************)
(* The administrator, the sessions and the login limiter                   *)
(* (apps/api/src/auth.ts, the LoginLimiter and the session routes of       *)
(* server.ts, over SqliteAuthRepository).                                  *)
(*                                                                         *)
(* Hashing and verifying a password is awaited.  What a handler read       *)
(* before the await (no administrator yet, the row of the user, a bucket   *)
(* that is not full) can be out of date after it.  The rows survive a      *)
(* restart of the API, the buckets of the limiter do not.                  *)
(***************************************************************************)
EXTENDS Naturals, FiniteSets

CONSTANTS
    Request,      \* requests that the API works on at the same time
    Address,      \* keys of the limiter: request.ip
    SessionId,    \* identities of sessions
    Account,      \* what a bootstrap asks for: a user with a password
    None,         \* SQL NULL, a key that a Map has not
    MaxFailures,  \* LoginLimiter.maxFailures
    WindowLength, \* LoginLimiter.windowMs
    SessionTtl,   \* sessionTtlMs
    MaxTime       \* bound on the clock

Bucket == [failures : Nat, resetAt : Nat]

Session == [expiresAt : Nat, revoked : BOOLEAN]

Check == [address : Address, user : Account \cup {None}]

Bootstrap == [account : Account, phase : {"hashing", "created", "refused"}]

ASSUME AuthAssumption ==
    /\ IsFiniteSet(Request)
    /\ {MaxFailures, WindowLength, SessionTtl} \subseteq Nat \ {0}
    /\ MaxTime \in Nat
    /\ None \notin Account \cup Bucket \cup Session \cup Check \cup Bootstrap

VARIABLES
    clock,     \* now()
    admin,     \* the row of users, None as long as there is none
    bootstraps,\* bootstrapAdmin() while it hashes: the account, and its answer
    checks,    \* auth.login() while it verifies: the address, and the user that was found
    buckets,   \* LoginLimiter.buckets
    sessions   \* the rows of sessions

vars == <<clock, admin, bootstraps, checks, buckets, sessions>>

Init ==
    /\ clock = 0
    /\ admin = None
    /\ bootstraps = [q \in Request |-> None]
    /\ checks = [q \in Request |-> None]
    /\ buckets = [a \in Address |-> None]
    /\ sessions = [s \in SessionId |-> None]

-----------------------------------------------------------------------------
(* The first administrator.                                                *)

\* requiresBootstrap() is asked before the password is hashed ...
BootstrapAdmin(q, account) ==
    /\ bootstraps[q] = None
    /\ admin = None
    /\ bootstraps' = [bootstraps EXCEPT ![q] = [account |-> account, phase |-> "hashing"]]
    /\ UNCHANGED <<clock, admin, checks, buckets, sessions>>

\* Mutant of CreateAdminIfNoneExists: the statement does not ask again.
CreateAdmin(q) ==
    /\ bootstraps[q] # None /\ bootstraps[q].phase = "hashing"
    /\ admin' = bootstraps[q].account
    /\ bootstraps' = [bootstraps EXCEPT ![q].phase = "created"]
    /\ UNCHANGED <<clock, checks, buckets, sessions>>

\* ... and by the INSERT itself after it.
CreateAdminIfNoneExists(q) ==
    /\ bootstraps[q] # None /\ bootstraps[q].phase = "hashing"
    /\ IF admin = None
       THEN /\ admin' = bootstraps[q].account
            /\ bootstraps' = [bootstraps EXCEPT ![q].phase = "created"]
       ELSE /\ bootstraps' = [bootstraps EXCEPT ![q].phase = "refused"]
            /\ UNCHANGED admin
    /\ UNCHANGED <<clock, checks, buckets, sessions>>

-----------------------------------------------------------------------------
(* Signing in.                                                             *)

\* A bucket counts until its window is over.
InWindow(a) == buckets[a] # None /\ clock < buckets[a].resetAt

\* Mutant of Allowed: one failure too many.
AllowedOneMore(a) == InWindow(a) => buckets[a].failures <= MaxFailures

\* LoginLimiter.assertAllowed() does not throw.
Allowed(a) == InWindow(a) => buckets[a].failures < MaxFailures

\* assertAllowed() drops a bucket whose window is over; a full one refuses the request.
AssertAllowed(a) ==
    buckets' = IF InWindow(a) THEN buckets ELSE [buckets EXCEPT ![a] = None]

\* The limiter is asked, and the row of the user is read, before the password is verified.
Login(q, a) ==
    /\ checks[q] = None
    /\ Allowed(a)
    /\ AssertAllowed(a)
    /\ checks' = [checks EXCEPT ![q] = [address |-> a, user |-> admin]]
    /\ UNCHANGED <<clock, admin, bootstraps, sessions>>

\* Mutant of RecordFailure: every failure starts the window again.
RecordFailureExtends(a) ==
    buckets' = [buckets EXCEPT ![a] =
                  [failures |-> IF InWindow(a) THEN buckets[a].failures + 1 ELSE 1,
                   resetAt |-> clock + WindowLength]]

\* LoginLimiter.recordFailure()
RecordFailure(a) ==
    buckets' = [buckets EXCEPT ![a] =
                  IF InWindow(a) THEN [buckets[a] EXCEPT !.failures = @ + 1]
                  ELSE [failures |-> 1, resetAt |-> clock + WindowLength]]

\* INVALID_CREDENTIALS: no such user, or not the password.
LoginFails(q) ==
    /\ checks[q] # None
    /\ RecordFailure(checks[q].address)
    /\ checks' = [checks EXCEPT ![q] = None]
    /\ UNCHANGED <<clock, admin, bootstraps, sessions>>

\* The password is right: a session is stored, and the bucket of the address is reset.
LoginSucceeds(q, s) ==
    /\ checks[q] # None /\ checks[q].user # None
    /\ sessions[s] = None
    /\ sessions' = [sessions EXCEPT ![s] = [expiresAt |-> clock + SessionTtl, revoked |-> FALSE]]
    /\ buckets' = [buckets EXCEPT ![checks[q].address] = None]
    /\ checks' = [checks EXCEPT ![q] = None]
    /\ UNCHANGED <<clock, admin, bootstraps>>

-----------------------------------------------------------------------------
(* Sessions.                                                               *)

\* findActiveSessionByTokenHash(): what requireAuthenticated() accepts.
Active(s) == sessions[s] # None /\ ~sessions[s].revoked /\ clock < sessions[s].expiresAt

Logout(s) ==
    /\ Active(s)
    /\ sessions' = [sessions EXCEPT ![s].revoked = TRUE]
    /\ UNCHANGED <<clock, admin, bootstraps, checks, buckets>>

Tick ==
    /\ clock < MaxTime /\ clock' = clock + 1
    /\ UNCHANGED <<admin, bootstraps, checks, buckets, sessions>>

\* The API restarts: its memory is gone, its rows are not.
Restart ==
    /\ bootstraps' = [q \in Request |-> None]
    /\ checks' = [q \in Request |-> None]
    /\ buckets' = [a \in Address |-> None]
    /\ UNCHANGED <<clock, admin, sessions>>

Next ==
    \/ \E q \in Request : \/ \E account \in Account : BootstrapAdmin(q, account)
                          \/ CreateAdminIfNoneExists(q)
                          \/ \E a \in Address : Login(q, a)
                          \/ LoginFails(q)
                          \/ \E s \in SessionId : LoginSucceeds(q, s)
    \/ \E s \in SessionId : Logout(s)
    \/ Tick \/ Restart

Spec == Init /\ [][Next]_vars

-----------------------------------------------------------------------------
(* Properties.                                                             *)

\* The type of every variable.
TypeOK ==
    /\ clock \in 0..MaxTime
    /\ admin \in Account \cup {None}
    /\ bootstraps \in [Request -> Bootstrap \cup {None}]
    /\ checks \in [Request -> Check \cup {None}]
    /\ buckets \in [Address -> Bucket \cup {None}]
    /\ sessions \in [SessionId -> Session \cup {None}]

\* Two setups at a time: the one that is answered with the new administrator is the one
\* whose account is stored, and nobody replaces an administrator.
OneAdministrator ==
    [][/\ admin # None => admin' = admin
       /\ \A q \in Request :
              bootstraps'[q] # None /\ bootstraps'[q].phase = "created" =>
                  admin' = bootstraps'[q].account]_vars

Checking(a) == {q \in Request : checks[q] # None /\ checks[q].address = a}

\* The limiter is asked before the password is verified and told after it.  Requests that
\* run at the same time can go beyond the limit, but only by those that were already under
\* way when it was reached: a full bucket and the checks in flight stay below the limit
\* plus the number of requests that run together.
LimiterBound ==
    \A a \in Address : buckets[a] # None /\ buckets[a].failures >= MaxFailures =>
        buckets[a].failures + Cardinality(Checking(a)) < MaxFailures + Cardinality(Request)

\* A window ends when it was to end: neither a failure nor a refused request moves the end
\* of it, and no bucket outlasts WindowLength.
LockoutEnds ==
    [][\A a \in Address :
          /\ InWindow(a) /\ buckets'[a] # None => buckets'[a].resetAt = buckets[a].resetAt
          /\ buckets'[a] # None => buckets'[a].resetAt <= clock' + WindowLength]_vars

\* A session that was accepted is accepted until it is logged out or until its lifetime is
\* over, restarts included; after that it is never accepted again.
SessionLifetime ==
    [][\A s \in SessionId : sessions[s] # None =>
          /\ sessions'[s] # None /\ sessions'[s].expiresAt = sessions[s].expiresAt
          /\ sessions[s].revoked => sessions'[s].revoked
          /\ sessions'[s].revoked /\ ~sessions[s].revoked => clock < sessions[s].expiresAt]_vars

\* No step lengthens what was granted or imposed for a time: neither a lockout nor a session.
Lifetimes == LockoutEnds /\ SessionLifetime

=============================================================================
