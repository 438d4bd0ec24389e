----------------------------- MODULE AuthProofs -----------------------------
(***************************************************************************)
(* What Auth promises for any number of requests, addresses and sessions,  *)
(* and for every limit and lifetime; and what HostOnboarding promises for  *)
(* any number of endpoints, keys and requests.  The second part goes by    *)
(* the name that MCAuth gives to it, Host.  And what PinnedExchange        *)
(* promises for every body, and however it is divided: its decoders are    *)
(* loops, recursive functions of how many rounds they took, about which    *)
(* SetInduction and Recursion tell what is needed.                         *)
(***************************************************************************)
EXTENDS MCAuth, FiniteSetTheorems, WellFoundedInduction, TLAPS

\* A bucket that was reset is gone, one that was kept is as it was.
LEMMA AssertAllowedEffect ==
    ASSUME TypeOK, NEW a \in Address, AssertAllowed(a)
    PROVE  /\ buckets' \in [Address -> Bucket \cup {None}]
           /\ \A b \in Address : buckets'[b] = buckets[b] \/ buckets'[b] = None
           /\ InWindow(a) => buckets' = buckets
           /\ ~InWindow(a) => buckets'[a] = None
  BY DEF TypeOK, AssertAllowed

\* A failure adds one to a bucket in its window, or starts a bucket.
LEMMA RecordFailureEffect ==
    ASSUME TypeOK, NEW a \in Address, RecordFailure(a)
    PROVE  /\ buckets' \in [Address -> Bucket \cup {None}]
           /\ buckets'[a] # None
           /\ \A b \in Address \ {a} : buckets'[b] = buckets[b]
           /\ InWindow(a) => /\ buckets'[a].failures = buckets[a].failures + 1
                             /\ buckets'[a].resetAt = buckets[a].resetAt
           /\ ~InWindow(a) => /\ buckets'[a].failures = 1
                              /\ buckets'[a].resetAt = clock + WindowLength
<1>1. /\ clock + WindowLength \in Nat
      /\ None \notin Bucket
  BY AuthAssumption DEF TypeOK
<1>2. CASE InWindow(a)
  <2>1. buckets[a] \in Bucket
    BY <1>2 DEF TypeOK, InWindow
  <2> DEFINE new == [buckets[a] EXCEPT !.failures = @ + 1]
  <2>2. new \in Bucket /\ new.failures = buckets[a].failures + 1 /\ new.resetAt = buckets[a].resetAt
    BY <2>1 DEF Bucket
  <2>3. buckets' = [buckets EXCEPT ![a] = new]
    BY <1>2 DEF RecordFailure
  <2> HIDE DEF new
  <2> QED
    BY <1>1, <1>2, <2>2, <2>3 DEF TypeOK
<1>3. CASE ~InWindow(a)
  <2> DEFINE new == [failures |-> 1, resetAt |-> clock + WindowLength]
  <2>1. new \in Bucket /\ new.failures = 1 /\ new.resetAt = clock + WindowLength
    BY <1>1 DEF Bucket
  <2>2. buckets' = [buckets EXCEPT ![a] = new]
    BY <1>3 DEF RecordFailure
  <2> HIDE DEF new
  <2> QED
    BY <1>1, <1>3, <2>1, <2>2 DEF TypeOK
<1> QED
  BY <1>2, <1>3

-----------------------------------------------------------------------------
(* Types.                                                                  *)

LEMMA TypeInit == Init => TypeOK
  BY AuthAssumption DEF Init, TypeOK

LEMMA TypeStep == TypeOK /\ [Next]_vars => TypeOK'
<1> SUFFICES ASSUME TypeOK, [Next]_vars PROVE TypeOK'
  OBVIOUS
<1>1. ASSUME NEW q \in Request, NEW account \in Account, BootstrapAdmin(q, account) PROVE TypeOK'
  <2>1. [account |-> account, phase |-> "hashing"] \in Bootstrap
    BY DEF Bootstrap
  <2> QED
    BY <1>1, <2>1 DEF TypeOK, BootstrapAdmin
<1>2. ASSUME NEW q \in Request, CreateAdminIfNoneExists(q) PROVE TypeOK'
  <2>1. bootstraps[q] \in Bootstrap
    BY <1>2 DEF TypeOK, CreateAdminIfNoneExists
  <2>2. /\ [bootstraps[q] EXCEPT !.phase = "created"] \in Bootstrap
        /\ [bootstraps[q] EXCEPT !.phase = "refused"] \in Bootstrap
        /\ bootstraps[q].account \in Account
    BY <2>1 DEF Bootstrap
  <2>3. CASE admin = None
    BY <1>2, <2>2, <2>3 DEF TypeOK, CreateAdminIfNoneExists
  <2>4. CASE admin # None
    BY <1>2, <2>2, <2>4 DEF TypeOK, CreateAdminIfNoneExists
  <2> QED
    BY <2>3, <2>4
<1>3. ASSUME NEW q \in Request, NEW a \in Address, Login(q, a) PROVE TypeOK'
  <2>1. buckets' \in [Address -> Bucket \cup {None}]
    BY <1>3, AssertAllowedEffect DEF Login
  <2>2. [address |-> a, user |-> admin] \in Check
    BY DEF TypeOK, Check
  <2> QED
    BY <1>3, <2>1, <2>2 DEF TypeOK, Login
<1>4. ASSUME NEW q \in Request, LoginFails(q) PROVE TypeOK'
  <2>1. checks[q].address \in Address
    BY <1>4 DEF TypeOK, Check, LoginFails
  <2>2. buckets' \in [Address -> Bucket \cup {None}]
    BY <1>4, <2>1, RecordFailureEffect DEF LoginFails
  <2> QED
    BY <1>4, <2>2 DEF TypeOK, LoginFails
<1>5. ASSUME NEW q \in Request, NEW s \in SessionId, LoginSucceeds(q, s) PROVE TypeOK'
  <2>1. [expiresAt |-> clock + SessionTtl, revoked |-> FALSE] \in Session
    BY AuthAssumption DEF TypeOK, Session
  <2> QED
    BY <1>5, <2>1 DEF TypeOK, LoginSucceeds
<1>6. ASSUME NEW s \in SessionId, Logout(s) PROVE TypeOK'
  <2>1. [sessions[s] EXCEPT !.revoked = TRUE] \in Session
    BY <1>6 DEF TypeOK, Session, Logout, Active
  <2> QED
    BY <1>6, <2>1 DEF TypeOK, Logout
<1>7. ASSUME Tick PROVE TypeOK'
  BY <1>7, AuthAssumption DEF TypeOK, Tick
<1>8. ASSUME Restart PROVE TypeOK'
  BY <1>8 DEF TypeOK, Restart
<1>9. ASSUME UNCHANGED vars PROVE TypeOK'
  BY <1>9 DEF TypeOK, vars
<1> QED
  BY <1>1, <1>2, <1>3, <1>4, <1>5, <1>6, <1>7, <1>8, <1>9 DEF Next

\* Every variable keeps its type, whatever the constants are.
THEOREM AuthTypeCorrect == Spec => []TypeOK
  BY TypeInit, TypeStep, PTL DEF Spec

-----------------------------------------------------------------------------
(* The administrator and the sessions.                                     *)

\* An answer "created" is given for the account that is stored.
CreatedIsStored ==
    \A q \in Request :
        bootstraps[q] # None /\ bootstraps[q].phase = "created" =>
            admin = bootstraps[q].account /\ admin # None

LEMMA CreatedStep == TypeOK /\ CreatedIsStored /\ [Next]_vars => CreatedIsStored'
<1> SUFFICES ASSUME TypeOK, CreatedIsStored, [Next]_vars PROVE CreatedIsStored'
  OBVIOUS
<1>1. ASSUME NEW q \in Request, NEW account \in Account, BootstrapAdmin(q, account)
      PROVE CreatedIsStored'
  BY <1>1 DEF TypeOK, CreatedIsStored, BootstrapAdmin
<1>2. ASSUME NEW q \in Request, CreateAdminIfNoneExists(q) PROVE CreatedIsStored'
  <2>1. bootstraps[q] \in Bootstrap /\ None \notin Account
    BY <1>2, AuthAssumption DEF TypeOK, CreateAdminIfNoneExists
  <2>2. bootstraps[q].account \in Account
    BY <2>1 DEF Bootstrap
  <2>3. CASE admin = None
    <3>1. \A p \in Request : bootstraps[p] # None => bootstraps[p].phase # "created"
      BY <2>3 DEF CreatedIsStored
    <3>2. [bootstraps[q] EXCEPT !.phase = "created"].account = bootstraps[q].account
      BY <2>1 DEF Bootstrap
    <3> QED
      BY <1>2, <2>1, <2>2, <2>3, <3>1, <3>2 DEF TypeOK, CreatedIsStored, CreateAdminIfNoneExists
  <2>4. CASE admin # None
    <3>1. [bootstraps[q] EXCEPT !.phase = "refused"].phase = "refused"
      BY <2>1 DEF Bootstrap
    <3> QED
      BY <1>2, <2>4, <3>1 DEF TypeOK, CreatedIsStored, CreateAdminIfNoneExists
  <2> QED
    BY <2>3, <2>4
<1>3. ASSUME UNCHANGED <<bootstraps, admin>> PROVE CreatedIsStored'
  BY <1>3 DEF CreatedIsStored
<1>4. ASSUME Restart PROVE CreatedIsStored'
  BY <1>4 DEF CreatedIsStored, Restart
<1> QED
  BY <1>1, <1>2, <1>3, <1>4 DEF Next, vars, Login, LoginFails, LoginSucceeds, Logout, Tick

LEMMA OneAdministratorStep ==
    ASSUME TypeOK, CreatedIsStored', [Next]_vars
    PROVE  /\ admin # None => admin' = admin
           /\ \A q \in Request :
                  bootstraps'[q] # None /\ bootstraps'[q].phase = "created" =>
                      admin' = bootstraps'[q].account
<1>1. admin # None => admin' = admin
  BY DEF Next, vars, BootstrapAdmin, CreateAdminIfNoneExists, Login, LoginFails, LoginSucceeds,
         Logout, Tick, Restart
<1> QED
  BY <1>1 DEF CreatedIsStored

\* There is one administrator for ever, and it is the one that a setup was told of.
THEOREM OneAdministratorHolds == Spec => OneAdministrator
<1>1. Init => CreatedIsStored
  BY DEF Init, CreatedIsStored
<1>2. Spec => [](TypeOK /\ CreatedIsStored)
  BY <1>1, TypeInit, TypeStep, CreatedStep, PTL DEF Spec
<1>3. TypeOK /\ CreatedIsStored' /\ [Next]_vars =>
        [/\ admin # None => admin' = admin
         /\ \A q \in Request : bootstraps'[q] # None /\ bootstraps'[q].phase = "created" =>
                                   admin' = bootstraps'[q].account]_vars
  BY OneAdministratorStep
<1> QED
  BY <1>2, <1>3, PTL DEF Spec, OneAdministrator

LEMMA SessionStep ==
    ASSUME TypeOK, [Next]_vars, NEW s \in SessionId, sessions[s] # None
    PROVE  /\ sessions'[s] # None /\ sessions'[s].expiresAt = sessions[s].expiresAt
           /\ sessions[s].revoked => sessions'[s].revoked
           /\ sessions'[s].revoked /\ ~sessions[s].revoked => clock < sessions[s].expiresAt
<1>1. sessions[s] \in Session /\ None \notin Session
  BY AuthAssumption DEF TypeOK
<1>2. ASSUME NEW q \in Request, NEW t \in SessionId, LoginSucceeds(q, t)
      PROVE  sessions'[s] = sessions[s]
  BY <1>2 DEF TypeOK, LoginSucceeds
<1>3. ASSUME NEW t \in SessionId, Logout(t), t # s PROVE sessions'[s] = sessions[s]
  BY <1>3 DEF TypeOK, Logout
<1>4. ASSUME Logout(s)
      PROVE  /\ sessions'[s] \in Session /\ sessions'[s].expiresAt = sessions[s].expiresAt
             /\ sessions'[s].revoked /\ clock < sessions[s].expiresAt
  <2>1. sessions'[s] = [sessions[s] EXCEPT !.revoked = TRUE]
    BY <1>4 DEF TypeOK, Logout
  <2> QED
    BY <1>1, <1>4, <2>1 DEF Session, Logout, Active
<1>5. ASSUME UNCHANGED sessions PROVE sessions'[s] = sessions[s]
  BY <1>5
<1>6. \/ Logout(s)
      \/ sessions'[s] = sessions[s]
  BY <1>2, <1>3, <1>5 DEF Next, vars, BootstrapAdmin, CreateAdminIfNoneExists, Login, LoginFails, Tick, Restart
<1> QED
  BY <1>1, <1>4, <1>6

\* A session lives exactly as long as it was given, unless it is logged out before.
THEOREM SessionLifetimeHolds == Spec => SessionLifetime
<1>1. TypeOK /\ [Next]_vars =>
        [\A s \in SessionId : sessions[s] # None =>
          /\ sessions'[s] # None /\ sessions'[s].expiresAt = sessions[s].expiresAt
          /\ sessions[s].revoked => sessions'[s].revoked
          /\ sessions'[s].revoked /\ ~sessions[s].revoked => clock < sessions[s].expiresAt]_vars
  BY SessionStep
<1> QED
  BY <1>1, AuthTypeCorrect, PTL DEF Spec, SessionLifetime

-----------------------------------------------------------------------------
(* The limiter.                                                            *)

\* The checks in flight are among the requests.
LEMMA CheckingFinite ==
    ASSUME NEW a \in Address
    PROVE  /\ IsFiniteSet(Checking(a)) /\ Cardinality(Checking(a)) \in Nat
           /\ Cardinality(Request) \in Nat
           /\ \A q \in Checking(a) :
                  /\ Cardinality(Checking(a) \ {q}) = Cardinality(Checking(a)) - 1
                  /\ Cardinality(Checking(a) \ {q}) < Cardinality(Request)
<1>1. Checking(a) \subseteq Request /\ IsFiniteSet(Request)
  BY AuthAssumption DEF Checking
<1>2. /\ IsFiniteSet(Checking(a))
      /\ Cardinality(Checking(a)) <= Cardinality(Request)
  BY <1>1, FS_Subset
<1>3. Cardinality(Checking(a)) \in Nat /\ Cardinality(Request) \in Nat
  BY <1>1, <1>2, FS_CardinalityType
<1>4. \A q \in Checking(a) : Cardinality(Checking(a) \ {q}) = Cardinality(Checking(a)) - 1
  BY <1>2, FS_RemoveElement
<1> QED
  BY <1>2, <1>3, <1>4

LEMMA LimiterStep == TypeOK /\ LimiterBound /\ [Next]_vars => LimiterBound'
<1> SUFFICES ASSUME TypeOK, LimiterBound, [Next]_vars, NEW a \in Address,
                    (buckets[a] # None /\ buckets[a].failures >= MaxFailures)'
             PROVE  (buckets[a].failures + Cardinality(Checking(a)) <
                        MaxFailures + Cardinality(Request))'
  BY DEF LimiterBound
<1> USE DEF Checking
<1>1. /\ MaxFailures \in Nat /\ Cardinality(Request) \in Nat
      /\ buckets[a] \in Bucket \cup {None} /\ None \notin Bucket
  BY AuthAssumption, CheckingFinite DEF TypeOK
<1>2. ASSUME UNCHANGED <<buckets, checks>>
      PROVE  (buckets[a].failures + Cardinality(Checking(a)) < MaxFailures + Cardinality(Request))'
  BY <1>2 DEF LimiterBound
<1>3. ASSUME NEW q \in Request, NEW b \in Address, Login(q, b)
      PROVE  (buckets[a].failures + Cardinality(Checking(a)) < MaxFailures + Cardinality(Request))'
  <2>1. /\ buckets'[a] = buckets[a]
        /\ InWindow(b) => buckets' = buckets
        /\ ~InWindow(b) => buckets'[b] = None
    BY <1>3, AssertAllowedEffect DEF Login
  <2>2. a # b
    BY <1>1, <1>3, <2>1 DEF Login, Allowed, InWindow, Bucket
  <2>3. Checking(a)' = Checking(a)
    BY <1>3, <2>2, AuthAssumption DEF TypeOK, Login, Check
  <2> QED
    BY <2>1, <2>3 DEF LimiterBound
<1>4. ASSUME NEW q \in Request, LoginFails(q)
      PROVE  (buckets[a].failures + Cardinality(Checking(a)) < MaxFailures + Cardinality(Request))'
  <2> DEFINE b == checks[q].address
  <2>1. checks[q] \in Check /\ b \in Address
    BY <1>4 DEF TypeOK, LoginFails, Check
  <2>2. CASE a = b
    <3>1. q \in Checking(a) /\ Checking(a)' = Checking(a) \ {q}
      BY <1>4, <2>2, AuthAssumption DEF TypeOK, LoginFails
    <3>2. /\ Cardinality(Checking(a)') = Cardinality(Checking(a)) - 1
          /\ Cardinality(Checking(a)') < Cardinality(Request)
          /\ Cardinality(Checking(a)) \in Nat
      BY <3>1, CheckingFinite
    <3>3. CASE InWindow(a)
      <4>1. buckets'[a].failures = buckets[a].failures + 1 /\ buckets[a] # None
        BY <1>4, <2>1, <2>2, <3>3, RecordFailureEffect DEF LoginFails, InWindow
      <4>2. buckets[a].failures \in Nat
        BY <1>1, <4>1 DEF Bucket
      <4>3. CASE buckets[a].failures >= MaxFailures
        <5>1. buckets[a].failures + Cardinality(Checking(a)) < MaxFailures + Cardinality(Request)
          BY <4>1, <4>3 DEF LimiterBound
        <5> HIDE DEF Checking
        <5> QED
          BY <1>1, <3>2, <4>1, <4>2, <5>1
      <4>4. CASE ~(buckets[a].failures >= MaxFailures)
        <5> HIDE DEF Checking
        <5> QED
          BY <1>1, <3>2, <4>1, <4>2, <4>4
      <4> QED
        BY <4>3, <4>4
    <3>4. CASE ~InWindow(a)
      <4>1. buckets'[a].failures = 1
        BY <1>4, <2>1, <2>2, <3>4, RecordFailureEffect DEF LoginFails
      <4>2. MaxFailures >= 1
        BY AuthAssumption
      <4> HIDE DEF Checking
      <4> QED
        BY <1>1, <3>2, <4>1, <4>2
    <3> QED
      BY <3>3, <3>4
  <2>3. CASE a # b
    <3>1. buckets'[a] = buckets[a]
      BY <1>4, <2>1, <2>3, RecordFailureEffect DEF LoginFails
    <3>2. Checking(a)' = Checking(a)
      BY <1>4, <2>3, AuthAssumption DEF TypeOK, LoginFails
    <3> QED
      BY <3>1, <3>2 DEF LimiterBound
  <2> QED
    BY <2>2, <2>3
<1>5. ASSUME NEW q \in Request, NEW s \in SessionId, LoginSucceeds(q, s)
      PROVE  (buckets[a].failures + Cardinality(Checking(a)) < MaxFailures + Cardinality(Request))'
  <2>1. a # checks[q].address /\ buckets'[a] = buckets[a]
    BY <1>5 DEF TypeOK, LoginSucceeds
  <2>2. Checking(a)' = Checking(a)
    BY <1>5, <2>1, AuthAssumption DEF TypeOK, LoginSucceeds
  <2> QED
    BY <2>1, <2>2 DEF LimiterBound
<1>6. ~Restart
  BY DEF Restart
<1> QED
  BY <1>2, <1>3, <1>4, <1>5, <1>6
  DEF Next, vars, BootstrapAdmin, CreateAdminIfNoneExists, Logout, Tick

\* However many requests run together, those that were under way when the limit was
\* reached are all that can go beyond it.
THEOREM LimiterBounded == Spec => []LimiterBound
<1>1. Init => LimiterBound
  BY DEF Init, LimiterBound
<1> QED
  BY <1>1, TypeInit, TypeStep, LimiterStep, PTL DEF Spec

\* No bucket outlasts the window that began with its first failure.
ResetsSoon == \A a \in Address : buckets[a] # None => buckets[a].resetAt <= clock + WindowLength

LEMMA LockoutStep ==
    ASSUME TypeOK, ResetsSoon, [Next]_vars, NEW a \in Address
    PROVE  /\ InWindow(a) /\ buckets'[a] # None => buckets'[a].resetAt = buckets[a].resetAt
           /\ buckets'[a] # None => buckets'[a].resetAt <= clock' + WindowLength
<1>1. /\ clock \in Nat /\ WindowLength \in Nat
      /\ buckets[a] # None => buckets[a].resetAt \in Nat /\ buckets[a].resetAt <= clock + WindowLength
  BY AuthAssumption DEF TypeOK, Bucket, ResetsSoon
<1>2. ASSUME NEW q \in Request, NEW b \in Address, Login(q, b)
      PROVE  clock' = clock /\ (buckets'[a] = buckets[a] \/ buckets'[a] = None)
  BY <1>2, AssertAllowedEffect DEF Login
<1>3. ASSUME NEW q \in Request, LoginFails(q)
      PROVE  /\ clock' = clock
             /\ \/ buckets'[a] = buckets[a]
                \/ InWindow(a) /\ buckets'[a].resetAt = buckets[a].resetAt
                \/ ~InWindow(a) /\ buckets'[a].resetAt = clock + WindowLength
  <2>1. checks[q].address \in Address
    BY <1>3 DEF TypeOK, LoginFails, Check
  <2> QED
    BY <1>3, <2>1, RecordFailureEffect DEF LoginFails
<1>4. ASSUME NEW q \in Request, NEW s \in SessionId, LoginSucceeds(q, s)
      PROVE  clock' = clock /\ (buckets'[a] = buckets[a] \/ buckets'[a] = None)
  BY <1>4 DEF TypeOK, LoginSucceeds
<1>5. ASSUME Tick PROVE clock' = clock + 1 /\ buckets'[a] = buckets[a]
  BY <1>5 DEF Tick
<1>6. ASSUME Restart PROVE clock' = clock /\ buckets'[a] = None
  BY <1>6 DEF Restart
<1>7. \/ clock' \in {clock, clock + 1} /\ (buckets'[a] = buckets[a] \/ buckets'[a] = None)
      \/ clock' = clock /\ InWindow(a) /\ buckets'[a].resetAt = buckets[a].resetAt
      \/ clock' = clock /\ ~InWindow(a) /\ buckets'[a].resetAt = clock + WindowLength
  BY <1>2, <1>3, <1>4, <1>5, <1>6 DEF Next, vars, BootstrapAdmin, CreateAdminIfNoneExists, Logout
<1> QED
  BY <1>1, <1>7 DEF InWindow

\* A lockout ends when its window does, for every limit and window.
THEOREM LockoutEndsHolds == Spec => LockoutEnds
<1>1. Init => ResetsSoon
  BY DEF Init, ResetsSoon
<1>2. TypeOK /\ ResetsSoon /\ [Next]_vars => ResetsSoon'
  BY LockoutStep DEF ResetsSoon
<1>3. Spec => [](TypeOK /\ ResetsSoon)
  BY <1>1, <1>2, TypeInit, TypeStep, PTL DEF Spec
<1>4. TypeOK /\ ResetsSoon /\ [Next]_vars =>
        [\A a \in Address :
          /\ InWindow(a) /\ buckets'[a] # None => buckets'[a].resetAt = buckets[a].resetAt
          /\ buckets'[a] # None => buckets'[a].resetAt <= clock' + WindowLength]_vars
  BY LockoutStep
<1> QED
  BY <1>3, <1>4, PTL DEF Spec, LockoutEnds

\* No step lengthens what was granted or imposed for a time.
THEOREM LifetimesHold == Spec => Lifetimes
BY LockoutEndsHolds, SessionLifetimeHolds DEF Lifetimes

-----------------------------------------------------------------------------
(* Host onboarding, for any number of endpoints, keys and requests.        *)

Acknowledged == [of : Endpoint, key : HostKey]

CallRecord ==
    [kind : {"probe", "create", "discover", "select"}, of : Endpoint,
     step : {"start", "verify", "store", "done"}, key : HostKey \cup {None},
     chosen : Container \cup {None},
     answer : HostKey \cup {None, "failed", "mismatch", "created", "found", "saved"},
     list : SUBSET Container, heard : BOOLEAN]

PanelRecord ==
    [phase : Host!Phase, typed : Endpoint \cup {None}, probe : Acknowledged \cup {None},
     ack : HostKey \cup {None}, secret : BOOLEAN, probing : BOOLEAN, creating : BOOLEAN,
     active : Endpoint \cup {None}, found : SUBSET Container, chosen : Container \cup {None}]

\* The types of what answers, is shown and is under way; a probe that has not failed answers
\* with a key.
OnboardingTypeOK ==
    /\ keyAt \in [Endpoint -> HostKey]
    /\ panel \in PanelRecord
    /\ calls \in [Call -> CallRecord \cup {None}]
    /\ stored \in [Endpoint -> HostKey \cup {None}]
    /\ \A c \in Call : calls[c] # None /\ calls[c].kind = "probe" /\ calls[c].step = "done" =>
           calls[c].answer \in HostKey \cup {"failed"}

\* The panel waits for one probe at a time, and shows and accepts none meanwhile; what it
\* accepts has been acknowledged for the endpoint that was probed.
AcknowledgedOK ==
    /\ \A c \in Call : calls[c] # None /\ calls[c].kind = "probe" /\ calls[c].heard => panel.probing
    /\ \A c, d \in Call :
          /\ calls[c] # None /\ calls[c].kind = "probe" /\ calls[c].heard
          /\ calls[d] # None /\ calls[d].kind = "probe" /\ calls[d].heard
          => c = d
    /\ panel.probing => panel.probe = None /\ panel.ack = None
    /\ panel.ack # None => /\ panel.probe # None /\ panel.ack = panel.probe.key
                           /\ panel.probe \in confirmed

\* A request to create a host carries a key that was acknowledged for its endpoint, and it
\* stores a host only after that key has answered it.
RequestsOK ==
    \A c \in Call : calls[c] # None /\ calls[c].kind = "create" =>
        /\ [of |-> calls[c].of, key |-> calls[c].key] \in confirmed
        /\ calls[c].step = "store" => [of |-> calls[c].of, key |-> calls[c].key] \in entrusted

\* A host is active where its containers are shown or asked for.
ActiveOK ==
    /\ panel.phase \in {"discovering", "select-container", "saving-target"} =>
           panel.active \in Endpoint
    /\ \A c \in Call :
          calls[c] # None /\ calls[c].kind \in {"discover", "select"} /\ calls[c].heard =>
              panel.active \in Endpoint

OnboardingInv ==
    /\ OnboardingTypeOK /\ AcknowledgedOK /\ RequestsOK /\ ActiveOK
    /\ Host!KeyIsEntrusted /\ Host!PinsAreConfirmed /\ Host!TargetsAreAtHome

\* The initial states satisfy the invariant.
LEMMA OnboardingInit == Host!Init => OnboardingInv
<1> SUFFICES ASSUME Host!Init PROVE OnboardingInv
  OBVIOUS
<1>1. OnboardingTypeOK
  BY DEF Host!Init, OnboardingTypeOK, Host!NoPanel, PanelRecord, Host!Phase, CallRecord
<1>2. AcknowledgedOK /\ RequestsOK /\ ActiveOK
  BY DEF Host!Init, AcknowledgedOK, RequestsOK, ActiveOK, Host!NoPanel
<1>3. Host!KeyIsEntrusted /\ Host!PinsAreConfirmed /\ Host!TargetsAreAtHome
  BY DEF Host!Init, Host!KeyIsEntrusted, Host!PinsAreConfirmed, Host!TargetsAreAtHome
<1> QED
  BY <1>1, <1>2, <1>3 DEF OnboardingInv

\* A request takes the place of none.
LEMMA AskEffect ==
    ASSUME NEW r \in CallRecord, Host!Ask(r), OnboardingTypeOK
    PROVE  \E c \in Call : calls[c] = None /\ calls' = [calls EXCEPT ![c] = r]
<1>1. PICK c \in Host!Idle : c = CHOOSE d \in Host!Idle : TRUE
  BY DEF Host!Ask
<1> QED
  BY <1>1 DEF Host!Ask, Host!Idle

\* A request whose page is gone is as it was, but for who hears of it.
LEMMA Unheeded ==
    ASSUME NEW r \in CallRecord, NEW q, q = [r EXCEPT !.heard = FALSE]
    PROVE  /\ q \in CallRecord /\ q.kind = r.kind /\ q.of = r.of /\ q.key = r.key
           /\ q.step = r.step /\ q.answer = r.answer /\ ~q.heard
  BY DEF CallRecord

\* A step of the page keeps the invariant.
LEMMA PageStep ==
    ASSUME OnboardingInv,
           \/ Host!ProbeHost \/ Host!Acknowledge \/ Host!EnterKey \/ Host!CreateHost
           \/ Host!SaveTarget \/ Host!Reload
           \/ \E e \in Endpoint : Host!Type(e) \/ Host!Discover(e)
           \/ \E phase \in Host!Phase : Host!Navigate(phase)
           \/ \E x \in Container : Host!Choose(x)
    PROVE  OnboardingInv'
<1> USE DEF Host!remote, Host!tables, Host!ghosts
<1>t. OnboardingTypeOK /\ panel \in PanelRecord
  BY DEF OnboardingInv, OnboardingTypeOK
<1>1. CASE Host!ProbeHost
  <2> DEFINE r == Host!NewCall("probe", panel.typed)
  <2>1. r \in CallRecord /\ r.kind = "probe" /\ r.step = "start"
    BY <1>1, <1>t DEF Host!ProbeHost, Host!NewCall, CallRecord, PanelRecord
  <2> HIDE DEF r
  <2>2. PICK c \in Call : calls[c] = None /\ calls' = [calls EXCEPT ![c] = r]
    BY <1>1, <1>t, <2>1, AskEffect DEF Host!ProbeHost, r
  <2>3. /\ panel' \in PanelRecord /\ panel'.probing /\ panel'.probe = None /\ panel'.ack = None
        /\ panel'.active = panel.active /\ panel'.phase = panel.phase /\ ~panel.probing
    BY <1>1, <1>t DEF Host!ProbeHost, Host!Invalidated, PanelRecord
  <2>4. OnboardingTypeOK'
    BY <1>1, <1>t, <2>1, <2>2, <2>3 DEF Host!ProbeHost, OnboardingTypeOK
  <2>5. AcknowledgedOK'
    BY <1>1, <1>t, <2>1, <2>2, <2>3 DEF Host!ProbeHost, OnboardingInv, OnboardingTypeOK,
       AcknowledgedOK
  <2>6. RequestsOK' /\ ActiveOK'
    BY <1>1, <1>t, <2>1, <2>2, <2>3 DEF Host!ProbeHost, OnboardingInv, OnboardingTypeOK,
       RequestsOK,
       ActiveOK
  <2>7. (Host!KeyIsEntrusted /\ Host!PinsAreConfirmed /\ Host!TargetsAreAtHome)'
    BY <1>1 DEF Host!ProbeHost, OnboardingInv, Host!KeyIsEntrusted, Host!PinsAreConfirmed,
       Host!TargetsAreAtHome
  <2> QED
    BY <2>4, <2>5, <2>6, <2>7 DEF OnboardingInv
<1>2. CASE Host!Acknowledge
  <2>1. OnboardingTypeOK'
    BY <1>2, <1>t DEF Host!Acknowledge, OnboardingTypeOK, PanelRecord, Acknowledged
  <2>2. AcknowledgedOK'
    BY <1>2, <1>t DEF Host!Acknowledge, OnboardingInv, AcknowledgedOK, PanelRecord
  <2>3. RequestsOK' /\ ActiveOK'
    BY <1>2, <1>t DEF Host!Acknowledge, OnboardingInv, RequestsOK, ActiveOK, PanelRecord
  <2>4. (Host!KeyIsEntrusted /\ Host!PinsAreConfirmed /\ Host!TargetsAreAtHome)'
    BY <1>2 DEF Host!Acknowledge, OnboardingInv, Host!KeyIsEntrusted, Host!PinsAreConfirmed,
       Host!TargetsAreAtHome
  <2> QED
    BY <2>1, <2>2, <2>3, <2>4 DEF OnboardingInv
<1>3. CASE Host!CreateHost
  <2> DEFINE r == [Host!NewCall("create", panel.typed) EXCEPT !.key = panel.probe.key]
  <2>1. /\ panel.probe \in Acknowledged /\ panel.probe.of = panel.typed
        /\ panel.probe \in confirmed
    BY <1>3, <1>t DEF Host!CreateHost, Host!FingerprintReady, OnboardingInv, AcknowledgedOK,
       PanelRecord
  <2>2. /\ r \in CallRecord /\ r.kind = "create" /\ r.step = "start" /\ r.of = panel.probe.of
        /\ r.key = panel.probe.key
    BY <2>1 DEF Host!NewCall, CallRecord, Acknowledged
  <2>3. [of |-> r.of, key |-> r.key] \in confirmed
    BY <2>1, <2>2 DEF Acknowledged
  <2> HIDE DEF r
  <2>4. PICK c \in Call : calls[c] = None /\ calls' = [calls EXCEPT ![c] = r]
    BY <1>3, <1>t, <2>2, AskEffect DEF Host!CreateHost, r
  <2>5. panel' = [panel EXCEPT !.secret = FALSE, !.creating = TRUE]
    BY <1>3 DEF Host!CreateHost
  <2>p. panel' \in PanelRecord
    BY <1>t, <2>5 DEF PanelRecord
  <2>6. OnboardingTypeOK'
    BY <1>3, <1>t, <2>2, <2>4, <2>p DEF Host!CreateHost, OnboardingTypeOK
  <2>7. AcknowledgedOK'
    BY <1>3, <1>t, <2>2, <2>4, <2>5 DEF Host!CreateHost, OnboardingInv, OnboardingTypeOK,
       AcknowledgedOK, PanelRecord
  <2>8. RequestsOK' /\ ActiveOK'
    BY <1>3, <1>t, <2>2, <2>3, <2>4, <2>5 DEF Host!CreateHost, OnboardingInv, OnboardingTypeOK,
       RequestsOK, ActiveOK, PanelRecord
  <2>9. (Host!KeyIsEntrusted /\ Host!PinsAreConfirmed /\ Host!TargetsAreAtHome)'
    BY <1>3 DEF Host!CreateHost, OnboardingInv, Host!KeyIsEntrusted, Host!PinsAreConfirmed,
       Host!TargetsAreAtHome
  <2> QED
    BY <2>6, <2>7, <2>8, <2>9 DEF OnboardingInv
<1>4. ASSUME NEW r \in CallRecord, r.kind \in {"discover", "select"}, Host!Ask(r),
             panel' \in PanelRecord,
             panel'.probe = panel.probe, panel'.ack = panel.ack, panel'.probing = panel.probing,
             panel'.active \in Endpoint,
             UNCHANGED <<keyAt, changes, stored, targets, confirmed, entrusted>>
      PROVE  OnboardingInv'
  <2>1. PICK c \in Call : calls[c] = None /\ calls' = [calls EXCEPT ![c] = r]
    BY <1>4, <1>t, AskEffect
  <2>2. OnboardingTypeOK'
    BY <1>4, <1>t, <2>1 DEF OnboardingTypeOK
  <2>3. AcknowledgedOK'
    BY <1>4, <1>t, <2>1 DEF OnboardingInv, OnboardingTypeOK, AcknowledgedOK
  <2>4. RequestsOK' /\ ActiveOK'
    BY <1>4, <1>t, <2>1 DEF OnboardingInv, OnboardingTypeOK, RequestsOK, ActiveOK
  <2>5. (Host!KeyIsEntrusted /\ Host!PinsAreConfirmed /\ Host!TargetsAreAtHome)'
    BY <1>4 DEF OnboardingInv, Host!KeyIsEntrusted, Host!PinsAreConfirmed, Host!TargetsAreAtHome
  <2> QED
    BY <2>2, <2>3, <2>4, <2>5 DEF OnboardingInv
<1>5. CASE Host!SaveTarget
  <2> DEFINE r == [Host!NewCall("select", panel.active) EXCEPT !.chosen = panel.chosen]
  <2>1. panel.active \in Endpoint /\ panel.chosen \in Container
    BY <1>5, <1>t DEF Host!SaveTarget, OnboardingInv, ActiveOK, PanelRecord
  <2>3. r \in CallRecord /\ r.kind = "select"
    BY <2>1 DEF Host!NewCall, CallRecord
  <2>2. /\ panel' \in PanelRecord /\ panel'.probe = panel.probe /\ panel'.ack = panel.ack
        /\ panel'.probing = panel.probing /\ panel'.active = panel.active
    BY <1>5, <1>t DEF Host!SaveTarget, PanelRecord, Host!Phase
  <2> QED
    BY <1>4, <1>5, <2>1, <2>2, <2>3 DEF Host!SaveTarget
<1>6. ASSUME NEW e \in Endpoint, Host!Discover(e) PROVE OnboardingInv'
  <2>1. Host!NewCall("discover", e) \in CallRecord /\ Host!NewCall("discover",
     e).kind = "discover"
    BY DEF Host!NewCall, CallRecord
  <2>2. /\ panel' \in PanelRecord /\ panel'.probe = panel.probe /\ panel'.ack = panel.ack
        /\ panel'.probing = panel.probing /\ panel'.active = e
    BY <1>6, <1>t DEF Host!Discover, Host!Discovering, PanelRecord, Host!Phase
  <2> QED
    BY <1>4, <1>6, <2>1, <2>2 DEF Host!Discover
<1>7. ASSUME panel' \in PanelRecord, panel'.probing = panel.probing,
             panel'.active = panel.active,
             panel'.phase \in {panel.phase, "choose-host", "new-host"},
             \/ panel'.probe = panel.probe /\ panel'.ack = panel.ack
             \/ panel'.probe = None /\ panel'.ack = None,
             UNCHANGED <<keyAt, calls, stored, targets, confirmed, entrusted>>
      PROVE  OnboardingInv'
  <2>1. OnboardingTypeOK'
    BY <1>7, <1>t DEF OnboardingTypeOK
  <2>2. AcknowledgedOK' /\ RequestsOK' /\ ActiveOK'
    BY <1>7, <1>t DEF OnboardingInv, OnboardingTypeOK, AcknowledgedOK, RequestsOK, ActiveOK
  <2>3. (Host!KeyIsEntrusted /\ Host!PinsAreConfirmed /\ Host!TargetsAreAtHome)'
    BY <1>7 DEF OnboardingInv, Host!KeyIsEntrusted, Host!PinsAreConfirmed, Host!TargetsAreAtHome
  <2> QED
    BY <2>1, <2>2, <2>3 DEF OnboardingInv
<1>8. CASE Host!EnterKey
  BY <1>7, <1>8, <1>t DEF Host!EnterKey, PanelRecord
<1>9. ASSUME NEW e \in Endpoint, Host!Type(e) PROVE OnboardingInv'
  BY <1>7, <1>9, <1>t DEF Host!Type, Host!Invalidated, PanelRecord
<1>10. ASSUME NEW phase \in Host!Phase, Host!Navigate(phase) PROVE OnboardingInv'
  BY <1>7, <1>10, <1>t DEF Host!Navigate, PanelRecord
<1>11. ASSUME NEW x \in Container, Host!Choose(x) PROVE OnboardingInv'
  BY <1>7, <1>11, <1>t DEF Host!Choose, PanelRecord
<1>12. CASE Host!Reload
  <2>1. /\ panel' \in PanelRecord /\ panel'.ack = None /\ ~panel'.probing
        /\ panel'.phase \in {"choose-host", "new-host"}
    BY <1>12 DEF Host!Reload, Host!NoPanel, PanelRecord, Host!Phase
  <2>2. \A c \in Call :
          /\ calls[c] = None => calls'[c] = None
          /\ calls[c] # None => /\ calls'[c] \in CallRecord /\ calls'[c].kind = calls[c].kind
                                /\ calls'[c].of = calls[c].of /\ calls'[c].key = calls[c].key
                                /\ calls'[c].step = calls[c].step
                                /\ calls'[c].answer = calls[c].answer /\ ~calls'[c].heard
    <3>1. calls' = [c \in Call |-> IF calls[c] = None THEN None
                                   ELSE [calls[c] EXCEPT !.heard = FALSE]]
      BY <1>12 DEF Host!Reload
    <3>2. ASSUME NEW c \in Call, calls[c] # None
          PROVE  calls[c] \in CallRecord /\ calls'[c] = [calls[c] EXCEPT !.heard = FALSE]
      BY <1>t, <3>1, <3>2 DEF OnboardingTypeOK
    <3> QED
      BY <3>1, <3>2, Unheeded
  <2>u. UNCHANGED <<keyAt, stored, targets, confirmed, entrusted>>
    BY <1>12 DEF Host!Reload
  <2>3. calls' \in [Call -> CallRecord \cup {None}]
    BY <1>12, <2>2 DEF Host!Reload
  <2>4. OnboardingTypeOK'
    BY <1>12, <1>t, <2>1, <2>2, <2>3 DEF Host!Reload, OnboardingTypeOK
  <2>5. AcknowledgedOK' /\ ActiveOK'
    BY <2>1, <2>2 DEF AcknowledgedOK, ActiveOK
  <2>6. RequestsOK'
    BY <2>u, <2>2 DEF OnboardingInv, RequestsOK
  <2>7. (Host!KeyIsEntrusted /\ Host!PinsAreConfirmed /\ Host!TargetsAreAtHome)'
    BY <2>u DEF OnboardingInv, Host!KeyIsEntrusted, Host!PinsAreConfirmed, Host!TargetsAreAtHome
  <2> QED
    BY <2>4, <2>5, <2>6, <2>7 DEF OnboardingInv
<1> QED
  BY <1>1, <1>2, <1>3, <1>5, <1>6, <1>8, <1>9, <1>10, <1>11, <1>12

\* A step of the API takes a request on: it stays of its kind and keeps what it carries, it
\* may store a host only under the key that it trusts, and a probe answers with a key or fails.
Progress(c) ==
    \E r \in CallRecord :
        /\ calls' = [calls EXCEPT ![c] = r]
        /\ r.kind = calls[c].kind /\ r.of = calls[c].of /\ r.key = calls[c].key
        /\ r.heard = calls[c].heard
        /\ r.step = "store" => Host!CreateVerifies(c) /\ Host!Trusted(calls[c])
        /\ r.kind = "probe" => r.answer \in HostKey \cup {"failed"}

\* Every step of the API does.
LEMMA ApiProgress ==
    ASSUME OnboardingTypeOK, NEW c \in Call, calls[c] # None,
           \/ Host!Probe(c) \/ Host!CreateProbes(c) \/ Host!CreateVerifies(c)
           \/ Host!CreateStores(c) \/ Host!DiscoveryAnswers(c) \/ Host!SelectAnswers(c)
    PROVE  Progress(c)
<1>t. /\ calls[c] \in CallRecord /\ calls \in [Call -> CallRecord \cup {None}]
      /\ keyAt \in [Endpoint -> HostKey]
  BY DEF OnboardingTypeOK
<1>1. ASSUME NEW a \in HostKey \cup {"failed", "mismatch", "created", "found", "saved"},
             Host!Answer(c, a), calls[c].kind = "probe" => a \in HostKey \cup {"failed"}
      PROVE  Progress(c)
  <2> DEFINE r == [calls[c] EXCEPT !.step = "done", !.answer = a]
  <2>1. calls' = [calls EXCEPT ![c] = r]
    BY <1>t, <1>1 DEF Host!Answer
  <2>2. /\ r \in CallRecord /\ r.kind = calls[c].kind /\ r.of = calls[c].of
        /\ r.key = calls[c].key /\ r.heard = calls[c].heard /\ r.step = "done" /\ r.answer = a
    BY <1>t DEF CallRecord
  <2> HIDE DEF r
  <2> QED
    BY <1>1, <2>1, <2>2 DEF Progress
<1>2. ASSUME NEW s \in {"verify", "store"}, calls' = [calls EXCEPT ![c].step = s],
             calls[c].kind # "probe",
                s = "store" => Host!CreateVerifies(c) /\ Host!Trusted(calls[c])
      PROVE  Progress(c)
  <2> DEFINE r == [calls[c] EXCEPT !.step = s]
  <2>1. calls' = [calls EXCEPT ![c] = r]
    BY <1>t, <1>2
  <2>2. /\ r \in CallRecord /\ r.kind = calls[c].kind /\ r.of = calls[c].of
        /\ r.key = calls[c].key /\ r.heard = calls[c].heard /\ r.step = s
    BY <1>t DEF CallRecord
  <2> HIDE DEF r
  <2> QED
    BY <1>2, <2>1, <2>2 DEF Progress
<1>3. CASE Host!Probe(c)
  <2>1. keyAt[calls[c].of] \in HostKey
    BY <1>t DEF CallRecord
  <2> QED
    BY <1>1, <1>3, <2>1 DEF Host!Probe
<1>4. CASE Host!CreateProbes(c)
  BY <1>1, <1>2, <1>4 DEF Host!CreateProbes
<1>5. CASE Host!CreateVerifies(c)
  <2>1. CASE Host!Trusted(calls[c])
    BY <1>1, <1>2, <1>5, <2>1 DEF Host!CreateVerifies
  <2>2. CASE ~Host!Trusted(calls[c])
    BY <1>1, <1>5, <2>2 DEF Host!CreateVerifies
  <2> QED
    BY <2>1, <2>2
<1>6. CASE Host!CreateStores(c)
  BY <1>1, <1>6 DEF Host!CreateStores
<1>7. ASSUME NEW list \in SUBSET Host!Local(calls[c].of), calls[c].kind = "discover",
             calls' = [calls EXCEPT ![c].step = "done", ![c].answer = "found", ![c].list = list]
      PROVE  Progress(c)
  <2> DEFINE r == [calls[c] EXCEPT !.step = "done", !.answer = "found", !.list = list]
  <2>1. calls' = [calls EXCEPT ![c] = r]
    BY <1>t, <1>7
  <2>2. /\ r \in CallRecord /\ r.kind = "discover" /\ r.of = calls[c].of
        /\ r.key = calls[c].key /\ r.heard = calls[c].heard /\ r.step = "done"
    BY <1>t, <1>7 DEF CallRecord, Host!Local
  <2> HIDE DEF r
  <2> QED
    BY <1>7, <2>1, <2>2 DEF Progress
<1>8. CASE Host!DiscoveryAnswers(c)
  BY <1>1, <1>7, <1>8 DEF Host!DiscoveryAnswers
<1>9. CASE Host!SelectAnswers(c)
  BY <1>1, <1>9 DEF Host!SelectAnswers
<1> QED
  BY <1>3, <1>4, <1>5, <1>6, <1>8, <1>9

\* A step of the API keeps the invariant.
LEMMA ApiStep ==
    ASSUME OnboardingInv, NEW c \in Call,
           \/ Host!Probe(c) \/ Host!CreateProbes(c) \/ Host!CreateVerifies(c)
           \/ Host!CreateStores(c) \/ Host!DiscoveryAnswers(c) \/ Host!SelectAnswers(c)
    PROVE  OnboardingInv'
<1> USE DEF Host!remote, Host!tables, Host!ghosts
<1>1. /\ OnboardingTypeOK /\ calls[c] \in CallRecord /\ calls[c] # None
      /\ calls \in [Call -> CallRecord \cup {None}]
      /\ stored \in [Endpoint -> HostKey \cup {None}] /\ keyAt \in [Endpoint -> HostKey]
      /\ calls[c].of \in Endpoint /\ calls[c].key \in HostKey \cup {None}
  BY DEF OnboardingInv, OnboardingTypeOK, Host!Probe, Host!CreateProbes, Host!CreateVerifies,
     Host!CreateStores,
     Host!DiscoveryAnswers, Host!SelectAnswers, CallRecord
<1>2. PICK r \in CallRecord :
        /\ calls' = [calls EXCEPT ![c] = r]
        /\ r.kind = calls[c].kind /\ r.of = calls[c].of /\ r.key = calls[c].key
        /\ r.heard = calls[c].heard
        /\ r.step = "store" => Host!CreateVerifies(c) /\ Host!Trusted(calls[c])
        /\ r.kind = "probe" => r.answer \in HostKey \cup {"failed"}
  BY <1>1, ApiProgress DEF Progress
<1>3. UNCHANGED <<keyAt, panel, confirmed>>
  BY DEF Host!Probe, Host!CreateProbes, Host!CreateVerifies, Host!CreateStores,
     Host!DiscoveryAnswers, Host!SelectAnswers
<1>4. \/ UNCHANGED stored
      \/ Host!CreateStores(c) /\ stored' = Host!Insert(calls[c])
  BY DEF Host!Probe, Host!CreateProbes, Host!CreateVerifies, Host!CreateStores,
     Host!DiscoveryAnswers, Host!SelectAnswers
<1>5. \/ UNCHANGED targets
      \/ Host!Candidate(calls[c]) /\ targets' = targets \cup {<<calls[c].of, calls[c].chosen>>}
  BY DEF Host!Probe, Host!CreateProbes, Host!CreateVerifies, Host!CreateStores,
     Host!DiscoveryAnswers, Host!SelectAnswers
<1>6. \/ UNCHANGED entrusted /\ r.step # "store"
      \/ /\ Host!CreateVerifies(c) /\ Host!Trusted(calls[c])
         /\ entrusted' = entrusted \cup {[of |-> calls[c].of, key |-> calls[c].key]}
  BY <1>2 DEF Host!Probe, Host!CreateProbes, Host!CreateVerifies, Host!CreateStores,
     Host!DiscoveryAnswers, Host!SelectAnswers,
     Host!Trusted
<1>7. OnboardingTypeOK'
  <2>1. stored' \in [Endpoint -> HostKey \cup {None}]
    BY <1>1, <1>4 DEF Host!Insert
  <2> QED
    BY <1>1, <1>2, <1>3, <2>1 DEF OnboardingTypeOK
<1>8. AcknowledgedOK'
  BY <1>1, <1>2, <1>3 DEF OnboardingInv, AcknowledgedOK
<1>9. RequestsOK' /\ ActiveOK'
  BY <1>1, <1>2, <1>3, <1>6 DEF OnboardingInv, RequestsOK, ActiveOK
<1>10. Host!KeyIsEntrusted'
  BY <1>1, <1>3, <1>6 DEF OnboardingInv, RequestsOK, Host!KeyIsEntrusted, Host!CreateVerifies
<1>11. Host!PinsAreConfirmed'
  <2>1. ASSUME NEW e \in Endpoint, stored'[e] # None
        PROVE  [of |-> e, key |-> stored'[e]] \in confirmed \cap entrusted
    <3>1. CASE stored'[e] = stored[e]
      BY <2>1, <3>1 DEF OnboardingInv, Host!PinsAreConfirmed
    <3>2. CASE stored'[e] # stored[e]
      <4>1. Host!CreateStores(c) /\ e = calls[c].of /\ stored'[e] = calls[c].key
        BY <1>1, <1>4, <3>2 DEF Host!Insert
      <4> QED
        BY <1>1, <4>1 DEF OnboardingInv, RequestsOK, Host!CreateStores
    <3> QED
      BY <3>1, <3>2
  <2> QED
    BY <1>3, <1>6, <2>1 DEF Host!PinsAreConfirmed
<1>12. Host!TargetsAreAtHome'
  BY <1>5 DEF OnboardingInv, Host!TargetsAreAtHome, Host!Candidate, Host!Local
<1> QED
  BY <1>7, <1>8, <1>9, <1>10, <1>11, <1>12 DEF OnboardingInv

\* An answer that reaches the panel keeps the invariant.
LEMMA AnswerStep ==
    ASSUME OnboardingInv, NEW c \in Call,
           \/ Host!ProbeShown(c) \/ Host!HostCreated(c) \/ Host!CreateRefused(c)
           \/ Host!DiscoveryShown(c) \/ Host!TargetSaved(c) \/ Host!SelectFailed(c) \/ Host!Unheard(c)
    PROVE  OnboardingInv'
<1> USE DEF Host!remote, Host!tables, Host!ghosts
<1>1. /\ OnboardingTypeOK /\ panel \in PanelRecord /\ calls[c] \in CallRecord
      /\ calls \in [Call -> CallRecord \cup {None}]
  BY DEF OnboardingInv, OnboardingTypeOK, Host!ProbeShown, Host!HostCreated, Host!CreateRefused,
     Host!DiscoveryShown, Host!TargetSaved, Host!SelectFailed, Host!Unheard, Host!Heard
<1>2. UNCHANGED <<keyAt, stored, targets, confirmed, entrusted>>
  BY DEF Host!ProbeShown, Host!HostCreated, Host!CreateRefused, Host!DiscoveryShown,
     Host!TargetSaved, Host!SelectFailed,
     Host!Unheard
<1>3. (Host!KeyIsEntrusted /\ Host!PinsAreConfirmed /\ Host!TargetsAreAtHome)'
  BY <1>2 DEF OnboardingInv, Host!KeyIsEntrusted, Host!PinsAreConfirmed, Host!TargetsAreAtHome
<1>4. panel' \in PanelRecord
  <2>1. CASE Host!ProbeShown(c)
    <3>1. calls[c].answer \in HostKey \cup {"failed"}
      BY <1>1, <2>1 DEF Host!ProbeShown, Host!Heard, OnboardingTypeOK
    <3>2. calls[c].answer # "failed" => [of |-> calls[c].of,
       key |-> calls[c].answer] \in Acknowledged
      BY <1>1, <3>1 DEF CallRecord, Acknowledged
    <3> QED
      BY <1>1, <2>1, <3>2 DEF Host!ProbeShown, PanelRecord
  <2>2. CASE Host!HostCreated(c)
    BY <1>1, <2>2 DEF Host!HostCreated, Host!Discovering, PanelRecord, CallRecord, Host!Phase
  <2>3. CASE Host!CreateRefused(c)
    BY <1>1, <2>3 DEF Host!CreateRefused, PanelRecord
  <2>4. CASE Host!DiscoveryShown(c)
    BY <1>1, <2>4 DEF Host!DiscoveryShown, PanelRecord, CallRecord, Host!Phase
  <2>5. CASE Host!TargetSaved(c)
    BY <2>5 DEF Host!TargetSaved, Host!NoPanel, PanelRecord, Host!Phase
  <2>6. CASE Host!SelectFailed(c)
    BY <1>1, <2>6 DEF Host!SelectFailed, PanelRecord, Host!Phase
  <2>7. CASE Host!Unheard(c)
    BY <1>1, <2>7 DEF Host!Unheard
  <2> QED
    BY <2>1, <2>2, <2>3, <2>4, <2>5, <2>6, <2>7
<1>5. ASSUME NEW d \in Call, calls'[d] # None
      PROVE  \/ calls'[d] = calls[d]
             \/ calls'[d] = [calls[d] EXCEPT !.heard = FALSE] /\ calls[d] # None
             \/ calls'[d] = Host!NewCall("discover", calls[d].of) /\ d = c
  BY <1>1, <1>5 DEF Host!ProbeShown, Host!HostCreated, Host!CreateRefused, Host!DiscoveryShown,
     Host!TargetSaved,
     Host!SelectFailed, Host!Unheard, Host!Gone
<1>6. \A e \in Endpoint : Host!NewCall("discover", e) \in CallRecord
  BY DEF Host!NewCall, CallRecord
<1>7. calls' \in [Call -> CallRecord \cup {None}]
  <2>1. calls[c].of \in Endpoint
    BY <1>1 DEF CallRecord
  <2>2. CASE Host!TargetSaved(c)
    BY <1>1, <2>2, Unheeded DEF Host!TargetSaved
  <2> QED
    BY <1>1, <1>6, <2>1, <2>2 DEF Host!ProbeShown, Host!HostCreated, Host!CreateRefused,
       Host!DiscoveryShown,
       Host!SelectFailed, Host!Unheard, Host!Gone
<1>8. ASSUME NEW d \in Call, calls'[d] # None
      PROVE  \/ calls'[d].kind = "discover" /\ d = c
             \/ /\ calls[d] # None /\ calls'[d].kind = calls[d].kind
                /\ calls'[d].of = calls[d].of /\ calls'[d].key = calls[d].key
                /\ calls'[d].step = calls[d].step /\ calls'[d].answer = calls[d].answer
                /\ calls'[d].heard => calls[d].heard
  <2>1. CASE calls'[d] = calls[d]
    BY <1>8, <2>1
  <2>2. CASE calls'[d] = [calls[d] EXCEPT !.heard = FALSE] /\ calls[d] # None
    BY <1>1, <2>2, Unheeded
  <2>3. CASE calls'[d] = Host!NewCall("discover", calls[d].of) /\ d = c
    BY <2>3 DEF Host!NewCall
  <2> QED
    BY <1>5, <1>8, <2>1, <2>2, <2>3
<1>9. OnboardingTypeOK'
  BY <1>1, <1>2, <1>4, <1>7, <1>8 DEF OnboardingTypeOK
<1>10. RequestsOK'
  BY <1>2, <1>8 DEF OnboardingInv, RequestsOK
<1>11. AcknowledgedOK'
  <2>a. AcknowledgedOK
    BY DEF OnboardingInv
  <2>1. CASE Host!ProbeShown(c)
    <3>1. calls[c] # None /\ calls[c].kind = "probe" /\ calls[c].heard /\ calls'[c] = None
      BY <1>1, <2>1 DEF Host!ProbeShown, Host!Heard, Host!Gone
    <3>2. panel.probing /\ panel.ack = None
      BY <2>a, <3>1 DEF AcknowledgedOK
    <3>3. panel'.ack = None /\ panel'.probing = FALSE
      BY <1>1, <2>1, <3>2 DEF Host!ProbeShown, PanelRecord
    <3> QED
      BY <1>8, <2>a, <3>1, <3>3 DEF AcknowledgedOK
  <2>2. CASE Host!TargetSaved(c)
    <3>1. panel'.ack = None /\ panel'.probing = FALSE
      BY <2>2 DEF Host!TargetSaved, Host!NoPanel
    <3>2. \A d \in Call : calls'[d] # None => ~calls'[d].heard
      BY <1>1, <2>2, Unheeded DEF Host!TargetSaved
    <3> QED
      BY <3>1, <3>2 DEF AcknowledgedOK
  <2>3. CASE ~Host!ProbeShown(c) /\ ~Host!TargetSaved(c)
    <3>1. /\ panel'.probing = panel.probing
          /\ \/ panel'.probe = panel.probe /\ panel'.ack = panel.ack
             \/ panel'.probe = None /\ panel'.ack = None
      BY <1>1, <2>3 DEF Host!HostCreated, Host!CreateRefused, Host!DiscoveryShown,
         Host!SelectFailed, Host!Unheard,
         Host!Discovering, PanelRecord
    <3> QED
      BY <1>2, <1>8, <2>a, <3>1 DEF AcknowledgedOK
  <2> QED
    BY <2>1, <2>2, <2>3
<1>12. ActiveOK'
  <2>a. ActiveOK
    BY DEF OnboardingInv
  <2>1. CASE Host!HostCreated(c)
    <3>1. panel'.active = calls[c].of /\ calls[c].of \in Endpoint
      BY <1>1, <2>1 DEF Host!HostCreated, Host!Discovering, PanelRecord, CallRecord
    <3> QED
      BY <3>1 DEF ActiveOK
  <2>2. CASE Host!TargetSaved(c)
    <3>1. panel'.phase = "choose-host" /\ \A d \in Call : calls'[d] # None => ~calls'[d].heard
      BY <1>1, <2>2, Unheeded DEF Host!TargetSaved, Host!NoPanel
    <3> QED
      BY <3>1 DEF ActiveOK
  <2>3. CASE Host!DiscoveryShown(c) \/ Host!SelectFailed(c)
    <3>1. panel'.active = panel.active /\ panel.active \in Endpoint
      BY <1>1, <2>a, <2>3 DEF Host!DiscoveryShown, Host!SelectFailed, Host!Heard, PanelRecord,
         ActiveOK
    <3> QED
      BY <3>1 DEF ActiveOK
  <2>4. CASE Host!ProbeShown(c) \/ Host!CreateRefused(c) \/ Host!Unheard(c)
    <3>1. /\ panel'.active = panel.active /\ panel'.phase = panel.phase
          /\ \A d \in Call : calls'[d] # None => calls'[d] = calls[d]
      BY <1>1, <2>4 DEF Host!ProbeShown, Host!CreateRefused, Host!Unheard, Host!Gone, PanelRecord
    <3> QED
      BY <2>a, <3>1 DEF ActiveOK
  <2> QED
    BY <2>1, <2>2, <2>3, <2>4
<1> QED
  BY <1>3, <1>9, <1>10, <1>11, <1>12 DEF OnboardingInv

\* Every step keeps the invariant.
LEMMA OnboardingStep == OnboardingInv /\ [Host!Next]_(Host!vars) => OnboardingInv'
<1> SUFFICES ASSUME OnboardingInv, [Host!Next]_(Host!vars) PROVE OnboardingInv'
  OBVIOUS
<1>1. ASSUME NEW e \in Endpoint, NEW k \in HostKey, Host!KeyChanges(e, k) PROVE OnboardingInv'
  BY <1>1 DEF Host!KeyChanges, Host!tables, Host!ghosts, OnboardingInv, OnboardingTypeOK,
     AcknowledgedOK,
     RequestsOK, ActiveOK, Host!KeyIsEntrusted, Host!PinsAreConfirmed, Host!TargetsAreAtHome
<1>2. CASE UNCHANGED Host!vars
  BY <1>2 DEF Host!vars, OnboardingInv, OnboardingTypeOK, AcknowledgedOK, RequestsOK,
     ActiveOK, Host!KeyIsEntrusted, Host!PinsAreConfirmed, Host!TargetsAreAtHome
<1>3. CASE Host!Serve
  BY <1>3, ApiStep, AnswerStep DEF Host!Serve
<1> QED
  BY <1>1, <1>2, <1>3, PageStep DEF Host!Next

\* Whatever answers at an endpoint, however requests and answers overtake each other and
\* whenever the page is loaded anew: a private key is offered only to a host key that was
\* acknowledged for that endpoint.
THEOREM OnboardingIsSafe ==
    Host!Spec => [](Host!KeyIsEntrusted /\ Host!PinsAreConfirmed /\ Host!TargetsAreAtHome)
<1>1. OnboardingInv => Host!KeyIsEntrusted /\ Host!PinsAreConfirmed /\ Host!TargetsAreAtHome
  BY DEF OnboardingInv
<1> QED
  BY <1>1, OnboardingInit, OnboardingStep, PTL DEF Host!Spec

\* So it is in the behaviours of MCAuth that follow the onboarding, with any endpoints, keys
\* and number of requests.
THEOREM HostInvariantHolds == SceneSpec => []HostInvariant
<1> DEFINE SceneInv == scene = "host" => OnboardingInv
<1>1. SceneInit => SceneInv
  BY OnboardingInit DEF SceneInit
<1>2. SceneInv /\ [SceneNext]_sceneVars => SceneInv'
  <2> SUFFICES ASSUME SceneInv, [SceneNext]_sceneVars, scene' = "host"
               PROVE  OnboardingInv'
    OBVIOUS
  <2>1. scene = "host" /\ [Host!Next]_(Host!vars)
    BY DEF SceneNext, sceneVars, hostVars, Host!vars
  <2> QED
    BY <2>1, OnboardingStep
<1>3. SceneInv => HostInvariant
  BY DEF HostInvariant, OnboardingInv
<1> QED
  BY <1>1, <1>2, <1>3, PTL DEF SceneSpec

-----------------------------------------------------------------------------
(* One HTTP exchange: loops as functions.                                  *)

\* Induction on the natural numbers, for a set.
LEMMA SetInduction ==
    ASSUME NEW S, 0 \in S, \A n \in Nat : n \in S => n + 1 \in S
    PROVE  Nat \subseteq S
<1> SUFFICES ASSUME Nat \ S # {} PROVE FALSE
  OBVIOUS
<1> DEFINE R == OpToRel(<, Nat)
<1>4. IsWellFoundedOn(R, Nat)
  BY NatLessThanWellFounded
<1>5. \A x, y \in Nat : x < y => <<x, y>> \in R
  BY DEF OpToRel
<1> HIDE DEF R
<1>1. PICK x \in Nat \ S : \A y \in Nat \ S : ~ (<<y, x>> \in R)
  BY <1>4, WFMin
<1>2. x # 0 /\ x - 1 \in Nat /\ (x - 1) + 1 = x
  BY <1>1
<1>3. <<x - 1, x>> \in R
  BY <1>2, <1>5
<1> QED
  BY <1>1, <1>2, <1>3

\* f goes from d, its first value, by the steps that G tells.
Follows(f, d, G, n) == f[0] = d /\ \A i \in 1..n : f[i] = G[<<f[i - 1], i>>]

\* A function on 0..n is defined by its first value and by a step.
LEMMA Recursion ==
    ASSUME NEW S, NEW d \in S, NEW G \in [S \X Nat -> S], NEW n \in Nat
    PROVE  \E f \in [0..n -> S] : Follows(f, d, G, n)
<1> DEFINE Defines(f, m) == Follows(f, d, G, m)
           A == {m \in Nat : \E f \in [0..m -> S] : Defines(f, m)}
<1> USE DEF Follows
<1>1. 0 \in A
  <2>1. [i \in 0..0 |-> d] \in [0..0 -> S] /\ Defines([i \in 0..0 |-> d], 0)
    OBVIOUS
  <2> QED
    BY <2>1
<1>2. ASSUME NEW m \in Nat, m \in A PROVE m + 1 \in A
  <2>1. PICK f \in [0..m -> S] : Defines(f, m)
    BY <1>2
  <2> DEFINE g == [i \in 0..(m + 1) |-> IF i = m + 1 THEN G[<<f[m], m + 1>>] ELSE f[i]]
  <2>2. G[<<f[m], m + 1>>] \in S
    BY <2>1
  <2>3. g \in [0..(m + 1) -> S]
    BY <2>1, <2>2
  <2>4. \A i \in 0..m : g[i] = f[i]
    OBVIOUS
  <2>5. g[m + 1] = G[<<f[m], m + 1>>]
    OBVIOUS
  <2>6. Defines(g, m + 1)
    <3> HIDE DEF g
    <3>1. g[0] = d
      BY <2>1, <2>4
    <3>2. ASSUME NEW i \in 1..(m + 1) PROVE g[i] = G[<<g[i - 1], i>>]
      <4>1. CASE i = m + 1
        <5>1. i - 1 = m /\ m \in 0..m
          BY <4>1
        <5>2. g[i - 1] = f[m]
          BY <5>1, <2>4
        <5> QED
          BY <4>1, <5>1, <5>2, <2>5
      <4>2. CASE i # m + 1
        <5>1. i \in 1..m /\ i \in 0..m /\ i - 1 \in 0..m
          BY <4>2
        <5> QED
          BY <5>1, <2>1, <2>4
      <4> QED
        BY <4>1, <4>2
    <3> QED
      BY <3>1, <3>2
  <2> HIDE DEF g, Defines
  <2> QED
    BY <2>3, <2>6
<1> HIDE DEF A
<1>3. Nat \subseteq A
  BY <1>1, <1>2, SetInduction
<1>4. n \in A
  BY <1>3
<1> QED
  BY <1>4 DEF A

\* f holds the decoder after as many of the bytes as its argument tells.
TakesBytes(f, c, d, bytes) ==
    /\ f[0] = d
    /\ \A i \in 1..Len(bytes) : f[i] = TakeByte(c, f[i - 1], bytes[i])
    /\ TakeBytes(c, d, bytes) = f[Len(bytes)]

\* The loop over the bytes, as a function of how many were taken.
LEMMA TakeBytesIs ==
    ASSUME NEW c, NEW S, NEW d \in S, NEW bytes \in Seq(Byte),
           \A e \in S, b \in Byte : TakeByte(c, e, b) \in S
    PROVE  \E f \in [0..Len(bytes) -> S] : TakesBytes(f, c, d, bytes)
<1> DEFINE G == [x \in S \X Nat |->
                   IF x[2] \in 1..Len(bytes) THEN TakeByte(c, x[1], bytes[x[2]]) ELSE d]
<1>1. G \in [S \X Nat -> S]
  <2>1. ASSUME NEW x \in S \X Nat
        PROVE  (IF x[2] \in 1..Len(bytes) THEN TakeByte(c, x[1], bytes[x[2]]) ELSE d) \in S
    <3>1. x[1] \in S
      OBVIOUS
    <3>2. x[2] \in 1..Len(bytes) => bytes[x[2]] \in Byte
      OBVIOUS
    <3> QED
      BY <3>1, <3>2
  <2> QED
    BY <2>1
<1>2. Len(bytes) \in Nat
  OBVIOUS
<1> HIDE DEF G
<1> DEFINE n == Len(bytes)
<1>9. \E f \in [0..n -> S] : Follows(f, d, G, n)
  <2>1. n \in Nat
    BY <1>2
  <2> HIDE DEF n
  <2> QED
    BY <1>1, <2>1, Recursion
<1>3. PICK f \in [0..Len(bytes) -> S] : f[0] = d
      /\ \A i \in 1..Len(bytes) : f[i] = G[<<f[i - 1], i>>]
  BY <1>9 DEF Follows
<1>4. \A i \in 1..Len(bytes) : f[i] = TakeByte(c, f[i - 1], bytes[i])
  <2>1. ASSUME NEW i \in 1..Len(bytes) PROVE f[i] = TakeByte(c, f[i - 1], bytes[i])
    <3>1. i \in Nat /\ i - 1 \in 0..Len(bytes)
      BY <1>2
    <3>2. f[i - 1] \in S
      BY <3>1
    <3> DEFINE x == <<f[i - 1], i>>
    <3>3. x \in S \X Nat /\ x[1] = f[i - 1] /\ x[2] = i
      BY <3>1, <3>2
    <3>4. f[i] = G[x]
      BY <1>3
    <3> HIDE DEF x
    <3> QED
      BY <3>3, <3>4 DEF G
  <2> QED
    BY <2>1
<1> DEFINE Def(g) == [i \in 0..Len(bytes) |-> IF i = 0 THEN d ELSE TakeByte(c, g[i - 1], bytes[i])]
           after == CHOOSE g : g = Def(g)
<1>5. f = Def(f)
  BY <1>3, <1>4
<1>6. after = Def(after)
  BY <1>5
<1>7. TakeBytes(c, d, bytes) = after[Len(bytes)]
  BY DEF TakeBytes
<1> HIDE DEF after
<1>8. \A i \in 0..Len(bytes) : after[i] = f[i]
  <2> DEFINE A == {i \in Nat : i \in 0..Len(bytes) => after[i] = f[i]}
  <2>1. 0 \in A
    BY <1>3, <1>6
  <2>2. ASSUME NEW i \in Nat, i \in A PROVE i + 1 \in A
    <3>1. CASE i + 1 \in 0..Len(bytes)
      <4>1. after[i + 1] = TakeByte(c, after[i], bytes[i + 1]) /\ after[i] = f[i]
        BY <3>1, <1>6, <2>2
      <4>2. f[i + 1] = TakeByte(c, f[i], bytes[i + 1])
        BY <3>1, <1>4
      <4> QED
        BY <4>1, <4>2
    <3> QED
      BY <3>1
  <2> HIDE DEF A
  <2>3. Nat \subseteq A
    BY <2>1, <2>2, SetInduction
  <2> QED
    BY <2>3 DEF A
<1>10. TakesBytes(f, c, d, bytes)
  BY <1>2, <1>3, <1>4, <1>7, <1>8 DEF TakesBytes
<1> QED
  BY <1>3, <1>10

-----------------------------------------------------------------------------
(* Lines.                                                                  *)

\* What a decoder is.
DecoderState ==
    [headers : BOOLEAN, buffer : Seq(Byte), size : 0..9, terminal : BOOLEAN,
     line : Seq(Byte), lines : Seq(Seq(Byte)), bad : BOOLEAN]

\* Without its carriage return a line is a sequence that is not longer.
LEMMA StripCRType ==
    ASSUME NEW line \in Seq(Byte)
    PROVE  StripCR(line) \in Seq(Byte) /\ Len(StripCR(line)) <= Len(line)
<1>1. CASE line # <<>> /\ line[Len(line)] = CR
  <2>1. Len(line) \in Nat \ {0}
    BY <1>1
  <2> DEFINE n == Len(line) - 1
  <2>2. n \in 0..Len(line) /\ n <= Len(line)
    BY <2>1
  <2>3. StripCR(line) = SubSeq(line, 1, n)
    BY <1>1 DEF StripCR
  <2> HIDE DEF n
  <2>4. SubSeq(line, 1, n) \in Seq(Byte) /\ Len(SubSeq(line, 1, n)) = n
    BY <2>2
  <2> QED
    BY <2>2, <2>3, <2>4
<1> QED
  BY <1>1 DEF StripCR

\* What a line is reported as is a sequence, and not shorter than without its carriage
\* return.
LEMMA NormalizedType ==
    ASSUME NEW c, NEW line \in Seq(Byte)
    PROVE  /\ Normalized(c, line) \in Seq(Byte)
           /\ Len(StripCR(line)) <= Len(Normalized(c, line))
  BY StripCRType DEF Normalized

\* Emitting a line changes nothing but the lines and whether one was refused.
LEMMA EmitType ==
    ASSUME NEW c, NEW d \in DecoderState, NEW line \in Seq(Byte)
    PROVE  LET e == Emit(c, d, line) IN
           /\ e \in DecoderState
           /\ e.headers = d.headers /\ e.buffer = d.buffer /\ e.size = d.size
           /\ e.terminal = d.terminal /\ e.line = d.line
           /\ d.bad \/ Normalized(c, line) = <<>> => e = d
           /\ ~d.bad /\ Normalized(c, line) # <<>> /\ Refused(c, line) => e.bad /\ e.lines = d.lines
           /\ ~d.bad /\ Normalized(c, line) # <<>> /\ ~Refused(c, line) =>
                 ~e.bad /\ e.lines = Append(d.lines, StripCR(line))
<1>1. StripCR(line) \in Seq(Byte)
  BY StripCRType
<1> DEFINE text == StripCR(line)
           empty == d.bad \/ Normalized(c, line) = <<>>
           refused == Refused(c, line)
<1>2. Append(d.lines, text) \in Seq(Seq(Byte))
  BY <1>1 DEF DecoderState
<1>3. Emit(c, d, line) = IF empty THEN d
                         ELSE IF refused THEN [d EXCEPT !.bad = TRUE]
                         ELSE [d EXCEPT !.lines = Append(d.lines, text)]
  BY DEF Emit, DecoderState
<1>4. d.bad \in BOOLEAN
  BY DEF DecoderState
<1> HIDE DEF text
<1>5. CASE empty
  BY <1>3, <1>5
<1>6. CASE ~empty /\ refused
  BY <1>3, <1>6 DEF DecoderState
<1>7. CASE ~empty /\ ~refused
  <2>1. Emit(c, d, line) = [d EXCEPT !.lines = Append(d.lines, text)]
    BY <1>3, <1>7
  <2> QED
    BY <1>2, <1>4, <1>7, <2>1 DEF DecoderState, text
<1> QED
  BY <1>5, <1>6, <1>7

\* A byte changes the line that is not over, and at its end the lines and whether one was
\* refused, and nothing else.
LEMMA TakeByteType ==
    ASSUME NEW c, NEW d \in DecoderState, NEW b \in Byte
    PROVE  LET e == TakeByte(c, d, b) IN
           /\ e \in DecoderState
           /\ e.headers = d.headers /\ e.buffer = d.buffer /\ e.size = d.size
           /\ e.terminal = d.terminal
           /\ e.line = IF b = LF THEN <<>> ELSE Append(d.line, b)
           /\ e.bad = IF b = LF THEN Emit(c, d, d.line).bad ELSE d.bad
           /\ e.lines = IF b = LF THEN Emit(c, d, d.line).lines ELSE d.lines
<1>1. d.line \in Seq(Byte) /\ Append(d.line, b) \in Seq(Byte) /\ <<>> \in Seq(Byte)
  BY DEF DecoderState
<1>2. CASE b = LF
  <2> DEFINE m == Emit(c, d, d.line)
  <2>1. /\ m \in DecoderState /\ m.headers = d.headers /\ m.buffer = d.buffer /\ m.size = d.size
        /\ m.terminal = d.terminal
    <3> DEFINE line == d.line
    <3>1. line \in Seq(Byte)
      BY <1>1
    <3> HIDE DEF line
    <3>2. LET e == Emit(c, d, line) IN
          /\ e \in DecoderState /\ e.headers = d.headers /\ e.buffer = d.buffer /\ e.size = d.size
          /\ e.terminal = d.terminal
      BY <3>1, EmitType
    <3> QED
      BY <3>2 DEF line
  <2>2. TakeByte(c, d, b) = [m EXCEPT !.line = <<>>]
    BY <1>2 DEF TakeByte
  <2> HIDE DEF m
  <2>3. LET e == [m EXCEPT !.line = <<>>] IN
        /\ e \in DecoderState
        /\ e.headers = m.headers /\ e.buffer = m.buffer /\ e.size = m.size
        /\ e.terminal = m.terminal /\ e.line = <<>> /\ e.bad = m.bad /\ e.lines = m.lines
    BY <1>1, <2>1 DEF DecoderState
  <2> QED
    BY <1>2, <2>1, <2>2, <2>3 DEF m
<1>3. CASE b # LF
  <2>1. TakeByte(c, d, b) = [d EXCEPT !.line = Append(d.line, b)]
    BY <1>3 DEF TakeByte, DecoderState
  <2> QED
    BY <1>1, <1>3, <2>1 DEF DecoderState
<1> QED
  BY <1>2, <1>3

-----------------------------------------------------------------------------
(* The line that is not over.                                              *)

\* The line that is not over after n bytes begins behind byte s.
IsStart(body, n, s) == /\ s \in 0..n /\ (s = 0 \/ body[s] = LF)
                       /\ \A i \in (s + 1)..n : body[i] # LF

\* There is such a byte, and LineStart is one ...
LEMMA StartIs ==
    ASSUME NEW body, NEW n \in Nat
    PROVE  IsStart(body, n, LineStart(body, n))
<1> DEFINE A == {m \in Nat : \E s \in 0..m : IsStart(body, m, s)}
<1>1. 0 \in A
  BY DEF IsStart
<1>2. ASSUME NEW m \in Nat, m \in A PROVE m + 1 \in A
  <2>1. PICK s \in 0..m : IsStart(body, m, s)
    BY <1>2
  <2>2. CASE body[m + 1] = LF
    <3>1. IsStart(body, m + 1, m + 1) /\ m + 1 \in 0..(m + 1)
      BY <2>2 DEF IsStart
    <3> QED
      BY <3>1
  <2>3. CASE body[m + 1] # LF
    <3>1. s \in 0..(m + 1)
      BY <2>1
    <3>2. ASSUME NEW i \in (s + 1)..(m + 1) PROVE body[i] # LF
      <4>1. i = m + 1 \/ i \in (s + 1)..m
        BY <2>1
      <4> QED
        BY <4>1, <2>1, <2>3 DEF IsStart
    <3>3. IsStart(body, m + 1, s)
      BY <2>1, <3>1, <3>2 DEF IsStart
    <3> QED
      BY <3>1, <3>3
  <2> QED
    BY <2>2, <2>3
<1> HIDE DEF A
<1>3. n \in A
  BY <1>1, <1>2, SetInduction
<1>4. \E s \in 0..n : IsStart(body, n, s)
  BY <1>3 DEF A
<1> QED
  BY <1>4 DEF LineStart, IsStart

\* ... and there is no other.
LEMMA StartIsUnique ==
    ASSUME NEW body, NEW n \in Nat, NEW s, IsStart(body, n, s)
    PROVE  LineStart(body, n) = s
<1> DEFINE t == LineStart(body, n)
<1>1. IsStart(body, n, t)
  BY StartIs
<1> HIDE DEF t
<1>2. ~(s < t)
  <2> SUFFICES ASSUME s < t PROVE FALSE
    OBVIOUS
  <2>1. t \in (s + 1)..n /\ t # 0
    BY <1>1 DEF IsStart
  <2> QED
    BY <1>1, <2>1 DEF IsStart
<1>3. ~(t < s)
  <2> SUFFICES ASSUME t < s PROVE FALSE
    OBVIOUS
  <2>1. s \in (t + 1)..n /\ s # 0
    BY <1>1 DEF IsStart
  <2> QED
    BY <1>1, <2>1 DEF IsStart
<1> QED
  BY <1>1, <1>2, <1>3 DEF IsStart, t

\* What a byte makes of the line: nothing of it is left, or it is longer by the byte.
LEMMA LineAtIs ==
    ASSUME NEW body \in Seq(Byte)
    PROVE  /\ LineAt(body, 0) = <<>>
           /\ \A n \in 0..Len(body) : LineAt(body, n) \in Seq(Byte)
           /\ \A n \in 0..(Len(body) - 1) :
                 LineAt(body, n + 1) =
                     IF body[n + 1] = LF THEN <<>> ELSE Append(LineAt(body, n), body[n + 1])
<1>1. LineAt(body, 0) = <<>>
  <2>1. LineStart(body, 0) = 0
    BY StartIs DEF IsStart
  <2> QED
    BY <2>1 DEF LineAt
<1>2. ASSUME NEW n \in 0..Len(body) PROVE LineAt(body, n) \in Seq(Byte)
  <2>1. LineStart(body, n) \in 0..n
    BY StartIs DEF IsStart
  <2> QED
    BY <2>1 DEF LineAt
<1>3. ASSUME NEW n \in 0..(Len(body) - 1)
      PROVE  LineAt(body, n + 1) =
                IF body[n + 1] = LF THEN <<>> ELSE Append(LineAt(body, n), body[n + 1])
  <2> DEFINE s == LineStart(body, n)
  <2>1. IsStart(body, n, s) /\ n \in Nat /\ n + 1 \in Nat
    BY StartIs
  <2> HIDE DEF s
  <2>2. CASE body[n + 1] = LF
    <3>1. IsStart(body, n + 1, n + 1)
      BY <2>1, <2>2 DEF IsStart
    <3>2. LineStart(body, n + 1) = n + 1
      BY <2>1, <3>1, StartIsUnique
    <3> QED
      BY <2>2, <3>2 DEF LineAt
  <2>3. CASE body[n + 1] # LF
    <3>1. ASSUME NEW i \in (s + 1)..(n + 1) PROVE body[i] # LF
      <4>1. i = n + 1 \/ i \in (s + 1)..n
        BY <2>1 DEF IsStart
      <4> QED
        BY <4>1, <2>1, <2>3 DEF IsStart
    <3>2. IsStart(body, n + 1, s)
      BY <2>1, <3>1 DEF IsStart
    <3>3. LineStart(body, n + 1) = s
      BY <2>1, <3>2, StartIsUnique
    <3>4. LineAt(body, n + 1) = SubSeq(body, s + 1, n + 1)
          /\ LineAt(body, n) = SubSeq(body, s + 1, n)
      BY <3>3 DEF LineAt, s
    <3>5. SubSeq(body, s + 1, n + 1) = Append(SubSeq(body, s + 1, n), body[n + 1])
      <4>1. s \in 0..n /\ n \in 0..(Len(body) - 1) /\ Len(body) \in Nat
        BY <2>1 DEF IsStart
      <4> DEFINE x == SubSeq(body, s + 1, n)
                 y == SubSeq(body, s + 1, n + 1)
      <4>2. x \in Seq(Byte) /\ Len(x) = n - s /\ \A i \in 1..(n - s) : x[i] = body[s + i]
        BY <4>1
      <4>3. y \in Seq(Byte) /\ Len(y) = n - s + 1 /\ \A i \in 1..(n - s + 1) : y[i] = body[s + i]
        BY <4>1
      <4>4. body[n + 1] \in Byte
        BY <4>1
      <4> DEFINE z == Append(x, body[n + 1])
      <4>5. z \in Seq(Byte) /\ Len(z) = n - s + 1
        BY <4>2, <4>4
      <4>6. \A i \in 1..(n - s) : z[i] = x[i]
        BY <4>1, <4>2
      <4>7. z[n - s + 1] = body[n + 1]
        BY <4>2
      <4> HIDE DEF x, y, z
      <4>8. \A i \in 1..(n - s + 1) : z[i] = y[i]
        <5>1. ASSUME NEW i \in 1..(n - s + 1) PROVE z[i] = y[i]
          <6>1. i \in 1..(n - s) \/ i = n - s + 1
            BY <4>1
          <6>2. s + (n - s + 1) = n + 1
            BY <4>1
          <6> QED
            BY <6>1, <6>2, <4>1, <4>2, <4>3, <4>6, <4>7
        <5> QED
          BY <5>1
      <4>9. z = y
        BY <4>3, <4>5, <4>8
      <4> QED
        BY <4>9 DEF x, y, z
    <3> QED
      BY <2>3, <3>4, <3>5
  <2> QED
    BY <2>2, <2>3
<1> QED
  BY <1>1, <1>2, <1>3

\* One byte more of the body ends one line more, or none.
LEMMA LinesStep ==
    ASSUME NEW c, c.body \in Seq(Byte)
    PROVE  /\ Lines(c, 0) = {}
           /\ \A n \in 0..(Len(c.body) - 1) :
                Lines(c, n + 1) =
                    IF c.body[n + 1] = LF /\ Normalized(c, LineAt(c.body, n)) # <<>>
                    THEN Lines(c, n) \cup {n + 1} ELSE Lines(c, n)
<1>1. Lines(c, 0) = {}
  BY DEF Lines
<1>2. ASSUME NEW n \in 0..(Len(c.body) - 1)
      PROVE  Lines(c, n + 1) =
                IF c.body[n + 1] = LF /\ Normalized(c, LineAt(c.body, n)) # <<>>
                THEN Lines(c, n) \cup {n + 1} ELSE Lines(c, n)
  <2> DEFINE Ends(p) == c.body[p] = LF /\ Normalized(c, LineAt(c.body, p - 1)) # <<>>
  <2>1. Lines(c, n + 1) = {p \in 1..(n + 1) : Ends(p)} /\ Lines(c, n) = {p \in 1..n : Ends(p)}
    BY DEF Lines
  <2>2. Ends(n + 1) <=> c.body[n + 1] = LF /\ Normalized(c, LineAt(c.body, n)) # <<>>
    <3>1. (n + 1) - 1 = n
      OBVIOUS
    <3> QED
      BY <3>1
  <2>3. 1..(n + 1) = 1..n \cup {n + 1} /\ n + 1 \notin 1..n
    OBVIOUS
  <2> HIDE DEF Ends
  <2> QED
    BY <2>1, <2>2, <2>3
<1> QED
  BY <1>1, <1>2

\* A line that ends behind the others is reported behind them.
LEMMA ReportsMore ==
    ASSUME NEW c, NEW lines \in Seq(Seq(Byte)), NEW n \in Nat, NEW ends \in SUBSET (1..n),
           Reports(c, lines, ends), NEW text \in Seq(Byte),
           text = StripCR(LineAt(c.body, n)), IsObject(text), Len(text) <= MaxLine
    PROVE  Reports(c, Append(lines, text), ends \cup {n + 1})
<1> DEFINE UpTo(s, p) == {q \in s : q <= p}
           more == ends \cup {n + 1}
<1>1. IsFiniteSet(ends)
  <2>1. IsFiniteSet(1..n)
    BY FS_Interval
  <2> QED
    BY <2>1, FS_Subset
<1>2. n + 1 \notin ends
  OBVIOUS
<1>3. Cardinality(ends) \in Nat /\ Cardinality(more) = Cardinality(ends) + 1
      /\ Len(lines) = Cardinality(ends)
  BY <1>1, <1>2, FS_CardinalityType, FS_AddElement DEF Reports
<1>4. Len(Append(lines, text)) = Cardinality(more)
  BY <1>3
<1>5. ASSUME NEW p \in more
      PROVE  LET t == StripCR(LineAt(c.body, p - 1)) IN
             /\ IsObject(t) /\ Len(t) <= MaxLine
             /\ Append(lines, text)[Cardinality(UpTo(more, p))] = t
  <2>1. CASE p = n + 1
    <3>1. p - 1 = n
      BY <2>1
    <3>2. UpTo(more, p) = more
      <4>1. \A q \in more : q <= n + 1
        OBVIOUS
      <4> HIDE DEF more
      <4> QED
        BY <2>1, <4>1
    <3>3. Append(lines, text)[Len(lines) + 1] = text
      OBVIOUS
    <3> QED
      BY <3>1, <3>2, <3>3, <1>3
  <2>2. CASE p # n + 1
    <3>1. p \in ends
      BY <2>2
    <3>2. UpTo(more, p) = UpTo(ends, p)
      BY <3>1
    <3> DEFINE k == Cardinality(UpTo(ends, p))
    <3>3. IsFiniteSet(UpTo(ends, p)) /\ k <= Cardinality(ends)
      BY <1>1, FS_Subset
    <3>4. k \in Nat /\ k # 0
      BY <3>1, <3>3, FS_CardinalityType, FS_EmptySet
    <3>5. LET t == StripCR(LineAt(c.body, p - 1)) IN
          IsObject(t) /\ Len(t) <= MaxLine /\ lines[k] = t
      BY <3>1 DEF Reports
    <3> HIDE DEF k
    <3>6. Append(lines, text)[k] = lines[k]
      BY <3>3, <3>4, <1>3
    <3> QED
      BY <3>2, <3>5, <3>6 DEF k
  <2> QED
    BY <2>1, <2>2
<1> QED
  BY <1>4, <1>5 DEF Reports

\* Of the body n bytes were taken: the complete lines in them were reported, and the line
\* that is not over is kept; or a line was refused, and until then it was so.
LinesOK(c, d, n) ==
    /\ d \in DecoderState
    /\ d.line = LineAt(c.body, n)
    /\ ~d.bad => Reports(c, d.lines, Lines(c, n))
    /\ d.bad => Unacceptable(c) /\ \E m \in 0..n : Reports(c, d.lines, Lines(c, m))

\* Two decoders that differ in nothing but their lines and whether one was refused.
SameFrame(d, e) ==
    e.headers = d.headers /\ e.buffer = d.buffer /\ e.size = d.size /\ e.terminal = d.terminal

\* The next byte of the body keeps the lines as they have to be.
LEMMA TakeByteOK ==
    ASSUME NEW c, c.body \in Seq(Byte), MaxLine \in Nat,
           NEW n \in 0..(Len(c.body) - 1), NEW d, LinesOK(c, d, n)
    PROVE  /\ LinesOK(c, TakeByte(c, d, c.body[n + 1]), n + 1)
           /\ SameFrame(d, TakeByte(c, d, c.body[n + 1]))
<1> DEFINE b == c.body[n + 1]
           e == TakeByte(c, d, b)
           line == LineAt(c.body, n)
           m == Emit(c, d, line)
<1>1. n \in 0..Len(c.body) /\ n + 1 \in 1..Len(c.body) /\ b \in Byte /\ n \in Nat
  OBVIOUS
<1>2. d \in DecoderState /\ d.line = line /\ line \in Seq(Byte) /\ d.bad \in BOOLEAN
      /\ d.lines \in Seq(Seq(Byte))
  BY <1>1, LineAtIs DEF LinesOK, DecoderState
<1>3. /\ e \in DecoderState /\ SameFrame(d, e)
      /\ e.line = IF b = LF THEN <<>> ELSE Append(line, b)
      /\ e.bad = IF b = LF THEN m.bad ELSE d.bad
      /\ e.lines = IF b = LF THEN m.lines ELSE d.lines
  <2> DEFINE k == Emit(c, d, d.line)
  <2>1. /\ e \in DecoderState
        /\ e.headers = d.headers /\ e.buffer = d.buffer /\ e.size = d.size
        /\ e.terminal = d.terminal
        /\ e.line = IF b = LF THEN <<>> ELSE Append(d.line, b)
        /\ e.bad = IF b = LF THEN k.bad ELSE d.bad
        /\ e.lines = IF b = LF THEN k.lines ELSE d.lines
    <3> HIDE DEF b
    <3> QED
      BY <1>1, <1>2, TakeByteType
  <2>2. k = m
    BY <1>2
  <2> HIDE DEF e, b, k, m
  <2> QED
    BY <1>2, <2>1, <2>2 DEF SameFrame
<1>4. e.line = LineAt(c.body, n + 1)
  BY <1>3, LineAtIs
<1>5. Lines(c, n + 1) =
         IF b = LF /\ Normalized(c, line) # <<>> THEN Lines(c, n) \cup {n + 1} ELSE Lines(c, n)
  BY LinesStep
<1> DEFINE Told(x, k) == Reports(c, x.lines, Lines(c, k))
           Until(x, k) == Unacceptable(c) /\ \E i \in 0..k : Told(x, i)
<1>6. (~d.bad => Told(d, n)) /\ (d.bad => Until(d, n))
  BY DEF LinesOK
<1>7. /\ d.bad \/ Normalized(c, line) = <<>> => m = d
      /\ ~d.bad /\ Normalized(c, line) # <<>> /\ Refused(c, line) => m.bad /\ m.lines = d.lines
      /\ ~d.bad /\ Normalized(c, line) # <<>> /\ ~Refused(c, line) =>
            ~m.bad /\ m.lines = Append(d.lines, StripCR(line))
  <2> HIDE DEF line
  <2>1. d \in DecoderState /\ line \in Seq(Byte)
    BY <1>2
  <2> QED
    BY <2>1, EmitType
<1> HIDE DEF b, e, m, line
<1>8. CASE d.bad
  <2>1. e.bad = d.bad /\ e.lines = d.lines
    BY <1>3, <1>7, <1>8
  <2>2. Until(e, n + 1)
    BY <1>1, <1>6, <1>8, <2>1
  <2> QED
    BY <1>3, <1>4, <1>8, <2>1, <2>2 DEF LinesOK, e, b
<1>9. CASE ~d.bad /\ ~(b = LF /\ Normalized(c, line) # <<>>)
  <2>1. e.bad = d.bad /\ e.lines = d.lines
    BY <1>3, <1>7, <1>9
  <2>2. Told(e, n + 1)
    BY <1>5, <1>6, <1>9, <2>1
  <2> QED
    BY <1>3, <1>4, <1>9, <2>1, <2>2 DEF LinesOK, e, b
<1>10. CASE ~d.bad /\ b = LF /\ Normalized(c, line) # <<>> /\ Refused(c, line)
  <2>1. e.bad /\ e.lines = d.lines
    BY <1>3, <1>7, <1>10
  <2>2. (n + 1) - 1 = n
    BY <1>1
  <2>3. n + 1 \in AllLines(c, Len(c.body))
    BY <1>1, <1>10, <2>2 DEF AllLines, Lines, b, line
  <2>4. Unacceptable(c)
    BY <1>10, <2>2, <2>3 DEF Unacceptable, line
  <2>5. Told(e, n) /\ n \in 0..(n + 1)
    BY <1>1, <1>6, <1>10, <2>1
  <2> QED
    BY <1>3, <1>4, <2>1, <2>4, <2>5 DEF LinesOK, e, b
<1>11. CASE ~d.bad /\ b = LF /\ Normalized(c, line) # <<>> /\ ~Refused(c, line)
  <2> DEFINE text == StripCR(line)
  <2>1. ~e.bad /\ e.lines = Append(d.lines, text)
    BY <1>3, <1>7, <1>11
  <2>2. text \in Seq(Byte) /\ Len(text) <= Len(Normalized(c, line))
        /\ Normalized(c, line) \in Seq(Byte)
    BY <1>2, StripCRType, NormalizedType
  <2>3. IsObject(text) /\ Len(Normalized(c, line)) <= MaxLine
    BY <1>11, <2>2 DEF Refused
  <2>4. Len(text) <= MaxLine
    BY <2>2, <2>3
  <2>5. Lines(c, n) \in SUBSET (1..n)
    BY DEF Lines
  <2>6. Reports(c, d.lines, Lines(c, n)) /\ text = StripCR(LineAt(c.body, n))
    BY <1>6, <1>11 DEF line
  <2> HIDE DEF text
  <2>7. Reports(c, Append(d.lines, text), Lines(c, n) \cup {n + 1})
    BY <1>1, <1>2, <2>2, <2>3, <2>4, <2>5, <2>6, ReportsMore
  <2>8. Told(e, n + 1)
    BY <1>5, <1>11, <2>1, <2>7
  <2> QED
    BY <1>3, <1>4, <2>1, <2>8 DEF LinesOK, e, b
<1> QED
  BY <1>8, <1>9, <1>10, <1>11, <1>2

\* However many bytes are taken at once, it is as if they came one by one.
LEMMA TakeBytesOK ==
    ASSUME NEW c, c.body \in Seq(Byte), MaxLine \in Nat,
           NEW n \in Nat, NEW bytes \in Seq(Byte), n + Len(bytes) <= Len(c.body),
           \A i \in 1..Len(bytes) : bytes[i] = c.body[n + i],
           NEW d, LinesOK(c, d, n)
    PROVE  /\ LinesOK(c, TakeBytes(c, d, bytes), n + Len(bytes))
           /\ SameFrame(d, TakeBytes(c, d, bytes))
<1>1. d \in DecoderState /\ Len(bytes) \in Nat /\ Len(c.body) \in Nat
  BY DEF LinesOK
<1>2. \A e \in DecoderState, b \in Byte : TakeByte(c, e, b) \in DecoderState
  BY TakeByteType
<1>3. PICK f \in [0..Len(bytes) -> DecoderState] : TakesBytes(f, c, d, bytes)
  <2> HIDE DEF DecoderState
  <2> QED
    BY <1>1, <1>2, TakeBytesIs
<1> DEFINE OK(i) == LinesOK(c, f[i], n + i) /\ SameFrame(d, f[i])
           A == {i \in Nat : i \in 0..Len(bytes) => OK(i)}
<1>4. 0 \in A
  BY <1>3 DEF SameFrame, TakesBytes
<1>5. ASSUME NEW i \in Nat, i \in A PROVE i + 1 \in A
  <2> SUFFICES ASSUME i + 1 \in 0..Len(bytes) PROVE OK(i + 1)
    OBVIOUS
  <2>1. i \in 0..Len(bytes) /\ i + 1 \in 1..Len(bytes) /\ (i + 1) - 1 = i
    BY <1>1
  <2>2. LinesOK(c, f[i], n + i) /\ SameFrame(d, f[i])
    BY <1>5, <2>1
  <2>3. n + i \in 0..(Len(c.body) - 1) /\ n + (i + 1) = (n + i) + 1
    <3> DEFINE size == Len(bytes)
               all == Len(c.body)
    <3>1. size \in Nat /\ all \in Nat /\ n + size <= all /\ i + 1 \in 0..size
      BY <1>1
    <3> HIDE DEF size, all
    <3>2. n + i \in 0..(all - 1) /\ n + (i + 1) = (n + i) + 1
      BY <3>1
    <3> QED
      BY <3>2 DEF all
  <2>4. f[i + 1] = TakeByte(c, f[i], c.body[(n + i) + 1])
    BY <1>3, <2>1, <2>3 DEF TakesBytes
  <2> DEFINE k == n + i
  <2>5. LinesOK(c, f[i + 1], k + 1) /\ SameFrame(f[i], f[i + 1])
    <3>1. k \in 0..(Len(c.body) - 1) /\ LinesOK(c, f[i], k)
          /\ f[i + 1] = TakeByte(c, f[i], c.body[k + 1])
      BY <2>2, <2>3, <2>4
    <3> HIDE DEF k
    <3> QED
      BY <3>1, TakeByteOK
  <2> QED
    BY <2>2, <2>3, <2>5 DEF SameFrame
<1> HIDE DEF A
<1>6. Nat \subseteq A
  BY <1>4, <1>5, SetInduction
<1>7. OK(Len(bytes))
  BY <1>1, <1>6 DEF A
<1> QED
  BY <1>3, <1>7 DEF TakesBytes

\* A rest of n bytes is refused for a reason: there is a line that no decoder has to accept,
\* or the bytes are divided between the carriage return and the line feed of a line of the
\* greatest length.
Excused(c, n) == Unacceptable(c) \/ (n \in 1..Len(c.body) /\ SplitAtLimit(c, n))

\* A line that is too long remains so until its line feed comes, or the end of the body.
LEMMA LongRest ==
    ASSUME NEW c, c.body \in Seq(Byte), MaxLine \in Nat, NEW n \in 0..Len(c.body),
           Len(LineAt(c.body, n)) > MaxLine
    PROVE  Excused(c, n)
<1> DEFINE line(k) == LineAt(c.body, k)
           Long(k) == Len(line(k)) > MaxLine /\ (k > n => Len(line(k)) > MaxLine + 1)
           A == {i \in Nat : n + i \in 0..Len(c.body) => Excused(c, n) \/ Long(n + i)}
<1>1. n \in Nat /\ Len(c.body) \in Nat
  OBVIOUS
<1>2. \A k \in 0..Len(c.body) : line(k) \in Seq(Byte) /\ Len(line(k)) \in Nat
  BY LineAtIs
<1>3. 0 \in A
  BY <1>1
<1>4. ASSUME NEW k \in n..(Len(c.body) - 1), Long(k), c.body[k + 1] = LF
      PROVE  Excused(c, n)
  <2>1. k \in 0..Len(c.body) /\ k + 1 \in 1..Len(c.body) /\ (k + 1) - 1 = k
    BY <1>1
  <2>2. line(k) \in Seq(Byte) /\ Len(line(k)) \in Nat /\ Len(line(k)) > MaxLine
    BY <1>2, <1>4, <2>1
  <2>3. CASE Len(Normalized(c, line(k))) > MaxLine
    <3>1. Normalized(c, line(k)) # <<>> /\ Refused(c, line(k))
      BY <2>3 DEF Refused
    <3>2. k + 1 \in AllLines(c, Len(c.body))
      BY <1>4, <2>1, <3>1 DEF AllLines, Lines
    <3>3. Unacceptable(c)
      BY <2>1, <3>1, <3>2 DEF Unacceptable
    <3> QED
      BY <3>3 DEF Excused
  <2>4. CASE ~(Len(Normalized(c, line(k))) > MaxLine)
    <3> DEFINE l == line(k)
    <3>1. c.kind = "pull" /\ l[Len(l)] = CR /\ Len(l) = MaxLine + 1
      <4>1. l \in Seq(Byte) /\ Len(l) \in Nat /\ Len(l) > MaxLine /\ MaxLine \in Nat
            /\ ~(Len(Normalized(c, l)) > MaxLine)
        BY <2>2, <2>4
      <4> HIDE DEF l
      <4>2. c.kind = "pull" /\ l[Len(l)] = CR
        BY <4>1 DEF Normalized, StripCR
      <4>3. l # <<>>
        BY <4>1
      <4>4. Normalized(c, l) = SubSeq(l, 1, Len(l) - 1)
        BY <4>2, <4>3 DEF Normalized, StripCR
      <4> DEFINE m == Len(l) - 1
      <4>5. m \in 0..Len(l)
        BY <4>1
      <4>6. Len(SubSeq(l, 1, m)) = m
        <5> HIDE DEF m
        <5> QED
          BY <4>1, <4>5
      <4> QED
        BY <4>1, <4>2, <4>4, <4>6
    <3>2. k = n
      BY <1>1, <1>4, <3>1
    <3>3. n # 0
      BY <1>2, <2>2, <3>2, LineAtIs
    <3>4. l[Len(l)] = c.body[n]
      <4>1. n - 1 \in 0..(Len(c.body) - 1) /\ (n - 1) + 1 = n
        BY <1>1, <3>3
      <4>2. l = IF c.body[n] = LF THEN <<>> ELSE Append(line(n - 1), c.body[n])
        <5> DEFINE m == n - 1
        <5>1. m \in 0..(Len(c.body) - 1) /\ m + 1 = n
          BY <4>1
        <5> HIDE DEF m
        <5>2. LineAt(c.body, m + 1) =
                 IF c.body[m + 1] = LF THEN <<>> ELSE Append(LineAt(c.body, m), c.body[m + 1])
          BY <5>1, LineAtIs
        <5> QED
          BY <3>2, <5>1, <5>2 DEF m
      <4>3. l # <<>> /\ line(n - 1) \in Seq(Byte)
        BY <1>2, <2>2, <4>1
      <4>4. l = Append(line(n - 1), c.body[n])
        BY <4>2, <4>3
      <4> HIDE DEF l, line
      <4> QED
        BY <4>3, <4>4
    <3>5. SplitAtLimit(c, n) /\ n \in 1..Len(c.body)
      BY <1>1, <1>4, <3>1, <3>2, <3>3, <3>4 DEF SplitAtLimit
    <3> QED
      BY <3>5 DEF Excused
  <2> QED
    BY <2>3, <2>4
<1>5. ASSUME NEW i \in Nat, i \in A PROVE i + 1 \in A
  <2> SUFFICES ASSUME n + (i + 1) \in 0..Len(c.body), ~Excused(c, n) PROVE Long(n + (i + 1))
    OBVIOUS
  <2> DEFINE k == n + i
  <2>1. k \in n..(Len(c.body) - 1) /\ k \in 0..(Len(c.body) - 1) /\ n + (i + 1) = k + 1
        /\ k \in 0..Len(c.body) /\ k + 1 > n
    BY <1>1
  <2>2. Long(k)
    BY <1>5, <2>1
  <2> HIDE DEF k, A
  <2>3. c.body[k + 1] # LF
    <3> HIDE DEF Long
    <3> QED
      BY <1>4, <2>1, <2>2
  <2>4. line(k + 1) = Append(line(k), c.body[k + 1]) /\ line(k) \in Seq(Byte)
    BY <2>1, <2>3, LineAtIs
  <2>5. Len(line(k + 1)) = Len(line(k)) + 1 /\ Len(line(k)) \in Nat
    <3> HIDE DEF line
    <3> QED
      BY <2>4
  <2> HIDE DEF line
  <2> QED
    BY <2>1, <2>2, <2>5
<1>6. Nat \subseteq A
  <2> HIDE DEF A
  <2> QED
    BY <1>3, <1>5, SetInduction
<1>7. Excused(c, n) \/ Long(Len(c.body))
  <2> DEFINE i == Len(c.body) - n
  <2>1. i \in Nat /\ n + i = Len(c.body)
    BY <1>1
  <2>2. i \in A
    BY <1>6, <2>1
  <2> HIDE DEF i, Long
  <2> QED
    BY <1>1, <2>1, <2>2
<1> QED
  BY <1>7 DEF Excused, Unacceptable

\* Of the body n bytes were taken, as before, and now a rest may have been refused, too.
TakenOK(c, d, n) ==
    /\ d \in DecoderState
    /\ d.line = LineAt(c.body, n)
    /\ ~d.bad => Reports(c, d.lines, Lines(c, n))
    /\ d.bad => Excused(c, n) /\ \E m \in 0..n : Reports(c, d.lines, Lines(c, m))

\* Where nothing was refused the two are the same.
LEMMA TakenIsLines ==
    ASSUME NEW c, NEW d, NEW n, ~d.bad
    PROVE  TakenOK(c, d, n) <=> LinesOK(c, d, n)
  BY DEF TakenOK, LinesOK

\* So it is when a rest that is too long is refused, too.
LEMMA ConsumeLinesOK ==
    ASSUME NEW c, c.body \in Seq(Byte), MaxLine \in Nat,
           NEW n \in Nat, NEW bytes \in Seq(Byte), n + Len(bytes) <= Len(c.body),
           \A i \in 1..Len(bytes) : bytes[i] = c.body[n + i],
           NEW d, LinesOK(c, d, n)
    PROVE  /\ TakenOK(c, ConsumeLines(c, d, bytes), n + Len(bytes))
           /\ SameFrame(d, ConsumeLines(c, d, bytes))
<1> DEFINE after == TakeBytes(c, d, bytes)
           m == n + Len(bytes)
<1>1. LinesOK(c, after, m) /\ SameFrame(d, after)
  BY TakeBytesOK
<1>2. m \in 0..Len(c.body) /\ m \in Nat
  OBVIOUS
<1>3. CASE Len(after.line) > MaxLine
  <2> DEFINE e == [after EXCEPT !.bad = TRUE]
  <2>1. ConsumeLines(c, d, bytes) = e
    BY <1>3 DEF ConsumeLines
  <2> HIDE DEF after, m
  <2>2. /\ e \in DecoderState /\ SameFrame(d, e) /\ e.bad /\ e.lines = after.lines
        /\ e.line = after.line
    BY <1>1 DEF LinesOK, DecoderState, SameFrame
  <2>3. Excused(c, m)
    BY <1>1, <1>2, <1>3, LongRest DEF LinesOK
  <2>4. \E k \in 0..m : Reports(c, e.lines, Lines(c, k))
    <3>1. m \in 0..m
      BY <1>2
    <3> QED
      BY <1>1, <2>2, <3>1 DEF LinesOK
  <2>5. TakenOK(c, e, m)
    BY <1>1, <2>2, <2>3, <2>4 DEF TakenOK, LinesOK
  <2> QED
    BY <2>1, <2>2, <2>5 DEF m
<1>4. CASE ~(Len(after.line) > MaxLine)
  <2>1. ConsumeLines(c, d, bytes) = after
    BY <1>4 DEF ConsumeLines
  <2>2. TakenOK(c, after, m)
    <3> HIDE DEF after, m
    <3> QED
      BY <1>1 DEF TakenOK, LinesOK, Excused
  <2> QED
    BY <1>1, <2>1, <2>2
<1> QED
  BY <1>3, <1>4

\* What follows the last line feed is a line, too: when it was taken, and not refused,
\* everything was reported.
LEMMA TakeRestOK ==
    ASSUME NEW c, c.body \in Seq(Byte), MaxLine \in Nat,
           NEW n \in 0..Len(c.body), NEW d, LinesOK(c, d, n), ~d.bad
    PROVE  LET e == TakeRest(c, d) IN
           /\ e \in DecoderState /\ SameFrame(d, e)
           /\ ~e.bad => Reports(c, e.lines, AllLines(c, n))
           /\ e.bad => /\ Reports(c, e.lines, Lines(c, n))
                       /\ n = Len(c.body) => Unacceptable(c)
<1> DEFINE line == LineAt(c.body, n)
           m == Emit(c, d, line)
           e == TakeRest(c, d)
           more == {p \in {n + 1} : Normalized(c, line) # <<>>}
<1>1. n \in Nat /\ (n + 1) - 1 = n
  OBVIOUS
<1>2. d \in DecoderState /\ d.line = line /\ line \in Seq(Byte) /\ d.lines \in Seq(Seq(Byte))
      /\ Reports(c, d.lines, Lines(c, n))
  BY LineAtIs DEF LinesOK, DecoderState
<1>3. /\ m \in DecoderState /\ SameFrame(d, m)
      /\ Normalized(c, line) = <<>> => m = d
      /\ Normalized(c, line) # <<>> /\ Refused(c, line) => m.bad /\ m.lines = d.lines
      /\ Normalized(c, line) # <<>> /\ ~Refused(c, line) =>
            ~m.bad /\ m.lines = Append(d.lines, StripCR(line))
  <2> HIDE DEF line
  <2> QED
    BY <1>2, EmitType DEF SameFrame
<1>4. AllLines(c, n) = Lines(c, n) \cup more
  BY DEF AllLines
<1>5. Normalized(c, <<>>) = <<>>
  BY DEF Normalized, StripCR
<1>6. e = IF line = <<>> THEN d ELSE [m EXCEPT !.line = <<>>]
  BY <1>2 DEF TakeRest
<1> HIDE DEF line, m, e
<1>7. e \in DecoderState /\ SameFrame(d, e) /\ e.bad = m.bad /\ e.lines = m.lines
  <2>1. CASE line = <<>>
    BY <1>2, <1>3, <1>5, <1>6, <2>1 DEF SameFrame
  <2>2. CASE line # <<>>
    <3>1. e = [m EXCEPT !.line = <<>>] /\ <<>> \in Seq(Byte)
      BY <1>6, <2>2
    <3> QED
      BY <1>3, <3>1 DEF SameFrame, DecoderState
  <2> QED
    BY <2>1, <2>2
<1>8. CASE Normalized(c, line) = <<>>
  <2>1. more = {} /\ m = d
    BY <1>3, <1>8
  <2> QED
    BY <1>2, <1>4, <1>7, <2>1 DEF e
<1>9. CASE Normalized(c, line) # <<>> /\ Refused(c, line)
  <2>1. m.bad /\ m.lines = d.lines
    BY <1>3, <1>9
  <2>2. ASSUME n = Len(c.body) PROVE Unacceptable(c)
    <3>1. n + 1 \in AllLines(c, Len(c.body))
      BY <1>4, <1>9, <2>2
    <3> QED
      BY <1>1, <1>9, <3>1 DEF Unacceptable, line
  <2> QED
    BY <1>2, <1>7, <2>1, <2>2 DEF e
<1>10. CASE Normalized(c, line) # <<>> /\ ~Refused(c, line)
  <2> DEFINE text == StripCR(line)
  <2>1. ~m.bad /\ m.lines = Append(d.lines, text)
    BY <1>3, <1>10
  <2>2. text \in Seq(Byte) /\ Len(text) <= Len(Normalized(c, line))
        /\ Normalized(c, line) \in Seq(Byte)
    BY <1>2, StripCRType, NormalizedType
  <2>3. IsObject(text) /\ Len(Normalized(c, line)) <= MaxLine
    BY <1>10, <2>2 DEF Refused
  <2>4. Len(text) <= MaxLine
    BY <2>2, <2>3
  <2>5. Lines(c, n) \in SUBSET (1..n) /\ text = StripCR(LineAt(c.body, n))
    BY DEF Lines, line
  <2> HIDE DEF text
  <2>6. Reports(c, Append(d.lines, text), Lines(c, n) \cup {n + 1})
    BY <1>1, <1>2, <2>2, <2>3, <2>4, <2>5, ReportsMore
  <2>7. more = {n + 1}
    BY <1>10
  <2> QED
    BY <1>4, <1>7, <2>1, <2>6, <2>7 DEF e
<1> QED
  BY <1>8, <1>9, <1>10

-----------------------------------------------------------------------------
(* Bytes that have arrived.                                                *)

\* The bytes of a buffer are those of the response that follow the first s, up to the a-th.
IsPart(buffer, response, s, a) ==
    /\ s \in Nat /\ a \in Nat /\ s <= a
    /\ buffer \in Seq(Byte) /\ Len(buffer) = a - s
    /\ \A i \in 1..(a - s) : buffer[i] = response[s + i]

\* Without its first n bytes a buffer is the part of the response behind these.
LEMMA PartRest ==
    ASSUME NEW buffer, NEW response, NEW s, NEW a, IsPart(buffer, response, s, a),
           NEW n \in 0..(a - s)
    PROVE  IsPart(SubSeq(buffer, n + 1, Len(buffer)), response, s + n, a)
<1> DEFINE rest == SubSeq(buffer, n + 1, Len(buffer))
<1>1. s \in Nat /\ a \in Nat /\ s <= a /\ buffer \in Seq(Byte) /\ Len(buffer) = a - s
      /\ n \in Nat /\ n <= a - s
  BY DEF IsPart
<1>2. rest \in Seq(Byte) /\ Len(rest) = a - (s + n)
      /\ \A i \in 1..(a - (s + n)) : rest[i] = buffer[n + i]
  BY <1>1
<1>3. ASSUME NEW i \in 1..(a - (s + n)) PROVE rest[i] = response[(s + n) + i]
  <2>1. n + i \in 1..(a - s) /\ s + (n + i) = (s + n) + i
    BY <1>1
  <2> QED
    BY <1>2, <2>1 DEF IsPart
<1> QED
  BY <1>1, <1>2, <1>3 DEF IsPart

\* What is where in two sequences that are joined.
LEMMA Concatenation ==
    ASSUME NEW x \in Seq(Byte), NEW y \in Seq(Byte)
    PROVE  /\ x \o y \in Seq(Byte) /\ Len(x \o y) = Len(x) + Len(y)
           /\ \A i \in 1..(Len(x) + Len(y)) :
                 (x \o y)[i] = IF i <= Len(x) THEN x[i] ELSE y[i - Len(x)]
  OBVIOUS

\* A part of the response and the part that follows it are one part.
LEMMA PartAppend ==
    ASSUME NEW buffer, NEW segment, NEW response, NEW s, NEW a, NEW b,
           IsPart(buffer, response, s, a), IsPart(segment, response, a, b)
    PROVE  IsPart(buffer \o segment, response, s, b)
<1> DEFINE both == buffer \o segment
<1>1. /\ s \in Nat /\ a \in Nat /\ b \in Nat /\ s <= a /\ a <= b
      /\ buffer \in Seq(Byte) /\ segment \in Seq(Byte) /\ Len(buffer) = a - s
      /\ Len(segment) = b - a
  BY DEF IsPart
<1>2. /\ both \in Seq(Byte) /\ Len(both) = b - s
      /\ \A i \in 1..(b - s) : both[i] = IF i <= a - s THEN buffer[i] ELSE segment[i - (a - s)]
  <2>1. (a - s) + (b - a) = b - s
    BY <1>1
  <2>2. /\ both \in Seq(Byte) /\ Len(both) = Len(buffer) + Len(segment)
        /\ \A i \in 1..(Len(buffer) + Len(segment)) :
              both[i] = IF i <= Len(buffer) THEN buffer[i] ELSE segment[i - Len(buffer)]
    BY <1>1, Concatenation
  <2> HIDE DEF both
  <2> QED
    BY <1>1, <2>1, <2>2
<1>3. ASSUME NEW i \in 1..(b - s) PROVE both[i] = response[s + i]
  <2>1. CASE i <= a - s
    BY <1>1, <1>2, <2>1 DEF IsPart
  <2>2. CASE ~(i <= a - s)
    <3>1. i - (a - s) \in 1..(b - a) /\ a + (i - (a - s)) = s + i
      BY <1>1, <2>2
    <3> QED
      BY <1>2, <2>2, <3>1 DEF IsPart
  <2> QED
    BY <2>1, <2>2
<1> QED
  BY <1>1, <1>2, <1>3 DEF IsPart

-----------------------------------------------------------------------------
(* Chunks.                                                                 *)

\* A digit is read as what it was written for, and ends no line.
LEMMA DigitIs ==
    ASSUME NEW n \in 0..9
    PROVE  IsDigit(Digit[n]) /\ Size(Digit[n]) = n /\ Digit[n] # CR
<1>1. \A i, j \in 0..9 : Digit[i] = Digit[j] => i = j
  BY DEF Digit
<1>2. Digit[n] # CR
  <2>1. Digit[n] \in {"0", "1", "2", "3", "4", "5", "6", "7", "8", "9"}
    <3>1. n \in {0, 1, 2, 3, 4, 5, 6, 7, 8, 9}
      OBVIOUS
    <3> QED
      BY <3>1 DEF Digit
  <2>2. \A b \in {"0", "1", "2", "3", "4", "5", "6", "7", "8", "9"} : b # "CR"
    OBVIOUS
  <2> QED
    BY <2>1, <2>2 DEF CR
<1>3. Size(Digit[n]) = n
  BY <1>1 DEF Size
<1> QED
  BY <1>2, <1>3 DEF IsDigit

\* Where chunks begin.
LEMMA OffsetIs ==
    ASSUME NEW ends \in Seq(Nat), NEW length \in Nat, Divides(ends, length)
    PROVE  /\ Len(ends) \in Nat \ {0} /\ Before(ends, 1) = 0 /\ Offset(ends, 1) = 0
           /\ \A k \in 1..Len(ends) :
                /\ Before(ends, k) \in Nat /\ SizeOf(ends, k) \in 0..9 /\ Offset(ends, k) \in Nat
                /\ Before(ends, k) + SizeOf(ends, k) <= length
                /\ Offset(ends, k) = Before(ends, k) + 5 * (k - 1)
                /\ Offset(ends, k) + SizeOf(ends, k) + 5 <= length + 5 * Len(ends)
                /\ SizeOf(ends, k) = 0 <=> k = Len(ends)
                /\ k = Len(ends) => Before(ends, k) = length
                /\ k # Len(ends) => /\ k + 1 \in 1..Len(ends)
                                    /\ Before(ends, k + 1) = Before(ends, k) + SizeOf(ends, k)
                                    /\ Offset(ends, k + 1) = Offset(ends, k) + SizeOf(ends, k) + 5
                /\ \A j \in 1..(k - 1) : Offset(ends, j) + SizeOf(ends, j) + 5 <= Offset(ends, k)
<1>1. Len(ends) \in Nat \ {0} /\ ends[Len(ends)] = length
  BY DEF Divides
<1>2. ASSUME NEW k \in 1..Len(ends)
      PROVE  /\ ends[k] \in Nat /\ ends[k] <= length /\ SizeOf(ends, k) \in 0..9
             /\ SizeOf(ends, k) = 0 <=> k = Len(ends)
             /\ \A j \in 1..k : ends[j] <= ends[k]
  <2>1. Len(ends) \in 1..Len(ends) /\ k \in 1..Len(ends)
    BY <1>1
  <2> QED
    BY <1>1, <2>1 DEF Divides
<1>3. ASSUME NEW k \in 1..Len(ends)
      PROVE  Before(ends, k) \in Nat /\ Before(ends, k) + SizeOf(ends, k) = ends[k]
  <2>1. CASE k = 1
    BY <1>2, <2>1 DEF Before, SizeOf
  <2>2. CASE k # 1
    <3>1. k - 1 \in 1..Len(ends)
      BY <1>1, <2>2
    <3>2. ends[k - 1] \in Nat
      BY <1>2, <3>1
    <3> QED
      BY <1>2, <2>2, <3>2 DEF Before, SizeOf
  <2> QED
    BY <2>1, <2>2
<1>4. ASSUME NEW k \in 1..Len(ends), k # Len(ends)
      PROVE  k + 1 \in 1..Len(ends) /\ Before(ends, k + 1) = ends[k]
  BY <1>1, <1>4 DEF Before
<1>5. ASSUME NEW k \in 1..Len(ends), NEW j \in 1..(k - 1)
      PROVE  ends[j] <= Before(ends, k) /\ j \in 1..Len(ends)
  <2>1. k # 1 /\ k - 1 \in 1..Len(ends) /\ j \in 1..(k - 1)
    BY <1>1
  <2>2. ends[j] <= ends[k - 1]
    BY <1>2, <2>1
  <2> QED
    BY <1>1, <2>1, <2>2 DEF Before
<1>6. Before(ends, 1) = 0 /\ Offset(ends, 1) = 0
  BY DEF Before, Offset
<1>7. ASSUME NEW k \in 1..Len(ends)
      PROVE  /\ Before(ends, k) \in Nat /\ SizeOf(ends, k) \in 0..9 /\ Offset(ends, k) \in Nat
             /\ Before(ends, k) + SizeOf(ends, k) <= length
             /\ Offset(ends, k) = Before(ends, k) + 5 * (k - 1)
             /\ Offset(ends, k) + SizeOf(ends, k) + 5 <= length + 5 * Len(ends)
             /\ SizeOf(ends, k) = 0 <=> k = Len(ends)
             /\ k = Len(ends) => Before(ends, k) = length
  <2>1. Before(ends, k) \in Nat /\ SizeOf(ends, k) \in 0..9
        /\ Before(ends, k) + SizeOf(ends, k) = ends[k]
        /\ ends[k] <= length /\ ends[k] \in Nat /\ (SizeOf(ends, k) = 0 <=> k = Len(ends))
    BY <1>2, <1>3
  <2>2. Offset(ends, k) = Before(ends, k) + 5 * (k - 1)
    BY DEF Offset
  <2>3. k = Len(ends) => Before(ends, k) = length
    BY <1>1, <2>1
  <2>4. ASSUME NEW b \in Nat, NEW s \in 0..9, NEW n \in Nat, NEW o, b + s <= length,
               o = b + 5 * (k - 1), k <= n
        PROVE  o \in Nat /\ o + s + 5 <= length + 5 * n
    BY <2>4
  <2>5. k <= Len(ends) /\ Len(ends) \in Nat
    BY <1>1
  <2>6. Before(ends, k) + SizeOf(ends, k) <= length
    BY <2>1
  <2>7. Offset(ends, k) \in Nat /\ Offset(ends, k) + SizeOf(ends, k) + 5 <= length + 5 * Len(ends)
    BY <2>1, <2>2, <2>4, <2>5, <2>6
  <2> QED
    BY <2>1, <2>2, <2>3, <2>6, <2>7
<1>8. ASSUME NEW k \in 1..Len(ends), k # Len(ends)
      PROVE  /\ k + 1 \in 1..Len(ends)
             /\ Before(ends, k + 1) = Before(ends, k) + SizeOf(ends, k)
             /\ Offset(ends, k + 1) = Offset(ends, k) + SizeOf(ends, k) + 5
  <2>1. /\ k + 1 \in 1..Len(ends) /\ Before(ends, k + 1) = ends[k]
        /\ Before(ends, k) + SizeOf(ends, k) = ends[k]
        /\ Before(ends, k) \in Nat /\ SizeOf(ends, k) \in 0..9
    BY <1>3, <1>4, <1>7, <1>8
  <2>2. Offset(ends, k) = Before(ends, k) + 5 * (k - 1)
        /\ Offset(ends, k + 1) = Before(ends, k + 1) + 5 * ((k + 1) - 1)
    BY DEF Offset
  <2>3. ASSUME NEW b \in Nat, NEW s \in 0..9, NEW o, NEW next, NEW q, q = b + s,
               o = b + 5 * (k - 1), next = q + 5 * ((k + 1) - 1)
        PROVE  next = o + s + 5
    BY <2>3
  <2>4. Before(ends, k + 1) = Before(ends, k) + SizeOf(ends, k)
    BY <2>1
  <2>5. Offset(ends, k + 1) = Offset(ends, k) + SizeOf(ends, k) + 5
    BY <2>1, <2>2, <2>3, <2>4
  <2> QED
    BY <2>1, <2>4, <2>5
<1>9. ASSUME NEW k \in 1..Len(ends), NEW j \in 1..(k - 1)
      PROVE  Offset(ends, j) + SizeOf(ends, j) + 5 <= Offset(ends, k)
  <2>1. ends[j] <= Before(ends, k) /\ j \in 1..Len(ends)
    BY <1>5
  <2>2. /\ Before(ends, j) \in Nat /\ SizeOf(ends, j) \in 0..9
        /\ Before(ends, j) + SizeOf(ends, j) = ends[j] /\ Before(ends, k) \in Nat
    BY <1>3, <1>7, <2>1
  <2>3. Offset(ends, k) = Before(ends, k) + 5 * (k - 1)
        /\ Offset(ends, j) = Before(ends, j) + 5 * (j - 1)
    BY DEF Offset
  <2>4. j <= k - 1 /\ ends[j] \in Nat
    BY <1>2, <2>1
  <2>5. ASSUME NEW b \in Nat, NEW s \in 0..9, NEW q \in Nat, b + s <= q, NEW o, NEW next,
               o = b + 5 * (j - 1), next = q + 5 * (k - 1)
        PROVE  o + s + 5 <= next
    BY <2>4, <2>5
  <2> QED
    BY <2>1, <2>2, <2>3, <2>4, <2>5
<1> QED
  BY <1>1, <1>6, <1>7, <1>8, <1>9

\* What is where in a chunk.
LEMMA ChunkIs ==
    ASSUME NEW body \in Seq(Byte), NEW ends \in Seq(Nat), Divides(ends, Len(body)),
           NEW k \in 1..Len(ends), NEW i \in 1..(SizeOf(ends, k) + 5)
    PROVE  /\ Offset(ends, k) + i \in 1..(Len(body) + 5 * Len(ends))
           /\ Chunked(body, ends)[Offset(ends, k) + i] =
                IF i = 1 THEN Digit[SizeOf(ends, k)]
                ELSE IF i = 2 \/ i = SizeOf(ends, k) + 4 THEN CR
                ELSE IF i = 3 \/ i = SizeOf(ends, k) + 5 THEN LF
                ELSE body[Before(ends, k) + i - 3]
<1>1. Len(body) \in Nat
  OBVIOUS
<1>2. \A j \in 1..Len(ends) :
         /\ SizeOf(ends, j) \in 0..9 /\ Offset(ends, j) \in Nat
         /\ Offset(ends, j) + SizeOf(ends, j) + 5 <= Len(body) + 5 * Len(ends)
         /\ \A l \in 1..(j - 1) : Offset(ends, l) + SizeOf(ends, l) + 5 <= Offset(ends, j)
  BY <1>1, OffsetIs
<1> DEFINE p == Offset(ends, k) + i
           In(j) == Offset(ends, j) < p /\ p <= Offset(ends, j) + SizeOf(ends, j) + 5
<1>3. Len(ends) \in Nat
  OBVIOUS
<1>4. p \in 1..(Len(body) + 5 * Len(ends)) /\ In(k)
  <2>1. SizeOf(ends, k) \in 0..9 /\ Offset(ends, k) \in Nat
        /\ Offset(ends, k) + SizeOf(ends, k) + 5 <= Len(body) + 5 * Len(ends)
    BY <1>2
  <2>2. ASSUME NEW o \in Nat, NEW s \in 0..9, NEW n \in Nat, NEW j \in 1..(s + 5), o + s + 5 <= n
        PROVE  o + j \in 1..n /\ o < o + j /\ o + j <= o + s + 5
    BY <2>2
  <2>3. Len(body) + 5 * Len(ends) \in Nat
    BY <1>1, <1>3
  <2> DEFINE n == Len(body) + 5 * Len(ends)
             o == Offset(ends, k)
             s == SizeOf(ends, k)
  <2>4. o \in Nat /\ s \in 0..9 /\ n \in Nat /\ i \in 1..(s + 5) /\ o + s + 5 <= n
    BY <2>1, <2>3
  <2>5. o + i \in 1..n /\ o < o + i /\ o + i <= o + s + 5
    <3> HIDE DEF n, o, s
    <3> QED
      BY <2>2, <2>4
  <2> QED
    BY <2>5
<1>12. p \in Nat
  BY <1>2
<1>13. ASSUME NEW x \in Nat, NEW y \in 0..9, NEW z \in Nat, NEW q \in Nat,
              x + y + 5 <= z, q <= x + y + 5, z < q
       PROVE  FALSE
  BY <1>13
<1>5. ASSUME NEW j \in 1..Len(ends), In(j) PROVE j = k
  <2>1. CASE j < k
    <3>1. j \in 1..(k - 1)
      BY <2>1, <1>3
    <3>2. Offset(ends, j) + SizeOf(ends, j) + 5 <= Offset(ends, k)
      BY <3>1, <1>2
    <3>3. Offset(ends, j) \in Nat /\ SizeOf(ends, j) \in 0..9 /\ Offset(ends, k) \in Nat
      BY <1>2
    <3>4. p <= Offset(ends, j) + SizeOf(ends, j) + 5 /\ Offset(ends, k) < p
      BY <1>4, <1>5
    <3> QED
      BY <3>2, <3>3, <3>4, <1>12, <1>13
  <2>2. CASE k < j
    <3>1. k \in 1..(j - 1)
      BY <2>2, <1>3
    <3>2. Offset(ends, k) + SizeOf(ends, k) + 5 <= Offset(ends, j)
      BY <3>1, <1>2
    <3>3. Offset(ends, j) \in Nat /\ SizeOf(ends, k) \in 0..9 /\ Offset(ends, k) \in Nat
      BY <1>2
    <3>4. p <= Offset(ends, k) + SizeOf(ends, k) + 5 /\ Offset(ends, j) < p
      BY <1>4, <1>5
    <3> QED
      BY <3>2, <3>3, <3>4, <1>12, <1>13
  <2> QED
    BY <2>1, <2>2, <1>3
<1>6. (CHOOSE j \in 1..Len(ends) : In(j)) = k
  BY <1>4, <1>5
<1>7. p - Offset(ends, k) = i
  BY <1>2
<1> DEFINE At(j, n) == CASE n = 1 -> Digit[SizeOf(ends, j)]
                         [] n \in {2, SizeOf(ends, j) + 4} -> CR
                         [] n \in {3, SizeOf(ends, j) + 5} -> LF
                         [] OTHER -> body[Before(ends, j) + n - 3]
<1>8. Chunked(body, ends)[p] = At(CHOOSE j \in 1..Len(ends) : In(j),
                                  p - Offset(ends, CHOOSE j \in 1..Len(ends) : In(j)))
  BY <1>4 DEF Chunked
<1>9. Chunked(body, ends)[p] = At(k, i)
  <2> HIDE DEF At, In, p
  <2> QED
    BY <1>6, <1>7, <1>8
<1>10. SizeOf(ends, k) \in 0..9
  BY <1>2
<1>11. At(k, i) = IF i = 1 THEN Digit[SizeOf(ends, k)]
                  ELSE IF i = 2 \/ i = SizeOf(ends, k) + 4 THEN CR
                  ELSE IF i = 3 \/ i = SizeOf(ends, k) + 5 THEN LF
                  ELSE body[Before(ends, k) + i - 3]
  <2>1. ASSUME NEW s \in 0..9
        PROVE  s + 4 # 1 /\ s + 5 # 1 /\ s + 5 # 2 /\ s + 4 # 3 /\ s + 4 # s + 5
    OBVIOUS
  <2>2. /\ SizeOf(ends, k) + 4 \notin {1, 3} /\ SizeOf(ends, k) + 5 \notin {1, 2}
        /\ SizeOf(ends, k) + 4 # SizeOf(ends, k) + 5
    BY <1>10, <2>1
  <2> QED
    BY <2>2
<1> QED
  BY <1>4, <1>9, <1>11

\* Every byte of a chunked body belongs to a chunk, and is a byte.
LEMMA ChunkedIs ==
    ASSUME NEW body \in Seq(Byte), NEW ends \in Seq(Nat), Divides(ends, Len(body))
    PROVE  /\ Chunked(body, ends) \in Seq(Byte)
           /\ Len(Chunked(body, ends)) = Len(body) + 5 * Len(ends)
<1>1. Len(body) \in Nat /\ Len(ends) \in Nat /\ Len(ends) \in 1..Len(ends)
  <2>1. Len(body) \in Nat
    OBVIOUS
  <2>2. Len(ends) \in Nat \ {0}
    BY <2>1, OffsetIs
  <2> QED
    BY <2>1, <2>2
<1>2. /\ Offset(ends, 1) = 0
      /\ \A j \in 1..Len(ends) :
           /\ SizeOf(ends, j) \in 0..9 /\ Offset(ends, j) \in Nat /\ Before(ends, j) \in Nat
           /\ Before(ends, j) + SizeOf(ends, j) <= Len(body)
           /\ Offset(ends, j) = Before(ends, j) + 5 * (j - 1)
           /\ SizeOf(ends, j) = 0 <=> j = Len(ends)
           /\ j = Len(ends) => Before(ends, j) = Len(body)
           /\ j # Len(ends) => Offset(ends, j + 1) = Offset(ends, j) + SizeOf(ends, j) + 5
  <2> DEFINE length == Len(body)
  <2>1. length \in Nat /\ Divides(ends, length)
    BY <1>1
  <2> HIDE DEF length
  <2>2. /\ Offset(ends, 1) = 0
        /\ \A j \in 1..Len(ends) :
             /\ SizeOf(ends, j) \in 0..9 /\ Offset(ends, j) \in Nat /\ Before(ends, j) \in Nat
             /\ Before(ends, j) + SizeOf(ends, j) <= length
             /\ Offset(ends, j) = Before(ends, j) + 5 * (j - 1)
             /\ SizeOf(ends, j) = 0 <=> j = Len(ends)
             /\ j = Len(ends) => Before(ends, j) = length
             /\ j # Len(ends) => Offset(ends, j + 1) = Offset(ends, j) + SizeOf(ends, j) + 5
    BY <2>1, OffsetIs
  <2> QED
    BY <2>2 DEF length
<1> DEFINE To(j) == Offset(ends, j) + SizeOf(ends, j) + 5
           In(j, p) == Offset(ends, j) < p /\ p <= To(j)
           A == {n \in Nat : n + 1 \in 1..Len(ends) =>
                               \A p \in 1..To(n + 1) : \E j \in 1..Len(ends) : In(j, p)}
<1>3. 0 \in A
  <2>1. CASE 0 + 1 \in 1..Len(ends)
    <3>1. 1 \in 1..Len(ends) /\ 0 + 1 = 1
      BY <2>1
    <3>2. \A p \in 1..To(1) : In(1, p)
      BY <1>2, <3>1
    <3> HIDE DEF In, To
    <3> QED
      BY <3>1, <3>2
  <2> QED
    BY <2>1
<1>4. ASSUME NEW n \in Nat, n \in A PROVE n + 1 \in A
  <2> SUFFICES ASSUME (n + 1) + 1 \in 1..Len(ends), NEW p \in 1..To((n + 1) + 1)
               PROVE  \E j \in 1..Len(ends) : In(j, p)
    OBVIOUS
  <2> DEFINE k == n + 1
  <2>1. k \in 1..Len(ends) /\ k # Len(ends) /\ k + 1 \in 1..Len(ends) /\ p \in 1..To(k + 1)
    BY <1>1
  <2>2. \A q \in 1..To(k) : \E j \in 1..Len(ends) : In(j, q)
    BY <1>4, <2>1
  <2> HIDE DEF k
  <2>3. Offset(ends, k + 1) = To(k) /\ To(k) \in Nat /\ To(k + 1) \in Nat
    <3>1. /\ SizeOf(ends, k) \in 0..9 /\ Offset(ends, k) \in Nat
          /\ Offset(ends, k + 1) = Offset(ends, k) + SizeOf(ends, k) + 5
      BY <1>2, <2>1
    <3>2. SizeOf(ends, k + 1) \in 0..9 /\ Offset(ends, k + 1) \in Nat
      BY <1>2, <2>1
    <3>3. ASSUME NEW x \in Nat, NEW y \in 0..9 PROVE x + y + 5 \in Nat
      OBVIOUS
    <3> QED
      BY <3>1, <3>2, <3>3
  <2>4. p \in 1..To(k) \/ In(k + 1, p)
    <3> DEFINE x == To(k)
               y == To(k + 1)
    <3>1. x \in Nat /\ y \in Nat /\ p \in 1..y /\ (In(k + 1, p) <=> x < p /\ p <= y)
      BY <2>1, <2>3
    <3> HIDE DEF In, x, y
    <3>2. p \in 1..x \/ (x < p /\ p <= y)
      BY <3>1
    <3> QED
      BY <3>1, <3>2 DEF x
  <2> HIDE DEF In, To
  <2> QED
    BY <2>1, <2>2, <2>4
<1> HIDE DEF A
<1>5. Nat \subseteq A
  BY <1>3, <1>4, SetInduction
<1> DEFINE N == Len(ends)
           M == Len(body) + 5 * N
<1>6. To(N) = M
  <2>1. SizeOf(ends, N) = 0 /\ Before(ends, N) = Len(body)
        /\ Offset(ends, N) = Before(ends, N) + 5 * (N - 1)
    BY <1>1, <1>2
  <2>2. ASSUME NEW l \in Nat, NEW m \in Nat PROVE l + 5 * (m - 1) + 0 + 5 = l + 5 * m
    OBVIOUS
  <2>3. Len(body) + 5 * (N - 1) + 0 + 5 = Len(body) + 5 * N
    <3> DEFINE l == Len(body)
    <3>1. l \in Nat /\ N \in Nat
      BY <1>1
    <3> HIDE DEF l, N
    <3> QED
      BY <2>2, <3>1 DEF l
  <2> QED
    BY <2>1, <2>3
<1>7. ASSUME NEW p \in 1..M PROVE \E j \in 1..N : In(j, p)
  <2>1. N - 1 \in A /\ N - 1 \in Nat /\ (N - 1) + 1 = N
    BY <1>1, <1>5
  <2>2. \A q \in 1..To(N) : \E j \in 1..N : In(j, q)
    BY <1>1, <2>1 DEF A
  <2> HIDE DEF In, To
  <2> QED
    BY <1>6, <2>2
<1>9. M \in Nat
  BY <1>1
<1>8. ASSUME NEW p \in 1..M PROVE Chunked(body, ends)[p] \in Byte
  <2>1. PICK j \in 1..N : In(j, p)
    BY <1>7
  <2> DEFINE i == p - Offset(ends, j)
             s == SizeOf(ends, j)
             b == Before(ends, j)
  <2>2. /\ s \in 0..9 /\ Offset(ends, j) \in Nat /\ b \in Nat /\ b + s <= Len(body)
    BY <1>2
  <2>3. i \in 1..(s + 5) /\ Offset(ends, j) + i = p
    <3>1. ASSUME NEW o \in Nat, NEW x \in 0..9, NEW q \in Nat, o < q, q <= o + x + 5
          PROVE  q - o \in 1..(x + 5) /\ o + (q - o) = q
      BY <3>1
    <3>2. p \in Nat /\ Offset(ends, j) < p /\ p <= Offset(ends, j) + s + 5
      BY <1>9, <2>1
    <3> HIDE DEF s
    <3> QED
      BY <2>2, <3>1, <3>2
  <2>4. Chunked(body, ends)[p] =
                IF i = 1 THEN Digit[s]
                ELSE IF i = 2 \/ i = s + 4 THEN CR
                ELSE IF i = 3 \/ i = s + 5 THEN LF
                ELSE body[b + i - 3]
    <3> HIDE DEF i
    <3> QED
      BY <2>3, ChunkIs
  <2>5. Digit[s] \in Byte /\ CR \in Byte /\ LF \in Byte
    BY <2>2, ExchangeAssumption
  <2> HIDE DEF i, s, b
  <2>6. CASE i \notin {1, 2, 3, s + 4, s + 5}
    <3>1. b + i - 3 \in 1..Len(body)
      BY <1>1, <2>2, <2>3, <2>6
    <3>2. body[b + i - 3] \in Byte
      BY <3>1
    <3> QED
      BY <2>4, <2>6, <3>2
  <2> QED
    BY <2>4, <2>5, <2>6
<1>10. \E f : Chunked(body, ends) = [p \in 1..M |-> f[p]]
  <2>1. Chunked(body, ends) = [p \in 1..M |-> Chunked(body, ends)[p]]
    BY DEF Chunked
  <2> QED
    BY <2>1
<1> DEFINE all == Chunked(body, ends)
<1>11. PICK f : all = [p \in 1..M |-> f[p]]
  BY <1>10
<1>12. \A p \in 1..M : all[p] \in Byte
  BY <1>8
<1> HIDE DEF all, M
<1>13. all \in Seq(Byte) /\ Len(all) = M
  BY <1>9, <1>11, <1>12
<1> QED
  BY <1>13 DEF all, M

\* A response whose body is divided into chunks, which the program has to put together.
ChunkedCall(c) ==
    /\ c.body \in Seq(Byte) /\ c.ends \in Seq(Nat) /\ Divides(c.ends, Len(c.body))
    /\ InChunks(c)

\* Behind the first z bytes of the response there is a chunk with the s bytes of the body
\* that follow the first b.
HasChunk(c, z, s, b) ==
    /\ z \in Nat /\ s \in 0..9 /\ b \in Nat
    /\ b + s <= Len(c.body) /\ z + s + 5 <= Len(Response(c))
    /\ Response(c)[z + 1] = Digit[s] /\ Response(c)[z + 2] = CR /\ Response(c)[z + 3] = LF
    /\ \A i \in 1..s : Response(c)[z + 3 + i] = c.body[b + i]
    /\ Response(c)[z + s + 4] = CR /\ Response(c)[z + s + 5] = LF

\* A response is a header of two bytes, and then its body.
LEMMA HeaderIs ==
    ASSUME NEW c, NEW body \in Seq(Byte), Response(c) = <<"h", "H">> \o body
    PROVE  /\ Response(c) \in Seq(Byte) /\ Len(Response(c)) = 2 + Len(body)
           /\ Response(c)[1] = "h" /\ Response(c)[2] = "H"
           /\ \A i \in 1..Len(body) : Response(c)[2 + i] = body[i]
<1> DEFINE head == <<"h", "H">>
           r == Response(c)
<1>1. head \in Seq(Byte) /\ Len(head) = 2 /\ head[1] = "h" /\ head[2] = "H"
  <2>1. "h" \in Byte /\ "H" \in Byte
    BY ExchangeAssumption
  <2> QED
    BY <2>1
<1>2. r = head \o body
  OBVIOUS
<1> HIDE DEF head, r
<1>3. Len(body) \in Nat
  OBVIOUS
<1>4. r \in Seq(Byte) /\ Len(r) = 2 + Len(body)
  BY <1>1, <1>2, Concatenation
<1>5. \A i \in 1..(2 + Len(body)) : r[i] = IF i <= 2 THEN head[i] ELSE body[i - 2]
  <2>1. \A i \in 1..(Len(head) + Len(body)) :
           (head \o body)[i] = IF i <= Len(head) THEN head[i] ELSE body[i - Len(head)]
    BY <1>1, Concatenation
  <2> QED
    BY <1>1, <1>2, <2>1
<1>6. r[1] = "h" /\ r[2] = "H"
  BY <1>1, <1>3, <1>5
<1>7. ASSUME NEW i \in 1..Len(body) PROVE r[2 + i] = body[i]
  <2>1. 2 + i \in 1..(2 + Len(body)) /\ ~(2 + i <= 2) /\ (2 + i) - 2 = i
    BY <1>3
  <2> QED
    BY <1>5, <2>1
<1> QED
  BY <1>4, <1>6, <1>7 DEF r

\* A response has each of its chunks where the chunks before it end.
LEMMA ChunkedResponse ==
    ASSUME NEW c, ChunkedCall(c)
    PROVE  /\ Response(c) \in Seq(Byte)
           /\ Len(Response(c)) = 2 + Len(c.body) + 5 * Len(c.ends)
           /\ \A k \in 1..Len(c.ends) :
                HasChunk(c, 2 + Offset(c.ends, k), SizeOf(c.ends, k), Before(c.ends, k))
<1> DEFINE body == c.body
           ends == c.ends
           all == Chunked(body, ends)
           r == Response(c)
           M == Len(body) + 5 * Len(ends)
<1>1. body \in Seq(Byte) /\ ends \in Seq(Nat) /\ Divides(ends, Len(body))
  BY DEF ChunkedCall
<1>2. all \in Seq(Byte) /\ Len(all) = M
  <2> HIDE DEF body, ends
  <2> QED
    BY <1>1, ChunkedIs
<1>3. r = <<"h", "H">> \o all
  BY DEF Response, ChunkedCall
<1>4. r \in Seq(Byte) /\ Len(r) = 2 + M /\ \A i \in 1..M : r[2 + i] = all[i]
  <2> HIDE DEF all, M
  <2> QED
    BY <1>2, <1>3, HeaderIs
<1>5. Len(body) \in Nat /\ Len(ends) \in Nat /\ M \in Nat
  <2>1. Len(body) \in Nat /\ Len(ends) \in Nat
    BY <1>1
  <2>2. ASSUME NEW x \in Nat, NEW y \in Nat PROVE x + 5 * y \in Nat
    OBVIOUS
  <2> HIDE DEF body, ends
  <2> QED
    BY <2>1, <2>2
<1>6. Len(r) = 2 + Len(body) + 5 * Len(ends)
  <2> DEFINE n == Len(body)
             l == Len(ends)
  <2>1. n \in Nat /\ l \in Nat /\ Len(r) = 2 + (n + 5 * l)
    BY <1>4, <1>5
  <2> HIDE DEF n, l
  <2>2. Len(r) = 2 + n + 5 * l
    BY <2>1
  <2> QED
    BY <2>2 DEF n, l
<1>7. ASSUME NEW k \in 1..Len(ends)
      PROVE  HasChunk(c, 2 + Offset(ends, k), SizeOf(ends, k), Before(ends, k))
  <2> DEFINE o == Offset(ends, k)
             s == SizeOf(ends, k)
             b == Before(ends, k)
  <2>1. o \in Nat /\ s \in 0..9 /\ b \in Nat /\ b + s <= Len(body) /\ o + s + 5 <= M
    <3> DEFINE length == Len(body)
    <3>1. length \in Nat /\ Divides(ends, length) /\ ends \in Seq(Nat)
      BY <1>1, <1>5
    <3> HIDE DEF length, ends
    <3>2. o \in Nat /\ s \in 0..9 /\ b \in Nat /\ b + s <= length
          /\ o + s + 5 <= length + 5 * Len(ends)
      BY <3>1, OffsetIs
    <3> QED
      BY <3>2 DEF length
  <2>2. ASSUME NEW i \in 1..(s + 5)
        PROVE  /\ o + i \in 1..M
               /\ all[o + i] =
                    IF i = 1 THEN Digit[s]
                    ELSE IF i = 2 \/ i = s + 4 THEN CR
                    ELSE IF i = 3 \/ i = s + 5 THEN LF
                    ELSE body[b + i - 3]
    <3> HIDE DEF body, ends
    <3> QED
      BY <1>1, ChunkIs
  <2> HIDE DEF o, s, b, all, M, r, body, ends
  <2>3. ASSUME NEW i \in 1..(s + 5) PROVE r[(2 + o) + i] = all[o + i]
    <3>1. (2 + o) + i = 2 + (o + i)
      BY <2>1
    <3> QED
      BY <1>4, <2>2, <3>1
  <2>4. r[(2 + o) + 1] = Digit[s] /\ r[(2 + o) + 2] = CR /\ r[(2 + o) + 3] = LF
    <3>1. 1 \in 1..(s + 5) /\ 2 \in 1..(s + 5) /\ 3 \in 1..(s + 5) /\ 3 # s + 4
      BY <2>1
    <3> QED
      BY <2>2, <2>3, <3>1
  <2>5. r[(2 + o) + s + 4] = CR /\ r[(2 + o) + s + 5] = LF
    <3>1. /\ s + 4 \in 1..(s + 5) /\ s + 5 \in 1..(s + 5) /\ s + 4 # 1 /\ s + 5 # 1 /\ s + 5 # 2
          /\ s + 5 # s + 4
          /\ (2 + o) + s + 4 = (2 + o) + (s + 4) /\ (2 + o) + s + 5 = (2 + o) + (s + 5)
      BY <2>1
    <3>2. r[(2 + o) + (s + 4)] = CR
      BY <2>2, <2>3, <3>1
    <3>3. r[(2 + o) + (s + 5)] = LF
      BY <2>2, <2>3, <3>1
    <3> QED
      BY <3>1, <3>2, <3>3
  <2>6. ASSUME NEW i \in 1..s PROVE r[(2 + o) + 3 + i] = body[b + i]
    <3>1. /\ 3 + i \in 1..(s + 5) /\ 3 + i \notin {1, 2, 3, s + 4, s + 5}
          /\ (2 + o) + 3 + i = (2 + o) + (3 + i) /\ b + (3 + i) - 3 = b + i
      BY <2>1
    <3> QED
      BY <2>2, <2>3, <3>1
  <2>7. 2 + o \in Nat /\ (2 + o) + s + 5 <= Len(r)
    BY <1>4, <1>5, <2>1
  <2> QED
    BY <2>1, <2>4, <2>5, <2>6, <2>7 DEF HasChunk, o, s, b, r, body, ends
<1> QED
  BY <1>4, <1>6, <1>7

\* The chunks before the k-th were taken, and of the k-th, its size line or nothing; what
\* has arrived since waits in the buffer.
AtChunk(c, d, a, k) ==
    /\ k \in 1..Len(c.ends) /\ d.headers
    /\ LinesOK(c, d, Before(c.ends, k))
    /\ d.size \in {0, SizeOf(c.ends, k)}
    /\ IsPart(d.buffer, Response(c), 2 + Offset(c.ends, k) + (IF d.size = 0 THEN 0 ELSE 3), a)

\* A line of a body in chunks is refused for a reason: one of the chunks may divide a line of
\* the greatest length from its line feed.
ExcusedInChunks(c) == Unacceptable(c) \/ \E k \in 1..Len(c.ends) : Excused(c, c.ends[k])

\* A stream after a bytes of the response: between two chunks or within one, after the last
\* one, or refused because of a line.
StreamOK(c, d, a) ==
    /\ d \in DecoderState /\ d.headers
    /\ d.bad => ExcusedInChunks(c) /\ \E m \in 0..Len(c.body) : Reports(c, d.lines, Lines(c, m))
    /\ ~d.bad /\ d.terminal => Reports(c, d.lines, AllLines(c, Len(c.body)))
    /\ ~d.bad /\ ~d.terminal => \E k \in 1..Len(c.ends) : AtChunk(c, d, a, k)

\* A size line, or the bytes of a chunk, are taken off the buffer.
TakeSize(d, rest, n) == [d EXCEPT !.buffer = rest, !.size = n]
TakeLastSize(d, rest) == [d EXCEPT !.buffer = rest, !.terminal = TRUE]

\* e is d without the bytes that were taken off its buffer; m bytes of the body are lines.
SizeTaken(c, m, d, rest, n, e) ==
    /\ LinesOK(c, e, m) /\ e.buffer = rest /\ e.size = n
    /\ e.headers = d.headers /\ e.terminal = d.terminal /\ e.bad = d.bad

\* The lines stay as they have to be when bytes are taken off the buffer ...
LEMMA SizeLineTaken ==
    ASSUME NEW c, NEW m, NEW d, LinesOK(c, d, m), NEW rest \in Seq(Byte), NEW n \in 0..9
    PROVE  SizeTaken(c, m, d, rest, n, TakeSize(d, rest, n))
<1> DEFINE e == TakeSize(d, rest, n)
<1>1. d \in DecoderState
  BY DEF LinesOK
<1>2. /\ e \in DecoderState /\ e.buffer = rest /\ e.size = n /\ e.line = d.line /\ e.lines = d.lines
      /\ e.headers = d.headers /\ e.terminal = d.terminal /\ e.bad = d.bad
  BY <1>1 DEF DecoderState, TakeSize, TakeLastSize
<1> HIDE DEF e
<1>3. LinesOK(c, e, m)
  BY <1>2 DEF LinesOK
<1> QED
  BY <1>2, <1>3 DEF e, SizeTaken

\* ... and when these are the last size line.
LEMMA LastSizeTaken ==
    ASSUME NEW c, NEW m, NEW d, LinesOK(c, d, m), NEW rest \in Seq(Byte)
    PROVE  LET e == TakeLastSize(d, rest) IN
           /\ LinesOK(c, e, m) /\ e.buffer = rest /\ e.terminal /\ e.size = d.size
           /\ e.headers = d.headers /\ e.bad = d.bad
<1> DEFINE e == TakeLastSize(d, rest)
<1>1. d \in DecoderState
  BY DEF LinesOK
<1>2. /\ e \in DecoderState /\ e.buffer = rest /\ e.terminal /\ e.line = d.line /\ e.lines = d.lines
      /\ e.headers = d.headers /\ e.size = d.size /\ e.bad = d.bad
  BY <1>1 DEF DecoderState, TakeSize, TakeLastSize
<1> HIDE DEF e
<1>3. LinesOK(c, e, m)
  BY <1>2 DEF LinesOK
<1> QED
  BY <1>2, <1>3 DEF e

\* What a round of the loop does: the invariant stays, the buffer gets shorter or nothing
\* changes, and when nothing changes there are bytes still to come.
RoundOK(c, d, e, a) ==
    /\ StreamOK(c, e, a)
    /\ e = d \/ Len(e.buffer) < Len(d.buffer)
    /\ e = d /\ ~d.bad /\ ~d.terminal => a < Len(Response(c))

\* A size line.
LEMMA SizeLineOK ==
    ASSUME NEW c, ChunkedCall(c), NEW d, NEW a, StreamOK(c, d, a), ~d.bad, ~d.terminal, d.size = 0
    PROVE  RoundOK(c, d, NextChunk(c, d), a)
<1> DEFINE B == d.buffer
           n == Len(B)
           Rest(i) == SubSeq(B, i + 1, Len(B))
           EndsLine(i) == B[i] = CR /\ B[i + 1] = LF
           r == Response(c)
<1>1. PICK k \in 1..Len(c.ends) : AtChunk(c, d, a, k)
  BY DEF StreamOK
<1> DEFINE z == 2 + Offset(c.ends, k)
           s == SizeOf(c.ends, k)
           b == Before(c.ends, k)
<1>2. HasChunk(c, z, s, b)
  BY ChunkedResponse
<1>3. c.body \in Seq(Byte) /\ MaxLine \in Nat /\ Len(c.body) \in Nat /\ Len(r) \in Nat
  <2>1. c.body \in Seq(Byte) /\ MaxLine \in Nat /\ r \in Seq(Byte)
    BY ChunkedResponse, ExchangeAssumption DEF ChunkedCall
  <2> QED
    BY <2>1
<1>4. /\ d.headers /\ LinesOK(c, d, b) /\ IsPart(B, r, z, a) /\ d \in DecoderState
  <2>1. 2 + Offset(c.ends, k) + 0 = z
    BY <1>2 DEF HasChunk
  <2> QED
    BY <1>1, <2>1 DEF AtChunk, LinesOK
<1>5. z \in Nat /\ a \in Nat /\ z <= a /\ B \in Seq(Byte) /\ n = a - z /\ n \in Nat
      /\ \A i \in 1..n : B[i] = r[z + i]
  BY <1>4 DEF IsPart
<1>6. s \in 0..9 /\ b \in Nat /\ b + s <= Len(c.body) /\ z + s + 5 <= Len(r)
  BY <1>2 DEF HasChunk
<1>7. (1 <= n => B[1] = Digit[s]) /\ (2 <= n => B[2] = CR) /\ (3 <= n => B[3] = LF)
  <2>1. r[z + 1] = Digit[s] /\ r[z + 2] = CR /\ r[z + 3] = LF
    BY <1>2 DEF HasChunk
  <2> HIDE DEF n, r, z, B
  <2>2. \A i \in 1..3 : i <= n => B[i] = r[z + i]
    BY <1>5
  <2> QED
    BY <2>1, <2>2
<1> DEFINE e == NextChunk(c, d)
<1>8. e = IF \A i \in 1..(n - 1) : ~EndsLine(i) THEN d
          ELSE IF ~IsDigit(B[1]) THEN [d EXCEPT !.bad = TRUE]
          ELSE IF Size(B[1]) = 0 THEN TakeRest(c, [d EXCEPT !.buffer = Rest(3), !.terminal = TRUE])
          ELSE [d EXCEPT !.buffer = Rest(3), !.size = Size(B[1])]
  BY DEF NextChunk
<1>9. k = Len(c.ends) <=> s = 0
  <2> DEFINE length == Len(c.body)
             ends == c.ends
  <2>1. length \in Nat /\ ends \in Seq(Nat) /\ Divides(ends, length) /\ k \in 1..Len(ends)
    BY <1>3 DEF ChunkedCall
  <2> HIDE DEF length, ends
  <2>2. SizeOf(ends, k) = 0 <=> k = Len(ends)
    BY <2>1, OffsetIs
  <2> QED
    BY <2>2 DEF ends
<1>10. s = 0 => b = Len(c.body)
  <2> DEFINE length == Len(c.body)
             ends == c.ends
  <2>1. length \in Nat /\ ends \in Seq(Nat) /\ Divides(ends, length) /\ k \in 1..Len(ends)
    BY <1>3 DEF ChunkedCall
  <2> HIDE DEF length, ends
  <2>2. k = Len(ends) => Before(ends, k) = length
    BY <2>1, OffsetIs
  <2> QED
    BY <1>9, <2>2 DEF ends, length
<1>11. IsDigit(Digit[s]) /\ Size(Digit[s]) = s /\ Digit[s] # CR
  BY <1>6, DigitIs
<1>12. CASE \A i \in 1..(n - 1) : ~EndsLine(i)
  <2>1. e = d
    BY <1>8, <1>12
  <2>2. n < 3
    <3> SUFFICES ASSUME 3 <= n PROVE FALSE
      BY <1>5
    <3>1. 2 \in 1..(n - 1) /\ 2 + 1 = 3
      BY <1>5
    <3> QED
      BY <1>5, <1>7, <1>12, <3>1
  <2>3. a < Len(r)
    <3> HIDE DEF n, z, s, r
    <3> QED
      BY <1>3, <1>5, <1>6, <2>2
  <2> QED
    BY <2>1, <2>3 DEF RoundOK
<1>13. CASE ~\A i \in 1..(n - 1) : ~EndsLine(i)
  <2>1. PICK i \in 1..(n - 1) : EndsLine(i)
    BY <1>13
  <2>2. 3 <= n
    <3>1. n \in Nat /\ 2 <= n
      BY <1>5
    <3>2. i # 1
      BY <1>7, <1>11, <2>1, <3>1
    <3> QED
      BY <3>1, <3>2
  <2> DEFINE rest == Rest(3)
  <2>3. rest \in Seq(Byte) /\ IsPart(rest, r, z + 3, a) /\ Len(rest) < n
    <3>1. 3 \in 0..(a - z)
      BY <1>5, <2>2
    <3>2. IsPart(SubSeq(B, 3 + 1, Len(B)), r, z + 3, a)
      BY <1>4, <3>1, PartRest
    <3>3. Len(rest) = a - (z + 3) /\ rest \in Seq(Byte)
      BY <3>2 DEF IsPart
    <3> HIDE DEF rest, n, z, r
    <3>4. Len(rest) < n
      BY <1>5, <3>3
    <3> QED
      BY <3>2, <3>3, <3>4 DEF rest
  <2>4. IsDigit(B[1]) /\ Size(B[1]) = s
    BY <1>5, <1>7, <1>11, <2>2
  <2> HIDE DEF rest
  <2>5. CASE s = 0
    <3> DEFINE d1 == TakeLastSize(d, rest)
    <3>1. LinesOK(c, d1, b) /\ d1.buffer = rest /\ d1.terminal /\ d1.headers /\ ~d1.bad
      <4> HIDE DEF b
      <4>1. LinesOK(c, d, b) /\ rest \in Seq(Byte)
        BY <1>4, <2>3
      <4>2. /\ LinesOK(c, d1, b) /\ d1.buffer = rest /\ d1.terminal
            /\ d1.headers = d.headers /\ d1.bad = d.bad
        BY <4>1, LastSizeTaken
      <4> HIDE DEF d1
      <4> QED
        BY <1>4, <4>2
    <3>2. e = TakeRest(c, d1)
      BY <1>8, <1>13, <2>4, <2>5 DEF rest, TakeLastSize
    <3> HIDE DEF d1
    <3>3. b \in 0..Len(c.body) /\ b = Len(c.body)
      BY <1>3, <1>6, <1>10, <2>5
    <3> HIDE DEF b, e
    <3>4. /\ e \in DecoderState /\ SameFrame(d1, e)
          /\ ~e.bad => Reports(c, e.lines, AllLines(c, b))
          /\ e.bad => /\ Reports(c, e.lines, Lines(c, b))
                      /\ b = Len(c.body) => Unacceptable(c)
      BY <1>3, <3>1, <3>2, <3>3, TakeRestOK
    <3>5. e.headers /\ e.terminal /\ e.buffer = rest
      BY <3>1, <3>4 DEF SameFrame
    <3>6. StreamOK(c, e, a)
      BY <3>3, <3>4, <3>5 DEF StreamOK, ExcusedInChunks
    <3>7. Len(e.buffer) < Len(d.buffer) /\ e # d
      BY <2>3, <3>5
    <3> QED
      BY <3>6, <3>7 DEF RoundOK, e
  <2>6. CASE s # 0
    <3>1. e = [d EXCEPT !.buffer = rest, !.size = s]
      BY <1>8, <1>13, <2>4, <2>6 DEF rest
    <3>2. /\ LinesOK(c, e, b) /\ e.buffer = rest /\ e.size = s
          /\ e.headers /\ ~e.terminal /\ ~e.bad
      <4> DEFINE x == TakeSize(d, rest, s)
      <4> HIDE DEF b, e, s
      <4>1. LinesOK(c, d, b) /\ rest \in Seq(Byte) /\ s \in 0..9
        BY <1>4, <1>6, <2>3
      <4>2. /\ LinesOK(c, x, b) /\ x.buffer = rest /\ x.size = s
            /\ x.headers = d.headers /\ x.terminal = d.terminal /\ x.bad = d.bad
        <5>1. SizeTaken(c, b, d, rest, s, x)
          BY <4>1, SizeLineTaken
        <5> HIDE DEF x
        <5> QED
          BY <5>1 DEF SizeTaken
      <4>3. e = x
        BY <3>1 DEF TakeSize
      <4> HIDE DEF x
      <4> QED
        BY <1>4, <4>2, <4>3
    <3>3. AtChunk(c, e, a, k)
      BY <2>3, <2>6, <3>2 DEF AtChunk
    <3>4. e \in DecoderState
      BY <3>2 DEF LinesOK
    <3> HIDE DEF e
    <3>5. StreamOK(c, e, a)
      BY <3>2, <3>3, <3>4 DEF StreamOK
    <3>6. Len(e.buffer) < Len(d.buffer) /\ e # d
      BY <2>3, <3>2, <2>6
    <3> QED
      BY <3>5, <3>6 DEF RoundOK, e
  <2> QED
    BY <2>5, <2>6
<1> QED
  BY <1>12, <1>13

\* A chunk.
LEMMA ChunkOK ==
    ASSUME NEW c, ChunkedCall(c), NEW d, NEW a, StreamOK(c, d, a), ~d.bad, ~d.terminal, d.size # 0
    PROVE  RoundOK(c, d, NextChunk(c, d), a)
<1> DEFINE B == d.buffer
           n == Len(B)
           Rest(i) == SubSeq(B, i + 1, Len(B))
           EndsLine(i) == B[i] = CR /\ B[i + 1] = LF
           r == Response(c)
<1>1. PICK k \in 1..Len(c.ends) : AtChunk(c, d, a, k)
  BY DEF StreamOK
<1> DEFINE z == 2 + Offset(c.ends, k)
           s == SizeOf(c.ends, k)
           b == Before(c.ends, k)
<1>2. HasChunk(c, z, s, b)
  BY ChunkedResponse
<1>3. c.body \in Seq(Byte) /\ MaxLine \in Nat /\ Len(c.body) \in Nat /\ Len(r) \in Nat
  <2>1. c.body \in Seq(Byte) /\ MaxLine \in Nat /\ r \in Seq(Byte)
    BY ChunkedResponse, ExchangeAssumption DEF ChunkedCall
  <2> QED
    BY <2>1
<1>4. d.headers /\ LinesOK(c, d, b) /\ d.size = s /\ IsPart(B, r, z + 3, a) /\ d \in DecoderState
  BY <1>1 DEF AtChunk, LinesOK
<1>5. z \in Nat /\ s \in 0..9 /\ b \in Nat /\ b + s <= Len(c.body) /\ z + s + 5 <= Len(r)
  BY <1>2 DEF HasChunk
<1>6. a \in Nat /\ z + 3 <= a /\ B \in Seq(Byte) /\ n = a - (z + 3) /\ n \in Nat
      /\ \A i \in 1..n : B[i] = r[z + 3 + i]
  BY <1>4 DEF IsPart
<1> DEFINE e == NextChunk(c, d)
           chunk == SubSeq(B, 1, s)
           d1 == [d EXCEPT !.buffer = Rest(s + 2), !.size = 0]
<1>7. e = IF n < s + 2 THEN d
          ELSE IF ~EndsLine(s + 1) THEN [d EXCEPT !.bad = TRUE]
          ELSE ConsumeLines(c, d1, chunk)
  BY <1>4 DEF NextChunk
<1> HIDE DEF e, d1
<1>8. CASE n < s + 2
  <2>1. e = d
    BY <1>7, <1>8
  <2>2. a < Len(r)
    <3> HIDE DEF n, z, s, r
    <3> QED
      BY <1>3, <1>5, <1>6, <1>8
  <2> QED
    BY <2>1, <2>2 DEF RoundOK, e
<1>9. CASE ~(n < s + 2)
  <2>1. s + 2 <= n /\ s + 2 \in 0..(a - (z + 3)) /\ s + 1 \in 1..n /\ s + 2 \in 1..n
    <3> HIDE DEF n, z, s
    <3> QED
      BY <1>5, <1>6, <1>9
  <2>2. EndsLine(s + 1)
    <3>1. z + 3 + (s + 1) = z + s + 4 /\ z + 3 + (s + 2) = z + s + 5 /\ (s + 1) + 1 = s + 2
      <4> HIDE DEF z, s
      <4> QED
        BY <1>5
    <3>2. r[z + s + 4] = CR /\ r[z + s + 5] = LF
      BY <1>2 DEF HasChunk
    <3>3. B[s + 1] = r[z + 3 + (s + 1)] /\ B[s + 2] = r[z + 3 + (s + 2)]
      BY <1>6, <2>1
    <3> HIDE DEF B, r, z, s
    <3> QED
      BY <3>1, <3>2, <3>3
  <2>3. e = ConsumeLines(c, d1, chunk)
    BY <1>7, <1>9, <2>2
  <2> DEFINE rest == Rest(s + 2)
  <2>4. rest \in Seq(Byte) /\ IsPart(rest, r, (z + 3) + (s + 2), a) /\ Len(rest) < n
    <3>1. IsPart(SubSeq(B, (s + 2) + 1, Len(B)), r, (z + 3) + (s + 2), a)
      <4> HIDE DEF z, s, r
      <4> QED
        BY <1>4, <2>1, PartRest
    <3>2. Len(rest) = a - ((z + 3) + (s + 2)) /\ rest \in Seq(Byte)
      BY <3>1 DEF IsPart
    <3> HIDE DEF rest, n, z, s, r
    <3>3. Len(rest) < n
      BY <1>5, <1>6, <3>2
    <3> QED
      BY <3>1, <3>2, <3>3 DEF rest, s, z
  <2> HIDE DEF rest
  <2>5. LinesOK(c, d1, b) /\ d1.buffer = rest /\ d1.size = 0 /\ d1.headers /\ ~d1.terminal
        /\ ~d1.bad
    <3>1. d1 = [d EXCEPT !.buffer = rest, !.size = 0]
      BY DEF d1, rest
    <3> DEFINE x == TakeSize(d, rest, 0)
    <3> HIDE DEF b
    <3>2. LinesOK(c, d, b) /\ rest \in Seq(Byte) /\ 0 \in 0..9
      BY <1>4, <2>4
    <3>3. /\ LinesOK(c, x, b) /\ x.buffer = rest /\ x.size = 0
          /\ x.headers = d.headers /\ x.terminal = d.terminal /\ x.bad = d.bad
      <4>1. SizeTaken(c, b, d, rest, 0, x)
        BY <3>2, SizeLineTaken
      <4> HIDE DEF x
      <4> QED
        BY <4>1 DEF SizeTaken
    <3>4. d1 = x
      BY <3>1 DEF TakeSize
    <3> HIDE DEF x
    <3> QED
      BY <1>4, <3>3, <3>4
  <2>6. chunk \in Seq(Byte) /\ Len(chunk) = s /\ \A i \in 1..s : chunk[i] = B[i]
    <3>1. s \in 0..Len(B) /\ B \in Seq(Byte)
      <4>1. s \in 0..9 /\ n \in Nat /\ s + 2 <= n /\ B \in Seq(Byte)
        BY <1>5, <1>6, <2>1
      <4> HIDE DEF s, n
      <4>2. s \in 0..n
        BY <4>1
      <4> QED
        BY <4>1, <4>2 DEF n
    <3> HIDE DEF s, B
    <3> QED
      BY <3>1
  <2>7. ASSUME NEW i \in 1..s PROVE chunk[i] = c.body[b + i]
    <3>1. r[z + 3 + i] = c.body[b + i]
      BY <1>2 DEF HasChunk
    <3>2. i \in 1..n
      <4>1. s \in 0..9 /\ n \in Nat /\ s + 2 <= n /\ i \in 1..s
        BY <1>5, <1>6, <2>1
      <4> HIDE DEF s, n
      <4> QED
        BY <4>1
    <3> QED
      BY <1>6, <2>6, <3>1, <3>2
  <2> HIDE DEF chunk
  <2>8. TakenOK(c, e, b + s) /\ SameFrame(d1, e)
    <3>1. \A i \in 1..Len(chunk) : chunk[i] = c.body[b + i]
      BY <2>6, <2>7
    <3>2. b + Len(chunk) <= Len(c.body)
      BY <1>5, <2>6
    <3> HIDE DEF b, s
    <3>3. TakenOK(c, e, b + Len(chunk)) /\ SameFrame(d1, e)
      BY <1>3, <1>5, <2>3, <2>5, <2>6, <3>1, <3>2, ConsumeLinesOK
    <3> QED
      BY <2>6, <3>3
  <2>9. e \in DecoderState /\ e.headers /\ e.buffer = rest /\ e.size = 0 /\ ~e.terminal
    BY <2>5, <2>8 DEF SameFrame, TakenOK
  <2>10. /\ k + 1 \in 1..Len(c.ends) /\ Before(c.ends, k + 1) = b + s
         /\ Offset(c.ends, k + 1) = Offset(c.ends, k) + s + 5 /\ Offset(c.ends, k) \in Nat
    <3> DEFINE length == Len(c.body)
               ends == c.ends
    <3>1. length \in Nat /\ ends \in Seq(Nat) /\ Divides(ends, length) /\ k \in 1..Len(ends)
      BY <1>3 DEF ChunkedCall
    <3>2. SizeOf(ends, k) # 0
      BY <1>4
    <3> HIDE DEF length, ends
    <3>3. k # Len(ends)
      BY <3>1, <3>2, OffsetIs
    <3>4. /\ k + 1 \in 1..Len(ends) /\ Before(ends, k + 1) = Before(ends, k) + SizeOf(ends, k)
          /\ Offset(ends, k + 1) = Offset(ends, k) + SizeOf(ends, k) + 5 /\ Offset(ends, k) \in Nat
      BY <3>1, <3>3, OffsetIs
    <3> QED
      BY <3>4 DEF ends
  <2>11. 2 + Offset(c.ends, k + 1) + 0 = (z + 3) + (s + 2)
    <3> DEFINE o == Offset(c.ends, k)
               next == Offset(c.ends, k + 1)
    <3>1. next = o + s + 5 /\ o \in Nat /\ s \in 0..9 /\ z = 2 + o
      BY <1>5, <2>10
    <3> HIDE DEF o, next, s, z
    <3>2. 2 + next + 0 = (z + 3) + (s + 2)
      BY <3>1
    <3> QED
      BY <3>2 DEF next
  <2>12. ASSUME ~e.bad PROVE AtChunk(c, e, a, k + 1)
    <3>1. IsPart(e.buffer, r, 2 + Offset(c.ends, k + 1) + (IF e.size = 0 THEN 0 ELSE 3), a)
      BY <2>4, <2>9, <2>11
    <3>2. LinesOK(c, e, Before(c.ends, k + 1))
      BY <2>8, <2>10, <2>12, TakenIsLines
    <3> QED
      BY <2>9, <2>10, <3>1, <3>2 DEF AtChunk
  <2>13. e.bad => ExcusedInChunks(c)
                  /\ \E m \in 0..Len(c.body) : Reports(c, e.lines, Lines(c, m))
    <3>1. \A m \in 0..(b + s) : m \in 0..Len(c.body)
      <4> HIDE DEF s, b
      <4> QED
        BY <1>3, <1>5
    <3>2. c.ends[k] = b + s
      <4>1. k \in Nat /\ k + 1 # 1 /\ (k + 1) - 1 = k
        <5>1. k \in 1..Len(c.ends) /\ Len(c.ends) \in Nat
          BY DEF ChunkedCall
        <5> QED
          BY <5>1
      <4>2. Before(c.ends, k + 1) = c.ends[k]
        BY <4>1 DEF Before
      <4> QED
        BY <2>10, <4>2
    <3>3. e.bad => Excused(c, c.ends[k])
      <4> HIDE DEF b, s
      <4> QED
        BY <2>8, <3>2 DEF TakenOK
    <3> QED
      BY <2>8, <3>1, <3>3 DEF TakenOK, ExcusedInChunks
  <2>14. StreamOK(c, e, a)
    BY <2>9, <2>10, <2>12, <2>13 DEF StreamOK
  <2>15. Len(e.buffer) < Len(d.buffer) /\ e # d
    BY <2>4, <2>9
  <2> QED
    BY <2>14, <2>15 DEF RoundOK, e
<1> QED
  BY <1>8, <1>9

\* A round of the loop, whatever it finds.
LEMMA NextChunkOK ==
    ASSUME NEW c, ChunkedCall(c), NEW d, NEW a, StreamOK(c, d, a)
    PROVE  RoundOK(c, d, NextChunk(c, d), a)
<1>1. CASE d.bad \/ d.terminal
  <2>1. NextChunk(c, d) = d
    BY <1>1 DEF NextChunk
  <2> QED
    BY <1>1, <2>1 DEF RoundOK
<1> QED
  BY <1>1, SizeLineOK, ChunkOK

\* f holds the decoder after as many rounds as its argument tells.
TakesRounds(f, c, d) ==
    /\ f[0] = d
    /\ \A i \in 1..Len(d.buffer) : f[i] = NextChunk(c, f[i - 1])
    /\ ConsumeChunked(c, d) = f[Len(d.buffer)]

\* The loop over the chunks, as a function of how many rounds were taken.
LEMMA ConsumeChunkedIs ==
    ASSUME NEW c, NEW S, NEW d \in S, d.buffer \in Seq(Byte),
           \A e \in S : NextChunk(c, e) \in S
    PROVE  \E f \in [0..Len(d.buffer) -> S] : TakesRounds(f, c, d)
<1> DEFINE n == Len(d.buffer)
           G == [x \in S \X Nat |-> NextChunk(c, x[1])]
<1>1. n \in Nat
  OBVIOUS
<1>2. G \in [S \X Nat -> S]
  <2>1. ASSUME NEW x \in S \X Nat PROVE NextChunk(c, x[1]) \in S
    OBVIOUS
  <2> QED
    BY <2>1
<1> HIDE DEF G, n
<1>3. \E f \in [0..n -> S] : Follows(f, d, G, n)
  BY <1>1, <1>2, Recursion
<1>4. PICK f \in [0..n -> S] : f[0] = d /\ \A i \in 1..n : f[i] = G[<<f[i - 1], i>>]
  BY <1>3 DEF Follows
<1>5. ASSUME NEW i \in 1..n PROVE f[i] = NextChunk(c, f[i - 1])
  <2>1. i \in Nat /\ i - 1 \in 0..n
    BY <1>1
  <2>2. f[i - 1] \in S
    BY <2>1
  <2> DEFINE x == <<f[i - 1], i>>
  <2>3. x \in S \X Nat /\ x[1] = f[i - 1]
    BY <2>1, <2>2
  <2>4. f[i] = G[x]
    BY <1>4
  <2> HIDE DEF x
  <2> QED
    BY <2>3, <2>4 DEF G
<1> DEFINE Def(g) == [i \in 0..Len(d.buffer) |-> IF i = 0 THEN d ELSE NextChunk(c, g[i - 1])]
           after == CHOOSE g : g = Def(g)
<1>6. f = Def(f)
  BY <1>4, <1>5 DEF n
<1>7. after = Def(after)
  BY <1>6
<1>8. ConsumeChunked(c, d) = after[Len(d.buffer)]
  BY DEF ConsumeChunked
<1> HIDE DEF after
<1>9. \A i \in 0..n : after[i] = f[i]
  <2> DEFINE A == {i \in Nat : i \in 0..n => after[i] = f[i]}
  <2>1. 0 \in A
    BY <1>4, <1>7
  <2>2. ASSUME NEW i \in Nat, i \in A PROVE i + 1 \in A
    <3>1. CASE i + 1 \in 0..n
      <4>1. after[i + 1] = NextChunk(c, after[i]) /\ after[i] = f[i]
        <5>1. i + 1 \in 0..Len(d.buffer) /\ i + 1 # 0 /\ (i + 1) - 1 = i /\ i \in 0..n
          BY <3>1, <1>1 DEF n
        <5> QED
          BY <5>1, <1>7, <2>2
      <4>2. f[i + 1] = NextChunk(c, f[i])
        <5>1. i + 1 \in 1..n /\ (i + 1) - 1 = i
          BY <3>1
        <5> QED
          BY <5>1, <1>5
      <4> QED
        BY <4>1, <4>2
    <3> QED
      BY <3>1
  <2> HIDE DEF A
  <2>3. Nat \subseteq A
    BY <2>1, <2>2, SetInduction
  <2> QED
    BY <1>1, <2>3 DEF A
<1>10. TakesRounds(f, c, d)
  <2>1. after[n] = f[n]
    BY <1>1, <1>9
  <2> QED
    BY <1>4, <1>5, <1>8, <2>1 DEF TakesRounds, n
<1> QED
  BY <1>4, <1>10 DEF n

\* After as many rounds as the buffer holds bytes nothing that could be decoded is left.
LEMMA ConsumeChunkedOK ==
    ASSUME NEW c, ChunkedCall(c), NEW d, NEW a, StreamOK(c, d, a)
    PROVE  LET e == ConsumeChunked(c, d) IN
           /\ StreamOK(c, e, a)
           /\ ~e.bad /\ ~e.terminal => a < Len(Response(c))
<1> DEFINE S == {e \in DecoderState : StreamOK(c, e, a)}
           n == Len(d.buffer)
           Stuck(e) == NextChunk(c, e) = e
<1>1. d \in S /\ d.buffer \in Seq(Byte) /\ n \in Nat
  <2>1. d \in S
    BY DEF StreamOK
  <2>2. d.buffer \in Seq(Byte)
    BY <2>1 DEF DecoderState
  <2> QED
    BY <2>1, <2>2
<1>2. ASSUME NEW e \in S PROVE NextChunk(c, e) \in S /\ RoundOK(c, e, NextChunk(c, e), a)
  <2>1. RoundOK(c, e, NextChunk(c, e), a)
    BY NextChunkOK
  <2> QED
    BY <2>1 DEF RoundOK, StreamOK
<1>3. PICK f \in [0..n -> S] : TakesRounds(f, c, d)
  <2> HIDE DEF S
  <2> QED
    BY <1>1, <1>2, ConsumeChunkedIs
<1>4. f[0] = d /\ (\A i \in 1..n : f[i] = NextChunk(c, f[i - 1])) /\ ConsumeChunked(c, d) = f[n]
  BY <1>3 DEF TakesRounds
<1>5. \A i \in 0..n : f[i] \in S /\ Len(f[i].buffer) \in Nat
  <2>1. \A e \in S : Len(e.buffer) \in Nat
    BY DEF DecoderState
  <2> HIDE DEF S
  <2> QED
    BY <1>3, <2>1
<1> HIDE DEF S, n
<1> DEFINE Left(i) == Len(f[i].buffer)
           A == {i \in Nat : i \in 0..n => Stuck(f[i]) \/ Left(i) <= n - i}
<1>6. 0 \in A
  <2>1. Left(0) = n
    BY <1>4 DEF n
  <2> HIDE DEF Stuck
  <2> QED
    BY <1>1, <2>1
<1>7. ASSUME NEW i \in Nat, i \in A PROVE i + 1 \in A
  <2> SUFFICES ASSUME i + 1 \in 0..n PROVE Stuck(f[i + 1]) \/ Left(i + 1) <= n - (i + 1)
    OBVIOUS
  <2>1. i \in 0..n /\ i + 1 \in 1..n /\ (i + 1) - 1 = i
    BY <1>1
  <2>2. f[i + 1] = NextChunk(c, f[i])
    BY <1>4, <2>1
  <2>3. f[i] \in S /\ Left(i) \in Nat /\ Left(i + 1) \in Nat
    BY <1>5, <2>1
  <2>4. f[i + 1] = f[i] \/ Left(i + 1) < Left(i)
    BY <1>2, <2>2, <2>3 DEF RoundOK
  <2>5. CASE f[i + 1] = f[i]
    BY <2>2, <2>5
  <2>6. CASE f[i + 1] # f[i]
    <3>1. Left(i + 1) < Left(i) /\ ~Stuck(f[i])
      BY <2>2, <2>4, <2>6
    <3>2. Left(i) <= n - i
      BY <1>7, <2>1, <3>1
    <3> HIDE DEF Left, Stuck
    <3>3. Left(i + 1) <= n - (i + 1)
      BY <1>1, <2>3, <3>1, <3>2
    <3> QED
      BY <3>3
  <2> QED
    BY <2>5, <2>6
<1> HIDE DEF A
<1>8. Nat \subseteq A
  BY <1>6, <1>7, SetInduction
<1>9. Stuck(f[n]) \/ Left(n) <= 0
  <2>1. n \in A /\ n \in 0..n /\ n - n = 0
    BY <1>1, <1>8
  <2>2. Stuck(f[n]) \/ Left(n) <= n - n
    BY <2>1 DEF A
  <2> QED
    BY <2>1, <2>2
<1> DEFINE e == f[n]
<1>10. e \in S /\ Len(e.buffer) \in Nat /\ RoundOK(c, e, NextChunk(c, e), a)
  BY <1>1, <1>2, <1>5
<1>11. NextChunk(c, e) \in S /\ Len(NextChunk(c, e).buffer) \in Nat
  <2>1. \A x \in S : Len(x.buffer) \in Nat
    BY DEF DecoderState, S
  <2> QED
    BY <1>2, <1>10, <2>1
<1>12. Stuck(e)
  <2> SUFFICES ASSUME ~Stuck(e) PROVE FALSE
    OBVIOUS
  <2>1. Len(NextChunk(c, e).buffer) < Len(e.buffer) /\ Len(e.buffer) <= 0
    BY <1>9, <1>10 DEF RoundOK
  <2> HIDE DEF e
  <2> QED
    BY <1>10, <1>11, <2>1
<1>13. StreamOK(c, e, a) /\ (~e.bad /\ ~e.terminal => a < Len(Response(c)))
  BY <1>10, <1>12 DEF RoundOK, S
<1> QED
  BY <1>4, <1>13

-----------------------------------------------------------------------------
(* What a call is.                                                         *)

\* What the proofs need to know of a call.
CallOK(c) ==
    /\ c.kind \in {"pull", "read", "create", "generate"}
    /\ c.framing \in {"chunked", "plain", "length"}
    /\ c.body \in Seq(Byte)
    /\ InChunks(c) => ChunkedCall(c)

\* A division of a body is a sequence of numbers that divides it.
LEMMA DivisionsAre ==
    ASSUME NEW length \in Nat, NEW ends \in Divisions(length)
    PROVE  ends \in Seq(Nat) /\ Divides(ends, length)
<1>1. PICK n \in 1..(MaxChunks + 1) : ends \in [1..n -> 0..length]
  BY DEF Divisions
<1>2. n \in Nat
  BY <1>1
<1>3. ends \in Seq(Nat)
  BY <1>1, <1>2
<1> QED
  BY <1>3 DEF Divisions

\* A call of the model is such a call.
LEMMA CallsAreOK ==
    ASSUME NEW c \in Calls
    PROVE  CallOK(c)
<1>1. Bodies \subseteq Seq(Byte)
  BY ExchangeAssumption
<1>2. CASE c \in ChunkedCalls
  <2>1. PICK b \in Bodies : c \in [kind : {"pull", "read"}, key : {"pinned"}, framing : {"chunked"},
                                   body : {b}, ends : Divisions(Len(b))]
    BY <1>2 DEF ChunkedCalls
  <2>2. b \in Seq(Byte) /\ Len(b) \in Nat /\ c.body = b /\ c.ends \in Divisions(Len(b))
        /\ c.kind \in {"pull", "read"} /\ c.framing = "chunked"
    BY <1>1, <2>1
  <2> DEFINE length == Len(b)
             ends == c.ends
  <2>3. ends \in Seq(Nat) /\ Divides(ends, length)
    <3>1. length \in Nat /\ ends \in Divisions(length)
      BY <2>2
    <3> HIDE DEF length, ends
    <3> QED
      BY <3>1, DivisionsAre
  <2>4. ChunkedCall(c)
    BY <2>2, <2>3 DEF ChunkedCall, InChunks
  <2> QED
    BY <2>2, <2>4 DEF CallOK
<1>3. CASE c \in PlainCalls
  BY <1>1, <1>3 DEF PlainCalls, CallOK, InChunks
<1>4. CASE c \in JoinedCalls
  BY <1>1, <1>4 DEF JoinedCalls, CallOK, InChunks
<1>5. CASE c \in StrangeCalls
  <2>1. <<>> \in Seq(Byte)
    OBVIOUS
  <2> QED
    BY <1>5, <2>1 DEF StrangeCalls, CallOK, InChunks
<1> QED
  BY <1>2, <1>3, <1>4, <1>5 DEF Calls

\* A response begins with a header of two bytes; without chunks the body follows as it is.
LEMMA ResponseIs ==
    ASSUME NEW c, CallOK(c)
    PROVE  /\ Response(c) \in Seq(Byte) /\ Len(Response(c)) \in Nat /\ 2 <= Len(Response(c))
           /\ Response(c)[1] = "h" /\ Response(c)[2] = "H"
           /\ ~InChunks(c) => /\ Len(Response(c)) = 2 + Len(c.body)
                              /\ \A i \in 1..Len(c.body) : Response(c)[2 + i] = c.body[i]
<1> DEFINE body == IF InChunks(c) THEN Chunked(c.body, c.ends) ELSE c.body
           r == Response(c)
<1>1. body \in Seq(Byte)
  BY ChunkedIs DEF CallOK, ChunkedCall
<1>2. r = <<"h", "H">> \o body
  BY DEF Response
<1>3. ~InChunks(c) => body = c.body
  OBVIOUS
<1> HIDE DEF body
<1>4. /\ r \in Seq(Byte) /\ Len(r) = 2 + Len(body) /\ r[1] = "h" /\ r[2] = "H"
      /\ \A i \in 1..Len(body) : r[2 + i] = body[i]
  BY <1>1, <1>2, HeaderIs
<1> HIDE DEF r
<1>5. Len(r) \in Nat /\ 2 <= Len(r)
  <2>1. Len(body) \in Nat
    BY <1>1
  <2> QED
    BY <1>4, <2>1
<1> QED
  BY <1>3, <1>4, <1>5 DEF r

\* The bytes of the body that are there to be reported when a bytes of the response are.
BytesOf(c, a) == IF InChunks(c) THEN Len(c.body) ELSE IF a < 2 THEN 0 ELSE a - 2

\* What the decoder of an exchange that is not over has made of the first a bytes.
DecoderOK(c, d, a) ==
    /\ d \in DecoderState /\ ~d.bad /\ ~d.terminal
    /\ a \in 0..Len(Response(c))
    /\ ~d.headers => /\ a < 2 /\ IsPart(d.buffer, Response(c), 0, a)
                     /\ d.line = <<>> /\ d.lines = <<>> /\ d.size = 0
    /\ d.headers /\ c.kind \notin Streaming => 2 <= a /\ IsPart(d.buffer, Response(c), 2, a)
    /\ d.headers /\ c.kind \in Streaming /\ InChunks(c) =>
         StreamOK(c, d, a) /\ a < Len(Response(c))
    /\ d.headers /\ c.kind \in Streaming /\ ~InChunks(c) =>
         2 <= a /\ IsPart(d.buffer, Response(c), a, a) /\ LinesOK(c, d, a - 2)

\* No line was reported, and there is none.
LEMMA NothingReported ==
    ASSUME NEW c
    PROVE  Reports(c, <<>>, {})
<1>1. Cardinality({}) = 0 /\ Len(<<>>) = 0
  BY FS_EmptySet
<1> QED
  BY <1>1 DEF Reports

\* Before the first byte there is nothing to report.
LEMMA NoLinesOK ==
    ASSUME NEW c, c.body \in Seq(Byte), NEW d \in DecoderState,
           d.line = <<>>, d.lines = <<>>, ~d.bad
    PROVE  LinesOK(c, d, 0)
<1>1. Lines(c, 0) = {}
  BY LinesStep
<1>2. LineAt(c.body, 0) = <<>>
  BY LineAtIs
<1> QED
  BY <1>1, <1>2, NothingReported DEF LinesOK

\* What a stream has reported are the lines of the body up to some byte of it.
LEMMA ReportedInOrder ==
    ASSUME NEW c, CallOK(c), NEW d, NEW a, DecoderOK(c, d, a), c.kind \in Streaming
    PROVE  \E n \in 0..BytesOf(c, a) : Reports(c, d.lines, Lines(c, n))
<1>1. c.body \in Seq(Byte) /\ Len(c.body) \in Nat
  BY DEF CallOK
<1>2. Len(Response(c)) \in Nat /\ a \in Nat /\ a <= Len(Response(c))
  <2>1. Len(Response(c)) \in Nat
    BY ResponseIs
  <2> QED
    BY <2>1 DEF DecoderOK
<1>3. BytesOf(c, a) \in Nat
  BY <1>1, <1>2 DEF BytesOf
<1>4. CASE ~d.headers
  <2>1. d.lines = <<>>
    BY <1>4 DEF DecoderOK
  <2>2. Lines(c, 0) = {} /\ 0 \in 0..BytesOf(c, a)
    BY <1>1, <1>3, LinesStep
  <2> QED
    BY <2>1, <2>2, NothingReported
<1>5. CASE d.headers /\ InChunks(c)
  <2>1. PICK k \in 1..Len(c.ends) : AtChunk(c, d, a, k)
    BY <1>5 DEF DecoderOK, StreamOK
  <2> DEFINE b == Before(c.ends, k)
  <2>2. LinesOK(c, d, b) /\ ~d.bad
    BY <2>1 DEF AtChunk, DecoderOK
  <2>3. ChunkedCall(c)
    BY <1>5 DEF CallOK
  <2>4. HasChunk(c, 2 + Offset(c.ends, k), SizeOf(c.ends, k), b)
    BY <2>3, ChunkedResponse
  <2>5. b \in 0..Len(c.body)
    <3>1. b \in Nat /\ SizeOf(c.ends, k) \in 0..9 /\ b + SizeOf(c.ends, k) <= Len(c.body)
      BY <2>4 DEF HasChunk
    <3> HIDE DEF b
    <3> QED
      BY <1>1, <3>1
  <2>6. b \in 0..BytesOf(c, a)
    BY <1>5, <2>5 DEF BytesOf
  <2> HIDE DEF b
  <2> QED
    BY <2>2, <2>6 DEF LinesOK
<1>6. CASE d.headers /\ ~InChunks(c)
  <2>1. 2 <= a /\ LinesOK(c, d, a - 2) /\ ~d.bad
    BY <1>6 DEF DecoderOK
  <2>2. BytesOf(c, a) = a - 2 /\ a - 2 \in 0..BytesOf(c, a)
    BY <1>2, <1>6, <2>1 DEF BytesOf
  <2> QED
    BY <2>1, <2>2 DEF LinesOK
<1> QED
  BY <1>4, <1>5, <1>6

\* The header is off the buffer.
TakeHeader(d, buffer) == [d EXCEPT !.headers = TRUE, !.buffer = buffer]

\* That changes nothing else.
LEMMA HeaderTaken ==
    ASSUME NEW d \in DecoderState, NEW buffer \in Seq(Byte), NEW e, e = TakeHeader(d, buffer)
    PROVE  /\ e \in DecoderState /\ e.headers /\ e.buffer = buffer /\ e.size = d.size
           /\ e.terminal = d.terminal /\ e.bad = d.bad /\ e.line = d.line /\ e.lines = d.lines
  BY DEF DecoderState, TakeHeader

\* A line is refused for a reason when a bytes of the response are there: without chunks it is
\* the end of the segment that may divide a line.
ExcusedAt(c, a) == IF InChunks(c) THEN ExcusedInChunks(c) ELSE Excused(c, a - 2)

\* The decoder after a segment: what it has made of it, or a line that it refused, or all.
AfterWire(c, e, n) ==
    /\ e \in DecoderState
    /\ ~e.bad /\ ~e.terminal => DecoderOK(c, e, n)
    /\ e.bad => /\ c.kind \in Streaming /\ ExcusedAt(c, n)
                /\ \E m \in 0..BytesOf(c, n) : Reports(c, e.lines, Lines(c, m))
    /\ ~e.bad /\ e.terminal => /\ c.kind \in Streaming /\ InChunks(c)
                               /\ Reports(c, e.lines, AllLines(c, Len(c.body)))

\* A segment of a response in chunks that is decoded as it comes ...
LEMMA WireOfChunks ==
    ASSUME NEW c, CallOK(c), c.kind \in Streaming, InChunks(c),
           NEW d, NEW a, DecoderOK(c, d, a), NEW n \in 0..Len(Response(c)), NEW body,
           d.headers =>
               \A z : IsPart(d.buffer, Response(c), z, a) => IsPart(body, Response(c), z, n),
           ~d.headers => IsPart(body, Response(c), 2, n), body \in Seq(Byte),
           NEW d1, d1 = TakeHeader(d, body)
    PROVE  AfterWire(c, ConsumeChunked(c, d1), n)
<1>1. ChunkedCall(c) /\ c.body \in Seq(Byte) /\ Len(c.body) \in Nat
  BY DEF CallOK
<1>2. /\ d1 \in DecoderState /\ d1.headers /\ d1.buffer = body /\ d1.size = d.size
      /\ d1.terminal = d.terminal /\ d1.bad = d.bad /\ d1.line = d.line /\ d1.lines = d.lines
  BY HeaderTaken DEF DecoderOK
<1>3. ~d1.bad /\ ~d1.terminal
  BY <1>2 DEF DecoderOK
<1>4. \E k \in 1..Len(c.ends) : AtChunk(c, d1, n, k)
  <2>1. CASE d.headers
    <3>1. PICK k \in 1..Len(c.ends) : AtChunk(c, d, a, k)
      BY <2>1 DEF DecoderOK, StreamOK
    <3> DEFINE z == 2 + Offset(c.ends, k) + (IF d.size = 0 THEN 0 ELSE 3)
    <3>2. IsPart(d1.buffer, Response(c), z, n)
      <4>1. IsPart(d.buffer, Response(c), z, a)
        BY <3>1 DEF AtChunk
      <4> HIDE DEF z
      <4> QED
        BY <1>2, <2>1, <4>1
    <3>3. z = 2 + Offset(c.ends, k) + (IF d1.size = 0 THEN 0 ELSE 3)
      BY <1>2
    <3>4. LinesOK(c, d1, Before(c.ends, k))
      BY <1>2, <3>1 DEF AtChunk, LinesOK
    <3> HIDE DEF z
    <3> QED
      BY <1>2, <3>1, <3>2, <3>3, <3>4 DEF AtChunk
  <2>2. CASE ~d.headers
    <3> DEFINE length == Len(c.body)
               ends == c.ends
    <3>1. length \in Nat /\ ends \in Seq(Nat) /\ Divides(ends, length)
      BY <1>1 DEF ChunkedCall
    <3> HIDE DEF length, ends
    <3>2. Len(ends) \in Nat \ {0} /\ Before(ends, 1) = 0 /\ Offset(ends, 1) = 0
      BY <3>1, OffsetIs
    <3>3. d.size = 0 /\ d.line = <<>> /\ d.lines = <<>>
      BY <2>2 DEF DecoderOK
    <3>4. LinesOK(c, d1, 0)
      BY <1>1, <1>2, <1>3, <3>3, NoLinesOK
    <3>5. IsPart(d1.buffer, Response(c), 2 + 0 + 0, n)
      BY <1>2, <2>2
    <3>6. AtChunk(c, d1, n, 1)
      BY <1>2, <3>2, <3>3, <3>4, <3>5 DEF AtChunk, ends
    <3> QED
      BY <3>2, <3>6 DEF ends
  <2> QED
    BY <2>1, <2>2
<1>5. StreamOK(c, d1, n)
  BY <1>2, <1>3, <1>4 DEF StreamOK
<1> DEFINE e == ConsumeChunked(c, d1)
<1>6. StreamOK(c, e, n) /\ (~e.bad /\ ~e.terminal => n < Len(Response(c)))
  BY <1>1, <1>5, ConsumeChunkedOK
<1> HIDE DEF e
<1>7. ~e.bad /\ ~e.terminal => DecoderOK(c, e, n)
  BY <1>6 DEF StreamOK, DecoderOK
<1>8. BytesOf(c, n) = Len(c.body)
  BY DEF BytesOf
<1>9. AfterWire(c, e, n)
  BY <1>6, <1>7, <1>8 DEF AfterWire, StreamOK, ExcusedAt
<1> QED
  BY <1>9 DEF e

\* A byte of the body is two bytes further on in the response.
LEMMA BehindHeader ==
    ASSUME NEW m \in Nat, NEW n \in Nat, NEW l \in Nat, n <= 2 + l, NEW i \in 1..(n - (2 + m))
    PROVE  m + i \in 1..l /\ (2 + m) + i = 2 + (m + i)
  OBVIOUS

\* ... and one of a response without chunks.
LEMMA WireOfLines ==
    ASSUME NEW c, CallOK(c), c.kind \in Streaming, ~InChunks(c),
           NEW d, NEW a, DecoderOK(c, d, a), NEW n \in 0..Len(Response(c)), a <= n, 2 <= n,
           NEW m, m = (IF d.headers THEN a - 2 ELSE 0),
           NEW body, IsPart(body, Response(c), 2 + m, n),
           NEW d1, d1 = TakeHeader(d, <<>>)
    PROVE  AfterWire(c, ConsumeLines(c, d1, body), n)
<1>1. c.body \in Seq(Byte) /\ Len(c.body) \in Nat /\ MaxLine \in Nat
  BY ExchangeAssumption DEF CallOK
<1>2. /\ d1 \in DecoderState /\ d1.headers /\ d1.buffer = <<>> /\ d1.size = d.size
      /\ d1.terminal = d.terminal /\ d1.bad = d.bad /\ d1.line = d.line /\ d1.lines = d.lines
  <2>1. <<>> \in Seq(Byte) /\ d \in DecoderState
    BY DEF DecoderOK
  <2> DEFINE none == <<>>
  <2>2. none \in Seq(Byte) /\ d1 = TakeHeader(d, none)
    BY <2>1
  <2> HIDE DEF none
  <2>3. /\ d1 \in DecoderState /\ d1.headers /\ d1.buffer = none /\ d1.size = d.size
        /\ d1.terminal = d.terminal /\ d1.bad = d.bad /\ d1.line = d.line /\ d1.lines = d.lines
    BY <2>1, <2>2, HeaderTaken
  <2> QED
    BY <2>3 DEF none
<1>3. /\ Len(Response(c)) = 2 + Len(c.body)
      /\ \A i \in 1..Len(c.body) : Response(c)[2 + i] = c.body[i]
  BY ResponseIs
<1>4. m \in Nat /\ 2 + m <= n /\ n \in Nat /\ n <= 2 + Len(c.body)
  <2>1. 2 + m \in Nat /\ 2 + m <= n
    BY DEF IsPart
  <2>2. a \in Nat /\ (d.headers => 2 <= a)
    <3>1. Len(Response(c)) \in Nat
      BY <1>1, <1>3
    <3> QED
      BY <3>1 DEF DecoderOK
  <2>3. m \in Nat
    BY <2>2
  <2> QED
    BY <1>1, <1>3, <2>1, <2>3
<1>5. LinesOK(c, d1, m)
  <2>1. CASE d.headers
    <3>1. LinesOK(c, d, m)
      BY <2>1 DEF DecoderOK
    <3> QED
      BY <1>2, <3>1 DEF LinesOK
  <2>2. CASE ~d.headers
    <3>1. d1.line = <<>> /\ d1.lines = <<>> /\ ~d1.bad
      BY <1>2, <2>2 DEF DecoderOK
    <3> QED
      BY <1>1, <1>2, <2>2, <3>1, NoLinesOK
  <2> QED
    BY <2>1, <2>2
<1>6. body \in Seq(Byte) /\ Len(body) = n - (2 + m)
  BY DEF IsPart
<1>7. m + Len(body) = n - 2 /\ m + Len(body) <= Len(c.body)
  <2> DEFINE k == Len(body)
             l == Len(c.body)
  <2>1. k = n - (2 + m) /\ l \in Nat /\ m \in Nat /\ n \in Nat /\ n <= 2 + l
    BY <1>1, <1>4, <1>6
  <2> HIDE DEF k, l
  <2>2. m + k = n - 2 /\ m + k <= l
    BY <2>1
  <2> QED
    BY <2>2 DEF k, l
<1>8. ASSUME NEW i \in 1..Len(body) PROVE body[i] = c.body[m + i]
  <2>1. i \in 1..(n - (2 + m)) /\ m + i \in 1..Len(c.body) /\ (2 + m) + i = 2 + (m + i)
    <3> DEFINE k == Len(body)
               l == Len(c.body)
    <3>1. k = n - (2 + m) /\ l \in Nat /\ i \in 1..k /\ n <= 2 + l /\ m \in Nat /\ n \in Nat
      BY <1>1, <1>4, <1>6
    <3>2. i \in 1..(n - (2 + m))
      BY <3>1
    <3> HIDE DEF k, l
    <3>3. i \in 1..(n - (2 + m)) /\ m + i \in 1..l /\ (2 + m) + i = 2 + (m + i)
      BY <3>1, <3>2, BehindHeader
    <3> QED
      BY <3>3 DEF l
  <2>2. body[i] = Response(c)[(2 + m) + i]
    BY <2>1 DEF IsPart
  <2> QED
    BY <1>3, <2>1, <2>2
<1> DEFINE e == ConsumeLines(c, d1, body)
<1>9. TakenOK(c, e, n - 2) /\ SameFrame(d1, e)
  BY <1>1, <1>4, <1>5, <1>6, <1>7, <1>8, ConsumeLinesOK
<1> HIDE DEF e
<1>10. e \in DecoderState /\ e.headers /\ e.buffer = <<>> /\ ~e.terminal
  BY <1>2, <1>9 DEF TakenOK, SameFrame, DecoderOK
<1>11. IsPart(e.buffer, Response(c), n, n)
  <2>1. n - n = 0 /\ <<>> \in Seq(Byte) /\ Len(<<>>) = 0
    BY <1>4
  <2> QED
    BY <1>4, <1>10, <2>1 DEF IsPart
<1>12. ~e.bad => DecoderOK(c, e, n)
  BY <1>4, <1>9, <1>10, <1>11, TakenIsLines DEF DecoderOK
<1>13. e.bad => ExcusedAt(c, n) /\ \E j \in 0..BytesOf(c, n) : Reports(c, e.lines, Lines(c, j))
  <2>1. BytesOf(c, n) = n - 2
    BY <1>4 DEF BytesOf
  <2> QED
    BY <1>9, <2>1 DEF TakenOK, ExcusedAt
<1>14. AfterWire(c, e, n)
  BY <1>10, <1>12, <1>13 DEF AfterWire
<1> QED
  BY <1>14 DEF e

\* A segment of any response leaves the decoder as it has to be, wherever it is cut.
LEMMA WireOK ==
    ASSUME NEW c, CallOK(c), NEW d, NEW a, DecoderOK(c, d, a),
           NEW n \in (a + 1)..Len(Response(c))
    PROVE  AfterWire(c, ConsumeWire(c, d, SubSeq(Response(c), a + 1, n)), n)
<1> DEFINE r == Response(c)
           segment == SubSeq(r, a + 1, n)
           buffer == d.buffer \o segment
           body == IF d.headers THEN buffer ELSE SubSeq(buffer, 3, Len(buffer))
           NoBlank == \A i \in 1..Len(buffer) : buffer[i] # "H"
           e == ConsumeWire(c, d, segment)
<1>1. r \in Seq(Byte) /\ Len(r) \in Nat /\ 2 <= Len(r) /\ r[1] = "h" /\ r[2] = "H"
  BY ResponseIs
<1>2. a \in Nat /\ n \in Nat /\ a < n /\ n <= Len(r) /\ n \in 0..Len(r)
  BY <1>1 DEF DecoderOK
<1>3. IsPart(segment, r, a, n)
  <2> HIDE DEF r
  <2>1. segment \in Seq(Byte) /\ Len(segment) = n - a /\ \A i \in 1..(n - a) : segment[i] = r[a + i]
    BY <1>1, <1>2
  <2> QED
    BY <1>2, <2>1 DEF IsPart
<1> HIDE DEF segment
<1>4. ASSUME NEW z, IsPart(d.buffer, r, z, a) PROVE IsPart(buffer, r, z, n)
  <2> HIDE DEF r
  <2> QED
    BY <1>3, <1>4, PartAppend
<1> HIDE DEF buffer
<1>5. e = IF ~d.headers /\ NoBlank THEN [d EXCEPT !.buffer = buffer]
          ELSE IF c.kind \notin Streaming THEN TakeHeader(d, body)
          ELSE IF InChunks(c) THEN ConsumeChunked(c, TakeHeader(d, body))
          ELSE ConsumeLines(c, TakeHeader(d, <<>>), body)
  BY DEF ConsumeWire, TakeHeader, buffer
<1> HIDE DEF e
<1>6. d \in DecoderState /\ ~d.bad /\ ~d.terminal
  BY DEF DecoderOK
<1>7. CASE ~d.headers
  <2>1. IsPart(buffer, r, 0, n)
    BY <1>4, <1>7 DEF DecoderOK
  <2>2. buffer \in Seq(Byte) /\ Len(buffer) = n /\ \A i \in 1..n : buffer[i] = r[i]
    <3>1. n - 0 = n /\ \A i \in 1..n : 0 + i = i
      BY <1>2
    <3> QED
      BY <2>1, <3>1 DEF IsPart
  <2>3. NoBlank <=> n < 2
    <3>1. CASE n < 2
      <4>1. n = 1
        BY <1>2, <3>1
      <4>2. \A i \in 1..1 : i = 1
        OBVIOUS
      <4>3. "h" # "H"
        OBVIOUS
      <4> QED
        BY <1>1, <2>2, <4>1, <4>2, <4>3
    <3>2. CASE ~(n < 2)
      <4>1. 2 \in 1..n
        BY <1>2, <3>2
      <4> QED
        BY <1>1, <2>2, <3>2, <4>1
    <3> QED
      BY <3>1, <3>2
  <2>4. CASE n < 2
    <3>1. e = [d EXCEPT !.buffer = buffer]
      BY <1>5, <1>7, <2>3, <2>4
    <3>2. /\ e \in DecoderState /\ e.headers = d.headers /\ e.buffer = buffer /\ e.size = d.size
          /\ e.terminal = d.terminal /\ e.bad = d.bad /\ e.line = d.line /\ e.lines = d.lines
      BY <1>6, <2>2, <3>1 DEF DecoderState
    <3>3. ~e.headers /\ ~e.bad /\ ~e.terminal /\ d.line = <<>> /\ d.lines = <<>> /\ d.size = 0
      BY <1>6, <1>7, <3>2 DEF DecoderOK
    <3>4. DecoderOK(c, e, n)
      BY <1>2, <2>1, <2>4, <3>2, <3>3 DEF DecoderOK
    <3>9. AfterWire(c, e, n)
      BY <3>2, <3>3, <3>4 DEF AfterWire
    <3> QED
      BY <3>9 DEF e, segment
  <2>5. CASE ~(n < 2)
    <3>1. IsPart(body, r, 2, n)
      <4>1. 2 \in 0..(n - 0) /\ 2 + 1 = 3 /\ 0 + 2 = 2
        BY <1>2, <2>5
      <4>2. IsPart(SubSeq(buffer, 2 + 1, Len(buffer)), r, 0 + 2, n)
        <5> HIDE DEF r
        <5> QED
          BY <2>1, <4>1, PartRest
      <4> QED
        BY <1>7, <4>1, <4>2
    <3> HIDE DEF body
    <3>2. body \in Seq(Byte) /\ 2 <= n
      BY <1>2, <2>5, <3>1 DEF IsPart
    <3>3. CASE c.kind \notin Streaming
      <4>1. e = TakeHeader(d, body)
        BY <1>5, <2>3, <2>5, <3>3 DEF body
      <4>2. e \in DecoderState /\ e.headers /\ e.buffer = body /\ e.terminal = d.terminal
            /\ e.bad = d.bad
        BY <1>6, <3>2, <4>1, HeaderTaken
      <4>3. DecoderOK(c, e, n)
        BY <1>2, <1>6, <3>1, <3>2, <3>3, <4>2 DEF DecoderOK
      <4>9. AfterWire(c, e, n)
        BY <1>6, <4>2, <4>3 DEF AfterWire
      <4> QED
        BY <4>9 DEF e, segment
    <3>4. CASE c.kind \in Streaming /\ InChunks(c)
      <4>1. e = ConsumeChunked(c, TakeHeader(d, body))
        BY <1>5, <2>3, <2>5, <3>4 DEF body
      <4>2. AfterWire(c, ConsumeChunked(c, TakeHeader(d, body)), n)
        <5> DEFINE d1 == TakeHeader(d, body)
        <5>1. d1 = TakeHeader(d, body)
          OBVIOUS
        <5> HIDE DEF d1
        <5>2. AfterWire(c, ConsumeChunked(c, d1), n)
          BY <1>2, <1>7, <3>1, <3>2, <3>4, <5>1, WireOfChunks
        <5> QED
          BY <5>1, <5>2
      <4> QED
        BY <4>1, <4>2 DEF e, segment
    <3>5. CASE c.kind \in Streaming /\ ~InChunks(c)
      <4>1. e = ConsumeLines(c, TakeHeader(d, <<>>), body)
        BY <1>5, <2>3, <2>5, <3>5 DEF body
      <4> DEFINE d1 == TakeHeader(d, <<>>)
      <4>2. d1 = TakeHeader(d, <<>>)
        OBVIOUS
      <4> DEFINE m == IF d.headers THEN a - 2 ELSE 0
      <4>3. m = 0 /\ 2 + 0 = 2
        BY <1>7
      <4>4. IsPart(body, r, 2 + m, n)
        BY <3>1, <4>3
      <4>5. m = IF d.headers THEN a - 2 ELSE 0
        OBVIOUS
      <4>6. a <= n
        BY <1>2
      <4> HIDE DEF d1, m
      <4>7. AfterWire(c, ConsumeLines(c, d1, body), n)
        BY <1>2, <3>2, <3>5, <4>2, <4>4, <4>5, <4>6, WireOfLines
      <4> QED
        BY <4>1, <4>2, <4>7 DEF e, segment
    <3> QED
      BY <3>3, <3>4, <3>5
  <2> QED
    BY <2>4, <2>5
<1>8. CASE d.headers
  <2>1. body = buffer
    BY <1>8
  <2> HIDE DEF body
  <2>2. CASE c.kind \notin Streaming
    <3>1. e = TakeHeader(d, body)
      BY <1>5, <1>8, <2>2 DEF body
    <3>2. IsPart(body, r, 2, n) /\ 2 <= n
      <4>1. IsPart(d.buffer, r, 2, a)
        BY <1>8, <2>2 DEF DecoderOK
      <4>2. IsPart(buffer, r, 2, n)
        BY <1>4, <4>1
      <4> QED
        BY <2>1, <4>2 DEF IsPart
    <3>3. body \in Seq(Byte)
      BY <3>2 DEF IsPart
    <3>4. e \in DecoderState /\ e.headers /\ e.buffer = body /\ e.terminal = d.terminal
          /\ e.bad = d.bad
      BY <1>6, <3>1, <3>3, HeaderTaken
    <3>5. DecoderOK(c, e, n)
      BY <1>2, <1>6, <2>2, <3>2, <3>4 DEF DecoderOK
    <3>9. AfterWire(c, e, n)
      BY <1>6, <3>4, <3>5 DEF AfterWire
    <3> QED
      BY <3>9 DEF e, segment
  <2>3. CASE c.kind \in Streaming /\ InChunks(c)
    <3>1. e = ConsumeChunked(c, TakeHeader(d, body))
      BY <1>5, <1>8, <2>3 DEF body
    <3>2. \A z : IsPart(d.buffer, r, z, a) => IsPart(body, r, z, n)
      BY <1>4, <2>1
    <3>3. body \in Seq(Byte)
      <4>1. PICK k \in 1..Len(c.ends) : AtChunk(c, d, a, k)
        BY <1>8, <2>3 DEF DecoderOK, StreamOK
      <4>2. \E z : IsPart(d.buffer, r, z, a)
        BY <4>1 DEF AtChunk
      <4> QED
        BY <3>2, <4>2 DEF IsPart
    <3> DEFINE d1 == TakeHeader(d, body)
    <3>4. d1 = TakeHeader(d, body)
      OBVIOUS
    <3> HIDE DEF d1
    <3>5. AfterWire(c, ConsumeChunked(c, d1), n)
      BY <1>2, <1>8, <2>3, <3>2, <3>3, <3>4, WireOfChunks
    <3> QED
      BY <3>1, <3>4, <3>5 DEF e, segment
  <2>4. CASE c.kind \in Streaming /\ ~InChunks(c)
    <3>1. e = ConsumeLines(c, TakeHeader(d, <<>>), body)
      BY <1>5, <1>8, <2>4 DEF body
    <3>2. IsPart(d.buffer, r, a, a) /\ 2 <= a
      BY <1>8, <2>4 DEF DecoderOK
    <3>3. IsPart(body, r, a, n)
      BY <1>4, <2>1, <3>2
    <3> DEFINE d1 == TakeHeader(d, <<>>)
               m == IF d.headers THEN a - 2 ELSE 0
    <3>4. d1 = TakeHeader(d, <<>>) /\ m = (IF d.headers THEN a - 2 ELSE 0)
      OBVIOUS
    <3>5. 2 + m = a /\ a <= n /\ 2 <= n
      BY <1>2, <1>8, <3>2
    <3> HIDE DEF d1, m
    <3>6. IsPart(body, r, 2 + m, n)
      BY <3>3, <3>5
    <3>7. AfterWire(c, ConsumeLines(c, d1, body), n)
      BY <1>2, <2>4, <3>4, <3>5, <3>6, WireOfLines
    <3> QED
      BY <3>1, <3>4, <3>7 DEF e, segment
  <2> QED
    BY <2>2, <2>3, <2>4
<1> QED
  BY <1>7, <1>8

-----------------------------------------------------------------------------
(* Decoding a response that is whole.                                      *)

\* f holds what the loop over a whole response has after as many rounds as its argument tells.
DecodesBytes(f, bytes) ==
    /\ f[0] = [at |-> 0, body |-> <<>>, result |-> "more"]
    /\ \A i \in 1..(Len(bytes) + 1) : f[i] = NextDecoded(bytes, f[i - 1])
    /\ DecodeChunked(bytes) = f[Len(bytes) + 1]

\* The loop over the chunks of a response, as a function of how many rounds were taken.
LEMMA DecodeChunkedIs ==
    ASSUME NEW bytes \in Seq(Byte), NEW S, [at |-> 0, body |-> <<>>, result |-> "more"] \in S,
           \A s \in S : NextDecoded(bytes, s) \in S
    PROVE  \E f \in [0..(Len(bytes) + 1) -> S] : DecodesBytes(f, bytes)
<1> DEFINE n == Len(bytes) + 1
           first == [at |-> 0, body |-> <<>>, result |-> "more"]
           G == [x \in S \X Nat |-> NextDecoded(bytes, x[1])]
<1>1. n \in Nat
  OBVIOUS
<1>2. G \in [S \X Nat -> S]
  <2>1. ASSUME NEW x \in S \X Nat PROVE NextDecoded(bytes, x[1]) \in S
    OBVIOUS
  <2> QED
    BY <2>1
<1>11. first \in S
  OBVIOUS
<1> HIDE DEF G, n, first
<1>3. \E f \in [0..n -> S] : Follows(f, first, G, n)
  BY <1>1, <1>2, <1>11, Recursion
<1>4. PICK f \in [0..n -> S] : f[0] = first /\ \A i \in 1..n : f[i] = G[<<f[i - 1], i>>]
  BY <1>3 DEF Follows
<1>5. ASSUME NEW i \in 1..n PROVE f[i] = NextDecoded(bytes, f[i - 1])
  <2>1. i \in Nat /\ i - 1 \in 0..n
    BY <1>1
  <2>2. f[i - 1] \in S
    BY <2>1
  <2> DEFINE x == <<f[i - 1], i>>
  <2>3. x \in S \X Nat /\ x[1] = f[i - 1]
    BY <2>1, <2>2
  <2>4. f[i] = G[x]
    BY <1>4
  <2> HIDE DEF x
  <2> QED
    BY <2>3, <2>4 DEF G
<1> DEFINE Def(g) == [i \in 0..(Len(bytes) + 1) |->
                        IF i = 0 THEN [at |-> 0, body |-> <<>>, result |-> "more"]
                        ELSE NextDecoded(bytes, g[i - 1])]
           after == CHOOSE g : g = Def(g)
<1>6. f = Def(f)
  BY <1>4, <1>5 DEF n, first
<1>7. after = Def(after)
  BY <1>6
<1>8. DecodeChunked(bytes) = after[Len(bytes) + 1]
  BY DEF DecodeChunked
<1> HIDE DEF after
<1>9. \A i \in 0..n : after[i] = f[i]
  <2> DEFINE A == {i \in Nat : i \in 0..n => after[i] = f[i]}
  <2>1. 0 \in A
    BY <1>4, <1>7 DEF first
  <2>2. ASSUME NEW i \in Nat, i \in A PROVE i + 1 \in A
    <3>1. CASE i + 1 \in 0..n
      <4>1. after[i + 1] = NextDecoded(bytes, after[i]) /\ after[i] = f[i]
        <5>1. i + 1 \in 0..(Len(bytes) + 1) /\ i + 1 # 0 /\ (i + 1) - 1 = i /\ i \in 0..n
          BY <3>1, <1>1 DEF n
        <5> QED
          BY <5>1, <1>7, <2>2
      <4>2. f[i + 1] = NextDecoded(bytes, f[i])
        <5>1. i + 1 \in 1..n /\ (i + 1) - 1 = i
          BY <3>1
        <5> QED
          BY <5>1, <1>5
      <4> QED
        BY <4>1, <4>2
    <3> QED
      BY <3>1
  <2> HIDE DEF A
  <2>3. Nat \subseteq A
    BY <2>1, <2>2, SetInduction
  <2> QED
    BY <1>1, <2>3 DEF A
<1>10. DecodesBytes(f, bytes)
  <2>1. after[n] = f[n]
    BY <1>1, <1>9
  <2> QED
    BY <1>4, <1>5, <1>8, <2>1 DEF DecodesBytes, n, first
<1> QED
  BY <1>4, <1>10 DEF n

\* The chunks before the one at which the loop is were joined; the loop ends well with all
\* of the body, and badly only when there is more to come.
DecodedOK(c, s, a) ==
    /\ s \in [at : Nat, body : Seq(Byte), result : {"more", "ok", "error"}]
    /\ s.result = "more" =>
         /\ s.at + 2 <= a
         /\ \E k \in 1..Len(c.ends) : /\ s.at = Offset(c.ends, k)
                                      /\ s.body = SubSeq(c.body, 1, Before(c.ends, k))
    /\ s.result = "ok" => s.body = c.body
    /\ s.result = "error" => a < Len(Response(c))

\* The x-th to the y-th of a sequence.
LEMMA PartOfSequence ==
    ASSUME NEW bytes \in Seq(Byte), NEW x \in Nat \ {0}, NEW y \in Nat, x <= y + 1, y <= Len(bytes)
    PROVE  /\ SubSeq(bytes, x, y) \in Seq(Byte) /\ Len(SubSeq(bytes, x, y)) = y - x + 1
           /\ \A i \in 1..(y - x + 1) : SubSeq(bytes, x, y)[i] = bytes[x + i - 1]
  OBVIOUS

\* Two parts of a sequence that follow each other.
LEMMA TwoParts ==
    ASSUME NEW x \in Seq(Byte), NEW b \in Nat, NEW s \in Nat, b + s <= Len(x),
           NEW y \in Seq(Byte), Len(y) = s, \A i \in 1..s : y[i] = x[b + i]
    PROVE  SubSeq(x, 1, b) \o y = SubSeq(x, 1, b + s)
<1> DEFINE u == SubSeq(x, 1, b)
           v == SubSeq(x, 1, b + s)
           w == u \o y
<1>1. u \in Seq(Byte) /\ Len(u) = b /\ \A i \in 1..b : u[i] = x[i]
  OBVIOUS
<1>2. v \in Seq(Byte) /\ Len(v) = b + s /\ \A i \in 1..(b + s) : v[i] = x[i]
  OBVIOUS
<1> HIDE DEF u, v
<1>3. /\ w \in Seq(Byte) /\ Len(w) = b + s
      /\ \A i \in 1..(b + s) : w[i] = IF i <= b THEN u[i] ELSE y[i - b]
  BY <1>1
<1> HIDE DEF w
<1>4. ASSUME NEW i \in 1..(b + s) PROVE w[i] = v[i]
  <2>1. CASE i <= b
    <3>1. i \in 1..b
      BY <2>1
    <3>2. w[i] = u[i]
      BY <1>3, <2>1
    <3>3. u[i] = x[i] /\ v[i] = x[i]
      BY <1>1, <1>2, <3>1
    <3> QED
      BY <3>2, <3>3
  <2>2. CASE ~(i <= b)
    <3>1. i - b \in 1..s /\ b + (i - b) = i
      BY <2>2
    <3> QED
      BY <1>2, <1>3, <2>2, <3>1
  <2> QED
    BY <2>1, <2>2
<1>5. w = v
  BY <1>2, <1>3, <1>4
<1> QED
  BY <1>5 DEF u, v, w

\* A round of the loop joins one more chunk.
LEMMA NextDecodedOK ==
    ASSUME NEW c, ChunkedCall(c), NEW bytes, NEW a, IsPart(bytes, Response(c), 2, a),
           a <= Len(Response(c)), NEW s, DecodedOK(c, s, a)
    PROVE  /\ DecodedOK(c, NextDecoded(bytes, s), a)
           /\ NextDecoded(bytes, s).result = "more" => NextDecoded(bytes, s).at > s.at
<1> DEFINE r == Response(c)
           n == Len(bytes)
           EndsLine(i) == bytes[i] = CR /\ bytes[i + 1] = LF
           digit == bytes[s.at + 1]
           next == s.at + Size(digit) + 5
           e == NextDecoded(bytes, s)
<1>1. /\ bytes \in Seq(Byte) /\ n \in Nat /\ a \in Nat /\ 2 <= a /\ n = a - 2
      /\ \A i \in 1..n : bytes[i] = r[2 + i]
  BY DEF IsPart
<1>2. c.body \in Seq(Byte) /\ Len(c.body) \in Nat /\ Len(r) \in Nat
  <2>1. c.body \in Seq(Byte) /\ r \in Seq(Byte)
    BY ChunkedResponse DEF ChunkedCall
  <2> QED
    BY <2>1
<1>14. n \in Nat /\ a \in Nat /\ n = a - 2
  BY <1>1
<1>15. Len(r) \in Nat
  BY <1>2
<1>3. CASE s.result # "more"
  <2>1. e = s
    BY <1>3 DEF NextDecoded
  <2> QED
    BY <1>3, <2>1
<1>4. CASE s.result = "more"
  <2>1. PICK k \in 1..Len(c.ends) : /\ s.at = Offset(c.ends, k)
                                    /\ s.body = SubSeq(c.body, 1, Before(c.ends, k))
    BY <1>4 DEF DecodedOK
  <2> DEFINE o == Offset(c.ends, k)
             z == SizeOf(c.ends, k)
             b == Before(c.ends, k)
  <2>2. HasChunk(c, 2 + o, z, b)
    BY ChunkedResponse
  <2>3. z \in 0..9 /\ b \in Nat /\ b + z <= Len(c.body) /\ (2 + o) + z + 5 <= Len(r)
    BY <2>2 DEF HasChunk
  <2>4. /\ o \in Nat /\ (z = 0 <=> k = Len(c.ends))
        /\ z = 0 => b = Len(c.body)
        /\ z # 0 => /\ k + 1 \in 1..Len(c.ends) /\ Before(c.ends, k + 1) = b + z
                    /\ Offset(c.ends, k + 1) = o + z + 5
    <3> DEFINE length == Len(c.body)
               ends == c.ends
    <3>1. length \in Nat /\ ends \in Seq(Nat) /\ Divides(ends, length) /\ k \in 1..Len(ends)
      BY <1>2 DEF ChunkedCall
    <3> HIDE DEF length, ends
    <3>2. /\ Offset(ends, k) \in Nat /\ (SizeOf(ends, k) = 0 <=> k = Len(ends))
          /\ k = Len(ends) => Before(ends, k) = length
          /\ k # Len(ends) => /\ k + 1 \in 1..Len(ends)
                              /\ Before(ends, k + 1) = Before(ends, k) + SizeOf(ends, k)
                              /\ Offset(ends, k + 1) = Offset(ends, k) + SizeOf(ends, k) + 5
      BY <3>1, OffsetIs
    <3> QED
      BY <3>2 DEF ends, length
  <2>12. o \in Nat /\ z \in 0..9 /\ (2 + o) + z + 5 <= Len(r)
    BY <2>3, <2>4
  <2>5. s.at = o /\ s.body = SubSeq(c.body, 1, b) /\ o + 2 <= a
    BY <1>4, <2>1 DEF DecodedOK
  <2>6. /\ o + 1 <= n => bytes[o + 1] = Digit[z]
        /\ o + 2 <= n => bytes[o + 2] = CR
        /\ o + 3 <= n => bytes[o + 3] = LF
        /\ o + z + 4 <= n => bytes[o + z + 4] = CR
        /\ o + z + 5 <= n => bytes[o + z + 5] = LF
        /\ \A i \in 1..z : o + 3 + i <= n => bytes[o + 3 + i] = c.body[b + i]
    <3>1. /\ r[(2 + o) + 1] = Digit[z] /\ r[(2 + o) + 2] = CR /\ r[(2 + o) + 3] = LF
          /\ \A i \in 1..z : r[(2 + o) + 3 + i] = c.body[b + i]
          /\ r[(2 + o) + z + 4] = CR /\ r[(2 + o) + z + 5] = LF
      BY <2>2 DEF HasChunk
    <3> HIDE DEF o, z, b, r, n
    <3>2. \A i \in 1..(z + 5) : o + i <= n => bytes[o + i] = r[(2 + o) + i]
      <4>1. ASSUME NEW i \in 1..(z + 5), o + i <= n PROVE bytes[o + i] = r[(2 + o) + i]
        <5>1. o + i \in 1..n /\ 2 + (o + i) = (2 + o) + i
          BY <1>14, <2>12, <4>1
        <5> QED
          BY <1>1, <5>1
      <4> QED
        BY <4>1
    <3>3. /\ 1 \in 1..(z + 5) /\ 2 \in 1..(z + 5) /\ 3 \in 1..(z + 5) /\ z + 4 \in 1..(z + 5)
          /\ z + 5 \in 1..(z + 5)
          /\ o + z + 4 = o + (z + 4) /\ o + z + 5 = o + (z + 5)
          /\ (2 + o) + z + 4 = (2 + o) + (z + 4) /\ (2 + o) + z + 5 = (2 + o) + (z + 5)
          /\ \A i \in 1..z : /\ 3 + i \in 1..(z + 5) /\ o + 3 + i = o + (3 + i)
                             /\ (2 + o) + 3 + i = (2 + o) + (3 + i)
      BY <2>3, <2>4
    <3>4. \A i \in 1..z : o + 3 + i <= n => bytes[o + 3 + i] = c.body[b + i]
      BY <3>1, <3>2, <3>3
    <3>5. (o + z + 4 <= n => bytes[o + z + 4] = CR) /\ (o + z + 5 <= n => bytes[o + z + 5] = LF)
      BY <3>1, <3>2, <3>3
    <3> QED
      BY <3>1, <3>2, <3>3, <3>4, <3>5
  <2>7. Size(Digit[z]) = z /\ IsDigit(Digit[z])
    BY <2>3, DigitIs
  <2> DEFINE Cut == (\A i \in (s.at + 1)..(n - 1) : ~EndsLine(i)) \/ ~IsDigit(digit)
  <2>8. e = IF Cut THEN [s EXCEPT !.result = "error"]
            ELSE IF Size(digit) = 0 THEN [s EXCEPT !.result = "ok"]
            ELSE IF next > n \/ ~EndsLine(next - 1) THEN [s EXCEPT !.result = "error"]
            ELSE [s EXCEPT !.at = next, !.body = s.body \o SubSeq(bytes, s.at + 4, next - 2)]
    BY <1>4 DEF NextDecoded, DecodedOK
  <2>9. s \in [at : Nat, body : Seq(Byte), result : {"more", "ok", "error"}]
    BY DEF DecodedOK
  <2> HIDE DEF o, z, b, e
  <2>10. CASE Cut
    <3>1. e = [s EXCEPT !.result = "error"]
      BY <2>8, <2>10
    <3>2. a < Len(r)
      <4> SUFFICES ASSUME ~(a < Len(r)) PROVE FALSE
        OBVIOUS
      <4> HIDE DEF n, r
      <4>1. /\ o + 1 <= n /\ o + 2 <= n /\ o + 3 <= n
            /\ o + 2 \in (o + 1)..(n - 1) /\ (o + 2) + 1 = o + 3
        BY <1>14, <1>15, <2>12
      <4>2. EndsLine(o + 2) /\ bytes[o + 1] = Digit[z]
        BY <2>6, <4>1
      <4> QED
        BY <2>5, <2>7, <2>10, <4>1, <4>2
    <3>3. DecodedOK(c, e, a) /\ e.result # "more"
      BY <2>9, <3>1, <3>2 DEF DecodedOK
    <3> QED
      BY <3>3 DEF e
  <2>11. CASE ~Cut
    <3>1. digit = Digit[z]
      <4>1. PICK i \in (s.at + 1)..(n - 1) : EndsLine(i)
        BY <2>11
      <4>2. o + 1 <= n
        BY <1>1, <2>4, <2>5, <4>1
      <4> QED
        BY <2>5, <2>6, <4>2
    <3>2. Size(digit) = z /\ next = o + z + 5
      BY <2>5, <2>7, <3>1
    <3>3. CASE z = 0
      <4>1. e = [s EXCEPT !.result = "ok"]
        BY <2>8, <2>11, <3>2, <3>3
      <4>2. s.body = c.body
        <5> DEFINE body == c.body
        <5>1. body \in Seq(Byte) /\ s.body = SubSeq(body, 1, Len(body))
          BY <1>2, <2>4, <2>5, <3>3
        <5> HIDE DEF body
        <5>2. SubSeq(body, 1, Len(body)) = body
          BY <5>1
        <5> QED
          BY <5>1, <5>2 DEF body
      <4>3. DecodedOK(c, e, a) /\ e.result # "more"
        BY <2>9, <4>1, <4>2 DEF DecodedOK
      <4> QED
        BY <4>3 DEF e
    <3>4. CASE z # 0 /\ (next > n \/ ~EndsLine(next - 1))
      <4>1. e = [s EXCEPT !.result = "error"]
        BY <2>8, <2>11, <3>2, <3>4
      <4>2. a < Len(r)
        <5> SUFFICES ASSUME ~(a < Len(r)) PROVE FALSE
          OBVIOUS
        <5>1. next = o + z + 5
          BY <3>2
        <5> HIDE DEF n, r, next
        <5>2. ~(next > n) /\ next - 1 = o + z + 4 /\ (next - 1) + 1 = o + z + 5
              /\ o + z + 4 <= n /\ o + z + 5 <= n
          BY <1>1, <1>2, <2>3, <2>4, <5>1
        <5> QED
          BY <2>6, <3>4, <5>2
      <4>3. DecodedOK(c, e, a) /\ e.result # "more"
        BY <2>9, <4>1, <4>2 DEF DecodedOK
      <4> QED
        BY <4>3 DEF e
    <3>5. CASE z # 0 /\ ~(next > n \/ ~EndsLine(next - 1))
      <4> DEFINE part == SubSeq(bytes, s.at + 4, next - 2)
      <4>1. e = [s EXCEPT !.at = next, !.body = s.body \o part]
        BY <2>8, <2>11, <3>2, <3>5
      <4>2. next = o + z + 5 /\ next \in Nat /\ next <= n /\ next - 2 = o + z + 3 /\ next > s.at
        <5>1. next = o + z + 5 /\ ~(next > n) /\ s.at = o
          BY <2>5, <3>2, <3>5
        <5> HIDE DEF next, n
        <5> QED
          BY <1>14, <2>12, <5>1
      <4>3. part \in Seq(Byte) /\ Len(part) = z /\ \A i \in 1..z : part[i] = bytes[o + 3 + i]
        <5>1. s.at + 4 = o + 4 /\ next - 2 = o + z + 3
          BY <2>5, <4>2
        <5> DEFINE x == o + 4
                   y == o + z + 3
        <5>2. part = SubSeq(bytes, x, y)
          BY <5>1
        <5>3. x \in Nat \ {0} /\ y \in Nat /\ x <= y + 1 /\ y <= n /\ y - x + 1 = z
              /\ \A i \in 1..z : x + i - 1 = o + 3 + i
          <6> HIDE DEF n, next
          <6> QED
            BY <1>1, <2>3, <2>4, <4>2
        <5> HIDE DEF part, x, y
        <5>4. /\ part \in Seq(Byte) /\ Len(part) = y - x + 1
              /\ \A i \in 1..(y - x + 1) : part[i] = bytes[x + i - 1]
          <6>1. bytes \in Seq(Byte) /\ x \in Nat \ {0} /\ y \in Nat /\ x <= y + 1 /\ y <= Len(bytes)
            BY <1>1, <5>3
          <6> QED
            BY <5>2, <6>1, PartOfSequence
        <5> QED
          BY <5>3, <5>4
      <4>4. ASSUME NEW i \in 1..z PROVE part[i] = c.body[b + i]
        <5>1. o + 3 + i <= n
          <6> HIDE DEF n, next
          <6> QED
            BY <1>1, <2>3, <2>4, <4>2
        <5> QED
          BY <2>6, <4>3, <5>1
      <4>5. s.body \o part = SubSeq(c.body, 1, b + z)
        <5> DEFINE body == c.body
        <5>1. body \in Seq(Byte) /\ b \in Nat /\ z \in Nat /\ b + z <= Len(body)
              /\ s.body = SubSeq(body, 1, b)
              /\ \A i \in 1..z : part[i] = body[b + i]
          <6>1. c.body \in Seq(Byte) /\ s.body = SubSeq(c.body, 1, b)
            BY <1>2, <2>5
          <6>2. b \in Nat /\ z \in Nat /\ b + z <= Len(c.body)
            BY <2>3
          <6> HIDE DEF part
          <6> QED
            BY <6>1, <6>2, <4>4
        <5> HIDE DEF body, part
        <5>2. SubSeq(body, 1, b) \o part = SubSeq(body, 1, b + z)
          BY <4>3, <5>1, TwoParts
        <5> QED
          BY <5>1, <5>2 DEF body
      <4> DEFINE joined == s.body \o part
      <4>6. joined \in Seq(Byte)
        BY <2>9, <4>3
      <4>7. e = [s EXCEPT !.at = next, !.body = joined]
        BY <4>1
      <4>8. joined = SubSeq(c.body, 1, Before(c.ends, k + 1)) /\ next = Offset(c.ends, k + 1)
            /\ k + 1 \in 1..Len(c.ends)
        BY <2>4, <3>5, <4>2, <4>5
      <4>9. next + 2 <= a
        <5> HIDE DEF next, n
        <5> QED
          BY <1>1, <4>2
      <4> HIDE DEF next, joined
      <4>10. e \in [at : Nat, body : Seq(Byte), result : {"more", "ok", "error"}]
             /\ e.at = next /\ e.body = joined /\ e.result = "more"
        BY <1>4, <2>9, <4>2, <4>6, <4>7
      <4>11. DecodedOK(c, e, a)
        BY <4>8, <4>9, <4>10 DEF DecodedOK
      <4> QED
        BY <4>2, <4>10, <4>11 DEF e
    <3> QED
      BY <3>3, <3>4, <3>5
  <2> QED
    BY <2>10, <2>11
<1> QED
  BY <1>3, <1>4

\* A response that is read in one piece ends well with its whole body, and ends well when
\* it is whole.
LEMMA DecodeChunkedOK ==
    ASSUME NEW c, ChunkedCall(c), NEW bytes, NEW a, IsPart(bytes, Response(c), 2, a),
           a <= Len(Response(c))
    PROVE  LET s == DecodeChunked(bytes) IN
           /\ s.result = "ok" => s.body = c.body
           /\ s.result # "ok" => a < Len(Response(c))
<1> DEFINE State == [at : Nat, body : Seq(Byte), result : {"more", "ok", "error"}]
           S == {s \in State : DecodedOK(c, s, a)}
           n == Len(bytes)
           first == [at |-> 0, body |-> <<>>, result |-> "more"]
<1>1. bytes \in Seq(Byte) /\ n \in Nat /\ a \in Nat /\ 2 <= a /\ n = a - 2
  BY DEF IsPart
<1>2. first \in S
  <2> DEFINE length == Len(c.body)
             ends == c.ends
  <2>1. length \in Nat /\ ends \in Seq(Nat) /\ Divides(ends, length) /\ c.body \in Seq(Byte)
    BY DEF ChunkedCall
  <2>2. SubSeq(c.body, 1, 0) = <<>> /\ <<>> \in Seq(Byte)
    BY <2>1
  <2> HIDE DEF length, ends
  <2>3. Len(ends) \in Nat \ {0} /\ Before(ends, 1) = 0 /\ Offset(ends, 1) = 0
    BY <2>1, OffsetIs
  <2>4. 1 \in 1..Len(c.ends) /\ Offset(c.ends, 1) = 0 /\ SubSeq(c.body, 1, Before(c.ends, 1)) = <<>>
    BY <2>2, <2>3 DEF ends
  <2>5. first \in State /\ first.at = 0 /\ first.body = <<>> /\ first.result = "more"
    BY <2>2
  <2> HIDE DEF first
  <2>6. DecodedOK(c, first, a)
    <3>1. first.at + 2 <= a
      BY <1>1, <2>5
    <3>2. \E k \in 1..Len(c.ends) : /\ first.at = Offset(c.ends, k)
                                    /\ first.body = SubSeq(c.body, 1, Before(c.ends, k))
      BY <2>4, <2>5
    <3> QED
      BY <2>5, <3>1, <3>2 DEF DecodedOK
  <2> QED
    BY <2>5, <2>6
<1>3. ASSUME NEW s \in S
      PROVE  /\ NextDecoded(bytes, s) \in S
             /\ NextDecoded(bytes, s).result = "more" => NextDecoded(bytes, s).at > s.at
  <2>1. DecodedOK(c, NextDecoded(bytes, s), a)
    BY NextDecodedOK
  <2>2. NextDecoded(bytes, s).result = "more" => NextDecoded(bytes, s).at > s.at
    BY NextDecodedOK
  <2> QED
    BY <2>1, <2>2 DEF DecodedOK
<1>4. PICK f \in [0..(n + 1) -> S] : DecodesBytes(f, bytes)
  <2> HIDE DEF S
  <2> QED
    BY <1>1, <1>2, <1>3, DecodeChunkedIs
<1>5. f[0] = first /\ (\A i \in 1..(n + 1) : f[i] = NextDecoded(bytes, f[i - 1]))
      /\ DecodeChunked(bytes) = f[n + 1]
  BY <1>4 DEF DecodesBytes
<1>6. \A s \in S : DecodedOK(c, s, a) /\ s.at \in Nat
  OBVIOUS
<1> DEFINE A == {i \in Nat : i \in 0..(n + 1) => (f[i].result = "more" => i <= f[i].at)}
<1>7. 0 \in A
  BY <1>5
<1> HIDE DEF n, S, State
<1>8. ASSUME NEW i \in Nat, i \in A PROVE i + 1 \in A
  <2> SUFFICES ASSUME i + 1 \in 0..(n + 1), f[i + 1].result = "more" PROVE i + 1 <= f[i + 1].at
    OBVIOUS
  <2>1. i \in 0..(n + 1) /\ i + 1 \in 1..(n + 1) /\ (i + 1) - 1 = i
    BY <1>1
  <2>2. f[i + 1] = NextDecoded(bytes, f[i]) /\ f[i] \in S /\ f[i + 1] \in S
    BY <1>4, <1>5, <2>1
  <2>3. f[i + 1].at > f[i].at /\ f[i].at \in Nat /\ f[i + 1].at \in Nat
    BY <1>3, <1>6, <2>2
  <2>4. f[i].result = "more"
    BY <2>2 DEF NextDecoded
  <2>5. i <= f[i].at
    BY <1>8, <2>1, <2>4
  <2> QED
    BY <2>3, <2>5
<1> HIDE DEF A
<1>9. Nat \subseteq A
  BY <1>7, <1>8, SetInduction
<1> DEFINE s == f[n + 1]
<1>10. n + 1 \in 0..(n + 1) /\ n + 1 \in A
  BY <1>1, <1>9
<1>11. DecodedOK(c, s, a) /\ s.at \in Nat
  BY <1>4, <1>6, <1>10
<1>12. s.result # "more"
  <2> SUFFICES ASSUME s.result = "more" PROVE FALSE
    OBVIOUS
  <2>1. n + 1 <= s.at
    BY <1>10 DEF A
  <2>2. s.at + 2 <= a
    BY <1>11 DEF DecodedOK
  <2> HIDE DEF s
  <2> QED
    BY <1>1, <1>11, <2>1, <2>2
<1>13. (s.result = "ok" => s.body = c.body) /\ (s.result # "ok" => a < Len(Response(c)))
  BY <1>11, <1>12 DEF DecodedOK
<1> QED
  BY <1>5, <1>13

-----------------------------------------------------------------------------
(* The exchange.                                                           *)

\* How an exchange is settled, or not.
Outcomes == {"none", "done", "invalid", "timeout", "aborted", "mismatch", "connect_failed",
             "forward_failed"}

\* The three properties of an exchange, of its state as parameters: what is reported, what a
\* success tells and what a refusal.
SettledOK(c, d, a, o) ==
    /\ c.kind \in Streaming =>
         \/ \E n \in 0..BytesOf(c, a) : Reports(c, d.lines, Lines(c, n))
         \/ o = "done" /\ Reports(c, d.lines, AllLines(c, BytesOf(c, a)))
    /\ o = "done" =>
         /\ c.kind \in Streaming => Reports(c, d.lines, AllLines(c, BytesOf(c, a)))
         /\ c.kind \in {"create", "generate"} /\ c.framing # "plain" => a = Len(Response(c))
         /\ c.kind = "read" /\ c.framing # "plain" => d.line = c.body
    /\ d.bad => ExcusedAt(c, a)
    /\ o = "invalid" /\ ~d.bad =>
         IF c.kind = "generate" THEN a # Len(Response(c)) \/ ~IsObject(Trimmed(c.body))
         ELSE Unacceptable(c) \/ a # Len(Response(c))

\* The inductive invariant: as long as an exchange is not settled its decoder is what the
\* bytes that have arrived make of it, and a settled one keeps what it promises.
ExchangeIInv ==
    /\ call \in Calls
    /\ client \in {"connecting", "forwarding", "open", "over"}
    /\ timer \in BOOLEAN
    /\ outcome \in Outcomes
    /\ arrived \in 0..Len(Response(call))
    /\ decoder \in DecoderState
    /\ outcome # "none" <=> client = "over"
    /\ outcome = "none" => DecoderOK(call, decoder, arrived)
    /\ SettledOK(call, decoder, arrived, outcome)

\* The invariant implies the properties of an exchange.
LEMMA ExchangeIInvIsEnough ==
    ExchangeIInv => ExchangeTypeOK /\ LinesInOrder /\ DoneIsWhole /\ RefusedForReason
<1> SUFFICES ASSUME ExchangeIInv
             PROVE  ExchangeTypeOK /\ LinesInOrder /\ DoneIsWhole /\ RefusedForReason
  OBVIOUS
<1>1. BytesToReport = BytesOf(call, arrived)
  BY DEF BytesToReport, BytesOf
<1>2. SettledOK(call, decoder, arrived, outcome)
  BY DEF ExchangeIInv
<1>3. LinesInOrder
  BY <1>1, <1>2 DEF LinesInOrder, SettledOK
<1>4. DoneIsWhole
  BY <1>1, <1>2 DEF DoneIsWhole, SettledOK, Complete
<1>5. RefusedForReason
  <2>1. ASSUME decoder.bad PROVE Unacceptable(call) \/ CutAtLimit
    <3>1. ExcusedAt(call, arrived)
      BY <1>2, <2>1 DEF SettledOK
    <3>2. CASE InChunks(call)
      BY <3>1, <3>2 DEF ExcusedAt, ExcusedInChunks, Excused, CutAtLimit
    <3>3. CASE ~InChunks(call)
      <4> DEFINE n == arrived - 2
      <4>1. Unacceptable(call) \/ (n \in 1..Len(call.body) /\ SplitAtLimit(call, n))
        BY <3>1, <3>3 DEF ExcusedAt, Excused
      <4>2. arrived = n + 2
        <5>1. CallOK(call) /\ arrived \in 0..Len(Response(call))
          BY CallsAreOK DEF ExchangeIInv
        <5>2. Len(Response(call)) \in Nat
          BY <5>1, ResponseIs
        <5> QED
          BY <5>1, <5>2
      <4> HIDE DEF n
      <4> QED
        BY <3>3, <4>1, <4>2 DEF CutAtLimit
    <3> QED
      BY <3>2, <3>3
  <2> QED
    BY <1>2, <2>1 DEF RefusedForReason, SettledOK, Complete
<1>6. ExchangeTypeOK
  BY DEF ExchangeIInv, ExchangeTypeOK, DecoderState, Outcomes
<1> QED
  BY <1>3, <1>4, <1>5, <1>6

\* As long as an exchange goes on, its decoder tells that what it reported is in order.
LEMMA GoingOnIsSettled ==
    ASSUME NEW c, CallOK(c), NEW d, NEW a, DecoderOK(c, d, a), NEW o, o # "done", o # "invalid"
    PROVE  SettledOK(c, d, a, o)
  BY ReportedInOrder DEF SettledOK, DecoderOK

\* Nothing has arrived: the invariant holds.
LEMMA ExchangeInitOK ==
    ExchangeInit => ExchangeIInv
<1> SUFFICES ASSUME ExchangeInit PROVE ExchangeIInv
  OBVIOUS
<1>1. CallOK(call) /\ call \in Calls
  BY CallsAreOK DEF ExchangeInit
<1>2. Response(call) \in Seq(Byte) /\ Len(Response(call)) \in Nat
  BY <1>1, ResponseIs
<1>3. <<>> \in Seq(Byte) /\ <<>> \in Seq(Seq(Byte)) /\ Len(<<>>) = 0
  OBVIOUS
<1>4. /\ decoder \in DecoderState /\ ~decoder.bad /\ ~decoder.terminal /\ ~decoder.headers
      /\ decoder.buffer = <<>> /\ decoder.line = <<>> /\ decoder.lines = <<>> /\ decoder.size = 0
  BY <1>3 DEF ExchangeInit, DecoderState
<1>5. arrived = 0 /\ client = "connecting" /\ outcome = "none" /\ timer \in BOOLEAN
  BY DEF ExchangeInit, ArmedAtOnce
<1>6. IsPart(decoder.buffer, Response(call), 0, 0)
  BY <1>3, <1>4 DEF IsPart
<1>7. DecoderOK(call, decoder, arrived)
  BY <1>2, <1>4, <1>5, <1>6 DEF DecoderOK
<1>8. SettledOK(call, decoder, arrived, outcome)
  BY <1>1, <1>5, <1>7, GoingOnIsSettled
<1> QED
  BY <1>1, <1>2, <1>4, <1>5, <1>7, <1>8 DEF ExchangeIInv, Outcomes

\* An exchange is over: what it reported is in order, and the reason is one that it may have.
LEMMA FinishOK ==
    ASSUME ExchangeIInv, NEW result, Finish(result), result \in Outcomes \ {"none"},
           call' = call, arrived' = arrived, decoder' \in DecoderState,
           SettledOK(call, decoder', arrived, result)
    PROVE  ExchangeIInv'
<1>1. outcome' = result /\ timer' = FALSE /\ client' = "over"
  BY DEF Finish
<1> QED
  BY <1>1 DEF ExchangeIInv

\* ... and nothing was decoded any more.
LEMMA FailOK ==
    ASSUME ExchangeIInv, Unfinished, NEW result, Finish(result),
           result \in Outcomes \ {"none", "done", "invalid"}, UNCHANGED <<call, arrived, decoder>>
    PROVE  ExchangeIInv'
<1>1. CallOK(call) /\ DecoderOK(call, decoder, arrived)
  BY CallsAreOK DEF ExchangeIInv, Unfinished
<1>2. SettledOK(call, decoder, arrived, result)
  BY <1>1, GoingOnIsSettled
<1>3. decoder' \in DecoderState
  BY DEF ExchangeIInv
<1> QED
  BY <1>2, <1>3, FinishOK

\* A segment keeps the invariant.
LEMMA DataOK ==
    ASSUME ExchangeIInv, Data
    PROVE  ExchangeIInv'
<1> DEFINE r == Response(call)
           d(n) == ConsumeWire(call, decoder, SubSeq(r, arrived + 1, n))
<1>1. PICK n \in (arrived + 1)..Len(r) :
         /\ arrived' = n /\ decoder' = d(n)
         /\ IF d(n).bad THEN Finish("invalid")
            ELSE IF d(n).terminal THEN Finish("done")
            ELSE UNCHANGED <<client, timer, outcome>>
  BY DEF Data
<1>2. CallOK(call) /\ DecoderOK(call, decoder, arrived) /\ outcome = "none" /\ client = "open"
      /\ call' = call
  BY CallsAreOK DEF ExchangeIInv, Data, Unfinished
<1> DEFINE e == d(n)
<1>3. AfterWire(call, e, n)
  BY <1>2, WireOK
<1>4. n \in 0..Len(r)
  <2>1. Len(r) \in Nat /\ arrived \in Nat
    <3>1. Len(r) \in Nat
      BY <1>2, ResponseIs
    <3> QED
      BY <3>1 DEF ExchangeIInv
  <2> HIDE DEF r
  <2> QED
    BY <2>1
<1>5. /\ arrived' = n /\ decoder' = e
      /\ IF e.bad THEN Finish("invalid")
         ELSE IF e.terminal THEN Finish("done")
         ELSE UNCHANGED <<client, timer, outcome>>
  BY <1>1
<1> HIDE DEF d, e
<1>6. e \in DecoderState
  BY <1>3 DEF AfterWire
<1>7. CASE e.bad
  <2>1. outcome' = "invalid" /\ timer' = FALSE /\ client' = "over"
    BY <1>5, <1>7 DEF Finish
  <2>2. SettledOK(call, e, n, "invalid")
    BY <1>3, <1>7 DEF AfterWire, SettledOK
  <2> QED
    BY <1>2, <1>4, <1>5, <1>6, <2>1, <2>2 DEF ExchangeIInv, Outcomes
<1>8. CASE ~e.bad /\ e.terminal
  <2>1. outcome' = "done" /\ timer' = FALSE /\ client' = "over"
    BY <1>5, <1>8 DEF Finish
  <2>2. call.kind \in Streaming /\ InChunks(call)
        /\ Reports(call, e.lines, AllLines(call, Len(call.body)))
    BY <1>3, <1>8 DEF AfterWire
  <2>3. BytesOf(call, n) = Len(call.body) /\ call.kind \notin {"create", "read", "generate"}
    BY <2>2 DEF BytesOf, InChunks, Streaming
  <2>4. SettledOK(call, e, n, "done")
    BY <1>8, <2>2, <2>3 DEF SettledOK
  <2> QED
    BY <1>2, <1>4, <1>5, <1>6, <2>1, <2>4 DEF ExchangeIInv, Outcomes
<1>9. CASE ~e.bad /\ ~e.terminal
  <2>1. DecoderOK(call, e, n) /\ UNCHANGED <<client, timer, outcome>>
    BY <1>3, <1>5, <1>9 DEF AfterWire
  <2>2. SettledOK(call, e, n, "none")
    BY <1>2, <2>1, GoingOnIsSettled
  <2> QED
    BY <1>2, <1>4, <1>5, <1>6, <2>1, <2>2 DEF ExchangeIInv
<1> QED
  BY <1>7, <1>8, <1>9

\* What follows the last line feed is taken when a stream without chunks ends.
LEMMA RestIsSettled ==
    ASSUME NEW c, CallOK(c), NEW d, NEW a, DecoderOK(c, d, a), d.headers,
           c.kind \in Streaming, ~InChunks(c)
    PROVE  LET e == TakeRest(c, d) IN
           /\ e \in DecoderState
           /\ ~e.bad /\ (c.kind = "create" /\ c.framing # "plain" => a = Len(Response(c))) =>
                 SettledOK(c, e, a, "done")
           /\ e.bad => SettledOK(c, d, a, "invalid")
<1> DEFINE n == a - 2
           e == TakeRest(c, d)
<1>1. c.body \in Seq(Byte) /\ Len(c.body) \in Nat /\ MaxLine \in Nat
  BY ExchangeAssumption DEF CallOK
<1>2. Len(Response(c)) = 2 + Len(c.body)
  BY ResponseIs
<1>3. 2 <= a /\ a \in Nat /\ a <= 2 + Len(c.body) /\ LinesOK(c, d, n) /\ ~d.bad
  <2>1. 2 + Len(c.body) \in Nat
    BY <1>1
  <2> QED
    BY <1>2, <2>1 DEF DecoderOK
<1>4. n \in 0..Len(c.body) /\ (n = Len(c.body) <=> a = Len(Response(c))) /\ BytesOf(c, a) = n
  BY <1>1, <1>2, <1>3 DEF BytesOf
<1> HIDE DEF n, e
<1>5. /\ e \in DecoderState
      /\ ~e.bad => Reports(c, e.lines, AllLines(c, n))
      /\ e.bad => (n = Len(c.body) => Unacceptable(c))
  BY <1>1, <1>3, <1>4, TakeRestOK DEF e
<1>6. ASSUME ~e.bad, c.kind = "create" /\ c.framing # "plain" => a = Len(Response(c))
      PROVE  SettledOK(c, e, a, "done")
  <2>1. c.kind # "read" /\ c.kind # "generate"
    BY DEF Streaming
  <2> QED
    BY <1>4, <1>5, <1>6, <2>1 DEF SettledOK
<1>7. ASSUME e.bad PROVE SettledOK(c, d, a, "invalid")
  <2>1. Unacceptable(c) \/ a # Len(Response(c))
    BY <1>4, <1>5, <1>7
  <2>2. \E i \in 0..BytesOf(c, a) : Reports(c, d.lines, Lines(c, i))
    BY ReportedInOrder
  <2>3. c.kind # "generate" /\ ~d.bad
    BY <1>3 DEF Streaming
  <2> QED
    BY <2>1, <2>2, <2>3 DEF SettledOK
<1> QED
  BY <1>5, <1>6, <1>7 DEF e

\* A response that is not there in full may be refused.
LEMMA CutOffIsSettled ==
    ASSUME NEW c, CallOK(c), NEW d, NEW a, DecoderOK(c, d, a), a # Len(Response(c))
    PROVE  SettledOK(c, d, a, "invalid")
  BY ReportedInOrder DEF SettledOK, DecoderOK

\* What arrived behind the header of a response without chunks is the body, when all of the
\* response is there.
LEMMA BufferIsBody ==
    ASSUME NEW c, CallOK(c), ~InChunks(c), NEW buffer,
           IsPart(buffer, Response(c), 2, Len(Response(c)))
    PROVE  buffer = c.body
<1> DEFINE n == Len(c.body)
           body == c.body
<1>1. /\ body \in Seq(Byte) /\ n \in Nat /\ Len(Response(c)) = 2 + n
      /\ \A i \in 1..n : Response(c)[2 + i] = body[i]
  BY ResponseIs DEF CallOK
<1>2. Len(body) = n
  OBVIOUS
<1> HIDE DEF n, body
<1>3. Len(Response(c)) - 2 = n
  BY <1>1
<1>4. buffer \in Seq(Byte) /\ Len(buffer) = n /\ \A i \in 1..n : buffer[i] = Response(c)[2 + i]
  BY <1>3 DEF IsPart
<1>5. \A i \in 1..n : buffer[i] = body[i]
  BY <1>1, <1>4
<1>6. buffer = body
  BY <1>1, <1>2, <1>4, <1>5
<1> QED
  BY <1>6 DEF body

\* A response without the end of its header is not there in full.
LEMMA NoHeaderIsCutOff ==
    ASSUME NEW c, CallOK(c), NEW d, NEW a, DecoderOK(c, d, a), ~d.headers
    PROVE  a # Len(Response(c))
<1>1. Len(Response(c)) \in Nat /\ 2 <= Len(Response(c)) /\ a < 2
  BY ResponseIs DEF DecoderOK
<1> QED
  BY <1>1

\* The end of a pull keeps the invariant.
LEMMA PullClosesOK ==
    ASSUME ExchangeIInv, PullCloses
    PROVE  ExchangeIInv'
<1> DEFINE e == TakeRest(call, decoder)
           Fails == ~decoder.headers \/ (InChunks(call) /\ ~decoder.terminal) \/ e.bad
<1>1. /\ CallOK(call) /\ DecoderOK(call, decoder, arrived) /\ call' = call /\ arrived' = arrived
      /\ call.kind \in Streaming /\ call.kind = "pull"
  BY CallsAreOK DEF ExchangeIInv, PullCloses, Unfinished, Streaming
<1>2. IF Fails THEN Finish("invalid") /\ decoder' = decoder ELSE Finish("done") /\ decoder' = e
  BY DEF PullCloses
<1> HIDE DEF e
<1>3. CASE ~decoder.headers
  <2>1. SettledOK(call, decoder, arrived, "invalid")
    BY <1>1, <1>3, NoHeaderIsCutOff, CutOffIsSettled
  <2>2. Finish("invalid") /\ decoder' = decoder
    BY <1>2, <1>3
  <2> QED
    BY <1>1, <2>1, <2>2, FinishOK DEF ExchangeIInv, Outcomes
<1>4. CASE decoder.headers /\ InChunks(call)
  <2>1. ~decoder.terminal /\ arrived < Len(Response(call)) /\ arrived \in Nat
    <3>1. Len(Response(call)) \in Nat
      BY <1>1, ResponseIs
    <3> QED
      BY <1>1, <1>4, <3>1 DEF DecoderOK
  <2>2. SettledOK(call, decoder, arrived, "invalid")
    BY <1>1, <2>1, CutOffIsSettled
  <2>3. Finish("invalid") /\ decoder' = decoder
    BY <1>2, <1>4, <2>1
  <2> QED
    BY <1>1, <2>2, <2>3, FinishOK DEF ExchangeIInv, Outcomes
<1>5. CASE decoder.headers /\ ~InChunks(call)
  <2>1. /\ e \in DecoderState
        /\ ~e.bad => SettledOK(call, e, arrived, "done")
        /\ e.bad => SettledOK(call, decoder, arrived, "invalid")
    BY <1>1, <1>5, RestIsSettled DEF e
  <2>2. CASE e.bad
    <3>1. Finish("invalid") /\ decoder' = decoder
      BY <1>2, <2>2
    <3> QED
      BY <1>1, <2>1, <2>2, <3>1, FinishOK DEF ExchangeIInv, Outcomes
  <2>3. CASE ~e.bad
    <3>1. Finish("done") /\ decoder' = e
      BY <1>2, <1>5, <2>3
    <3> QED
      BY <1>1, <2>1, <2>3, <3>1, FinishOK DEF Outcomes
  <2> QED
    BY <2>2, <2>3
<1> QED
  BY <1>3, <1>4, <1>5

\* The end of a create keeps the invariant.
LEMMA CreateEndsOK ==
    ASSUME ExchangeIInv, CreateEnds
    PROVE  ExchangeIInv'
<1> DEFINE e == TakeRest(call, decoder)
<1>1. /\ CallOK(call) /\ DecoderOK(call, decoder, arrived) /\ call' = call /\ arrived' = arrived
      /\ call.kind \in Streaming /\ call.kind = "create" /\ ~InChunks(call) /\ Unfinished
  BY CallsAreOK DEF ExchangeIInv, CreateEnds, Unfinished, Streaming, InChunks
<1>2. IF ~decoder.headers THEN Finish("forward_failed") /\ decoder' = decoder
      ELSE IF ~Whole \/ e.bad THEN Finish("invalid") /\ decoder' = decoder
      ELSE Finish("done") /\ decoder' = e
  BY DEF CreateEnds
<1> HIDE DEF e
<1>3. CASE ~decoder.headers
  <2>1. Finish("forward_failed") /\ decoder' = decoder
    BY <1>2, <1>3
  <2> QED
    BY <1>1, <2>1, FailOK DEF Outcomes
<1>4. CASE decoder.headers
  <2>1. /\ e \in DecoderState
        /\ ~e.bad /\ (call.framing # "plain" => arrived = Len(Response(call))) =>
              SettledOK(call, e, arrived, "done")
        /\ e.bad => SettledOK(call, decoder, arrived, "invalid")
    BY <1>1, <1>4, RestIsSettled DEF e
  <2>2. CASE ~Whole
    <3>1. arrived # Len(Response(call))
      BY <2>2 DEF Whole, Complete
    <3>2. SettledOK(call, decoder, arrived, "invalid")
      BY <1>1, <3>1, CutOffIsSettled
    <3>3. Finish("invalid") /\ decoder' = decoder
      BY <1>2, <1>4, <2>2
    <3> QED
      BY <1>1, <3>2, <3>3, FinishOK DEF ExchangeIInv, Outcomes
  <2>3. CASE Whole /\ e.bad
    <3>1. Finish("invalid") /\ decoder' = decoder
      BY <1>2, <1>4, <2>3
    <3> QED
      BY <1>1, <2>1, <2>3, <3>1, FinishOK DEF ExchangeIInv, Outcomes
  <2>4. CASE Whole /\ ~e.bad
    <3>1. Finish("done") /\ decoder' = e
      BY <1>2, <1>4, <2>4
    <3>2. SettledOK(call, e, arrived, "done")
      BY <2>1, <2>4 DEF Whole, Complete
    <3> QED
      BY <1>1, <2>1, <3>1, <3>2, FinishOK DEF Outcomes
  <2> QED
    BY <2>2, <2>3, <2>4
<1> QED
  BY <1>3, <1>4

\* The end of a read keeps the invariant.
LEMMA ReadClosesOK ==
    ASSUME ExchangeIInv, ReadCloses
    PROVE  ExchangeIInv'
<1>1. /\ CallOK(call) /\ DecoderOK(call, decoder, arrived) /\ call' = call /\ arrived' = arrived
      /\ call.kind \notin Streaming /\ call.kind = "read"
  BY CallsAreOK DEF ExchangeIInv, ReadCloses, Unfinished, Streaming
<1>2. IF Parsed.result # "ok" THEN Finish("invalid") /\ decoder' = decoder
      ELSE Finish("done") /\ decoder' = [decoder EXCEPT !.line = Parsed.body]
  BY DEF ReadCloses
<1>3. Len(Response(call)) \in Nat /\ arrived \in Nat /\ arrived <= Len(Response(call))
      /\ decoder \in DecoderState
  <2>1. Len(Response(call)) \in Nat
    BY <1>1, ResponseIs
  <2> QED
    BY <1>1, <2>1 DEF DecoderOK
<1>4. decoder.headers => IsPart(decoder.buffer, Response(call), 2, arrived)
  BY <1>1 DEF DecoderOK
<1>5. CASE Parsed.result # "ok"
  <2>1. arrived # Len(Response(call))
    <3>1. CASE ~decoder.headers
      BY <1>1, <3>1, NoHeaderIsCutOff
    <3>2. CASE call.framing = "length" /\ ~Complete
      BY <3>2 DEF Complete
    <3>3. CASE decoder.headers /\ ~(call.framing = "length" /\ ~Complete)
      <4>1. InChunks(call) /\ DecodeChunked(decoder.buffer).result # "ok"
        BY <1>5, <3>3 DEF Parsed
      <4>2. ChunkedCall(call)
        BY <1>1, <4>1 DEF CallOK
      <4>3. arrived < Len(Response(call))
        BY <1>3, <1>4, <3>3, <4>1, <4>2, DecodeChunkedOK
      <4> QED
        BY <1>3, <4>3
    <3> QED
      BY <3>1, <3>2, <3>3
  <2>2. SettledOK(call, decoder, arrived, "invalid")
    BY <1>1, <2>1, CutOffIsSettled
  <2>3. Finish("invalid") /\ decoder' = decoder
    BY <1>2, <1>5
  <2> QED
    BY <1>1, <1>3, <2>2, <2>3, FinishOK DEF Outcomes
<1>6. CASE Parsed.result = "ok"
  <2> DEFINE body == Parsed.body
             e == [decoder EXCEPT !.line = body]
  <2>1. decoder.headers
    <3> SUFFICES ASSUME ~decoder.headers PROVE FALSE
      OBVIOUS
    <3>1. Parsed = [at |-> 0, body |-> <<>>, result |-> "error"]
      BY DEF Parsed
    <3> QED
      BY <1>6, <3>1
  <2>2. ~(call.framing = "length" /\ ~Complete)
    <3> SUFFICES ASSUME call.framing = "length" /\ ~Complete PROVE FALSE
      OBVIOUS
    <3>1. Parsed = [at |-> 0, body |-> <<>>, result |-> "error"]
      BY DEF Parsed
    <3> QED
      BY <1>6, <3>1
  <2>3. body \in Seq(Byte) /\ (call.framing # "plain" => body = call.body)
    <3>1. CASE InChunks(call)
      <4>1. Parsed = DecodeChunked(decoder.buffer) /\ ChunkedCall(call)
        BY <1>1, <2>1, <2>2, <3>1 DEF Parsed, CallOK
      <4>2. body = call.body
        BY <1>3, <1>4, <1>6, <2>1, <4>1, DecodeChunkedOK
      <4> QED
        BY <1>1, <4>2 DEF CallOK
    <3>2. CASE ~InChunks(call)
      <4>1. body = decoder.buffer
        BY <2>1, <2>2, <3>2 DEF Parsed
      <4>2. IsPart(decoder.buffer, Response(call), 2, arrived)
        BY <1>4, <2>1
      <4>3. ASSUME call.framing # "plain" PROVE decoder.buffer = call.body
        <5>1. call.framing = "length"
          BY <1>1, <3>2, <4>3 DEF CallOK, InChunks
        <5>2. arrived = Len(Response(call))
          BY <2>2, <5>1 DEF Complete
        <5> QED
          BY <1>1, <3>2, <4>2, <5>2, BufferIsBody
      <4> QED
        BY <4>1, <4>2, <4>3 DEF IsPart
    <3> QED
      BY <3>1, <3>2
  <2> HIDE DEF body
  <2>4. e \in DecoderState /\ e.line = body /\ ~e.bad
    BY <1>1, <1>3, <2>3 DEF DecoderState, DecoderOK
  <2>5. Finish("done") /\ decoder' = e
    BY <1>2, <1>6 DEF body
  <2> HIDE DEF e
  <2>6. SettledOK(call, e, arrived, "done")
    BY <1>1, <2>3, <2>4 DEF SettledOK
  <2> QED
    BY <1>1, <2>4, <2>5, <2>6, FinishOK DEF Outcomes
<1> QED
  BY <1>5, <1>6

\* node:http hands over a generate without its chunks, if it has any.
LEMMA GenerateIsPlain ==
    ASSUME NEW c \in Calls, c.kind = "generate"
    PROVE  ~InChunks(c)
  BY DEF Calls, ChunkedCalls, JoinedCalls, PlainCalls, StrangeCalls, InChunks

\* The end of a generate keeps the invariant.
LEMMA GenerateEndsOK ==
    ASSUME ExchangeIInv, GenerateEnds
    PROVE  ExchangeIInv'
<1>1. /\ CallOK(call) /\ DecoderOK(call, decoder, arrived) /\ call' = call /\ arrived' = arrived
      /\ decoder' = decoder /\ call.kind \notin Streaming /\ call.kind = "generate" /\ Unfinished
  BY CallsAreOK DEF ExchangeIInv, GenerateEnds, Unfinished, Streaming
<1>2. IF ~decoder.headers THEN Finish("forward_failed")
      ELSE IF ~Whole \/ ~IsObject(Trimmed(decoder.buffer)) THEN Finish("invalid")
      ELSE Finish("done")
  BY DEF GenerateEnds
<1>3. decoder' \in DecoderState /\ ~decoder.bad
  BY <1>1 DEF ExchangeIInv, DecoderOK
<1>4. ~InChunks(call)
  BY <1>1, GenerateIsPlain DEF ExchangeIInv
<1>5. CASE ~decoder.headers
  BY <1>1, <1>2, <1>5, FailOK DEF Outcomes
<1>6. CASE decoder.headers /\ (~Whole \/ ~IsObject(Trimmed(decoder.buffer)))
  <2>1. CASE arrived = Len(Response(call))
    <3>1. IsPart(decoder.buffer, Response(call), 2, arrived)
      BY <1>1, <1>6 DEF DecoderOK
    <3>2. decoder.buffer = call.body
      BY <1>1, <1>4, <2>1, <3>1, BufferIsBody
    <3>3. ~IsObject(Trimmed(call.body))
      BY <1>6, <2>1, <3>2 DEF Whole, Complete
    <3>4. SettledOK(call, decoder, arrived, "invalid")
      BY <1>1, <1>3, <3>3 DEF SettledOK
    <3> QED
      BY <1>1, <1>2, <1>3, <1>6, <3>4, FinishOK DEF Outcomes
  <2>2. CASE arrived # Len(Response(call))
    <3>1. SettledOK(call, decoder, arrived, "invalid")
      BY <1>1, <2>2, CutOffIsSettled
    <3> QED
      BY <1>1, <1>2, <1>3, <1>6, <3>1, FinishOK DEF Outcomes
  <2> QED
    BY <2>1, <2>2
<1>7. CASE decoder.headers /\ Whole /\ IsObject(Trimmed(decoder.buffer))
  <2>1. SettledOK(call, decoder, arrived, "done")
    BY <1>1, <1>3, <1>7 DEF SettledOK, Whole, Complete
  <2> QED
    BY <1>1, <1>2, <1>3, <1>7, <2>1, FinishOK DEF Outcomes
<1> QED
  BY <1>5, <1>6, <1>7

\* Every step keeps the invariant.
LEMMA ExchangeStepOK ==
    ASSUME ExchangeIInv, [ExchangeNext]_exchangeVars
    PROVE  ExchangeIInv'
<1>1. CASE Ready
  <2>1. client' = "forwarding" /\ UNCHANGED <<call, arrived, decoder, timer, outcome>>
        /\ outcome = "none"
    BY <1>1 DEF Ready, Unfinished
  <2> QED
    BY <2>1 DEF ExchangeIInv
<1>2. CASE ConnectFails
  <2>1. Unfinished /\ UNCHANGED <<call, arrived, decoder>>
        /\ Finish(IF call.key = "other" THEN "mismatch" ELSE "connect_failed")
    BY <1>2 DEF ConnectFails
  <2> QED
    BY <2>1, FailOK DEF Outcomes
<1>3. CASE ForwardFails
  <2>1. Unfinished /\ UNCHANGED <<call, arrived, decoder>> /\ Finish("forward_failed")
    BY <1>3 DEF ForwardFails
  <2> QED
    BY <2>1, FailOK DEF Outcomes
<1>4. CASE Forwarded
  <2>1. client' = "open" /\ timer' = TRUE /\ UNCHANGED <<call, arrived, decoder, outcome>>
        /\ outcome = "none"
    BY <1>4 DEF Forwarded, Unfinished
  <2> QED
    BY <2>1 DEF ExchangeIInv
<1>5. CASE Data
  BY <1>5, DataOK
<1>6. CASE PullCloses
  BY <1>6, PullClosesOK
<1>7. CASE CreateEnds
  BY <1>7, CreateEndsOK
<1>8. CASE ReadCloses
  BY <1>8, ReadClosesOK
<1>9. CASE GenerateEnds
  BY <1>9, GenerateEndsOK
<1>10. CASE TimesOut
  <2>1. Unfinished /\ UNCHANGED <<call, arrived, decoder>> /\ Finish("timeout")
    BY <1>10 DEF TimesOut
  <2> QED
    BY <2>1, FailOK DEF Outcomes
<1>11. CASE Abort
  <2>1. Unfinished /\ UNCHANGED <<call, arrived, decoder>> /\ Finish("aborted")
    BY <1>11 DEF Abort
  <2> QED
    BY <2>1, FailOK DEF Outcomes
<1>12. CASE ChannelFails
  <2>1. Unfinished /\ UNCHANGED <<call, arrived, decoder>> /\ Finish("forward_failed")
    BY <1>12 DEF ChannelFails
  <2> QED
    BY <2>1, FailOK DEF Outcomes
<1>13. CASE UNCHANGED exchangeVars
  BY <1>13 DEF exchangeVars, ExchangeIInv
<1> QED
  BY <1>1, <1>2, <1>3, <1>4, <1>5, <1>6, <1>7, <1>8, <1>9, <1>10, <1>11, <1>12,
     <1>13 DEF ExchangeNext

\* However the network cuts a response into segments, and the server its body into chunks,
\* and whenever a timer, a cancellation or the host ends the exchange: the progress it has
\* reported are the lines of the body, in order; it succeeds only with all the lines that
\* came, and with all of the response when that tells where it ends, but for a pull, which
\* heeds no length; and it refuses a response only for a line in it, because it was cut off,
\* or because a line of the greatest length of a pull was divided from its line feed.
THEOREM ExchangeIsRight ==
    ExchangeSpec => [](ExchangeTypeOK /\ LinesInOrder /\ DoneIsWhole /\ RefusedForReason)
<1>1. ExchangeInit => ExchangeIInv
  BY ExchangeInitOK
<1>2. ExchangeIInv /\ [ExchangeNext]_exchangeVars => ExchangeIInv'
  BY ExchangeStepOK
<1> QED
  BY <1>1, <1>2, ExchangeIInvIsEnough, PTL DEF ExchangeSpec

\* So it is in the behaviours of MCAuth that follow an exchange, with any bytes, bodies,
\* length of a line and number of chunks, and with the same two exceptions.
THEOREM ExchangeInvariantHolds == SceneSpec => []ExchangeInvariant
<1> DEFINE SceneInv == scene = "exchange" => ExchangeIInv
<1>1. SceneInit => SceneInv
  BY ExchangeInitOK DEF SceneInit
<1>2. SceneInv /\ [SceneNext]_sceneVars => SceneInv'
  <2> SUFFICES ASSUME SceneInv, [SceneNext]_sceneVars, scene' = "exchange"
               PROVE  ExchangeIInv'
    OBVIOUS
  <2>1. scene = "exchange" /\ [ExchangeNext]_exchangeVars
    BY DEF SceneNext, sceneVars, exchangeVars
  <2> QED
    BY <2>1, ExchangeStepOK
<1>3. SceneInv => ExchangeInvariant
  BY ExchangeIInvIsEnough DEF ExchangeInvariant
<1> QED
  BY <1>1, <1>2, <1>3, PTL DEF SceneSpec

=============================================================================
