---------------------------- MODULE UpdateProofs ----------------------------
(***************************************************************************)
(* Proofs about the container update, for every set of jobs, targets and   *)
(* images and every bound on faults and crashes.                           *)
(*                                                                         *)
(* The first part assumes nothing about the host: other targets may        *)
(* address the service, and a command may outlive its channel.  It is      *)
(* about what the journal proves and what a verdict rests on.  The second  *)
(* part is about a target that is alone on its service, with commands that *)
(* end with their channel: its binding follows the service, and its        *)
(* updates are the transactions of UpdateTx.                               *)
(*                                                                         *)
(* A lemma on the steps has one step per group of actions, in the order of *)
(* Update; an action that needs an argument of its own has its own step.   *)
(***************************************************************************)
EXTENDS Update, SequenceTheorems, TLAPS

\* Container c exists and runs image i.
Runs(c, i) == c \in Containers /\ ImageOf(c) = i

\* A handler or a recovery stands somewhere exactly as long as the job is active.  A job
\* has a container that it started from, no history before it is accepted, and no outcome
\* before it ends.
JobOK ==
    \A j \in Jobs :
        /\ state[j] = "absent" => stages[j] = {}
        /\ state[j] = "absent" \/ Active(j) => outcome[j] = "none"
        /\ Active(j) <=> pc[j] # "idle"
        /\ old[j] \in Containers \cup {0}
        /\ state[j] # "absent" => old[j] # 0

\* The lock of a target.
LockOK ==
    \A j, k \in Jobs : Active(j) /\ Active(k) /\ Target(j) = Target(k) => j = k

\* What a handler or a recovery is about to bind, to verify or to report is a container of
\* the right image.
HoldsOK ==
    \A j \in Jobs :
        /\ pc[j] \in {"rebind", "health", "commit"} => Runs(candidate[j], CandidateOf[j])
        /\ pc[j] \in {"rb_rebind", "rb_health", "rb_commit", "rec_rebind", "rec_health", "rec_commit"} =>
               Runs(fresh[j], RollbackImage(j))

\* The target is bound to what is verified and reported.
BoundOK ==
    \A j \in Jobs :
        /\ pc[j] \in {"health", "commit"} => binding[Target(j)] = candidate[j]
        /\ pc[j] \in {"rb_health", "rb_commit", "rec_health", "rec_commit"} =>
               binding[Target(j)] = fresh[j]

\* The health check is in the journal before the verdict.
VerifiedOK ==
    \A j \in Jobs :
        /\ pc[j] = "commit" => [stage |-> "health_verified", container |-> candidate[j]] \in stages[j]
        /\ pc[j] = "rb_commit" =>
               [stage |-> "rollback_health_verified", container |-> fresh[j]] \in stages[j]
        /\ pc[j] = "rec_commit" =>
               [stage |-> "recovery_health_verified", container |-> fresh[j]] \in stages[j]

\* The inductive invariant.
IInv ==
    /\ TypeOK /\ JobOK /\ LockOK /\ ProvenRollbackRunsOldImage
    /\ HoldsOK /\ BoundOK /\ VerifiedOK

-----------------------------------------------------------------------------
(* Containers, events and commands.                                        *)

\* The service consists of a container that exists, and every container has an image.
LEMMA CurrentExists ==
    ASSUME TypeOK
    PROVE  /\ current \in Containers
           /\ \A c \in Containers : c \in Nat /\ c # 0 /\ ImageOf(c) \in Images
<1>1. created \in Seq([image : Images, tagged : BOOLEAN]) /\ created # <<>>
  BY DEF TypeOK, RemoteTypeOK
<1>2. Len(created) \in Nat /\ Len(created) # 0
  BY <1>1
<1>3. \A c \in 1 .. Len(created) : created[c] \in [image : Images, tagged : BOOLEAN]
  BY <1>1, ElementOfSeq
<1>4. \A c \in Containers : ImageOf(c) \in Images
  BY <1>3 DEF Containers, ImageOf
<1> QED
  BY <1>2, <1>4 DEF Containers, current

\* An `up` adds a container of the image it was issued for, and the service consists of it.
LEMMA UpCreates ==
    ASSUME TypeOK, NEW c \in commands, RemoteUp(c)
    PROVE  /\ created' \in Seq([image : Images, tagged : BOOLEAN]) /\ created' # <<>>
           /\ Containers \subseteq Containers'
           /\ \A d \in Containers : ImageOf(d)' = ImageOf(d)
           /\ current' \notin Containers
           /\ ImageOf(current)' = c.image
  BY DEF RemoteUp, TypeOK, RemoteTypeOK, Command, Containers, ImageOf, current

\* A name and a container make an event.
LEMMA StageType == \A n \in StageName, c \in Nat : [stage |-> n, container |-> c] \in StageEvent
  BY DEF StageEvent

\* A target that is alone on its host stays alone.
LEMMA AloneStays ==
    ASSUME [Next]_vars
    PROVE  alone' = alone
<1> USE DEF remoteVars
<1>1. ASSUME NEW j \in Jobs, PrepareIntent(j) \/ Execute(j) PROVE alone' = alone
  BY <1>1 DEF PrepareIntent, Execute
<1>2. ASSUME NEW j \in Jobs, ExecuteStep(j) PROVE alone' = alone
  BY <1>2 DEF ExecuteStep, BeginRollback, Start, Validated, ValidationFailed, ForwardUp,
       ForwardCreated, ForwardRebound, Healthy, Succeed, ForwardFailed, ForwardRebindFailed,
       Unhealthy, ResolvedOld, ResolvedOther, ResolveFailed, RollbackUp, RollbackCreated,
       RollbackRebound, RollbackHealthy, RolledBack, RollbackFailed, AdoptResolved,
       RollbackAbandoned
<1>3. ASSUME NEW j \in Jobs, RecoveryStep(j) PROVE alone' = alone
  BY <1>3 DEF RecoveryStep, Die, RecoverBeforeForward, RecoverStart, RecoveryResolve,
       RecoverySettle, RecoveryBeginRollback, RecoveryUp, RecoveryCreated, RecoveryRebound,
       RecoveryHealthy, Recovered, StartupBlocked
<1>4. ASSUME NEW t \in Targets, Discover \/ SaveSelection(t) PROVE alone' = alone
  BY <1>4 DEF Discover, SaveSelection
<1>5. CASE Crash \/ Restart \/ Listen
  BY <1>5 DEF Crash, Die, Restart, Listen
<1>6. CASE UNCHANGED vars
  BY <1>6 DEF vars
<1>7. ASSUME NEW c \in commands, RemoteUp(c) PROVE alone' = alone
  BY <1>7 DEF RemoteUp
<1> QED
  BY <1>7, <1>1, <1>2, <1>3, <1>4, <1>5, <1>6 DEF Next, Discover

\* A job keeps its target, which is the first one when that is alone.
LEMMA TargetStays ==
    ASSUME [Next]_vars
    PROVE  \A j \in Jobs : /\ Target(j) \in Targets /\ Target(j)' = Target(j)
                           /\ alone => Target(j) = FirstTarget
  BY AloneStays, UpdateAssumption DEF Target

\* Only a remote command changes the containers.
LEMMA CreatedStays ==
    ASSUME [Next]_vars, \A c \in commands : ~RemoteUp(c)
    PROVE  created' = created
<1> USE DEF remoteVars
<1>1. ASSUME NEW j \in Jobs, PrepareIntent(j) \/ Execute(j) PROVE created' = created
  BY <1>1 DEF PrepareIntent, Execute
<1>2. ASSUME NEW j \in Jobs, ExecuteStep(j) PROVE created' = created
  BY <1>2 DEF ExecuteStep, BeginRollback, Start, Validated, ValidationFailed, ForwardUp,
       ForwardCreated, ForwardRebound, Healthy, Succeed, ForwardFailed, ForwardRebindFailed,
       Unhealthy, ResolvedOld, ResolvedOther, ResolveFailed, RollbackUp, RollbackCreated,
       RollbackRebound, RollbackHealthy, RolledBack, RollbackFailed, AdoptResolved,
       RollbackAbandoned
<1>3. ASSUME NEW j \in Jobs, RecoveryStep(j) PROVE created' = created
  BY <1>3 DEF RecoveryStep, Die, RecoverBeforeForward, RecoverStart, RecoveryResolve,
       RecoverySettle, RecoveryBeginRollback, RecoveryUp, RecoveryCreated, RecoveryRebound,
       RecoveryHealthy, Recovered, StartupBlocked
<1>4. ASSUME NEW t \in Targets, Discover \/ SaveSelection(t) PROVE created' = created
  BY <1>4 DEF Discover, SaveSelection
<1>5. CASE Crash \/ Restart \/ Listen
  BY <1>5 DEF Crash, Die, Restart, Listen
<1>6. CASE UNCHANGED vars
  BY <1>6 DEF vars
<1> QED
  BY <1>1, <1>2, <1>3, <1>4, <1>5, <1>6 DEF Next, Discover

\* A container that exists stays, with its image.
LEMMA ContainersStay ==
    ASSUME TypeOK, [Next]_vars
    PROVE  Containers \subseteq Containers' /\ \A c \in Containers : ImageOf(c)' = ImageOf(c)
<1>1. CASE \E c \in commands : RemoteUp(c)
  BY <1>1, UpCreates
<1>2. CASE \A c \in commands : ~RemoteUp(c)
  BY <1>2, CreatedStays DEF Containers, ImageOf
<1> QED
  BY <1>1, <1>2

\* The journal of a job never loses an event.
LEMMA JournalGrows ==
    ASSUME TypeOK, [Next]_vars
    PROVE  \A k \in Jobs : stages[k] \subseteq stages'[k]
<1>a. stages \in [Jobs -> SUBSET StageEvent]
  BY DEF TypeOK, DatabaseTypeOK
<1> USE <1>a DEF dbVars, WithStage
<1>1. ASSUME NEW c \in commands, RemoteUp(c) PROVE \A k \in Jobs : stages[k] \subseteq stages'[k]
  BY <1>1 DEF RemoteUp
<1>2. ASSUME NEW j \in Jobs, PrepareIntent(j) \/ Execute(j)
      PROVE  \A k \in Jobs : stages[k] \subseteq stages'[k]
  BY <1>2 DEF PrepareIntent, Execute
<1>3. ASSUME NEW j \in Jobs, ExecuteStep(j) PROVE \A k \in Jobs : stages[k] \subseteq stages'[k]
  <2>1. CASE Start(j) \/ Validated(j) \/ ValidationFailed(j) \/ ForwardUp(j)
    BY <1>3, <2>1 DEF Start, Validated, ValidationFailed, ForwardUp
  <2>2. CASE ForwardCreated(j) \/ ForwardRebound(j) \/ Healthy(j) \/ Succeed(j)
    BY <1>3, <2>2 DEF ForwardCreated, ForwardRebound, Healthy, Succeed
  <2>3. CASE ForwardFailed(j) \/ ForwardRebindFailed(j) \/ Unhealthy(j)
    BY <1>3, <2>3 DEF ForwardFailed, BeginRollback, ForwardRebindFailed, Unhealthy
  <2>4. CASE ResolvedOld(j) \/ ResolvedOther(j) \/ ResolveFailed(j)
    BY <1>3, <2>4 DEF ResolvedOld, ResolvedOther, BeginRollback, ResolveFailed
  <2>5. CASE RollbackUp(j) \/ RollbackCreated(j) \/ RollbackRebound(j) \/ RollbackHealthy(j)
    BY <1>3, <2>5 DEF RollbackUp, RollbackCreated, RollbackRebound, RollbackHealthy
  <2>6. CASE RolledBack(j) \/ RollbackFailed(j) \/ AdoptResolved(j) \/ RollbackAbandoned(j)
    BY <1>3, <2>6 DEF RolledBack, RollbackFailed, AdoptResolved, RollbackAbandoned
  <2> QED
    BY <1>3, <2>1, <2>2, <2>3, <2>4, <2>5, <2>6 DEF ExecuteStep
<1>4. ASSUME NEW j \in Jobs, RecoveryStep(j) PROVE \A k \in Jobs : stages[k] \subseteq stages'[k]
  <2>1. CASE RecoverBeforeForward(j) \/ RecoverStart(j) \/ RecoveryResolve(j) \/
             RecoverySettle(j) \/ RecoveryBeginRollback(j)
    BY <1>4, <2>1 DEF RecoverBeforeForward, MayRecover, RecoverStart, RecoveryResolve,
                   RecoverySettle, RecoveryBeginRollback
  <2>2. CASE RecoveryUp(j) \/ RecoveryCreated(j) \/ RecoveryRebound(j) \/
             RecoveryHealthy(j) \/ Recovered(j)
    BY <1>4, <2>2 DEF RecoveryUp, RecoveryCreated, RecoveryRebound, RecoveryHealthy, Recovered
  <2>3. CASE StartupBlocked(j)
    BY <1>4, <2>3 DEF StartupBlocked, Die
  <2> QED
    BY <1>4, <2>1, <2>2, <2>3 DEF RecoveryStep
<1>5. ASSUME NEW t \in Targets, Discover \/ SaveSelection(t)
      PROVE  \A k \in Jobs : stages[k] \subseteq stages'[k]
  BY <1>5 DEF Discover, SaveSelection
<1>6. CASE Crash \/ Restart \/ Listen
  BY <1>6 DEF Crash, Die, Restart, Listen
<1>7. CASE UNCHANGED vars
  BY <1>7 DEF vars
<1> QED
  BY <1>1, <1>2, <1>3, <1>4, <1>5, <1>6, <1>7 DEF Next, Discover

\* Every step keeps jobs and handlers in agreement.
LEMMA JobStep ==
    ASSUME IInv, [Next]_vars
    PROVE  JobOK'
<1>a. /\ state \in [Jobs -> JobState \cup {"absent"}]
      /\ outcome \in [Jobs -> Outcome \cup {"none"}]
      /\ stages \in [Jobs -> SUBSET StageEvent]
      /\ old \in [Jobs -> Nat] /\ binding \in [Targets -> Nat]
      /\ pc \in [Jobs -> BusyPC \cup AwaitPC \cup {"idle", "pending"}]
      /\ candidate \in [Jobs -> Nat] /\ remoteId \in [Jobs -> Nat] /\ fresh \in [Jobs -> Nat]
      /\ \A j \in Jobs : Target(j) \in Targets /\ Target(j)' = Target(j)
  BY TargetStays DEF IInv, TypeOK, DatabaseTypeOK, ProcessTypeOK
<1>b. /\ current \in Containers
      /\ Containers \subseteq Containers'
      /\ \A c \in Containers : c # 0 /\ ImageOf(c)' = ImageOf(c)
  BY CurrentExists, ContainersStay DEF IInv
<1> USE <1>a, <1>b DEF dbVars, processVars, Goto, WithStage, Rebound, Recreated, Finish, IInv,
        JobOK,
        Active, ACTIVE_STATES
<1>1. ASSUME NEW c \in commands, RemoteUp(c) PROVE JobOK'
  BY <1>1 DEF RemoteUp
<1>2. ASSUME NEW j \in Jobs, PrepareIntent(j) \/ Execute(j) PROVE JobOK'
  BY <1>2 DEF PrepareIntent, Execute
<1>3. ASSUME NEW j \in Jobs, ExecuteStep(j) PROVE JobOK'
  <2>1. CASE Start(j) \/ Validated(j) \/ ValidationFailed(j) \/ ForwardUp(j)
    BY <1>3, <2>1 DEF Start, Validated, ValidationFailed, ForwardUp
  <2>2. CASE ForwardCreated(j) \/ ForwardRebound(j) \/ Healthy(j) \/ Succeed(j)
    BY <1>3, <2>2 DEF ForwardCreated, ForwardRebound, Healthy, Succeed
  <2>3. CASE ForwardFailed(j)
    BY <1>3, <2>3 DEF ForwardFailed, BeginRollback
  <2>4. CASE ForwardRebindFailed(j) \/ Unhealthy(j)
    BY <1>3, <2>4 DEF ForwardRebindFailed, BeginRollback, Unhealthy
  <2>5. CASE ResolvedOld(j)
    BY <1>3, <2>5 DEF ResolvedOld
  <2>6. CASE ResolvedOther(j)
    BY <1>3, <2>6 DEF ResolvedOther, BeginRollback
  <2>7. CASE ResolveFailed(j)
    BY <1>3, <2>7 DEF ResolveFailed
  <2>8. CASE RollbackUp(j) \/ RollbackCreated(j) \/ RollbackRebound(j) \/ RollbackHealthy(j)
    BY <1>3, <2>8 DEF RollbackUp, RollbackCreated, RollbackRebound, RollbackHealthy
  <2>9. CASE RolledBack(j)
    BY <1>3, <2>9 DEF RolledBack
  <2>10. CASE RollbackFailed(j)
    BY <1>3, <2>10 DEF RollbackFailed
  <2>11. CASE AdoptResolved(j)
    BY <1>3, <2>11 DEF AdoptResolved
  <2>12. CASE RollbackAbandoned(j)
    BY <1>3, <2>12 DEF RollbackAbandoned
  <2> QED
    BY <1>3, <2>1, <2>2, <2>3, <2>4, <2>5, <2>6, <2>7, <2>8, <2>9, <2>10, <2>11, <2>12 DEF
         ExecuteStep
<1>4. ASSUME NEW j \in Jobs, RecoveryStep(j) PROVE JobOK'
  <2>1. CASE RecoverBeforeForward(j) \/ RecoverStart(j) \/ RecoveryResolve(j) \/
             RecoverySettle(j) \/ RecoveryBeginRollback(j)
    BY <1>4, <2>1 DEF RecoverBeforeForward, MayRecover, RecoverStart, RecoveryResolve,
                   RecoverySettle, RecoveryBeginRollback
  <2>2. CASE RecoveryUp(j) \/ RecoveryCreated(j) \/ RecoveryRebound(j) \/
             RecoveryHealthy(j) \/ Recovered(j)
    BY <1>4, <2>2 DEF RecoveryUp, RecoveryCreated, RecoveryRebound, RecoveryHealthy, Recovered
  <2>3. CASE StartupBlocked(j)
    BY <1>4, <2>3 DEF StartupBlocked, Die
  <2> QED
    BY <1>4, <2>1, <2>2, <2>3 DEF RecoveryStep
<1>5. ASSUME NEW t \in Targets, Discover \/ SaveSelection(t) PROVE JobOK'
  BY <1>5 DEF Discover, SaveSelection
<1>6. CASE Crash \/ Restart \/ Listen
  BY <1>6 DEF Crash, Die, Restart, Listen
<1>7. CASE UNCHANGED vars
  BY <1>7 DEF vars
<1> QED
  BY <1>1, <1>2, <1>3, <1>4, <1>5, <1>6, <1>7 DEF Next, Discover

\* Every step keeps the lock of a target exclusive.
LEMMA LockStep ==
    ASSUME IInv, [Next]_vars
    PROVE  LockOK'
<1>a. /\ state \in [Jobs -> JobState \cup {"absent"}]
      /\ outcome \in [Jobs -> Outcome \cup {"none"}]
      /\ stages \in [Jobs -> SUBSET StageEvent]
      /\ old \in [Jobs -> Nat] /\ binding \in [Targets -> Nat]
      /\ pc \in [Jobs -> BusyPC \cup AwaitPC \cup {"idle", "pending"}]
      /\ candidate \in [Jobs -> Nat] /\ remoteId \in [Jobs -> Nat] /\ fresh \in [Jobs -> Nat]
      /\ \A j \in Jobs : Target(j) \in Targets /\ Target(j)' = Target(j)
  BY TargetStays DEF IInv, TypeOK, DatabaseTypeOK, ProcessTypeOK
<1>b. /\ current \in Containers
      /\ Containers \subseteq Containers'
      /\ \A c \in Containers : c # 0 /\ ImageOf(c)' = ImageOf(c)
  BY CurrentExists, ContainersStay DEF IInv
<1> USE <1>a, <1>b DEF dbVars, processVars, Goto, WithStage, Rebound, Recreated, Finish, IInv,
        JobOK,
        LockOK, Active, ACTIVE_STATES
<1>1. ASSUME NEW c \in commands, RemoteUp(c) PROVE LockOK'
  BY <1>1 DEF RemoteUp
<1>2. ASSUME NEW j \in Jobs, PrepareIntent(j) \/ Execute(j) PROVE LockOK'
  BY <1>2 DEF PrepareIntent, Execute
<1>3. ASSUME NEW j \in Jobs, ExecuteStep(j) PROVE LockOK'
  <2>1. CASE Start(j) \/ Validated(j) \/ ValidationFailed(j) \/ ForwardUp(j)
    BY <1>3, <2>1 DEF Start, Validated, ValidationFailed, ForwardUp
  <2>2. CASE ForwardCreated(j) \/ ForwardRebound(j) \/ Healthy(j) \/ Succeed(j)
    BY <1>3, <2>2 DEF ForwardCreated, ForwardRebound, Healthy, Succeed
  <2>3. CASE ForwardFailed(j) \/ ForwardRebindFailed(j) \/ Unhealthy(j)
    <3>1. CASE ForwardFailed(j)
      BY <1>3, <3>1 DEF ForwardFailed
    <3>2. CASE ForwardRebindFailed(j)
      BY <1>3, <3>2 DEF ForwardRebindFailed, BeginRollback
    <3>3. CASE Unhealthy(j)
      BY <1>3, <3>3 DEF Unhealthy, BeginRollback
    <3> QED
      BY <2>3, <3>1, <3>2, <3>3
  <2>4. CASE ResolvedOld(j)
    BY <1>3, <2>4 DEF ResolvedOld
  <2>5. CASE ResolvedOther(j)
    BY <1>3, <2>5 DEF ResolvedOther, BeginRollback
  <2>6. CASE ResolveFailed(j)
    BY <1>3, <2>6 DEF ResolveFailed
  <2>7. CASE RollbackUp(j) \/ RollbackCreated(j) \/ RollbackRebound(j) \/ RollbackHealthy(j)
    BY <1>3, <2>7 DEF RollbackUp, RollbackCreated, RollbackRebound, RollbackHealthy
  <2>8. CASE RolledBack(j)
    BY <1>3, <2>8 DEF RolledBack
  <2>9. CASE RollbackFailed(j)
    BY <1>3, <2>9 DEF RollbackFailed
  <2>10. CASE AdoptResolved(j)
    BY <1>3, <2>10 DEF AdoptResolved
  <2>11. CASE RollbackAbandoned(j)
    BY <1>3, <2>11 DEF RollbackAbandoned
  <2> QED
    BY <1>3, <2>1, <2>2, <2>3, <2>4, <2>5, <2>6, <2>7, <2>8, <2>9, <2>10, <2>11 DEF ExecuteStep
<1>4. ASSUME NEW j \in Jobs, RecoveryStep(j) PROVE LockOK'
  <2>1. CASE RecoverBeforeForward(j) \/ RecoverStart(j) \/ RecoveryResolve(j) \/
             RecoverySettle(j) \/ RecoveryBeginRollback(j)
    BY <1>4, <2>1 DEF RecoverBeforeForward, MayRecover, RecoverStart, RecoveryResolve,
                   RecoverySettle, RecoveryBeginRollback
  <2>2. CASE RecoveryUp(j) \/ RecoveryCreated(j) \/ RecoveryRebound(j) \/
             RecoveryHealthy(j) \/ Recovered(j)
    BY <1>4, <2>2 DEF RecoveryUp, RecoveryCreated, RecoveryRebound, RecoveryHealthy, Recovered
  <2>3. CASE StartupBlocked(j)
    BY <1>4, <2>3 DEF StartupBlocked, Die
  <2> QED
    BY <1>4, <2>1, <2>2, <2>3 DEF RecoveryStep
<1>5. ASSUME NEW t \in Targets, Discover \/ SaveSelection(t) PROVE LockOK'
  BY <1>5 DEF Discover, SaveSelection
<1>6. CASE Crash \/ Restart \/ Listen
  BY <1>6 DEF Crash, Die, Restart, Listen
<1>7. CASE UNCHANGED vars
  BY <1>7 DEF vars
<1> QED
  BY <1>1, <1>2, <1>3, <1>4, <1>5, <1>6, <1>7 DEF Next, Discover

\* No step journals a rollback that did not happen.
LEMMA ProvenStep ==
    ASSUME IInv, [Next]_vars
    PROVE  ProvenRollbackRunsOldImage'
<1>a. /\ state \in [Jobs -> JobState \cup {"absent"}]
      /\ outcome \in [Jobs -> Outcome \cup {"none"}]
      /\ stages \in [Jobs -> SUBSET StageEvent]
      /\ old \in [Jobs -> Nat] /\ binding \in [Targets -> Nat]
      /\ pc \in [Jobs -> BusyPC \cup AwaitPC \cup {"idle", "pending"}]
      /\ candidate \in [Jobs -> Nat] /\ remoteId \in [Jobs -> Nat] /\ fresh \in [Jobs -> Nat]
      /\ \A j \in Jobs : Target(j) \in Targets /\ Target(j)' = Target(j)
  BY TargetStays DEF IInv, TypeOK, DatabaseTypeOK, ProcessTypeOK
<1>b. /\ current \in Containers
      /\ Containers \subseteq Containers'
      /\ \A c \in Containers : c # 0 /\ ImageOf(c)' = ImageOf(c)
  BY CurrentExists, ContainersStay DEF IInv
<1>c. \A j \in Jobs : /\ state[j] = "absent" => pc[j] = "idle" /\ stages[j] = {}
                      /\ pc[j] # "idle" \/ stages[j] # {} => old[j] \in Containers
                      /\ \A k \in Jobs :
                             pc[j] # "idle" /\ pc[k] # "idle" /\ Target(j) = Target(k) => j = k
  BY DEF IInv, JobOK, LockOK, Active, ACTIVE_STATES
<1>d. ProvenRollbackRunsOldImage
  BY DEF IInv
<1> USE <1>a, <1>b, <1>c, <1>d DEF dbVars, processVars, Goto, Rebound, Recreated, Finish,
        WithStage, Proven,
        ProvenRollbackRunsOldImage, RollbackImage
<1>1. ASSUME NEW c \in commands, RemoteUp(c) PROVE ProvenRollbackRunsOldImage'
  BY <1>1 DEF RemoteUp
<1>2. ASSUME NEW j \in Jobs, PrepareIntent(j) \/ Execute(j) PROVE ProvenRollbackRunsOldImage'
  <2>1. CASE PrepareIntent(j)
    <3>1. /\ state[j] = "absent" /\ stages' = stages
          /\ \A k \in Jobs : k # j => old'[k] = old[k]
          /\ \A c \in Containers : c \in Containers' /\ ImageOf(c)' = ImageOf(c)
      BY <2>1 DEF PrepareIntent
    <3>2. stages[j] = {}
      BY <3>1
    <3>3. ASSUME NEW k \in Jobs, NEW c \in Proven(k)'
          PROVE  c \in Containers' /\ ImageOf(c)' = RollbackImage(k)'
      <4>1. k # j /\ c \in Proven(k)
        BY <3>1, <3>2, <3>3
      <4>2. c \in Containers /\ ImageOf(c) = RollbackImage(k) /\ old[k] \in Containers
        BY <4>1
      <4> QED
        BY <3>1, <4>1, <4>2
    <3> QED
      BY <3>3
  <2>2. CASE Execute(j)
    <3>1. UNCHANGED <<stages, old>>
      BY <2>2 DEF Execute
    <3> QED
      BY <3>1
  <2> QED
    BY <1>2, <2>1, <2>2
<1>3. ASSUME NEW j \in Jobs, ExecuteStep(j) PROVE ProvenRollbackRunsOldImage'
  <2>1. CASE Start(j)
    BY <1>3, <2>1 DEF Start
  <2>2. CASE Validated(j)
    BY <1>3, <2>2 DEF Validated
  <2>3. CASE ValidationFailed(j) \/ ForwardUp(j)
    BY <1>3, <2>3 DEF ValidationFailed, ForwardUp
  <2>4. CASE ForwardCreated(j) \/ ForwardRebound(j) \/ Healthy(j) \/ Succeed(j)
    BY <1>3, <2>4 DEF ForwardCreated, ForwardRebound, Healthy, Succeed
  <2>5. CASE ForwardFailed(j)
    BY <1>3, <2>5, SMTT(30) DEF ForwardFailed, BeginRollback
  <2>6. CASE ForwardRebindFailed(j)
    BY <1>3, <2>6, SMTT(30) DEF ForwardRebindFailed, BeginRollback
  <2>7. CASE Unhealthy(j)
    BY <1>3, <2>7, SMTT(30) DEF Unhealthy, BeginRollback
  <2>8. CASE ResolvedOld(j)
    BY <1>3, <2>8 DEF ResolvedOld
  <2>9. CASE ResolvedOther(j)
    BY <1>3, <2>9, SMTT(30) DEF ResolvedOther, BeginRollback
  <2>10. CASE ResolveFailed(j)
    BY <1>3, <2>10 DEF ResolveFailed
  <2>11. CASE RollbackUp(j) \/ RollbackCreated(j) \/ RollbackRebound(j) \/ RollbackHealthy(j)
    BY <1>3, <2>11 DEF RollbackUp, RollbackCreated, RollbackRebound, RollbackHealthy
  <2>12. CASE RolledBack(j)
    BY <1>3, <2>12 DEF RolledBack
  <2>13. CASE RollbackFailed(j)
    BY <1>3, <2>13, SMTT(30) DEF RollbackFailed
  <2>14. CASE AdoptResolved(j)
    BY <1>3, <2>14 DEF AdoptResolved
  <2>15. CASE RollbackAbandoned(j)
    BY <1>3, <2>15 DEF RollbackAbandoned
  <2> QED
    BY <1>3, <2>1, <2>2, <2>3, <2>4, <2>5, <2>6, <2>7, <2>8, <2>9, <2>10, <2>11, <2>12, <2>13,
       <2>14, <2>15 DEF
         ExecuteStep
<1>4. ASSUME NEW j \in Jobs, RecoveryStep(j) PROVE ProvenRollbackRunsOldImage'
  <2>1. CASE RecoverBeforeForward(j) \/ RecoverStart(j) \/ RecoveryResolve(j)
    BY <1>4, <2>1, SMTT(30) DEF RecoverBeforeForward, MayRecover, RecoverStart, RecoveryResolve
  <2>2. CASE RecoverySettle(j)
    BY <1>4, <2>2 DEF RecoverySettle
  <2>3. CASE RecoveryBeginRollback(j)
    BY <1>4, <2>3, SMTT(30) DEF RecoveryBeginRollback
  <2>4. CASE RecoveryUp(j)
    BY <1>4, <2>4, SMTT(30) DEF RecoveryUp
  <2>5. CASE RecoveryCreated(j)
    BY <1>4, <2>5 DEF RecoveryCreated
  <2>6. CASE RecoveryRebound(j) \/ RecoveryHealthy(j) \/ Recovered(j)
    BY <1>4, <2>6, SMTT(30) DEF RecoveryRebound, RecoveryHealthy, Recovered
  <2>7. CASE StartupBlocked(j)
    BY <1>4, <2>7 DEF StartupBlocked, Die
  <2> QED
    BY <1>4, <2>1, <2>2, <2>3, <2>4, <2>5, <2>6, <2>7 DEF RecoveryStep
<1>5. ASSUME NEW t \in Targets, Discover \/ SaveSelection(t) PROVE ProvenRollbackRunsOldImage'
  BY <1>5 DEF Discover, SaveSelection
<1>6. CASE Crash \/ Restart \/ Listen
  BY <1>6 DEF Crash, Die, Restart, Listen
<1>7. CASE UNCHANGED vars
  BY <1>7 DEF vars
<1> QED
  BY <1>1, <1>2, <1>3, <1>4, <1>5, <1>6, <1>7 DEF Next, Discover

\* Every step keeps what a handler or a recovery knows of its container.
LEMMA HoldsStep ==
    ASSUME IInv, [Next]_vars
    PROVE  HoldsOK'
<1>a. /\ state \in [Jobs -> JobState \cup {"absent"}]
      /\ outcome \in [Jobs -> Outcome \cup {"none"}]
      /\ stages \in [Jobs -> SUBSET StageEvent]
      /\ old \in [Jobs -> Nat] /\ binding \in [Targets -> Nat]
      /\ pc \in [Jobs -> BusyPC \cup AwaitPC \cup {"idle", "pending"}]
      /\ candidate \in [Jobs -> Nat] /\ remoteId \in [Jobs -> Nat] /\ fresh \in [Jobs -> Nat]
      /\ \A j \in Jobs : Target(j) \in Targets /\ Target(j)' = Target(j)
  BY TargetStays DEF IInv, TypeOK, DatabaseTypeOK, ProcessTypeOK
<1>b. /\ current \in Containers
      /\ Containers \subseteq Containers'
      /\ \A c \in Containers : c # 0 /\ ImageOf(c)' = ImageOf(c)
  BY CurrentExists, ContainersStay DEF IInv
<1>c. \A j \in Jobs : /\ state[j] = "absent" => pc[j] = "idle" /\ stages[j] = {}
                      /\ pc[j] # "idle" \/ stages[j] # {} => old[j] \in Containers
                      /\ \A k \in Jobs :
                             pc[j] # "idle" /\ pc[k] # "idle" /\ Target(j) = Target(k) => j = k
  BY DEF IInv, JobOK, LockOK, Active, ACTIVE_STATES
<1>d. ProvenRollbackRunsOldImage /\ HoldsOK
  BY DEF IInv
<1> USE <1>a, <1>b, <1>c, <1>d DEF dbVars, processVars, Goto, Rebound, Recreated, Finish,
        ProvenRollbackRunsOldImage,
        HoldsOK, Runs, Proven, RollbackImage
<1>1. ASSUME NEW c \in commands, RemoteUp(c) PROVE HoldsOK'
  BY <1>1 DEF RemoteUp
<1>2. ASSUME NEW j \in Jobs, PrepareIntent(j) \/ Execute(j) PROVE HoldsOK'
  BY <1>2 DEF PrepareIntent, Execute
<1>3. ASSUME NEW j \in Jobs, ExecuteStep(j) PROVE HoldsOK'
  <2>1. CASE Start(j) \/ Validated(j) \/ ValidationFailed(j) \/ ForwardUp(j)
    BY <1>3, <2>1 DEF Start, Validated, ValidationFailed, ForwardUp
  <2>2. CASE ForwardCreated(j) \/ ForwardRebound(j) \/ Healthy(j) \/ Succeed(j)
    BY <1>3, <2>2 DEF ForwardCreated, ForwardRebound, Healthy, Succeed
  <2>3. CASE ForwardFailed(j)
    BY <1>3, <2>3 DEF ForwardFailed, BeginRollback
  <2>4. CASE ForwardRebindFailed(j)
    BY <1>3, <2>4 DEF ForwardRebindFailed, BeginRollback
  <2>5. CASE Unhealthy(j)
    BY <1>3, <2>5 DEF Unhealthy, BeginRollback
  <2>6. CASE ResolvedOld(j)
    BY <1>3, <2>6 DEF ResolvedOld
  <2>7. CASE ResolvedOther(j)
    BY <1>3, <2>7 DEF ResolvedOther, BeginRollback
  <2>8. CASE ResolveFailed(j)
    BY <1>3, <2>8 DEF ResolveFailed
  <2>9. CASE RollbackUp(j) \/ RollbackCreated(j) \/ RollbackRebound(j) \/ RollbackHealthy(j)
    BY <1>3, <2>9 DEF RollbackUp, RollbackCreated, RollbackRebound, RollbackHealthy
  <2>10. CASE RolledBack(j)
    BY <1>3, <2>10 DEF RolledBack
  <2>11. CASE RollbackFailed(j)
    BY <1>3, <2>11 DEF RollbackFailed
  <2>12. CASE AdoptResolved(j)
    BY <1>3, <2>12 DEF AdoptResolved
  <2>13. CASE RollbackAbandoned(j)
    BY <1>3, <2>13 DEF RollbackAbandoned
  <2> QED
    BY <1>3, <2>1, <2>2, <2>3, <2>4, <2>5, <2>6, <2>7, <2>8, <2>9, <2>10, <2>11, <2>12, <2>13 DEF
         ExecuteStep
<1>4. ASSUME NEW j \in Jobs, RecoveryStep(j) PROVE HoldsOK'
  <2>1. CASE RecoverBeforeForward(j) \/ RecoverStart(j) \/ RecoveryResolve(j)
    BY <1>4, <2>1 DEF RecoverBeforeForward, MayRecover, RecoverStart, RecoveryResolve
  <2>2. CASE RecoverySettle(j)
    BY <1>4, <2>2 DEF RecoverySettle
  <2>3. CASE RecoveryBeginRollback(j)
    BY <1>4, <2>3 DEF RecoveryBeginRollback
  <2>4. CASE RecoveryUp(j) \/ RecoveryCreated(j) \/ RecoveryRebound(j) \/
             RecoveryHealthy(j) \/ Recovered(j)
    BY <1>4, <2>4 DEF RecoveryUp, RecoveryCreated, RecoveryRebound, RecoveryHealthy, Recovered
  <2>5. CASE StartupBlocked(j)
    BY <1>4, <2>5 DEF StartupBlocked, Die
  <2> QED
    BY <1>4, <2>1, <2>2, <2>3, <2>4, <2>5 DEF RecoveryStep
<1>5. ASSUME NEW t \in Targets, Discover \/ SaveSelection(t) PROVE HoldsOK'
  BY <1>5 DEF Discover, SaveSelection
<1>6. CASE Crash \/ Restart \/ Listen
  BY <1>6, SMTT(30) DEF Crash, Die, Restart, Listen
<1>7. CASE UNCHANGED vars
  BY <1>7 DEF vars
<1> QED
  BY <1>1, <1>2, <1>3, <1>4, <1>5, <1>6, <1>7 DEF Next, Discover

\* No step takes the binding away from a container that is being verified.
LEMMA BoundStep ==
    ASSUME IInv, [Next]_vars
    PROVE  BoundOK'
<1>a. /\ state \in [Jobs -> JobState \cup {"absent"}]
      /\ outcome \in [Jobs -> Outcome \cup {"none"}]
      /\ stages \in [Jobs -> SUBSET StageEvent]
      /\ old \in [Jobs -> Nat] /\ binding \in [Targets -> Nat]
      /\ pc \in [Jobs -> BusyPC \cup AwaitPC \cup {"idle", "pending"}]
      /\ candidate \in [Jobs -> Nat] /\ remoteId \in [Jobs -> Nat] /\ fresh \in [Jobs -> Nat]
      /\ \A j \in Jobs : Target(j) \in Targets /\ Target(j)' = Target(j)
  BY TargetStays DEF IInv, TypeOK, DatabaseTypeOK, ProcessTypeOK
<1>b. /\ current \in Containers
      /\ Containers \subseteq Containers'
      /\ \A c \in Containers : c # 0 /\ ImageOf(c)' = ImageOf(c)
  BY CurrentExists, ContainersStay DEF IInv
<1>c. \A j \in Jobs : /\ state[j] = "absent" => pc[j] = "idle" /\ stages[j] = {}
                      /\ pc[j] # "idle" \/ stages[j] # {} => old[j] \in Containers
                      /\ \A k \in Jobs :
                             pc[j] # "idle" /\ pc[k] # "idle" /\ Target(j) = Target(k) => j = k
  BY DEF IInv, JobOK, LockOK, Active, ACTIVE_STATES
<1>d. HoldsOK /\ BoundOK
  BY DEF IInv
<1> USE <1>a, <1>b, <1>c, <1>d DEF dbVars, processVars, Goto, Rebound, Recreated, Finish,
        HoldsOK, BoundOK, Runs
<1>1. ASSUME NEW c \in commands, RemoteUp(c) PROVE BoundOK'
  BY <1>1 DEF RemoteUp
<1>2. ASSUME NEW j \in Jobs, PrepareIntent(j) \/ Execute(j) PROVE BoundOK'
  BY <1>2 DEF PrepareIntent, Execute
<1>3. ASSUME NEW j \in Jobs, ExecuteStep(j) PROVE BoundOK'
  <2>1. CASE Start(j) \/ Validated(j) \/ ValidationFailed(j) \/ ForwardUp(j)
    BY <1>3, <2>1 DEF Start, Validated, ValidationFailed, ForwardUp
  <2>2. CASE ForwardCreated(j) \/ ForwardRebound(j) \/ Healthy(j) \/ Succeed(j)
    BY <1>3, <2>2 DEF ForwardCreated, ForwardRebound, Healthy, Succeed
  <2>3. CASE ForwardFailed(j)
    BY <1>3, <2>3 DEF ForwardFailed, BeginRollback
  <2>4. CASE ForwardRebindFailed(j)
    BY <1>3, <2>4 DEF ForwardRebindFailed, BeginRollback
  <2>5. CASE Unhealthy(j)
    BY <1>3, <2>5 DEF Unhealthy, BeginRollback
  <2>6. CASE ResolvedOld(j)
    BY <1>3, <2>6 DEF ResolvedOld
  <2>7. CASE ResolvedOther(j)
    BY <1>3, <2>7 DEF ResolvedOther, BeginRollback
  <2>8. CASE ResolveFailed(j)
    BY <1>3, <2>8 DEF ResolveFailed
  <2>9. CASE RollbackUp(j) \/ RollbackCreated(j) \/ RollbackRebound(j) \/ RollbackHealthy(j)
    BY <1>3, <2>9 DEF RollbackUp, RollbackCreated, RollbackRebound, RollbackHealthy
  <2>10. CASE RolledBack(j)
    BY <1>3, <2>10 DEF RolledBack
  <2>11. CASE RollbackFailed(j)
    BY <1>3, <2>11 DEF RollbackFailed
  <2>12. CASE AdoptResolved(j)
    <3>1. \A k \in Jobs : k # j /\ pc[k] # "idle" => Target(k) # Target(j)
      BY <1>3, <2>12 DEF AdoptResolved
    <3>2. /\ pc' = [pc EXCEPT ![j] = "rb_abandon"]
          /\ UNCHANGED <<candidate, fresh>>
      BY <2>12 DEF AdoptResolved
    <3>3. \A u \in Targets : u # Target(j) => binding'[u] = binding[u]
      BY <2>12 DEF AdoptResolved
    <3> HIDE DEF HoldsOK
    <3> QED
      BY <3>1, <3>2, <3>3
  <2>13. CASE RollbackAbandoned(j)
    BY <1>3, <2>13 DEF RollbackAbandoned
  <2> QED
    BY <1>3, <2>1, <2>2, <2>3, <2>4, <2>5, <2>6, <2>7, <2>8, <2>9, <2>10, <2>11, <2>12, <2>13 DEF
         ExecuteStep
<1>4. ASSUME NEW j \in Jobs, RecoveryStep(j) PROVE BoundOK'
  <2>1. CASE RecoverBeforeForward(j) \/ RecoverStart(j) \/ RecoveryResolve(j) \/
             RecoverySettle(j) \/ RecoveryBeginRollback(j)
    BY <1>4, <2>1 DEF RecoverBeforeForward, MayRecover, RecoverStart, RecoveryResolve,
                   RecoverySettle, RecoveryBeginRollback
  <2>2. CASE RecoveryUp(j) \/ RecoveryCreated(j) \/ RecoveryRebound(j) \/
             RecoveryHealthy(j) \/ Recovered(j)
    BY <1>4, <2>2 DEF RecoveryUp, RecoveryCreated, RecoveryRebound, RecoveryHealthy, Recovered
  <2>3. CASE StartupBlocked(j)
    BY <1>4, <2>3 DEF StartupBlocked, Die
  <2> QED
    BY <1>4, <2>1, <2>2, <2>3 DEF RecoveryStep
<1>5. ASSUME NEW t \in Targets, Discover \/ SaveSelection(t) PROVE BoundOK'
  BY <1>5 DEF Discover, SaveSelection
<1>6. CASE Crash \/ Restart \/ Listen
  BY <1>6 DEF Crash, Die, Restart, Listen
<1>7. CASE UNCHANGED vars
  BY <1>7 DEF vars
<1> QED
  BY <1>1, <1>2, <1>3, <1>4, <1>5, <1>6, <1>7 DEF Next, Discover

\* Every step keeps the health check of a verdict in the journal.
LEMMA VerifiedStep ==
    ASSUME IInv, [Next]_vars
    PROVE  VerifiedOK'
<1>a. /\ state \in [Jobs -> JobState \cup {"absent"}]
      /\ outcome \in [Jobs -> Outcome \cup {"none"}]
      /\ stages \in [Jobs -> SUBSET StageEvent]
      /\ old \in [Jobs -> Nat] /\ binding \in [Targets -> Nat]
      /\ pc \in [Jobs -> BusyPC \cup AwaitPC \cup {"idle", "pending"}]
      /\ candidate \in [Jobs -> Nat] /\ remoteId \in [Jobs -> Nat] /\ fresh \in [Jobs -> Nat]
      /\ \A j \in Jobs : Target(j) \in Targets /\ Target(j)' = Target(j)
  BY TargetStays DEF IInv, TypeOK, DatabaseTypeOK, ProcessTypeOK
<1>b. /\ current \in Containers
      /\ Containers \subseteq Containers'
      /\ \A c \in Containers : c # 0 /\ ImageOf(c)' = ImageOf(c)
  BY CurrentExists, ContainersStay DEF IInv
<1>c. \A j \in Jobs : /\ state[j] = "absent" => pc[j] = "idle" /\ stages[j] = {}
                      /\ pc[j] # "idle" \/ stages[j] # {} => old[j] \in Containers
                      /\ \A k \in Jobs :
                             pc[j] # "idle" /\ pc[k] # "idle" /\ Target(j) = Target(k) => j = k
  BY DEF IInv, JobOK, LockOK, Active, ACTIVE_STATES
<1>d. VerifiedOK
  BY DEF IInv
<1> USE <1>a, <1>b, <1>c, <1>d DEF dbVars, processVars, Goto, Rebound, Recreated, Finish,
        WithStage, VerifiedOK
<1>1. ASSUME NEW c \in commands, RemoteUp(c) PROVE VerifiedOK'
  BY <1>1 DEF RemoteUp
<1>2. ASSUME NEW j \in Jobs, PrepareIntent(j) \/ Execute(j) PROVE VerifiedOK'
  BY <1>2 DEF PrepareIntent, Execute
<1>3. ASSUME NEW j \in Jobs, ExecuteStep(j) PROVE VerifiedOK'
  <2>1. CASE Start(j)
    BY <1>3, <2>1 DEF Start
  <2>2. CASE Validated(j)
    BY <1>3, <2>2 DEF Validated
  <2>3. CASE ValidationFailed(j) \/ ForwardUp(j)
    <3>1. CASE ValidationFailed(j)
      BY <1>3, <3>1, SMTT(30) DEF ValidationFailed
    <3>2. CASE ForwardUp(j)
      <4>1. /\ pc' = [pc EXCEPT ![j] = "forward_up"]
            /\ UNCHANGED <<stages, candidate, fresh>>
        BY <3>2 DEF ForwardUp
      <4> QED
        BY <4>1
    <3> QED
      BY <2>3, <3>1, <3>2
  <2>4. CASE ForwardCreated(j)
    BY <1>3, <2>4 DEF ForwardCreated
  <2>5. CASE ForwardRebound(j)
    BY <1>3, <2>5 DEF ForwardRebound
  <2>6. CASE Healthy(j)
    BY <1>3, <2>6 DEF Healthy
  <2>7. CASE Succeed(j)
    BY <1>3, <2>7 DEF Succeed
  <2>8. CASE ForwardFailed(j)
    BY <1>3, <2>8 DEF ForwardFailed, BeginRollback
  <2>9. CASE ForwardRebindFailed(j)
    BY <1>3, <2>9 DEF ForwardRebindFailed, BeginRollback
  <2>10. CASE Unhealthy(j)
    BY <1>3, <2>10 DEF Unhealthy, BeginRollback
  <2>11. CASE ResolvedOld(j)
    BY <1>3, <2>11 DEF ResolvedOld
  <2>12. CASE ResolvedOther(j)
    BY <1>3, <2>12 DEF ResolvedOther, BeginRollback
  <2>13. CASE ResolveFailed(j)
    BY <1>3, <2>13 DEF ResolveFailed
  <2>14. CASE RollbackUp(j)
    BY <1>3, <2>14 DEF RollbackUp
  <2>15. CASE RollbackCreated(j)
    BY <1>3, <2>15 DEF RollbackCreated
  <2>16. CASE RollbackRebound(j)
    BY <1>3, <2>16 DEF RollbackRebound
  <2>17. CASE RollbackHealthy(j)
    BY <1>3, <2>17 DEF RollbackHealthy
  <2>18. CASE RolledBack(j)
    BY <1>3, <2>18 DEF RolledBack
  <2>19. CASE RollbackFailed(j)
    BY <1>3, <2>19 DEF RollbackFailed
  <2>20. CASE AdoptResolved(j)
    BY <1>3, <2>20 DEF AdoptResolved
  <2>21. CASE RollbackAbandoned(j)
    BY <1>3, <2>21 DEF RollbackAbandoned
  <2> QED
    BY <1>3, <2>1, <2>2, <2>3, <2>4, <2>5, <2>6, <2>7, <2>8, <2>9, <2>10, <2>11, <2>12, <2>13,
       <2>14, <2>15, <2>16, <2>17, <2>18, <2>19, <2>20, <2>21 DEF
         ExecuteStep
<1>4. ASSUME NEW j \in Jobs, RecoveryStep(j) PROVE VerifiedOK'
  <2>1. CASE RecoverBeforeForward(j)
    BY <1>4, <2>1 DEF RecoverBeforeForward, MayRecover
  <2>2. CASE RecoverStart(j)
    BY <1>4, <2>2 DEF RecoverStart, MayRecover
  <2>3. CASE RecoveryResolve(j)
    BY <1>4, <2>3 DEF RecoveryResolve
  <2>4. CASE RecoverySettle(j)
    BY <1>4, <2>4 DEF RecoverySettle
  <2>5. CASE RecoveryBeginRollback(j)
    BY <1>4, <2>5 DEF RecoveryBeginRollback
  <2>6. CASE RecoveryUp(j)
    BY <1>4, <2>6 DEF RecoveryUp
  <2>7. CASE RecoveryCreated(j)
    BY <1>4, <2>7 DEF RecoveryCreated
  <2>8. CASE RecoveryRebound(j)
    BY <1>4, <2>8 DEF RecoveryRebound
  <2>9. CASE RecoveryHealthy(j)
    BY <1>4, <2>9 DEF RecoveryHealthy
  <2>10. CASE Recovered(j)
    BY <1>4, <2>10 DEF Recovered
  <2>11. CASE StartupBlocked(j)
    BY <1>4, <2>11 DEF StartupBlocked, Die
  <2> QED
    BY <1>4, <2>1, <2>2, <2>3, <2>4, <2>5, <2>6, <2>7, <2>8, <2>9, <2>10, <2>11 DEF RecoveryStep
<1>5. ASSUME NEW t \in Targets, Discover \/ SaveSelection(t) PROVE VerifiedOK'
  BY <1>5 DEF Discover, SaveSelection
<1>6. CASE Crash \/ Restart \/ Listen
  BY <1>6 DEF Crash, Die, Restart, Listen
<1>7. CASE UNCHANGED vars
  BY <1>7 DEF vars
<1> QED
  BY <1>1, <1>2, <1>3, <1>4, <1>5, <1>6, <1>7 DEF Next, Discover

\* What a step does to the commands leaves commands.
LEMMA CommandType ==
    ASSUME TypeOK
    PROVE  /\ \A S \in SUBSET commands : Abandon(S) => commands' \subseteq Command
           /\ \A j \in Jobs, i \in Images : IssueUp(j, i) => commands' \subseteq Command
<1>1. ASSUME NEW S \in SUBSET commands, Abandon(S) PROVE commands' \subseteq Command
  <2>1. ASSUME NEW c \in S PROVE [c EXCEPT !.awaited = FALSE] \in Command
    <3>1. c \in Command
      BY DEF TypeOK, RemoteTypeOK
    <3> QED
      BY <3>1 DEF Command
  <2> QED
    BY <1>1, <2>1, Zenon DEF Abandon, TypeOK, RemoteTypeOK
<1>2. ASSUME NEW j \in Jobs, NEW i \in Images, IssueUp(j, i) PROVE commands' \subseteq Command
  <2>1. [job |-> j, image |-> i, awaited |-> TRUE] \in Command
    BY DEF Command
  <2> QED
    BY <1>2, <2>1, Zenon DEF IssueUp, TypeOK, RemoteTypeOK
<1> QED
  BY <1>1, <1>2

\* Every step keeps the types of the database and of the process.
LEMMA LocalTypeStep ==
    ASSUME TypeOK, [Next]_vars
    PROVE  (DatabaseTypeOK /\ ProcessTypeOK)'
<1>a. /\ state \in [Jobs -> JobState \cup {"absent"}]
      /\ stages \in [Jobs -> SUBSET StageEvent]
      /\ \A j \in Jobs : Target(j) \in Targets
      /\ current \in Nat
  BY CurrentExists, TargetStays DEF TypeOK, DatabaseTypeOK
<1>b. \A n \in StageName, c \in Nat : [stage |-> n, container |-> c] \in StageEvent
  BY StageType
<1>c. DatabaseTypeOK /\ ProcessTypeOK
  BY DEF TypeOK
<1> USE <1>a, <1>b, <1>c DEF dbVars, processVars, Goto, WithStage, Rebound, Finish, JobState,
        Outcome, BusyPC,
        AwaitPC, StageName, DatabaseTypeOK, ProcessTypeOK
<1>1. ASSUME NEW c \in commands, RemoteUp(c) PROVE (DatabaseTypeOK /\ ProcessTypeOK)'
  BY <1>1 DEF RemoteUp
<1>2. ASSUME NEW j \in Jobs, PrepareIntent(j) \/ Execute(j)
      PROVE  (DatabaseTypeOK /\ ProcessTypeOK)'
  BY <1>2 DEF PrepareIntent, Execute
<1>3. ASSUME NEW j \in Jobs, ExecuteStep(j) PROVE (DatabaseTypeOK /\ ProcessTypeOK)'
  <2>1. CASE Start(j)
    BY <1>3, <2>1 DEF Start
  <2>2. CASE Validated(j)
    BY <1>3, <2>2 DEF Validated
  <2>3. CASE ValidationFailed(j) \/ ForwardUp(j)
    BY <1>3, <2>3 DEF ValidationFailed, ForwardUp
  <2>4. CASE ForwardCreated(j)
    BY <1>3, <2>4 DEF ForwardCreated
  <2>5. CASE ForwardRebound(j) \/ Healthy(j)
    BY <1>3, <2>5 DEF ForwardRebound, Healthy
  <2>6. CASE Succeed(j)
    BY <1>3, <2>6 DEF Succeed
  <2>7. CASE ForwardFailed(j)
    BY <1>3, <2>7 DEF ForwardFailed, BeginRollback
  <2>8. CASE ForwardRebindFailed(j)
    BY <1>3, <2>8 DEF ForwardRebindFailed, BeginRollback
  <2>9. CASE Unhealthy(j)
    BY <1>3, <2>9 DEF Unhealthy, BeginRollback
  <2>10. CASE ResolvedOld(j)
    BY <1>3, <2>10 DEF ResolvedOld
  <2>11. CASE ResolvedOther(j)
    BY <1>3, <2>11 DEF ResolvedOther, BeginRollback
  <2>12. CASE ResolveFailed(j)
    BY <1>3, <2>12 DEF ResolveFailed
  <2>13. CASE RollbackUp(j) \/ RollbackCreated(j) \/ RollbackRebound(j) \/ RollbackHealthy(j)
    BY <1>3, <2>13 DEF RollbackUp, RollbackCreated, RollbackRebound, RollbackHealthy
  <2>14. CASE RolledBack(j)
    BY <1>3, <2>14 DEF RolledBack
  <2>15. CASE RollbackFailed(j)
    BY <1>3, <2>15 DEF RollbackFailed
  <2>16. CASE AdoptResolved(j)
    BY <1>3, <2>16 DEF AdoptResolved
  <2>17. CASE RollbackAbandoned(j)
    BY <1>3, <2>17 DEF RollbackAbandoned
  <2> QED
    BY <1>3, <2>1, <2>2, <2>3, <2>4, <2>5, <2>6, <2>7, <2>8, <2>9, <2>10, <2>11, <2>12, <2>13,
       <2>14, <2>15, <2>16, <2>17 DEF
         ExecuteStep
<1>4. ASSUME NEW j \in Jobs, RecoveryStep(j) PROVE (DatabaseTypeOK /\ ProcessTypeOK)'
  <2>1. CASE RecoverBeforeForward(j)
    BY <1>4, <2>1 DEF RecoverBeforeForward, MayRecover
  <2>2. CASE RecoverStart(j)
    BY <1>4, <2>2 DEF RecoverStart, MayRecover
  <2>3. CASE RecoveryResolve(j)
    BY <1>4, <2>3 DEF RecoveryResolve
  <2>4. CASE RecoverySettle(j)
    BY <1>4, <2>4 DEF RecoverySettle
  <2>5. CASE RecoveryBeginRollback(j)
    BY <1>4, <2>5 DEF RecoveryBeginRollback
  <2>6. CASE RecoveryUp(j)
    BY <1>4, <2>6 DEF RecoveryUp
  <2>7. CASE RecoveryCreated(j)
    BY <1>4, <2>7 DEF RecoveryCreated
  <2>8. CASE RecoveryRebound(j)
    BY <1>4, <2>8 DEF RecoveryRebound
  <2>9. CASE RecoveryHealthy(j)
    BY <1>4, <2>9 DEF RecoveryHealthy
  <2>10. CASE Recovered(j)
    BY <1>4, <2>10 DEF Recovered
  <2>11. CASE StartupBlocked(j)
    BY <1>4, <2>11 DEF StartupBlocked, Die
  <2> QED
    BY <1>4, <2>1, <2>2, <2>3, <2>4, <2>5, <2>6, <2>7, <2>8, <2>9, <2>10, <2>11 DEF RecoveryStep
<1>5. ASSUME NEW t \in Targets, Discover \/ SaveSelection(t)
      PROVE  (DatabaseTypeOK /\ ProcessTypeOK)'
  BY <1>5 DEF Discover, SaveSelection
<1>6. CASE Crash \/ Restart \/ Listen
  BY <1>6 DEF Crash, Die, Restart, Listen
<1>7. CASE UNCHANGED vars
  BY <1>7 DEF vars
<1> QED
  BY <1>1, <1>2, <1>3, <1>4, <1>5, <1>6, <1>7 DEF Next, Discover

\* Every step keeps the types of the commands and of the bounds.
LEMMA CommandStep ==
    ASSUME TypeOK, JobOK, [Next]_vars
    PROVE  (commands \subseteq Command /\ faults \in Nat /\ crashes \in Nat)'
<1>a. /\ \A S \in SUBSET commands : Abandon(S) => commands' \subseteq Command
      /\ \A j \in Jobs, i \in Images : IssueUp(j, i) => commands' \subseteq Command
  BY CommandType
<1>b. /\ \A j \in Jobs : Awaited(j) \in SUBSET commands /\ CandidateOf[j] \in Images
      /\ \A j \in Jobs : pc[j] # "idle" => RollbackImage(j) \in Images
      /\ {c \in commands : c.awaited} \in SUBSET commands
  BY CurrentExists, UpdateAssumption DEF JobOK, RollbackImage, Active, ACTIVE_STATES, Awaited
<1>c. commands \subseteq Command /\ faults \in Nat /\ crashes \in Nat
  BY DEF TypeOK, RemoteTypeOK
<1> USE <1>a, <1>b, <1>c DEF remoteVars, FailsBecause
<1>1. ASSUME NEW c \in commands, RemoteUp(c)
      PROVE  (commands \subseteq Command /\ faults \in Nat /\ crashes \in Nat)'
  BY <1>1 DEF RemoteUp
<1>2. ASSUME NEW j \in Jobs, PrepareIntent(j) \/ Execute(j)
      PROVE  (commands \subseteq Command /\ faults \in Nat /\ crashes \in Nat)'
  BY <1>2 DEF PrepareIntent, Execute
<1>3. ASSUME NEW j \in Jobs, ExecuteStep(j)
      PROVE  (commands \subseteq Command /\ faults \in Nat /\ crashes \in Nat)'
  <2>1. CASE Start(j) \/ Validated(j) \/ ValidationFailed(j) \/ ForwardUp(j)
    BY <1>3, <2>1 DEF Start, Validated, ValidationFailed, ForwardUp
  <2>2. CASE ForwardCreated(j) \/ ForwardRebound(j) \/ Healthy(j) \/ Succeed(j)
    BY <1>3, <2>2 DEF ForwardCreated, ForwardRebound, Healthy, Succeed
  <2>3. CASE ForwardFailed(j) \/ ForwardRebindFailed(j) \/ Unhealthy(j)
    BY <1>3, <2>3 DEF ForwardFailed, BeginRollback, ForwardRebindFailed, Unhealthy
  <2>4. CASE ResolvedOld(j) \/ ResolvedOther(j) \/ ResolveFailed(j)
    BY <1>3, <2>4 DEF ResolvedOld, ResolvedOther, BeginRollback, ResolveFailed
  <2>5. CASE RollbackUp(j) \/ RollbackCreated(j) \/ RollbackRebound(j) \/ RollbackHealthy(j)
    BY <1>3, <2>5 DEF RollbackUp, RollbackCreated, RollbackRebound, RollbackHealthy
  <2>6. CASE RolledBack(j) \/ RollbackFailed(j) \/ AdoptResolved(j) \/ RollbackAbandoned(j)
    BY <1>3, <2>6 DEF RolledBack, RollbackFailed, AdoptResolved, RollbackAbandoned
  <2> QED
    BY <1>3, <2>1, <2>2, <2>3, <2>4, <2>5, <2>6 DEF ExecuteStep
<1>4. ASSUME NEW j \in Jobs, RecoveryStep(j)
      PROVE  (commands \subseteq Command /\ faults \in Nat /\ crashes \in Nat)'
  <2>1. CASE RecoverBeforeForward(j) \/ RecoverStart(j) \/ RecoveryResolve(j) \/
             RecoverySettle(j) \/ RecoveryBeginRollback(j)
    BY <1>4, <2>1 DEF RecoverBeforeForward, MayRecover, RecoverStart, RecoveryResolve,
                   RecoverySettle, RecoveryBeginRollback
  <2>2. CASE RecoveryUp(j) \/ RecoveryCreated(j) \/ RecoveryRebound(j) \/
             RecoveryHealthy(j) \/ Recovered(j)
    BY <1>4, <2>2 DEF RecoveryUp, RecoveryCreated, RecoveryRebound, RecoveryHealthy, Recovered
  <2>3. CASE StartupBlocked(j)
    BY <1>4, <2>3 DEF StartupBlocked, Die
  <2> QED
    BY <1>4, <2>1, <2>2, <2>3 DEF RecoveryStep
<1>5. ASSUME NEW t \in Targets, Discover \/ SaveSelection(t)
      PROVE  (commands \subseteq Command /\ faults \in Nat /\ crashes \in Nat)'
  BY <1>5 DEF Discover, SaveSelection
<1>6. CASE Crash \/ Restart \/ Listen
  BY <1>6 DEF Crash, Die, Restart, Listen
<1>7. CASE UNCHANGED vars
  BY <1>7 DEF vars
<1> QED
  BY <1>1, <1>2, <1>3, <1>4, <1>5, <1>6, <1>7 DEF Next, Discover

\* Every step keeps the types.
LEMMA TypeStep ==
    ASSUME TypeOK, JobOK, [Next]_vars
    PROVE  TypeOK'
<1>1. created' \in Seq([image : Images, tagged : BOOLEAN]) /\ created' # <<>>
  BY UpCreates, CreatedStays DEF TypeOK, RemoteTypeOK
<1> QED
  BY <1>1, LocalTypeStep, CommandStep, AloneStays DEF TypeOK, RemoteTypeOK

\* The invariant holds in the initial states.
LEMMA InitEstablishes == Init => IInv
<1> SUFFICES ASSUME Init PROVE IInv
  OBVIOUS
<1>1. TypeOK
  BY UpdateAssumption DEF Init, TypeOK, JobState, Outcome, BusyPC, AwaitPC, Command,
       DatabaseTypeOK, ProcessTypeOK, RemoteTypeOK
<1>2. JobOK /\ LockOK
  BY DEF Init, JobOK, LockOK, Active, ACTIVE_STATES
<1>3. ProvenRollbackRunsOldImage
  BY DEF Init, ProvenRollbackRunsOldImage, Proven
<1>4. HoldsOK /\ BoundOK /\ VerifiedOK
  BY DEF Init, HoldsOK, BoundOK, VerifiedOK
<1> QED
  BY <1>1, <1>2, <1>3, <1>4 DEF IInv

\* Every step keeps the invariant.
LEMMA StepKeeps == IInv /\ [Next]_vars => IInv'
  BY TypeStep, JobStep, LockStep, ProvenStep, HoldsStep, BoundStep, VerifiedStep DEF IInv

\* The handler of a job that a step ends with a verdict stands where the verdict is due.
VerdictIsDue(j) ==
    /\ outcome'[j] = "updated" => pc[j] = "commit"
    /\ outcome'[j] = "rolled_back" => pc[j] = "rb_commit"
    /\ outcome'[j] \in {"recovered_original_container", "recovered_rolled_back"} => pc[j] = "rec_commit"

\* A verdict is given at the end of a handler or a recovery, and nowhere else.
LEMMA VerdictsAreDue ==
    ASSUME TypeOK, [Next]_vars, NEW k \in Jobs, Active(k), state'[k] \in TERMINAL_STATES
    PROVE  VerdictIsDue(k)
<1> USE DEF dbVars, Goto, Finish, TypeOK, DatabaseTypeOK, ProcessTypeOK, Active, ACTIVE_STATES,
        TERMINAL_STATES, VerdictIsDue
<1>1. ASSUME NEW c \in commands, RemoteUp(c) PROVE VerdictIsDue(k)
  BY <1>1 DEF RemoteUp
<1>2. ASSUME NEW j \in Jobs, PrepareIntent(j) \/ Execute(j) PROVE VerdictIsDue(k)
  BY <1>2 DEF PrepareIntent, Execute
<1>3. ASSUME NEW j \in Jobs, ExecuteStep(j) PROVE VerdictIsDue(k)
  <2>1. CASE Start(j) \/ Validated(j) \/ ValidationFailed(j) \/ ForwardUp(j)
    BY <1>3, <2>1 DEF Start, Validated, ValidationFailed, ForwardUp
  <2>2. CASE ForwardCreated(j) \/ ForwardRebound(j) \/ Healthy(j) \/ Succeed(j)
    BY <1>3, <2>2 DEF ForwardCreated, ForwardRebound, Healthy, Succeed
  <2>3. CASE ForwardFailed(j) \/ ForwardRebindFailed(j) \/ Unhealthy(j)
    BY <1>3, <2>3 DEF ForwardFailed, BeginRollback, ForwardRebindFailed, Unhealthy
  <2>4. CASE ResolvedOld(j) \/ ResolvedOther(j) \/ ResolveFailed(j)
    BY <1>3, <2>4 DEF ResolvedOld, ResolvedOther, BeginRollback, ResolveFailed
  <2>5. CASE RollbackUp(j) \/ RollbackCreated(j) \/ RollbackRebound(j) \/ RollbackHealthy(j)
    BY <1>3, <2>5 DEF RollbackUp, RollbackCreated, RollbackRebound, RollbackHealthy
  <2>6. CASE RolledBack(j) \/ RollbackFailed(j) \/ AdoptResolved(j) \/ RollbackAbandoned(j)
    BY <1>3, <2>6 DEF RolledBack, RollbackFailed, AdoptResolved, RollbackAbandoned
  <2> QED
    BY <1>3, <2>1, <2>2, <2>3, <2>4, <2>5, <2>6 DEF ExecuteStep
<1>4. ASSUME NEW j \in Jobs, RecoveryStep(j) PROVE VerdictIsDue(k)
  <2>1. CASE RecoverBeforeForward(j) \/ RecoverStart(j) \/ RecoveryResolve(j) \/
             RecoverySettle(j) \/ RecoveryBeginRollback(j)
    BY <1>4, <2>1 DEF RecoverBeforeForward, MayRecover, RecoverStart, RecoveryResolve,
                   RecoverySettle, RecoveryBeginRollback
  <2>2. CASE RecoveryUp(j) \/ RecoveryCreated(j) \/ RecoveryRebound(j) \/
             RecoveryHealthy(j) \/ Recovered(j)
    BY <1>4, <2>2 DEF RecoveryUp, RecoveryCreated, RecoveryRebound, RecoveryHealthy, Recovered
  <2>3. CASE StartupBlocked(j)
    BY <1>4, <2>3 DEF StartupBlocked, Die
  <2> QED
    BY <1>4, <2>1, <2>2, <2>3 DEF RecoveryStep
<1>5. ASSUME NEW t \in Targets, Discover \/ SaveSelection(t) PROVE VerdictIsDue(k)
  BY <1>5 DEF Discover, SaveSelection
<1>6. CASE Crash \/ Restart \/ Listen
  BY <1>6 DEF Crash, Die, Restart, Listen
<1>7. CASE UNCHANGED vars
  BY <1>7 DEF vars
<1> QED
  BY <1>1, <1>2, <1>3, <1>4, <1>5, <1>6, <1>7 DEF Next, Discover

\* A step that ends an update with a verdict finds the evidence for it.
LEMMA VerdictStep ==
    ASSUME IInv, [Next]_vars
    PROVE  VerdictHasEvidence
<1> SUFFICES ASSUME NEW k \in Jobs, Active(k), state'[k] \in TERMINAL_STATES, VerdictIsDue(k)
             PROVE  LET c == binding[Target(k)]
                        R(i, evidence) ==
                            /\ c \in Containers /\ ImageOf(c) = i
                            /\ [stage |-> evidence, container |-> c] \in stages[k]
                    IN /\ outcome'[k] = "updated" => R(CandidateOf[k], "health_verified")
                       /\ outcome'[k] = "rolled_back" =>
                              R(RollbackImage(k), "rollback_health_verified")
                       /\ outcome'[k] \in {"recovered_original_container", "recovered_rolled_back"} =>
                              R(RollbackImage(k), "recovery_health_verified")
  BY VerdictsAreDue, Zenon DEF IInv, VerdictHasEvidence
<1> QED
  BY DEF IInv, VerdictIsDue, HoldsOK, BoundOK, VerifiedOK, Runs

-----------------------------------------------------------------------------
(* Theorems of the specification.                                          *)

\* Every variable of the update keeps its type, in execute() and in the recovery.
THEOREM UpdateTypeCorrect == Spec => []TypeOK
<1>1. IInv => TypeOK
  BY DEF IInv
<1> QED
  BY InitEstablishes, StepKeeps, <1>1, PTL DEF Spec

\* Whatever crashes and whoever else works on the service: a container that the journal
\* records as a rollback replacement exists and runs the image before the update, so that
\* the recovery may settle on it (provenRecoveryRollbackIds).
THEOREM RollbacksAreProven == Spec => []ProvenRollbackRunsOldImage
<1>1. IInv => ProvenRollbackRunsOldImage
  BY DEF IInv
<1> QED
  BY InitEstablishes, StepKeeps, <1>1, PTL DEF Spec

\* Every verdict (`updated`, `rolled_back`, `recovered_...`) is given with the target bound
\* to a container of the image that the verdict implies, whose health check is in the
\* journal, on every path through execute(), its catch block and the recovery.
THEOREM VerdictsHaveEvidence == Spec => OutcomeIsVerified
<1>1. IInv /\ [Next]_vars => [VerdictHasEvidence]_vars
  BY VerdictStep
<1> QED
  BY InitEstablishes, StepKeeps, <1>1, PTL DEF Spec, OutcomeIsVerified

-----------------------------------------------------------------------------
(* A target that is alone on its service.                                  *)

\* Every command that runs is awaited.
CommandsOK ==
    \A c \in commands : c.awaited /\ pc[c.job] \in {"forward_up", "rollback_up", "rec_up"}

\* The journal says whether the forward step has begun.
JournalOK ==
    \A j \in Jobs :
        /\ pc[j] \in {"created", "validating"} => ~HasStage(j, "forward_started")
        /\ pc[j] \notin {"idle", "pending", "created", "validating"} => InForward(j)

\* What is verified is still the running container when the verdict is given.
HeadOK ==
    \A j \in Jobs :
        /\ pc[j] = "commit" => current = candidate[j]
        /\ pc[j] \in {"rb_commit", "rec_commit"} => current = fresh[j]

\* The target is bound, to the container it had until the update replaces it, and no other
\* target selects a container.
BindingOK ==
    /\ binding[FirstTarget] # 0 /\ discovered = 0
    /\ \A j \in Jobs :
          /\ pc[j] \in {"created", "validating", "forward", "forward_up", "rebind", "resolve"} =>
                 binding[FirstTarget] = old[j]
          /\ pc[j] = "rec_decide" => remoteId[j] # 0

\* No update is in its forward step and none has lost track of the service.
Settled == \A j \in Jobs : outcome[j] # "rollback_failed" /\ ~InForward(j)

\* The binding follows the service.
FollowsOK == Settled => binding[FirstTarget] = current

AloneInv == IInv /\ CommandsOK /\ JournalOK /\ HeadOK /\ BindingOK /\ FollowsOK

\* A job that has a handler is the only one.
LEMMA OneHandler ==
    ASSUME alone, IInv, NEW j \in Jobs, NEW k \in Jobs, pc[j] # "idle", pc[k] # "idle"
    PROVE  j = k
  BY UpdateAssumption DEF IInv, LockOK, JobOK, Target

\* A command belongs to a job that is in its forward step and awaits it.
LEMMA CommandOwner ==
    ASSUME AloneInv, NEW c \in commands
    PROVE  /\ c.job \in Jobs /\ c.awaited
           /\ pc[c.job] \in {"forward_up", "rollback_up", "rec_up"}
           /\ InForward(c.job)
<1>1. c.job \in Jobs
  BY DEF AloneInv, IInv, TypeOK, RemoteTypeOK, Command
<1> QED
  BY <1>1 DEF AloneInv, CommandsOK, JournalOK

\* A command ends with the wait for it.
LEMMA CommandsStep ==
    ASSUME alone, AloneInv, [Next]_vars
    PROVE  CommandsOK'
<1>a. /\ state \in [Jobs -> JobState \cup {"absent"}]
      /\ outcome \in [Jobs -> Outcome \cup {"none"}]
      /\ old \in [Jobs -> Nat] /\ binding \in [Targets -> Nat]
      /\ pc \in [Jobs -> BusyPC \cup AwaitPC \cup {"idle", "pending"}]
      /\ candidate \in [Jobs -> Nat] /\ remoteId \in [Jobs -> Nat] /\ fresh \in [Jobs -> Nat]
      /\ FirstTarget \in Targets
      /\ \A j \in Jobs : Target(j) = FirstTarget /\ Target(j)' = FirstTarget
  BY UpdateAssumption, TargetStays DEF AloneInv, IInv, TypeOK, DatabaseTypeOK, ProcessTypeOK
<1>b. \A j, k \in Jobs : pc[j] # "idle" /\ pc[k] # "idle" => j = k
  BY OneHandler DEF AloneInv
<1>c. \A c \in commands : /\ c.job \in Jobs /\ c.awaited /\ InForward(c.job)
                          /\ pc[c.job] \in {"forward_up", "rollback_up", "rec_up"}
  BY CommandOwner
<1>d. /\ \A S \in SUBSET commands : Abandon(S) => commands' = commands \ S
      /\ \A j \in Jobs : Awaited(j) = {c \in commands : c.job = j}
      /\ {c \in commands : c.awaited} = commands
  BY <1>c DEF Abandon, Awaited
<1>e. \A j \in Jobs, i \in Images :
          IssueUp(j, i) => \A c \in commands' : c \in commands \/ (c.job = j /\ c.awaited)
  BY DEF IssueUp
<1>f. \A j \in Jobs : CandidateOf[j] \in Images /\ (pc[j] # "idle" => RollbackImage(j) \in Images)
                         /\ (state[j] = "absent" => pc[j] = "idle")
  BY CurrentExists, UpdateAssumption DEF AloneInv, IInv, JobOK, Active, ACTIVE_STATES,
       RollbackImage
<1> USE <1>a, <1>b, <1>c, <1>d, <1>e, <1>f DEF processVars, remoteVars, Goto, Finish, CommandsOK
<1>1. ASSUME NEW c \in commands, RemoteUp(c) PROVE CommandsOK'
  BY <1>1 DEF RemoteUp
<1>2. ASSUME NEW j \in Jobs, PrepareIntent(j) \/ Execute(j) PROVE CommandsOK'
  <2>1. CASE PrepareIntent(j)
    BY <1>2, <2>1 DEF PrepareIntent
  <2>2. CASE Execute(j)
    BY <1>2, <2>2 DEF Execute
  <2> QED
    BY <1>2, <2>1, <2>2
<1>3. ASSUME NEW j \in Jobs, ExecuteStep(j) PROVE CommandsOK'
  <2>1. CASE Start(j) \/ Validated(j) \/ ValidationFailed(j) \/ ForwardUp(j)
    <3>1. CASE Start(j)
      BY <1>3, <3>1 DEF Start
    <3>2. CASE Validated(j)
      BY <1>3, <3>2 DEF Validated
    <3>3. CASE ValidationFailed(j)
      BY <1>3, <3>3 DEF ValidationFailed
    <3>4. CASE ForwardUp(j)
      BY <1>3, <3>4 DEF ForwardUp
    <3> QED
      BY <2>1, <3>1, <3>2, <3>3, <3>4
  <2>2. CASE ForwardCreated(j) \/ ForwardRebound(j) \/ Healthy(j) \/ Succeed(j)
    <3>1. CASE ForwardCreated(j)
      BY <1>3, <3>1 DEF ForwardCreated
    <3>2. CASE ForwardRebound(j)
      BY <1>3, <3>2 DEF ForwardRebound
    <3>3. CASE Healthy(j)
      BY <1>3, <3>3 DEF Healthy
    <3>4. CASE Succeed(j)
      BY <1>3, <3>4 DEF Succeed
    <3> QED
      BY <2>2, <3>1, <3>2, <3>3, <3>4
  <2>3. CASE ForwardFailed(j)
    BY <1>3, <2>3 DEF ForwardFailed, BeginRollback
  <2>4. CASE ForwardRebindFailed(j)
    BY <1>3, <2>4 DEF ForwardRebindFailed, BeginRollback
  <2>5. CASE Unhealthy(j)
    BY <1>3, <2>5 DEF Unhealthy, BeginRollback
  <2>6. CASE ResolvedOld(j) \/ ResolvedOther(j) \/ ResolveFailed(j)
    BY <1>3, <2>6 DEF ResolvedOld, ResolvedOther, BeginRollback, ResolveFailed
  <2>7. CASE RollbackUp(j) \/ RollbackCreated(j) \/ RollbackRebound(j) \/ RollbackHealthy(j)
    <3>1. CASE RollbackUp(j)
      BY <1>3, <3>1 DEF RollbackUp
    <3>2. CASE RollbackCreated(j)
      BY <1>3, <3>2 DEF RollbackCreated
    <3>3. CASE RollbackRebound(j)
      BY <1>3, <3>3 DEF RollbackRebound
    <3>4. CASE RollbackHealthy(j)
      BY <1>3, <3>4 DEF RollbackHealthy
    <3> QED
      BY <2>7, <3>1, <3>2, <3>3, <3>4
  <2>8. CASE RolledBack(j)
    BY <1>3, <2>8 DEF RolledBack
  <2>9. CASE RollbackFailed(j)
    BY <1>3, <2>9 DEF RollbackFailed
  <2>10. CASE AdoptResolved(j)
    BY <1>3, <2>10 DEF AdoptResolved
  <2>11. CASE RollbackAbandoned(j)
    BY <1>3, <2>11 DEF RollbackAbandoned
  <2> QED
    BY <1>3, <2>1, <2>2, <2>3, <2>4, <2>5, <2>6, <2>7, <2>8, <2>9, <2>10, <2>11 DEF ExecuteStep
<1>4. ASSUME NEW j \in Jobs, RecoveryStep(j) PROVE CommandsOK'
  <2>1. CASE RecoverBeforeForward(j) \/ RecoverStart(j) \/ RecoveryResolve(j) \/
             RecoverySettle(j) \/ RecoveryBeginRollback(j)
    BY <1>4, <2>1 DEF RecoverBeforeForward, MayRecover, RecoverStart, RecoveryResolve,
                   RecoverySettle, RecoveryBeginRollback
  <2>2. CASE RecoveryUp(j) \/ RecoveryCreated(j) \/ RecoveryRebound(j) \/
             RecoveryHealthy(j) \/ Recovered(j)
    <3>1. CASE RecoveryUp(j)
      BY <1>4, <3>1 DEF RecoveryUp
    <3>2. CASE RecoveryCreated(j)
      BY <1>4, <3>2 DEF RecoveryCreated
    <3>3. CASE RecoveryRebound(j)
      BY <1>4, <3>3 DEF RecoveryRebound
    <3>4. CASE RecoveryHealthy(j)
      BY <1>4, <3>4 DEF RecoveryHealthy
    <3>5. CASE Recovered(j)
      BY <1>4, <3>5 DEF Recovered
    <3> QED
      BY <2>2, <3>1, <3>2, <3>3, <3>4, <3>5
  <2>3. CASE StartupBlocked(j)
    BY <1>4, <2>3 DEF StartupBlocked, Die
  <2> QED
    BY <1>4, <2>1, <2>2, <2>3 DEF RecoveryStep
<1>5. ASSUME NEW t \in Targets, Discover \/ SaveSelection(t) PROVE CommandsOK'
  BY <1>5 DEF Discover, SaveSelection
<1>6. CASE Crash \/ Restart \/ Listen
  <2>1. CASE Crash
    BY <2>1 DEF Crash, Die
  <2>2. CASE Restart
    BY <2>2 DEF Restart
  <2>3. CASE Listen
    BY <2>3 DEF Listen
  <2> QED
    BY <1>6, <2>1, <2>2, <2>3
<1>7. CASE UNCHANGED vars
  BY <1>7 DEF vars
<1> QED
  BY <1>1, <1>2, <1>3, <1>4, <1>5, <1>6, <1>7 DEF Next, Discover

\* No step replaces a container that was just verified.
LEMMA HeadStep ==
    ASSUME alone, AloneInv, [Next]_vars
    PROVE  HeadOK'
<1>a. /\ state \in [Jobs -> JobState \cup {"absent"}]
      /\ outcome \in [Jobs -> Outcome \cup {"none"}]
      /\ old \in [Jobs -> Nat] /\ binding \in [Targets -> Nat]
      /\ pc \in [Jobs -> BusyPC \cup AwaitPC \cup {"idle", "pending"}]
      /\ candidate \in [Jobs -> Nat] /\ remoteId \in [Jobs -> Nat] /\ fresh \in [Jobs -> Nat]
      /\ FirstTarget \in Targets
      /\ \A j \in Jobs : Target(j) = FirstTarget /\ Target(j)' = FirstTarget
  BY UpdateAssumption, TargetStays DEF AloneInv, IInv, TypeOK, DatabaseTypeOK, ProcessTypeOK
<1>b. \A j, k \in Jobs : pc[j] # "idle" /\ pc[k] # "idle" => j = k
  BY OneHandler DEF AloneInv
<1>c. \A c \in commands : /\ c.job \in Jobs /\ c.awaited /\ InForward(c.job)
                          /\ pc[c.job] \in {"forward_up", "rollback_up", "rec_up"}
  BY CommandOwner
<1>d. /\ created' = created => current' = current
      /\ HeadOK
  BY DEF current, AloneInv
<1> USE <1>a, <1>b, <1>c, <1>d DEF processVars, remoteVars, Goto, Finish, HeadOK
<1>1. ASSUME NEW c \in commands, RemoteUp(c) PROVE HeadOK'
  BY <1>1 DEF RemoteUp
<1>2. ASSUME NEW j \in Jobs, PrepareIntent(j) \/ Execute(j) PROVE HeadOK'
  <2>1. CASE PrepareIntent(j)
    BY <1>2, <2>1 DEF PrepareIntent
  <2>2. CASE Execute(j)
    BY <1>2, <2>2 DEF Execute
  <2> QED
    BY <1>2, <2>1, <2>2
<1>3. ASSUME NEW j \in Jobs, ExecuteStep(j) PROVE HeadOK'
  <2>1. CASE Start(j) \/ Validated(j) \/ ValidationFailed(j) \/ ForwardUp(j)
    <3>1. CASE Start(j)
      BY <1>3, <3>1 DEF Start
    <3>2. CASE Validated(j)
      BY <1>3, <3>2 DEF Validated
    <3>3. CASE ValidationFailed(j)
      BY <1>3, <3>3 DEF ValidationFailed
    <3>4. CASE ForwardUp(j)
      BY <1>3, <3>4 DEF ForwardUp
    <3> QED
      BY <2>1, <3>1, <3>2, <3>3, <3>4
  <2>2. CASE ForwardCreated(j) \/ ForwardRebound(j) \/ Healthy(j) \/ Succeed(j)
    <3>1. CASE ForwardCreated(j)
      BY <1>3, <3>1 DEF ForwardCreated
    <3>2. CASE ForwardRebound(j)
      BY <1>3, <3>2 DEF ForwardRebound
    <3>3. CASE Healthy(j)
      BY <1>3, <3>3 DEF Healthy
    <3>4. CASE Succeed(j)
      BY <1>3, <3>4 DEF Succeed
    <3> QED
      BY <2>2, <3>1, <3>2, <3>3, <3>4
  <2>3. CASE ForwardFailed(j)
    BY <1>3, <2>3 DEF ForwardFailed, BeginRollback
  <2>4. CASE ForwardRebindFailed(j)
    BY <1>3, <2>4 DEF ForwardRebindFailed, BeginRollback
  <2>5. CASE Unhealthy(j)
    BY <1>3, <2>5 DEF Unhealthy, BeginRollback
  <2>6. CASE ResolvedOld(j)
    BY <1>3, <2>6 DEF ResolvedOld
  <2>7. CASE ResolvedOther(j)
    BY <1>3, <2>7 DEF ResolvedOther, BeginRollback
  <2>8. CASE ResolveFailed(j)
    BY <1>3, <2>8 DEF ResolveFailed
  <2>9. CASE RollbackUp(j) \/ RollbackCreated(j) \/ RollbackRebound(j) \/ RollbackHealthy(j)
    <3>1. CASE RollbackUp(j)
      BY <1>3, <3>1 DEF RollbackUp
    <3>2. CASE RollbackCreated(j)
      BY <1>3, <3>2 DEF RollbackCreated
    <3>3. CASE RollbackRebound(j)
      BY <1>3, <3>3 DEF RollbackRebound
    <3>4. CASE RollbackHealthy(j)
      BY <1>3, <3>4 DEF RollbackHealthy
    <3> QED
      BY <2>9, <3>1, <3>2, <3>3, <3>4
  <2>10. CASE RolledBack(j)
    BY <1>3, <2>10 DEF RolledBack
  <2>11. CASE RollbackFailed(j)
    BY <1>3, <2>11 DEF RollbackFailed
  <2>12. CASE AdoptResolved(j)
    BY <1>3, <2>12 DEF AdoptResolved
  <2>13. CASE RollbackAbandoned(j)
    BY <1>3, <2>13 DEF RollbackAbandoned
  <2> QED
    BY <1>3, <2>1, <2>2, <2>3, <2>4, <2>5, <2>6, <2>7, <2>8, <2>9, <2>10, <2>11, <2>12, <2>13 DEF
         ExecuteStep
<1>4. ASSUME NEW j \in Jobs, RecoveryStep(j) PROVE HeadOK'
  <2>1. CASE RecoverBeforeForward(j) \/ RecoverStart(j) \/ RecoveryResolve(j) \/
             RecoverySettle(j) \/ RecoveryBeginRollback(j)
    <3>1. CASE RecoverBeforeForward(j)
      BY <1>4, <3>1 DEF RecoverBeforeForward, MayRecover
    <3>2. CASE RecoverStart(j)
      BY <1>4, <3>2 DEF RecoverStart, MayRecover
    <3>3. CASE RecoveryResolve(j)
      BY <1>4, <3>3 DEF RecoveryResolve
    <3>4. CASE RecoverySettle(j)
      BY <1>4, <3>4 DEF RecoverySettle
    <3>5. CASE RecoveryBeginRollback(j)
      BY <1>4, <3>5 DEF RecoveryBeginRollback
    <3> QED
      BY <2>1, <3>1, <3>2, <3>3, <3>4, <3>5
  <2>2. CASE RecoveryUp(j) \/ RecoveryCreated(j) \/ RecoveryRebound(j) \/
             RecoveryHealthy(j) \/ Recovered(j)
    <3>1. CASE RecoveryUp(j)
      BY <1>4, <3>1 DEF RecoveryUp
    <3>2. CASE RecoveryCreated(j)
      BY <1>4, <3>2 DEF RecoveryCreated
    <3>3. CASE RecoveryRebound(j)
      BY <1>4, <3>3 DEF RecoveryRebound
    <3>4. CASE RecoveryHealthy(j)
      BY <1>4, <3>4 DEF RecoveryHealthy
    <3>5. CASE Recovered(j)
      BY <1>4, <3>5 DEF Recovered
    <3> QED
      BY <2>2, <3>1, <3>2, <3>3, <3>4, <3>5
  <2>3. CASE StartupBlocked(j)
    BY <1>4, <2>3 DEF StartupBlocked, Die
  <2> QED
    BY <1>4, <2>1, <2>2, <2>3 DEF RecoveryStep
<1>5. ASSUME NEW t \in Targets, Discover \/ SaveSelection(t) PROVE HeadOK'
  BY <1>5 DEF Discover, SaveSelection
<1>6. CASE Crash \/ Restart \/ Listen
  <2>1. CASE Crash
    BY <2>1 DEF Crash, Die
  <2>2. CASE Restart
    BY <2>2 DEF Restart
  <2>3. CASE Listen
    BY <2>3 DEF Listen
  <2> QED
    BY <1>6, <2>1, <2>2, <2>3
<1>7. CASE UNCHANGED vars
  BY <1>7 DEF vars
<1> QED
  BY <1>1, <1>2, <1>3, <1>4, <1>5, <1>6, <1>7 DEF Next, Discover

\* Every step keeps the target bound.
LEMMA BindingStep ==
    ASSUME alone, AloneInv, [Next]_vars
    PROVE  BindingOK'
<1>a. /\ state \in [Jobs -> JobState \cup {"absent"}]
      /\ outcome \in [Jobs -> Outcome \cup {"none"}]
      /\ old \in [Jobs -> Nat] /\ binding \in [Targets -> Nat]
      /\ pc \in [Jobs -> BusyPC \cup AwaitPC \cup {"idle", "pending"}]
      /\ candidate \in [Jobs -> Nat] /\ remoteId \in [Jobs -> Nat] /\ fresh \in [Jobs -> Nat]
      /\ FirstTarget \in Targets
      /\ \A j \in Jobs : Target(j) = FirstTarget /\ Target(j)' = FirstTarget
  BY UpdateAssumption, TargetStays DEF AloneInv, IInv, TypeOK, DatabaseTypeOK, ProcessTypeOK
<1>b. \A j, k \in Jobs : pc[j] # "idle" /\ pc[k] # "idle" => j = k
  BY OneHandler DEF AloneInv
<1>c. \A c \in commands : /\ c.job \in Jobs /\ c.awaited /\ InForward(c.job)
                          /\ pc[c.job] \in {"forward_up", "rollback_up", "rec_up"}
  BY CommandOwner
<1>d. /\ current # 0 /\ BindingOK
      /\ \A j \in Jobs : /\ pc[j] = "rebind" => candidate[j] # 0
                         /\ pc[j] \in {"rb_rebind", "rec_rebind"} => fresh[j] # 0
  BY CurrentExists DEF AloneInv, IInv, HoldsOK, Runs
<1> USE <1>a, <1>b, <1>d DEF dbVars, processVars, Goto, Rebound, Finish, BindingOK
<1>1. ASSUME NEW c \in commands, RemoteUp(c) PROVE BindingOK'
  BY <1>1 DEF RemoteUp
<1>2. ASSUME NEW j \in Jobs, PrepareIntent(j) \/ Execute(j) PROVE BindingOK'
  BY <1>2 DEF PrepareIntent, Execute
<1>3. ASSUME NEW j \in Jobs, ExecuteStep(j) PROVE BindingOK'
  <2>1. CASE Start(j) \/ Validated(j) \/ ValidationFailed(j) \/ ForwardUp(j)
    <3>1. CASE Start(j)
      BY <1>3, <3>1 DEF Start
    <3>2. CASE Validated(j)
      BY <1>3, <3>2 DEF Validated
    <3>3. CASE ValidationFailed(j)
      BY <1>3, <3>3 DEF ValidationFailed
    <3>4. CASE ForwardUp(j)
      BY <1>3, <3>4 DEF ForwardUp
    <3> QED
      BY <2>1, <3>1, <3>2, <3>3, <3>4
  <2>2. CASE ForwardCreated(j) \/ ForwardRebound(j) \/ Healthy(j) \/ Succeed(j)
    BY <1>3, <2>2 DEF ForwardCreated, ForwardRebound, Healthy, Succeed
  <2>3. CASE ForwardFailed(j)
    BY <1>3, <2>3, SMTT(30) DEF ForwardFailed, BeginRollback
  <2>4. CASE ForwardRebindFailed(j)
    BY <1>3, <2>4 DEF ForwardRebindFailed, BeginRollback
  <2>5. CASE Unhealthy(j)
    BY <1>3, <2>5 DEF Unhealthy, BeginRollback
  <2>6. CASE ResolvedOld(j)
    BY <1>3, <2>6 DEF ResolvedOld
  <2>7. CASE ResolvedOther(j)
    BY <1>3, <2>7 DEF ResolvedOther, BeginRollback
  <2>8. CASE ResolveFailed(j)
    BY <1>3, <2>8 DEF ResolveFailed
  <2>9. CASE RollbackUp(j) \/ RollbackCreated(j) \/ RollbackRebound(j) \/ RollbackHealthy(j)
    <3>1. CASE RollbackUp(j)
      BY <1>3, <3>1 DEF RollbackUp
    <3>2. CASE RollbackCreated(j)
      BY <1>3, <3>2 DEF RollbackCreated
    <3>3. CASE RollbackRebound(j)
      BY <1>3, <3>3 DEF RollbackRebound
    <3>4. CASE RollbackHealthy(j)
      BY <1>3, <3>4 DEF RollbackHealthy
    <3> QED
      BY <2>9, <3>1, <3>2, <3>3, <3>4
  <2>10. CASE RolledBack(j)
    BY <1>3, <2>10 DEF RolledBack
  <2>11. CASE RollbackFailed(j)
    BY <1>3, <2>11 DEF RollbackFailed
  <2>12. CASE AdoptResolved(j)
    <3>1. \A k \in Jobs : k # j => pc[k] = "idle"
      BY <1>3, <2>12 DEF AdoptResolved
    <3>2. /\ pc' = [pc EXCEPT ![j] = "rb_abandon"] /\ UNCHANGED <<old, remoteId, discovered>>
          /\ binding' = binding \/ binding' = [binding EXCEPT ![Target(j)] = current]
      BY <2>12 DEF AdoptResolved
    <3> QED
      BY <3>1, <3>2
  <2>13. CASE RollbackAbandoned(j)
    BY <1>3, <2>13 DEF RollbackAbandoned
  <2> QED
    BY <1>3, <2>1, <2>2, <2>3, <2>4, <2>5, <2>6, <2>7, <2>8, <2>9, <2>10, <2>11, <2>12, <2>13 DEF
         ExecuteStep
<1>4. ASSUME NEW j \in Jobs, RecoveryStep(j) PROVE BindingOK'
  <2>1. CASE RecoverBeforeForward(j) \/ RecoverStart(j) \/ RecoveryResolve(j) \/
             RecoverySettle(j) \/ RecoveryBeginRollback(j)
    BY <1>4, <2>1 DEF RecoverBeforeForward, MayRecover, RecoverStart, RecoveryResolve,
                   RecoverySettle, RecoveryBeginRollback
  <2>2. CASE RecoveryUp(j) \/ RecoveryCreated(j) \/ RecoveryRebound(j) \/
             RecoveryHealthy(j) \/ Recovered(j)
    <3>1. CASE RecoveryUp(j)
      BY <1>4, <3>1 DEF RecoveryUp
    <3>2. CASE RecoveryCreated(j)
      BY <1>4, <3>2 DEF RecoveryCreated
    <3>3. CASE RecoveryRebound(j)
      BY <1>4, <3>3 DEF RecoveryRebound
    <3>4. CASE RecoveryHealthy(j)
      BY <1>4, <3>4 DEF RecoveryHealthy
    <3>5. CASE Recovered(j)
      BY <1>4, <3>5 DEF Recovered
    <3> QED
      BY <2>2, <3>1, <3>2, <3>3, <3>4, <3>5
  <2>3. CASE StartupBlocked(j)
    BY <1>4, <2>3 DEF StartupBlocked, Die
  <2> QED
    BY <1>4, <2>1, <2>2, <2>3 DEF RecoveryStep
<1>5. ASSUME NEW t \in Targets, Discover \/ SaveSelection(t) PROVE BindingOK'
  BY <1>5 DEF Discover, SaveSelection
<1>6. CASE Crash \/ Restart \/ Listen
  BY <1>6 DEF Crash, Die, Restart, Listen
<1>7. CASE UNCHANGED vars
  BY <1>7 DEF vars
<1> QED
  BY <1>1, <1>2, <1>3, <1>4, <1>5, <1>6, <1>7 DEF Next, Discover

\* Every step keeps the journal true about the forward step.
LEMMA JournalStep ==
    ASSUME alone, AloneInv, [Next]_vars
    PROVE  JournalOK'
<1>a. /\ state \in [Jobs -> JobState \cup {"absent"}]
      /\ outcome \in [Jobs -> Outcome \cup {"none"}]
      /\ old \in [Jobs -> Nat] /\ binding \in [Targets -> Nat]
      /\ pc \in [Jobs -> BusyPC \cup AwaitPC \cup {"idle", "pending"}]
      /\ candidate \in [Jobs -> Nat] /\ remoteId \in [Jobs -> Nat] /\ fresh \in [Jobs -> Nat]
      /\ FirstTarget \in Targets
      /\ \A j \in Jobs : Target(j) = FirstTarget /\ Target(j)' = FirstTarget
  BY UpdateAssumption, TargetStays DEF AloneInv, IInv, TypeOK, DatabaseTypeOK, ProcessTypeOK
<1>b. \A j, k \in Jobs : pc[j] # "idle" /\ pc[k] # "idle" => j = k
  BY OneHandler DEF AloneInv
<1>c. \A c \in commands : /\ c.job \in Jobs /\ c.awaited /\ InForward(c.job)
                          /\ pc[c.job] \in {"forward_up", "rollback_up", "rec_up"}
  BY CommandOwner
<1>d. \A k \in Jobs : /\ HasStage(k, "forward_started") => HasStage(k, "forward_started")'
                      /\ stages'[k] = stages[k] =>
                             HasStage(k, "forward_started")' = HasStage(k, "forward_started")
                      /\ state[k] = "absent" => ~HasStage(k, "forward_started")
  BY JournalGrows DEF AloneInv, IInv, JobOK, HasStage
<1>e. JournalOK /\ JobOK /\ stages \in [Jobs -> SUBSET StageEvent]
  BY DEF AloneInv, IInv, TypeOK, DatabaseTypeOK
<1> USE <1>a, <1>b, <1>d, <1>e DEF dbVars, processVars, Goto, WithStage, Finish, JournalOK,
        JobOK, InForward, Active,
        ACTIVE_STATES
<1>1. ASSUME NEW c \in commands, RemoteUp(c) PROVE JournalOK'
  BY <1>1 DEF RemoteUp
<1>2. ASSUME NEW j \in Jobs, PrepareIntent(j) \/ Execute(j) PROVE JournalOK'
  BY <1>2 DEF PrepareIntent, Execute
<1>3. ASSUME NEW j \in Jobs, ExecuteStep(j) PROVE JournalOK'
  <2>1. CASE Start(j)
    <3>1. HasStage(j, "forward_started")' => HasStage(j, "forward_started")
      BY <1>3, <2>1 DEF Start, HasStage
    <3> QED
      BY <1>3, <2>1, <3>1 DEF Start
  <2>2. CASE Validated(j)
    <3>1. HasStage(j, "forward_started")'
      <4>1. [stage |-> "forward_started", container |-> 0] \in stages'[j]
        BY <1>3, <2>2 DEF Validated
      <4> QED
        BY <4>1, Zenon DEF HasStage
    <3> QED
      BY <1>3, <2>2, <3>1 DEF Validated
  <2>3. CASE ValidationFailed(j) \/ ForwardUp(j)
    BY <1>3, <2>3 DEF ValidationFailed, ForwardUp
  <2>4. CASE ForwardCreated(j) \/ ForwardRebound(j) \/ Healthy(j) \/ Succeed(j)
    BY <1>3, <2>4 DEF ForwardCreated, ForwardRebound, Healthy, Succeed
  <2>5. CASE ForwardFailed(j)
    BY <1>3, <2>5 DEF ForwardFailed, BeginRollback
  <2>6. CASE ForwardRebindFailed(j)
    BY <1>3, <2>6 DEF ForwardRebindFailed, BeginRollback
  <2>7. CASE Unhealthy(j)
    BY <1>3, <2>7 DEF Unhealthy, BeginRollback
  <2>8. CASE ResolvedOld(j)
    BY <1>3, <2>8 DEF ResolvedOld
  <2>9. CASE ResolvedOther(j)
    BY <1>3, <2>9 DEF ResolvedOther, BeginRollback
  <2>10. CASE ResolveFailed(j)
    BY <1>3, <2>10 DEF ResolveFailed
  <2>11. CASE RollbackUp(j) \/ RollbackCreated(j) \/ RollbackRebound(j) \/ RollbackHealthy(j)
    <3>1. CASE RollbackUp(j)
      BY <1>3, <3>1 DEF RollbackUp
    <3>2. CASE RollbackCreated(j)
      BY <1>3, <3>2 DEF RollbackCreated
    <3>3. CASE RollbackRebound(j)
      BY <1>3, <3>3 DEF RollbackRebound
    <3>4. CASE RollbackHealthy(j)
      BY <1>3, <3>4 DEF RollbackHealthy
    <3> QED
      BY <2>11, <3>1, <3>2, <3>3, <3>4
  <2>12. CASE RolledBack(j)
    BY <1>3, <2>12 DEF RolledBack
  <2>13. CASE RollbackFailed(j)
    BY <1>3, <2>13 DEF RollbackFailed
  <2>14. CASE AdoptResolved(j)
    BY <1>3, <2>14 DEF AdoptResolved
  <2>15. CASE RollbackAbandoned(j)
    BY <1>3, <2>15 DEF RollbackAbandoned
  <2> QED
    BY <1>3, <2>1, <2>2, <2>3, <2>4, <2>5, <2>6, <2>7, <2>8, <2>9, <2>10, <2>11, <2>12, <2>13,
       <2>14, <2>15 DEF
         ExecuteStep
<1>4. ASSUME NEW j \in Jobs, RecoveryStep(j) PROVE JournalOK'
  <2>1. CASE RecoverBeforeForward(j) \/ RecoverStart(j) \/ RecoveryResolve(j) \/
             RecoverySettle(j) \/ RecoveryBeginRollback(j)
    BY <1>4, <2>1 DEF RecoverBeforeForward, MayRecover, RecoverStart, RecoveryResolve,
                   RecoverySettle, RecoveryBeginRollback
  <2>2. CASE RecoveryUp(j) \/ RecoveryCreated(j) \/ RecoveryRebound(j) \/
             RecoveryHealthy(j) \/ Recovered(j)
    <3>1. CASE RecoveryUp(j)
      BY <1>4, <3>1 DEF RecoveryUp
    <3>2. CASE RecoveryCreated(j)
      BY <1>4, <3>2 DEF RecoveryCreated
    <3>3. CASE RecoveryRebound(j)
      BY <1>4, <3>3 DEF RecoveryRebound
    <3>4. CASE RecoveryHealthy(j)
      BY <1>4, <3>4 DEF RecoveryHealthy
    <3>5. CASE Recovered(j)
      BY <1>4, <3>5 DEF Recovered
    <3> QED
      BY <2>2, <3>1, <3>2, <3>3, <3>4, <3>5
  <2>3. CASE StartupBlocked(j)
    BY <1>4, <2>3 DEF StartupBlocked, Die
  <2> QED
    BY <1>4, <2>1, <2>2, <2>3 DEF RecoveryStep
<1>5. ASSUME NEW t \in Targets, Discover \/ SaveSelection(t) PROVE JournalOK'
  BY <1>5 DEF Discover, SaveSelection
<1>6. CASE Crash \/ Restart \/ Listen
  BY <1>6 DEF Crash, Die, Restart, Listen
<1>7. CASE UNCHANGED vars
  BY <1>7 DEF vars
<1> QED
  BY <1>1, <1>2, <1>3, <1>4, <1>5, <1>6, <1>7 DEF Next, Discover

\* Every step keeps the binding on the service.
LEMMA FollowsStep ==
    ASSUME alone, AloneInv, [Next]_vars
    PROVE  FollowsOK'
<1>a. /\ state \in [Jobs -> JobState \cup {"absent"}]
      /\ outcome \in [Jobs -> Outcome \cup {"none"}]
      /\ old \in [Jobs -> Nat] /\ binding \in [Targets -> Nat]
      /\ pc \in [Jobs -> BusyPC \cup AwaitPC \cup {"idle", "pending"}]
      /\ candidate \in [Jobs -> Nat] /\ remoteId \in [Jobs -> Nat] /\ fresh \in [Jobs -> Nat]
      /\ FirstTarget \in Targets
      /\ \A j \in Jobs : Target(j) = FirstTarget /\ Target(j)' = FirstTarget
  BY UpdateAssumption, TargetStays DEF AloneInv, IInv, TypeOK, DatabaseTypeOK, ProcessTypeOK
<1>b. \A j, k \in Jobs : pc[j] # "idle" /\ pc[k] # "idle" => j = k
  BY OneHandler DEF AloneInv
<1>c. \A c \in commands : /\ c.job \in Jobs /\ c.awaited /\ InForward(c.job)
                          /\ pc[c.job] \in {"forward_up", "rollback_up", "rec_up"}
  BY CommandOwner
<1>d. \A k \in Jobs : HasStage(k, "forward_started") => HasStage(k, "forward_started")'
  BY JournalGrows DEF AloneInv, IInv, HasStage
<1>e. created' = created => current' = current
  BY DEF current
<1>f. JournalOK /\ JobOK /\ HeadOK /\ BoundOK /\ BindingOK /\ FollowsOK
  BY DEF AloneInv, IInv
<1>g. JournalOK'
  BY JournalStep
<1> USE <1>a, <1>b, <1>c, <1>d, <1>e, <1>f, <1>g DEF dbVars, processVars, remoteVars, Goto,
        Finish, Rebound, FollowsOK, Settled,
        InForward, JournalOK, JobOK, HeadOK, BoundOK, BindingOK, Active, ACTIVE_STATES
<1>1. ASSUME NEW c \in commands, RemoteUp(c) PROVE FollowsOK'
  BY <1>1 DEF RemoteUp
<1>2. ASSUME NEW j \in Jobs, PrepareIntent(j) \/ Execute(j) PROVE FollowsOK'
  <2>1. CASE PrepareIntent(j)
    BY <1>2, <2>1 DEF PrepareIntent
  <2>2. CASE Execute(j)
    BY <1>2, <2>2 DEF Execute
  <2> QED
    BY <1>2, <2>1, <2>2
<1>3. ASSUME NEW j \in Jobs, ExecuteStep(j) PROVE FollowsOK'
  <2>1. CASE Start(j)
    BY <1>3, <2>1 DEF Start
  <2>2. CASE Validated(j)
    BY <1>3, <2>2 DEF Validated
  <2>3. CASE ValidationFailed(j) \/ ForwardUp(j)
    <3>1. CASE ValidationFailed(j)
      BY <1>3, <3>1 DEF ValidationFailed
    <3>2. CASE ForwardUp(j)
      BY <1>3, <3>2 DEF ForwardUp
    <3> QED
      BY <2>3, <3>1, <3>2
  <2>4. CASE ForwardCreated(j) \/ ForwardRebound(j) \/ Healthy(j) \/ Succeed(j)
    <3>1. CASE ForwardCreated(j)
      BY <1>3, <3>1 DEF ForwardCreated
    <3>2. CASE ForwardRebound(j)
      BY <1>3, <3>2 DEF ForwardRebound
    <3>3. CASE Healthy(j)
      BY <1>3, <3>3 DEF Healthy
    <3>4. CASE Succeed(j)
      BY <1>3, <3>4 DEF Succeed
    <3> QED
      BY <2>4, <3>1, <3>2, <3>3, <3>4
  <2>5. CASE ForwardFailed(j) \/ ForwardRebindFailed(j) \/ Unhealthy(j)
    BY <1>3, <2>5 DEF ForwardFailed, BeginRollback, ForwardRebindFailed, Unhealthy
  <2>6. CASE ResolvedOld(j)
    BY <1>3, <2>6 DEF ResolvedOld
  <2>7. CASE ResolvedOther(j)
    BY <1>3, <2>7 DEF ResolvedOther, BeginRollback
  <2>8. CASE ResolveFailed(j)
    BY <1>3, <2>8 DEF ResolveFailed
  <2>9. CASE RollbackUp(j) \/ RollbackCreated(j) \/ RollbackRebound(j) \/ RollbackHealthy(j)
    BY <1>3, <2>9 DEF RollbackUp, RollbackCreated, RollbackRebound, RollbackHealthy
  <2>10. CASE RolledBack(j)
    BY <1>3, <2>10 DEF RolledBack
  <2>11. CASE RollbackFailed(j)
    BY <1>3, <2>11 DEF RollbackFailed
  <2>12. CASE AdoptResolved(j)
    BY <1>3, <2>12 DEF AdoptResolved
  <2>13. CASE RollbackAbandoned(j)
    BY <1>3, <2>13 DEF RollbackAbandoned
  <2> QED
    BY <1>3, <2>1, <2>2, <2>3, <2>4, <2>5, <2>6, <2>7, <2>8, <2>9, <2>10, <2>11, <2>12, <2>13 DEF
         ExecuteStep
<1>4. ASSUME NEW j \in Jobs, RecoveryStep(j) PROVE FollowsOK'
  <2>1. CASE RecoverBeforeForward(j)
    BY <1>4, <2>1 DEF RecoverBeforeForward, MayRecover
  <2>2. CASE RecoverStart(j) \/ RecoveryResolve(j)
    BY <1>4, <2>2 DEF RecoverStart, MayRecover, RecoveryResolve
  <2>3. CASE RecoverySettle(j)
    BY <1>4, <2>3 DEF RecoverySettle
  <2>4. CASE RecoveryBeginRollback(j)
    BY <1>4, <2>4 DEF RecoveryBeginRollback
  <2>5. CASE RecoveryUp(j) \/ RecoveryCreated(j) \/ RecoveryRebound(j) \/
             RecoveryHealthy(j) \/ Recovered(j)
    <3>1. CASE RecoveryUp(j)
      BY <1>4, <3>1 DEF RecoveryUp
    <3>2. CASE RecoveryCreated(j)
      BY <1>4, <3>2 DEF RecoveryCreated
    <3>3. CASE RecoveryRebound(j)
      BY <1>4, <3>3 DEF RecoveryRebound
    <3>4. CASE RecoveryHealthy(j)
      BY <1>4, <3>4 DEF RecoveryHealthy
    <3>5. CASE Recovered(j)
      BY <1>4, <3>5 DEF Recovered
    <3> QED
      BY <2>5, <3>1, <3>2, <3>3, <3>4, <3>5
  <2>6. CASE StartupBlocked(j)
    BY <1>4, <2>6 DEF StartupBlocked, Die
  <2> QED
    BY <1>4, <2>1, <2>2, <2>3, <2>4, <2>5, <2>6 DEF RecoveryStep
<1>5. ASSUME NEW t \in Targets, Discover \/ SaveSelection(t) PROVE FollowsOK'
  BY <1>5 DEF Discover, SaveSelection
<1>6. CASE Crash \/ Restart \/ Listen
  BY <1>6 DEF Crash, Die, Restart, Listen
<1>7. CASE UNCHANGED vars
  BY <1>7 DEF vars
<1> QED
  BY <1>1, <1>2, <1>3, <1>4, <1>5, <1>6, <1>7 DEF Next, Discover

\* The invariant of a target that is alone holds in the initial states.
LEMMA AloneInitEstablishes == ASSUME alone, Init PROVE AloneInv
<1>1. IInv
  BY InitEstablishes
<1>2. CommandsOK /\ JournalOK /\ HeadOK
  BY DEF Init, CommandsOK, JournalOK, HeadOK
<1>3. current = 1 /\ binding[FirstTarget] = 1
  BY UpdateAssumption DEF Init, current
<1>4. BindingOK /\ FollowsOK
  BY <1>3 DEF Init, BindingOK, FollowsOK
<1> QED
  BY <1>1, <1>2, <1>4 DEF AloneInv

\* Every step keeps it.
LEMMA AloneStepKeeps == ASSUME alone, AloneInv, [Next]_vars PROVE AloneInv'
  BY StepKeeps, CommandsStep, JournalStep, HeadStep, BindingStep, FollowsStep DEF AloneInv

\* What every step preserves, whether the target is alone or not.
Inv == IInv /\ (alone => AloneInv)

LEMMA Invariance == Spec => []Inv
<1>1. Init => Inv
  BY InitEstablishes, AloneInitEstablishes DEF Inv
<1>2. Inv /\ [Next]_vars => Inv'
  BY StepKeeps, AloneStepKeeps, AloneStays DEF Inv
<1> QED
  BY <1>1, <1>2, PTL DEF Spec

\* Between updates a target that is alone on its service is bound to the container that the
\* service consists of, unless an update has ended with an unverified rollback.
THEOREM BindingFollowsService == Spec => []BindingTracksService
<1>1. Inv => BindingTracksService
  BY DEF Inv, BindingTracksService, AloneInv, FollowsOK, Settled, InForward
<1> QED
  BY <1>1, Invariance, PTL

\* Whenever no update is open a target that is alone is bound to the running container, and
\* a container that the journal proves to be a rollback runs the image before the update,
\* whoever else works on the service.
THEOREM UpdateInvariantHolds == Spec => []UpdateInvariant
  BY UpdateTypeCorrect, RollbacksAreProven, BindingFollowsService, PTL DEF UpdateInvariant

-----------------------------------------------------------------------------
(* An update of a target that is alone is a transaction.                   *)

\* The transaction that an update of a target that is alone looks like.
AsTx == INSTANCE UpdateTx WITH
    Targets <- {FirstTarget}, TargetOf <- [j \in Jobs |-> FirstTarget],
    phase <- TxPhase, served <- TxServed

\* What counts as served is what the service runs, or what it ran before the update that
\* is in its forward step.
ServedOK ==
    /\ \A j \in Jobs : InForward(j) => TxServed[FirstTarget] = RollbackImage(j)
    /\ (\A j \in Jobs : ~InForward(j)) => TxServed[FirstTarget] = ImageOf(current)

\* The update in its forward step is the one that TxServed chooses.
LEMMA ServedIs == ASSUME alone, IInv PROVE ServedOK
<1>1. \A j \in Jobs : Target(j) = FirstTarget
  BY DEF Target
<1>2. \A j, k \in Jobs : InForward(j) /\ InForward(k) => j = k
  BY <1>1 DEF IInv, LockOK, InForward
<1> DEFINE S == {j \in Jobs : InForward(j)}
<1>3. TxServed[FirstTarget] = IF S = {} THEN ImageOf(current) ELSE RollbackImage(CHOOSE j \in S : TRUE)
  BY DEF TxServed
<1>4. ASSUME NEW j \in Jobs, InForward(j) PROVE TxServed[FirstTarget] = RollbackImage(j)
  <2>1. S = {j}
    BY <1>2, <1>4
  <2>2. (CHOOSE k \in S : TRUE) = j
    BY <2>1
  <2> HIDE DEF S
  <2> QED
    BY <1>3, <2>1, <2>2
<1>5. ASSUME \A j \in Jobs : ~InForward(j) PROVE TxServed[FirstTarget] = ImageOf(current)
  BY <1>3, <1>5
<1> QED
  BY <1>4, <1>5 DEF ServedOK

\* The phases of the other updates stay when update j ends.
LEMMA PhaseOfEnd ==
    ASSUME TypeOK, NEW j \in Jobs, NEW s \in TERMINAL_STATES, NEW o \in Outcome, Finish(j, s, o),
           s = "succeeded" => o = "updated"
    PROVE  TxPhase' = [TxPhase EXCEPT ![j] =
               IF s = "succeeded" THEN "updated"
               ELSE IF o = "rollback_failed" THEN "unverified" ELSE "reverted"]
<1> USE DEF TypeOK, DatabaseTypeOK, Finish
<1>1. TxPhase'[j] = IF s = "succeeded" THEN "updated"
                    ELSE IF o = "rollback_failed" THEN "unverified" ELSE "reverted"
  <2>1. state'[j] = s /\ outcome'[j] = o
    OBVIOUS
  <2>2. TxPhase'[j] = CASE s = "absent" -> "idle"
                        [] s \in ACTIVE_STATES -> "open"
                        [] s = "succeeded" -> "updated"
                        [] o = "rollback_failed" -> "unverified"
                        [] OTHER -> "reverted"
    BY <2>1, Zenon DEF TxPhase, Active
  <2>3. CASE s = "succeeded"
    BY <2>2, <2>3 DEF ACTIVE_STATES
  <2>4. CASE s \in {"failed", "cancelled"}
    BY <2>2, <2>4 DEF ACTIVE_STATES
  <2> QED
    BY <2>3, <2>4 DEF TERMINAL_STATES
<1>2. ASSUME NEW k \in Jobs, k # j PROVE TxPhase'[k] = TxPhase[k]
  BY <1>2 DEF TxPhase, Active
<1>3. /\ TxPhase = [k \in Jobs |-> TxPhase[k]]
      /\ TxPhase' = [k \in Jobs |-> TxPhase'[k]]
  BY DEF TxPhase
<1> HIDE DEF TypeOK, DatabaseTypeOK, Finish
<1> QED
  BY <1>1, <1>2, <1>3

\* An update keeps the container that it started from.
LEMMA OldStays ==
    ASSUME TypeOK, [Next]_vars
    PROVE  \A k \in Jobs : state[k] # "absent" => old'[k] = old[k]
<1>a. old \in [Jobs -> Nat]
  BY DEF TypeOK, DatabaseTypeOK
<1> USE <1>a DEF dbVars
<1>1. ASSUME NEW c \in commands, RemoteUp(c)
      PROVE  \A k \in Jobs : state[k] # "absent" => old'[k] = old[k]
  BY <1>1 DEF RemoteUp
<1>2. ASSUME NEW j \in Jobs, PrepareIntent(j) \/ Execute(j)
      PROVE  \A k \in Jobs : state[k] # "absent" => old'[k] = old[k]
  BY <1>2 DEF PrepareIntent, Execute
<1>3. ASSUME NEW j \in Jobs, ExecuteStep(j)
      PROVE  \A k \in Jobs : state[k] # "absent" => old'[k] = old[k]
  <2>1. CASE Start(j) \/ Validated(j) \/ ValidationFailed(j) \/ ForwardUp(j)
    BY <1>3, <2>1 DEF Start, Validated, ValidationFailed, ForwardUp
  <2>2. CASE ForwardCreated(j) \/ ForwardRebound(j) \/ Healthy(j) \/ Succeed(j)
    BY <1>3, <2>2 DEF ForwardCreated, ForwardRebound, Healthy, Succeed
  <2>3. CASE ForwardFailed(j) \/ ForwardRebindFailed(j) \/ Unhealthy(j)
    BY <1>3, <2>3 DEF ForwardFailed, BeginRollback, ForwardRebindFailed, Unhealthy
  <2>4. CASE ResolvedOld(j) \/ ResolvedOther(j) \/ ResolveFailed(j)
    BY <1>3, <2>4 DEF ResolvedOld, ResolvedOther, BeginRollback, ResolveFailed
  <2>5. CASE RollbackUp(j) \/ RollbackCreated(j) \/ RollbackRebound(j) \/ RollbackHealthy(j)
    BY <1>3, <2>5 DEF RollbackUp, RollbackCreated, RollbackRebound, RollbackHealthy
  <2>6. CASE RolledBack(j) \/ RollbackFailed(j) \/ AdoptResolved(j) \/ RollbackAbandoned(j)
    BY <1>3, <2>6 DEF RolledBack, RollbackFailed, AdoptResolved, RollbackAbandoned
  <2> QED
    BY <1>3, <2>1, <2>2, <2>3, <2>4, <2>5, <2>6 DEF ExecuteStep
<1>4. ASSUME NEW j \in Jobs, RecoveryStep(j)
      PROVE  \A k \in Jobs : state[k] # "absent" => old'[k] = old[k]
  <2>1. CASE RecoverBeforeForward(j) \/ RecoverStart(j) \/ RecoveryResolve(j) \/
             RecoverySettle(j) \/ RecoveryBeginRollback(j)
    BY <1>4, <2>1 DEF RecoverBeforeForward, MayRecover, RecoverStart, RecoveryResolve,
                   RecoverySettle, RecoveryBeginRollback
  <2>2. CASE RecoveryUp(j) \/ RecoveryCreated(j) \/ RecoveryRebound(j) \/
             RecoveryHealthy(j) \/ Recovered(j)
    BY <1>4, <2>2 DEF RecoveryUp, RecoveryCreated, RecoveryRebound, RecoveryHealthy, Recovered
  <2>3. CASE StartupBlocked(j)
    BY <1>4, <2>3 DEF StartupBlocked, Die
  <2> QED
    BY <1>4, <2>1, <2>2, <2>3 DEF RecoveryStep
<1>5. ASSUME NEW t \in Targets, Discover \/ SaveSelection(t)
      PROVE  \A k \in Jobs : state[k] # "absent" => old'[k] = old[k]
  BY <1>5 DEF Discover, SaveSelection
<1>6. CASE Crash \/ Restart \/ Listen
  BY <1>6 DEF Crash, Die, Restart, Listen
<1>7. CASE UNCHANGED vars
  BY <1>7 DEF vars
<1> QED
  BY <1>1, <1>2, <1>3, <1>4, <1>5, <1>6, <1>7 DEF Next, Discover

\* The forward step begins after the validation and nowhere else.
ForwardIsValidated ==
    \A k \in Jobs : HasStage(k, "forward_started")' => HasStage(k, "forward_started") \/ Validated(k)

\* So it is in every step.
LEMMA ForwardBegins ==
    ASSUME TypeOK, [Next]_vars
    PROVE  ForwardIsValidated
<1>a. stages \in [Jobs -> SUBSET StageEvent]
  BY DEF TypeOK, DatabaseTypeOK
<1> USE <1>a DEF dbVars, WithStage, HasStage, ForwardIsValidated
<1>1. ASSUME NEW c \in commands, RemoteUp(c) PROVE ForwardIsValidated
  BY <1>1 DEF RemoteUp
<1>2. ASSUME NEW j \in Jobs, PrepareIntent(j) \/ Execute(j) PROVE ForwardIsValidated
  BY <1>2 DEF PrepareIntent, Execute
<1>3. ASSUME NEW j \in Jobs, ExecuteStep(j) PROVE ForwardIsValidated
  <2>1. CASE Start(j)
    BY <1>3, <2>1 DEF Start
  <2>2. CASE Validated(j)
    <3>1. \A k \in Jobs : k # j => stages'[k] = stages[k]
      BY <2>2 DEF Validated
    <3> QED
      BY <2>2, <3>1
  <2>3. CASE ValidationFailed(j) \/ ForwardUp(j)
    BY <1>3, <2>3 DEF ValidationFailed, ForwardUp
  <2>4. CASE ForwardCreated(j) \/ ForwardRebound(j) \/ Healthy(j) \/ Succeed(j)
    BY <1>3, <2>4 DEF ForwardCreated, ForwardRebound, Healthy, Succeed
  <2>5. CASE ForwardFailed(j)
    BY <1>3, <2>5 DEF ForwardFailed, BeginRollback
  <2>6. CASE ForwardRebindFailed(j)
    BY <1>3, <2>6 DEF ForwardRebindFailed, BeginRollback
  <2>7. CASE Unhealthy(j)
    BY <1>3, <2>7 DEF Unhealthy, BeginRollback
  <2>8. CASE ResolvedOld(j)
    BY <1>3, <2>8 DEF ResolvedOld
  <2>9. CASE ResolvedOther(j)
    BY <1>3, <2>9 DEF ResolvedOther, BeginRollback
  <2>10. CASE ResolveFailed(j)
    BY <1>3, <2>10 DEF ResolveFailed
  <2>11. CASE RollbackUp(j) \/ RollbackCreated(j) \/ RollbackRebound(j) \/ RollbackHealthy(j)
    BY <1>3, <2>11 DEF RollbackUp, RollbackCreated, RollbackRebound, RollbackHealthy
  <2>12. CASE RolledBack(j) \/ RollbackFailed(j) \/ AdoptResolved(j) \/ RollbackAbandoned(j)
    BY <1>3, <2>12 DEF RolledBack, RollbackFailed, AdoptResolved, RollbackAbandoned
  <2> QED
    BY <1>3, <2>1, <2>2, <2>3, <2>4, <2>5, <2>6, <2>7, <2>8, <2>9, <2>10, <2>11, <2>12 DEF
         ExecuteStep
<1>4. ASSUME NEW j \in Jobs, RecoveryStep(j) PROVE ForwardIsValidated
  <2>1. CASE RecoverBeforeForward(j) \/ RecoverStart(j) \/ RecoveryResolve(j) \/
             RecoverySettle(j) \/ RecoveryBeginRollback(j)
    BY <1>4, <2>1 DEF RecoverBeforeForward, MayRecover, RecoverStart, RecoveryResolve,
                   RecoverySettle, RecoveryBeginRollback
  <2>2. CASE RecoveryUp(j) \/ RecoveryCreated(j) \/ RecoveryRebound(j) \/
             RecoveryHealthy(j) \/ Recovered(j)
    BY <1>4, <2>2 DEF RecoveryUp, RecoveryCreated, RecoveryRebound, RecoveryHealthy, Recovered
  <2>3. CASE StartupBlocked(j)
    BY <1>4, <2>3 DEF StartupBlocked, Die
  <2> QED
    BY <1>4, <2>1, <2>2, <2>3 DEF RecoveryStep
<1>5. ASSUME NEW t \in Targets, Discover \/ SaveSelection(t) PROVE ForwardIsValidated
  BY <1>5 DEF Discover, SaveSelection
<1>6. CASE Crash \/ Restart \/ Listen
  BY <1>6 DEF Crash, Die, Restart, Listen
<1>7. CASE UNCHANGED vars
  BY <1>7 DEF vars
<1> QED
  BY <1>1, <1>2, <1>3, <1>4, <1>5, <1>6, <1>7 DEF Next, Discover

\* The steps that end update j, and those that leave its phase and the others' alone.
Ends(j) ==
    \/ ValidationFailed(j) \/ Succeed(j) \/ ResolvedOld(j) \/ ResolveFailed(j) \/ RolledBack(j)
    \/ RollbackAbandoned(j) \/ RecoverBeforeForward(j) \/ Recovered(j)

\* A step begins an update, starts its handler, ends it, or leaves its row alone.
KindOfStep ==
    \/ \E k \in Jobs : Execute(k) \/ Start(k) \/ Ends(k)
    \/ UNCHANGED <<state, outcome>>

\* So it is with every step.
LEMMA KindsOfSteps ==
    ASSUME [Next]_vars
    PROVE  KindOfStep
<1> USE DEF dbVars, Ends, KindOfStep
<1>1. ASSUME NEW c \in commands, RemoteUp(c) PROVE KindOfStep
  BY <1>1 DEF RemoteUp
<1>2. ASSUME NEW j \in Jobs, PrepareIntent(j) \/ Execute(j) PROVE KindOfStep
  BY <1>2 DEF PrepareIntent, Execute
<1>3. ASSUME NEW j \in Jobs, ExecuteStep(j) PROVE KindOfStep
  <2>1. CASE Start(j) \/ Validated(j) \/ ValidationFailed(j) \/ ForwardUp(j)
    BY <1>3, <2>1 DEF Start, Validated, ValidationFailed, ForwardUp
  <2>2. CASE ForwardCreated(j) \/ ForwardRebound(j) \/ Healthy(j) \/ Succeed(j)
    BY <1>3, <2>2 DEF ForwardCreated, ForwardRebound, Healthy, Succeed
  <2>3. CASE ForwardFailed(j) \/ ForwardRebindFailed(j) \/ Unhealthy(j)
    BY <1>3, <2>3 DEF ForwardFailed, BeginRollback, ForwardRebindFailed, Unhealthy
  <2>4. CASE ResolvedOld(j) \/ ResolvedOther(j) \/ ResolveFailed(j)
    BY <1>3, <2>4 DEF ResolvedOld, ResolvedOther, BeginRollback, ResolveFailed
  <2>5. CASE RollbackUp(j) \/ RollbackCreated(j) \/ RollbackRebound(j) \/ RollbackHealthy(j)
    BY <1>3, <2>5 DEF RollbackUp, RollbackCreated, RollbackRebound, RollbackHealthy
  <2>6. CASE RolledBack(j) \/ RollbackFailed(j) \/ AdoptResolved(j) \/ RollbackAbandoned(j)
    BY <1>3, <2>6 DEF RolledBack, RollbackFailed, AdoptResolved, RollbackAbandoned
  <2> QED
    BY <1>3, <2>1, <2>2, <2>3, <2>4, <2>5, <2>6 DEF ExecuteStep
<1>4. ASSUME NEW j \in Jobs, RecoveryStep(j) PROVE KindOfStep
  <2>1. CASE RecoverBeforeForward(j) \/ RecoverStart(j) \/ RecoveryResolve(j) \/
             RecoverySettle(j) \/ RecoveryBeginRollback(j)
    BY <1>4, <2>1 DEF RecoverBeforeForward, MayRecover, RecoverStart, RecoveryResolve,
                   RecoverySettle, RecoveryBeginRollback
  <2>2. CASE RecoveryUp(j) \/ RecoveryCreated(j) \/ RecoveryRebound(j) \/
             RecoveryHealthy(j) \/ Recovered(j)
    BY <1>4, <2>2 DEF RecoveryUp, RecoveryCreated, RecoveryRebound, RecoveryHealthy, Recovered
  <2>3. CASE StartupBlocked(j)
    BY <1>4, <2>3 DEF StartupBlocked, Die
  <2> QED
    BY <1>4, <2>1, <2>2, <2>3 DEF RecoveryStep
<1>5. ASSUME NEW t \in Targets, Discover \/ SaveSelection(t) PROVE KindOfStep
  BY <1>5 DEF Discover, SaveSelection
<1>6. CASE Crash \/ Restart \/ Listen
  BY <1>6 DEF Crash, Die, Restart, Listen
<1>7. CASE UNCHANGED vars
  BY <1>7 DEF vars
<1> QED
  BY <1>1, <1>2, <1>3, <1>4, <1>5, <1>6, <1>7 DEF Next, Discover

\* A step that ends no update leaves what counts as served alone.
LEMMA ServedStays ==
    ASSUME AloneInv, ServedOK, ServedOK', [Next]_vars,
           \A k \in Jobs : (Active(k) => Active(k)') /\ (InForward(k)' => Active(k))
    PROVE  TxServed' = TxServed
<1>a. TypeOK /\ JobOK
  BY DEF AloneInv, IInv
<1>1. TxServed'[FirstTarget] = TxServed[FirstTarget]
  <2>1. CASE \E j \in Jobs : InForward(j)
    <3>1. PICK j \in Jobs : InForward(j)
      BY <2>1
    <3>2. InForward(j)'
      BY <3>1, <1>a, JournalGrows DEF InForward, HasStage
    <3>3. old'[j] = old[j] /\ old[j] \in Containers
      BY <3>1, <1>a, OldStays DEF InForward, Active, ACTIVE_STATES, JobOK
    <3>4. RollbackImage(j)' = RollbackImage(j)
      BY <3>3, <1>a, ContainersStay DEF RollbackImage
    <3> QED
      BY <3>1, <3>2, <3>4 DEF ServedOK
  <2>2. CASE \A j \in Jobs : ~InForward(j)
    <3>1. created' = created
      BY <2>2, CommandOwner, CreatedStays
    <3>2. ImageOf(current)' = ImageOf(current)
      BY <3>1 DEF current, ImageOf
    <3>3. CASE \E j \in Jobs : InForward(j)'
      <4>1. PICK j \in Jobs : InForward(j)'
        BY <3>3
      <4>2. ~HasStage(j, "forward_started") /\ HasStage(j, "forward_started")' /\ Active(j)
        BY <4>1, <2>2 DEF InForward
      <4>3. Validated(j)
        BY <4>2, <1>a, ForwardBegins DEF ForwardIsValidated
      <4>4. old'[j] = current /\ current \in Containers
        BY <4>3, <1>a, CurrentExists DEF Validated
      <4>5. RollbackImage(j)' = ImageOf(current)
        BY <4>4, <1>a, ContainersStay DEF RollbackImage
      <4> QED
        BY <2>2, <4>1, <4>5 DEF ServedOK
    <3>4. CASE \A j \in Jobs : ~InForward(j)'
      BY <2>2, <3>2, <3>4 DEF ServedOK
    <3> QED
      BY <3>3, <3>4
  <2> QED
    BY <2>1, <2>2
<1> QED
  BY <1>1 DEF TxServed

\* When the only active update ends, what the service runs counts again.
LEMMA ServedAfterEnd ==
    ASSUME alone, AloneInv, ServedOK, ServedOK', [Next]_vars, NEW j \in Jobs, Ends(j)
    PROVE  /\ Active(j) /\ created' = created
           /\ TxServed'[FirstTarget] = ImageOf(current)
           /\ InForward(j) => TxServed[FirstTarget] = RollbackImage(j)
           /\ ~InForward(j) => TxServed[FirstTarget] = ImageOf(current)
<1>a. /\ TypeOK /\ JobOK /\ state \in [Jobs -> JobState \cup {"absent"}]
      /\ \A k \in Jobs : Active(k) <=> pc[k] # "idle"
  BY DEF AloneInv, IInv, TypeOK, DatabaseTypeOK, JobOK
<1>1. /\ pc[j] # "idle"
      /\ created' = created
      /\ \E s \in {"succeeded", "failed"} : state' = [state EXCEPT ![j] = s]
  BY DEF Ends, ValidationFailed, Succeed, ResolvedOld, ResolveFailed, RolledBack,
         RollbackAbandoned, RecoverBeforeForward, MayRecover, Recovered, Finish, remoteVars
<1>2. \A k \in Jobs : k # j => ~Active(k)
  BY <1>1, <1>a, OneHandler DEF AloneInv
<1>3. \A k \in Jobs : ~Active(k)'
  BY <1>1, <1>2, <1>a DEF Active, ACTIVE_STATES
<1>4. ImageOf(current)' = ImageOf(current)
  BY <1>1 DEF current, ImageOf
<1>5. TxServed'[FirstTarget] = ImageOf(current)
  BY <1>3, <1>4 DEF ServedOK, InForward
<1>6. ~InForward(j) => \A k \in Jobs : ~InForward(k)
  BY <1>2 DEF InForward
<1> QED
  BY <1>1, <1>5, <1>6, <1>a DEF ServedOK

\* Every step of the update is one of the transaction, or none.
LEMMA UpdateSimulatesTx ==
    ASSUME alone, AloneInv, AloneInv', ServedOK, ServedOK', [Next]_vars
    PROVE  [AsTx!TxNext]_AsTx!txVars
<1>a. /\ TypeOK /\ JobOK /\ state \in [Jobs -> JobState \cup {"absent"}]
      /\ outcome \in [Jobs -> Outcome \cup {"none"}]
      /\ \A k \in Jobs : Active(k) <=> pc[k] # "idle"
      /\ \A k \in Jobs : Target(k) = FirstTarget
  BY TargetStays DEF AloneInv, IInv, TypeOK, DatabaseTypeOK, JobOK
<1>f. /\ TxServed = [t \in {FirstTarget} |-> TxServed[t]]
      /\ TxServed' = [t \in {FirstTarget} |-> TxServed'[t]]
  BY DEF TxServed
<1>1. CASE UNCHANGED <<state, outcome>>
  <2>1. \A k \in Jobs : Active(k)' <=> Active(k)
    BY <1>1 DEF Active
  <2>2. TxPhase' = TxPhase
    BY <1>1 DEF TxPhase, Active
  <2>3. TxServed' = TxServed
    BY <2>1, ServedStays DEF InForward
  <2> QED
    BY <2>2, <2>3 DEF AsTx!txVars
<1>2. ASSUME NEW j \in Jobs, Start(j) PROVE [AsTx!TxNext]_AsTx!txVars
  <2>1. /\ state' = [state EXCEPT ![j] = "running"] /\ outcome' = outcome
        /\ Active(j) /\ state[j] # "absent" /\ state[j] # "succeeded"
    BY <1>2, <1>a DEF Start, Active, ACTIVE_STATES
  <2>2. \A k \in Jobs : Active(k)' <=> Active(k)
    BY <2>1, <1>a DEF Active, ACTIVE_STATES
  <2>3. ASSUME NEW k \in Jobs PROVE TxPhase'[k] = TxPhase[k]
    <3>1. CASE k = j
      BY <2>1, <2>2, <3>1, <1>a DEF TxPhase
    <3>2. CASE k # j
      BY <2>1, <3>2, <1>a DEF TxPhase, Active
    <3> QED
      BY <3>1, <3>2
  <2>4. TxPhase' = TxPhase
    BY <2>3 DEF TxPhase
  <2>5. TxServed' = TxServed
    BY <2>2, ServedStays DEF InForward
  <2> QED
    BY <2>4, <2>5 DEF AsTx!txVars
<1>3. ASSUME NEW j \in Jobs, Execute(j) PROVE AsTx!Open(j)
  <2>1. /\ state[j] = "absent" /\ state' = [state EXCEPT ![j] = "queued"] /\ outcome' = outcome
        /\ stages' = stages /\ stages[j] = {}
        /\ \A k \in Jobs : ~Active(k)
    BY <1>3, <1>a DEF Execute, JobOK
  <2>2. /\ \A k \in Jobs : k # j => (Active(k)' <=> Active(k))
        /\ Active(j)' /\ ~InForward(j)'
    BY <2>1, <1>a DEF Active, ACTIVE_STATES, InForward, HasStage
  <2>3. TxServed' = TxServed
    BY <2>1, <2>2, ServedStays DEF InForward, Active, ACTIVE_STATES
  <2>4. TxPhase[j] = "idle" /\ TxPhase'[j] = "open"
    <3>1. outcome[j] = "none" /\ state'[j] = "queued" /\ outcome'[j] = "none"
      BY <2>1, <1>a DEF JobOK
    <3>2. TxPhase[j] = "idle"
      BY <2>1, <3>1 DEF TxPhase, Active, ACTIVE_STATES
    <3>3. TxPhase'[j] = "open"
      BY <2>2, <3>1 DEF TxPhase
    <3> QED
      BY <3>2, <3>3
  <2>5. ASSUME NEW k \in Jobs, k # j PROVE TxPhase'[k] = TxPhase[k]
    BY <2>1, <2>5, <1>a DEF TxPhase, Active
  <2>6. TxPhase' = [TxPhase EXCEPT ![j] = "open"]
    <3>1. TxPhase = [k \in Jobs |-> TxPhase[k]] /\ TxPhase' = [k \in Jobs |-> TxPhase'[k]]
      BY DEF TxPhase
    <3> QED
      BY <2>4, <2>5, <3>1
  <2>7. \A k \in Jobs : TxPhase[k] # "open"
    BY <2>1, <1>a DEF TxPhase, Active, ACTIVE_STATES
  <2> QED
    BY <2>3, <2>4, <2>6, <2>7 DEF AsTx!Open
<1>4. ASSUME NEW j \in Jobs, Ends(j) PROVE AsTx!Commit(j) \/ AsTx!Revert(j) \/ AsTx!GiveUp(j)
  <2>a. /\ Active(j) /\ created' = created
        /\ TxServed'[FirstTarget] = ImageOf(current)
        /\ InForward(j) => TxServed[FirstTarget] = RollbackImage(j)
        /\ ~InForward(j) => TxServed[FirstTarget] = ImageOf(current)
    BY <1>4, ServedAfterEnd
  <2>b. TxPhase[j] = "open"
    <3>1. outcome[j] = "none" /\ state[j] # "absent" /\ state[j] # "succeeded"
      BY <2>a, <1>a DEF JobOK, Active, ACTIVE_STATES
    <3> QED
      BY <2>a, <3>1 DEF TxPhase
  <2>c. pc[j] \notin {"idle", "pending", "created", "validating"} => InForward(j)
    BY DEF AloneInv, JournalOK
  <2>1. CASE Succeed(j)
    <3>1. TxPhase' = [TxPhase EXCEPT ![j] = "updated"]
      BY <2>1, <1>a, PhaseOfEnd DEF Succeed, TERMINAL_STATES, Outcome
    <3>2. ImageOf(current) = CandidateOf[j]
      BY <2>1 DEF Succeed, AloneInv, IInv, HeadOK, HoldsOK, Runs
    <3>3. TxServed' = [TxServed EXCEPT ![FirstTarget] = CandidateOf[j]]
      BY <1>a, <1>f, <2>a, <3>2
    <3> QED
      BY <2>b, <3>1, <3>3 DEF AsTx!Commit
  <2>2. CASE ResolveFailed(j) \/ RollbackAbandoned(j)
    <3>1. TxPhase' = [TxPhase EXCEPT ![j] = "unverified"]
      BY <2>2, <1>a, PhaseOfEnd DEF ResolveFailed, RollbackAbandoned, TERMINAL_STATES, Outcome
    <3>2. TxServed' = [TxServed EXCEPT ![FirstTarget] = ImageOf(current)]
      BY <1>a, <1>f, <2>a
    <3>3. ImageOf(current) \in Images
      BY <1>a, CurrentExists
    <3> QED
      BY <2>b, <3>1, <3>2, <3>3 DEF AsTx!GiveUp
  <2>3. CASE ValidationFailed(j) \/ ResolvedOld(j) \/ RolledBack(j) \/ RecoverBeforeForward(j)
              \/ Recovered(j)
    <3>1. TxPhase' = [TxPhase EXCEPT ![j] = "reverted"]
      BY <2>3, <1>a, PhaseOfEnd DEF ValidationFailed, ResolvedOld, RolledBack,
         RecoverBeforeForward, Recovered, TERMINAL_STATES, Outcome
    <3>2. InForward(j) => ImageOf(current) = RollbackImage(j)
      <4>1. CASE ValidationFailed(j) \/ RecoverBeforeForward(j)
        BY <4>1 DEF ValidationFailed, RecoverBeforeForward, AloneInv, JournalOK, InForward
      <4>2. CASE ResolvedOld(j)
        BY <4>2 DEF ResolvedOld, RollbackImage
      <4>3. CASE RolledBack(j) \/ Recovered(j)
        BY <4>3 DEF RolledBack, Recovered, AloneInv, IInv, HeadOK, HoldsOK, Runs
      <4> QED
        BY <2>3, <4>1, <4>2, <4>3
    <3>3. TxServed' = TxServed
      BY <1>f, <2>a, <3>2
    <3> QED
      BY <2>b, <3>1, <3>3 DEF AsTx!Revert
  <2> QED
    BY <1>4, <2>1, <2>2, <2>3 DEF Ends
<1>5. KindOfStep
  BY KindsOfSteps
<1> QED
  BY <1>1, <1>2, <1>3, <1>4, <1>5 DEF AsTx!TxNext, KindOfStep

\* Nothing is open at first, and what the service runs counts.
LEMMA UpdateStartsTx == ASSUME alone, Init PROVE AsTx!TxInit
<1>1. TypeOK
  BY InitEstablishes DEF IInv
<1>2. TxPhase = [j \in Jobs |-> "idle"]
  <2>1. ASSUME NEW j \in Jobs PROVE TxPhase[j] = "idle"
    <3>1. state[j] = "absent" /\ outcome[j] = "none" /\ ~Active(j)
      BY DEF Init, Active, ACTIVE_STATES
    <3> QED
      BY <3>1 DEF TxPhase
  <2> QED
    BY <2>1 DEF TxPhase
<1>3. \A j \in Jobs : ~InForward(j)
  BY DEF Init, InForward, Active, ACTIVE_STATES
<1>4. TxServed[FirstTarget] \in Images
  BY <1>1, <1>3, ServedIs, InitEstablishes, CurrentExists DEF ServedOK
<1>5. TxServed \in [{FirstTarget} -> Images]
  BY <1>4 DEF TxServed
<1> QED
  BY <1>2, <1>5 DEF AsTx!TxInit

\* An update of a target that is alone on its service commits or reverts as a whole, or
\* says that it does not know, across crashes and recoveries: it implements UpdateTx.
THEOREM UpdateImplementsTx == Spec => UpdateIsAtomic
<1>1. Init => Tx!TxInit
  <2>1. CASE alone
    BY <2>1, UpdateStartsTx DEF AsTx!TxInit, Tx!TxInit
  <2>2. ASSUME ~alone, Init PROVE Tx!TxInit
    <3>1. \E i \in Images : TRUE
      BY <2>2 DEF Init
    <3>2. (CHOOSE i \in Images : TRUE) \in Images
      BY <3>1
    <3> QED
      BY <2>2, <3>2 DEF Tx!TxInit
  <2> QED
    BY <2>1, <2>2
<1>2. Inv => (alone => ServedOK)
  BY ServedIs DEF Inv
<1>3. ASSUME Inv, Inv', alone => ServedOK, (alone => ServedOK)', [Next]_vars
      PROVE  [Tx!TxNext]_(Tx!txVars)
  <2>1. CASE alone
    <3>1. alone' /\ [AsTx!TxNext]_(AsTx!txVars)
      BY <1>3, <2>1, AloneStays, UpdateSimulatesTx DEF Inv
    <3> QED
      BY <2>1, <3>1 DEF AsTx!TxNext, Tx!TxNext, AsTx!txVars, Tx!txVars, AsTx!Open, Tx!Open,
         AsTx!Commit, Tx!Commit, AsTx!Revert, Tx!Revert, AsTx!GiveUp, Tx!GiveUp
  <2>2. CASE ~alone
    BY <1>3, <2>2, AloneStays DEF Tx!txVars
  <2> QED
    BY <2>1, <2>2
<1> QED
  BY <1>1, <1>2, <1>3, Invariance, PTL DEF Spec, UpdateIsAtomic, Tx!TxSpec

-----------------------------------------------------------------------------
(* What the update asks of the jobs table.                                 *)

\* Where the handler of a job stands after its start.
HandlerPC == (BusyPC \cup AwaitPC) \ ({"created"} \cup RecoveryPC)

\* No update can be cancelled.  A handler that is about to start has a queued job, and one
\* that has started has a running one, so that a verdict finds the job where it must be.
StateOK ==
    \A j \in Jobs :
        /\ state[j] # "cancelling"
        /\ pc[j] = "created" => state[j] = "queued"
        /\ pc[j] \in HandlerPC => state[j] = "running"

\* An update takes the lock of its target.
JobLocks == [j \in Jobs |-> {Target(j)}]

AsTable == INSTANCE JobTable WITH locks <- JobLocks

\* Every step keeps the handlers in step with the jobs table.
LEMMA StateStep ==
    ASSUME IInv, StateOK, [Next]_vars
    PROVE  StateOK'
<1>a. /\ state \in [Jobs -> JobState \cup {"absent"}]
      /\ outcome \in [Jobs -> Outcome \cup {"none"}]
      /\ stages \in [Jobs -> SUBSET StageEvent]
      /\ old \in [Jobs -> Nat] /\ binding \in [Targets -> Nat]
      /\ pc \in [Jobs -> BusyPC \cup AwaitPC \cup {"idle", "pending"}]
      /\ candidate \in [Jobs -> Nat] /\ remoteId \in [Jobs -> Nat] /\ fresh \in [Jobs -> Nat]
      /\ \A j \in Jobs : Target(j) \in Targets /\ Target(j)' = Target(j)
  BY TargetStays DEF IInv, TypeOK, DatabaseTypeOK, ProcessTypeOK
<1>b. /\ current \in Containers
      /\ Containers \subseteq Containers'
      /\ \A c \in Containers : c # 0 /\ ImageOf(c)' = ImageOf(c)
  BY CurrentExists, ContainersStay DEF IInv
<1> USE <1>a, <1>b DEF dbVars, processVars, Goto, WithStage, Rebound, Recreated, Finish, IInv,
        JobOK, StateOK, HandlerPC, BusyPC, AwaitPC, RecoveryPC, Active, ACTIVE_STATES
<1>1. ASSUME NEW c \in commands, RemoteUp(c) PROVE StateOK'
  BY <1>1 DEF RemoteUp
<1>2. ASSUME NEW j \in Jobs, PrepareIntent(j) \/ Execute(j) PROVE StateOK'
  BY <1>2 DEF PrepareIntent, Execute
<1>3. ASSUME NEW j \in Jobs, ExecuteStep(j) PROVE StateOK'
  <2>1. CASE Start(j) \/ Validated(j) \/ ValidationFailed(j) \/ ForwardUp(j)
    BY <1>3, <2>1 DEF Start, Validated, ValidationFailed, ForwardUp
  <2>2. CASE ForwardCreated(j) \/ ForwardRebound(j) \/ Healthy(j) \/ Succeed(j)
    BY <1>3, <2>2 DEF ForwardCreated, ForwardRebound, Healthy, Succeed
  <2>3. CASE ForwardFailed(j)
    BY <1>3, <2>3 DEF ForwardFailed, BeginRollback
  <2>4. CASE ForwardRebindFailed(j) \/ Unhealthy(j)
    BY <1>3, <2>4 DEF ForwardRebindFailed, BeginRollback, Unhealthy
  <2>5. CASE ResolvedOld(j)
    BY <1>3, <2>5 DEF ResolvedOld
  <2>6. CASE ResolvedOther(j)
    BY <1>3, <2>6 DEF ResolvedOther, BeginRollback
  <2>7. CASE ResolveFailed(j)
    BY <1>3, <2>7 DEF ResolveFailed
  <2>8. CASE RollbackUp(j) \/ RollbackCreated(j) \/ RollbackRebound(j) \/ RollbackHealthy(j)
    BY <1>3, <2>8 DEF RollbackUp, RollbackCreated, RollbackRebound, RollbackHealthy
  <2>9. CASE RolledBack(j)
    BY <1>3, <2>9 DEF RolledBack
  <2>10. CASE RollbackFailed(j)
    BY <1>3, <2>10 DEF RollbackFailed
  <2>11. CASE AdoptResolved(j)
    BY <1>3, <2>11 DEF AdoptResolved
  <2>12. CASE RollbackAbandoned(j)
    BY <1>3, <2>12 DEF RollbackAbandoned
  <2> QED
    BY <1>3, <2>1, <2>2, <2>3, <2>4, <2>5, <2>6, <2>7, <2>8, <2>9, <2>10, <2>11, <2>12 DEF
         ExecuteStep
<1>4. ASSUME NEW j \in Jobs, RecoveryStep(j) PROVE StateOK'
  <2>1. CASE RecoverBeforeForward(j) \/ RecoverStart(j) \/ RecoveryResolve(j) \/
             RecoverySettle(j) \/ RecoveryBeginRollback(j)
    BY <1>4, <2>1 DEF RecoverBeforeForward, MayRecover, RecoverStart, RecoveryResolve,
                   RecoverySettle, RecoveryBeginRollback
  <2>2. CASE RecoveryUp(j) \/ RecoveryCreated(j) \/ RecoveryRebound(j) \/
             RecoveryHealthy(j) \/ Recovered(j)
    BY <1>4, <2>2 DEF RecoveryUp, RecoveryCreated, RecoveryRebound, RecoveryHealthy, Recovered
  <2>3. CASE StartupBlocked(j)
    BY <1>4, <2>3 DEF StartupBlocked, Die
  <2> QED
    BY <1>4, <2>1, <2>2, <2>3 DEF RecoveryStep
<1>5. ASSUME NEW t \in Targets, Discover \/ SaveSelection(t) PROVE StateOK'
  BY <1>5 DEF Discover, SaveSelection
<1>6. CASE Crash \/ Restart \/ Listen
  BY <1>6 DEF Crash, Die, Restart, Listen
<1>7. CASE UNCHANGED vars
  BY <1>7 DEF vars
<1> QED
  BY <1>1, <1>2, <1>3, <1>4, <1>5, <1>6, <1>7 DEF Next, Discover

\* A step on the row of one job is a step of the jobs table.
LEMMA StepOfTable ==
    ASSUME IInv, StateOK, [Next]_vars
    PROVE  [AsTable!TableNext]_<<state, JobLocks>>
<1>a. /\ state \in [Jobs -> JobState \cup {"absent"}]
      /\ \A j \in Jobs : Active(j) <=> pc[j] # "idle"
      /\ \A j \in Jobs : Target(j) \in Targets
  BY TargetStays DEF IInv, JobOK, TypeOK, DatabaseTypeOK
<1>b. JobLocks' = JobLocks
  BY TargetStays DEF JobLocks
<1>c. \A j \in Jobs : JobLocks[j] = {Target(j)}
  BY DEF JobLocks
<1>1. ASSUME NEW j \in Jobs, Execute(j) PROVE AsTable!Accept(j)
  BY <1>1, <1>a, <1>b, <1>c DEF Execute, Active, AsTable!Accept, ACTIVE_STATES,
     AsTable!ACTIVE_STATES
<1>2. ASSUME NEW j \in Jobs, Start(j) PROVE AsTable!Move(j, "running")
  BY <1>2, <1>b DEF Start, StateOK, AsTable!Move, AsTable!CanTransition, AsTable!TRANSITIONS
<1>3. ASSUME NEW j \in Jobs, Ends(j)
      PROVE  AsTable!Move(j, "succeeded") \/ AsTable!Move(j, "failed")
  <2>1. CASE Succeed(j)
    <3>1. state[j] = "running" /\ state' = [state EXCEPT ![j] = "succeeded"]
      BY <2>1 DEF Succeed, Finish, StateOK, HandlerPC, BusyPC, AwaitPC, RecoveryPC
    <3> QED
      BY <3>1, <1>b DEF AsTable!Move, AsTable!CanTransition, AsTable!TRANSITIONS
  <2>2. CASE ~Succeed(j)
    <3>1. pc[j] # "idle" /\ state' = [state EXCEPT ![j] = "failed"]
      BY <1>3, <2>2 DEF Ends, ValidationFailed, ResolvedOld, ResolveFailed, RolledBack,
         RollbackAbandoned, RecoverBeforeForward, MayRecover, Recovered, Finish
    <3>2. state[j] \in {"queued", "running"}
      BY <3>1, <1>a DEF StateOK, Active, ACTIVE_STATES
    <3> QED
      BY <3>1, <3>2, <1>b DEF AsTable!Move, AsTable!CanTransition, AsTable!TRANSITIONS
  <2> QED
    BY <2>1, <2>2
<1>4. KindOfStep
  BY KindsOfSteps
<1> QED
  BY <1>1, <1>2, <1>3, <1>4, <1>b DEF KindOfStep, AsTable!TableNext, AsTable!JobState

\* The update keeps to the contract of the jobs table: it inserts a job while no other job
\* holds the lock of its target, and neither a handler nor the recovery after a crash asks
\* JobService for a transition that it refuses, so that no verdict is lost to a conflict.
THEOREM UpdateKeepsContract == Spec => AsTable!TableSpec
<1>1. Init => StateOK /\ AsTable!TableInit
  <2>1. Init => StateOK
    BY DEF Init, StateOK, HandlerPC, BusyPC, AwaitPC, RecoveryPC
  <2>2. Init => AsTable!TableInit
    BY UpdateAssumption DEF Init, AsTable!TableInit, JobLocks, Target
  <2> QED
    BY <2>1, <2>2
<1>2. StateOK /\ IInv /\ [Next]_vars => StateOK'
  BY StateStep
<1>3. IInv /\ StateOK /\ [Next]_vars => [AsTable!TableNext]_<<state, JobLocks>>
  BY StepOfTable
<1>4. Spec => []IInv
  BY InitEstablishes, StepKeeps, PTL DEF Spec
<1> QED
  BY <1>1, <1>2, <1>3, <1>4, PTL DEF Spec, AsTable!TableSpec

=============================================================================
