------------------------ MODULE ManualRollbackProofs ------------------------
(***************************************************************************)
(* Proofs about the manual rollback, for every set of jobs and every bound *)
(* on faults and crashes.                                                  *)
(*                                                                         *)
(* One inductive invariant carries the three theorems.  Its parts up to    *)
(* VerifiedOK assume nothing about the host: somebody else may replace the *)
(* container or select another target, and a command may outlive its       *)
(* channel.  The last three parts are about a target that is alone.        *)
(*                                                                         *)
(* A lemma on the steps has one step per group of actions, in the order of *)
(* ManualRollback; an action that needs an argument of its own has its own *)
(* step.                                                                   *)
(***************************************************************************)
EXTENDS ManualRollback, SequenceTheorems, TLAPS

\* Container c exists and runs image i.
Runs(c, i) == c \in Containers /\ ImageOf(c) = i

\* A command is under way.
UpPC == {"up", "restore_up", "rec_up"}

\* The container of the update is there, with its image.
OriginOK == Runs(UpdateContainer, Updated)

\* The lock: at most one job is active, and control is somewhere exactly as long as one
\* is.  A job has no outcome before it ends.
JobOK ==
    /\ \A j, k \in Jobs : Active(j) /\ Active(k) => j = k
    /\ pc # "idle" <=> \E j \in Jobs : Active(j)
    /\ \A j \in Jobs : state[j] = "absent" \/ Active(j) => outcome[j] = "none"

\* The journal says whether the replacement has begun.
StageOK ==
    /\ pc \in {"created", "validating"} => ~HasStage("rollback_started")
    /\ pc \notin {"idle", "pending", "created", "validating"} => HasStage("rollback_started")

\* The binding stays with the container of the update until a replacement is there.
UntouchedOK ==
    pc \in {"created", "validating", "rollback", "up", "resolve"} => binding = UpdateContainer

\* What a handler or a recovery is about to bind, to verify or to report is a container of
\* the right image.
HoldsOK ==
    /\ pc \in {"rebind", "health", "commit"} => Runs(rollbackId, Previous)
    /\ pc \in {"restore_rebind", "restore_health", "restore_commit",
               "rec_rebind", "rec_restore_health", "rec_commit"} => Runs(restored, Updated)
    /\ pc = "rec_health" => remoteId \in {UpdateContainer} \cup ProvenRestore \cup ProvenRollback

\* The target is bound to what is verified and reported.
BoundOK ==
    /\ pc \in {"health", "commit"} => binding = rollbackId
    /\ pc \in {"restore_health", "restore_commit", "rec_restore_health", "rec_commit"} =>
           binding = restored
    /\ pc = "rec_health" => binding = remoteId

\* The health check is in the journal before the verdict.
VerifiedOK ==
    /\ pc = "commit" =>
           [stage |-> "rollback_health_verified", container |-> rollbackId] \in journal
    /\ pc = "restore_commit" =>
           [stage |-> "restore_health_verified", container |-> restored] \in journal
    /\ pc = "rec_commit" =>
           [stage |-> "recovery_restore_health_verified", container |-> restored] \in journal

\* A target that is alone: nobody selects, and a command runs only while it is awaited.
AloneOK ==
    alone => /\ foreign = 0 /\ discovered = 0
             /\ \A c \in commands : c.awaited
             /\ commands # {} => pc \in UpPC

\* The service still consists of the container that was created last for the job.
HeadOK ==
    alone => /\ pc \in {"rebind", "health", "commit"} => current = rollbackId
             /\ pc \in {"restore_rebind", "restore_health", "restore_commit",
                        "rec_rebind", "rec_restore_health", "rec_commit"} => current = restored

\* While the service is not being replaced the target is bound to it, unless a job has
\* ended without knowing.
FollowsOK ==
    /\ alone /\ ~InReplacement
    /\ \A j \in Jobs : outcome[j] # "rollback_failed_restore_failed"
    => binding = current

\* The inductive invariant.
IInv ==
    /\ TypeOK /\ OriginOK /\ JobOK /\ JournalProvesImages /\ StageOK /\ UntouchedOK
    /\ HoldsOK /\ BoundOK /\ VerifiedOK
    /\ AloneOK /\ HeadOK /\ FollowsOK

-----------------------------------------------------------------------------
(* Containers and the journal.                                             *)

\* The service consists of a container that exists, and every container has an image.
LEMMA CurrentExists ==
    ASSUME IInv
    PROVE  /\ current \in Containers /\ UpdateContainer \in Containers /\ 0 \notin Containers
           /\ \A c \in Containers : ImageOf(c) \in {Previous, Updated}
<1>1. created \in Seq({Previous, Updated}) /\ UpdateContainer \in Containers
  BY DEF IInv, TypeOK, OriginOK, Runs
<1>2. Len(created) \in Nat /\ Len(created) # 0
  BY <1>1 DEF Containers, UpdateContainer
<1>3. \A c \in Containers : ImageOf(c) \in {Previous, Updated}
  BY <1>1, ElementOfSeq DEF Containers, ImageOf
<1> QED
  BY <1>1, <1>2, <1>3 DEF Containers, current

\* An `up` adds a container of the image it was issued for, and the service consists of it.
LEMMA UpCreates ==
    ASSUME IInv, NEW c \in commands, RemoteUp(c)
    PROVE  /\ created' \in Seq({Previous, Updated})
           /\ Containers \subseteq Containers'
           /\ \A d \in Containers : ImageOf(d)' = ImageOf(d)
  BY DEF RemoteUp, IInv, TypeOK, Containers, ImageOf, current

\* Only a remote command changes the containers, and nothing changes what the host is like.
HostStays == alone' = alone /\ (created' = created \/ \E c \in commands : RemoteUp(c))

\* So it is in every step.
LEMMA CreatedStays == ASSUME [Next]_vars PROVE HostStays
<1> USE DEF remoteVars, dbVars, Finish, HostStays
<1>1. ASSUME NEW c \in commands, RemoteUp(c) PROVE HostStays
  BY <1>1 DEF RemoteUp
<1>2. CASE Discover \/ SaveSelection
  BY <1>2 DEF Discover, SaveSelection
<1>3. ASSUME NEW j \in Jobs, Execute(j) PROVE HostStays
  BY <1>3 DEF Execute
<1>4. CASE ExecuteStep
  <2>1. ASSUME NEW j \in Jobs, Start(j) \/ ValidationFailed(j) PROVE HostStays
    BY <2>1 DEF Start, ValidationFailed
  <2>2. CASE Validated \/ RollbackUp
    BY <2>2 DEF Validated, RollbackUp
  <2>3. CASE RollbackCreated
    BY <2>3 DEF RollbackCreated
  <2>4. CASE RollbackRebound \/ RollbackHealthy
    BY <2>4 DEF RollbackRebound, RollbackHealthy
  <2>5. ASSUME NEW j \in Jobs, RolledBack(j) PROVE HostStays
    BY <2>5 DEF RolledBack
  <2>6. CASE RollbackFailed
    BY <2>6 DEF RollbackFailed
  <2>7. CASE RollbackUnusable
    BY <2>7 DEF RollbackUnusable, BeginRestore
  <2>8. ASSUME NEW j \in Jobs, ResolvedUnchanged(j) \/ ResolveFailed(j) PROVE HostStays
    BY <2>8 DEF ResolvedUnchanged, ResolveFailed
  <2>9. CASE ResolvedOther
    BY <2>9 DEF ResolvedOther, BeginRestore
  <2>10. CASE RestoreUp \/ RestoreCreated
    BY <2>10 DEF RestoreUp, RestoreCreated
  <2>11. CASE RestoreRebound \/ RestoreHealthy
    BY <2>11 DEF RestoreRebound, RestoreHealthy
  <2>12. CASE RestoreFailed
    BY <2>12 DEF RestoreFailed
  <2>13. CASE AdoptResolved
    BY <2>13 DEF AdoptResolved
  <2>14. ASSUME NEW j \in Jobs, CurrentRestored(j) \/ RestoreAbandoned(j) PROVE HostStays
    BY <2>14 DEF CurrentRestored, RestoreAbandoned
  <2> QED
    BY <1>4, <2>1, <2>2, <2>3, <2>4, <2>5, <2>6, <2>7, <2>8, <2>9, <2>10, <2>11, <2>12, <2>13,
       <2>14 DEF ExecuteStep
<1>5. CASE RecoveryStep
  <2>1. ASSUME NEW j \in Jobs, RecoverBeforeMutation(j) \/ RecoverySettled(j) \/ RecoveryRestored(j)
        PROVE  HostStays
    BY <2>1 DEF RecoverBeforeMutation, RecoverySettled, RecoveryRestored
  <2>2. CASE RecoverStart \/ RecoveryResolve
    BY <2>2 DEF RecoverStart, RecoveryResolve
  <2>3. CASE RecoveryUnprepared
    BY <2>3 DEF RecoveryUnprepared, Die
  <2>4. CASE RecoverySettle
    BY <2>4 DEF RecoverySettle
  <2>5. CASE RecoveryBeginRestore
    BY <2>5 DEF RecoveryBeginRestore
  <2>6. CASE RecoveryUp \/ RecoveryCreated
    BY <2>6 DEF RecoveryUp, RecoveryCreated
  <2>7. CASE RecoveryRebound \/ RecoveryHealthy
    BY <2>7 DEF RecoveryRebound, RecoveryHealthy
  <2>8. CASE StartupBlocked
    BY <2>8 DEF StartupBlocked, Die
  <2> QED
    BY <1>5, <2>1, <2>2, <2>3, <2>4, <2>5, <2>6, <2>7, <2>8 DEF RecoveryStep
<1>6. CASE Crash \/ Restart \/ Listen
  BY <1>6 DEF Crash, Die, Restart, Listen
<1>7. CASE UNCHANGED vars
  BY <1>7 DEF vars
<1> QED
  BY <1>1, <1>2, <1>3, <1>4, <1>5, <1>6, <1>7 DEF Next

\* A container that exists stays, with its image.
LEMMA ContainersStay ==
    ASSUME IInv, [Next]_vars
    PROVE  Containers \subseteq Containers' /\ \A c \in Containers : ImageOf(c)' = ImageOf(c)
<1>1. CASE \E c \in commands : RemoteUp(c)
  BY <1>1, UpCreates
<1>2. CASE created' = created
  BY <1>2 DEF Containers, ImageOf
<1> QED
  BY <1>1, <1>2, CreatedStays DEF HostStays

\* The container of the update stays.
LEMMA OriginStep == ASSUME IInv, [Next]_vars PROVE OriginOK'
  BY ContainersStay DEF IInv, OriginOK, Runs

\* Every step keeps jobs and control in agreement.
LEMMA JobStep == ASSUME IInv, [Next]_vars PROVE JobOK'
<1>a. /\ state \in [Jobs -> JobState \cup {"absent"}]
      /\ outcome \in [Jobs -> Outcome \cup {"none"}]
  BY DEF IInv, TypeOK
<1> USE <1>a DEF dbVars, processVars, remoteVars, Goto, Journaled, Finish, IInv, JobOK,
           Active, ACTIVE_STATES
<1>1. ASSUME NEW c \in commands, RemoteUp(c) PROVE JobOK'
  BY <1>1 DEF RemoteUp
<1>2. CASE Discover \/ SaveSelection
  BY <1>2 DEF Discover, SaveSelection
<1>3. ASSUME NEW j \in Jobs, Execute(j) PROVE JobOK'
  BY <1>3 DEF Execute
<1>4. CASE ExecuteStep
  <2>1. ASSUME NEW j \in Jobs, Start(j) \/ ValidationFailed(j) PROVE JobOK'
    BY <2>1 DEF Start, ValidationFailed
  <2>2. CASE Validated \/ RollbackUp
    BY <2>2 DEF Validated, RollbackUp
  <2>3. CASE RollbackCreated
    BY <2>3 DEF RollbackCreated
  <2>4. CASE RollbackRebound \/ RollbackHealthy
    BY <2>4 DEF RollbackRebound, RollbackHealthy
  <2>5. ASSUME NEW j \in Jobs, RolledBack(j) PROVE JobOK'
    BY <2>5 DEF RolledBack
  <2>6. CASE RollbackFailed
    BY <2>6 DEF RollbackFailed
  <2>7. CASE RollbackUnusable
    BY <2>7 DEF RollbackUnusable, BeginRestore
  <2>8. ASSUME NEW j \in Jobs, ResolvedUnchanged(j) \/ ResolveFailed(j) PROVE JobOK'
    BY <2>8 DEF ResolvedUnchanged, ResolveFailed
  <2>9. CASE ResolvedOther
    BY <2>9 DEF ResolvedOther, BeginRestore
  <2>10. CASE RestoreUp \/ RestoreCreated
    BY <2>10 DEF RestoreUp, RestoreCreated
  <2>11. CASE RestoreRebound \/ RestoreHealthy
    BY <2>11 DEF RestoreRebound, RestoreHealthy
  <2>12. CASE RestoreFailed
    BY <2>12 DEF RestoreFailed
  <2>13. CASE AdoptResolved
    BY <2>13 DEF AdoptResolved
  <2>14. ASSUME NEW j \in Jobs, CurrentRestored(j) \/ RestoreAbandoned(j) PROVE JobOK'
    BY <2>14 DEF CurrentRestored, RestoreAbandoned
  <2> QED
    BY <1>4, <2>1, <2>2, <2>3, <2>4, <2>5, <2>6, <2>7, <2>8, <2>9, <2>10, <2>11, <2>12, <2>13,
       <2>14 DEF ExecuteStep
<1>5. CASE RecoveryStep
  <2>1. ASSUME NEW j \in Jobs, RecoverBeforeMutation(j) \/ RecoverySettled(j) \/ RecoveryRestored(j)
        PROVE  JobOK'
    BY <2>1 DEF RecoverBeforeMutation, RecoverySettled, RecoveryRestored
  <2>2. CASE RecoverStart \/ RecoveryResolve
    BY <2>2 DEF RecoverStart, RecoveryResolve
  <2>3. CASE RecoveryUnprepared
    BY <2>3 DEF RecoveryUnprepared, Die
  <2>4. CASE RecoverySettle
    BY <2>4 DEF RecoverySettle
  <2>5. CASE RecoveryBeginRestore
    BY <2>5 DEF RecoveryBeginRestore
  <2>6. CASE RecoveryUp \/ RecoveryCreated
    BY <2>6 DEF RecoveryUp, RecoveryCreated
  <2>7. CASE RecoveryRebound \/ RecoveryHealthy
    BY <2>7 DEF RecoveryRebound, RecoveryHealthy
  <2>8. CASE StartupBlocked
    BY <2>8 DEF StartupBlocked, Die
  <2> QED
    BY <1>5, <2>1, <2>2, <2>3, <2>4, <2>5, <2>6, <2>7, <2>8 DEF RecoveryStep
<1>6. CASE Crash \/ Restart \/ Listen
  BY <1>6 DEF Crash, Die, Restart, Listen
<1>7. CASE UNCHANGED vars
  BY <1>7 DEF vars
<1> QED
  BY <1>1, <1>2, <1>3, <1>4, <1>5, <1>6, <1>7 DEF Next

\* Every step keeps control where the journal says.
LEMMA StageStep == ASSUME IInv, [Next]_vars PROVE StageOK'
<1> USE DEF dbVars, processVars, remoteVars, Goto, Journaled, Finish, IInv, StageOK, HasStage
<1>1. ASSUME NEW c \in commands, RemoteUp(c) PROVE StageOK'
  BY <1>1 DEF RemoteUp
<1>2. CASE Discover \/ SaveSelection
  BY <1>2 DEF Discover, SaveSelection
<1>3. ASSUME NEW j \in Jobs, Execute(j) PROVE StageOK'
  BY <1>3 DEF Execute
<1>4. CASE ExecuteStep
  <2>1. ASSUME NEW j \in Jobs, Start(j) \/ ValidationFailed(j) PROVE StageOK'
    BY <2>1 DEF Start, ValidationFailed
  <2>2. CASE Validated
    <3>1. [stage |-> "rollback_started", container |-> UpdateContainer] \in journal'
      BY <2>2 DEF Validated
    <3> QED
      BY <2>2, <3>1 DEF Validated
  <2>3. CASE RollbackUp
    BY <2>3 DEF RollbackUp
  <2>4. CASE RollbackCreated
    BY <2>4 DEF RollbackCreated
  <2>5. CASE RollbackRebound \/ RollbackHealthy
    BY <2>5 DEF RollbackRebound, RollbackHealthy
  <2>6. ASSUME NEW j \in Jobs, RolledBack(j) PROVE StageOK'
    BY <2>6 DEF RolledBack
  <2>7. CASE RollbackFailed
    BY <2>7 DEF RollbackFailed
  <2>8. CASE RollbackUnusable
    BY <2>8 DEF RollbackUnusable, BeginRestore
  <2>9. ASSUME NEW j \in Jobs, ResolvedUnchanged(j) \/ ResolveFailed(j) PROVE StageOK'
    BY <2>9 DEF ResolvedUnchanged, ResolveFailed
  <2>10. CASE ResolvedOther
    BY <2>10 DEF ResolvedOther, BeginRestore
  <2>11. CASE RestoreUp \/ RestoreCreated
    BY <2>11 DEF RestoreUp, RestoreCreated
  <2>12. CASE RestoreRebound \/ RestoreHealthy
    BY <2>12 DEF RestoreRebound, RestoreHealthy
  <2>13. CASE RestoreFailed
    BY <2>13 DEF RestoreFailed
  <2>14. CASE AdoptResolved
    BY <2>14 DEF AdoptResolved
  <2>15. ASSUME NEW j \in Jobs, CurrentRestored(j) \/ RestoreAbandoned(j) PROVE StageOK'
    BY <2>15 DEF CurrentRestored, RestoreAbandoned
  <2> QED
    BY <1>4, <2>1, <2>2, <2>3, <2>4, <2>5, <2>6, <2>7, <2>8, <2>9, <2>10, <2>11, <2>12, <2>13,
       <2>14, <2>15 DEF ExecuteStep
<1>5. CASE RecoveryStep
  <2>1. ASSUME NEW j \in Jobs, RecoverBeforeMutation(j) \/ RecoverySettled(j) \/ RecoveryRestored(j)
        PROVE  StageOK'
    BY <2>1 DEF RecoverBeforeMutation, RecoverySettled, RecoveryRestored
  <2>2. CASE RecoverStart \/ RecoveryResolve
    BY <2>2 DEF RecoverStart, RecoveryResolve
  <2>3. CASE RecoveryUnprepared
    BY <2>3 DEF RecoveryUnprepared, Die
  <2>4. CASE RecoverySettle
    BY <2>4 DEF RecoverySettle
  <2>5. CASE RecoveryBeginRestore
    BY <2>5 DEF RecoveryBeginRestore
  <2>6. CASE RecoveryUp \/ RecoveryCreated
    BY <2>6 DEF RecoveryUp, RecoveryCreated
  <2>7. CASE RecoveryRebound \/ RecoveryHealthy
    BY <2>7 DEF RecoveryRebound, RecoveryHealthy
  <2>8. CASE StartupBlocked
    BY <2>8 DEF StartupBlocked, Die
  <2> QED
    BY <1>5, <2>1, <2>2, <2>3, <2>4, <2>5, <2>6, <2>7, <2>8 DEF RecoveryStep
<1>6. CASE Crash \/ Restart \/ Listen
  BY <1>6 DEF Crash, Die, Restart, Listen
<1>7. CASE UNCHANGED vars
  BY <1>7 DEF vars
<1> QED
  BY <1>1, <1>2, <1>3, <1>4, <1>5, <1>6, <1>7 DEF Next

\* Every step that moves the binding has a replacement for it.
LEMMA UntouchedStep == ASSUME IInv, [Next]_vars PROVE UntouchedOK'
<1> USE DEF dbVars, processVars, remoteVars, Goto, Journaled, Finish, IInv, UntouchedOK,
           CandidateAvailable, Prepared
<1>1. ASSUME NEW c \in commands, RemoteUp(c) PROVE UntouchedOK'
  BY <1>1 DEF RemoteUp
<1>2. CASE Discover \/ SaveSelection
  BY <1>2 DEF Discover, SaveSelection
<1>3. ASSUME NEW j \in Jobs, Execute(j) PROVE UntouchedOK'
  BY <1>3 DEF Execute
<1>4. CASE ExecuteStep
  <2>1. ASSUME NEW j \in Jobs, Start(j) \/ ValidationFailed(j) PROVE UntouchedOK'
    BY <2>1 DEF Start, ValidationFailed
  <2>2. CASE Validated \/ RollbackUp
    BY <2>2 DEF Validated, RollbackUp
  <2>3. CASE RollbackCreated
    BY <2>3 DEF RollbackCreated
  <2>4. CASE RollbackRebound \/ RollbackHealthy
    BY <2>4 DEF RollbackRebound, RollbackHealthy
  <2>5. ASSUME NEW j \in Jobs, RolledBack(j) PROVE UntouchedOK'
    BY <2>5 DEF RolledBack
  <2>6. CASE RollbackFailed
    BY <2>6 DEF RollbackFailed
  <2>7. CASE RollbackUnusable
    BY <2>7 DEF RollbackUnusable, BeginRestore
  <2>8. ASSUME NEW j \in Jobs, ResolvedUnchanged(j) \/ ResolveFailed(j) PROVE UntouchedOK'
    BY <2>8 DEF ResolvedUnchanged, ResolveFailed
  <2>9. CASE ResolvedOther
    BY <2>9 DEF ResolvedOther, BeginRestore
  <2>10. CASE RestoreUp \/ RestoreCreated
    BY <2>10 DEF RestoreUp, RestoreCreated
  <2>11. CASE RestoreRebound \/ RestoreHealthy
    BY <2>11 DEF RestoreRebound, RestoreHealthy
  <2>12. CASE RestoreFailed
    BY <2>12 DEF RestoreFailed
  <2>13. CASE AdoptResolved
    BY <2>13 DEF AdoptResolved
  <2>14. ASSUME NEW j \in Jobs, CurrentRestored(j) \/ RestoreAbandoned(j) PROVE UntouchedOK'
    BY <2>14 DEF CurrentRestored, RestoreAbandoned
  <2> QED
    BY <1>4, <2>1, <2>2, <2>3, <2>4, <2>5, <2>6, <2>7, <2>8, <2>9, <2>10, <2>11, <2>12, <2>13,
       <2>14 DEF ExecuteStep
<1>5. CASE RecoveryStep
  <2>1. ASSUME NEW j \in Jobs, RecoverBeforeMutation(j) \/ RecoverySettled(j) \/ RecoveryRestored(j)
        PROVE  UntouchedOK'
    BY <2>1 DEF RecoverBeforeMutation, RecoverySettled, RecoveryRestored
  <2>2. CASE RecoverStart \/ RecoveryResolve
    BY <2>2 DEF RecoverStart, RecoveryResolve
  <2>3. CASE RecoveryUnprepared
    BY <2>3 DEF RecoveryUnprepared, Die
  <2>4. CASE RecoverySettle
    BY <2>4 DEF RecoverySettle
  <2>5. CASE RecoveryBeginRestore
    BY <2>5 DEF RecoveryBeginRestore
  <2>6. CASE RecoveryUp \/ RecoveryCreated
    BY <2>6 DEF RecoveryUp, RecoveryCreated
  <2>7. CASE RecoveryRebound \/ RecoveryHealthy
    BY <2>7 DEF RecoveryRebound, RecoveryHealthy
  <2>8. CASE StartupBlocked
    BY <2>8 DEF StartupBlocked, Die
  <2> QED
    BY <1>5, <2>1, <2>2, <2>3, <2>4, <2>5, <2>6, <2>7, <2>8 DEF RecoveryStep
<1>6. CASE Crash \/ Restart \/ Listen
  BY <1>6 DEF Crash, Die, Restart, Listen
<1>7. CASE UNCHANGED vars
  BY <1>7 DEF vars
<1> QED
  BY <1>1, <1>2, <1>3, <1>4, <1>5, <1>6, <1>7 DEF Next

\* Every step keeps what the journal proves.
LEMMA ProvenStep == ASSUME IInv, [Next]_vars PROVE JournalProvesImages'
<1>b. /\ current \in Containers /\ UpdateContainer \in Containers /\ 0 \notin Containers
      /\ Containers \subseteq Containers'
      /\ \A c \in Containers : ImageOf(c)' = ImageOf(c)
  BY CurrentExists, ContainersStay
<1> USE <1>b DEF dbVars, processVars, remoteVars, Goto, Journaled, Finish, IInv,
           JournalProvesImages, ProvenRollback, ProvenRestore, Proven, Recreated
<1>1. ASSUME NEW c \in commands, RemoteUp(c) PROVE JournalProvesImages'
  BY <1>1 DEF RemoteUp
<1>2. CASE Discover \/ SaveSelection
  BY <1>2 DEF Discover, SaveSelection
<1>3. ASSUME NEW j \in Jobs, Execute(j) PROVE JournalProvesImages'
  BY <1>3 DEF Execute
<1>4. CASE ExecuteStep
  <2>1. ASSUME NEW j \in Jobs, Start(j) \/ ValidationFailed(j) PROVE JournalProvesImages'
    BY <2>1 DEF Start, ValidationFailed
  <2>2. CASE Validated \/ RollbackUp
    BY <2>2 DEF Validated, RollbackUp
  <2>3. CASE RollbackCreated
    BY <2>3 DEF RollbackCreated
  <2>4. CASE RollbackRebound \/ RollbackHealthy
    BY <2>4 DEF RollbackRebound, RollbackHealthy
  <2>5. ASSUME NEW j \in Jobs, RolledBack(j) PROVE JournalProvesImages'
    BY <2>5 DEF RolledBack
  <2>6. CASE RollbackFailed
    BY <2>6 DEF RollbackFailed
  <2>7. CASE RollbackUnusable
    BY <2>7 DEF RollbackUnusable, BeginRestore
  <2>8. ASSUME NEW j \in Jobs, ResolvedUnchanged(j) \/ ResolveFailed(j) PROVE JournalProvesImages'
    BY <2>8 DEF ResolvedUnchanged, ResolveFailed
  <2>9. CASE ResolvedOther
    BY <2>9 DEF ResolvedOther, BeginRestore
  <2>10. CASE RestoreUp \/ RestoreCreated
    BY <2>10 DEF RestoreUp, RestoreCreated
  <2>11. CASE RestoreRebound \/ RestoreHealthy
    BY <2>11 DEF RestoreRebound, RestoreHealthy
  <2>12. CASE RestoreFailed
    BY <2>12 DEF RestoreFailed
  <2>13. CASE AdoptResolved
    BY <2>13 DEF AdoptResolved
  <2>14. ASSUME NEW j \in Jobs, CurrentRestored(j) \/ RestoreAbandoned(j) PROVE JournalProvesImages'
    BY <2>14 DEF CurrentRestored, RestoreAbandoned
  <2> QED
    BY <1>4, <2>1, <2>2, <2>3, <2>4, <2>5, <2>6, <2>7, <2>8, <2>9, <2>10, <2>11, <2>12, <2>13,
       <2>14 DEF ExecuteStep
<1>5. CASE RecoveryStep
  <2>1. ASSUME NEW j \in Jobs, RecoverBeforeMutation(j) \/ RecoverySettled(j) \/ RecoveryRestored(j)
        PROVE  JournalProvesImages'
    BY <2>1 DEF RecoverBeforeMutation, RecoverySettled, RecoveryRestored
  <2>2. CASE RecoverStart \/ RecoveryResolve
    BY <2>2 DEF RecoverStart, RecoveryResolve
  <2>3. CASE RecoveryUnprepared
    BY <2>3 DEF RecoveryUnprepared, Die
  <2>4. CASE RecoverySettle
    BY <2>4 DEF RecoverySettle
  <2>5. CASE RecoveryBeginRestore
    BY <2>5 DEF RecoveryBeginRestore
  <2>6. CASE RecoveryUp \/ RecoveryCreated
    BY <2>6 DEF RecoveryUp, RecoveryCreated
  <2>7. CASE RecoveryRebound \/ RecoveryHealthy
    BY <2>7 DEF RecoveryRebound, RecoveryHealthy
  <2>8. CASE StartupBlocked
    BY <2>8 DEF StartupBlocked, Die
  <2> QED
    BY <1>5, <2>1, <2>2, <2>3, <2>4, <2>5, <2>6, <2>7, <2>8 DEF RecoveryStep
<1>6. CASE Crash \/ Restart \/ Listen
  BY <1>6 DEF Crash, Die, Restart, Listen
<1>7. CASE UNCHANGED vars
  BY <1>7 DEF vars
<1> QED
  BY <1>1, <1>2, <1>3, <1>4, <1>5, <1>6, <1>7 DEF Next

\* Every step keeps the containers at hand of the right image.
LEMMA HoldsStep == ASSUME IInv, [Next]_vars PROVE HoldsOK'
<1>b. /\ current \in Containers /\ UpdateContainer \in Containers /\ 0 \notin Containers
      /\ Containers \subseteq Containers'
      /\ \A c \in Containers : ImageOf(c)' = ImageOf(c)
  BY CurrentExists, ContainersStay
<1> USE <1>b DEF dbVars, processVars, remoteVars, Goto, Journaled, Finish, IInv, HoldsOK,
           Runs, ProvenRollback, ProvenRestore, Proven, Recreated
<1>1. ASSUME NEW c \in commands, RemoteUp(c) PROVE HoldsOK'
  BY <1>1 DEF RemoteUp
<1>2. CASE Discover \/ SaveSelection
  BY <1>2 DEF Discover, SaveSelection
<1>3. ASSUME NEW j \in Jobs, Execute(j) PROVE HoldsOK'
  BY <1>3 DEF Execute
<1>4. CASE ExecuteStep
  <2>1. ASSUME NEW j \in Jobs, Start(j) \/ ValidationFailed(j) PROVE HoldsOK'
    BY <2>1 DEF Start, ValidationFailed
  <2>2. CASE Validated \/ RollbackUp
    BY <2>2 DEF Validated, RollbackUp
  <2>3. CASE RollbackCreated
    BY <2>3 DEF RollbackCreated
  <2>4. CASE RollbackRebound \/ RollbackHealthy
    BY <2>4 DEF RollbackRebound, RollbackHealthy
  <2>5. ASSUME NEW j \in Jobs, RolledBack(j) PROVE HoldsOK'
    BY <2>5 DEF RolledBack
  <2>6. CASE RollbackFailed
    BY <2>6 DEF RollbackFailed
  <2>7. CASE RollbackUnusable
    BY <2>7 DEF RollbackUnusable, BeginRestore
  <2>8. ASSUME NEW j \in Jobs, ResolvedUnchanged(j) \/ ResolveFailed(j) PROVE HoldsOK'
    BY <2>8 DEF ResolvedUnchanged, ResolveFailed
  <2>9. CASE ResolvedOther
    BY <2>9 DEF ResolvedOther, BeginRestore
  <2>10. CASE RestoreUp \/ RestoreCreated
    BY <2>10 DEF RestoreUp, RestoreCreated
  <2>11. CASE RestoreRebound \/ RestoreHealthy
    BY <2>11 DEF RestoreRebound, RestoreHealthy
  <2>12. CASE RestoreFailed
    BY <2>12 DEF RestoreFailed
  <2>13. CASE AdoptResolved
    BY <2>13 DEF AdoptResolved
  <2>14. ASSUME NEW j \in Jobs, CurrentRestored(j) \/ RestoreAbandoned(j) PROVE HoldsOK'
    BY <2>14 DEF CurrentRestored, RestoreAbandoned
  <2> QED
    BY <1>4, <2>1, <2>2, <2>3, <2>4, <2>5, <2>6, <2>7, <2>8, <2>9, <2>10, <2>11, <2>12, <2>13,
       <2>14 DEF ExecuteStep
<1>5. CASE RecoveryStep
  <2>1. ASSUME NEW j \in Jobs, RecoverBeforeMutation(j) \/ RecoverySettled(j) \/ RecoveryRestored(j)
        PROVE  HoldsOK'
    BY <2>1 DEF RecoverBeforeMutation, RecoverySettled, RecoveryRestored
  <2>2. CASE RecoverStart \/ RecoveryResolve
    BY <2>2 DEF RecoverStart, RecoveryResolve
  <2>3. CASE RecoveryUnprepared
    BY <2>3 DEF RecoveryUnprepared, Die
  <2>4. CASE RecoverySettle
    BY <2>4 DEF RecoverySettle
  <2>5. CASE RecoveryBeginRestore
    BY <2>5 DEF RecoveryBeginRestore
  <2>6. CASE RecoveryUp \/ RecoveryCreated
    BY <2>6 DEF RecoveryUp, RecoveryCreated
  <2>7. CASE RecoveryRebound \/ RecoveryHealthy
    BY <2>7 DEF RecoveryRebound, RecoveryHealthy
  <2>8. CASE StartupBlocked
    BY <2>8 DEF StartupBlocked, Die
  <2> QED
    BY <1>5, <2>1, <2>2, <2>3, <2>4, <2>5, <2>6, <2>7, <2>8 DEF RecoveryStep
<1>6. CASE Crash \/ Restart \/ Listen
  BY <1>6 DEF Crash, Die, Restart, Listen
<1>7. CASE UNCHANGED vars
  BY <1>7 DEF vars
<1> QED
  BY <1>1, <1>2, <1>3, <1>4, <1>5, <1>6, <1>7 DEF Next

\* Every step keeps the binding on what is verified.
LEMMA BoundStep == ASSUME IInv, [Next]_vars PROVE BoundOK'
<1> USE DEF dbVars, processVars, remoteVars, Goto, Journaled, Finish, IInv, BoundOK
<1>1. ASSUME NEW c \in commands, RemoteUp(c) PROVE BoundOK'
  BY <1>1 DEF RemoteUp
<1>2. CASE Discover \/ SaveSelection
  BY <1>2 DEF Discover, SaveSelection
<1>3. ASSUME NEW j \in Jobs, Execute(j) PROVE BoundOK'
  BY <1>3 DEF Execute
<1>4. CASE ExecuteStep
  <2>1. ASSUME NEW j \in Jobs, Start(j) \/ ValidationFailed(j) PROVE BoundOK'
    BY <2>1 DEF Start, ValidationFailed
  <2>2. CASE Validated \/ RollbackUp
    BY <2>2 DEF Validated, RollbackUp
  <2>3. CASE RollbackCreated
    BY <2>3 DEF RollbackCreated
  <2>4. CASE RollbackRebound \/ RollbackHealthy
    BY <2>4 DEF RollbackRebound, RollbackHealthy
  <2>5. ASSUME NEW j \in Jobs, RolledBack(j) PROVE BoundOK'
    BY <2>5 DEF RolledBack
  <2>6. CASE RollbackFailed
    BY <2>6 DEF RollbackFailed
  <2>7. CASE RollbackUnusable
    BY <2>7 DEF RollbackUnusable, BeginRestore
  <2>8. ASSUME NEW j \in Jobs, ResolvedUnchanged(j) \/ ResolveFailed(j) PROVE BoundOK'
    BY <2>8 DEF ResolvedUnchanged, ResolveFailed
  <2>9. CASE ResolvedOther
    BY <2>9 DEF ResolvedOther, BeginRestore
  <2>10. CASE RestoreUp \/ RestoreCreated
    BY <2>10 DEF RestoreUp, RestoreCreated
  <2>11. CASE RestoreRebound \/ RestoreHealthy
    BY <2>11 DEF RestoreRebound, RestoreHealthy
  <2>12. CASE RestoreFailed
    BY <2>12 DEF RestoreFailed
  <2>13. CASE AdoptResolved
    BY <2>13 DEF AdoptResolved
  <2>14. ASSUME NEW j \in Jobs, CurrentRestored(j) \/ RestoreAbandoned(j) PROVE BoundOK'
    BY <2>14 DEF CurrentRestored, RestoreAbandoned
  <2> QED
    BY <1>4, <2>1, <2>2, <2>3, <2>4, <2>5, <2>6, <2>7, <2>8, <2>9, <2>10, <2>11, <2>12, <2>13,
       <2>14 DEF ExecuteStep
<1>5. CASE RecoveryStep
  <2>1. ASSUME NEW j \in Jobs, RecoverBeforeMutation(j) \/ RecoverySettled(j) \/ RecoveryRestored(j)
        PROVE  BoundOK'
    BY <2>1 DEF RecoverBeforeMutation, RecoverySettled, RecoveryRestored
  <2>2. CASE RecoverStart \/ RecoveryResolve
    BY <2>2 DEF RecoverStart, RecoveryResolve
  <2>3. CASE RecoveryUnprepared
    BY <2>3 DEF RecoveryUnprepared, Die
  <2>4. CASE RecoverySettle
    BY <2>4 DEF RecoverySettle
  <2>5. CASE RecoveryBeginRestore
    BY <2>5 DEF RecoveryBeginRestore
  <2>6. CASE RecoveryUp \/ RecoveryCreated
    BY <2>6 DEF RecoveryUp, RecoveryCreated
  <2>7. CASE RecoveryRebound \/ RecoveryHealthy
    BY <2>7 DEF RecoveryRebound, RecoveryHealthy
  <2>8. CASE StartupBlocked
    BY <2>8 DEF StartupBlocked, Die
  <2> QED
    BY <1>5, <2>1, <2>2, <2>3, <2>4, <2>5, <2>6, <2>7, <2>8 DEF RecoveryStep
<1>6. CASE Crash \/ Restart \/ Listen
  BY <1>6 DEF Crash, Die, Restart, Listen
<1>7. CASE UNCHANGED vars
  BY <1>7 DEF vars
<1> QED
  BY <1>1, <1>2, <1>3, <1>4, <1>5, <1>6, <1>7 DEF Next

\* Every step keeps the evidence in the journal.
LEMMA VerifiedStep == ASSUME IInv, [Next]_vars PROVE VerifiedOK'
<1> USE DEF dbVars, processVars, remoteVars, Goto, Journaled, Finish, IInv, VerifiedOK
<1>1. ASSUME NEW c \in commands, RemoteUp(c) PROVE VerifiedOK'
  BY <1>1 DEF RemoteUp
<1>2. CASE Discover \/ SaveSelection
  BY <1>2 DEF Discover, SaveSelection
<1>3. ASSUME NEW j \in Jobs, Execute(j) PROVE VerifiedOK'
  BY <1>3 DEF Execute
<1>4. CASE ExecuteStep
  <2>1. ASSUME NEW j \in Jobs, Start(j) \/ ValidationFailed(j) PROVE VerifiedOK'
    BY <2>1 DEF Start, ValidationFailed
  <2>2. CASE Validated \/ RollbackUp
    BY <2>2 DEF Validated, RollbackUp
  <2>3. CASE RollbackCreated
    BY <2>3 DEF RollbackCreated
  <2>4. CASE RollbackRebound \/ RollbackHealthy
    BY <2>4 DEF RollbackRebound, RollbackHealthy
  <2>5. ASSUME NEW j \in Jobs, RolledBack(j) PROVE VerifiedOK'
    BY <2>5 DEF RolledBack
  <2>6. CASE RollbackFailed
    BY <2>6 DEF RollbackFailed
  <2>7. CASE RollbackUnusable
    BY <2>7 DEF RollbackUnusable, BeginRestore
  <2>8. ASSUME NEW j \in Jobs, ResolvedUnchanged(j) \/ ResolveFailed(j) PROVE VerifiedOK'
    BY <2>8 DEF ResolvedUnchanged, ResolveFailed
  <2>9. CASE ResolvedOther
    BY <2>9 DEF ResolvedOther, BeginRestore
  <2>10. CASE RestoreUp \/ RestoreCreated
    BY <2>10 DEF RestoreUp, RestoreCreated
  <2>11. CASE RestoreRebound \/ RestoreHealthy
    BY <2>11 DEF RestoreRebound, RestoreHealthy
  <2>12. CASE RestoreFailed
    BY <2>12 DEF RestoreFailed
  <2>13. CASE AdoptResolved
    BY <2>13 DEF AdoptResolved
  <2>14. ASSUME NEW j \in Jobs, CurrentRestored(j) \/ RestoreAbandoned(j) PROVE VerifiedOK'
    BY <2>14 DEF CurrentRestored, RestoreAbandoned
  <2> QED
    BY <1>4, <2>1, <2>2, <2>3, <2>4, <2>5, <2>6, <2>7, <2>8, <2>9, <2>10, <2>11, <2>12, <2>13,
       <2>14 DEF ExecuteStep
<1>5. CASE RecoveryStep
  <2>1. ASSUME NEW j \in Jobs, RecoverBeforeMutation(j) \/ RecoverySettled(j) \/ RecoveryRestored(j)
        PROVE  VerifiedOK'
    BY <2>1 DEF RecoverBeforeMutation, RecoverySettled, RecoveryRestored
  <2>2. CASE RecoverStart \/ RecoveryResolve
    BY <2>2 DEF RecoverStart, RecoveryResolve
  <2>3. CASE RecoveryUnprepared
    BY <2>3 DEF RecoveryUnprepared, Die
  <2>4. CASE RecoverySettle
    BY <2>4 DEF RecoverySettle
  <2>5. CASE RecoveryBeginRestore
    BY <2>5 DEF RecoveryBeginRestore
  <2>6. CASE RecoveryUp \/ RecoveryCreated
    BY <2>6 DEF RecoveryUp, RecoveryCreated
  <2>7. CASE RecoveryRebound \/ RecoveryHealthy
    BY <2>7 DEF RecoveryRebound, RecoveryHealthy
  <2>8. CASE StartupBlocked
    BY <2>8 DEF StartupBlocked, Die
  <2> QED
    BY <1>5, <2>1, <2>2, <2>3, <2>4, <2>5, <2>6, <2>7, <2>8 DEF RecoveryStep
<1>6. CASE Crash \/ Restart \/ Listen
  BY <1>6 DEF Crash, Die, Restart, Listen
<1>7. CASE UNCHANGED vars
  BY <1>7 DEF vars
<1> QED
  BY <1>1, <1>2, <1>3, <1>4, <1>5, <1>6, <1>7 DEF Next

\* Every step leaves the service to a target that is alone.
LEMMA AloneStep == ASSUME IInv, [Next]_vars PROVE AloneOK'
<1> USE DEF dbVars, processVars, remoteVars, Goto, Journaled, Finish, IInv, AloneOK, UpPC,
           Awaited, Abandon, IssueUp
<1>1. ASSUME NEW c \in commands, RemoteUp(c) PROVE AloneOK'
  BY <1>1 DEF RemoteUp
<1>2. CASE Discover \/ SaveSelection
  BY <1>2 DEF Discover, SaveSelection
<1>3. ASSUME NEW j \in Jobs, Execute(j) PROVE AloneOK'
  BY <1>3 DEF Execute
<1>4. CASE ExecuteStep
  <2>1. ASSUME NEW j \in Jobs, Start(j) \/ ValidationFailed(j) PROVE AloneOK'
    BY <2>1 DEF Start, ValidationFailed
  <2>2. CASE Validated
    BY <2>2 DEF Validated
  <2>3. CASE RollbackUp
    BY <2>3 DEF RollbackUp
  <2>4. CASE RollbackCreated
    BY <2>4 DEF RollbackCreated
  <2>5. CASE RollbackRebound \/ RollbackHealthy
    BY <2>5 DEF RollbackRebound, RollbackHealthy
  <2>6. ASSUME NEW j \in Jobs, RolledBack(j) PROVE AloneOK'
    BY <2>6 DEF RolledBack
  <2>7. CASE RollbackFailed
    BY <2>7 DEF RollbackFailed
  <2>8. CASE RollbackUnusable
    BY <2>8 DEF RollbackUnusable, BeginRestore
  <2>9. ASSUME NEW j \in Jobs, ResolvedUnchanged(j) \/ ResolveFailed(j) PROVE AloneOK'
    BY <2>9 DEF ResolvedUnchanged, ResolveFailed
  <2>10. CASE ResolvedOther
    BY <2>10 DEF ResolvedOther, BeginRestore
  <2>11. CASE RestoreUp
    BY <2>11 DEF RestoreUp
  <2>12. CASE RestoreCreated
    BY <2>12 DEF RestoreCreated
  <2>13. CASE RestoreRebound \/ RestoreHealthy
    BY <2>13 DEF RestoreRebound, RestoreHealthy
  <2>14. CASE RestoreFailed
    BY <2>14 DEF RestoreFailed
  <2>15. CASE AdoptResolved
    BY <2>15 DEF AdoptResolved
  <2>16. ASSUME NEW j \in Jobs, CurrentRestored(j) \/ RestoreAbandoned(j) PROVE AloneOK'
    BY <2>16 DEF CurrentRestored, RestoreAbandoned
  <2> QED
    BY <1>4, <2>1, <2>2, <2>3, <2>4, <2>5, <2>6, <2>7, <2>8, <2>9, <2>10, <2>11, <2>12, <2>13,
       <2>14, <2>15, <2>16 DEF ExecuteStep
<1>5. CASE RecoveryStep
  <2>1. ASSUME NEW j \in Jobs, RecoverBeforeMutation(j) \/ RecoverySettled(j) \/ RecoveryRestored(j)
        PROVE  AloneOK'
    BY <2>1 DEF RecoverBeforeMutation, RecoverySettled, RecoveryRestored
  <2>2. CASE RecoverStart \/ RecoveryResolve
    BY <2>2 DEF RecoverStart, RecoveryResolve
  <2>3. CASE RecoveryUnprepared
    BY <2>3 DEF RecoveryUnprepared, Die
  <2>4. CASE RecoverySettle
    BY <2>4 DEF RecoverySettle
  <2>5. CASE RecoveryBeginRestore
    BY <2>5 DEF RecoveryBeginRestore
  <2>6. CASE RecoveryUp
    BY <2>6 DEF RecoveryUp
  <2>7. CASE RecoveryCreated
    BY <2>7 DEF RecoveryCreated
  <2>8. CASE RecoveryRebound \/ RecoveryHealthy
    BY <2>8 DEF RecoveryRebound, RecoveryHealthy
  <2>9. CASE StartupBlocked
    BY <2>9 DEF StartupBlocked, Die
  <2> QED
    BY <1>5, <2>1, <2>2, <2>3, <2>4, <2>5, <2>6, <2>7, <2>8, <2>9 DEF RecoveryStep
<1>6. CASE Crash \/ Restart \/ Listen
  BY <1>6 DEF Crash, Die, Restart, Listen
<1>7. CASE UNCHANGED vars
  BY <1>7 DEF vars
<1> QED
  BY <1>1, <1>2, <1>3, <1>4, <1>5, <1>6, <1>7 DEF Next

\* Every step keeps the service with the container at hand.
LEMMA HeadStep == ASSUME IInv, [Next]_vars PROVE HeadOK'
<1> USE DEF dbVars, processVars, remoteVars, Goto, Journaled, Finish, IInv, HeadOK, AloneOK,
           UpPC, current
<1>1. ASSUME NEW c \in commands, RemoteUp(c) PROVE HeadOK'
  BY <1>1 DEF RemoteUp
<1>2. CASE Discover \/ SaveSelection
  BY <1>2 DEF Discover, SaveSelection
<1>3. ASSUME NEW j \in Jobs, Execute(j) PROVE HeadOK'
  BY <1>3 DEF Execute
<1>4. CASE ExecuteStep
  <2>1. ASSUME NEW j \in Jobs, Start(j) \/ ValidationFailed(j) PROVE HeadOK'
    BY <2>1 DEF Start, ValidationFailed
  <2>2. CASE Validated \/ RollbackUp
    BY <2>2 DEF Validated, RollbackUp
  <2>3. CASE RollbackCreated
    BY <2>3 DEF RollbackCreated
  <2>4. CASE RollbackRebound \/ RollbackHealthy
    BY <2>4 DEF RollbackRebound, RollbackHealthy
  <2>5. ASSUME NEW j \in Jobs, RolledBack(j) PROVE HeadOK'
    BY <2>5 DEF RolledBack
  <2>6. CASE RollbackFailed
    BY <2>6 DEF RollbackFailed
  <2>7. CASE RollbackUnusable
    BY <2>7 DEF RollbackUnusable, BeginRestore
  <2>8. ASSUME NEW j \in Jobs, ResolvedUnchanged(j) \/ ResolveFailed(j) PROVE HeadOK'
    BY <2>8 DEF ResolvedUnchanged, ResolveFailed
  <2>9. CASE ResolvedOther
    BY <2>9 DEF ResolvedOther, BeginRestore
  <2>10. CASE RestoreUp \/ RestoreCreated
    BY <2>10 DEF RestoreUp, RestoreCreated
  <2>11. CASE RestoreRebound \/ RestoreHealthy
    BY <2>11 DEF RestoreRebound, RestoreHealthy
  <2>12. CASE RestoreFailed
    BY <2>12 DEF RestoreFailed
  <2>13. CASE AdoptResolved
    BY <2>13 DEF AdoptResolved
  <2>14. ASSUME NEW j \in Jobs, CurrentRestored(j) \/ RestoreAbandoned(j) PROVE HeadOK'
    BY <2>14 DEF CurrentRestored, RestoreAbandoned
  <2> QED
    BY <1>4, <2>1, <2>2, <2>3, <2>4, <2>5, <2>6, <2>7, <2>8, <2>9, <2>10, <2>11, <2>12, <2>13,
       <2>14 DEF ExecuteStep
<1>5. CASE RecoveryStep
  <2>1. ASSUME NEW j \in Jobs, RecoverBeforeMutation(j) \/ RecoverySettled(j) \/ RecoveryRestored(j)
        PROVE  HeadOK'
    BY <2>1 DEF RecoverBeforeMutation, RecoverySettled, RecoveryRestored
  <2>2. CASE RecoverStart \/ RecoveryResolve
    BY <2>2 DEF RecoverStart, RecoveryResolve
  <2>3. CASE RecoveryUnprepared
    BY <2>3 DEF RecoveryUnprepared, Die
  <2>4. CASE RecoverySettle
    BY <2>4 DEF RecoverySettle
  <2>5. CASE RecoveryBeginRestore
    BY <2>5 DEF RecoveryBeginRestore
  <2>6. CASE RecoveryUp \/ RecoveryCreated
    BY <2>6 DEF RecoveryUp, RecoveryCreated
  <2>7. CASE RecoveryRebound \/ RecoveryHealthy
    BY <2>7 DEF RecoveryRebound, RecoveryHealthy
  <2>8. CASE StartupBlocked
    BY <2>8 DEF StartupBlocked, Die
  <2> QED
    BY <1>5, <2>1, <2>2, <2>3, <2>4, <2>5, <2>6, <2>7, <2>8 DEF RecoveryStep
<1>6. CASE Crash \/ Restart \/ Listen
  BY <1>6 DEF Crash, Die, Restart, Listen
<1>7. CASE UNCHANGED vars
  BY <1>7 DEF vars
<1> QED
  BY <1>1, <1>2, <1>3, <1>4, <1>5, <1>6, <1>7 DEF Next

\* Every step that ends a job leaves the target bound to the service.
LEMMA FollowsStep == ASSUME IInv, [Next]_vars PROVE FollowsOK'
<1>a. /\ state \in [Jobs -> JobState \cup {"absent"}]
      /\ outcome \in [Jobs -> Outcome \cup {"none"}]
  BY DEF IInv, TypeOK
<1> USE <1>a DEF dbVars, processVars, remoteVars, Goto, Journaled, Finish, IInv, FollowsOK,
           InReplacement, HasStage, Active, ACTIVE_STATES, AloneOK, HeadOK, BoundOK,
           UntouchedOK, StageOK, UpPC, current, JobOK
<1>1. ASSUME NEW c \in commands, RemoteUp(c) PROVE FollowsOK'
  BY <1>1 DEF RemoteUp
<1>2. CASE Discover \/ SaveSelection
  BY <1>2 DEF Discover, SaveSelection
<1>3. ASSUME NEW j \in Jobs, Execute(j) PROVE FollowsOK'
  BY <1>3 DEF Execute
<1>4. CASE ExecuteStep
  <2>1. ASSUME NEW j \in Jobs, Start(j) \/ ValidationFailed(j) PROVE FollowsOK'
    BY <2>1 DEF Start, ValidationFailed
  <2>2. CASE Validated \/ RollbackUp
    BY <2>2 DEF Validated, RollbackUp
  <2>3. CASE RollbackCreated
    BY <2>3 DEF RollbackCreated
  <2>4. CASE RollbackRebound \/ RollbackHealthy
    BY <2>4 DEF RollbackRebound, RollbackHealthy
  <2>5. ASSUME NEW j \in Jobs, RolledBack(j) PROVE FollowsOK'
    BY <2>5 DEF RolledBack
  <2>6. CASE RollbackFailed
    BY <2>6 DEF RollbackFailed
  <2>7. CASE RollbackUnusable
    BY <2>7 DEF RollbackUnusable, BeginRestore
  <2>8. ASSUME NEW j \in Jobs, ResolvedUnchanged(j) \/ ResolveFailed(j) PROVE FollowsOK'
    BY <2>8 DEF ResolvedUnchanged, ResolveFailed
  <2>9. CASE ResolvedOther
    BY <2>9 DEF ResolvedOther, BeginRestore
  <2>10. CASE RestoreUp \/ RestoreCreated
    BY <2>10 DEF RestoreUp, RestoreCreated
  <2>11. CASE RestoreRebound \/ RestoreHealthy
    BY <2>11 DEF RestoreRebound, RestoreHealthy
  <2>12. CASE RestoreFailed
    BY <2>12 DEF RestoreFailed
  <2>13. CASE AdoptResolved
    BY <2>13 DEF AdoptResolved
  <2>14. ASSUME NEW j \in Jobs, CurrentRestored(j) \/ RestoreAbandoned(j) PROVE FollowsOK'
    BY <2>14 DEF CurrentRestored, RestoreAbandoned
  <2> QED
    BY <1>4, <2>1, <2>2, <2>3, <2>4, <2>5, <2>6, <2>7, <2>8, <2>9, <2>10, <2>11, <2>12, <2>13,
       <2>14 DEF ExecuteStep
<1>5. CASE RecoveryStep
  <2>1. ASSUME NEW j \in Jobs, RecoverBeforeMutation(j) \/ RecoverySettled(j) \/ RecoveryRestored(j)
        PROVE  FollowsOK'
    BY <2>1 DEF RecoverBeforeMutation, RecoverySettled, RecoveryRestored
  <2>2. CASE RecoverStart \/ RecoveryResolve
    BY <2>2 DEF RecoverStart, RecoveryResolve
  <2>3. CASE RecoveryUnprepared
    BY <2>3 DEF RecoveryUnprepared, Die
  <2>4. CASE RecoverySettle
    BY <2>4 DEF RecoverySettle
  <2>5. CASE RecoveryBeginRestore
    BY <2>5 DEF RecoveryBeginRestore
  <2>6. CASE RecoveryUp \/ RecoveryCreated
    BY <2>6 DEF RecoveryUp, RecoveryCreated
  <2>7. CASE RecoveryRebound \/ RecoveryHealthy
    BY <2>7 DEF RecoveryRebound, RecoveryHealthy
  <2>8. CASE StartupBlocked
    BY <2>8 DEF StartupBlocked, Die
  <2> QED
    BY <1>5, <2>1, <2>2, <2>3, <2>4, <2>5, <2>6, <2>7, <2>8 DEF RecoveryStep
<1>6. CASE Crash \/ Restart \/ Listen
  BY <1>6 DEF Crash, Die, Restart, Listen
<1>7. CASE UNCHANGED vars
  BY <1>7 DEF vars
<1> QED
  BY <1>1, <1>2, <1>3, <1>4, <1>5, <1>6, <1>7 DEF Next

\* The variables of the database, the process and the host, in the order of TypeOK.
RowsOK ==
    /\ state \in [Jobs -> JobState \cup {"absent"}]
    /\ outcome \in [Jobs -> Outcome \cup {"none"}]
    /\ faults \in Nat /\ crashes \in Nat

JournalTypeOK == journal \subseteq [stage : StageName, container : {0} \cup Containers]

LocalsOK ==
    /\ binding \in Containers /\ foreign \in {0} \cup Containers
    /\ {rollbackId, remoteId, restored, discovered} \subseteq {0} \cup Containers

ControlOK ==
    /\ alone \in BOOLEAN /\ server \in {"down", "recovering", "up"}
    /\ pc \in BusyPC \cup AwaitPC \cup {"idle", "pending"}

CommandsOK == commands \subseteq [image : {Previous, Updated}, awaited : BOOLEAN]

\* Every step keeps the types of the rows.
LEMMA RowsStep == ASSUME IInv, [Next]_vars PROVE RowsOK'
<1> USE DEF dbVars, processVars, remoteVars, Goto, Journaled, Finish, IInv, TypeOK, RowsOK,
           FailsBecause, JobState, Outcome, RolledBackOutcome, RestoredOutcome
<1>1. ASSUME NEW c \in commands, RemoteUp(c) PROVE RowsOK'
  BY <1>1 DEF RemoteUp
<1>2. CASE Discover \/ SaveSelection
  BY <1>2 DEF Discover, SaveSelection
<1>3. ASSUME NEW j \in Jobs, Execute(j) PROVE RowsOK'
  BY <1>3 DEF Execute
<1>4. CASE ExecuteStep
  <2>1. ASSUME NEW j \in Jobs, Start(j) \/ ValidationFailed(j) PROVE RowsOK'
    BY <2>1 DEF Start, ValidationFailed
  <2>2. CASE Validated \/ RollbackUp
    BY <2>2 DEF Validated, RollbackUp
  <2>3. CASE RollbackCreated
    BY <2>3 DEF RollbackCreated
  <2>4. CASE RollbackRebound \/ RollbackHealthy
    BY <2>4 DEF RollbackRebound, RollbackHealthy
  <2>5. ASSUME NEW j \in Jobs, RolledBack(j) PROVE RowsOK'
    BY <2>5 DEF RolledBack
  <2>6. CASE RollbackFailed
    BY <2>6 DEF RollbackFailed
  <2>7. CASE RollbackUnusable
    BY <2>7 DEF RollbackUnusable, BeginRestore
  <2>8. ASSUME NEW j \in Jobs, ResolvedUnchanged(j) \/ ResolveFailed(j) PROVE RowsOK'
    BY <2>8 DEF ResolvedUnchanged, ResolveFailed
  <2>9. CASE ResolvedOther
    BY <2>9 DEF ResolvedOther, BeginRestore
  <2>10. CASE RestoreUp \/ RestoreCreated
    BY <2>10 DEF RestoreUp, RestoreCreated
  <2>11. CASE RestoreRebound \/ RestoreHealthy
    BY <2>11 DEF RestoreRebound, RestoreHealthy
  <2>12. CASE RestoreFailed
    BY <2>12 DEF RestoreFailed
  <2>13. CASE AdoptResolved
    BY <2>13 DEF AdoptResolved
  <2>14. ASSUME NEW j \in Jobs, CurrentRestored(j) \/ RestoreAbandoned(j) PROVE RowsOK'
    BY <2>14 DEF CurrentRestored, RestoreAbandoned
  <2> QED
    BY <1>4, <2>1, <2>2, <2>3, <2>4, <2>5, <2>6, <2>7, <2>8, <2>9, <2>10, <2>11, <2>12, <2>13,
       <2>14 DEF ExecuteStep
<1>5. CASE RecoveryStep
  <2>1. ASSUME NEW j \in Jobs, RecoverBeforeMutation(j) \/ RecoverySettled(j) \/ RecoveryRestored(j)
        PROVE  RowsOK'
    BY <2>1 DEF RecoverBeforeMutation, RecoverySettled, RecoveryRestored
  <2>2. CASE RecoverStart \/ RecoveryResolve
    BY <2>2 DEF RecoverStart, RecoveryResolve
  <2>3. CASE RecoveryUnprepared
    BY <2>3 DEF RecoveryUnprepared, Die
  <2>4. CASE RecoverySettle
    BY <2>4 DEF RecoverySettle
  <2>5. CASE RecoveryBeginRestore
    BY <2>5 DEF RecoveryBeginRestore
  <2>6. CASE RecoveryUp \/ RecoveryCreated
    BY <2>6 DEF RecoveryUp, RecoveryCreated
  <2>7. CASE RecoveryRebound \/ RecoveryHealthy
    BY <2>7 DEF RecoveryRebound, RecoveryHealthy
  <2>8. CASE StartupBlocked
    BY <2>8 DEF StartupBlocked, Die
  <2> QED
    BY <1>5, <2>1, <2>2, <2>3, <2>4, <2>5, <2>6, <2>7, <2>8 DEF RecoveryStep
<1>6. CASE Crash \/ Restart \/ Listen
  BY <1>6 DEF Crash, Die, Restart, Listen
<1>7. CASE UNCHANGED vars
  BY <1>7 DEF vars
<1> QED
  BY <1>1, <1>2, <1>3, <1>4, <1>5, <1>6, <1>7 DEF Next

\* ... of the journal,
LEMMA JournalTypeStep == ASSUME IInv, [Next]_vars PROVE JournalTypeOK'
<1>a. /\ current \in Containers /\ UpdateContainer \in Containers
      /\ Containers \subseteq Containers'
      /\ {rollbackId, remoteId, restored} \subseteq {0} \cup Containers
      /\ journal \subseteq [stage : StageName, container : {0} \cup Containers]
  BY CurrentExists, ContainersStay DEF IInv, TypeOK
<1> USE <1>a DEF dbVars, processVars, remoteVars, Goto, Journaled, Finish, StageName,
           JournalTypeOK
<1>1. ASSUME NEW c \in commands, RemoteUp(c) PROVE JournalTypeOK'
  BY <1>1 DEF RemoteUp
<1>2. CASE Discover \/ SaveSelection
  BY <1>2 DEF Discover, SaveSelection
<1>3. ASSUME NEW j \in Jobs, Execute(j) PROVE JournalTypeOK'
  BY <1>3 DEF Execute
<1>4. CASE ExecuteStep
  <2>1. ASSUME NEW j \in Jobs, Start(j) \/ ValidationFailed(j) PROVE JournalTypeOK'
    BY <2>1 DEF Start, ValidationFailed
  <2>2. CASE Validated \/ RollbackUp
    BY <2>2 DEF Validated, RollbackUp
  <2>3. CASE RollbackCreated
    BY <2>3 DEF RollbackCreated
  <2>4. CASE RollbackRebound \/ RollbackHealthy
    BY <2>4 DEF RollbackRebound, RollbackHealthy
  <2>5. ASSUME NEW j \in Jobs, RolledBack(j) PROVE JournalTypeOK'
    BY <2>5 DEF RolledBack
  <2>6. CASE RollbackFailed
    BY <2>6 DEF RollbackFailed
  <2>7. CASE RollbackUnusable
    BY <2>7 DEF RollbackUnusable, BeginRestore
  <2>8. ASSUME NEW j \in Jobs, ResolvedUnchanged(j) PROVE JournalTypeOK'
    BY <2>8 DEF ResolvedUnchanged
  <2>9. ASSUME NEW j \in Jobs, ResolveFailed(j) PROVE JournalTypeOK'
    BY <2>9 DEF ResolveFailed
  <2>10. CASE ResolvedOther
    BY <2>10 DEF ResolvedOther, BeginRestore
  <2>11. CASE RestoreUp \/ RestoreCreated
    BY <2>11 DEF RestoreUp, RestoreCreated
  <2>12. CASE RestoreRebound \/ RestoreHealthy
    BY <2>12 DEF RestoreRebound, RestoreHealthy
  <2>13. CASE RestoreFailed
    BY <2>13 DEF RestoreFailed
  <2>14. CASE AdoptResolved
    BY <2>14 DEF AdoptResolved
  <2>15. ASSUME NEW j \in Jobs, CurrentRestored(j) \/ RestoreAbandoned(j) PROVE JournalTypeOK'
    BY <2>15 DEF CurrentRestored, RestoreAbandoned
  <2> QED
    BY <1>4, <2>1, <2>2, <2>3, <2>4, <2>5, <2>6, <2>7, <2>8, <2>9, <2>10, <2>11, <2>12, <2>13,
       <2>14, <2>15 DEF ExecuteStep
<1>5. CASE RecoveryStep
  <2>1. ASSUME NEW j \in Jobs, RecoverBeforeMutation(j) \/ RecoverySettled(j) \/ RecoveryRestored(j)
        PROVE  JournalTypeOK'
    BY <2>1 DEF RecoverBeforeMutation, RecoverySettled, RecoveryRestored
  <2>2. CASE RecoverStart \/ RecoveryResolve
    BY <2>2 DEF RecoverStart, RecoveryResolve
  <2>3. CASE RecoveryUnprepared
    BY <2>3 DEF RecoveryUnprepared, Die
  <2>4. CASE RecoverySettle
    BY <2>4 DEF RecoverySettle
  <2>5. CASE RecoveryBeginRestore
    BY <2>5 DEF RecoveryBeginRestore
  <2>6. CASE RecoveryUp \/ RecoveryCreated
    BY <2>6 DEF RecoveryUp, RecoveryCreated
  <2>7. CASE RecoveryRebound \/ RecoveryHealthy
    BY <2>7 DEF RecoveryRebound, RecoveryHealthy
  <2>8. CASE StartupBlocked
    BY <2>8 DEF StartupBlocked, Die
  <2> QED
    BY <1>5, <2>1, <2>2, <2>3, <2>4, <2>5, <2>6, <2>7, <2>8 DEF RecoveryStep
<1>6. CASE Crash \/ Restart \/ Listen
  BY <1>6 DEF Crash, Die, Restart, Listen
<1>7. CASE UNCHANGED vars
  BY <1>7 DEF vars
<1> QED
  BY <1>1, <1>2, <1>3, <1>4, <1>5, <1>6, <1>7 DEF Next

\* ... of the containers that are held,
LEMMA LocalsStep == ASSUME IInv, [Next]_vars PROVE LocalsOK'
<1>a. /\ current \in Containers /\ UpdateContainer \in Containers
      /\ Containers \subseteq Containers'
      /\ binding \in Containers /\ foreign \in {0} \cup Containers
      /\ {rollbackId, remoteId, restored, discovered} \subseteq {0} \cup Containers
      /\ HoldsOK /\ ProvenRestore \subseteq Containers /\ ProvenRollback \subseteq Containers
  BY CurrentExists, ContainersStay DEF IInv, TypeOK, JournalProvesImages
<1> USE <1>a DEF dbVars, processVars, remoteVars, Goto, Journaled, Finish, LocalsOK, HoldsOK,
           Runs
<1>1. ASSUME NEW c \in commands, RemoteUp(c) PROVE LocalsOK'
  BY <1>1 DEF RemoteUp
<1>2. CASE Discover \/ SaveSelection
  BY <1>2 DEF Discover, SaveSelection
<1>3. ASSUME NEW j \in Jobs, Execute(j) PROVE LocalsOK'
  BY <1>3 DEF Execute
<1>4. CASE ExecuteStep
  <2>1. ASSUME NEW j \in Jobs, Start(j) \/ ValidationFailed(j) PROVE LocalsOK'
    BY <2>1 DEF Start, ValidationFailed
  <2>2. CASE Validated \/ RollbackUp
    BY <2>2 DEF Validated, RollbackUp
  <2>3. CASE RollbackCreated
    BY <2>3 DEF RollbackCreated
  <2>4. CASE RollbackRebound \/ RollbackHealthy
    BY <2>4 DEF RollbackRebound, RollbackHealthy
  <2>5. ASSUME NEW j \in Jobs, RolledBack(j) PROVE LocalsOK'
    BY <2>5 DEF RolledBack
  <2>6. CASE RollbackFailed
    BY <2>6 DEF RollbackFailed
  <2>7. CASE RollbackUnusable
    BY <2>7 DEF RollbackUnusable, BeginRestore
  <2>8. ASSUME NEW j \in Jobs, ResolvedUnchanged(j) \/ ResolveFailed(j) PROVE LocalsOK'
    BY <2>8 DEF ResolvedUnchanged, ResolveFailed
  <2>9. CASE ResolvedOther
    BY <2>9 DEF ResolvedOther, BeginRestore
  <2>10. CASE RestoreUp \/ RestoreCreated
    BY <2>10 DEF RestoreUp, RestoreCreated
  <2>11. CASE RestoreRebound \/ RestoreHealthy
    BY <2>11 DEF RestoreRebound, RestoreHealthy
  <2>12. CASE RestoreFailed
    BY <2>12 DEF RestoreFailed
  <2>13. CASE AdoptResolved
    BY <2>13 DEF AdoptResolved
  <2>14. ASSUME NEW j \in Jobs, CurrentRestored(j) \/ RestoreAbandoned(j) PROVE LocalsOK'
    BY <2>14 DEF CurrentRestored, RestoreAbandoned
  <2> QED
    BY <1>4, <2>1, <2>2, <2>3, <2>4, <2>5, <2>6, <2>7, <2>8, <2>9, <2>10, <2>11, <2>12, <2>13,
       <2>14 DEF ExecuteStep
<1>5. CASE RecoveryStep
  <2>1. ASSUME NEW j \in Jobs, RecoverBeforeMutation(j) \/ RecoverySettled(j) \/ RecoveryRestored(j)
        PROVE  LocalsOK'
    BY <2>1 DEF RecoverBeforeMutation, RecoverySettled, RecoveryRestored
  <2>2. CASE RecoverStart \/ RecoveryResolve
    BY <2>2 DEF RecoverStart, RecoveryResolve
  <2>3. CASE RecoveryUnprepared
    BY <2>3 DEF RecoveryUnprepared, Die
  <2>4. CASE RecoverySettle
    BY <2>4 DEF RecoverySettle
  <2>5. CASE RecoveryBeginRestore
    BY <2>5 DEF RecoveryBeginRestore
  <2>6. CASE RecoveryUp \/ RecoveryCreated
    BY <2>6 DEF RecoveryUp, RecoveryCreated
  <2>7. CASE RecoveryRebound \/ RecoveryHealthy
    BY <2>7 DEF RecoveryRebound, RecoveryHealthy
  <2>8. CASE StartupBlocked
    BY <2>8 DEF StartupBlocked, Die
  <2> QED
    BY <1>5, <2>1, <2>2, <2>3, <2>4, <2>5, <2>6, <2>7, <2>8 DEF RecoveryStep
<1>6. CASE Crash \/ Restart \/ Listen
  BY <1>6 DEF Crash, Die, Restart, Listen
<1>7. CASE UNCHANGED vars
  BY <1>7 DEF vars
<1> QED
  BY <1>1, <1>2, <1>3, <1>4, <1>5, <1>6, <1>7 DEF Next

\* ... of control,
LEMMA ControlStep == ASSUME IInv, [Next]_vars PROVE ControlOK'
<1>a. ControlOK
  BY DEF IInv, TypeOK, ControlOK
<1> USE <1>a DEF dbVars, processVars, remoteVars, Goto, Journaled, Finish, ControlOK, BusyPC,
           AwaitPC
<1>1. ASSUME NEW c \in commands, RemoteUp(c) PROVE ControlOK'
  BY <1>1 DEF RemoteUp
<1>2. CASE Discover \/ SaveSelection
  BY <1>2 DEF Discover, SaveSelection
<1>3. ASSUME NEW j \in Jobs, Execute(j) PROVE ControlOK'
  BY <1>3 DEF Execute
<1>4. CASE ExecuteStep
  <2>1. ASSUME NEW j \in Jobs, Start(j) \/ ValidationFailed(j) PROVE ControlOK'
    BY <2>1 DEF Start, ValidationFailed
  <2>2. CASE Validated \/ RollbackUp
    BY <2>2 DEF Validated, RollbackUp
  <2>3. CASE RollbackCreated
    BY <2>3 DEF RollbackCreated
  <2>4. CASE RollbackRebound \/ RollbackHealthy
    BY <2>4 DEF RollbackRebound, RollbackHealthy
  <2>5. ASSUME NEW j \in Jobs, RolledBack(j) PROVE ControlOK'
    BY <2>5 DEF RolledBack
  <2>6. CASE RollbackFailed
    BY <2>6 DEF RollbackFailed
  <2>7. CASE RollbackUnusable
    BY <2>7 DEF RollbackUnusable, BeginRestore
  <2>8. ASSUME NEW j \in Jobs, ResolvedUnchanged(j) \/ ResolveFailed(j) PROVE ControlOK'
    BY <2>8 DEF ResolvedUnchanged, ResolveFailed
  <2>9. CASE ResolvedOther
    BY <2>9 DEF ResolvedOther, BeginRestore
  <2>10. CASE RestoreUp \/ RestoreCreated
    BY <2>10 DEF RestoreUp, RestoreCreated
  <2>11. CASE RestoreRebound \/ RestoreHealthy
    BY <2>11 DEF RestoreRebound, RestoreHealthy
  <2>12. CASE RestoreFailed
    BY <2>12 DEF RestoreFailed
  <2>13. CASE AdoptResolved
    BY <2>13 DEF AdoptResolved
  <2>14. ASSUME NEW j \in Jobs, CurrentRestored(j) \/ RestoreAbandoned(j) PROVE ControlOK'
    BY <2>14 DEF CurrentRestored, RestoreAbandoned
  <2> QED
    BY <1>4, <2>1, <2>2, <2>3, <2>4, <2>5, <2>6, <2>7, <2>8, <2>9, <2>10, <2>11, <2>12, <2>13,
       <2>14 DEF ExecuteStep
<1>5. CASE RecoveryStep
  <2>1. ASSUME NEW j \in Jobs, RecoverBeforeMutation(j) \/ RecoverySettled(j) \/ RecoveryRestored(j)
        PROVE  ControlOK'
    BY <2>1 DEF RecoverBeforeMutation, RecoverySettled, RecoveryRestored
  <2>2. CASE RecoverStart \/ RecoveryResolve
    BY <2>2 DEF RecoverStart, RecoveryResolve
  <2>3. CASE RecoveryUnprepared
    BY <2>3 DEF RecoveryUnprepared, Die
  <2>4. CASE RecoverySettle
    BY <2>4 DEF RecoverySettle
  <2>5. CASE RecoveryBeginRestore
    BY <2>5 DEF RecoveryBeginRestore
  <2>6. CASE RecoveryUp \/ RecoveryCreated
    BY <2>6 DEF RecoveryUp, RecoveryCreated
  <2>7. CASE RecoveryRebound \/ RecoveryHealthy
    BY <2>7 DEF RecoveryRebound, RecoveryHealthy
  <2>8. CASE StartupBlocked
    BY <2>8 DEF StartupBlocked, Die
  <2> QED
    BY <1>5, <2>1, <2>2, <2>3, <2>4, <2>5, <2>6, <2>7, <2>8 DEF RecoveryStep
<1>6. CASE Crash \/ Restart \/ Listen
  BY <1>6 DEF Crash, Die, Restart, Listen
<1>7. CASE UNCHANGED vars
  BY <1>7 DEF vars
<1> QED
  BY <1>1, <1>2, <1>3, <1>4, <1>5, <1>6, <1>7 DEF Next

\* ... and of the commands.
LEMMA CommandsStep == ASSUME IInv, [Next]_vars PROVE CommandsOK'
<1>a. commands \subseteq [image : {Previous, Updated}, awaited : BOOLEAN]
  BY DEF IInv, TypeOK
<1>b. Abandon => CommandsOK'
  BY <1>a DEF Abandon, Awaited, CommandsOK
<1>c. \A i \in {Previous, Updated} :
          [image |-> i, awaited |-> TRUE] \in [image : {Previous, Updated}, awaited : BOOLEAN]
  OBVIOUS
<1> USE <1>a, <1>b, <1>c DEF dbVars, processVars, remoteVars, Goto, Journaled, Finish,
           CommandsOK, IssueUp
<1>1. ASSUME NEW c \in commands, RemoteUp(c) PROVE CommandsOK'
  BY <1>1 DEF RemoteUp
<1>2. CASE Discover \/ SaveSelection
  BY <1>2 DEF Discover, SaveSelection
<1>3. ASSUME NEW j \in Jobs, Execute(j) PROVE CommandsOK'
  BY <1>3 DEF Execute
<1>4. CASE ExecuteStep
  <2>1. ASSUME NEW j \in Jobs, Start(j) \/ ValidationFailed(j) PROVE CommandsOK'
    BY <2>1 DEF Start, ValidationFailed
  <2>2. CASE Validated
    BY <2>2 DEF Validated
  <2>3. CASE RollbackUp
    BY <2>3 DEF RollbackUp
  <2>4. CASE RollbackCreated
    BY <2>4 DEF RollbackCreated
  <2>5. CASE RollbackRebound \/ RollbackHealthy
    BY <2>5 DEF RollbackRebound, RollbackHealthy
  <2>6. ASSUME NEW j \in Jobs, RolledBack(j) PROVE CommandsOK'
    BY <2>6 DEF RolledBack
  <2>7. CASE RollbackFailed
    BY <2>7 DEF RollbackFailed
  <2>8. CASE RollbackUnusable
    BY <2>8 DEF RollbackUnusable, BeginRestore
  <2>9. ASSUME NEW j \in Jobs, ResolvedUnchanged(j) \/ ResolveFailed(j) PROVE CommandsOK'
    BY <2>9 DEF ResolvedUnchanged, ResolveFailed
  <2>10. CASE ResolvedOther
    BY <2>10 DEF ResolvedOther, BeginRestore
  <2>11. CASE RestoreUp
    BY <2>11 DEF RestoreUp
  <2>12. CASE RestoreCreated
    BY <2>12 DEF RestoreCreated
  <2>13. CASE RestoreRebound \/ RestoreHealthy
    BY <2>13 DEF RestoreRebound, RestoreHealthy
  <2>14. CASE RestoreFailed
    BY <2>14 DEF RestoreFailed
  <2>15. CASE AdoptResolved
    BY <2>15 DEF AdoptResolved
  <2>16. ASSUME NEW j \in Jobs, CurrentRestored(j) \/ RestoreAbandoned(j) PROVE CommandsOK'
    BY <2>16 DEF CurrentRestored, RestoreAbandoned
  <2> QED
    BY <1>4, <2>1, <2>2, <2>3, <2>4, <2>5, <2>6, <2>7, <2>8, <2>9, <2>10, <2>11, <2>12, <2>13,
       <2>14, <2>15, <2>16 DEF ExecuteStep
<1>5. CASE RecoveryStep
  <2>1. ASSUME NEW j \in Jobs, RecoverBeforeMutation(j) \/ RecoverySettled(j) \/ RecoveryRestored(j)
        PROVE  CommandsOK'
    BY <2>1 DEF RecoverBeforeMutation, RecoverySettled, RecoveryRestored
  <2>2. CASE RecoverStart \/ RecoveryResolve
    BY <2>2 DEF RecoverStart, RecoveryResolve
  <2>3. CASE RecoveryUnprepared
    BY <2>3 DEF RecoveryUnprepared, Die
  <2>4. CASE RecoverySettle
    BY <2>4 DEF RecoverySettle
  <2>5. CASE RecoveryBeginRestore
    BY <2>5 DEF RecoveryBeginRestore
  <2>6. CASE RecoveryUp
    BY <2>6 DEF RecoveryUp
  <2>7. CASE RecoveryCreated
    BY <2>7 DEF RecoveryCreated
  <2>8. CASE RecoveryRebound \/ RecoveryHealthy
    BY <2>8 DEF RecoveryRebound, RecoveryHealthy
  <2>9. CASE StartupBlocked
    BY <2>9 DEF StartupBlocked, Die
  <2> QED
    BY <1>5, <2>1, <2>2, <2>3, <2>4, <2>5, <2>6, <2>7, <2>8, <2>9 DEF RecoveryStep
<1>6. CASE Crash \/ Restart \/ Listen
  BY <1>6 DEF Crash, Die, Restart, Listen
<1>7. CASE UNCHANGED vars
  BY <1>7 DEF vars
<1> QED
  BY <1>1, <1>2, <1>3, <1>4, <1>5, <1>6, <1>7 DEF Next

\* Every step keeps the types.
LEMMA TypeStep == ASSUME IInv, [Next]_vars PROVE TypeOK'
<1>1. created' \in Seq({Previous, Updated})
  BY CreatedStays, UpCreates DEF HostStays, IInv, TypeOK
<1> QED
  BY <1>1, RowsStep, JournalTypeStep, LocalsStep, ControlStep, CommandsStep
     DEF TypeOK, RowsOK, JournalTypeOK, LocalsOK, ControlOK, CommandsOK

\* The initial states satisfy the invariant.
LEMMA InitEstablishes == Init => IInv
<1> SUFFICES ASSUME Init PROVE IInv
  OBVIOUS
<1>1. /\ created \in Seq({Previous, Updated}) /\ Len(created) = 2 /\ created[2] = Updated
      /\ Containers = 1 .. 2
  BY DEF Init, Containers
<1>2. TypeOK
  BY <1>1 DEF Init, TypeOK, UpdateContainer
<1>3. OriginOK /\ JobOK /\ StageOK /\ UntouchedOK
  BY <1>1 DEF Init, OriginOK, Runs, ImageOf, UpdateContainer, JobOK, Active, ACTIVE_STATES,
     StageOK, UntouchedOK
<1>4. JournalProvesImages
  BY DEF Init, JournalProvesImages, ProvenRollback, ProvenRestore, Proven
<1>5. HoldsOK /\ BoundOK /\ VerifiedOK
  BY DEF Init, HoldsOK, BoundOK, VerifiedOK
<1>6. AloneOK /\ HeadOK /\ FollowsOK
  BY <1>1 DEF Init, AloneOK, HeadOK, FollowsOK, current, UpdateContainer
<1> QED
  BY <1>2, <1>3, <1>4, <1>5, <1>6 DEF IInv

\* Every step keeps the invariant.
LEMMA StepKeeps == IInv /\ [Next]_vars => IInv'
  BY TypeStep, OriginStep, JobStep, StageStep, UntouchedStep, ProvenStep, HoldsStep, BoundStep,
     VerifiedStep, AloneStep, HeadStep, FollowsStep DEF IInv

-----------------------------------------------------------------------------
(* What always holds.                                                      *)

\* Whenever no rollback is open a target that is alone is bound to the running container,
\* and the containers that the journal names run the images it says, whoever else works on
\* the host.
THEOREM RollbackInvariantHolds == Spec => []RollbackInvariant
<1>1. IInv => RollbackInvariant
  BY DEF IInv, RollbackInvariant, FollowsOK, BindingTracksService, InReplacement
<1> QED
  BY <1>1, InitEstablishes, StepKeeps, PTL DEF Spec

\* Where control is when a step ends job k with a verdict.
VerdictIsDue(k) ==
    /\ outcome'[k] = "rolled_back" => pc = "commit"
    /\ outcome'[k] = "rollback_failed_current_restored" => pc = "restore_commit"
    /\ outcome'[k] = "recovered_no_remote_change" =>
           pc = "rec_health" /\ current = remoteId /\ remoteId = UpdateContainer
    /\ outcome'[k] = "recovered_current_restored" =>
           \/ pc = "rec_commit"
           \/ pc = "rec_health" /\ current = remoteId /\ remoteId \in ProvenRestore
    /\ outcome'[k] = "recovered_rollback_verified" =>
           /\ pc = "rec_health" /\ current = remoteId
           /\ remoteId \notin {UpdateContainer} \cup ProvenRestore

\* A verdict is given at the end of a handler or a recovery, and nowhere else.
LEMMA VerdictsAreDue ==
    ASSUME IInv, [Next]_vars, NEW k \in Jobs, Active(k), state'[k] \in TERMINAL_STATES
    PROVE  VerdictIsDue(k)
<1>a. /\ state \in [Jobs -> JobState \cup {"absent"}] /\ outcome \in [Jobs -> Outcome \cup {"none"}]
      /\ \A j \in Jobs : Active(j) => j = k
  BY DEF IInv, TypeOK, JobOK
<1> USE <1>a DEF dbVars, Finish, Active, ACTIVE_STATES, TERMINAL_STATES, VerdictIsDue
<1>1. ASSUME NEW c \in commands, RemoteUp(c) PROVE VerdictIsDue(k)
  BY <1>1 DEF RemoteUp
<1>2. CASE Discover \/ SaveSelection
  BY <1>2 DEF Discover, SaveSelection
<1>3. ASSUME NEW j \in Jobs, Execute(j) PROVE VerdictIsDue(k)
  BY <1>3 DEF Execute
<1>4. CASE ExecuteStep
  <2>1. ASSUME NEW j \in Jobs, Start(j) \/ ValidationFailed(j) PROVE VerdictIsDue(k)
    BY <2>1 DEF Start, ValidationFailed
  <2>2. CASE Validated \/ RollbackUp
    BY <2>2 DEF Validated, RollbackUp
  <2>3. CASE RollbackCreated
    BY <2>3 DEF RollbackCreated
  <2>4. CASE RollbackRebound \/ RollbackHealthy
    BY <2>4 DEF RollbackRebound, RollbackHealthy
  <2>5. ASSUME NEW j \in Jobs, RolledBack(j) PROVE VerdictIsDue(k)
    BY <2>5 DEF RolledBack
  <2>6. CASE RollbackFailed
    BY <2>6 DEF RollbackFailed
  <2>7. CASE RollbackUnusable
    BY <2>7 DEF RollbackUnusable, BeginRestore
  <2>8. ASSUME NEW j \in Jobs, ResolvedUnchanged(j) \/ ResolveFailed(j) PROVE VerdictIsDue(k)
    BY <2>8 DEF ResolvedUnchanged, ResolveFailed
  <2>9. CASE ResolvedOther
    BY <2>9 DEF ResolvedOther, BeginRestore
  <2>10. CASE RestoreUp \/ RestoreCreated
    BY <2>10 DEF RestoreUp, RestoreCreated
  <2>11. CASE RestoreRebound \/ RestoreHealthy
    BY <2>11 DEF RestoreRebound, RestoreHealthy
  <2>12. CASE RestoreFailed
    BY <2>12 DEF RestoreFailed
  <2>13. CASE AdoptResolved
    BY <2>13 DEF AdoptResolved
  <2>14. ASSUME NEW j \in Jobs, CurrentRestored(j) \/ RestoreAbandoned(j) PROVE VerdictIsDue(k)
    BY <2>14 DEF CurrentRestored, RestoreAbandoned
  <2> QED
    BY <1>4, <2>1, <2>2, <2>3, <2>4, <2>5, <2>6, <2>7, <2>8, <2>9, <2>10, <2>11, <2>12, <2>13,
       <2>14 DEF ExecuteStep
<1>5. CASE RecoveryStep
  <2>1. ASSUME NEW j \in Jobs, RecoverBeforeMutation(j) \/ RecoverySettled(j) \/ RecoveryRestored(j)
        PROVE  VerdictIsDue(k)
    BY <2>1 DEF RecoverBeforeMutation, RecoverySettled, RecoveryRestored
  <2>2. CASE RecoverStart \/ RecoveryResolve
    BY <2>2 DEF RecoverStart, RecoveryResolve
  <2>3. CASE RecoveryUnprepared
    BY <2>3 DEF RecoveryUnprepared, Die
  <2>4. CASE RecoverySettle
    BY <2>4 DEF RecoverySettle
  <2>5. CASE RecoveryBeginRestore
    BY <2>5 DEF RecoveryBeginRestore
  <2>6. CASE RecoveryUp \/ RecoveryCreated
    BY <2>6 DEF RecoveryUp, RecoveryCreated
  <2>7. CASE RecoveryRebound \/ RecoveryHealthy
    BY <2>7 DEF RecoveryRebound, RecoveryHealthy
  <2>8. CASE StartupBlocked
    BY <2>8 DEF StartupBlocked, Die
  <2> QED
    BY <1>5, <2>1, <2>2, <2>3, <2>4, <2>5, <2>6, <2>7, <2>8 DEF RecoveryStep
<1>6. CASE Crash \/ Restart \/ Listen
  BY <1>6 DEF Crash, Die, Restart, Listen
<1>7. CASE UNCHANGED vars
  BY <1>7 DEF vars
<1> QED
  BY <1>1, <1>2, <1>3, <1>4, <1>5, <1>6, <1>7 DEF Next

\* A verdict that is due has its evidence.
LEMMA VerdictStep == IInv /\ [Next]_vars => VerdictHasEvidence
<1> SUFFICES ASSUME IInv, [Next]_vars, NEW k \in Jobs, Active(k), state'[k] \in TERMINAL_STATES
             PROVE  /\ outcome'[k] \in RolledBackOutcome =>
                           Verified(binding) /\ ImageOf(binding) = Previous
                    /\ outcome'[k] \in RestoredOutcome =>
                           Verified(binding) /\ ImageOf(binding) = Updated
  BY DEF VerdictHasEvidence
<1>1. VerdictIsDue(k)
  BY VerdictsAreDue
<1> USE DEF IInv, HoldsOK, BoundOK, VerifiedOK, Runs, Verified
<1>2. CASE outcome'[k] = "rolled_back"
  BY <1>1, <1>2 DEF VerdictIsDue, RestoredOutcome
<1>3. CASE outcome'[k] = "rollback_failed_current_restored"
  BY <1>1, <1>3 DEF VerdictIsDue, RolledBackOutcome
<1>4. CASE outcome'[k] = "recovered_no_remote_change"
  BY <1>1, <1>4 DEF VerdictIsDue, RolledBackOutcome, OriginOK
<1>5. CASE outcome'[k] = "recovered_current_restored"
  BY <1>1, <1>5 DEF VerdictIsDue, RolledBackOutcome, JournalProvesImages
<1>6. CASE outcome'[k] = "recovered_rollback_verified"
  BY <1>1, <1>6 DEF VerdictIsDue, RestoredOutcome, JournalProvesImages
<1> QED
  BY <1>2, <1>3, <1>4, <1>5, <1>6 DEF RolledBackOutcome, RestoredOutcome

\* Whatever others do on the host, a verdict is given on the evidence of a container that
\* has answered, that the target is bound to and that runs the image the verdict speaks of.
THEOREM VerdictsHaveEvidence == Spec => OutcomeIsVerified
<1>1. IInv /\ [Next]_vars => [VerdictHasEvidence]_vars
  BY VerdictStep
<1> QED
  BY <1>1, InitEstablishes, StepKeeps, PTL DEF Spec, OutcomeIsVerified

-----------------------------------------------------------------------------
(* The rollback of a target that is alone is a transaction.                *)

AsTx == INSTANCE UpdateTx WITH
    Targets <- {"target"}, Images <- {Previous, Updated},
    TargetOf <- [j \in Jobs |-> "target"], CandidateOf <- [j \in Jobs |-> Previous],
    phase <- TxPhase, served <- TxServed

\* The steps that end job j.
Ends(j) ==
    \/ ValidationFailed(j) \/ RolledBack(j) \/ ResolvedUnchanged(j) \/ ResolveFailed(j)
    \/ CurrentRestored(j) \/ RestoreAbandoned(j)
    \/ RecoverBeforeMutation(j) \/ RecoverySettled(j) \/ RecoveryRestored(j)

\* The image that counts.
ServedImage == IF InReplacement THEN Updated ELSE ImageOf(current)

\* A step accepts a job, starts its handler, ends it, or leaves its row alone.
KindOfStep ==
    \/ \E k \in Jobs : Execute(k) \/ Start(k) \/ Ends(k)
    \/ UNCHANGED <<state, outcome>>

\* So it is with every step.
LEMMA KindsOfSteps == ASSUME [Next]_vars PROVE KindOfStep
<1> USE DEF dbVars, Ends, KindOfStep
<1>1. ASSUME NEW c \in commands, RemoteUp(c) PROVE KindOfStep
  BY <1>1 DEF RemoteUp
<1>2. CASE Discover \/ SaveSelection
  BY <1>2 DEF Discover, SaveSelection
<1>3. ASSUME NEW j \in Jobs, Execute(j) PROVE KindOfStep
  BY <1>3 DEF Execute
<1>4. CASE ExecuteStep
  <2>1. ASSUME NEW j \in Jobs, Start(j) \/ ValidationFailed(j) PROVE KindOfStep
    BY <2>1 DEF Start, ValidationFailed
  <2>2. CASE Validated \/ RollbackUp
    BY <2>2 DEF Validated, RollbackUp
  <2>3. CASE RollbackCreated
    BY <2>3 DEF RollbackCreated
  <2>4. CASE RollbackRebound \/ RollbackHealthy
    BY <2>4 DEF RollbackRebound, RollbackHealthy
  <2>5. ASSUME NEW j \in Jobs, RolledBack(j) PROVE KindOfStep
    BY <2>5 DEF RolledBack
  <2>6. CASE RollbackFailed
    BY <2>6 DEF RollbackFailed
  <2>7. CASE RollbackUnusable
    BY <2>7 DEF RollbackUnusable, BeginRestore
  <2>8. ASSUME NEW j \in Jobs, ResolvedUnchanged(j) \/ ResolveFailed(j) PROVE KindOfStep
    BY <2>8 DEF ResolvedUnchanged, ResolveFailed
  <2>9. CASE ResolvedOther
    BY <2>9 DEF ResolvedOther, BeginRestore
  <2>10. CASE RestoreUp \/ RestoreCreated
    BY <2>10 DEF RestoreUp, RestoreCreated
  <2>11. CASE RestoreRebound \/ RestoreHealthy
    BY <2>11 DEF RestoreRebound, RestoreHealthy
  <2>12. CASE RestoreFailed
    BY <2>12 DEF RestoreFailed
  <2>13. CASE AdoptResolved
    BY <2>13 DEF AdoptResolved
  <2>14. ASSUME NEW j \in Jobs, CurrentRestored(j) \/ RestoreAbandoned(j) PROVE KindOfStep
    BY <2>14 DEF CurrentRestored, RestoreAbandoned
  <2> QED
    BY <1>4, <2>1, <2>2, <2>3, <2>4, <2>5, <2>6, <2>7, <2>8, <2>9, <2>10, <2>11, <2>12, <2>13,
       <2>14 DEF ExecuteStep
<1>5. CASE RecoveryStep
  <2>1. ASSUME NEW j \in Jobs, RecoverBeforeMutation(j) \/ RecoverySettled(j) \/ RecoveryRestored(j)
        PROVE  KindOfStep
    BY <2>1 DEF RecoverBeforeMutation, RecoverySettled, RecoveryRestored
  <2>2. CASE RecoverStart \/ RecoveryResolve
    BY <2>2 DEF RecoverStart, RecoveryResolve
  <2>3. CASE RecoveryUnprepared
    BY <2>3 DEF RecoveryUnprepared, Die
  <2>4. CASE RecoverySettle
    BY <2>4 DEF RecoverySettle
  <2>5. CASE RecoveryBeginRestore
    BY <2>5 DEF RecoveryBeginRestore
  <2>6. CASE RecoveryUp \/ RecoveryCreated
    BY <2>6 DEF RecoveryUp, RecoveryCreated
  <2>7. CASE RecoveryRebound \/ RecoveryHealthy
    BY <2>7 DEF RecoveryRebound, RecoveryHealthy
  <2>8. CASE StartupBlocked
    BY <2>8 DEF StartupBlocked, Die
  <2> QED
    BY <1>5, <2>1, <2>2, <2>3, <2>4, <2>5, <2>6, <2>7, <2>8 DEF RecoveryStep
<1>6. CASE Crash \/ Restart \/ Listen
  BY <1>6 DEF Crash, Die, Restart, Listen
<1>7. CASE UNCHANGED vars
  BY <1>7 DEF vars
<1> QED
  BY <1>1, <1>2, <1>3, <1>4, <1>5, <1>6, <1>7 DEF Next

\* A step that ends no job leaves the image that counts alone.
ServedKept == (\E j \in Jobs : Ends(j)) \/ ServedImage' = ServedImage

\* So it is with every step of a target that is alone.
LEMMA ServedStep == ASSUME alone, IInv, [Next]_vars PROVE ServedKept
<1>a. /\ TypeOK /\ StageOK /\ JobOK /\ AloneOK /\ ImageOf(UpdateContainer) = Updated
      /\ state \in [Jobs -> JobState \cup {"absent"}]
  BY DEF IInv, TypeOK, OriginOK, Runs
<1>b. created' = created => ImageOf(current)' = ImageOf(current)
  BY DEF current, ImageOf
<1> USE <1>a, <1>b DEF dbVars, processVars, remoteVars, Goto, Journaled, Finish, ServedKept,
           ServedImage, Ends, InReplacement, HasStage, Active, ACTIVE_STATES, StageOK, JobOK,
           AloneOK, UpPC
<1>1. ASSUME NEW c \in commands, RemoteUp(c) PROVE ServedKept
  BY <1>1 DEF RemoteUp
<1>2. CASE Discover \/ SaveSelection
  BY <1>2 DEF Discover, SaveSelection
<1>3. ASSUME NEW j \in Jobs, Execute(j) PROVE ServedKept
  BY <1>3 DEF Execute
<1>4. CASE ExecuteStep
  <2>1. ASSUME NEW j \in Jobs, Start(j) PROVE ServedKept
    BY <2>1 DEF Start
  <2>2. ASSUME NEW j \in Jobs, ValidationFailed(j) PROVE ServedKept
    BY <2>2 DEF ValidationFailed
  <2>3. CASE Validated \/ RollbackUp
    BY <2>3 DEF Validated, RollbackUp
  <2>4. CASE RollbackCreated
    BY <2>4 DEF RollbackCreated
  <2>5. CASE RollbackRebound \/ RollbackHealthy
    BY <2>5 DEF RollbackRebound, RollbackHealthy
  <2>6. ASSUME NEW j \in Jobs, RolledBack(j) PROVE ServedKept
    BY <2>6 DEF RolledBack
  <2>7. CASE RollbackFailed
    BY <2>7 DEF RollbackFailed
  <2>8. CASE RollbackUnusable
    BY <2>8 DEF RollbackUnusable, BeginRestore
  <2>9. ASSUME NEW j \in Jobs, ResolvedUnchanged(j) \/ ResolveFailed(j) PROVE ServedKept
    BY <2>9 DEF ResolvedUnchanged, ResolveFailed
  <2>10. CASE ResolvedOther
    BY <2>10 DEF ResolvedOther, BeginRestore
  <2>11. CASE RestoreUp \/ RestoreCreated
    BY <2>11 DEF RestoreUp, RestoreCreated
  <2>12. CASE RestoreRebound \/ RestoreHealthy
    BY <2>12 DEF RestoreRebound, RestoreHealthy
  <2>13. CASE RestoreFailed
    BY <2>13 DEF RestoreFailed
  <2>14. CASE AdoptResolved
    BY <2>14 DEF AdoptResolved
  <2>15. ASSUME NEW j \in Jobs, CurrentRestored(j) \/ RestoreAbandoned(j) PROVE ServedKept
    BY <2>15 DEF CurrentRestored, RestoreAbandoned
  <2> QED
    BY <1>4, <2>1, <2>2, <2>3, <2>4, <2>5, <2>6, <2>7, <2>8, <2>9, <2>10, <2>11, <2>12, <2>13,
       <2>14, <2>15 DEF ExecuteStep
<1>5. CASE RecoveryStep
  <2>1. ASSUME NEW j \in Jobs, RecoverBeforeMutation(j) \/ RecoverySettled(j) \/ RecoveryRestored(j)
        PROVE  ServedKept
    BY <2>1 DEF RecoverBeforeMutation, RecoverySettled, RecoveryRestored
  <2>2. CASE RecoverStart \/ RecoveryResolve
    BY <2>2 DEF RecoverStart, RecoveryResolve
  <2>3. CASE RecoveryUnprepared
    BY <2>3 DEF RecoveryUnprepared, Die
  <2>4. CASE RecoverySettle
    BY <2>4 DEF RecoverySettle
  <2>5. CASE RecoveryBeginRestore
    BY <2>5 DEF RecoveryBeginRestore
  <2>6. CASE RecoveryUp \/ RecoveryCreated
    BY <2>6 DEF RecoveryUp, RecoveryCreated
  <2>7. CASE RecoveryRebound \/ RecoveryHealthy
    BY <2>7 DEF RecoveryRebound, RecoveryHealthy
  <2>8. CASE StartupBlocked
    BY <2>8 DEF StartupBlocked, Die
  <2> QED
    BY <1>5, <2>1, <2>2, <2>3, <2>4, <2>5, <2>6, <2>7, <2>8 DEF RecoveryStep
<1>6. CASE Crash \/ Restart \/ Listen
  BY <1>6 DEF Crash, Die, Restart, Listen
<1>7. CASE UNCHANGED vars
  BY <1>7 DEF vars
<1> QED
  BY <1>1, <1>2, <1>3, <1>4, <1>5, <1>6, <1>7 DEF Next

\* A job ends with nothing under way, and then what the service runs counts.
LEMMA EndsServe ==
    ASSUME alone, IInv, NEW j \in Jobs, Ends(j)
    PROVE  /\ Active(j)
           /\ \E s \in {"succeeded", "failed"}, e \in Outcome :
                 /\ state' = [state EXCEPT ![j] = s]
                 /\ outcome' = [outcome EXCEPT ![j] = e]
           /\ ServedImage' = ImageOf(current)
<1>a. /\ state \in [Jobs -> JobState \cup {"absent"}]
      /\ \A k \in Jobs : Active(k) /\ Active(j) => k = j
  BY DEF IInv, TypeOK, JobOK
<1>1. /\ Active(j) /\ created' = created
      /\ \E s \in {"succeeded", "failed"}, e \in Outcome :
            /\ state' = [state EXCEPT ![j] = s]
            /\ outcome' = [outcome EXCEPT ![j] = e]
  <2> USE DEF Finish, remoteVars, Outcome, RolledBackOutcome, RestoredOutcome
  <2>1. CASE ValidationFailed(j) \/ RolledBack(j) \/ ResolvedUnchanged(j) \/ ResolveFailed(j)
    BY <2>1 DEF ValidationFailed, RolledBack, ResolvedUnchanged, ResolveFailed
  <2>2. CASE CurrentRestored(j) \/ RestoreAbandoned(j) \/ RecoverBeforeMutation(j) \/
     RecoveryRestored(j)
    BY <2>2 DEF CurrentRestored, RestoreAbandoned, RecoverBeforeMutation, RecoveryRestored
  <2>3. CASE RecoverySettled(j)
    BY <2>3 DEF RecoverySettled
  <2> QED
    BY <2>1, <2>2, <2>3 DEF Ends
<1>2. \A k \in Jobs : ~Active(k)'
  BY <1>1, <1>a DEF Active, ACTIVE_STATES
<1>3. ImageOf(current)' = ImageOf(current)
  BY <1>1 DEF current, ImageOf
<1> QED
  BY <1>1, <1>2, <1>3 DEF ServedImage, InReplacement

\* The phase of a job in state s with outcome e.
Phase(s, e) ==
    CASE s = "absent" -> "idle"
      [] s \in ACTIVE_STATES -> "open"
      [] e \in RolledBackOutcome -> "updated"
      [] e = "rollback_failed_restore_failed" -> "unverified"
      [] OTHER -> "reverted"

\* A job that has not ended has no outcome, so that the cases of TxPhase exclude each other.
LEMMA Phases ==
    ASSUME NEW s, NEW e
    PROVE  /\ s = "absent" /\ e = "none" => Phase(s, e) = "idle"
           /\ s \in ACTIVE_STATES /\ e = "none" => Phase(s, e) = "open"
           /\ s \in {"succeeded", "failed"} =>
                 /\ e \in RolledBackOutcome => Phase(s, e) = "updated"
                 /\ e = "rollback_failed_restore_failed" => Phase(s, e) = "unverified"
                 /\ e \notin RolledBackOutcome \cup {"rollback_failed_restore_failed"} =>
                       Phase(s, e) = "reverted"
<1> USE DEF ACTIVE_STATES, RolledBackOutcome, Phase
<1>1. CASE s = "absent" /\ e = "none"
  BY <1>1
<1>2. CASE s \in ACTIVE_STATES /\ e = "none"
  BY <1>2
<1>3. CASE s \in {"succeeded", "failed"}
  BY <1>3
<1> QED
  BY <1>1, <1>2, <1>3

\* TxPhase is the phase of every job.
LEMMA PhaseOfJobs ==
    /\ TxPhase = [k \in Jobs |-> Phase(state[k], outcome[k])]
    /\ TxPhase' = [k \in Jobs |-> Phase(state'[k], outcome'[k])]
  BY DEF TxPhase, Phase, Active

\* Every step is one of the transaction, or none.
LEMMA RollbackSimulatesTx ==
    ASSUME alone, IInv, [Next]_vars
    PROVE  [AsTx!TxNext]_AsTx!txVars
<1>a. /\ state \in [Jobs -> JobState \cup {"absent"}] /\ outcome \in [Jobs -> Outcome \cup {"none"}]
      /\ \A k \in Jobs : state[k] = "absent" \/ Active(k) => outcome[k] = "none"
  BY DEF IInv, TypeOK, JobOK
<1>b. /\ TxServed = [t \in {"target"} |-> ServedImage]
      /\ TxServed' = [t \in {"target"} |-> ServedImage']
  BY DEF TxServed, ServedImage
<1>c. /\ TxPhase = [k \in Jobs |-> Phase(state[k], outcome[k])]
      /\ TxPhase' = [k \in Jobs |-> Phase(state'[k], outcome'[k])]
  BY PhaseOfJobs
<1>1. ASSUME NEW j \in Jobs, Ends(j) PROVE AsTx!Commit(j) \/ AsTx!Revert(j) \/ AsTx!GiveUp(j)
  <2>1. /\ Active(j) /\ ServedImage' = ImageOf(current)
        /\ \E s \in {"succeeded", "failed"}, e \in Outcome :
              state' = [state EXCEPT ![j] = s] /\ outcome' = [outcome EXCEPT ![j] = e]
    BY <1>1, EndsServe
  <2>2. PICK s \in {"succeeded", "failed"}, e \in Outcome :
            state' = [state EXCEPT ![j] = s] /\ outcome' = [outcome EXCEPT ![j] = e]
    BY <2>1
  <2>3. state'[j] = s /\ outcome'[j] = e /\ TxPhase[j] = "open" /\ s \in TERMINAL_STATES
    BY <2>1, <2>2, <1>a, <1>c, Phases DEF TERMINAL_STATES, Active
  <2>p. TxPhase' = [TxPhase EXCEPT ![j] = Phase(s, e)]
    BY <2>2, <1>a, <1>c
  <2>4. VerdictIsDue(j)
    BY <2>1, <2>3, VerdictsAreDue
  <2>5. ImageOf(current) \in {Previous, Updated}
    BY CurrentExists
  <2>6. CASE e \in RolledBackOutcome
    <3>1. TxPhase' = [TxPhase EXCEPT ![j] = "updated"]
      BY <2>p, <2>6, Phases
    <3>2. ImageOf(current) = Previous
      BY <2>3, <2>4, <2>6 DEF VerdictIsDue, RolledBackOutcome, IInv, HoldsOK, HeadOK, Runs,
         JournalProvesImages
    <3>3. TxServed' = [TxServed EXCEPT !["target"] = Previous]
      BY <1>b, <2>1, <3>2
    <3> QED
      BY <2>3, <3>1, <3>3 DEF AsTx!Commit
  <2>7. CASE e = "rollback_failed_restore_failed"
    <3>1. TxPhase' = [TxPhase EXCEPT ![j] = "unverified"]
      BY <2>p, <2>7, Phases
    <3>2. TxServed' = [TxServed EXCEPT !["target"] = ImageOf(current)]
      BY <1>b, <2>1
    <3> QED
      BY <2>3, <2>5, <3>1, <3>2 DEF AsTx!GiveUp
  <2>8. CASE e \notin RolledBackOutcome /\ e # "rollback_failed_restore_failed"
    <3>1. TxPhase' = [TxPhase EXCEPT ![j] = "reverted"]
      BY <2>p, <2>8, Phases
    <3>2. InReplacement => ImageOf(current) = Updated
      <4>1. CASE ValidationFailed(j) \/ RecoverBeforeMutation(j)
        BY <4>1 DEF ValidationFailed, RecoverBeforeMutation, IInv, StageOK, InReplacement
      <4>2. CASE ResolvedUnchanged(j)
        BY <4>2 DEF ResolvedUnchanged, IInv, OriginOK, Runs
      <4>3. CASE CurrentRestored(j) \/ RecoveryRestored(j)
        BY <4>3 DEF CurrentRestored, RecoveryRestored, IInv, HeadOK, HoldsOK, Runs
      <4>4. CASE RecoverySettled(j)
        BY <2>3, <2>8, <4>4, <1>a DEF RecoverySettled, Finish, RolledBackOutcome, IInv, HoldsOK,
           OriginOK, Runs, JournalProvesImages
      <4>5. CASE RolledBack(j) \/ ResolveFailed(j) \/ RestoreAbandoned(j)
        BY <2>3, <2>8, <4>5, <1>a DEF RolledBack, ResolveFailed, RestoreAbandoned, Finish,
           RolledBackOutcome
      <4> QED
        BY <1>1, <4>1, <4>2, <4>3, <4>4, <4>5 DEF Ends
    <3>3. TxServed' = TxServed
      BY <1>b, <2>1, <3>2 DEF ServedImage
    <3> QED
      BY <2>3, <3>1, <3>3 DEF AsTx!Revert
  <2> QED
    BY <2>6, <2>7, <2>8
<1>2. ASSUME \A k \in Jobs : ~Ends(k) PROVE TxServed' = TxServed
  BY <1>2, <1>b, ServedStep DEF ServedKept
<1>3. ASSUME NEW j \in Jobs, Execute(j), \A k \in Jobs : ~Ends(k) PROVE AsTx!Open(j)
  <2>1. /\ state[j] = "absent" /\ state' = [state EXCEPT ![j] = "queued"] /\ outcome' = outcome
        /\ \A k \in Jobs : ~Active(k)
    BY <1>3 DEF Execute
  <2>2. TxPhase[j] = "idle"
    BY <2>1, <1>a, <1>c, Phases
  <2>3. ASSUME NEW k \in Jobs PROVE TxPhase[k] # "open"
    <3>1. \/ state[k] = "absent" /\ outcome[k] = "none"
          \/ state[k] \in {"succeeded", "failed", "cancelled"}
      BY <2>1, <1>a DEF Active, ACTIVE_STATES, JobState
    <3> QED
      BY <3>1, <1>c DEF Phase, ACTIVE_STATES, RolledBackOutcome
  <2>4. Phase("queued", "none") = "open"
    BY Phases DEF ACTIVE_STATES
  <2>5. TxPhase' = [TxPhase EXCEPT ![j] = "open"]
    BY <2>1, <2>4, <1>a, <1>c
  <2> QED
    BY <1>2, <1>3, <2>2, <2>3, <2>5 DEF AsTx!Open
<1>4. ASSUME NEW j \in Jobs, Start(j), \A k \in Jobs : ~Ends(k) PROVE UNCHANGED AsTx!txVars
  <2>1. /\ state[j] # "absent" /\ Active(j) /\ state' = [state EXCEPT ![j] = "running"]
        /\ outcome' = outcome
    BY <1>4, <1>a DEF Start, Active, ACTIVE_STATES
  <2>2. Phase("running", "none") = "open" /\ Phase(state[j], "none") = "open" /\ outcome[j] = "none"
    BY <2>1, <1>a, Phases DEF ACTIVE_STATES, Active
  <2>3. TxPhase' = TxPhase
    BY <2>1, <2>2, <1>a, <1>c
  <2> QED
    BY <1>2, <1>4, <2>3 DEF AsTx!txVars
<1>5. ASSUME UNCHANGED <<state, outcome>>, \A k \in Jobs : ~Ends(k) PROVE UNCHANGED AsTx!txVars
  <2>1. TxPhase' = TxPhase
    BY <1>5, <1>c
  <2> QED
    BY <1>2, <1>5, <2>1 DEF AsTx!txVars
<1> QED
  BY <1>1, <1>3, <1>4, <1>5, KindsOfSteps DEF AsTx!TxNext, KindOfStep

\* Nothing is open at first, and the image of the update counts.
LEMMA RollbackStartsTx == Init => AsTx!TxInit
<1> SUFFICES ASSUME Init PROVE AsTx!TxInit
  OBVIOUS
<1>1. TxPhase = [j \in Jobs |-> "idle"]
  BY Phases, PhaseOfJobs DEF Init
<1>2. ~InReplacement
  BY DEF Init, InReplacement, HasStage
<1>3. ImageOf(current) = Updated
  BY DEF Init, ImageOf, current
<1> QED
  BY <1>1, <1>2, <1>3 DEF AsTx!TxInit, TxServed

\* A rollback of a target that is alone takes effect or leaves the update in place as a
\* whole, or says that it does not know: it implements UpdateTx.
THEOREM RollbackImplementsTx == Spec => RollbackIsAtomic
<1>1. ASSUME Init PROVE Tx!TxInit
  <2>1. AsTx!TxInit
    BY <1>1, RollbackStartsTx
  <2> QED
    BY <2>1 DEF AsTx!TxInit, Tx!TxInit
<1>2. ASSUME IInv, [Next]_vars PROVE [Tx!TxNext]_(Tx!txVars)
  <2>1. alone' = alone
    BY <1>2, CreatedStays DEF HostStays
  <2>2. CASE alone
    <3>1. [AsTx!TxNext]_(AsTx!txVars)
      BY <1>2, <2>2, RollbackSimulatesTx
    <3> QED
      BY <2>1, <2>2, <3>1 DEF AsTx!TxNext, Tx!TxNext, AsTx!txVars, Tx!txVars, AsTx!Open, Tx!Open,
         AsTx!Commit, Tx!Commit, AsTx!Revert, Tx!Revert, AsTx!GiveUp, Tx!GiveUp
  <2>3. CASE ~alone
    BY <2>1, <2>3 DEF Tx!txVars
  <2> QED
    BY <2>2, <2>3
<1> QED
  BY <1>1, <1>2, InitEstablishes, StepKeeps, PTL DEF Spec, RollbackIsAtomic, Tx!TxSpec

-----------------------------------------------------------------------------
(* What the rollback asks of the jobs table.                               *)

\* Where a handler stands after its start.
HandlerPC ==
    (BusyPC \cup AwaitPC) \
        {"created", "rec_resolve", "rec_decide", "rec_health", "rec_restore", "rec_up",
         "rec_rebind", "rec_restore_health", "rec_commit"}

\* No rollback can be cancelled.  A handler that is about to start has a queued job, and one
\* that has started has a running one, so that a verdict finds the job where it must be.
StateOK ==
    \A j \in Jobs :
        /\ state[j] # "cancelling"
        /\ pc = "created" /\ Active(j) => state[j] = "queued"
        /\ pc \in HandlerPC /\ Active(j) => state[j] = "running"

\* Every rollback takes the lock of the one target.
JobLocks == [j \in Jobs |-> {"target"}]

AsTable == INSTANCE JobTable WITH Targets <- {"target"}, locks <- JobLocks

\* Every step keeps control in step with the jobs table.
LEMMA StateStep == ASSUME IInv, StateOK, [Next]_vars PROVE StateOK'
<1>a. /\ state \in [Jobs -> JobState \cup {"absent"}]
      /\ outcome \in [Jobs -> Outcome \cup {"none"}]
  BY DEF IInv, TypeOK
<1> USE <1>a DEF dbVars, processVars, remoteVars, Goto, Journaled, Finish, IInv, JobOK,
           StateOK, HandlerPC, BusyPC, AwaitPC, Active, ACTIVE_STATES
<1>1. ASSUME NEW c \in commands, RemoteUp(c) PROVE StateOK'
  BY <1>1 DEF RemoteUp
<1>2. CASE Discover \/ SaveSelection
  BY <1>2 DEF Discover, SaveSelection
<1>3. ASSUME NEW j \in Jobs, Execute(j) PROVE StateOK'
  BY <1>3 DEF Execute
<1>4. CASE ExecuteStep
  <2>1. ASSUME NEW j \in Jobs, Start(j) \/ ValidationFailed(j) PROVE StateOK'
    BY <2>1 DEF Start, ValidationFailed
  <2>2. CASE Validated \/ RollbackUp
    BY <2>2 DEF Validated, RollbackUp
  <2>3. CASE RollbackCreated
    BY <2>3 DEF RollbackCreated
  <2>4. CASE RollbackRebound \/ RollbackHealthy
    BY <2>4 DEF RollbackRebound, RollbackHealthy
  <2>5. ASSUME NEW j \in Jobs, RolledBack(j) PROVE StateOK'
    BY <2>5 DEF RolledBack
  <2>6. CASE RollbackFailed
    BY <2>6 DEF RollbackFailed
  <2>7. CASE RollbackUnusable
    BY <2>7 DEF RollbackUnusable, BeginRestore
  <2>8. ASSUME NEW j \in Jobs, ResolvedUnchanged(j) \/ ResolveFailed(j) PROVE StateOK'
    BY <2>8 DEF ResolvedUnchanged, ResolveFailed
  <2>9. CASE ResolvedOther
    BY <2>9 DEF ResolvedOther, BeginRestore
  <2>10. CASE RestoreUp \/ RestoreCreated
    BY <2>10 DEF RestoreUp, RestoreCreated
  <2>11. CASE RestoreRebound \/ RestoreHealthy
    BY <2>11 DEF RestoreRebound, RestoreHealthy
  <2>12. CASE RestoreFailed
    BY <2>12 DEF RestoreFailed
  <2>13. CASE AdoptResolved
    BY <2>13 DEF AdoptResolved
  <2>14. ASSUME NEW j \in Jobs, CurrentRestored(j) \/ RestoreAbandoned(j) PROVE StateOK'
    BY <2>14 DEF CurrentRestored, RestoreAbandoned
  <2> QED
    BY <1>4, <2>1, <2>2, <2>3, <2>4, <2>5, <2>6, <2>7, <2>8, <2>9, <2>10, <2>11, <2>12, <2>13,
       <2>14 DEF ExecuteStep
<1>5. CASE RecoveryStep
  <2>1. ASSUME NEW j \in Jobs, RecoverBeforeMutation(j) \/ RecoverySettled(j) \/ RecoveryRestored(j)
        PROVE  StateOK'
    BY <2>1 DEF RecoverBeforeMutation, RecoverySettled, RecoveryRestored
  <2>2. CASE RecoverStart \/ RecoveryResolve
    BY <2>2 DEF RecoverStart, RecoveryResolve
  <2>3. CASE RecoveryUnprepared
    BY <2>3 DEF RecoveryUnprepared, Die
  <2>4. CASE RecoverySettle
    BY <2>4 DEF RecoverySettle
  <2>5. CASE RecoveryBeginRestore
    BY <2>5 DEF RecoveryBeginRestore
  <2>6. CASE RecoveryUp \/ RecoveryCreated
    BY <2>6 DEF RecoveryUp, RecoveryCreated
  <2>7. CASE RecoveryRebound \/ RecoveryHealthy
    BY <2>7 DEF RecoveryRebound, RecoveryHealthy
  <2>8. CASE StartupBlocked
    BY <2>8 DEF StartupBlocked, Die
  <2> QED
    BY <1>5, <2>1, <2>2, <2>3, <2>4, <2>5, <2>6, <2>7, <2>8 DEF RecoveryStep
<1>6. CASE Crash \/ Restart \/ Listen
  BY <1>6 DEF Crash, Die, Restart, Listen
<1>7. CASE UNCHANGED vars
  BY <1>7 DEF vars
<1> QED
  BY <1>1, <1>2, <1>3, <1>4, <1>5, <1>6, <1>7 DEF Next

\* A step on the row of one job is a step of the jobs table.
LEMMA StepOfTable ==
    ASSUME IInv, StateOK, [Next]_vars
    PROVE  [AsTable!TableNext]_<<state, JobLocks>>
<1>a. state \in [Jobs -> JobState \cup {"absent"}]
  BY DEF IInv, TypeOK
<1>b. JobLocks' = JobLocks
  BY DEF JobLocks
<1>1. ASSUME NEW j \in Jobs, Execute(j) PROVE AsTable!Accept(j)
  BY <1>1, <1>a, <1>b DEF Execute, Active, AsTable!Accept, ACTIVE_STATES,
     AsTable!ACTIVE_STATES
<1>2. ASSUME NEW j \in Jobs, Start(j) PROVE AsTable!Move(j, "running")
  BY <1>2, <1>b DEF Start, StateOK, AsTable!Move, AsTable!CanTransition, AsTable!TRANSITIONS
<1>3. ASSUME NEW j \in Jobs, Ends(j)
      PROVE  AsTable!Move(j, "succeeded") \/ AsTable!Move(j, "failed")
  <2>1. CASE RolledBack(j)
    <3>1. state[j] = "running" /\ state' = [state EXCEPT ![j] = "succeeded"]
      BY <2>1 DEF RolledBack, Finish, StateOK, HandlerPC, BusyPC, AwaitPC
    <3> QED
      BY <3>1, <1>b DEF AsTable!Move, AsTable!CanTransition, AsTable!TRANSITIONS
  <2>2. CASE ~RolledBack(j)
    <3>1. Active(j) /\ state' = [state EXCEPT ![j] = "failed"]
      BY <1>3, <2>2 DEF Ends, ValidationFailed, ResolvedUnchanged, ResolveFailed,
         CurrentRestored, RestoreAbandoned, RecoverBeforeMutation, RecoverySettled,
         RecoveryRestored, Finish
    <3>2. state[j] \in {"queued", "running"}
      BY <3>1, <1>a DEF StateOK, Active, ACTIVE_STATES
    <3> QED
      BY <3>1, <3>2, <1>b DEF AsTable!Move, AsTable!CanTransition, AsTable!TRANSITIONS
  <2> QED
    BY <2>1, <2>2
<1>4. KindOfStep
  BY KindsOfSteps
<1> QED
  BY <1>1, <1>2, <1>3, <1>4, <1>b DEF KindOfStep, AsTable!TableNext, AsTable!JobState

\* The manual rollback keeps to the contract of the jobs table: it inserts a job while no
\* other one is active on the target, and neither its handler nor the recovery after a crash
\* asks JobService for a transition that it refuses.
THEOREM RollbackKeepsContract == Spec => AsTable!TableSpec
<1>1. Init => StateOK /\ AsTable!TableInit
  <2>1. Init => StateOK
    BY DEF Init, StateOK, HandlerPC, Active, ACTIVE_STATES
  <2>2. Init => AsTable!TableInit
    BY DEF Init, AsTable!TableInit, JobLocks
  <2> QED
    BY <2>1, <2>2
<1>2. StateOK /\ IInv /\ [Next]_vars => StateOK'
  BY StateStep
<1>3. IInv /\ StateOK /\ [Next]_vars => [AsTable!TableNext]_<<state, JobLocks>>
  BY StepOfTable
<1> QED
  BY <1>1, <1>2, <1>3, InitEstablishes, StepKeeps, PTL DEF Spec, AsTable!TableSpec

=============================================================================
