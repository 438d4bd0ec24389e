--------------------------- MODULE ManualRollback ---------------------------
(***************************************************************************)
(* The manual rollback of a successful update:                             *)
(* ManualRollbackExecutionService.execute                                  *)
(* (apps/api/src/manual-rollback-execution.ts), the authority it derives   *)
(* from the latest successful update (manual-rollback-candidate.ts), and   *)
(* the recovery that runs before the API listens                           *)
(* (manual-rollback-reconciliation.ts).                                    *)
(*                                                                         *)
(* There is one target, whose latest update is done: the service runs the  *)
(* container that the update created and the target is bound to it.  Its   *)
(* persistent lock admits one rollback job at a time, so one journal, one  *)
(* program counter and one set of local variables serve all jobs.  A step  *)
(* is one database commit, or one await with what follows it up to the     *)
(* next commit; the process can die between any two of them.               *)
(***************************************************************************)
EXTENDS JobStates, Naturals, Sequences, FiniteSets

CONSTANTS
    Jobs,       \* rollback jobs; each confirms the candidate of the update
    Previous,   \* the image that the update replaced
    Updated,    \* the image that the update installed
    MaxFaults,  \* bound on remote calls that fail without a reason the model has, of a
                \* target that is alone on its host or not
    MaxCrashes  \* bound on crashes of the API process, likewise

ASSUME ManualRollbackAssumption ==
    /\ Previous # Updated
    /\ MaxFaults \in [BOOLEAN -> Nat] /\ MaxCrashes \in [BOOLEAN -> Nat]

VARIABLES
    \* the database
    state,       \* jobs.state, "absent" before the insert
    outcome,     \* the outcome in the result of a terminal job
    journal,     \* stage events of the job that holds the lock: name and container
    binding,     \* selected_container_id of the target
    foreign,     \* the container that another target has selected, 0 if none
    \* the API process
    server,      \* "down", "recovering" (before listen) or "up"
    pc,          \* where the handler or the recovery of the job stands
    rollbackId,  \* rollbackContainerId in execute(), 0 for null
    remoteId,    \* remoteContainerId in execute() and in the recovery
    restored,    \* restored.containerId
    discovered,  \* the container a selection request has found
    \* the remote host
    alone,       \* no other target selects its containers, and a command ends with
                 \* the SSH channel it runs on; this never changes
    created,     \* images of the containers in order of creation
    commands,    \* `docker compose up` commands that are still running
    \* the bounds
    faults, crashes

dbVars == <<state, outcome, journal, binding, foreign>>
processVars == <<server, pc, rollbackId, remoteId, restored, discovered>>
remoteVars == <<alone, created, commands>>
vars == <<dbVars, processVars, remoteVars, faults, crashes>>

\* The n-th container ever created is n.  The service consists of the last one.
Containers == 1 .. Len(created)
current == Len(created)
ImageOf(c) == created[c]

\* containerId in the result of the update.
UpdateContainer == 2

\* ManualRollbackCandidateService.read: there is a candidate as long as the target is
\* bound to the container of its latest update; what else it reads (the intent, the
\* sealed snapshot, its image digests) is written once and never changed.
CandidateAvailable == binding = UpdateContainer

StageName ==
    {"lock_acquired", "compose_revalidated", "rollback_started",
     "rollback_replacement_created", "rollback_binding_rebound",
     "rollback_health_verified", "restore_started", "restore_replacement_created",
     "restore_binding_rebound", "restore_health_verified", "recovery_started",
     "recovery_service_resolved", "recovery_restore_started",
     "recovery_restore_replacement_created", "recovery_restore_binding_rebound",
     "recovery_restore_health_verified"}

\* Where control is between two commits with no await in between.
BusyPC == {"created", "rebind", "commit", "restore_rebind", "restore_commit", "abandon",
           "rec_decide", "rec_rebind", "rec_commit"}

AwaitPC == {"validating", "rollback", "up", "health", "resolve", "restore", "restore_up",
            "restore_health", "restore_catch", "rec_resolve", "rec_health",
            "rec_restore", "rec_up", "rec_restore_health"}

RolledBackOutcome == {"rolled_back", "recovered_rollback_verified"}
RestoredOutcome == {"rollback_failed_current_restored", "recovered_current_restored",
                    "recovered_no_remote_change"}
Outcome == RolledBackOutcome \cup RestoredOutcome \cup
    {"failed_before_replacement", "failed_with_no_remote_change",
     "rollback_failed_restore_failed", "recovered_interrupted_before_mutation"}

-----------------------------------------------------------------------------
(* Helpers.                                                                *)

Active(j) == state[j] \in ACTIVE_STATES

Goto(label) == pc' = label

\* appendEvent(job, 'stage', ...) for a stage that carries container c.
Journaled(name, c) == journal' = journal \cup {[stage |-> name, container |-> c]}

HasStage(name) == \E s \in journal : s.stage = name

\* knownContainerIds, and what the recovery that is running has added to it.
Known == {s.container : s \in journal} \ {0}

\* provenContainerIds of some stages.
Proven(names) == {s.container : s \in {r \in journal : r.stage \in names}}
ProvenRollback == Proven({"rollback_replacement_created"})
ProvenRestore ==
    Proven({"restore_replacement_created", "recovery_restore_replacement_created"})

\* rebindKnown: the binding is already c, or the compare-and-swap from an allowed
\* container to c succeeds; the unique index on (host, container) refuses a
\* container that another target has.
MayRebind(allowed, c) == binding = c \/ (binding \in allowed /\ foreign # c)

\* A remote call fails: because it must, or by one of the bounded faults.
FailsBecause(reason) ==
    IF reason THEN UNCHANGED faults
    ELSE faults < MaxFaults[alone] /\ faults' = faults + 1

Awaited == {c \in commands : c.awaited}

IssueUp(i) == commands' = commands \cup {[image |-> i, awaited |-> TRUE]}

\* The handler stops waiting: its command ends with the channel, or goes on.
Abandon ==
    commands' = (commands \ Awaited) \cup
        (IF alone THEN {} ELSE {[c EXCEPT !.awaited = FALSE] : c \in Awaited})

\* What replaceComposeServiceImage checks after `up`.
Recreated(previous, i) == current # previous /\ ImageOf(current) = i

Finish(j, s, o) ==
    /\ Active(j)
    /\ state' = [state EXCEPT ![j] = s]
    /\ outcome' = [outcome EXCEPT ![j] = o]
    /\ Goto("idle")
    /\ UNCHANGED <<journal, binding, foreign, server, rollbackId, remoteId, restored,
                   discovered>>

-----------------------------------------------------------------------------
(* Initial state: the update has replaced container 1 by container 2.      *)

Init ==
    /\ state = [j \in Jobs |-> "absent"]
    /\ outcome = [j \in Jobs |-> "none"]
    /\ journal = {}
    /\ binding = UpdateContainer
    /\ foreign = 0
    /\ server = "up" /\ pc = "idle"
    /\ rollbackId = 0 /\ remoteId = 0 /\ restored = 0 /\ discovered = 0
    /\ alone \in BOOLEAN
    /\ created = <<Previous, Updated>>
    /\ commands = {}
    /\ faults = 0 /\ crashes = 0

-----------------------------------------------------------------------------
(* The remote host, and another target on it.                              *)

RemoteUp(c) ==
    /\ c \in commands
    /\ created' = Append(created, c.image)
    /\ commands' = commands \ {c}
    /\ UNCHANGED <<alone, dbVars, processVars, faults, crashes>>

\* TargetDiscoveryService.select awaits the list of running containers ...
Discover ==
    /\ ~alone
    /\ server = "up" /\ pc \notin BusyPC
    /\ foreign = 0 /\ discovered = 0
    /\ discovered' = current
    /\ UNCHANGED <<dbVars, server, pc, rollbackId, remoteId, restored, remoteVars,
                   faults, crashes>>

\* ... and saveSelection adds a target for it, unless a target has that container.
SaveSelection ==
    /\ server = "up" /\ pc \notin BusyPC
    /\ discovered # 0
    /\ foreign' = IF binding = discovered THEN foreign ELSE discovered
    /\ discovered' = 0
    /\ UNCHANGED <<state, outcome, journal, binding, server, pc, rollbackId, remoteId,
                   restored, remoteVars, faults, crashes>>

-----------------------------------------------------------------------------
(* execute().                                                              *)

\* prepare(): the confirmation names the candidate, host and credential are there.
Prepared == CandidateAvailable

\* jobs.create() takes the lock.
Execute(j) ==
    /\ server = "up" /\ pc = "idle"
    /\ state[j] = "absent"
    /\ Prepared
    /\ \A k \in Jobs : ~Active(k)
    /\ state' = [state EXCEPT ![j] = "queued"]
    /\ journal' = {}
    /\ Goto("created")
    /\ rollbackId' = 0 /\ remoteId' = 0 /\ restored' = 0
    /\ UNCHANGED <<outcome, binding, foreign, server, discovered, remoteVars, faults, crashes>>

\* transition(running), prepare() again under the lock, the audit record and the
\* lock_acquired event.
Start(j) ==
    /\ pc = "created" /\ Active(j)
    /\ Prepared
    /\ state' = [state EXCEPT ![j] = "running"]
    /\ Journaled("lock_acquired", UpdateContainer)
    /\ Goto("validating")
    /\ UNCHANGED <<outcome, binding, foreign, server, rollbackId, remoteId, restored,
                   discovered, remoteVars, faults, crashes>>

\* validateCompose: the service still consists of the container of the update.
Validated ==
    /\ pc = "validating"
    /\ current = UpdateContainer
    /\ journal' = journal \cup
          {[stage |-> s, container |-> UpdateContainer] :
              s \in {"compose_revalidated", "rollback_started"}}
    /\ Goto("rollback")
    /\ UNCHANGED <<state, outcome, binding, foreign, server, rollbackId, remoteId,
                   restored, discovered, remoteVars, faults, crashes>>

\* failKnownNoChange: nothing was attempted.
ValidationFailed(j) ==
    /\ pc = "validating"
    /\ FailsBecause(current # UpdateContainer)
    /\ Finish(j, "failed", "failed_before_replacement")
    /\ UNCHANGED <<remoteVars, crashes>>

\* replace(rollback image, local-only).
RollbackUp ==
    /\ pc = "rollback"
    /\ IssueUp(Previous)
    /\ Goto("up")
    /\ UNCHANGED <<dbVars, server, rollbackId, remoteId, restored, discovered, alone, created,
                   faults, crashes>>

RollbackCreated ==
    /\ pc = "up" /\ Awaited = {}
    /\ Recreated(UpdateContainer, Previous)
    /\ rollbackId' = current
    /\ Journaled("rollback_replacement_created", current)
    /\ Goto("rebind")
    /\ UNCHANGED <<state, outcome, binding, foreign, server, remoteId, restored,
                   discovered, remoteVars, faults, crashes>>

\* Mutant of RollbackRebound: the binding stays with the container of the update.
RollbackReboundLater ==
    /\ pc = "rebind"
    /\ Journaled("rollback_binding_rebound", rollbackId)
    /\ Goto("health")
    /\ UNCHANGED <<state, outcome, binding, foreign, server, rollbackId, remoteId,
                   restored, discovered, remoteVars, faults, crashes>>

RollbackRebound ==
    /\ pc = "rebind"
    /\ MayRebind({UpdateContainer}, rollbackId)
    /\ binding' = rollbackId
    /\ Journaled("rollback_binding_rebound", rollbackId)
    /\ Goto("health")
    /\ UNCHANGED <<state, outcome, foreign, server, rollbackId, remoteId, restored,
                   discovered, remoteVars, faults, crashes>>

RollbackHealthy ==
    /\ pc = "health"
    /\ current = rollbackId
    /\ Journaled("rollback_health_verified", rollbackId)
    /\ Goto("commit")
    /\ UNCHANGED <<state, outcome, binding, foreign, server, rollbackId, remoteId,
                   restored, discovered, remoteVars, faults, crashes>>

RolledBack(j) ==
    /\ pc = "commit"
    /\ Finish(j, "succeeded", "rolled_back")
    /\ UNCHANGED <<remoteVars, faults, crashes>>

-----------------------------------------------------------------------------
(* The catch block of execute().                                           *)

\* The restore_started event; c is the container to get rid of.
BeginRestore(c) ==
    /\ remoteId' = c
    /\ Journaled("restore_started", c)
    /\ Goto("restore")
    /\ UNCHANGED <<state, outcome, binding, foreign, server, rollbackId, restored, discovered>>

\* replace() fails: the service has to be resolved.
RollbackFailed ==
    /\ pc \in {"rollback", "up"}
    /\ FailsBecause(pc = "up" /\ Awaited = {} /\ ~Recreated(UpdateContainer, Previous))
    /\ Abandon
    /\ Goto("resolve")
    /\ UNCHANGED <<dbVars, server, rollbackId, remoteId, restored, discovered, alone, created, crashes>>

\* ROLLBACK_REBIND_FAILED, ROLLBACK_HEALTH_DEGRADED, or the health read throws.
RollbackUnusable ==
    /\ \/ /\ pc = "rebind"
          /\ ~MayRebind({UpdateContainer}, rollbackId)
          /\ UNCHANGED faults
       \/ pc = "health" /\ FailsBecause(current # rollbackId)
    /\ BeginRestore(rollbackId)
    /\ UNCHANGED <<remoteVars, crashes>>

\* Mutant of ResolvedUnchanged: any container that is resolved is accepted.
ResolvedAnything(j) ==
    /\ pc = "resolve"
    /\ Finish(j, "failed", "failed_with_no_remote_change")
    /\ UNCHANGED <<remoteVars, faults, crashes>>

\* failKnownNoChange: the service still consists of the container of the update.
ResolvedUnchanged(j) ==
    /\ pc = "resolve"
    /\ current = UpdateContainer
    /\ Finish(j, "failed", "failed_with_no_remote_change")
    /\ UNCHANGED <<remoteVars, faults, crashes>>

ResolvedOther ==
    /\ pc = "resolve"
    /\ current # UpdateContainer
    /\ BeginRestore(current)
    /\ UNCHANGED <<remoteVars, faults, crashes>>

\* REMOTE_STATE_UNRESOLVED.
ResolveFailed(j) ==
    /\ pc = "resolve"
    /\ FailsBecause(FALSE)
    /\ Finish(j, "failed", "rollback_failed_restore_failed")
    /\ UNCHANGED <<remoteVars, crashes>>

\* replace(current image, local-only).
RestoreUp ==
    /\ pc = "restore"
    /\ IssueUp(Updated)
    /\ Goto("restore_up")
    /\ UNCHANGED <<dbVars, server, rollbackId, remoteId, restored, discovered, alone, created,
                   faults, crashes>>

RestoreCreated ==
    /\ pc = "restore_up" /\ Awaited = {}
    /\ Recreated(remoteId, Updated)
    /\ restored' = current
    /\ Journaled("restore_replacement_created", current)
    /\ Goto("restore_rebind")
    /\ UNCHANGED <<state, outcome, binding, foreign, server, rollbackId, remoteId,
                   discovered, remoteVars, faults, crashes>>

\* The containers that the restore may move the binding away from.
RestoreFrom == {UpdateContainer, remoteId, rollbackId} \ {0}

RestoreRebound ==
    /\ pc = "restore_rebind"
    /\ MayRebind(RestoreFrom, restored)
    /\ binding' = restored
    /\ Journaled("restore_binding_rebound", restored)
    /\ Goto("restore_health")
    /\ UNCHANGED <<state, outcome, foreign, server, rollbackId, remoteId, restored,
                   discovered, remoteVars, faults, crashes>>

RestoreHealthy ==
    /\ pc = "restore_health"
    /\ current = restored
    /\ Journaled("restore_health_verified", restored)
    /\ Goto("restore_commit")
    /\ UNCHANGED <<state, outcome, binding, foreign, server, rollbackId, remoteId,
                   restored, discovered, remoteVars, faults, crashes>>

CurrentRestored(j) ==
    /\ pc = "restore_commit"
    /\ Finish(j, "failed", "rollback_failed_current_restored")
    /\ UNCHANGED <<remoteVars, faults, crashes>>

RestoreFailed ==
    /\ \/ /\ pc \in {"restore", "restore_up"}
          /\ FailsBecause(pc = "restore_up" /\ Awaited = {} /\ ~Recreated(remoteId, Updated))
       \/ /\ pc = "restore_rebind"
          /\ ~MayRebind(RestoreFrom, restored)
          /\ UNCHANGED faults
       \/ pc = "restore_health" /\ FailsBecause(current # restored)
    /\ Abandon
    /\ Goto("restore_catch")
    /\ UNCHANGED <<dbVars, server, rollbackId, remoteId, restored, discovered, alone, created, crashes>>

\* Best effort: bind the target to whatever the service consists of now, without
\* an event.
AdoptResolved ==
    /\ pc = "restore_catch"
    /\ \/ /\ UNCHANGED faults
          /\ binding' = IF MayRebind(RestoreFrom, current) THEN current ELSE binding
       \/ FailsBecause(FALSE) /\ UNCHANGED binding
    /\ Goto("abandon")
    /\ UNCHANGED <<state, outcome, journal, foreign, server, rollbackId, remoteId,
                   restored, discovered, remoteVars, crashes>>

RestoreAbandoned(j) ==
    /\ pc = "abandon"
    /\ Finish(j, "failed", "rollback_failed_restore_failed")
    /\ UNCHANGED <<remoteVars, faults, crashes>>

-----------------------------------------------------------------------------
(* Crash, restart, and the recovery that runs before the API listens.      *)

Die ==
    /\ server' = "down"
    /\ Goto(IF \E j \in Jobs : Active(j) THEN "pending" ELSE "idle")
    /\ rollbackId' = 0 /\ remoteId' = 0 /\ restored' = 0 /\ discovered' = 0
    /\ Abandon
    /\ UNCHANGED <<dbVars, alone, created>>

Crash ==
    /\ server # "down"
    /\ crashes < MaxCrashes[alone] /\ crashes' = crashes + 1
    /\ UNCHANGED faults
    /\ Die

Restart ==
    /\ server = "down"
    /\ server' = "recovering"
    /\ UNCHANGED <<dbVars, pc, rollbackId, remoteId, restored, discovered, remoteVars,
                   faults, crashes>>

\* reconcile() has gone through the pending job: app.listen().
Listen ==
    /\ server = "recovering" /\ pc = "idle"
    /\ server' = "up"
    /\ UNCHANGED <<dbVars, pc, rollbackId, remoteId, restored, discovered, remoteVars,
                   faults, crashes>>

\* Mutant of RecoverBeforeMutation: a job that is still queued is passed over.
RecoverRunningBeforeMutation(j) ==
    /\ server = "recovering" /\ pc = "pending"
    /\ ~HasStage("rollback_started")
    /\ state[j] = "running"
    /\ Finish(j, "failed", "recovered_interrupted_before_mutation")
    /\ UNCHANGED <<remoteVars, faults, crashes>>

\* finalizeBeforeMutation.
RecoverBeforeMutation(j) ==
    /\ server = "recovering" /\ pc = "pending"
    /\ ~HasStage("rollback_started")
    /\ Finish(j, "failed", "recovered_interrupted_before_mutation")
    /\ UNCHANGED <<remoteVars, faults, crashes>>

\* reconcileStarted.
RecoverStart ==
    /\ server = "recovering" /\ pc = "pending"
    /\ HasStage("rollback_started")
    /\ Journaled("recovery_started", 0)
    /\ Goto("rec_resolve")
    /\ UNCHANGED <<state, outcome, binding, foreign, server, rollbackId, remoteId,
                   restored, discovered, remoteVars, faults, crashes>>

\* prepare() throws, without the master key or the credential: the start is blocked.
RecoveryUnprepared ==
    /\ server = "recovering" /\ pc = "pending"
    /\ HasStage("rollback_started")
    /\ FailsBecause(FALSE)
    /\ Die
    /\ UNCHANGED crashes

RecoveryResolve ==
    /\ pc = "rec_resolve"
    /\ remoteId' = current
    /\ Journaled("recovery_service_resolved", current)
    /\ Goto("rec_decide")
    /\ UNCHANGED <<state, outcome, binding, foreign, server, rollbackId, restored,
                   discovered, remoteVars, faults, crashes>>

\* Mutant of RecoverySettle: a container that the journal does not prove is adopted.
RecoverySettleUnproven ==
    /\ pc = "rec_decide"
    /\ MayRebind(Known, remoteId)
    /\ binding' = remoteId
    /\ Goto("rec_health")
    /\ UNCHANGED <<state, outcome, journal, foreign, server, rollbackId, remoteId,
                   restored, discovered, remoteVars, faults, crashes>>

\* The service consists of the container of the update, or of one that the journal
\* proves to be a restore or a rollback: bind the target to it.
RecoverySettle ==
    /\ pc = "rec_decide"
    /\ remoteId \in {UpdateContainer} \cup ProvenRestore \cup ProvenRollback
    /\ MayRebind(Known, remoteId)
    /\ binding' = remoteId
    /\ Goto("rec_health")
    /\ UNCHANGED <<state, outcome, journal, foreign, server, rollbackId, remoteId,
                   restored, discovered, remoteVars, faults, crashes>>

\* finalize() of a container that is healthy.
RecoverySettled(j) ==
    /\ pc = "rec_health"
    /\ current = remoteId
    /\ Finish(j, "failed",
              CASE remoteId = UpdateContainer -> "recovered_no_remote_change"
                [] remoteId \in ProvenRestore -> "recovered_current_restored"
                [] OTHER -> "recovered_rollback_verified")
    /\ UNCHANGED <<remoteVars, faults, crashes>>

\* restoreCurrent(): the service changed and nothing proves to what, or what is
\* proven does not answer.
RecoveryBeginRestore ==
    /\ \/ /\ pc = "rec_decide"
          /\ binding \in Known
          /\ remoteId \notin {UpdateContainer} \cup ProvenRestore \cup ProvenRollback
          /\ UNCHANGED faults
       \/ /\ pc = "rec_health"
          /\ remoteId # UpdateContainer
          /\ FailsBecause(current # remoteId)
    /\ Journaled("recovery_restore_started", remoteId)
    /\ Goto("rec_restore")
    /\ UNCHANGED <<state, outcome, binding, foreign, server, rollbackId, remoteId,
                   restored, discovered, remoteVars, crashes>>

RecoveryUp ==
    /\ pc = "rec_restore"
    /\ IssueUp(Updated)
    /\ Goto("rec_up")
    /\ UNCHANGED <<dbVars, server, rollbackId, remoteId, restored, discovered, alone, created,
                   faults, crashes>>

RecoveryCreated ==
    /\ pc = "rec_up" /\ Awaited = {}
    /\ Recreated(remoteId, Updated)
    /\ restored' = current
    /\ Journaled("recovery_restore_replacement_created", current)
    /\ Goto("rec_rebind")
    /\ UNCHANGED <<state, outcome, binding, foreign, server, rollbackId, remoteId,
                   discovered, remoteVars, faults, crashes>>

RecoveryRebound ==
    /\ pc = "rec_rebind"
    /\ MayRebind(Known, restored)
    /\ binding' = restored
    /\ Journaled("recovery_restore_binding_rebound", restored)
    /\ Goto("rec_restore_health")
    /\ UNCHANGED <<state, outcome, foreign, server, rollbackId, remoteId, restored,
                   discovered, remoteVars, faults, crashes>>

RecoveryHealthy ==
    /\ pc = "rec_restore_health"
    /\ current = restored
    /\ Journaled("recovery_restore_health_verified", restored)
    /\ Goto("rec_commit")
    /\ UNCHANGED <<state, outcome, binding, foreign, server, rollbackId, remoteId,
                   restored, discovered, remoteVars, faults, crashes>>

RecoveryRestored(j) ==
    /\ pc = "rec_commit"
    /\ Finish(j, "failed", "recovered_current_restored")
    /\ UNCHANGED <<remoteVars, faults, crashes>>

\* reconcile() throws, the onReady hook fails, the process exits; the next start
\* tries again.
StartupBlocked ==
    /\ \/ /\ pc = "rec_decide"
          /\ \/ binding \notin Known
             \/ /\ remoteId \in {UpdateContainer} \cup ProvenRestore \cup ProvenRollback
                /\ ~MayRebind(Known, remoteId)
          /\ UNCHANGED faults
       \/ /\ pc = "rec_rebind"
          /\ ~MayRebind(Known, restored)
          /\ UNCHANGED faults
       \/ pc \in {"rec_resolve", "rec_restore"} /\ FailsBecause(FALSE)
       \/ /\ pc = "rec_up"
          /\ FailsBecause(Awaited = {} /\ ~Recreated(remoteId, Updated))
       \/ /\ pc = "rec_health"
          /\ remoteId = UpdateContainer
          /\ FailsBecause(current # remoteId)
       \/ pc = "rec_restore_health" /\ FailsBecause(current # restored)
    /\ Die
    /\ UNCHANGED crashes

-----------------------------------------------------------------------------
(* The specification.                                                      *)

ExecuteStep ==
    \/ \E j \in Jobs : Start(j) \/ ValidationFailed(j) \/ RolledBack(j)
    \/ Validated \/ RollbackUp \/ RollbackCreated \/ RollbackRebound \/ RollbackHealthy
    \/ RollbackFailed \/ RollbackUnusable \/ ResolvedOther
    \/ \E j \in Jobs : ResolvedUnchanged(j) \/ ResolveFailed(j)
    \/ RestoreUp \/ RestoreCreated \/ RestoreRebound \/ RestoreHealthy
    \/ RestoreFailed \/ AdoptResolved
    \/ \E j \in Jobs : CurrentRestored(j) \/ RestoreAbandoned(j)

RecoveryStep ==
    \/ \E j \in Jobs : RecoverBeforeMutation(j) \/ RecoverySettled(j) \/ RecoveryRestored(j)
    \/ RecoverStart \/ RecoveryUnprepared \/ RecoveryResolve \/ RecoverySettle
    \/ RecoveryBeginRestore
    \/ RecoveryUp \/ RecoveryCreated \/ RecoveryRebound \/ RecoveryHealthy
    \/ StartupBlocked

Next ==
    \/ \E c \in commands : RemoteUp(c)
    \/ Discover \/ SaveSelection
    \/ \E j \in Jobs : Execute(j)
    \/ ExecuteStep \/ RecoveryStep
    \/ Crash \/ Restart \/ Listen

\* The event loop runs the handler it has started, each remote call ends, a
\* command that was issued takes effect, and the process is restarted.
Fairness ==
    /\ WF_vars(ExecuteStep) /\ WF_vars(RecoveryStep)
    /\ WF_vars(\E c \in commands : RemoteUp(c))
    /\ WF_vars(Restart) /\ WF_vars(Listen)

Spec == Init /\ [][Next]_vars

FairSpec == Spec /\ Fairness

-----------------------------------------------------------------------------
(* Properties.                                                             *)

\* The type of every variable; the containers in it exist.
TypeOK ==
    /\ state \in [Jobs -> JobState \cup {"absent"}]
    /\ outcome \in [Jobs -> Outcome \cup {"none"}]
    /\ journal \subseteq [stage : StageName, container : {0} \cup Containers]
    /\ binding \in Containers /\ foreign \in {0} \cup Containers
    /\ alone \in BOOLEAN /\ server \in {"down", "recovering", "up"}
    /\ pc \in BusyPC \cup AwaitPC \cup {"idle", "pending"}
    /\ {rollbackId, remoteId, restored, discovered} \subseteq {0} \cup Containers
    /\ created \in Seq({Previous, Updated})
    /\ commands \subseteq [image : {Previous, Updated}, awaited : BOOLEAN]
    /\ faults \in Nat /\ crashes \in Nat

\* When no rollback is open and none has ended without knowing, a target that is alone
\* is bound to the container that the service consists of, whatever was interrupted.
BindingTracksService ==
    /\ alone
    /\ \A j \in Jobs : ~Active(j) /\ outcome[j] # "rollback_failed_restore_failed"
    => binding = current

\* What the journal proves happened: a container recorded as a rollback runs the
\* previous image, one recorded as a restore runs the image of the update.
JournalProvesImages ==
    /\ \A c \in ProvenRollback : c \in Containers /\ ImageOf(c) = Previous
    /\ \A c \in ProvenRestore : c \in Containers /\ ImageOf(c) = Updated

\* The container c has answered a health check, in this step or in the journal.
Verified(c) ==
    \/ pc = "rec_health" /\ current = c
    \/ \E s \in journal :
          /\ s.container = c
          /\ s.stage \in {"rollback_health_verified", "restore_health_verified",
                          "recovery_restore_health_verified"}

\* A job that ends with a verdict ends bound to a container that answered and that
\* runs the image the verdict speaks of.
VerdictHasEvidence ==
    \A j \in Jobs : Active(j) /\ state'[j] \in TERMINAL_STATES =>
        /\ outcome'[j] \in RolledBackOutcome =>
              Verified(binding) /\ ImageOf(binding) = Previous
        /\ outcome'[j] \in RestoredOutcome =>
              Verified(binding) /\ ImageOf(binding) = Updated

OutcomeIsVerified == [][VerdictHasEvidence]_vars

\* The rollback seen as a transaction on the image of the service.
TxPhase ==
    [j \in Jobs |->
        CASE state[j] = "absent" -> "idle"
          [] Active(j) -> "open"
          [] outcome[j] \in RolledBackOutcome -> "updated"
          [] outcome[j] = "rollback_failed_restore_failed" -> "unverified"
          [] OTHER -> "reverted"]

InReplacement == (\E j \in Jobs : Active(j)) /\ HasStage("rollback_started")

TxServed ==
    [t \in {"target"} |-> IF InReplacement THEN Updated ELSE ImageOf(current)]

Tx == INSTANCE UpdateTx WITH
    Targets <- {"target"}, Images <- {Previous, Updated},
    TargetOf <- [j \in Jobs |-> "target"], CandidateOf <- [j \in Jobs |-> Previous],
    phase <- IF alone THEN TxPhase ELSE [j \in Jobs |-> "idle"],
    served <- IF alone THEN TxServed ELSE [t \in {"target"} |-> Updated]

\* A rollback of a target that is alone takes effect or leaves the update in place as a
\* whole, or says that it does not know: it implements UpdateTx.
RollbackIsAtomic == Tx!TxSpec

\* A rollback of a target that is alone ends.
RollbackEnds == \A j \in Jobs : alone /\ Active(j) ~> state[j] \in TERMINAL_STATES

\* Whenever no rollback is open a target that is alone is bound to the running container,
\* and the containers that the journal names run the images it says, whoever else works on
\* the host.
RollbackInvariant == TypeOK /\ BindingTracksService /\ JournalProvesImages

=============================================================================
