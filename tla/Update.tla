------------------------------- MODULE Update -------------------------------
(***************************************************************************)
(* The container update transaction: UpdateOrchestratorService.execute     *)
(* (apps/api/src/update-orchestrator.ts), the recovery that runs before    *)
(* the API listens (apps/api/src/update-reconciliation.ts), the Compose    *)
(* commands both issue over SSH (packages/docker/src/compose-*.ts) and the *)
(* binding table both rewrite (packages/db/src/target-binding.ts).         *)
(*                                                                         *)
(* A step is one database commit, or one await with what follows it up to  *)
(* the next commit.  The API is one thread: between two awaits no other    *)
(* handler runs, but the process can die between any two commits.  The     *)
(* Compose service is one remote container at a time, and its `up` takes   *)
(* effect on its own, some time after it was issued.                       *)
(***************************************************************************)
EXTENDS JobStates, Naturals, Sequences

CONSTANTS
    Jobs,        \* update jobs; each executes an intent of its own
    Targets,     \* targets of the host; they all address its one service
    Images,      \* image digests
    TargetOf,    \* the target of a job, unless there is only one on the host
    CandidateOf, \* the candidate digest of the intent of a job
    FirstTarget, \* the target that is selected in the initial state
    Detached,    \* on a host that is shared, does a remote command outlive its SSH channel?
    MaxFaults,   \* bound on remote calls that fail without a reason the model has, of a
                 \* target that is alone on its host or not
    MaxCrashes   \* bound on crashes of the API process, likewise

ASSUME UpdateAssumption ==
    /\ TargetOf \in [Jobs -> Targets]
    /\ CandidateOf \in [Jobs -> Images]
    /\ FirstTarget \in Targets
    /\ Detached \in BOOLEAN
    /\ MaxFaults \in [BOOLEAN -> Nat] /\ MaxCrashes \in [BOOLEAN -> Nat]

VARIABLES
    \* the database
    state,       \* jobs.state, "absent" before the insert
    outcome,     \* the outcome in the result of a terminal job
    stages,      \* the stage events of a job: name and the container they carry
    old,         \* container of the snapshot that the intent of a job refers to
    binding,     \* selected_container_id of a target, 0 if it does not exist
    \* the API process
    server,      \* "down", "recovering" (before listen) or "up"
    pc,          \* where the handler or the recovery of a job stands
    candidate,   \* candidateContainerId in execute()
    remoteId,    \* remoteContainerId in execute() and in the recovery
    fresh,       \* the container a rollback has created or a recovery settles on
    discovered,  \* the container a selection request has found
    \* the remote host
    alone,       \* the first target is the only one on the host, and a command ends with
                 \* the SSH channel it runs on; this never changes
    created,     \* containers in order of creation: image, configured by tag?
    commands,    \* `docker compose up` commands that are still running
    \* the bounds
    faults, crashes

dbVars == <<state, outcome, stages, old, binding>>
processVars == <<server, pc, candidate, remoteId, fresh, discovered>>
remoteVars == <<alone, created, commands>>
vars == <<dbVars, processVars, remoteVars, faults, crashes>>

\* Container identifiers are never reused: the n-th container ever created is n,
\* and 0 is no container.  The service consists of the one created last, because
\* --force-recreate replaces its predecessor.
Containers == 1 .. Len(created)
current == Len(created)

ImageOf(c) == created[c].image

StageName ==
    {"lock_acquired", "compose_revalidated", "forward_started", "replacement_created",
     "binding_rebound", "health_verified", "rollback_started",
     "rollback_replacement_created", "rollback_binding_rebound",
     "rollback_health_verified", "recovery_started", "recovery_service_resolved",
     "recovery_rollback_started", "recovery_rollback_replacement_created",
     "recovery_binding_rebound", "recovery_health_verified"}

\* Where control is between two commits with no await in between.
BusyPC == {"created", "rebind", "commit", "rb_rebind", "rb_commit", "rb_abandon",
           "rec_decide", "rec_rebind", "rec_commit"}

\* Where a handler of execute() or the recovery of a job awaits the remote host.
AwaitPC == {"validating", "forward", "forward_up", "health", "resolve", "rollback",
            "rollback_up", "rb_health", "rb_catch",
            "rec_resolve", "rec_rollback", "rec_up", "rec_health"}

RecoveryPC == {"rec_resolve", "rec_decide", "rec_rollback", "rec_up", "rec_rebind",
               "rec_health", "rec_commit"}

\* The outcomes that a finished job may carry.
Outcome == {"updated", "failed_before_replacement", "rolled_back", "rollback_failed",
            "recovered_interrupted_before_mutation", "recovered_original_container",
            "recovered_rolled_back"}

StageEvent == [stage : StageName, container : Nat]

Command == [job : Jobs, image : Images, awaited : BOOLEAN]

-----------------------------------------------------------------------------
(* Helpers.                                                                *)

Target(j) == IF alone THEN FirstTarget ELSE TargetOf[j]

Active(j) == state[j] \in ACTIVE_STATES

\* The handler of j may run: no other handler is between two commits.
MayRun(j) == \A k \in Jobs : pc[k] \in BusyPC => k = j

Goto(j, label) == pc' = [pc EXCEPT ![j] = label]

\* appendEvent(j, 'stage', ...) for a stage that carries container c.
WithStage(j, name, c) == [stages EXCEPT ![j] = @ \cup {[stage |-> name, container |-> c]}]

HasStage(j, name) == \E s \in stages[j] : s.stage = name

\* The container identifiers in the journal of j (knownContainerIds, and what the
\* recovery that is running has added to it).
Known(j) == ({old[j]} \cup {s.container : s \in stages[j]}) \ {0}

\* provenRecoveryRollbackIds.
Proven(j) ==
    {s.container : s \in {r \in stages[j] :
        r.stage \in {"rollback_replacement_created", "recovery_rollback_replacement_created"}}}

\* rebindKnown: the binding is already c, or the compare-and-swap from a known
\* container to c succeeds; the unique index on (host, container) makes it fail
\* when another target has selected c.
MayRebind(t, allowed, c) ==
    \/ binding[t] = c
    \/ /\ binding[t] \in allowed
       /\ \A u \in Targets : binding[u] # c

Rebound(t, c) == [binding EXCEPT ![t] = c]

\* A remote call fails: because it must, or by one of the bounded faults.
FailsBecause(reason) ==
    IF reason THEN UNCHANGED faults
    ELSE faults < MaxFaults[alone] /\ faults' = faults + 1

\* The command that the handler of j awaits.
Awaited(j) == {c \in commands : c.job = j /\ c.awaited}

\* The handlers in S stop waiting: a detached command goes on without them, the
\* others end with their channel.
Abandon(S) ==
    commands' = (commands \ S) \cup
        (IF Detached /\ ~alone THEN {[c EXCEPT !.awaited = FALSE] : c \in S} ELSE {})

IssueUp(j, i) == commands' = commands \cup {[job |-> j, image |-> i, awaited |-> TRUE]}

\* What replaceComposeServiceImage checks after `up`: the service resolves to a
\* container that is not the previous one and that runs the requested image.
Recreated(previous, i) == current # previous /\ ImageOf(current) = i

RollbackImage(j) == ImageOf(old[j])

Finish(j, s, o) ==
    /\ state' = [state EXCEPT ![j] = s]
    /\ outcome' = [outcome EXCEPT ![j] = o]
    /\ Goto(j, "idle")

-----------------------------------------------------------------------------
(* Initial state: one target is bound to the running container.            *)

Init ==
    /\ state = [j \in Jobs |-> "absent"]
    /\ outcome = [j \in Jobs |-> "none"]
    /\ stages = [j \in Jobs |-> {}]
    /\ old = [j \in Jobs |-> 0]
    /\ binding = [t \in Targets |-> IF t = FirstTarget THEN 1 ELSE 0]
    /\ server = "up"
    /\ pc = [j \in Jobs |-> "idle"]
    /\ candidate = [j \in Jobs |-> 0]
    /\ remoteId = [j \in Jobs |-> 0]
    /\ fresh = [j \in Jobs |-> 0]
    /\ discovered = 0
    /\ alone \in BOOLEAN
    /\ \E i \in Images, b \in BOOLEAN : created = <<[image |-> i, tagged |-> b]>>
    /\ commands = {}
    /\ faults = 0 /\ crashes = 0

-----------------------------------------------------------------------------
(* The remote host.                                                        *)

\* An `up` takes effect: the service runs a new container, whose configured image
\* is the digest reference of the override, without a tag.
RemoteUp(c) ==
    /\ c \in commands
    /\ created' = Append(created, [image |-> c.image, tagged |-> FALSE])
    /\ commands' = commands \ {c}
    /\ UNCHANGED <<alone, dbVars, processVars, faults, crashes>>

-----------------------------------------------------------------------------
(* Requests.                                                               *)

\* Update preflight, plan and execution intent: the bound container is inspected
\* into a snapshot, so it exists; its image is configured by tag, and the candidate
\* that the tag stands for in the registry differs from it.
PrepareIntent(j) ==
    LET t == Target(j) IN
    /\ server = "up" /\ MayRun(j)
    /\ state[j] = "absent" /\ old[j] = 0
    /\ binding[t] = current
    /\ created[current].tagged
    /\ ImageOf(current) # CandidateOf[j]
    /\ old' = [old EXCEPT ![j] = binding[t]]
    /\ UNCHANGED <<state, outcome, stages, binding, processVars, remoteVars, faults, crashes>>

\* execute(): prepare() refuses a stale binding, jobs.create() takes the lock.
Execute(j) ==
    LET t == Target(j) IN
    /\ server = "up" /\ MayRun(j)
    /\ state[j] = "absent" /\ old[j] # 0
    /\ binding[t] = old[j]
    /\ \A k \in Jobs : Target(k) = t => ~Active(k)
    /\ state' = [state EXCEPT ![j] = "queued"]
    /\ Goto(j, "created")
    /\ UNCHANGED <<outcome, stages, old, binding, server, candidate, remoteId, fresh,
                   discovered, remoteVars, faults, crashes>>

\* TargetDiscoveryService.select: an await that lists the running containers ...
Discover ==
    /\ ~alone
    /\ server = "up" /\ \A k \in Jobs : pc[k] \notin BusyPC
    /\ discovered = 0
    /\ \E t \in Targets : binding[t] = 0
    /\ discovered' = current
    /\ UNCHANGED <<dbVars, server, pc, candidate, remoteId, fresh, remoteVars, faults, crashes>>

\* ... then saveSelection: a new target, unless one with that container exists.
SaveSelection(t) ==
    /\ server = "up" /\ \A k \in Jobs : pc[k] \notin BusyPC
    /\ discovered # 0
    /\ binding[t] = 0
    /\ discovered' = 0
    /\ binding' = IF \E u \in Targets : binding[u] = discovered THEN binding
                  ELSE Rebound(t, discovered)
    /\ UNCHANGED <<state, outcome, stages, old, server, pc, candidate, remoteId, fresh,
                   remoteVars, faults, crashes>>

-----------------------------------------------------------------------------
(* execute(), up to the decision that the update has failed.               *)

\* transition(running), then the lock_acquired event and the first await.
Start(j) ==
    /\ pc[j] = "created"
    /\ state' = [state EXCEPT ![j] = "running"]
    /\ stages' = WithStage(j, "lock_acquired", 0)
    /\ Goto(j, "validating")
    /\ UNCHANGED <<outcome, old, binding, server, candidate, remoteId, fresh, discovered,
                   remoteVars, faults, crashes>>

\* validateCompose: the service still consists of the snapshot's container.  The
\* recovery tells neither event from its predecessor before forward_started is in.
Validated(j) ==
    /\ pc[j] = "validating" /\ MayRun(j)
    /\ current = old[j]
    /\ stages' = [stages EXCEPT ![j] = @ \cup
          {[stage |-> "compose_revalidated", container |-> old[j]],
           [stage |-> "forward_started", container |-> 0]}]
    /\ Goto(j, "forward")
    /\ UNCHANGED <<state, outcome, old, binding, server, candidate, remoteId, fresh,
                   discovered, remoteVars, faults, crashes>>

\* failWithoutRollback, before the forward step.
ValidationFailed(j) ==
    /\ pc[j] = "validating" /\ MayRun(j)
    /\ FailsBecause(current # old[j])
    /\ Finish(j, "failed", "failed_before_replacement")
    /\ UNCHANGED <<stages, old, binding, server, candidate, remoteId, fresh, discovered,
                   remoteVars, crashes>>

\* replace(candidate, pull-exact): the context is validated, the image is there.
ForwardUp(j) ==
    /\ pc[j] = "forward" /\ MayRun(j)
    /\ IssueUp(j, CandidateOf[j])
    /\ Goto(j, "forward_up")
    /\ UNCHANGED <<dbVars, server, candidate, remoteId, fresh, discovered, alone, created, faults,
                   crashes>>

\* replace() returns; the replacement_created event.
ForwardCreated(j) ==
    /\ pc[j] = "forward_up" /\ MayRun(j)
    /\ Awaited(j) = {}
    /\ Recreated(old[j], CandidateOf[j])
    /\ candidate' = [candidate EXCEPT ![j] = current]
    /\ stages' = WithStage(j, "replacement_created", current)
    /\ Goto(j, "rebind")
    /\ UNCHANGED <<state, outcome, old, binding, server, remoteId, fresh, discovered,
                   remoteVars, faults, crashes>>

\* rebindKnown to the candidate, and the binding_rebound event, which adds no
\* container that the journal does not have.
ForwardRebound(j) ==
    LET t == Target(j) IN
    /\ pc[j] = "rebind"
    /\ MayRebind(t, {old[j]}, candidate[j])
    /\ binding' = Rebound(t, candidate[j])
    /\ stages' = WithStage(j, "binding_rebound", candidate[j])
    /\ Goto(j, "health")
    /\ UNCHANGED <<state, outcome, old, server, candidate, remoteId, fresh, discovered,
                   remoteVars, faults, crashes>>

\* The candidate is the running container and answers.
Healthy(j) ==
    /\ pc[j] = "health" /\ MayRun(j)
    /\ current = candidate[j]
    /\ stages' = WithStage(j, "health_verified", candidate[j])
    /\ Goto(j, "commit")
    /\ UNCHANGED <<state, outcome, old, binding, server, candidate, remoteId, fresh,
                   discovered, remoteVars, faults, crashes>>

\* transition(succeeded).
Succeed(j) ==
    /\ pc[j] = "commit"
    /\ Finish(j, "succeeded", "updated")
    /\ UNCHANGED <<stages, old, binding, server, candidate, remoteId, fresh, discovered,
                   remoteVars, faults, crashes>>

-----------------------------------------------------------------------------
(* The catch block of execute().                                           *)

\* The rollback_started event; r is the container to get rid of.
BeginRollback(j, r) ==
    /\ remoteId' = [remoteId EXCEPT ![j] = r]
    /\ stages' = WithStage(j, "rollback_started", r)
    /\ Goto(j, "rollback")

\* replace() fails before `up`, while it waits for it, or on what it finds after
\* it: the candidate is unknown, so the service has to be resolved.
ForwardFailed(j) ==
    /\ pc[j] \in {"forward", "forward_up"} /\ MayRun(j)
    /\ FailsBecause(/\ pc[j] = "forward_up" /\ Awaited(j) = {}
                    /\ ~Recreated(old[j], CandidateOf[j]))
    /\ Abandon(Awaited(j))
    /\ Goto(j, "resolve")
    /\ UNCHANGED <<dbVars, server, candidate, remoteId, fresh, discovered, alone, created, crashes>>

\* TARGET_REBIND_FAILED.
ForwardRebindFailed(j) ==
    /\ pc[j] = "rebind"
    /\ ~MayRebind(Target(j), {old[j]}, candidate[j])
    /\ BeginRollback(j, candidate[j])
    /\ UNCHANGED <<state, outcome, old, binding, server, candidate, fresh, discovered,
                   remoteVars, faults, crashes>>

\* CANDIDATE_HEALTH_DEGRADED, or the health read throws.
Unhealthy(j) ==
    /\ pc[j] = "health" /\ MayRun(j)
    /\ FailsBecause(current # candidate[j])
    /\ BeginRollback(j, candidate[j])
    /\ UNCHANGED <<state, outcome, old, binding, server, candidate, fresh, discovered,
                   remoteVars, crashes>>

\* Mutant of ResolvedOld: the resolved container is not compared with the old one.
ResolvedOldUnchecked(j) ==
    /\ pc[j] = "resolve" /\ MayRun(j)
    /\ Finish(j, "failed", "failed_before_replacement")
    /\ UNCHANGED <<stages, old, binding, server, candidate, remoteId, fresh, discovered,
                   remoteVars, faults, crashes>>

\* The service still consists of the old container: failWithoutRollback.
ResolvedOld(j) ==
    /\ pc[j] = "resolve" /\ MayRun(j)
    /\ current = old[j]
    /\ Finish(j, "failed", "failed_before_replacement")
    /\ UNCHANGED <<stages, old, binding, server, candidate, remoteId, fresh, discovered,
                   remoteVars, faults, crashes>>

ResolvedOther(j) ==
    /\ pc[j] = "resolve" /\ MayRun(j)
    /\ current # old[j]
    /\ BeginRollback(j, current)
    /\ UNCHANGED <<state, outcome, old, binding, server, candidate, fresh, discovered,
                   remoteVars, faults, crashes>>

\* The state of the service cannot be resolved: the job ends, unverified.
ResolveFailed(j) ==
    /\ pc[j] = "resolve" /\ MayRun(j)
    /\ FailsBecause(FALSE)
    /\ Finish(j, "failed", "rollback_failed")
    /\ UNCHANGED <<stages, old, binding, server, candidate, remoteId, fresh, discovered,
                   remoteVars, crashes>>

\* Mutant of RollbackUp: the replacement is journaled before it is created.
RollbackUpJournalsFirst(j) ==
    /\ pc[j] = "rollback" /\ MayRun(j)
    /\ IssueUp(j, RollbackImage(j))
    /\ stages' = WithStage(j, "rollback_replacement_created", remoteId[j])
    /\ Goto(j, "rollback_up")
    /\ UNCHANGED <<state, outcome, old, binding, server, candidate, remoteId, fresh,
                   discovered, alone, created, faults, crashes>>

\* replace(rollback image, local-only).
RollbackUp(j) ==
    /\ pc[j] = "rollback" /\ MayRun(j)
    /\ IssueUp(j, RollbackImage(j))
    /\ Goto(j, "rollback_up")
    /\ UNCHANGED <<dbVars, server, candidate, remoteId, fresh, discovered, alone, created, faults,
                   crashes>>

RollbackCreated(j) ==
    /\ pc[j] = "rollback_up" /\ MayRun(j)
    /\ Awaited(j) = {}
    /\ Recreated(remoteId[j], RollbackImage(j))
    /\ fresh' = [fresh EXCEPT ![j] = current]
    /\ stages' = WithStage(j, "rollback_replacement_created", current)
    /\ Goto(j, "rb_rebind")
    /\ UNCHANGED <<state, outcome, old, binding, server, candidate, remoteId, discovered,
                   remoteVars, faults, crashes>>

\* The containers that the rollback may move the binding away from.
RollbackFrom(j) == {old[j], remoteId[j], candidate[j]} \ {0}

RollbackRebound(j) ==
    LET t == Target(j) IN
    /\ pc[j] = "rb_rebind"
    /\ MayRebind(t, RollbackFrom(j), fresh[j])
    /\ binding' = Rebound(t, fresh[j])
    /\ stages' = WithStage(j, "rollback_binding_rebound", fresh[j])
    /\ Goto(j, "rb_health")
    /\ UNCHANGED <<state, outcome, old, server, candidate, remoteId, fresh, discovered,
                   remoteVars, faults, crashes>>

RollbackHealthy(j) ==
    /\ pc[j] = "rb_health" /\ MayRun(j)
    /\ current = fresh[j]
    /\ stages' = WithStage(j, "rollback_health_verified", fresh[j])
    /\ Goto(j, "rb_commit")
    /\ UNCHANGED <<state, outcome, old, binding, server, candidate, remoteId, fresh,
                   discovered, remoteVars, faults, crashes>>

\* UPDATE_FAILED_ROLLBACK_SUCCEEDED.
RolledBack(j) ==
    /\ pc[j] = "rb_commit"
    /\ Finish(j, "failed", "rolled_back")
    /\ UNCHANGED <<stages, old, binding, server, candidate, remoteId, fresh, discovered,
                   remoteVars, faults, crashes>>

\* The rollback fails, in replace(), in the rebind or in the health check.
RollbackFailed(j) ==
    /\ \/ /\ pc[j] \in {"rollback", "rollback_up"} /\ MayRun(j)
          /\ FailsBecause(/\ pc[j] = "rollback_up" /\ Awaited(j) = {}
                          /\ ~Recreated(remoteId[j], RollbackImage(j)))
       \/ /\ pc[j] = "rb_rebind"
          /\ ~MayRebind(Target(j), RollbackFrom(j), fresh[j])
          /\ UNCHANGED faults
       \/ /\ pc[j] = "rb_health" /\ MayRun(j)
          /\ FailsBecause(current # fresh[j])
    /\ Abandon(Awaited(j))
    /\ Goto(j, "rb_catch")
    /\ UNCHANGED <<dbVars, server, candidate, remoteId, fresh, discovered, alone, created, crashes>>

\* Best effort: bind the target to whatever the service consists of now.
AdoptResolved(j) ==
    LET t == Target(j) IN
    /\ pc[j] = "rb_catch" /\ MayRun(j)
    /\ \/ /\ UNCHANGED faults
          /\ binding' = IF MayRebind(t, RollbackFrom(j), current)
                        THEN Rebound(t, current) ELSE binding
       \/ /\ FailsBecause(FALSE)
          /\ UNCHANGED binding
    /\ Goto(j, "rb_abandon")
    /\ UNCHANGED <<state, outcome, stages, old, server, candidate, remoteId, fresh,
                   discovered, remoteVars, crashes>>

\* UPDATE_FAILED_ROLLBACK_FAILED: the job ends and frees the lock.
RollbackAbandoned(j) ==
    /\ pc[j] = "rb_abandon"
    /\ Finish(j, "failed", "rollback_failed")
    /\ UNCHANGED <<stages, old, binding, server, candidate, remoteId, fresh, discovered,
                   remoteVars, faults, crashes>>

-----------------------------------------------------------------------------
(* Crash, restart, and the recovery that runs before the API listens.      *)

\* The process is gone: what it held in memory is lost, what it waited for is
\* abandoned.
Die ==
    /\ server' = "down"
    /\ pc' = [j \in Jobs |-> IF Active(j) THEN "pending" ELSE "idle"]
    /\ candidate' = [j \in Jobs |-> 0]
    /\ remoteId' = [j \in Jobs |-> 0]
    /\ fresh' = [j \in Jobs |-> 0]
    /\ discovered' = 0
    /\ Abandon({c \in commands : c.awaited})
    /\ UNCHANGED <<dbVars, alone, created>>

Crash ==
    /\ server # "down"
    /\ crashes < MaxCrashes[alone] /\ crashes' = crashes + 1
    /\ UNCHANGED faults
    /\ Die

Restart ==
    /\ server = "down"
    /\ server' = "recovering"
    /\ UNCHANGED <<dbVars, pc, candidate, remoteId, fresh, discovered, remoteVars, faults, crashes>>

\* reconcile() has gone through every job that was not terminal: app.listen().
Listen ==
    /\ server = "recovering"
    /\ \A j \in Jobs : pc[j] = "idle"
    /\ server' = "up"
    /\ UNCHANGED <<dbVars, pc, candidate, remoteId, fresh, discovered, remoteVars, faults, crashes>>

\* reconcile() takes the jobs one after the other; nothing orders jobs created in
\* the same millisecond, and here any of them may be next.
MayRecover(j) ==
    /\ server = "recovering"
    /\ pc[j] = "pending"
    /\ \A k \in Jobs : pc[k] \notin RecoveryPC

\* Mutant of RecoverBeforeForward: a job that is still queued is passed over.
RecoverBeforeForwardIfRunning(j) ==
    /\ MayRecover(j)
    /\ state[j] = "running"
    /\ ~HasStage(j, "forward_started")
    /\ Finish(j, "failed", "recovered_interrupted_before_mutation")
    /\ UNCHANGED <<stages, old, binding, server, candidate, remoteId, fresh, discovered,
                   remoteVars, faults, crashes>>

\* finalizeBeforeForward.
RecoverBeforeForward(j) ==
    /\ MayRecover(j)
    /\ ~HasStage(j, "forward_started")
    /\ Finish(j, "failed", "recovered_interrupted_before_mutation")
    /\ UNCHANGED <<stages, old, binding, server, candidate, remoteId, fresh, discovered,
                   remoteVars, faults, crashes>>

RecoverStart(j) ==
    /\ MayRecover(j)
    /\ HasStage(j, "forward_started")
    /\ stages' = WithStage(j, "recovery_started", 0)
    /\ Goto(j, "rec_resolve")
    /\ UNCHANGED <<state, outcome, old, binding, server, candidate, remoteId, fresh,
                   discovered, remoteVars, faults, crashes>>

RecoveryResolve(j) ==
    /\ pc[j] = "rec_resolve"
    /\ remoteId' = [remoteId EXCEPT ![j] = current]
    /\ stages' = WithStage(j, "recovery_service_resolved", current)
    /\ Goto(j, "rec_decide")
    /\ UNCHANGED <<state, outcome, old, binding, server, candidate, fresh, discovered,
                   remoteVars, faults, crashes>>

\* Mutant of RecoverySettle: any resolved container is settled on.
RecoverySettleAnyKnown(j) ==
    LET t == Target(j) IN
    /\ pc[j] = "rec_decide"
    /\ binding[t] \in Known(j)
    /\ MayRebind(t, Known(j), remoteId[j])
    /\ binding' = Rebound(t, remoteId[j])
    /\ fresh' = [fresh EXCEPT ![j] = remoteId[j]]
    /\ Goto(j, "rec_health")
    /\ UNCHANGED <<state, outcome, stages, old, server, candidate, remoteId, discovered,
                   remoteVars, faults, crashes>>

\* The service consists of the old container, or of one the journal proves to be
\* a rollback: bind the target to it and verify its health.
RecoverySettle(j) ==
    LET t == Target(j) IN
    /\ pc[j] = "rec_decide"
    /\ binding[t] \in Known(j)
    /\ remoteId[j] \in {old[j]} \cup Proven(j)
    /\ MayRebind(t, Known(j), remoteId[j])
    /\ binding' = Rebound(t, remoteId[j])
    /\ fresh' = [fresh EXCEPT ![j] = remoteId[j]]
    /\ Goto(j, "rec_health")
    /\ UNCHANGED <<state, outcome, stages, old, server, candidate, remoteId, discovered,
                   remoteVars, faults, crashes>>

\* Anything else is rolled back, a candidate whose health was verified included.
RecoveryBeginRollback(j) ==
    /\ pc[j] = "rec_decide"
    /\ binding[Target(j)] \in Known(j)
    /\ remoteId[j] \notin {old[j]} \cup Proven(j)
    /\ stages' = WithStage(j, "recovery_rollback_started", remoteId[j])
    /\ Goto(j, "rec_rollback")
    /\ UNCHANGED <<state, outcome, old, binding, server, candidate, remoteId, fresh,
                   discovered, remoteVars, faults, crashes>>

RecoveryUp(j) ==
    /\ pc[j] = "rec_rollback"
    /\ IssueUp(j, RollbackImage(j))
    /\ Goto(j, "rec_up")
    /\ UNCHANGED <<dbVars, server, candidate, remoteId, fresh, discovered, alone, created, faults,
                   crashes>>

RecoveryCreated(j) ==
    /\ pc[j] = "rec_up"
    /\ Awaited(j) = {}
    /\ Recreated(remoteId[j], RollbackImage(j))
    /\ fresh' = [fresh EXCEPT ![j] = current]
    /\ stages' = WithStage(j, "recovery_rollback_replacement_created", current)
    /\ Goto(j, "rec_rebind")
    /\ UNCHANGED <<state, outcome, old, binding, server, candidate, remoteId, discovered,
                   remoteVars, faults, crashes>>

RecoveryRebound(j) ==
    LET t == Target(j) IN
    /\ pc[j] = "rec_rebind"
    /\ MayRebind(t, Known(j), fresh[j])
    /\ binding' = Rebound(t, fresh[j])
    /\ stages' = WithStage(j, "recovery_binding_rebound", fresh[j])
    /\ Goto(j, "rec_health")
    /\ UNCHANGED <<state, outcome, old, server, candidate, remoteId, fresh, discovered,
                   remoteVars, faults, crashes>>

RecoveryHealthy(j) ==
    /\ pc[j] = "rec_health"
    /\ current = fresh[j]
    /\ stages' = WithStage(j, "recovery_health_verified", fresh[j])
    /\ Goto(j, "rec_commit")
    /\ UNCHANGED <<state, outcome, old, binding, server, candidate, remoteId, fresh,
                   discovered, remoteVars, faults, crashes>>

\* finalize().
Recovered(j) ==
    /\ pc[j] = "rec_commit"
    /\ Finish(j, "failed", IF fresh[j] = old[j] THEN "recovered_original_container"
                           ELSE "recovered_rolled_back")
    /\ UNCHANGED <<stages, old, binding, server, candidate, remoteId, fresh, discovered,
                   remoteVars, faults, crashes>>

\* reconcile() throws, the onReady hook fails, the process exits: the job stays as
\* it is and the next start tries again.
StartupBlocked(j) ==
    LET t == Target(j) IN
    /\ \/ /\ pc[j] = "rec_decide"
          /\ \/ binding[t] \notin Known(j)
             \/ /\ remoteId[j] \in {old[j]} \cup Proven(j)
                /\ ~MayRebind(t, Known(j), remoteId[j])
          /\ UNCHANGED faults
       \/ /\ pc[j] = "rec_rebind"
          /\ ~MayRebind(t, Known(j), fresh[j])
          /\ UNCHANGED faults
       \/ /\ pc[j] \in {"rec_resolve", "rec_rollback"}
          /\ FailsBecause(FALSE)
       \/ /\ pc[j] = "rec_up"
          /\ FailsBecause(Awaited(j) = {} /\ ~Recreated(remoteId[j], RollbackImage(j)))
       \/ /\ pc[j] = "rec_health"
          /\ FailsBecause(current # fresh[j])
    /\ Die
    /\ UNCHANGED crashes

-----------------------------------------------------------------------------
(* The specification.                                                      *)

ExecuteStep(j) ==
    \/ Start(j) \/ Validated(j) \/ ValidationFailed(j)
    \/ ForwardUp(j) \/ ForwardCreated(j) \/ ForwardRebound(j) \/ Healthy(j) \/ Succeed(j)
    \/ ForwardFailed(j) \/ ForwardRebindFailed(j) \/ Unhealthy(j)
    \/ ResolvedOld(j) \/ ResolvedOther(j) \/ ResolveFailed(j)
    \/ RollbackUp(j) \/ RollbackCreated(j) \/ RollbackRebound(j) \/ RollbackHealthy(j)
    \/ RolledBack(j) \/ RollbackFailed(j) \/ AdoptResolved(j) \/ RollbackAbandoned(j)

RecoveryStep(j) ==
    \/ RecoverBeforeForward(j) \/ RecoverStart(j) \/ RecoveryResolve(j)
    \/ RecoverySettle(j) \/ RecoveryBeginRollback(j)
    \/ RecoveryUp(j) \/ RecoveryCreated(j) \/ RecoveryRebound(j) \/ RecoveryHealthy(j)
    \/ Recovered(j) \/ StartupBlocked(j)

Next ==
    \/ \E c \in commands : RemoteUp(c)
    \/ \E j \in Jobs : PrepareIntent(j) \/ Execute(j) \/ ExecuteStep(j) \/ RecoveryStep(j)
    \/ Discover \/ \E t \in Targets : SaveSelection(t)
    \/ Crash \/ Restart \/ Listen

\* The event loop runs every handler it has started, each remote call ends (a
\* timeout of two minutes bounds it), a command that was issued takes effect or
\* has failed, and the process is restarted.  Nobody has to send a request.
Fairness ==
    /\ \A j \in Jobs : WF_vars(ExecuteStep(j)) /\ WF_vars(RecoveryStep(j))
    /\ WF_vars(\E c \in commands : RemoteUp(c))
    /\ WF_vars(Restart) /\ WF_vars(Listen)

Spec == Init /\ [][Next]_vars

FairSpec == Spec /\ Fairness

-----------------------------------------------------------------------------
(* Properties.                                                             *)

DatabaseTypeOK ==
    /\ state \in [Jobs -> JobState \cup {"absent"}]
    /\ outcome \in [Jobs -> Outcome \cup {"none"}]
    /\ stages \in [Jobs -> SUBSET StageEvent]
    /\ old \in [Jobs -> Nat]
    /\ binding \in [Targets -> Nat]

ProcessTypeOK ==
    /\ server \in {"down", "recovering", "up"}
    /\ pc \in [Jobs -> BusyPC \cup AwaitPC \cup {"idle", "pending"}]
    /\ candidate \in [Jobs -> Nat]
    /\ remoteId \in [Jobs -> Nat]
    /\ fresh \in [Jobs -> Nat]
    /\ discovered \in Nat

RemoteTypeOK ==
    /\ alone \in BOOLEAN
    /\ created \in Seq([image : Images, tagged : BOOLEAN]) /\ created # <<>>
    /\ commands \subseteq Command

TypeOK ==
    /\ DatabaseTypeOK /\ ProcessTypeOK /\ RemoteTypeOK
    /\ faults \in Nat /\ crashes \in Nat

\* When no update is open and none has ended without knowing, a target that is alone is
\* bound to the container that the service consists of, whatever was interrupted.
BindingTracksService ==
    /\ alone
    /\ \A j \in Jobs : ~Active(j) /\ outcome[j] # "rollback_failed"
    => binding[FirstTarget] = current

\* The journal never proves a rollback that did not happen: a container recorded
\* as a rollback replacement exists and runs the image of the snapshot.
ProvenRollbackRunsOldImage ==
    \A j \in Jobs : \A c \in Proven(j) : c \in Containers /\ ImageOf(c) = RollbackImage(j)

\* A step that ends an update with a verdict finds the evidence for it: the target
\* is bound to a container of the image that the verdict implies, and the journal
\* has the health check of that very container.
VerdictHasEvidence ==
    \A j \in Jobs : Active(j) /\ state'[j] \in TERMINAL_STATES =>
        LET c == binding[Target(j)]
            Runs(i, evidence) == /\ c \in Containers /\ ImageOf(c) = i
                                 /\ [stage |-> evidence, container |-> c] \in stages[j]
        IN /\ outcome'[j] = "updated" => Runs(CandidateOf[j], "health_verified")
           /\ outcome'[j] = "rolled_back" =>
                  Runs(RollbackImage(j), "rollback_health_verified")
           /\ outcome'[j] \in {"recovered_original_container", "recovered_rolled_back"} =>
                  Runs(RollbackImage(j), "recovery_health_verified")

OutcomeIsVerified == [][VerdictHasEvidence]_vars

\* Every update that was accepted ends, across crashes, restarts and blocked starts.
UpdateEnds == \A j \in Jobs : Active(j) ~> state[j] \in TERMINAL_STATES

\* An update of a target that is alone ends.
AloneUpdateEnds == \A j \in Jobs : alone /\ Active(j) ~> state[j] \in TERMINAL_STATES

\* The update seen as a transaction.  What an open update has done to the service
\* does not count before the update has ended.
TxPhase ==
    [j \in Jobs |->
        CASE state[j] = "absent" -> "idle"
          [] Active(j) -> "open"
          [] state[j] = "succeeded" -> "updated"
          [] outcome[j] = "rollback_failed" -> "unverified"
          [] OTHER -> "reverted"]

InForward(j) == Active(j) /\ HasStage(j, "forward_started")

TxServed ==
    [t \in {FirstTarget} |->
        LET S == {j \in Jobs : InForward(j)} IN
        IF S = {} THEN ImageOf(current) ELSE RollbackImage(CHOOSE j \in S : TRUE)]

Tx == INSTANCE UpdateTx WITH
    Targets <- {FirstTarget}, TargetOf <- [j \in Jobs |-> FirstTarget],
    phase <- IF alone THEN TxPhase ELSE [j \in Jobs |-> "idle"],
    served <- IF alone THEN TxServed ELSE [t \in {FirstTarget} |-> CHOOSE i \in Images : TRUE]

\* An update of a target that is alone commits or reverts as a whole, or says that it
\* does not know: it implements UpdateTx.
UpdateIsAtomic == Tx!TxSpec

\* Whenever no update is open a target that is alone is bound to the running container, and
\* a container that the journal proves to be a rollback runs the image before the update,
\* whoever else works on the service.
UpdateInvariant == TypeOK /\ BindingTracksService /\ ProvenRollbackRunsOldImage

=============================================================================
