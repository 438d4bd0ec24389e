--------------------------- MODULE ShortMutations ---------------------------
(***************************************************************************)
(* The short mutations of a target: start, stop and restart of its         *)
(* container (apps/api/src/container-lifecycle.ts), unloading a model      *)
(* (model-unload.ts) and the smoke test of a model (model-smoke.ts), with  *)
(* what happens to them when the API restarts                              *)
(* (short-mutation-reconciliation.ts).                                     *)
(*                                                                         *)
(* The request that starts such a job waits for it.  The lock of the       *)
(* target admits one at a time, so there is one program counter.  The      *)
(* container, the model installed under the confirmed name and the digest  *)
(* that is loaded under it belong to the host: others change them too.     *)
(***************************************************************************)
EXTENDS JobStates, Naturals

CONSTANTS
    Jobs,        \* short jobs
    Digest,      \* the digest that the user has confirmed
    OtherDigest, \* what another user has put under the same model name
    Detached,    \* does a remote command outlive the channel it was sent on?
    MaxForeign,  \* bound on what others do on the host
    MaxFaults,   \* bound on remote calls and audit records that fail
    MaxCrashes   \* bound on crashes of the API process

VARIABLES
    \* the database
    state,      \* jobs.state, "absent" before the insert
    kind,       \* jobs.kind
    metadata,   \* does the row carry metadata, and initialStartedAt in it
    audits,     \* terminal audit records of a job
    \* the API process
    server,     \* "down", "recovering" or "up"
    pc,         \* where the handler or the reconciliation of the active job stands
    \* the host
    running,    \* State.Running of the container
    startedAt,  \* State.StartedAt, as a number of starts
    installed,  \* digest installed under the model name
    loaded,     \* digest loaded under the model name, "none" if it is not loaded
    commands,   \* remote commands that have not ended
    \* the bounds
    foreign, faults, crashes

dbVars == <<state, kind, metadata, audits>>
processVars == <<server, pc>>
hostVars == <<running, startedAt, installed, loaded, commands>>
bounds == <<foreign, faults, crashes>>
vars == <<dbVars, processVars, hostVars, bounds>>

Lifecycle == {"container.start", "container.stop", "container.restart"}
SHORT_KINDS == Lifecycle \cup {"model-unload", "model-smoke-test"}

HostDigests == {Digest, OtherDigest, "none"}

Metadata == [present : BOOLEAN, initialStartedAt : Nat]

AuditRecord == {"verified", "failed", "reconciled_succeeded", "reconciled_failed"}

ProgramCounter == {"idle", "queued", "preflight", "issue", "awaiting", "verified", "commit",
                   "failing", "pending"}

-----------------------------------------------------------------------------
(* Helpers.                                                                *)

Active(j) == state[j] \in ACTIVE_STATES

IsLifecycle(j) == kind[j] \in Lifecycle

Awaited == {c \in commands : c.awaited}

FailsBecause(reason) ==
    IF reason THEN UNCHANGED faults
    ELSE faults < MaxFaults /\ faults' = faults + 1

\* The request stops waiting: its command ends with the channel, or goes on.
Abandon ==
    commands' = (commands \ Awaited) \cup
        (IF Detached THEN {[c EXCEPT !.awaited = FALSE] : c \in Awaited} ELSE {})

Transition(j, s) == state' = [state EXCEPT ![j] = s]

Audit(j, record) == audits' = [audits EXCEPT ![j] = @ \cup {record}]

\* Does the container carry out what a lifecycle job asks for?
ContainerAsRequested(j) ==
    CASE kind[j] = "container.start" -> running
      [] kind[j] = "container.stop" -> ~running
      [] kind[j] = "container.restart" -> running

\* Is the model no longer loaded; is it installed, and not loaded?
ModelUnloaded == running /\ loaded # Digest
ModelIdle == running /\ installed = Digest /\ loaded = "none"

\* What is verified once the command has returned.
AsRequested(j) ==
    CASE IsLifecycle(j) -> ContainerAsRequested(j)
      [] kind[j] = "model-unload" -> ModelUnloaded
      [] kind[j] = "model-smoke-test" -> ModelIdle

-----------------------------------------------------------------------------
(* Initial state.                                                          *)

Init ==
    /\ state = [j \in Jobs |-> "absent"]
    /\ kind \in [Jobs -> SHORT_KINDS]
    /\ metadata = [j \in Jobs |-> [present |-> FALSE, initialStartedAt |-> 0]]
    /\ audits = [j \in Jobs |-> {}]
    /\ server = "up" /\ pc = "idle"
    /\ running \in BOOLEAN
    /\ startedAt = 1
    /\ installed = Digest
    /\ loaded \in IF running THEN {"none", Digest} ELSE {"none"}
    /\ commands = {}
    /\ foreign = 0 /\ faults = 0 /\ crashes = 0

-----------------------------------------------------------------------------
(* The host: commands take effect, and others use it.                      *)

Started == running' = TRUE /\ startedAt' = startedAt + 1 /\ loaded' = "none"
Stopped == running' = FALSE /\ loaded' = "none" /\ UNCHANGED startedAt

\* docker start, stop or restart.
DockerCommand(c) ==
    /\ c \in commands /\ IsLifecycle(c.job)
    /\ CASE kind[c.job] = "container.restart" -> Started
         [] kind[c.job] = "container.start" ->
                IF running THEN UNCHANGED <<running, startedAt, loaded>> ELSE Started
         [] kind[c.job] = "container.stop" -> Stopped
    /\ commands' = commands \ {c}
    /\ UNCHANGED <<dbVars, processVars, installed, bounds>>

\* /api/generate with keep_alive 0 and no prompt: the model is unloaded.
Unload(c) ==
    /\ c \in commands /\ kind[c.job] = "model-unload"
    /\ running
    /\ loaded' = "none"
    /\ commands' = commands \ {c}
    /\ UNCHANGED <<dbVars, processVars, running, startedAt, installed, bounds>>

\* /api/generate with a prompt: the model is loaded, answers ...
Generate(c) ==
    /\ c \in commands /\ kind[c.job] = "model-smoke-test"
    /\ ~c.answering /\ running /\ installed # "none"
    /\ loaded' = installed
    /\ commands' = (commands \ {c}) \cup {[c EXCEPT !.answering = TRUE]}
    /\ UNCHANGED <<dbVars, processVars, running, startedAt, installed, bounds>>

\* ... and is unloaded, because keep_alive is 0.
GenerateEnds(c) ==
    /\ c \in commands /\ c.answering /\ running
    /\ loaded' = "none"
    /\ commands' = commands \ {c}
    /\ UNCHANGED <<dbVars, processVars, running, startedAt, installed, bounds>>

\* Another user stops or starts the container, loads or replaces the model.
OthersAct ==
    /\ foreign < MaxForeign /\ foreign' = foreign + 1
    /\ \/ (IF running THEN Stopped ELSE Started) /\ UNCHANGED installed
       \/ /\ running /\ loaded = "none" /\ installed # "none" /\ loaded' = installed
          /\ UNCHANGED <<running, startedAt, installed>>
       \/ /\ running /\ installed' = IF installed = Digest THEN OtherDigest ELSE Digest
          /\ UNCHANGED <<running, startedAt, loaded>>
    /\ UNCHANGED <<dbVars, processVars, commands, faults, crashes>>

-----------------------------------------------------------------------------
(* execute().                                                              *)

\* The confirmation matches; jobs.create() takes the lock and the request is audited.
Execute(j) ==
    /\ server = "up" /\ pc = "idle"
    /\ state[j] = "absent"
    /\ \A k \in Jobs : ~Active(k)
    /\ Transition(j, "queued")
    /\ pc' = "queued"
    /\ UNCHANGED <<kind, metadata, audits, server, hostVars, bounds>>

\* A lifecycle job runs with the inspection of the container it has awaited.
RunLifecycle(j) ==
    /\ pc = "queued" /\ Active(j) /\ IsLifecycle(j)
    /\ Transition(j, "running")
    /\ metadata' = [metadata EXCEPT ![j] = [present |-> TRUE, initialStartedAt |-> startedAt]]
    /\ pc' = "issue"
    /\ UNCHANGED <<kind, audits, server, hostVars, bounds>>

\* A model job runs with the name, digest and container that were confirmed.
RunModel(j) ==
    /\ pc = "queued" /\ Active(j) /\ ~IsLifecycle(j)
    /\ Transition(j, "running")
    /\ metadata' = [metadata EXCEPT ![j].present = TRUE]
    /\ pc' = "preflight"
    /\ UNCHANGED <<kind, audits, server, hostVars, bounds>>

\* Unload: exactly the confirmed digest is loaded under the name.
UnloadPreflight(j) == kind[j] = "model-unload" /\ running /\ loaded = Digest

\* Smoke test: the confirmed digest is installed and nothing is loaded under the name.
SmokePreflight(j) == kind[j] = "model-smoke-test" /\ ModelIdle

Preflighted(j) ==
    /\ pc = "preflight" /\ Active(j)
    /\ UnloadPreflight(j) \/ SmokePreflight(j)
    /\ pc' = "issue"
    /\ UNCHANGED <<dbVars, server, hostVars, bounds>>

Issue(j) ==
    /\ pc = "issue" /\ Active(j)
    /\ commands' = commands \cup {[job |-> j, answering |-> FALSE, awaited |-> TRUE]}
    /\ pc' = "awaiting"
    /\ UNCHANGED <<dbVars, server, running, startedAt, installed, loaded, bounds>>

\* changeDockerContainerState inspects the container after the command.
VerifyLifecycle(j) ==
    /\ pc = "awaiting" /\ Active(j) /\ IsLifecycle(j)
    /\ Awaited = {}
    /\ ContainerAsRequested(j)
    /\ pc' = "verified"
    /\ UNCHANGED <<dbVars, server, hostVars, bounds>>

\* Unload: the digest is gone from /api/ps.
VerifyUnload(j) ==
    /\ pc = "awaiting" /\ Active(j) /\ kind[j] = "model-unload"
    /\ Awaited = {}
    /\ ModelUnloaded
    /\ pc' = "verified"
    /\ UNCHANGED <<dbVars, server, hostVars, bounds>>

\* Smoke test: the digest is still installed and nothing is loaded.
VerifySmoke(j) ==
    /\ pc = "awaiting" /\ Active(j) /\ kind[j] = "model-smoke-test"
    /\ Awaited = {}
    /\ ModelIdle
    /\ pc' = "verified"
    /\ UNCHANGED <<dbVars, server, hostVars, bounds>>

\* The audit record of the success comes before the transition.
AuditVerified(j) ==
    /\ pc = "verified" /\ Active(j)
    /\ Audit(j, "verified")
    /\ pc' = "commit"
    /\ UNCHANGED <<state, kind, metadata, server, hostVars, bounds>>

Succeed(j) ==
    /\ pc = "commit" /\ Active(j)
    /\ Transition(j, "succeeded")
    /\ pc' = "idle"
    /\ UNCHANGED <<kind, metadata, audits, server, hostVars, bounds>>

\* A remote call fails, a check fails, or a record cannot be written: the catch block
\* records the failure, as far as it can ...
Throws(j) ==
    /\ Active(j)
    /\ pc \in {"queued", "preflight", "issue", "awaiting", "verified"}
    /\ FailsBecause(\/ pc = "preflight" /\ ~UnloadPreflight(j) /\ ~SmokePreflight(j)
                    \/ pc = "awaiting" /\ Awaited = {} /\ ~AsRequested(j)
                    \/ pc = "awaiting" /\ Awaited # {} /\ ~IsLifecycle(j) /\ ~running)
    /\ Abandon
    /\ \/ Audit(j, "failed")
       \/ pc \in {"queued", "verified"} /\ UNCHANGED audits
    /\ pc' = "failing"
    /\ UNCHANGED <<state, kind, metadata, server, running, startedAt, installed, loaded,
                   foreign, crashes>>

\* ... and ends the job.  The result of the failure replaces the metadata.
Fail(j) ==
    /\ pc = "failing" /\ Active(j)
    /\ Transition(j, "failed")
    /\ metadata' = [metadata EXCEPT ![j].present = FALSE]
    /\ pc' = "idle"
    /\ UNCHANGED <<kind, audits, server, hostVars, bounds>>

-----------------------------------------------------------------------------
(* Crash, restart and reconciliation.                                      *)

Crash ==
    /\ server # "down"
    /\ crashes < MaxCrashes /\ crashes' = crashes + 1
    /\ server' = "down"
    /\ pc' = IF \E j \in Jobs : Active(j) THEN "pending" ELSE "idle"
    /\ Abandon
    /\ UNCHANGED <<dbVars, running, startedAt, installed, loaded, foreign, faults>>

Restart ==
    /\ server = "down"
    /\ server' = "recovering"
    /\ UNCHANGED <<dbVars, pc, hostVars, bounds>>

Listen ==
    /\ server = "recovering" /\ pc = "idle"
    /\ server' = "up"
    /\ UNCHANGED <<dbVars, pc, hostVars, bounds>>

\* transitionFailed and transitionSucceeded; the audit record follows the transition,
\* and is lost if it cannot be written or if the process dies before it.
Reconciled(j, s) ==
    /\ Transition(j, s)
    /\ \/ Audit(j, IF s = "succeeded" THEN "reconciled_succeeded" ELSE "reconciled_failed")
       \/ UNCHANGED audits
    /\ pc' = "idle"
    /\ UNCHANGED <<kind, metadata, server, hostVars>>

\* RESTART_METADATA_MISSING, TARGET_BINDING_STALE, RESTART_OBSERVATION_FAILED.
ReconcileUnobserved(j) ==
    /\ server = "recovering" /\ pc = "pending" /\ Active(j)
    /\ FailsBecause(~metadata[j].present \/ (~IsLifecycle(j) /\ ~running))
    /\ Reconciled(j, "failed")
    /\ UNCHANGED <<foreign, crashes>>

\* Mutant of ReconcileLifecycle: a container that runs is taken for restarted.
ReconcileLifecycleRunning(j) ==
    /\ server = "recovering" /\ pc = "pending" /\ Active(j)
    /\ metadata[j].present /\ IsLifecycle(j)
    /\ Reconciled(j, IF ContainerAsRequested(j) THEN "succeeded" ELSE "failed")
    /\ UNCHANGED bounds

\* reconcileLifecycle: the container is observed once.
ReconcileLifecycle(j) ==
    /\ server = "recovering" /\ pc = "pending" /\ Active(j)
    /\ metadata[j].present /\ IsLifecycle(j)
    /\ Reconciled(j, IF /\ ContainerAsRequested(j)
                        /\ kind[j] = "container.restart" =>
                               startedAt # metadata[j].initialStartedAt
                     THEN "succeeded" ELSE "failed")
    /\ UNCHANGED bounds

\* reconcileModel: an unload has succeeded if the digest is not loaded; the answer of a
\* smoke test is lost, so that it has failed whatever is observed.
ReconcileModel(j) ==
    /\ server = "recovering" /\ pc = "pending" /\ Active(j)
    /\ metadata[j].present /\ ~IsLifecycle(j) /\ running
    /\ Reconciled(j, IF kind[j] = "model-unload" /\ loaded # Digest
                     THEN "succeeded" ELSE "failed")
    /\ UNCHANGED bounds

-----------------------------------------------------------------------------
(* The specification.                                                      *)

ExecuteStep(j) ==
    \/ RunLifecycle(j) \/ RunModel(j) \/ Preflighted(j) \/ Issue(j)
    \/ VerifyLifecycle(j) \/ VerifyUnload(j) \/ VerifySmoke(j)
    \/ AuditVerified(j) \/ Succeed(j) \/ Throws(j) \/ Fail(j)

ReconcileStep(j) == ReconcileUnobserved(j) \/ ReconcileLifecycle(j) \/ ReconcileModel(j)

HostStep == \E c \in commands : DockerCommand(c) \/ Unload(c) \/ Generate(c) \/ GenerateEnds(c)

Next ==
    \/ \E j \in Jobs : Execute(j) \/ ExecuteStep(j) \/ ReconcileStep(j)
    \/ HostStep \/ OthersAct
    \/ Crash \/ Restart \/ Listen

\* The event loop runs the request, commands end (or the timeout of the request does),
\* and the process is restarted.
Fairness ==
    /\ \A j \in Jobs : WF_vars(ExecuteStep(j)) /\ WF_vars(ReconcileStep(j))
    /\ WF_vars(HostStep)
    /\ WF_vars(Restart) /\ WF_vars(Listen)

Spec == Init /\ [][Next]_vars

FairSpec == Spec /\ Fairness

-----------------------------------------------------------------------------
(* Properties.                                                             *)

\* The type of every variable; commands belong to jobs that have been accepted.
TypeOK ==
    /\ state \in [Jobs -> JobState \cup {"absent"}]
    /\ kind \in [Jobs -> SHORT_KINDS]
    /\ metadata \in [Jobs -> Metadata]
    /\ audits \in [Jobs -> SUBSET AuditRecord]
    /\ server \in {"down", "recovering", "up"} /\ pc \in ProgramCounter
    /\ running \in BOOLEAN /\ startedAt \in Nat /\ {installed, loaded} \subseteq HostDigests
    /\ commands \subseteq [job : {j \in Jobs : state[j] # "absent"},
                            answering : BOOLEAN, awaited : BOOLEAN]
    /\ ~running => loaded = "none"

\* What a verdict of success claims is so when it is reached, by the request or by the
\* reconciliation: the container is in the state asked for, a restart did restart it,
\* the model is not loaded.
TrueVerdict ==
    \A j \in Jobs :
       \/ pc # "verified" /\ pc' = "verified" /\ Active(j)
       \/ server = "recovering" /\ state[j] # "succeeded" /\ state'[j] = "succeeded"
       => /\ AsRequested(j)
          /\ kind[j] = "container.restart" => startedAt # metadata[j].initialStartedAt

VerdictIsTrue == [][TrueVerdict]_vars

\* No success without its record: a job that has succeeded was audited as verified
\* before, unless the reconciliation found it out.
AuditedSuccess ==
    \A j \in Jobs : state[j] # "succeeded" /\ state'[j] = "succeeded" =>
       "verified" \in audits[j] \/ server = "recovering"

SuccessIsAudited == [][AuditedSuccess]_vars

\* The answer of an interrupted smoke test is never made up.
OwnSmokeSuccess ==
    \A j \in Jobs : kind[j] = "model-smoke-test" /\ server = "recovering" =>
       state'[j] # "succeeded" \/ state[j] = "succeeded"

SmokeSuccessIsOwn == [][OwnSmokeSuccess]_vars

=============================================================================
