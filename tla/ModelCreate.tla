---------------------------- MODULE ModelCreate ----------------------------
(***************************************************************************)
(* The deployment of a Modelfile revision as a model on one target: deploy *)
(* plans (apps/api/src/modelfile-deploy-plan.ts and the table of           *)
(* packages/db/src/modelfile-deploy-plans.ts), ModelCreateService          *)
(* (apps/api/src/model-create.ts) with its stream, and the deployment      *)
(* evidence that a trigger of migration 0010 writes when a job succeeds.   *)
(*                                                                         *)
(* A step is one await with what follows it up to the next commit.  All    *)
(* plans deploy to the same model name: that is where they can get into    *)
(* each other's way.  The base model is taken to stay installed, and the   *)
(* binding of the target to stay as it is: a job that has begun holds the  *)
(* lock under which a binding moves.                                       *)
(*                                                                         *)
(* A job is queued only inside the one tick that creates it, consumes its  *)
(* plan and starts its worker.  No cancel request can come in between, so  *)
(* that the queued branch of cancel() is not reachable.                    *)
(***************************************************************************)
EXTENDS JobStates, Naturals

CONSTANTS
    Jobs,       \* start requests, and the jobs that they create
    Plans,      \* deploy plans
    Digests,    \* digests of the model that the plans deploy to
    Product,    \* what Ollama makes of the revision of a plan
    Satisfying, \* the digests whose details pass the verification for a plan
    None,       \* no digest: the model is not installed
    Unread,     \* not read, not planned
    MaxChanges, \* bound on changes of the model by other users of the host
    MaxFaults,  \* bound on remote calls that fail
    MaxCrashes  \* bound on crashes of the API process

ASSUME CreateAssumption ==
    /\ Product \in [Plans -> Digests]
    /\ Satisfying \in [Plans -> SUBSET Digests]
    /\ \A p \in Plans : Product[p] \in Satisfying[p]
    /\ None \notin Digests /\ Unread \notin Digests \cup {None}
    /\ MaxChanges \in Nat /\ MaxFaults \in Nat /\ MaxCrashes \in Nat

VARIABLES
    \* the database
    state,      \* jobs.state, "absent" before the insert
    error,      \* errorClass, "none" if it is null
    evidence,   \* model_digest in the deployment row of a job, None without a row
    audited,    \* terminal audit records of a job
    plan,       \* a plan is "none", "fresh", "consumed" or "expired"
    confirmed,  \* the destination that a plan confirms: a digest, or None
    \* the API process
    server,     \* "up", "closing", "down" or "recovering"
    pc,         \* the request, the worker or the reconciliation of a job
    planOf,     \* the plan that a request has named
    aborted,    \* jobs whose AbortController has fired
    seen,       \* digest that the pending inventory read has found
    shown,      \* model that the pending details read has described
    auditing,   \* jobs between their terminal transition and its audit record
    \* the remote host
    remote,     \* the create request of a job as Ollama sees it
    installed,  \* digest of the installed model
    changes, faults, crashes

dbVars == <<state, error, evidence, audited, plan, confirmed>>
processVars == <<server, pc, planOf, aborted, seen, shown, auditing>>
remoteVars == <<remote, installed, changes>>
vars == <<dbVars, processVars, remoteVars, faults, crashes>>

ErrorClass ==
    {"DEPLOY_PLAN_CONSUME_FAILED", "CREATE_FAILED", "CREATE_STREAM_INCOMPLETE",
     "CREATE_VERIFICATION_FAILED", "CANCEL_UNVERIFIED", "CREATE_INTERRUPTED_BEFORE_START",
     "CREATE_OUTCOME_UNKNOWN", "CREATE_RECONCILIATION_FAILED"}

\* The awaits of a worker: resolveRoute, the stream, the inventory read and the
\* details read; "aborted" is a stream that an abort has rejected.
WorkerPC == {"route", "stream", "aborted", "verify", "details"}

\* Between the insert of a job and its running transition.
StartingPC == {"created", "consumed"}

Active(j) == state[j] \in ACTIVE_STATES

\* No handler is between two commits of one tick.
Calm == auditing = {} /\ \A k \in Jobs : pc[k] \notin StartingPC

Goto(j, label) == pc' = [pc EXCEPT ![j] = label]

Fault == faults < MaxFaults /\ faults' = faults + 1

\* A terminal transition, which JobService never has to refuse here; the audit record is
\* next.
Finish(j, s, e) ==
    /\ state' = [state EXCEPT ![j] = s]
    /\ error' = [error EXCEPT ![j] = e]
    /\ auditing' = auditing \cup {j}

\* fail(): only a job that is not terminal gets there.
Fail(j, e) == Finish(j, "failed", e)

\* The trigger writes the deployment row in the transaction of the transition.
Succeed(j) ==
    /\ Finish(j, "succeeded", "none")
    /\ evidence' = [evidence EXCEPT ![j] = seen[j]]

Forget(j) ==
    /\ seen' = [seen EXCEPT ![j] = Unread]
    /\ shown' = [shown EXCEPT ![j] = Unread]

Init ==
    /\ state = [j \in Jobs |-> "absent"]
    /\ error = [j \in Jobs |-> "none"]
    /\ evidence = [j \in Jobs |-> None]
    /\ audited = [j \in Jobs |-> 0]
    /\ plan = [p \in Plans |-> "none"]
    /\ confirmed = [p \in Plans |-> Unread]
    /\ server = "up"
    /\ pc = [j \in Jobs |-> "idle"]
    /\ planOf = [j \in Jobs |-> Unread]
    /\ aborted = {}
    /\ seen = [j \in Jobs |-> Unread]
    /\ shown = [j \in Jobs |-> Unread]
    /\ auditing = {}
    /\ remote = [j \in Jobs |-> "none"]
    /\ installed \in Digests \cup {None}
    /\ changes = 0 /\ faults = 0 /\ crashes = 0

-----------------------------------------------------------------------------
(* Deploy plans.                                                           *)

\* create(): the plan confirms what the inventory shows, an absent model or, with
\* replaceExisting, the digest to be replaced.  A read that takes its time makes
\* the plan older, and it may get as old as it likes here.
CreatePlan(p) ==
    /\ server = "up" /\ Calm
    /\ plan[p] = "none"
    /\ plan' = [plan EXCEPT ![p] = "fresh"]
    /\ confirmed' = [confirmed EXCEPT ![p] = installed]
    /\ UNCHANGED <<state, error, evidence, audited, processVars, remoteVars, faults, crashes>>

\* Five minutes pass.
Expire(p) ==
    /\ plan[p] = "fresh"
    /\ plan' = [plan EXCEPT ![p] = "expired"]
    /\ UNCHANGED <<state, error, evidence, audited, confirmed, processVars, remoteVars,
                   faults, crashes>>

-----------------------------------------------------------------------------
(* The start request.                                                      *)

\* validatePlanLocal(), then the awaits of the health and inventory reads.
Request(j, p) ==
    /\ server = "up" /\ Calm
    /\ state[j] = "absent" /\ pc[j] = "idle"
    /\ plan[p] = "fresh"
    /\ planOf' = [planOf EXCEPT ![j] = p]
    /\ Goto(j, "checking")
    /\ UNCHANGED <<dbVars, server, aborted, seen, shown, auditing, remoteVars, faults, crashes>>

\* An inventory read finds the model; the caller gets to see it later.
Observe(j) ==
    /\ pc[j] \in {"checking", "verify", "rec_read"}
    /\ seen[j] = Unread
    /\ seen' = [seen EXCEPT ![j] = installed]
    /\ UNCHANGED <<dbVars, server, pc, planOf, aborted, shown, auditing, remoteVars, faults, crashes>>

\* The destination is what the plan confirms, and the lock is free: the job is created.
Accept(j) ==
    /\ pc[j] = "checking" /\ Calm
    /\ seen[j] = confirmed[planOf[j]]
    /\ \A k \in Jobs : ~Active(k)
    /\ state' = [state EXCEPT ![j] = "queued"]
    /\ Goto(j, "created")
    /\ Forget(j)
    /\ UNCHANGED <<error, evidence, audited, plan, confirmed, server, planOf, aborted,
                   auditing, remoteVars, faults, crashes>>

\* The destination is another one, the lock is taken, or a read has failed.
Refuse(j) ==
    /\ pc[j] = "checking" /\ Calm
    /\ Goto(j, "idle")
    /\ Forget(j)
    /\ planOf' = [planOf EXCEPT ![j] = Unread]
    /\ UNCHANGED <<dbVars, server, aborted, auditing, remoteVars, faults, crashes>>

\* Mutant of Consume: the plan is looked up, but not whether it is usable.
ConsumeUnconditional(j) ==
    /\ pc[j] = "created"
    /\ plan' = [plan EXCEPT ![planOf[j]] = "consumed"]
    /\ Goto(j, "consumed")
    /\ UNCHANGED <<state, error, evidence, audited, confirmed, server, planOf, aborted,
                   seen, shown, auditing, remoteVars, faults, crashes>>

\* consumeIfUsable().  The job of a plan that was used or has expired in the
\* meantime fails, and is not audited.
Consume(j) ==
    /\ pc[j] = "created"
    /\ \/ /\ plan[planOf[j]] = "fresh"
          /\ plan' = [plan EXCEPT ![planOf[j]] = "consumed"]
          /\ Goto(j, "consumed")
          /\ UNCHANGED <<state, error>>
       \/ /\ plan[planOf[j]] # "fresh"
          /\ state' = [state EXCEPT ![j] = "failed"]
          /\ error' = [error EXCEPT ![j] = "DEPLOY_PLAN_CONSUME_FAILED"]
          /\ Goto(j, "idle")
          /\ UNCHANGED plan
    /\ UNCHANGED <<evidence, audited, confirmed, server, planOf, aborted, seen, shown,
                   auditing, remoteVars, faults, crashes>>

\* cancel() of a running job: the abort rejects an open stream at once.
Cancel(j) ==
    /\ server = "up" /\ Calm
    /\ state[j] = "running"
    /\ state' = [state EXCEPT ![j] = "cancelling"]
    /\ aborted' = aborted \cup {j}
    /\ pc' = [pc EXCEPT ![j] = IF @ = "stream" THEN "aborted" ELSE @]
    /\ UNCHANGED <<error, evidence, audited, plan, confirmed, server, planOf, seen, shown,
                   auditing, remoteVars, faults, crashes>>

\* auditTerminal().
Audit(j) ==
    /\ j \in auditing
    /\ audited' = [audited EXCEPT ![j] = @ + 1]
    /\ auditing' = auditing \ {j}
    /\ UNCHANGED <<state, error, evidence, plan, confirmed, server, pc, planOf, aborted,
                   seen, shown, remoteVars, faults, crashes>>

-----------------------------------------------------------------------------
(* The worker: run().                                                      *)

\* The running transition, with everything a reconciliation needs to know.
Run(j) ==
    /\ pc[j] = "consumed"
    /\ state' = [state EXCEPT ![j] = "running"]
    /\ Goto(j, "route")
    /\ UNCHANGED <<error, evidence, audited, plan, confirmed, server, planOf, aborted,
                   seen, shown, auditing, remoteVars, faults, crashes>>

\* Mutant of OpenStream: the signal is not looked at before the request is sent.
OpenStreamUnchecked(j) ==
    /\ pc[j] = "route" /\ Calm
    /\ Goto(j, "stream")
    /\ remote' = [remote EXCEPT ![j] = "creating"]
    /\ UNCHANGED <<dbVars, server, planOf, aborted, seen, shown, auditing, installed,
                   changes, faults, crashes>>

\* The route is known: the create is requested, unless the signal has fired.
OpenStream(j) ==
    /\ pc[j] = "route" /\ Calm
    /\ IF j \in aborted
       THEN Goto(j, "aborted") /\ UNCHANGED remote
       ELSE Goto(j, "stream") /\ remote' = [remote EXCEPT ![j] = "creating"]
    /\ UNCHANGED <<dbVars, server, planOf, aborted, seen, shown, auditing, installed,
                   changes, faults, crashes>>

\* The stream ends.  Its success line counts, not its end.
StreamEnds(j) ==
    /\ pc[j] = "stream" /\ Calm
    /\ remote[j] # "creating"
    /\ IF remote[j] = "done"
       THEN Goto(j, "verify") /\ UNCHANGED <<state, error, auditing>>
       ELSE Goto(j, "idle") /\ Fail(j, "CREATE_STREAM_INCOMPLETE")
    /\ UNCHANGED <<evidence, audited, plan, confirmed, server, planOf, aborted, seen,
                   shown, remoteVars, faults, crashes>>

\* The inventory has the model: its details are read next.  Otherwise the job fails.
VerifyPresence(j) ==
    /\ pc[j] = "verify" /\ Calm
    /\ seen[j] # Unread
    /\ IF seen[j] # None
       THEN Goto(j, "details") /\ UNCHANGED <<state, error, seen, shown, auditing>>
       ELSE Goto(j, "idle") /\ Fail(j, "CREATE_VERIFICATION_FAILED") /\ Forget(j)
    /\ UNCHANGED <<evidence, audited, plan, confirmed, server, planOf, aborted, remoteVars,
                   faults, crashes>>

\* A details read describes the model that is installed by then.
ObserveDetails(j) ==
    /\ pc[j] \in {"details", "rec_details"}
    /\ shown[j] = Unread
    /\ shown' = [shown EXCEPT ![j] = installed]
    /\ UNCHANGED <<dbVars, server, pc, planOf, aborted, seen, auditing, remoteVars, faults, crashes>>

\* The details do not pass verifyCompiledModelfileDeploy().
Mismatch(j) ==
    /\ pc[j] = "details" /\ Calm
    /\ shown[j] \in Digests \ Satisfying[planOf[j]]
    /\ Fail(j, "CREATE_VERIFICATION_FAILED")
    /\ Goto(j, "idle")
    /\ Forget(j)
    /\ UNCHANGED <<evidence, audited, plan, confirmed, server, planOf, aborted, remoteVars,
                   faults, crashes>>

\* They pass: the job succeeds with the digest of the inventory, unless it is being
\* cancelled: then the transition is refused, and the outer catch gets that.
Verified(j) ==
    /\ pc[j] = "details" /\ Calm
    /\ shown[j] \in Satisfying[planOf[j]]
    /\ \/ state[j] = "running" /\ Succeed(j)
       \/ state[j] = "cancelling" /\ server = "up" /\ Fail(j, "CANCEL_UNVERIFIED")
                                  /\ UNCHANGED evidence
       \/ state[j] = "cancelling" /\ server = "closing"
                                  /\ UNCHANGED <<state, error, evidence, auditing>>
    /\ Goto(j, "idle")
    /\ Forget(j)
    /\ UNCHANGED <<audited, plan, confirmed, server, planOf, aborted, remoteVars, faults, crashes>>

\* A remote call of the worker throws, an abort and a model without details included.
Throws(j) ==
    \/ /\ \/ pc[j] = "aborted"
          \/ pc[j] = "details" /\ shown[j] = None
       /\ UNCHANGED faults
    \/ /\ \/ pc[j] \in {"route", "stream"}
          \/ pc[j] = "verify" /\ seen[j] = Unread
          \/ pc[j] = "details" /\ shown[j] = Unread
       /\ Fault

\* The outer catch.  A worker that a shutdown has interrupted leaves its job to the
\* reconciliation.
Catch(j) ==
    /\ Calm
    /\ Throws(j)
    /\ Goto(j, "idle")
    /\ \/ /\ server = "closing" /\ j \in aborted
          /\ UNCHANGED <<state, error, auditing>>
       \/ /\ ~(server = "closing" /\ j \in aborted)
          /\ Fail(j, IF state[j] = "cancelling" THEN "CANCEL_UNVERIFIED" ELSE "CREATE_FAILED")
    /\ Forget(j)
    /\ UNCHANGED <<evidence, audited, plan, confirmed, server, planOf, aborted, remoteVars, crashes>>

-----------------------------------------------------------------------------
(* The remote host.                                                        *)

\* Ollama completes a create, for a client that may be gone.
CreateCompletes(j) ==
    /\ remote[j] = "creating"
    /\ remote' = [remote EXCEPT ![j] = "done"]
    /\ installed' = Product[planOf[j]]
    /\ UNCHANGED <<dbVars, processVars, changes, faults, crashes>>

\* Ollama gives a create up: an error, or it has noticed that the client is gone.
CreateStops(j) ==
    /\ remote[j] = "creating"
    /\ \/ pc[j] # "stream" /\ UNCHANGED faults
       \/ pc[j] = "stream" /\ Fault
    /\ remote' = [remote EXCEPT ![j] = "stopped"]
    /\ UNCHANGED <<dbVars, processVars, installed, changes, crashes>>

\* Somebody else deletes the model or installs another one under its name.
OthersChange ==
    /\ changes < MaxChanges
    /\ changes' = changes + 1
    /\ \E d \in (Digests \cup {None}) \ {installed} : installed' = d
    /\ UNCHANGED <<dbVars, processVars, remote, faults, crashes>>

-----------------------------------------------------------------------------
(* Shutdown, crash and reconciliation.                                     *)

\* shutdown(), after the requests in flight have been answered: every controller is
\* aborted.
Shutdown ==
    /\ server = "up" /\ Calm
    /\ \A j \in Jobs : pc[j] # "checking"
    /\ server' = "closing"
    /\ aborted' = aborted \cup {j \in Jobs : pc[j] \in WorkerPC}
    /\ pc' = [j \in Jobs |-> IF pc[j] = "stream" THEN "aborted" ELSE pc[j]]
    /\ UNCHANGED <<dbVars, planOf, seen, shown, auditing, remoteVars, faults, crashes>>

\* What was in memory is gone.  A job keeps its plan in its metadata.
Stopped ==
    /\ server' = "down"
    /\ pc' = [j \in Jobs |-> IF Active(j) THEN "pending" ELSE "idle"]
    /\ planOf' = [j \in Jobs |-> IF state[j] = "absent" THEN Unread ELSE planOf[j]]
    /\ aborted' = {}
    /\ seen' = [j \in Jobs |-> Unread]
    /\ shown' = [j \in Jobs |-> Unread]
    /\ auditing' = {}
    /\ UNCHANGED <<dbVars, remoteVars, faults>>

\* Every worker has settled: the process exits.
Exit ==
    /\ server = "closing" /\ Calm
    /\ \A j \in Jobs : pc[j] = "idle"
    /\ Stopped
    /\ UNCHANGED crashes

Crash ==
    /\ server # "down"
    /\ crashes < MaxCrashes /\ crashes' = crashes + 1
    /\ Stopped

Restart ==
    /\ server = "down"
    /\ server' = "recovering"
    /\ UNCHANGED <<dbVars, pc, planOf, aborted, seen, shown, auditing, remoteVars, faults, crashes>>

Listen ==
    /\ server = "recovering" /\ Calm
    /\ \A j \in Jobs : pc[j] = "idle"
    /\ server' = "up"
    /\ UNCHANGED <<dbVars, pc, planOf, aborted, seen, shown, auditing, remoteVars, faults, crashes>>

\* Mutant of ReconcileUnobserved: a cancelling job is passed over.
ReconcileQueuedOnly(j) ==
    /\ server = "recovering" /\ Calm
    /\ pc[j] = "pending"
    /\ state[j] = "queued"
    /\ Fail(j, "CREATE_INTERRUPTED_BEFORE_START")
    /\ Goto(j, "idle")
    /\ UNCHANGED <<evidence, audited, plan, confirmed, server, planOf, aborted, seen, shown,
                   remoteVars, faults, crashes>>

\* reconcile() of a job that was not running: nothing is observed.
ReconcileUnobserved(j) ==
    /\ server = "recovering" /\ Calm
    /\ pc[j] = "pending"
    /\ state[j] \in {"queued", "cancelling"}
    /\ Fail(j, IF state[j] = "queued" THEN "CREATE_INTERRUPTED_BEFORE_START"
               ELSE "CANCEL_UNVERIFIED")
    /\ Goto(j, "idle")
    /\ UNCHANGED <<evidence, audited, plan, confirmed, server, planOf, aborted, seen, shown,
                   remoteVars, faults, crashes>>

\* reconcile() of a running job: read the inventory ...
ReconcileRead(j) ==
    /\ server = "recovering" /\ Calm
    /\ pc[j] = "pending"
    /\ state[j] = "running"
    /\ \A k \in Jobs : pc[k] \notin {"rec_read", "rec_details"}
    /\ Goto(j, "rec_read")
    /\ UNCHANGED <<dbVars, server, planOf, aborted, seen, shown, auditing, remoteVars,
                   faults, crashes>>

\* ... then the details of a model that is there ...
ReconcilePresence(j) ==
    /\ pc[j] = "rec_read" /\ Calm
    /\ seen[j] # Unread
    /\ IF seen[j] # None
       THEN Goto(j, "rec_details") /\ UNCHANGED <<state, error, seen, shown, auditing>>
       ELSE Goto(j, "idle") /\ Fail(j, "CREATE_OUTCOME_UNKNOWN") /\ Forget(j)
    /\ UNCHANGED <<evidence, audited, plan, confirmed, server, planOf, aborted, remoteVars,
                   faults, crashes>>

\* Mutant of ReconcileVerdict: the presence of the model is enough.
ReconcilePresenceOnly(j) ==
    /\ pc[j] = "rec_details" /\ Calm
    /\ shown[j] \in Digests
    /\ Succeed(j)
    /\ Goto(j, "idle")
    /\ Forget(j)
    /\ UNCHANGED <<audited, plan, confirmed, server, planOf, aborted, remoteVars, faults, crashes>>

\* ... and call it a success if they pass the verification.
ReconcileVerdict(j) ==
    /\ pc[j] = "rec_details" /\ Calm
    /\ \/ shown[j] \in Satisfying[planOf[j]] /\ Succeed(j)
       \/ /\ shown[j] \in Digests \ Satisfying[planOf[j]]
          /\ Fail(j, "CREATE_VERIFICATION_FAILED")
          /\ UNCHANGED evidence
    /\ Goto(j, "idle")
    /\ Forget(j)
    /\ UNCHANGED <<audited, plan, confirmed, server, planOf, aborted, remoteVars, faults, crashes>>

\* A read throws: the start is not blocked, the job fails.
ReconcileFails(j) ==
    /\ Calm
    /\ \/ pc[j] = "rec_read" /\ seen[j] = Unread /\ Fault
       \/ pc[j] = "rec_details" /\ shown[j] = Unread /\ Fault
       \/ pc[j] = "rec_details" /\ shown[j] = None /\ UNCHANGED faults
    /\ Fail(j, "CREATE_RECONCILIATION_FAILED")
    /\ Goto(j, "idle")
    /\ Forget(j)
    /\ UNCHANGED <<evidence, audited, plan, confirmed, server, planOf, aborted, remoteVars, crashes>>

-----------------------------------------------------------------------------

WorkerStep(j) ==
    \/ Consume(j) \/ Run(j)
    \/ Observe(j) \/ OpenStream(j) \/ StreamEnds(j) \/ VerifyPresence(j)
    \/ ObserveDetails(j) \/ Mismatch(j) \/ Verified(j) \/ Catch(j)

ReconcileStep(j) ==
    \/ ReconcileUnobserved(j) \/ ReconcileRead(j) \/ ReconcilePresence(j)
    \/ ReconcileVerdict(j) \/ ReconcileFails(j)

RemoteStep(j) == CreateCompletes(j) \/ CreateStops(j)

Next ==
    \/ \E p \in Plans : CreatePlan(p) \/ Expire(p)
    \/ \E j \in Jobs, p \in Plans : Request(j, p)
    \/ \E j \in Jobs : \/ Accept(j) \/ Refuse(j) \/ Cancel(j) \/ Audit(j)
                       \/ WorkerStep(j) \/ ReconcileStep(j) \/ RemoteStep(j)
    \/ OthersChange
    \/ Shutdown \/ Exit \/ Crash \/ Restart \/ Listen

\* The event loop runs every worker, a create that Ollama has accepted ends (its
\* stream has an idle timeout), and a process that is down is started again.
Fairness ==
    /\ \A j \in Jobs : /\ WF_vars(Audit(j)) /\ WF_vars(WorkerStep(j))
                       /\ WF_vars(ReconcileStep(j)) /\ WF_vars(RemoteStep(j))
    /\ WF_vars(Exit) /\ WF_vars(Restart) /\ WF_vars(Listen)

Spec == Init /\ [][Next]_vars

FairSpec == Spec /\ Fairness

-----------------------------------------------------------------------------
(* Properties.                                                             *)

\* Every variable keeps its type.
TypeOK ==
    /\ state \in [Jobs -> JobState \cup {"absent"}]
    /\ error \in [Jobs -> ErrorClass \cup {"none"}]
    /\ evidence \in [Jobs -> Digests \cup {None}]
    /\ audited \in [Jobs -> Nat]
    /\ plan \in [Plans -> {"none", "fresh", "consumed", "expired"}]
    /\ confirmed \in [Plans -> Digests \cup {None, Unread}]
    /\ server \in {"up", "closing", "down", "recovering"}
    /\ pc \in [Jobs -> WorkerPC \cup StartingPC
                       \cup {"idle", "checking", "pending", "rec_read", "rec_details"}]
    /\ planOf \in [Jobs -> Plans \cup {Unread}]
    /\ aborted \subseteq Jobs /\ auditing \subseteq Jobs
    /\ seen \in [Jobs -> Digests \cup {None, Unread}]
    /\ shown \in [Jobs -> Digests \cup {None, Unread}]
    /\ remote \in [Jobs -> {"none", "creating", "done", "stopped"}]
    /\ installed \in Digests \cup {None}
    /\ changes \in Nat /\ faults \in Nat /\ crashes \in Nat

\* A confirmation is good for one create: however requests, expiry and crashes
\* interleave, no two jobs send what one plan has confirmed.
PlanUsedOnce ==
    \A j, k \in Jobs :
        remote[j] # "none" /\ remote[k] # "none" /\ planOf[j] = planOf[k] => j = k

\* Nobody but job j has touched the model.
Undisturbed(j) == changes = 0 /\ \A k \in Jobs \ {j} : remote[k] = "none"

\* A create that is recorded as a success has left the target with a model of the
\* revision, whoever recorded it: the worker or a reconciliation that has only looked.
SuccessIsDeployed ==
    \A j \in Jobs :
        state[j] = "succeeded" /\ Undisturbed(j) => installed \in Satisfying[planOf[j]]

\* An abort is heeded: no create is sent for a job that is being cancelled, nor
\* after the shutdown has begun.
AbortIsHeeded ==
    [][\A j \in Jobs : remote[j] = "none" /\ remote'[j] = "creating"
          => server = "up" /\ state[j] = "running"]_vars

\* A job that got hold of its plan has exactly one terminal audit record once it has
\* ended, unless the process has crashed in between; no job has two.
AuditedOnce ==
    \A j \in Jobs :
        /\ audited[j] <= 1
        /\ audited[j] = 1 => state[j] \in TERMINAL_STATES
        /\ /\ state[j] \in TERMINAL_STATES /\ j \notin auditing /\ crashes = 0
           /\ error[j] # "DEPLOY_PLAN_CONSUME_FAILED"
           => audited[j] = 1

\* Every create that was accepted ends, across cancellations, shutdowns and crashes.
CreateEnds == \A j \in Jobs : Active(j) ~> state[j] \in TERMINAL_STATES

\* No confirmation is used twice and no end is recorded twice, whatever the order of starts,
\* cancellations, shutdown and crash.
CreateInvariant == TypeOK /\ PlanUsedOnce /\ AuditedOnce

=============================================================================
