----------------------------- MODULE ModelPull -----------------------------
(***************************************************************************)
(* Model pulls on one target: ModelPullService (apps/api/src/model-pull.ts) *)
(* with the abortable stream of ollama-pull-stream.ts.  A pull is accepted  *)
(* by a request, carried out by a worker that outlives the request, and    *)
(* can be cancelled by another request, interrupted by a shutdown or cut   *)
(* off by a crash; what a crash or a shutdown leaves behind is reconciled  *)
(* before the API listens again.                                           *)
(*                                                                         *)
(* A step is one await with what follows it up to the next commit.  The    *)
(* audit record of a finished job is a commit of its own, after the one    *)
(* that finished the job.                                                  *)
(*                                                                         *)
(* The container binding of a target moves only under its mutation lock,   *)
(* which a pull holds until it ends: assertExpectedBinding does not fail   *)
(* here.  All pulls are pulls of the same model.                           *)
(***************************************************************************)
EXTENDS JobStates, Naturals

CONSTANTS
    Jobs,       \* pull jobs, all on one target
    Digests,    \* digests of the model
    Upstream,   \* the digest that the registry serves
    None,       \* no digest: the model is not installed
    Unread,     \* the inventory has not been read
    MaxChanges, \* bound on changes of the model by other users of the host
    MaxFaults,  \* bound on remote calls that fail
    MaxCrashes  \* bound on crashes of the API process

ASSUME PullAssumption ==
    /\ Upstream \in Digests
    /\ None \notin Digests /\ Unread \notin Digests \cup {None}
    /\ MaxChanges \in Nat /\ MaxFaults \in Nat /\ MaxCrashes \in Nat

VARIABLES
    \* the database
    state,      \* jobs.state, "absent" before the insert
    error,      \* errorClass, "none" if it is null
    baseline,   \* previousDigest in the result of a running job
    audited,    \* terminal audit records of a job
    \* the API process
    server,     \* "up", "closing", "down" or "recovering"
    pc,         \* the worker of a job, or its reconciliation
    aborted,    \* jobs whose AbortController has fired
    seen,       \* what the pending inventory read has found
    auditing,   \* jobs between their terminal transition and its audit record
    \* the remote host
    remote,     \* the pull request of a job as Ollama sees it
    installed,  \* digest of the installed model
    changes, faults, crashes

dbVars == <<state, error, baseline, audited>>
processVars == <<server, pc, aborted, seen, auditing>>
remoteVars == <<remote, installed, changes>>
vars == <<dbVars, processVars, remoteVars, faults, crashes>>

ErrorClass ==
    {"PULL_PREFLIGHT_FAILED", "PULL_FAILED", "PULL_STREAM_INCOMPLETE",
     "PULL_VERIFICATION_FAILED", "CANCEL_UNVERIFIED", "PULL_INTERRUPTED_BEFORE_START",
     "PULL_OUTCOME_UNKNOWN", "PULL_RECONCILIATION_FAILED"}

\* Where the worker awaits: the baseline read, resolveRoute, the stream, the
\* verification read; "aborted" is a stream that an abort has rejected.
WorkerPC == {"baseline", "route", "stream", "aborted", "verify"}

Active(j) == state[j] \in ACTIVE_STATES

\* Between a terminal transition and its audit record nothing else runs.
Calm == auditing = {}

Goto(j, label) == pc' = [pc EXCEPT ![j] = label]

Fault == faults < MaxFaults /\ faults' = faults + 1

\* A terminal transition, which JobService never has to refuse here; the audit record is
\* next.
Finish(j, s, e) ==
    /\ state' = [state EXCEPT ![j] = s]
    /\ error' = [error EXCEPT ![j] = e]
    /\ auditing' = auditing \cup {j}

\* fail(): a job that has already ended is left alone.
Fail(j, e) ==
    \/ Active(j) /\ Finish(j, "failed", e)
    \/ ~Active(j) /\ UNCHANGED <<state, error, auditing>>

Init ==
    /\ state = [j \in Jobs |-> "absent"]
    /\ error = [j \in Jobs |-> "none"]
    /\ baseline = [j \in Jobs |-> None]
    /\ audited = [j \in Jobs |-> 0]
    /\ server = "up"
    /\ pc = [j \in Jobs |-> "idle"]
    /\ aborted = {}
    /\ seen = [j \in Jobs |-> Unread]
    /\ auditing = {}
    /\ remote = [j \in Jobs |-> "none"]
    /\ installed \in Digests \cup {None}
    /\ changes = 0 /\ faults = 0 /\ crashes = 0

-----------------------------------------------------------------------------
(* Requests.                                                               *)

\* start(): the job is created under the mutation lock and its worker begins with
\* the baseline read.
Start(j) ==
    /\ server = "up" /\ Calm
    /\ state[j] = "absent"
    /\ \A k \in Jobs : ~Active(k)
    /\ state' = [state EXCEPT ![j] = "queued"]
    /\ Goto(j, "baseline")
    /\ UNCHANGED <<error, baseline, audited, server, aborted, seen, auditing, remoteVars,
                   faults, crashes>>

\* cancel() of a queued job: it is cancelled at once, under the worker's feet.
CancelQueued(j) ==
    /\ server = "up" /\ Calm
    /\ state[j] = "queued"
    /\ Finish(j, "cancelled", "none")
    /\ UNCHANGED <<baseline, audited, server, pc, aborted, seen, remoteVars, faults, crashes>>

\* cancel() of a running job: the abort rejects an open stream at once.
CancelRunning(j) ==
    /\ server = "up" /\ Calm
    /\ state[j] = "running"
    /\ state' = [state EXCEPT ![j] = "cancelling"]
    /\ aborted' = aborted \cup {j}
    /\ pc' = [pc EXCEPT ![j] = IF @ = "stream" THEN "aborted" ELSE @]
    /\ UNCHANGED <<error, baseline, audited, server, seen, auditing, remoteVars, faults, crashes>>

\* auditTerminal().
Audit(j) ==
    /\ j \in auditing
    /\ audited' = [audited EXCEPT ![j] = @ + 1]
    /\ auditing' = auditing \ {j}
    /\ UNCHANGED <<state, error, baseline, server, pc, aborted, seen, remoteVars, faults, crashes>>

-----------------------------------------------------------------------------
(* The worker: run().                                                      *)

\* An inventory read finds the model; the worker gets to see it later.
Observe(j) ==
    /\ pc[j] \in {"baseline", "verify", "rec_read"}
    /\ seen[j] = Unread
    /\ seen' = [seen EXCEPT ![j] = installed]
    /\ UNCHANGED <<dbVars, server, pc, aborted, auditing, remoteVars, faults, crashes>>

\* Mutant of Run: the pull goes on when the running transition is refused.
RunIgnoresConflict(j) ==
    /\ pc[j] = "baseline" /\ Calm
    /\ seen[j] # Unread
    /\ state' = [state EXCEPT ![j] = IF @ = "queued" THEN "running" ELSE @]
    /\ baseline' = [baseline EXCEPT ![j] = seen[j]]
    /\ Goto(j, "route")
    /\ seen' = [seen EXCEPT ![j] = Unread]
    /\ UNCHANGED <<error, audited, server, aborted, auditing, remoteVars, faults, crashes>>

\* The baseline is read: the job runs, unless it was cancelled in the meantime or
\* the service is shutting down.
Run(j) ==
    /\ pc[j] = "baseline" /\ Calm
    /\ seen[j] # Unread
    /\ \/ /\ server = "up" /\ state[j] = "queued"
          /\ state' = [state EXCEPT ![j] = "running"]
          /\ baseline' = [baseline EXCEPT ![j] = seen[j]]
          /\ Goto(j, "route")
       \/ /\ (server = "closing" \/ state[j] # "queued")
          /\ Goto(j, "idle")
          /\ UNCHANGED <<state, baseline>>
    /\ seen' = [seen EXCEPT ![j] = Unread]
    /\ UNCHANGED <<error, audited, server, aborted, auditing, remoteVars, faults, crashes>>

\* The baseline read throws.
PreflightFails(j) ==
    /\ pc[j] = "baseline" /\ Calm
    /\ seen[j] = Unread /\ Fault
    /\ Goto(j, "idle")
    /\ \/ server = "up" /\ Fail(j, "PULL_PREFLIGHT_FAILED")
       \/ server = "closing" /\ UNCHANGED <<state, error, auditing>>
    /\ UNCHANGED <<baseline, audited, server, aborted, seen, remoteVars, crashes>>

\* The route is known: the pull is requested, unless the signal has fired.
OpenStream(j) ==
    /\ pc[j] = "route" /\ Calm
    /\ IF j \in aborted
       THEN Goto(j, "aborted") /\ UNCHANGED remote
       ELSE Goto(j, "stream") /\ remote' = [remote EXCEPT ![j] = "pulling"]
    /\ UNCHANGED <<dbVars, server, aborted, seen, auditing, installed, changes, faults, crashes>>

\* The stream ends.  Its success line counts, not its end.
StreamEnds(j) ==
    /\ pc[j] = "stream" /\ Calm
    /\ remote[j] # "pulling"
    /\ IF remote[j] = "installed"
       THEN Goto(j, "verify") /\ UNCHANGED <<state, error, auditing>>
       ELSE Goto(j, "idle") /\ Fail(j, "PULL_STREAM_INCOMPLETE")
    /\ UNCHANGED <<baseline, audited, server, aborted, seen, remoteVars, faults, crashes>>

\* Mutant of Catch: an abort by a shutdown is taken for a cancellation.
CatchForgetsShutdown(j) ==
    /\ Calm
    /\ \/ pc[j] = "aborted" /\ UNCHANGED faults
       \/ pc[j] \in {"route", "stream"} /\ Fault
    /\ Goto(j, "idle")
    /\ Fail(j, IF state[j] = "cancelling" \/ pc[j] = "aborted" THEN "CANCEL_UNVERIFIED"
               ELSE "PULL_FAILED")
    /\ UNCHANGED <<baseline, audited, server, aborted, seen, remoteVars, crashes>>

\* The outer catch: resolveRoute or the stream throws, an abort included.  A worker
\* that a shutdown has interrupted leaves its job to the reconciliation.
Catch(j) ==
    /\ Calm
    /\ \/ pc[j] = "aborted" /\ UNCHANGED faults
       \/ pc[j] \in {"route", "stream"} /\ Fault
    /\ Goto(j, "idle")
    /\ \/ /\ server = "closing" /\ j \in aborted
          /\ UNCHANGED <<state, error, auditing>>
       \/ /\ ~(server = "closing" /\ j \in aborted)
          /\ Fail(j, IF state[j] = "cancelling" \/ pc[j] = "aborted" THEN "CANCEL_UNVERIFIED"
                     ELSE "PULL_FAILED")
    /\ UNCHANGED <<baseline, audited, server, aborted, seen, remoteVars, crashes>>

\* The verification read has found the model: the job succeeds, or the transition
\* is refused because a cancellation came first, and the outer catch gets it.
Verified(j) ==
    /\ pc[j] = "verify" /\ Calm
    /\ seen[j] \in Digests
    /\ Goto(j, "idle")
    /\ \/ state[j] = "running" /\ Finish(j, "succeeded", "none")
       \/ state[j] = "cancelling" /\ server = "up" /\ Fail(j, "CANCEL_UNVERIFIED")
       \/ state[j] = "cancelling" /\ server = "closing" /\ UNCHANGED <<state, error, auditing>>
    /\ seen' = [seen EXCEPT ![j] = Unread]
    /\ UNCHANGED <<baseline, audited, server, aborted, remoteVars, faults, crashes>>

\* The verification read finds no model, or throws.
VerificationFails(j) ==
    /\ pc[j] = "verify" /\ Calm
    /\ \/ seen[j] = None /\ UNCHANGED faults
       \/ seen[j] = Unread /\ Fault
    /\ Goto(j, "idle")
    /\ Fail(j, "PULL_VERIFICATION_FAILED")
    /\ seen' = [seen EXCEPT ![j] = Unread]
    /\ UNCHANGED <<baseline, audited, server, aborted, remoteVars, crashes>>

-----------------------------------------------------------------------------
(* The remote host.                                                        *)

\* Ollama completes a pull, for a client that may be gone.
PullCompletes(j) ==
    /\ remote[j] = "pulling"
    /\ remote' = [remote EXCEPT ![j] = "installed"]
    /\ installed' = Upstream
    /\ UNCHANGED <<dbVars, processVars, changes, faults, crashes>>

\* Ollama gives a pull up: an error, or it has noticed that the client is gone.
PullStops(j) ==
    /\ remote[j] = "pulling"
    /\ \/ pc[j] # "stream" /\ UNCHANGED faults
       \/ pc[j] = "stream" /\ Fault
    /\ remote' = [remote EXCEPT ![j] = "stopped"]
    /\ UNCHANGED <<dbVars, processVars, installed, changes, crashes>>

\* Somebody else deletes the model or installs another version of it.
OthersChange ==
    /\ changes < MaxChanges
    /\ changes' = changes + 1
    /\ \E d \in (Digests \cup {None}) \ {installed} : installed' = d
    /\ UNCHANGED <<dbVars, processVars, remote, faults, crashes>>

-----------------------------------------------------------------------------
(* Shutdown, crash and reconciliation.                                     *)

\* shutdown(): every controller is aborted.  A job has one while it is in the try
\* block of run(), from the running transition on.
Shutdown ==
    /\ server = "up" /\ Calm
    /\ server' = "closing"
    /\ aborted' = aborted \cup {j \in Jobs : pc[j] \in {"route", "stream", "verify"}}
    /\ pc' = [j \in Jobs |-> IF pc[j] = "stream" THEN "aborted" ELSE pc[j]]
    /\ UNCHANGED <<dbVars, seen, auditing, remoteVars, faults, crashes>>

Stopped ==
    /\ server' = "down"
    /\ pc' = [j \in Jobs |-> IF Active(j) THEN "pending" ELSE "idle"]
    /\ aborted' = {}
    /\ seen' = [j \in Jobs |-> Unread]
    /\ auditing' = {}
    /\ UNCHANGED <<dbVars, remoteVars, faults>>

\* Every worker has settled: the process exits.
Exit ==
    /\ server = "closing" /\ Calm
    /\ \A j \in Jobs : pc[j] = "idle"
    /\ Stopped
    /\ UNCHANGED crashes

Crash ==
    /\ server # "down"
    /\ crashes < MaxCrashes /\ crashes' = crashes + 1
    /\ Stopped

Restart ==
    /\ server = "down"
    /\ server' = "recovering"
    /\ UNCHANGED <<dbVars, pc, aborted, seen, auditing, remoteVars, faults, crashes>>

Listen ==
    /\ server = "recovering" /\ Calm
    /\ \A j \in Jobs : pc[j] = "idle"
    /\ server' = "up"
    /\ UNCHANGED <<dbVars, pc, aborted, seen, auditing, remoteVars, faults, crashes>>

\* Mutant of ReconcileUnobserved: a cancelling job is passed over.
ReconcileQueuedOnly(j) ==
    /\ server = "recovering" /\ Calm
    /\ pc[j] = "pending"
    /\ state[j] = "queued"
    /\ Finish(j, "failed", "PULL_INTERRUPTED_BEFORE_START")
    /\ Goto(j, "idle")
    /\ UNCHANGED <<baseline, audited, server, aborted, seen, remoteVars, faults, crashes>>

\* reconcile() of a job that was not running: nothing is observed.
ReconcileUnobserved(j) ==
    /\ server = "recovering" /\ Calm
    /\ pc[j] = "pending"
    /\ state[j] \in {"queued", "cancelling"}
    /\ Finish(j, "failed", IF state[j] = "queued" THEN "PULL_INTERRUPTED_BEFORE_START"
                           ELSE "CANCEL_UNVERIFIED")
    /\ Goto(j, "idle")
    /\ UNCHANGED <<baseline, audited, server, aborted, seen, remoteVars, faults, crashes>>

\* reconcile() of a running job: read the inventory ...
ReconcileRead(j) ==
    /\ server = "recovering" /\ Calm
    /\ pc[j] = "pending"
    /\ state[j] = "running"
    /\ Goto(j, "rec_read")
    /\ UNCHANGED <<dbVars, server, aborted, seen, auditing, remoteVars, faults, crashes>>

\* ... and call the pull a success if the model is there and is not what it was.
Reconcile(j) ==
    /\ pc[j] = "rec_read" /\ Calm
    /\ seen[j] # Unread
    /\ IF seen[j] # None /\ seen[j] # baseline[j]
       THEN Finish(j, "succeeded", "none")
       ELSE Finish(j, "failed", "PULL_OUTCOME_UNKNOWN")
    /\ Goto(j, "idle")
    /\ seen' = [seen EXCEPT ![j] = Unread]
    /\ UNCHANGED <<baseline, audited, server, aborted, remoteVars, faults, crashes>>

\* The read throws: the start is not blocked, the job fails.
ReconcileFails(j) ==
    /\ pc[j] = "rec_read" /\ Calm
    /\ seen[j] = Unread /\ Fault
    /\ Finish(j, "failed", "PULL_RECONCILIATION_FAILED")
    /\ Goto(j, "idle")
    /\ UNCHANGED <<baseline, audited, server, aborted, seen, remoteVars, crashes>>

-----------------------------------------------------------------------------

Request(j) == Start(j) \/ CancelQueued(j) \/ CancelRunning(j)

WorkerStep(j) ==
    \/ Observe(j) \/ Run(j) \/ PreflightFails(j) \/ OpenStream(j) \/ StreamEnds(j)
    \/ Catch(j) \/ Verified(j) \/ VerificationFails(j)

ReconcileStep(j) ==
    ReconcileUnobserved(j) \/ ReconcileRead(j) \/ Reconcile(j) \/ ReconcileFails(j)

RemoteStep(j) == PullCompletes(j) \/ PullStops(j)

Next ==
    \/ \E j \in Jobs : \/ Request(j) \/ Audit(j) \/ WorkerStep(j) \/ ReconcileStep(j)
                       \/ RemoteStep(j)
    \/ OthersChange
    \/ Shutdown \/ Exit \/ Crash \/ Restart \/ Listen

\* The event loop runs every worker, a pull that Ollama has accepted ends (its
\* stream has an idle timeout), and a process that is down is started again.
\* Nobody has to send a request, and nobody has to shut the service down.
Fairness ==
    /\ \A j \in Jobs : /\ WF_vars(Audit(j)) /\ WF_vars(WorkerStep(j))
                       /\ WF_vars(ReconcileStep(j)) /\ WF_vars(RemoteStep(j))
    /\ WF_vars(Exit) /\ WF_vars(Restart) /\ WF_vars(Listen)

Spec == Init /\ [][Next]_vars /\ Fairness

-----------------------------------------------------------------------------
(* Properties.                                                             *)

TypeOK ==
    /\ state \in [Jobs -> JobState \cup {"absent"}]
    /\ error \in [Jobs -> ErrorClass \cup {"none"}]
    /\ baseline \in [Jobs -> Digests \cup {None}]
    /\ audited \in [Jobs -> Nat]
    /\ server \in {"up", "closing", "down", "recovering"}
    /\ pc \in [Jobs -> WorkerPC \cup {"idle", "pending", "rec_read"}]
    /\ aborted \subseteq Jobs /\ auditing \subseteq Jobs
    /\ seen \in [Jobs -> Digests \cup {None, Unread}]
    /\ remote \in [Jobs -> {"none", "pulling", "installed", "stopped"}]
    /\ installed \in Digests \cup {None}
    /\ changes \in Nat /\ faults \in Nat /\ crashes \in Nat

\* A job reported as cancelled has never asked Ollama for anything and never will:
\* once a pull has been requested, its cancellation cannot be verified.
CancelledIsClean ==
    \A j \in Jobs : state[j] = "cancelled" =>
        remote[j] = "none" /\ pc[j] \in {"idle", "baseline"}

\* A pull that nobody else interfered with and that is reported as succeeded has
\* run to its end, whether its worker or a later process reports it.
SuccessIsEarned ==
    \A j \in Jobs :
        /\ state[j] = "succeeded" /\ changes = 0
        /\ \A k \in Jobs \ {j} : remote[k] = "none"
        => remote[j] = "installed"

\* CANCEL_UNVERIFIED answers a cancel request; a shutdown is not one.
UnverifiedWasCancelled ==
    [][\A j \in Jobs : error'[j] = "CANCEL_UNVERIFIED" /\ error[j] # "CANCEL_UNVERIFIED"
          => state[j] = "cancelling"]_vars

\* A job has at most one terminal audit record, none before it has ended, and one
\* if no crash came between its end and the record.
AuditedOnce ==
    \A j \in Jobs :
        /\ audited[j] <= 1
        /\ audited[j] = 1 => state[j] \in TERMINAL_STATES
        /\ state[j] \in TERMINAL_STATES /\ j \notin auditing /\ crashes = 0 => audited[j] = 1

\* Every pull that was accepted ends, across cancellations, shutdowns and crashes.
PullEnds == \A j \in Jobs : Active(j) ~> state[j] \in TERMINAL_STATES

\* Whatever the order of cancellation, shutdown, crash and stream: what a pull is reported
\* to have done is what it did, and it is on record once.
PullInvariant == TypeOK /\ CancelledIsClean /\ SuccessIsEarned /\ AuditedOnce

=============================================================================
