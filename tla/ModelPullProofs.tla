-------------------------- MODULE ModelPullProofs --------------------------
(***************************************************************************)
(* Proofs about model pulls, for every set of jobs and digests and every   *)
(* bound on changes, faults and crashes.                                   *)
(*                                                                         *)
(* The inductive invariant says where control may be in each phase of the  *)
(* process, and what a worker knows there: what it has requested, whose    *)
(* abort it has seen, and what the model was when it looked.               *)
(***************************************************************************)
EXTENDS ModelPull, TLAPS

\* Workers live in a process that serves, reconciliations in one that recovers, and each
\* is where the state of its job lets it be.  What was read is forgotten once it was used.
ControlOK ==
    /\ server \in {"up", "closing"} => \A j \in Jobs : pc[j] \in WorkerPC \cup {"idle"}
    /\ server \in {"down", "recovering"} =>
          aborted = {} /\ \A j \in Jobs : pc[j] \in {"idle", "pending", "rec_read"}
    /\ \A j \in Jobs :
          /\ state[j] = "absent" => pc[j] = "idle"
          /\ state[j] = "queued" => pc[j] \in {"idle", "baseline", "pending"}
          /\ state[j] \in {"running", "cancelling"} => pc[j] # "baseline"
          /\ pc[j] = "rec_read" => state[j] = "running"
          /\ pc[j] \notin {"baseline", "verify", "rec_read"} => seen[j] = Unread

\* Nothing is requested for a job before its route is known, and what is verified has been pulled.
RequestOK ==
    \A j \in Jobs :
        /\ state[j] \in {"absent", "queued"} => remote[j] = "none"
        /\ pc[j] = "route" => remote[j] = "none"
        /\ pc[j] = "verify" => remote[j] = "installed"

\* In a process that serves, who aborts a job that still runs is a cancellation.
AbortOK ==
    \A j \in Jobs :
        /\ pc[j] = "aborted" => j \in aborted
        /\ j \in aborted => state[j] \notin {"absent", "queued"}
        /\ server = "up" /\ j \in aborted => state[j] # "running"

\* Nobody but job j has touched the model.
Undisturbed(j) == changes = 0 /\ \A k \in Jobs \ {j} : remote[k] = "none"

\* What was read is still so, as long as only an uncompleted pull has been at the model.
BaselineOK ==
    \A j \in Jobs : Undisturbed(j) /\ remote[j] # "installed" =>
        /\ state[j] \in {"running", "cancelling"} => baseline[j] = installed
        /\ pc[j] \in {"baseline", "rec_read"} /\ seen[j] # Unread => seen[j] = installed

\* A job that waits for its audit record has ended, and only such a job has one.
AuditOK ==
    \A j \in Jobs :
        /\ j \in auditing => state[j] \in TERMINAL_STATES /\ audited[j] = 0
        /\ state[j] \notin TERMINAL_STATES => audited[j] = 0

IInv ==
    /\ TypeOK /\ ControlOK /\ RequestOK /\ AbortOK /\ BaselineOK /\ AuditOK
    /\ CancelledIsClean /\ SuccessIsEarned /\ AuditedOnce

-----------------------------------------------------------------------------
(* The inductive invariant.                                                *)

\* The initial states satisfy the inductive invariant.
LEMMA InitIInv == Init => IInv
<1> SUFFICES ASSUME Init PROVE IInv
  OBVIOUS
<1> USE PullAssumption DEF Init, WorkerPC, TERMINAL_STATES
<1>1. TypeOK
  BY DEF TypeOK
<1>2. ControlOK /\ RequestOK /\ AbortOK /\ BaselineOK /\ AuditOK
  BY DEF ControlOK, RequestOK, AbortOK, BaselineOK, AuditOK
<1>3. CancelledIsClean /\ SuccessIsEarned /\ AuditedOnce
  BY DEF CancelledIsClean, SuccessIsEarned, AuditedOnce
<1> QED BY <1>1, <1>2, <1>3 DEF IInv

\* Every step keeps the types.
LEMMA TypeStep == ASSUME TypeOK, [Next]_vars PROVE TypeOK'
<1> USE PullAssumption DEF dbVars, processVars, remoteVars, Goto, Fault, Finish, Fail, Active, Calm,
           CanTransition, TRANSITIONS, ACTIVE_STATES, TERMINAL_STATES,
           TypeOK, JobState, ErrorClass, WorkerPC
<1>1. ASSUME NEW j \in Jobs, Request(j) \/ Audit(j) PROVE TypeOK'
  BY <1>1 DEF Request, Start, CancelQueued, CancelRunning, Audit
<1>2. ASSUME NEW j \in Jobs, WorkerStep(j) PROVE TypeOK'
  BY <1>2 DEF WorkerStep, Observe, Run, PreflightFails, OpenStream, StreamEnds, Catch, Verified, VerificationFails
<1>3. ASSUME NEW j \in Jobs, ReconcileStep(j) PROVE TypeOK'
  BY <1>3 DEF ReconcileStep, ReconcileUnobserved, ReconcileRead, Reconcile, ReconcileFails
<1>4. ASSUME NEW j \in Jobs, RemoteStep(j) PROVE TypeOK'
  BY <1>4 DEF RemoteStep, PullCompletes, PullStops
<1>5. CASE OthersChange
  BY <1>5 DEF OthersChange
<1>6. CASE Shutdown \/ Exit \/ Crash \/ Restart \/ Listen
  BY <1>6 DEF Shutdown, Exit, Crash, Stopped, Restart, Listen
<1>7. CASE UNCHANGED vars
  BY <1>7 DEF vars
<1> QED BY <1>1, <1>2, <1>3, <1>4, <1>5, <1>6, <1>7 DEF Next

\* Every step keeps control where phase and state let it be.
LEMMA ControlStep == ASSUME IInv, [Next]_vars PROVE ControlOK'
<1> USE PullAssumption DEF dbVars, processVars, remoteVars, Goto, Fault, Finish, Fail, Active, Calm,
           CanTransition, TRANSITIONS, ACTIVE_STATES, TERMINAL_STATES,
           IInv, TypeOK, ControlOK, RequestOK, WorkerPC
<1>1. ASSUME NEW j \in Jobs, Request(j) \/ Audit(j) PROVE ControlOK'
  BY <1>1 DEF Request, Start, CancelQueued, CancelRunning, Audit
<1>2. ASSUME NEW j \in Jobs, WorkerStep(j) PROVE ControlOK'
  BY <1>2 DEF WorkerStep, Observe, Run, PreflightFails, OpenStream, StreamEnds, Catch, Verified, VerificationFails
<1>3. ASSUME NEW j \in Jobs, ReconcileStep(j) PROVE ControlOK'
  BY <1>3 DEF ReconcileStep, ReconcileUnobserved, ReconcileRead, Reconcile, ReconcileFails
<1>4. ASSUME NEW j \in Jobs, RemoteStep(j) PROVE ControlOK'
  BY <1>4 DEF RemoteStep, PullCompletes, PullStops
<1>5. CASE OthersChange
  BY <1>5 DEF OthersChange
<1>6. CASE Shutdown \/ Exit \/ Crash \/ Restart \/ Listen
  BY <1>6 DEF Shutdown, Exit, Crash, Stopped, Restart, Listen
<1>7. CASE UNCHANGED vars
  BY <1>7 DEF vars
<1> QED BY <1>1, <1>2, <1>3, <1>4, <1>5, <1>6, <1>7 DEF Next

\* Every step keeps what is known of the requests.
LEMMA RequestStep == ASSUME IInv, [Next]_vars PROVE RequestOK'
<1> USE PullAssumption DEF dbVars, processVars, remoteVars, Goto, Fault, Finish, Fail, Active, Calm,
           CanTransition, TRANSITIONS, ACTIVE_STATES, TERMINAL_STATES,
           IInv, TypeOK, ControlOK, RequestOK, WorkerPC
<1>1. ASSUME NEW j \in Jobs, Request(j) \/ Audit(j) PROVE RequestOK'
  BY <1>1 DEF Request, Start, CancelQueued, CancelRunning, Audit
<1>2. ASSUME NEW j \in Jobs, WorkerStep(j) PROVE RequestOK'
  BY <1>2 DEF WorkerStep, Observe, Run, PreflightFails, OpenStream, StreamEnds, Catch, Verified, VerificationFails
<1>3. ASSUME NEW j \in Jobs, ReconcileStep(j) PROVE RequestOK'
  BY <1>3 DEF ReconcileStep, ReconcileUnobserved, ReconcileRead, Reconcile, ReconcileFails
<1>4. ASSUME NEW j \in Jobs, RemoteStep(j) PROVE RequestOK'
  BY <1>4 DEF RemoteStep, PullCompletes, PullStops
<1>5. CASE OthersChange
  BY <1>5 DEF OthersChange
<1>6. CASE Shutdown \/ Exit \/ Crash \/ Restart \/ Listen
  BY <1>6 DEF Shutdown, Exit, Crash, Stopped, Restart, Listen
<1>7. CASE UNCHANGED vars
  BY <1>7 DEF vars
<1> QED BY <1>1, <1>2, <1>3, <1>4, <1>5, <1>6, <1>7 DEF Next

\* Every step keeps what is known of the aborts.
LEMMA AbortStep == ASSUME IInv, [Next]_vars PROVE AbortOK'
<1> USE PullAssumption DEF dbVars, processVars, remoteVars, Goto, Fault, Finish, Fail, Active, Calm,
           CanTransition, TRANSITIONS, ACTIVE_STATES, TERMINAL_STATES,
           IInv, TypeOK, ControlOK, AbortOK, WorkerPC
<1>1. ASSUME NEW j \in Jobs, Request(j) \/ Audit(j) PROVE AbortOK'
  BY <1>1 DEF Request, Start, CancelQueued, CancelRunning, Audit
<1>2. ASSUME NEW j \in Jobs, WorkerStep(j) PROVE AbortOK'
  BY <1>2 DEF WorkerStep, Observe, Run, PreflightFails, OpenStream, StreamEnds, Catch, Verified, VerificationFails
<1>3. ASSUME NEW j \in Jobs, ReconcileStep(j) PROVE AbortOK'
  BY <1>3 DEF ReconcileStep, ReconcileUnobserved, ReconcileRead, Reconcile, ReconcileFails
<1>4. ASSUME NEW j \in Jobs, RemoteStep(j) PROVE AbortOK'
  BY <1>4 DEF RemoteStep, PullCompletes, PullStops
<1>5. CASE OthersChange
  BY <1>5 DEF OthersChange
<1>6. CASE Shutdown \/ Exit \/ Crash \/ Restart \/ Listen
  BY <1>6 DEF Shutdown, Exit, Crash, Stopped, Restart, Listen
<1>7. CASE UNCHANGED vars
  BY <1>7 DEF vars
<1> QED BY <1>1, <1>2, <1>3, <1>4, <1>5, <1>6, <1>7 DEF Next

\* Every step keeps what is known of the model before the pull.
LEMMA BaselineStep == ASSUME IInv, [Next]_vars PROVE BaselineOK'
<1> USE PullAssumption DEF dbVars, processVars, remoteVars, Goto, Fault, Finish, Fail, Active, Calm,
           CanTransition, TRANSITIONS, ACTIVE_STATES, TERMINAL_STATES,
           IInv, TypeOK, ControlOK, RequestOK, BaselineOK, Undisturbed, WorkerPC
<1>1. ASSUME NEW j \in Jobs, Request(j) \/ Audit(j) PROVE BaselineOK'
  BY <1>1 DEF Request, Start, CancelQueued, CancelRunning, Audit
<1>2. ASSUME NEW j \in Jobs, WorkerStep(j) PROVE BaselineOK'
  BY <1>2 DEF WorkerStep, Observe, Run, PreflightFails, OpenStream, StreamEnds, Catch, Verified, VerificationFails
<1>3. ASSUME NEW j \in Jobs, ReconcileStep(j) PROVE BaselineOK'
  BY <1>3 DEF ReconcileStep, ReconcileUnobserved, ReconcileRead, Reconcile, ReconcileFails
<1>4. ASSUME NEW j \in Jobs, RemoteStep(j) PROVE BaselineOK'
  BY <1>4 DEF RemoteStep, PullCompletes, PullStops
<1>5. CASE OthersChange
  BY <1>5 DEF OthersChange
<1>6. CASE Shutdown \/ Exit \/ Crash \/ Restart \/ Listen
  BY <1>6 DEF Shutdown, Exit, Crash, Stopped, Restart, Listen
<1>7. CASE UNCHANGED vars
  BY <1>7 DEF vars
<1> QED BY <1>1, <1>2, <1>3, <1>4, <1>5, <1>6, <1>7 DEF Next

\* Every step keeps audit records and ends in agreement.
LEMMA AuditStep == ASSUME IInv, [Next]_vars PROVE AuditOK'
<1> USE PullAssumption DEF dbVars, processVars, remoteVars, Goto, Fault, Finish, Fail, Active, Calm,
           CanTransition, TRANSITIONS, ACTIVE_STATES, TERMINAL_STATES,
           IInv, TypeOK, ControlOK, AuditOK
<1>1. ASSUME NEW j \in Jobs, Request(j) \/ Audit(j) PROVE AuditOK'
  BY <1>1 DEF Request, Start, CancelQueued, CancelRunning, Audit
<1>2. ASSUME NEW j \in Jobs, WorkerStep(j) PROVE AuditOK'
  BY <1>2 DEF WorkerStep, Observe, Run, PreflightFails, OpenStream, StreamEnds, Catch, Verified, VerificationFails
<1>3. ASSUME NEW j \in Jobs, ReconcileStep(j) PROVE AuditOK'
  BY <1>3 DEF ReconcileStep, ReconcileUnobserved, ReconcileRead, Reconcile, ReconcileFails
<1>4. ASSUME NEW j \in Jobs, RemoteStep(j) PROVE AuditOK'
  BY <1>4 DEF RemoteStep, PullCompletes, PullStops
<1>5. CASE OthersChange
  BY <1>5 DEF OthersChange
<1>6. CASE Shutdown \/ Exit \/ Crash \/ Restart \/ Listen
  BY <1>6 DEF Shutdown, Exit, Crash, Stopped, Restart, Listen
<1>7. CASE UNCHANGED vars
  BY <1>7 DEF vars
<1> QED BY <1>1, <1>2, <1>3, <1>4, <1>5, <1>6, <1>7 DEF Next

\* No step cancels a job that has requested a pull, nor requests one for a cancelled job.
LEMMA CleanStep == ASSUME IInv, [Next]_vars PROVE CancelledIsClean'
<1> USE PullAssumption DEF dbVars, processVars, remoteVars, Goto, Fault, Finish, Fail, Active, Calm,
           CanTransition, TRANSITIONS, ACTIVE_STATES, TERMINAL_STATES,
           IInv, TypeOK, ControlOK, RequestOK, CancelledIsClean, WorkerPC
<1>1. ASSUME NEW j \in Jobs, Request(j) \/ Audit(j) PROVE CancelledIsClean'
  BY <1>1 DEF Request, Start, CancelQueued, CancelRunning, Audit
<1>2. ASSUME NEW j \in Jobs, WorkerStep(j) PROVE CancelledIsClean'
  BY <1>2 DEF WorkerStep, Observe, Run, PreflightFails, OpenStream, StreamEnds, Catch, Verified, VerificationFails
<1>3. ASSUME NEW j \in Jobs, ReconcileStep(j) PROVE CancelledIsClean'
  BY <1>3 DEF ReconcileStep, ReconcileUnobserved, ReconcileRead, Reconcile, ReconcileFails
<1>4. ASSUME NEW j \in Jobs, RemoteStep(j) PROVE CancelledIsClean'
  BY <1>4 DEF RemoteStep, PullCompletes, PullStops
<1>5. CASE OthersChange
  BY <1>5 DEF OthersChange
<1>6. CASE Shutdown \/ Exit \/ Crash \/ Restart \/ Listen
  BY <1>6 DEF Shutdown, Exit, Crash, Stopped, Restart, Listen
<1>7. CASE UNCHANGED vars
  BY <1>7 DEF vars
<1> QED BY <1>1, <1>2, <1>3, <1>4, <1>5, <1>6, <1>7 DEF Next

\* No step reports a success that is not earned.
LEMMA EarnedStep == ASSUME IInv, [Next]_vars PROVE SuccessIsEarned'
<1> USE PullAssumption DEF dbVars, processVars, remoteVars, Goto, Fault, Finish, Fail, Active, Calm,
           CanTransition, TRANSITIONS, ACTIVE_STATES, TERMINAL_STATES,
           IInv, TypeOK, ControlOK, RequestOK, BaselineOK, SuccessIsEarned, Undisturbed, WorkerPC
<1>1. ASSUME NEW j \in Jobs, Request(j) \/ Audit(j) PROVE SuccessIsEarned'
  BY <1>1 DEF Request, Start, CancelQueued, CancelRunning, Audit
<1>2. ASSUME NEW j \in Jobs, WorkerStep(j) PROVE SuccessIsEarned'
  BY <1>2 DEF WorkerStep, Observe, Run, PreflightFails, OpenStream, StreamEnds, Catch, Verified, VerificationFails
<1>3. ASSUME NEW j \in Jobs, ReconcileStep(j) PROVE SuccessIsEarned'
  BY <1>3 DEF ReconcileStep, ReconcileUnobserved, ReconcileRead, Reconcile, ReconcileFails
<1>4. ASSUME NEW j \in Jobs, RemoteStep(j) PROVE SuccessIsEarned'
  BY <1>4 DEF RemoteStep, PullCompletes, PullStops
<1>5. CASE OthersChange
  BY <1>5 DEF OthersChange
<1>6. CASE Shutdown \/ Exit \/ Crash \/ Restart \/ Listen
  BY <1>6 DEF Shutdown, Exit, Crash, Stopped, Restart, Listen
<1>7. CASE UNCHANGED vars
  BY <1>7 DEF vars
<1> QED BY <1>1, <1>2, <1>3, <1>4, <1>5, <1>6, <1>7 DEF Next

\* No step loses or repeats an audit record, crashes aside.
LEMMA OnceStep == ASSUME IInv, [Next]_vars PROVE AuditedOnce'
<1> USE PullAssumption DEF dbVars, processVars, remoteVars, Goto, Fault, Finish, Fail, Active, Calm,
           CanTransition, TRANSITIONS, ACTIVE_STATES, TERMINAL_STATES,
           IInv, TypeOK, AuditOK, AuditedOnce
<1>1. ASSUME NEW j \in Jobs, Request(j) \/ Audit(j) PROVE AuditedOnce'
  BY <1>1 DEF Request, Start, CancelQueued, CancelRunning, Audit
<1>2. ASSUME NEW j \in Jobs, WorkerStep(j) PROVE AuditedOnce'
  BY <1>2 DEF WorkerStep, Observe, Run, PreflightFails, OpenStream, StreamEnds, Catch, Verified, VerificationFails
<1>3. ASSUME NEW j \in Jobs, ReconcileStep(j) PROVE AuditedOnce'
  BY <1>3 DEF ReconcileStep, ReconcileUnobserved, ReconcileRead, Reconcile, ReconcileFails
<1>4. ASSUME NEW j \in Jobs, RemoteStep(j) PROVE AuditedOnce'
  BY <1>4 DEF RemoteStep, PullCompletes, PullStops
<1>5. CASE OthersChange
  BY <1>5 DEF OthersChange
<1>6. CASE Shutdown \/ Exit \/ Crash \/ Restart \/ Listen
  BY <1>6 DEF Shutdown, Exit, Crash, Stopped, Restart, Listen
<1>7. CASE UNCHANGED vars
  BY <1>7 DEF vars
<1> QED BY <1>1, <1>2, <1>3, <1>4, <1>5, <1>6, <1>7 DEF Next

-----------------------------------------------------------------------------
(* The theorems.                                                           *)

\* Every behaviour satisfies the inductive invariant.
LEMMA InvariantHolds == Spec => []IInv
<1>1. IInv /\ [Next]_vars => IInv'
  BY TypeStep, ControlStep, RequestStep, AbortStep, BaselineStep, AuditStep, CleanStep,
     EarnedStep, OnceStep DEF IInv
<1> QED BY InitIInv, <1>1, PTL DEF Spec

\* Every variable keeps its type, in every interleaving of pulls, cancellations, shutdowns
\* and crashes.
THEOREM PullTypeCorrect == Spec => []TypeOK
<1>1. IInv => TypeOK
  BY DEF IInv
<1> QED BY InvariantHolds, <1>1, PTL

\* A job that is reported as cancelled has asked Ollama for nothing, and never will.
THEOREM CancelledStaysClean == Spec => []CancelledIsClean
<1>1. IInv => CancelledIsClean
  BY DEF IInv
<1> QED BY InvariantHolds, <1>1, PTL

\* A pull that is reported as succeeded, by its worker or after a crash, has run to its end,
\* if nobody else was at the model.
THEOREM SuccessWasEarned == Spec => []SuccessIsEarned
<1>1. IInv => SuccessIsEarned
  BY DEF IInv
<1> QED BY InvariantHolds, <1>1, PTL

\* A job that has ended has one audit record, none if a crash came in between.
THEOREM EndsAreAuditedOnce == Spec => []AuditedOnce
<1>1. IInv => AuditedOnce
  BY DEF IInv
<1> QED BY InvariantHolds, <1>1, PTL

\* What a pull is reported to have done is what it did, and it is on record once.
THEOREM PullInvariantHolds == Spec => []PullInvariant
<1>1. IInv => PullInvariant
  BY DEF IInv, PullInvariant
<1> QED BY InvariantHolds, <1>1, PTL

\* CANCEL_UNVERIFIED answers a cancellation: no shutdown, fault or crash is taken for one.
THEOREM OnlyCancellationsAreUnverified == Spec => UnverifiedWasCancelled
<1> DEFINE Answered == \A j \in Jobs :
        error'[j] = "CANCEL_UNVERIFIED" /\ error[j] # "CANCEL_UNVERIFIED" => state[j] = "cancelling"
<1>1. ASSUME IInv, [Next]_vars PROVE Answered
  <2> USE PullAssumption DEF dbVars, processVars, remoteVars, Goto, Fault, Finish, Fail, Active,
         Calm, CanTransition, TRANSITIONS, ACTIVE_STATES, TERMINAL_STATES, IInv, TypeOK,
         ControlOK, AbortOK, WorkerPC
  <2>1. ASSUME NEW j \in Jobs, Request(j) \/ Audit(j) PROVE Answered
    BY <1>1, <2>1 DEF Request, Start, CancelQueued, CancelRunning, Audit
  <2>2. ASSUME NEW j \in Jobs, WorkerStep(j) PROVE Answered
    BY <1>1, <2>2 DEF WorkerStep, Observe, Run, PreflightFails, OpenStream, StreamEnds, Catch,
                Verified, VerificationFails
  <2>3. ASSUME NEW j \in Jobs, ReconcileStep(j) PROVE Answered
    BY <1>1, <2>3 DEF ReconcileStep, ReconcileUnobserved, ReconcileRead, Reconcile, ReconcileFails
  <2>4. CASE UNCHANGED error
    BY <2>4
  <2> QED BY <1>1, <2>1, <2>2, <2>3, <2>4
          DEF Next, RemoteStep, PullCompletes, PullStops, OthersChange, Shutdown, Exit, Crash,
              Stopped, Restart, Listen, vars
<1> QED BY InvariantHolds, <1>1, PTL DEF Spec, UnverifiedWasCancelled

-----------------------------------------------------------------------------
(* What the pulls ask of the jobs table.                                   *)

\* Every pull takes the lock of the one target.
JobLocks == [j \in Jobs |-> {"target"}]

AsTable == INSTANCE JobTable WITH Targets <- {"target"}, locks <- JobLocks

\* A job is accepted, moves, or is left alone.
TableStep ==
    \/ \E j \in Jobs : AsTable!Accept(j) \/ \E next \in JobState : AsTable!Move(j, next)
    \/ UNCHANGED state

\* What a request, a worker or a reconciliation does to its job is a step of the jobs table.
LEMMA PullStepOfTable ==
    ASSUME IInv, [Next]_vars
    PROVE  TableStep
<1> USE DEF IInv, dbVars, processVars, remoteVars, Goto
<1>t. state \in [Jobs -> JobState \cup {"absent"}]
  BY DEF TypeOK
<1>0. ASSUME NEW j \in Jobs, NEW s \in JobState, CanTransition(state[j], s),
             state' = [state EXCEPT ![j] = s]
      PROVE  TableStep
  BY <1>0 DEF TableStep, AsTable!Move, AsTable!CanTransition, AsTable!TRANSITIONS,
     CanTransition, TRANSITIONS, JobLocks
<1>1. ASSUME NEW j \in Jobs, NEW e, Fail(j, e) PROVE TableStep
  <2>1. CASE Active(j)
    <3>1. state[j] \in {"queued", "running", "cancelling"}
      BY <2>1 DEF Active, ACTIVE_STATES
    <3>2. CanTransition(state[j], "failed")
      BY <3>1 DEF CanTransition, TRANSITIONS
    <3> QED
      BY <1>0, <1>1, <2>1, <3>2 DEF Fail, Finish, JobState
  <2>2. CASE ~Active(j)
    BY <1>1, <2>2 DEF Fail, TableStep
  <2> QED
    BY <2>1, <2>2
<1>2. ASSUME NEW j \in Jobs, state[j] = "running", Finish(j, "succeeded", "none") PROVE TableStep
  BY <1>0, <1>2 DEF Finish, JobState, CanTransition, TRANSITIONS
<1>3. ASSUME NEW j \in Jobs, Start(j) PROVE TableStep
  BY <1>3 DEF Start, Active, TableStep, AsTable!Accept, AsTable!ACTIVE_STATES, ACTIVE_STATES,
     JobLocks
<1>4. ASSUME NEW j \in Jobs, CancelQueued(j) PROVE TableStep
  BY <1>0, <1>4 DEF CancelQueued, Finish, CanTransition, TRANSITIONS, JobState
<1>5. ASSUME NEW j \in Jobs, CancelRunning(j) PROVE TableStep
  BY <1>0, <1>5 DEF CancelRunning, CanTransition, TRANSITIONS, JobState
<1>6. ASSUME NEW j \in Jobs, Run(j) PROVE TableStep
  <2>1. UNCHANGED state \/ (state[j] = "queued" /\ state' = [state EXCEPT ![j] = "running"])
    BY <1>6 DEF Run
  <2> QED
    BY <1>0, <2>1 DEF TableStep, CanTransition, TRANSITIONS, JobState
<1>7. ASSUME NEW j \in Jobs, WorkerStep(j), ~Run(j), ~UNCHANGED state PROVE TableStep
  <2>1. \/ \E e \in ErrorClass : Fail(j, e)
        \/ state[j] = "running" /\ Finish(j, "succeeded", "none")
    BY <1>7 DEF WorkerStep, Observe, PreflightFails, OpenStream, StreamEnds, Catch, Verified,
       VerificationFails, ErrorClass
  <2> QED
    BY <1>1, <1>2, <2>1
<1>8. ASSUME NEW j \in Jobs, ReconcileStep(j), ~UNCHANGED state PROVE TableStep
  <2>1. Active(j)
    <3>1. state[j] \in {"queued", "cancelling"} \/ pc[j] = "rec_read"
      BY <1>8 DEF ReconcileStep, ReconcileUnobserved, ReconcileRead, Reconcile, ReconcileFails
    <3> QED
      BY <3>1 DEF ControlOK, Active, ACTIVE_STATES
  <2>2. \/ \E e \in ErrorClass : Finish(j, "failed", e)
        \/ state[j] = "running" /\ Finish(j, "succeeded", "none")
    BY <1>8 DEF ReconcileStep, ReconcileUnobserved, ReconcileRead, Reconcile, ReconcileFails,
       ControlOK, ErrorClass
  <2> QED
    BY <1>1, <1>2, <2>1, <2>2 DEF Fail
<1>9. CASE UNCHANGED state
  BY <1>9 DEF TableStep
<1> QED
  BY <1>3, <1>4, <1>5, <1>6, <1>7, <1>8, <1>9
     DEF Next, Request, Audit, RemoteStep, PullCompletes, PullStops, OthersChange, Shutdown,
         Exit, Crash, Stopped, Restart, Listen, vars

\* The pulls keep to the contract of the jobs table: a pull is inserted while no other job is
\* active on the target, and neither its worker, nor a cancellation under its feet, nor a
\* shutdown, nor the reconciliation after a crash asks JobService for a transition that it
\* refuses.
THEOREM PullKeepsContract == Spec => AsTable!TableSpec
<1>1. Init => AsTable!TableInit
  BY DEF Init, AsTable!TableInit, JobLocks
<1>2. IInv /\ [Next]_vars => [AsTable!TableNext]_<<state, JobLocks>>
  BY PullStepOfTable DEF TableStep, AsTable!TableNext, AsTable!JobState, JobState, JobLocks
<1> QED
  BY <1>1, <1>2, InvariantHolds, PTL DEF Spec, AsTable!TableSpec

=============================================================================
